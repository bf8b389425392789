---------------------------- MODULE MobileScreens ----------------------------
(***************************************************************************)
(* The screens of the phone app over each other (App.tsx): the tabs, the   *)
(* sheets for signing in, for registering a station (RegisterStation.tsx), *)
(* for the directory (StationCollection.tsx), the discussion, the audio    *)
(* settings and the player, and who opens which from where; with the       *)
(* account that comes and goes under them.                                 *)
(***************************************************************************)
EXTENDS Naturals, SequencesExt

CONSTANTS MsUser, MsNoUser,   \* accounts, and none
          MsActs              \* bound: what the user does

VARIABLES
    msUser,   \* the account the screens show
    msTab,    \* the tab
    msOpen,   \* the sheets that are open, the one on top last
    msAfter,  \* registerAfterLogin
    msSaving, \* the write of the form that is open, or 0
    msWrites, \* the registrations under way, those of closed forms too: [n, user]
    msAdded,  \* registered here, before they are indexed: whose stations
    msAsked,  \* history: a wish for the registration form stands
    msActs

msVars == <<msUser, msTab, msOpen, msAfter, msSaving, msWrites, msAdded, msAsked, msActs>>

Tabs   == {"Discover", "Search", "Library", "Profile"}

MsInit ==
    /\ msUser \in MsUser \cup {MsNoUser} /\ msTab = "Discover" /\ msOpen = <<>>
    /\ msAfter = FALSE /\ msSaving = 0 /\ msWrites = {} /\ msAdded = {}
    /\ msAsked = FALSE /\ msActs = 0

ScreenAct == msActs < MsActs /\ msActs' = msActs + 1

IsOpen(s)     == \E i \in DOMAIN msOpen : msOpen[i] = s
Top(s)        == msOpen # <<>> /\ msOpen[Len(msOpen)] = s     \* what can be touched
NoSheet       == msOpen = <<>>
Place(s)      == CHOOSE i \in DOMAIN msOpen : msOpen[i] = s
Without(s)    == IF IsOpen(s) THEN RemoveAt(msOpen, Place(s)) ELSE msOpen   \* each is there once
Opened(sheets, s) == IF \E i \in DOMAIN sheets : sheets[i] = s THEN sheets ELSE Append(sheets, s)

-----------------------------------------------------------------------------
(* The account.                                                            *)

\* Fault: a sign-in that is closed remembers what it was for.
AfterClosedLogin_Remembers == msAfter

\* Closing the sign-in forgets the registration it was for.
AfterClosedLogin == FALSE

LoginClosed ==
    /\ Top("login") /\ ScreenAct
    /\ msOpen' = Without("login")
    /\ msAfter' = AfterClosedLogin /\ msAsked' = IsOpen("register")
    /\ UNCHANGED <<msUser, msTab, msSaving, msWrites, msAdded>>

\* onAuth: the sign-in succeeds, and goes on to the registration it was for.
OnAuth(user) ==
    /\ IsOpen("login")
    /\ msUser' = user
    /\ msOpen' = IF msAfter THEN Opened(Without("login"), "register") ELSE Without("login")
    /\ msAfter' = FALSE
    /\ UNCHANGED <<msTab, msSaving, msWrites, msAdded, msAsked, msActs>>

\* The runtime restores, refreshes or loses the session, whatever is open.
AuthChanges(user) ==
    /\ user # msUser /\ ScreenAct
    /\ msUser' = user
    /\ UNCHANGED <<msTab, msOpen, msAfter, msSaving, msWrites, msAdded, msAsked>>

\* Sign out, on the profile: what was added here goes too.
ScreensSignOut ==
    /\ NoSheet /\ msTab = "Profile" /\ msUser # MsNoUser /\ ScreenAct
    /\ msUser' = MsNoUser /\ msAdded' = {}
    /\ UNCHANGED <<msTab, msOpen, msAfter, msSaving, msWrites, msAsked>>

-----------------------------------------------------------------------------
(* From screen to screen.                                                  *)

ToTab(tab) ==
    /\ NoSheet /\ tab # msTab /\ msTab' = tab
    /\ UNCHANGED <<msUser, msOpen, msAfter, msSaving, msWrites, msAdded, msAsked,
                   msActs>>

\* The header, the sign-in buttons, the banner that asks to reconnect: the account, or
\* the sign-in.
Account ==
    /\ NoSheet /\ ScreenAct
    /\ \/ msUser # MsNoUser /\ msTab' = "Profile" /\ UNCHANGED msOpen
       \/ msOpen' = <<"login">> /\ UNCHANGED msTab
    /\ UNCHANGED <<msUser, msAfter, msSaving, msWrites, msAdded, msAsked>>

\* openRegister: from the tabs and the profile, or from the directory, which closes.
OpenRegister ==
    /\ (NoSheet \/ Top("directory")) /\ ScreenAct
    /\ msAsked' = TRUE
    /\ IF msUser # MsNoUser
       THEN msOpen' = Opened(Without("directory"), "register") /\ UNCHANGED msAfter
       ELSE msOpen' = Opened(Without("directory"), "login") /\ msAfter' = TRUE
    /\ UNCHANGED <<msUser, msTab, msSaving, msWrites, msAdded>>

\* A sheet opens over the screen, or in the place of the sheet it is opened from.
Opens(s) ==
    /\ ScreenAct
    /\ msOpen' = IF NoSheet THEN <<s>> ELSE Opened(SubSeq(msOpen, 1, Len(msOpen) - 1), s)
    /\ UNCHANGED <<msUser, msTab, msAfter, msSaving, msWrites, msAdded, msAsked>>

OpenDirectory == NoSheet /\ msTab = "Discover" /\ Opens("directory")

\* The mini player.
OpenPlayer == NoSheet /\ Opens("player")

OpenSettings == ((NoSheet /\ msTab = "Profile") \/ Top("player")) /\ Opens("settings")

\* The balloon of a station's row, in the lists, the player and the directory.
OpenDiscussion == (NoSheet \/ Top("player") \/ Top("directory")) /\ Opens("discussion")

\* The heart of a user who may not use it, and the discussion of a user without account.
OpenLogin ==
    /\ NoSheet \/ Top("player") \/ Top("directory") \/ (Top("discussion") /\ msUser = MsNoUser)
    /\ Opens("login")

Closes(s) ==
    /\ Top(s) /\ msOpen' = Without(s)
    /\ UNCHANGED <<msUser, msTab, msAfter, msWrites, msAdded, msActs>>

ClosePlayer     == Closes("player") /\ UNCHANGED <<msSaving, msAsked>>
CloseSettings   == Closes("settings") /\ UNCHANGED <<msSaving, msAsked>>
CloseDiscussion == Closes("discussion") /\ UNCHANGED <<msSaving, msAsked>>

\* By its button, or by playing one of its stations.
CloseDirectory  == Closes("directory") /\ UNCHANGED <<msSaving, msAsked>>

\* The form is unmounted; a write of it goes on.
CloseRegister   == Closes("register") /\ msSaving' = 0 /\ msAsked' = msAfter

-----------------------------------------------------------------------------
(* Registering.                                                            *)

\* save: one write at a time for a form. The write goes on when the form is closed, and
\* the next form knows nothing of it.
SaveForm ==
    /\ Top("register") /\ msSaving = 0 /\ ScreenAct
    /\ msSaving' = msActs + 1
    /\ msWrites' = msWrites \cup {[n |-> msActs + 1, user |-> msUser]}
    /\ UNCHANGED <<msUser, msTab, msOpen, msAfter, msAdded, msAsked>>

\* onCreated: the station is shown at the head of the lists, in the directory, which
\* opens; the form that is open closes, this write's or not.
Created(write) ==
    /\ write.user # MsNoUser
    /\ msWrites' = msWrites \ {write} /\ msSaving' = 0
    /\ msAdded' = msAdded \cup {write.user}
    /\ msOpen' = Opened(Without("register"), "directory")
    /\ msAsked' = (msAsked /\ (~IsOpen("register") \/ msAfter))
    /\ UNCHANGED <<msUser, msTab, msAfter, msActs>>

\* Nobody is signed in, or the write fails: an error of the form.
FormFails(write) ==
    /\ msWrites' = msWrites \ {write}
    /\ msSaving' = IF msSaving = write.n THEN 0 ELSE msSaving
    /\ UNCHANGED <<msUser, msTab, msOpen, msAfter, msAdded, msAsked, msActs>>

MsNext ==
    \/ LoginClosed \/ ScreensSignOut \/ Account \/ OpenRegister
    \/ \E user \in MsUser : OnAuth(user)
    \/ \E user \in MsUser \cup {MsNoUser} : AuthChanges(user)
    \/ \E tab \in Tabs : ToTab(tab)
    \/ OpenDirectory \/ OpenPlayer \/ OpenSettings \/ OpenDiscussion \/ OpenLogin
    \/ ClosePlayer \/ CloseSettings \/ CloseDiscussion \/ CloseDirectory \/ CloseRegister
    \/ SaveForm
    \/ \E write \in msWrites : Created(write) \/ FormFails(write)

MsSpec == MsInit /\ [][MsNext]_msVars

-----------------------------------------------------------------------------
(* Properties.                                                             *)

\* The registration form is open only for a user who asked for it: a sign-in that was
\* opened for it and given up does not bring it back when the user signs in later, for
\* something else.
FormWasAskedFor == IsOpen("register") => msAsked
=============================================================================
