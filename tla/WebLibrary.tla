------------------------------ MODULE WebLibrary ------------------------------
(***************************************************************************)
(* The favorites and the own stations of the browser's user: the lists the *)
(* atoms show (atoms/favorites.ts, atoms/customStations.ts), the           *)
(* repository they are loaded from with each session (UserDataSync.tsx),   *)
(* the form that adds a station (AddStationModal.tsx), and the profile     *)
(* page they are removed on (ProfilePage.tsx).                             *)
(***************************************************************************)
EXTENDS Naturals, FiniteSets

CONSTANTS WlUser, WlNoUser,  \* accounts, and none
          WlStation,         \* stations
          WlActs, WlFaults   \* bounds: what users do, requests that fail

VARIABLES
    wlUser,   \* client and did
    wlShown,  \* the lists on the screen: [fav, own]
    wlRepo,   \* each user's records
    wlLoads,  \* loads on their way: [user, live, read, data]
    wlOps,    \* writes on their way: [user, list, op, st, before, after]
    wlForm,   \* the form: [open, step, skip, play]
    wlTab,    \* the tab of the profile page
    wlDirty,  \* history: what the lists show is not certain any more
    wlDoubt,  \* history: what failed writes had changed all the same: <<list, station>>
    wlCount   \* [acts, faults]

wlVars == <<wlUser, wlShown, wlRepo, wlLoads, wlOps, wlForm, wlTab, wlDirty,
           wlDoubt, wlCount>>

List   == {"fav", "own"}
Closed == [open |-> FALSE, step |-> "form", skip |-> FALSE, play |-> FALSE]

WlInit ==
    /\ wlUser = WlNoUser
    /\ wlShown = [l \in List |-> {}]
    /\ wlRepo = [u \in WlUser |-> [l \in List |-> {}]]
    /\ wlLoads = {} /\ wlOps = {} /\ wlForm = Closed /\ wlTab = "fav"
    /\ wlDirty = FALSE /\ wlDoubt = {} /\ wlCount = [acts |-> 0, faults |-> 0]

UserDoes  == wlCount.acts < WlActs /\ wlCount' = [wlCount EXCEPT !.acts = @ + 1]
Breaks    == wlCount.faults < WlFaults /\ wlCount' = [wlCount EXCEPT !.faults = @ + 1]
LoadLives == \E ld \in wlLoads : ld.live
Underway(st)  == \E op \in wlOps : op.st = st /\ op.user = wlUser
Show(list, stations) == wlShown' = [wlShown EXCEPT ![list] = stations]

-----------------------------------------------------------------------------
(* Loading.                                                                *)

\* A session begins, ends or is renewed: the lists are cleared without one, and loaded
\* anew with one; a load under way is cancelled.
LibrarySession(user) ==
    /\ UserDoes
    /\ wlUser' = user
    /\ wlLoads' = {[ld EXCEPT !.live = FALSE] : ld \in wlLoads} \cup
                  (IF user = WlNoUser THEN {}
                   ELSE {[user |-> user, live |-> TRUE, read |-> FALSE,
                          data |-> [l \in List |-> {}]]})
    /\ wlShown' = IF user = WlNoUser THEN [l \in List |-> {}] ELSE wlShown
    /\ wlDirty' = \E op \in wlOps : op.user = user
    /\ wlDoubt' = {}
    /\ wlForm' = wlForm
    /\ UNCHANGED <<wlRepo, wlOps, wlTab>>

\* The repository answers, and the answer arrives.
ListsAnswered == \E ld \in wlLoads :
    /\ ~ld.read
    /\ wlLoads' = (wlLoads \ {ld}) \cup {[ld EXCEPT !.read = TRUE, !.data = wlRepo[ld.user]]}
    /\ UNCHANGED <<wlUser, wlShown, wlRepo, wlOps, wlForm, wlTab, wlDirty, wlDoubt, wlCount>>

Loaded == \E ld \in wlLoads :
    /\ ld.read
    /\ wlLoads' = wlLoads \ {ld}
    /\ wlShown' = IF ld.live THEN ld.data ELSE wlShown
    /\ UNCHANGED <<wlUser, wlRepo, wlOps, wlForm, wlTab, wlDirty, wlDoubt, wlCount>>

LoadFails == \E ld \in wlLoads :
    /\ Breaks
    /\ wlLoads' = wlLoads \ {ld}
    /\ wlDirty' = (wlDirty \/ ld.live)
    /\ UNCHANGED <<wlUser, wlShown, wlRepo, wlOps, wlForm, wlTab, wlDoubt>>

-----------------------------------------------------------------------------
(* Changing.                                                               *)

\* What is shown, and may be wrong: a load, or another write of the station, is under way.
Starts(list, op, st, after) ==
    /\ Cardinality(wlOps) < 2
    /\ wlOps' = wlOps \cup {[user |-> wlUser, list |-> list, op |-> op, st |-> st,
                             before |-> wlShown[list], after |-> after]}
    /\ wlDirty' = (wlDirty \/ LoadLives \/ Underway(st))
    /\ Show(list, after)

\* toggleFavoriteAtom, behind a sign-in: shown at once.
ToggleFavorite(st) ==
    /\ wlUser # WlNoUser /\ UserDoes
    /\ IF st \in wlShown["fav"] THEN Starts("fav", "delete", st, wlShown["fav"] \ {st})
                                ELSE Starts("fav", "put", st, wlShown["fav"] \cup {st})
    /\ UNCHANGED <<wlUser, wlRepo, wlLoads, wlForm, wlTab, wlDoubt>>

\* removeCustomStationAtom, from the tab of the own stations: shown at once.
RemoveCustomStation(st) ==
    /\ wlUser # WlNoUser /\ wlTab = "own" /\ st \in wlShown["own"] /\ UserDoes
    /\ Starts("own", "delete", st, wlShown["own"] \ {st})
    /\ UNCHANGED <<wlUser, wlRepo, wlLoads, wlForm, wlTab, wlDoubt>>

LibraryTab == \E tab \in {"fav", "own", "recent"} :
    /\ tab # wlTab /\ wlTab' = tab
    /\ UNCHANGED <<wlUser, wlShown, wlRepo, wlLoads, wlOps, wlForm, wlDirty, wlDoubt, wlCount>>

FormBusy == wlForm.step \in {"probe", "save"}

\* The form opens behind a sign-in; what is under way goes on when it closes.
OpenForm ==
    /\ wlUser # WlNoUser /\ ~wlForm.open
    /\ wlForm' = [(IF FormBusy THEN wlForm ELSE Closed) EXCEPT !.open = TRUE]
    /\ UNCHANGED <<wlUser, wlShown, wlRepo, wlLoads, wlOps, wlTab, wlDirty, wlDoubt, wlCount>>

CloseForm ==
    /\ wlForm.open
    /\ wlForm' = IF FormBusy THEN [wlForm EXCEPT !.open = FALSE] ELSE Closed
    /\ UNCHANGED <<wlUser, wlShown, wlRepo, wlLoads, wlOps, wlTab, wlDirty, wlDoubt, wlCount>>

\* Save, save and play: the stream is probed first, and after a failed probe "add anyway"
\* may skip that.
SubmitForm == \E play \in BOOLEAN :
    /\ wlForm.open /\ wlForm.step \in {"form", "refused"} /\ UserDoes
    /\ wlForm' = [wlForm EXCEPT !.step = "probe", !.play = play]
    /\ UNCHANGED <<wlUser, wlShown, wlRepo, wlLoads, wlOps, wlTab, wlDirty, wlDoubt>>

AddAnyway ==
    /\ wlForm.open /\ wlForm.step = "refused" /\ UserDoes
    /\ wlForm' = [wlForm EXCEPT !.step = "probe", !.skip = TRUE, !.play = FALSE]
    /\ UNCHANGED <<wlUser, wlShown, wlRepo, wlLoads, wlOps, wlTab, wlDirty, wlDoubt>>

ProbeFails ==
    /\ wlForm.step = "probe" /\ ~wlForm.skip
    /\ wlForm' = [wlForm EXCEPT !.step = "refused"]
    /\ UNCHANGED <<wlUser, wlShown, wlRepo, wlLoads, wlOps, wlTab, wlDirty, wlDoubt, wlCount>>

\* addCustomStationAtom: written first, shown when that is done; nobody signed in is an
\* error of the form. Every creation makes a record of its own, a station the repository
\* has not.
AddCustomStation(st) ==
    /\ wlForm.step = "probe"
    /\ st \notin wlShown["own"] /\ ~Underway(st)
    /\ IF wlUser = WlNoUser
       THEN wlForm' = [wlForm EXCEPT !.step = "refused"] /\ UNCHANGED <<wlShown, wlOps,
                                                                        wlDirty>>
       ELSE /\ st \notin wlRepo[wlUser]["own"]
            /\ Starts("own", "create", st, wlShown["own"])
            /\ wlForm' = [wlForm EXCEPT !.step = "save"]
    /\ UNCHANGED <<wlUser, wlRepo, wlLoads, wlTab, wlDoubt, wlCount>>

\* What a write makes of the stations recorded.
CarriedOut(op, stations) == IF op.op = "delete" THEN stations \ {op.st} ELSE stations \cup {op.st}

\* The repository carries a write out, and the answer arrives with that: a station
\* created joins the list on the screen, whoever is signed in by now.
Done == \E op \in wlOps :
    /\ wlOps' = wlOps \ {op}
    /\ wlRepo' = [wlRepo EXCEPT ![op.user][op.list] = CarriedOut(op, @)]
    /\ IF op.op = "create"
       THEN /\ Show("own", wlShown["own"] \cup {op.st})
            /\ wlForm' = Closed
            /\ wlDirty' = (wlDirty \/ LoadLives \/ op.user # wlUser)
       ELSE /\ wlDirty' = (wlDirty \/ (LoadLives /\ op.user = wlUser))
            /\ UNCHANGED <<wlShown, wlForm>>
    /\ UNCHANGED <<wlUser, wlLoads, wlTab, wlDoubt, wlCount>>

\* Fault: a failed write stays on the screen.
RolledBack_Shown(op) == UNCHANGED wlShown

\* The rollback: the list is what it was before the write, whatever happened since.
RolledBack(op) == IF op.op = "create" THEN UNCHANGED wlShown ELSE Show(op.list, op.before)

\* A write fails, before or after the repository has carried it out: its answer was lost,
\* or the put landed and the removal of the station's older records failed. Both are
\* rolled back.
Fail == \E op \in wlOps, landed \in BOOLEAN :
    /\ Breaks
    /\ wlOps' = wlOps \ {op}
    /\ IF landed
       THEN /\ wlRepo' = [wlRepo EXCEPT ![op.user][op.list] = CarriedOut(op, @)]
            /\ wlDoubt' = wlDoubt \cup {<<op.list, op.st>>}
       ELSE UNCHANGED <<wlRepo, wlDoubt>>
    /\ RolledBack(op)
    /\ wlForm' = IF op.op = "create" THEN [wlForm EXCEPT !.step = "form"] ELSE wlForm
    /\ wlDirty' = (wlDirty \/ op.user # wlUser \/ wlShown[op.list] # op.after \/ LoadLives
                           \/ \E o \in wlOps \ {op} : o.list = op.list)
    /\ UNCHANGED <<wlUser, wlLoads, wlTab>>

WlNext ==
    \/ \E user \in WlUser \cup {WlNoUser} : LibrarySession(user)
    \/ ListsAnswered \/ Loaded \/ LoadFails
    \/ \E st \in WlStation : ToggleFavorite(st) \/ RemoveCustomStation(st) \/ AddCustomStation(st)
    \/ LibraryTab \/ OpenForm \/ CloseForm \/ SubmitForm \/ AddAnyway \/ ProbeFails
    \/ Done \/ Fail

WlSpec == WlInit /\ [][WlNext]_wlVars

-----------------------------------------------------------------------------
(* Properties.                                                             *)

\* When nothing is under way the lists show of every station what the repository holds,
\* failed writes rolled back. Uncertain, until the next session, are a station changed
\* twice at once or before its list was loaded, a rollback over a later change, an answer
\* that comes in another session, and the station of a failed write that had landed:
\* the rollback of favorites.ts:76-95 cannot tell, after agent.ts:138-158 has put the record
\* and failed to remove the older ones, that there is one.
LibraryShown ==
    wlUser # WlNoUser /\ wlOps = {} /\ wlLoads = {} /\ ~wlDirty =>
        \A list \in List, st \in WlStation :
            \/ <<list, st>> \in wlDoubt
            \/ st \in wlShown[list] <=> st \in wlRepo[wlUser][list]
=============================================================================
