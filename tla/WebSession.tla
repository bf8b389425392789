------------------------------ MODULE WebSession ------------------------------
(***************************************************************************)
(* The session of the browser: its restore when the page loads             *)
(* (AuthInitializer.tsx), the way to the authorization server and back     *)
(* (LoginModal.tsx, OAuthCallback.tsx), the refresher that keeps it alive  *)
(* (SessionRefresher.tsx), and the sign-out (useAuth.ts), over             *)
(* lib/atproto/session.ts. The store of tokens is the library's: a stored  *)
(* session is good, due (its access token is over, its refresh token is    *)
(* not) or dead.                                                           *)
(***************************************************************************)
EXTENDS Naturals

CONSTANTS WsUser, WsNoUser,   \* accounts, and none
          WsActs, WsFaults    \* bounds: what the user does, requests that fail

VARIABLES
    wsStore,    \* the stored session of each account
    wsSession,  \* sessionAtom
    wsProfile,  \* authProfileAtom
    wsAsking,   \* getProfile under way: [user, restore]
    wsLoading,  \* authLoadingAtom
    wsRestore,  \* the restore of this page: the account it asks about
    wsCallback, \* the callback page: [step, user]
    wsRefresh,  \* the refresher: [step, user]
    wsModal,    \* the login modal: [open, busy], or the page is "away"
    wsEnding,   \* the session a sign-out is ending
    wsCount     \* [acts, faults]

wsVars == <<wsStore, wsSession, wsProfile, wsAsking, wsLoading, wsRestore, wsCallback,
            wsRefresh, wsModal, wsEnding, wsCount>>

NoCallback == [step |-> "none", user |-> WsNoUser]
Disarmed   == [step |-> "off", user |-> WsNoUser]
ModalShut  == [open |-> FALSE, busy |-> FALSE, away |-> FALSE]

\* The first stored session; without one the restore has nothing to ask.
FirstStored(store) ==
    LET stored == {d \in WsUser : store[d] # "none"}
    IN  IF stored = {} THEN {WsNoUser} ELSE stored

WsInit ==
    /\ wsStore \in [WsUser -> {"none", "good", "due", "dead"}]
    /\ wsSession = WsNoUser /\ wsProfile = WsNoUser /\ wsAsking = {}
    /\ wsRestore \in FirstStored(wsStore) /\ wsLoading = (wsRestore # WsNoUser)
    /\ wsCallback = NoCallback /\ wsRefresh = Disarmed
    /\ wsModal = ModalShut /\ wsEnding = WsNoUser
    /\ wsCount = [acts |-> 0, faults |-> 0]

SessionAct   == wsCount.acts < WsActs /\ wsCount' = [wsCount EXCEPT !.acts = @ + 1]
SessionFault == wsCount.faults < WsFaults /\ wsCount' = [wsCount EXCEPT !.faults = @ + 1]
InPage       == ~wsModal.away

\* sessionAtom is set, and the refresher follows the account: it is armed for a new one,
\* goes on for the same one, and stops without one.
SetSession(user) ==
    /\ wsSession' = user
    /\ wsRefresh' = IF user = WsNoUser THEN Disarmed
                    ELSE IF user = wsSession THEN wsRefresh
                    ELSE [step |-> "armed", user |-> user]

Unset(user) == wsStore' = [wsStore EXCEPT ![user] = "none"]

-----------------------------------------------------------------------------
(* The page loads.                                                         *)

\* The page is loaded anew, from the callback or not: all but the store is gone.
LoadPage(callback) ==
    /\ wsSession' = WsNoUser /\ wsProfile' = WsNoUser /\ wsAsking' = {}
    /\ wsRestore' \in FirstStored(wsStore) /\ wsLoading' = (wsRestore' # WsNoUser)
    /\ wsCallback' = callback /\ wsRefresh' = Disarmed
    /\ wsModal' = ModalShut /\ wsEnding' = WsNoUser
    /\ UNCHANGED wsStore

Reload == SessionAct /\ LoadPage(NoCallback)

\* The user comes back from the authorization server, with a code for an account.
Return(user) ==
    /\ wsModal.away
    /\ LoadPage([step |-> "finalizing", user |-> user])
    /\ UNCHANGED wsCount

\* restoreSession: the stored session is refreshed when it is due. A dead one is dropped;
\* when the network fails the stale one is used. The answer is set whatever was set
\* meanwhile.
SessionRestored ==
    /\ InPage /\ wsRestore # WsNoUser
    /\ wsRestore' = WsNoUser
    /\ LET d == wsRestore
       IN  \/ /\ wsStore[d] \in {"good", "due"}
              /\ SetSession(d) /\ wsStore' = [wsStore EXCEPT ![d] = "good"] /\ UNCHANGED wsCount
           \/ /\ wsStore[d] \in {"dead", "none"}
              /\ SetSession(WsNoUser) /\ Unset(d) /\ UNCHANGED wsCount
           \/ /\ wsStore[d] # "good" /\ SessionFault /\ UNCHANGED wsStore
              /\ SetSession(d) \/ SetSession(WsNoUser)
    /\ IF wsSession' = WsNoUser
       THEN wsLoading' = FALSE /\ UNCHANGED wsAsking
       ELSE wsAsking' = wsAsking \cup {[user |-> wsRestore, restore |-> TRUE]} /\ UNCHANGED wsLoading
    /\ UNCHANGED <<wsProfile, wsCallback, wsModal, wsEnding>>

\* The profile is best-effort, and set whoever is signed in when it arrives; with it the
\* restore is over.
ProfileArrives == \E asked \in wsAsking :
    /\ InPage
    /\ wsAsking' = wsAsking \ {asked}
    /\ wsProfile' \in {asked.user, wsProfile}
    /\ wsLoading' = (wsLoading /\ ~asked.restore)
    /\ UNCHANGED <<wsStore, wsSession, wsRestore, wsCallback, wsRefresh, wsModal,
                   wsEnding, wsCount>>

\* finishLogin: the code is exchanged once, and the session is stored and set.
FinishLogin ==
    /\ InPage /\ wsCallback.step = "finalizing"
    /\ wsCallback' = [wsCallback EXCEPT !.step = "done"]
    /\ wsStore' = [wsStore EXCEPT ![wsCallback.user] = "good"]
    /\ SetSession(wsCallback.user) /\ wsLoading' = FALSE
    /\ wsAsking' = wsAsking \cup {[user |-> wsCallback.user, restore |-> FALSE]}
    /\ UNCHANGED <<wsProfile, wsRestore, wsModal, wsEnding, wsCount>>

FinishFails ==
    /\ InPage /\ wsCallback.step = "finalizing" /\ SessionFault
    /\ wsCallback' = [wsCallback EXCEPT !.step = "failed"]
    /\ UNCHANGED <<wsStore, wsSession, wsProfile, wsAsking, wsLoading, wsRestore,
                   wsRefresh, wsModal, wsEnding>>

-----------------------------------------------------------------------------
(* The user signs in and out.                                              *)

\* The button, or an action that needs an account (useRequireAuth).
OpenLogin ==
    /\ InPage /\ ~wsModal.open
    /\ wsModal' = [wsModal EXCEPT !.open = TRUE]
    /\ UNCHANGED <<wsStore, wsSession, wsProfile, wsAsking, wsLoading, wsRestore,
                   wsCallback, wsRefresh, wsEnding, wsCount>>

CloseLogin ==
    /\ InPage /\ wsModal.open
    /\ wsModal' = [wsModal EXCEPT !.open = FALSE]
    /\ UNCHANGED <<wsStore, wsSession, wsProfile, wsAsking, wsLoading, wsRestore,
                   wsCallback, wsRefresh, wsEnding, wsCount>>

\* startLogin and startSignup: the address of the authorization server is made, and the
\* page goes there, whether the modal is still open or not.
StartLogin ==
    /\ InPage /\ wsModal.open /\ ~wsModal.busy /\ SessionAct
    /\ wsModal' = [wsModal EXCEPT !.busy = TRUE]
    /\ UNCHANGED <<wsStore, wsSession, wsProfile, wsAsking, wsLoading, wsRestore,
                   wsCallback, wsRefresh, wsEnding>>

ToProvider ==
    /\ InPage /\ wsModal.busy
    /\ wsModal' = [wsModal EXCEPT !.away = TRUE]
    /\ UNCHANGED <<wsStore, wsSession, wsProfile, wsAsking, wsLoading, wsRestore,
                   wsCallback, wsRefresh, wsEnding, wsCount>>

StartFails ==
    /\ InPage /\ wsModal.busy /\ SessionFault
    /\ wsModal' = [wsModal EXCEPT !.busy = FALSE]
    /\ UNCHANGED <<wsStore, wsSession, wsProfile, wsAsking, wsLoading, wsRestore,
                   wsCallback, wsRefresh, wsEnding>>

\* logout: the tokens are revoked and dropped, and then the page is signed out.
Logout ==
    /\ InPage /\ wsSession # WsNoUser /\ wsEnding = WsNoUser /\ SessionAct
    /\ wsEnding' = wsSession
    /\ UNCHANGED <<wsStore, wsSession, wsProfile, wsAsking, wsLoading, wsRestore,
                   wsCallback, wsRefresh, wsModal>>

LogoutDone ==
    /\ InPage /\ wsEnding # WsNoUser
    /\ Unset(wsEnding) /\ SetSession(WsNoUser)
    /\ wsProfile' = WsNoUser /\ wsEnding' = WsNoUser
    /\ UNCHANGED <<wsAsking, wsLoading, wsRestore, wsCallback, wsModal, wsCount>>

-----------------------------------------------------------------------------
(* The refresher.                                                          *)

\* Time: access tokens run out, and the refresh token of a page that was not able to use
\* it in time.
Lapse(d) ==
    /\ SessionFault
    /\ \/ wsStore[d] = "good" /\ wsStore' = [wsStore EXCEPT ![d] = "due"]
       \/ wsStore[d] = "due" /\ wsStore' = [wsStore EXCEPT ![d] = "dead"]
    /\ UNCHANGED <<wsSession, wsProfile, wsAsking, wsLoading, wsRestore, wsCallback,
                   wsRefresh, wsModal, wsEnding>>

\* The timer: half a minute before the token runs out, within bounds.
RefreshTick ==
    /\ InPage /\ wsRefresh.step = "armed"
    /\ wsRefresh' = [wsRefresh EXCEPT !.step = "asking"]
    /\ UNCHANGED <<wsStore, wsSession, wsProfile, wsAsking, wsLoading, wsRestore,
                   wsCallback, wsModal, wsEnding, wsCount>>

\* Fault: the first failure is the last try.
RefreshRetry_Never == wsRefresh' = Disarmed

\* A failure that need not last: once more, in a minute.
RefreshRetry == wsRefresh' = [wsRefresh EXCEPT !.step = "armed"]

\* refreshSession answers: the token is good again; or it is dead, is dropped, and the
\* page is signed out; or the store has no such session any more, or the network fails.
RefresherDone ==
    /\ InPage /\ wsRefresh.step = "asking"
    /\ LET d == wsRefresh.user
       IN  \/ /\ wsStore[d] \in {"good", "due"}
              /\ wsStore' = [wsStore EXCEPT ![d] = "good"]
              /\ wsRefresh' = [wsRefresh EXCEPT !.step = "armed"]
              /\ UNCHANGED <<wsSession, wsCount>>
           \/ wsStore[d] = "dead" /\ Unset(d) /\ SetSession(WsNoUser) /\ UNCHANGED wsCount
           \/ wsStore[d] = "none" /\ RefreshRetry /\ UNCHANGED <<wsStore, wsSession,
                                                                 wsCount>>
           \/ SessionFault /\ RefreshRetry /\ UNCHANGED <<wsStore, wsSession>>
    /\ UNCHANGED <<wsProfile, wsAsking, wsLoading, wsRestore, wsCallback, wsModal,
                   wsEnding>>

WsNext ==
    \/ Reload \/ SessionRestored \/ ProfileArrives \/ FinishLogin \/ FinishFails
    \/ \E user \in WsUser : Return(user) \/ Lapse(user)
    \/ OpenLogin \/ CloseLogin \/ StartLogin \/ ToProvider \/ StartFails
    \/ Logout \/ LogoutDone \/ RefreshTick \/ RefresherDone

WsSpec == WsInit /\ [][WsNext]_wsVars

\* Timers fire and requests are answered.
WsFairness ==
    /\ WF_wsVars(SessionRestored) /\ WF_wsVars(FinishLogin) /\ WF_wsVars(LogoutDone)
    /\ WF_wsVars(RefreshTick) /\ WF_wsVars(RefresherDone)

-----------------------------------------------------------------------------
(* Properties.                                                             *)

\* "a dead session never masquerades as authenticated" (session.ts): a page that shows an
\* account whose refresh token is dead does not go on doing so, through restores that fell
\* back on a stale session, failed refreshes, and reloads.
DeadSessionEnds == \A d \in WsUser :
    wsSession = d /\ wsStore[d] = "dead" ~> wsSession # d \/ wsStore[d] # "dead" \/ ~InPage

\* "the user lands back on atradio.fm already authenticated" (session.ts): once the code
\* is exchanged the page shows that account, until the user or its tokens end that.
LandsAuthenticated ==
    [][wsCallback.step = "done" /\ wsSession = wsCallback.user /\ wsSession' # wsSession
       => LogoutDone \/ LoadPage(wsCallback') \/ wsStore[wsSession] = "dead"]_wsVars
=============================================================================
