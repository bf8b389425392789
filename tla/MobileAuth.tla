------------------------------ MODULE MobileAuth ------------------------------
(***************************************************************************)
(* The mobile app's accounts: the OAuth runtime in the hidden WebView      *)
(* (auth/runtime.ts), the sign-in screen (SignIn.tsx) and the account the  *)
(* app shows (App.tsx).  Commands arrive in order and their synchronous    *)
(* part is one step; what follows an await is a task, which the runtime    *)
(* counts by generation.  atcute's stored sessions and the answers of      *)
(* getSession, createAuthorizationUrl and finalizeAuthorization are the    *)
(* environment: a session that is gone answers as a revoked one.           *)
(***************************************************************************)
EXTENDS Naturals, FiniteSets

CONSTANTS
    Did,      \* accounts
    NoDid,    \* no account
    MaxGen,   \* bound: how often `generation` grows
    MaxTask   \* bound: tasks under way

ASSUME MobileAuthAssumption ==
    NoDid \notin Did /\ MaxGen \in Nat /\ MaxTask \in Nat

VARIABLES
    rt,       \* the runtime's `state`
    prev,     \* previousState
    gen,      \* generation
    store,    \* listStoredSessions()
    tasks,    \* what awaits in the runtime
    screen,   \* SignIn: "closed", "form", "busy", or "page" with the provider's page
    appDid,   \* the account of authAtom
    waiting,  \* App.tsx: restoring
    intent    \* history: the last wish, "sign in", "cancel", "log out", or "none"

authVars == <<rt, prev, gen, store, tasks, screen, appDid, waiting, intent>>

\* "offered" is an authorizing state that carries the provider's url.
RtState == {"signedOut", "starting", "offered", "authorizing", "restoring",
            "signedIn", "error"}
Plain(s)    == [s |-> s, did |-> NoDid]
SignedIn(d) == [s |-> "signedIn", did |-> d]
SignedOut   == Plain("signedOut")
Task        == [kind : {"url", "finalize", "restore", "refresh", "action", "logout"},
                gen : 0..MaxGen, did : Did \cup {NoDid}, left : SUBSET Did]

AuthInit ==
    /\ rt = SignedOut
    /\ prev = SignedOut
    /\ gen = 0
    /\ store \in {{}} \cup {{d} : d \in Did}
    /\ tasks = {}
    /\ screen = "closed"
    /\ appDid = NoDid
    /\ waiting = FALSE
    /\ intent = "none"

-----------------------------------------------------------------------------
(* The runtime.                                                            *)

Spawn(kind, g, d, left) ==
    /\ Cardinality(tasks) < MaxTask
    /\ tasks' = tasks \cup {[kind |-> kind, gen |-> g, did |-> d, left |-> left]}

Bump == gen < MaxGen /\ gen' = gen + 1

\* getSession: fresh, from the cache while offline, or a TokenRefreshError.
SessionAnswers(d) == IF d \in store THEN {"ok", "offline", "revoked"} ELSE {"revoked"}

\* Fault: the result of a task is not checked against the generation.
Settle_AnyGeneration(t, next) == rt' = next

\* task(): a result counts only in the generation that asked for it.
Settle(t, next) == rt' = IF t.gen = gen THEN next ELSE rt

\* authStart, authSignup.
AuthStart ==
    /\ Bump
    /\ prev' = IF rt.s = "signedIn" THEN rt ELSE SignedOut
    /\ rt' = Plain("starting")
    /\ Spawn("url", gen', NoDid, {})

UrlCreated == \E t \in tasks :
    /\ t.kind = "url"
    /\ tasks' = tasks \ {t}
    /\ \E next \in {Plain("offered"), Plain("error")} : Settle(t, next)
    /\ UNCHANGED <<prev, gen, store, screen, appDid, waiting, intent>>

\* authCallback: it keeps the generation of the authStart before it.
AuthCallback(d) ==
    /\ rt' = Plain("authorizing")
    /\ Spawn("finalize", gen, d, {})

\* finalizeAuthorization stores the session; a superseded one is deleted again.
Finalized == \E t \in tasks :
    /\ t.kind = "finalize"
    /\ tasks' = tasks \ {t}
    /\ \/ /\ store' = IF t.gen = gen THEN store \cup {t.did} ELSE store \ {t.did}
          /\ Settle(t, SignedIn(t.did))
       \/ UNCHANGED store /\ Settle(t, Plain("error"))
    /\ UNCHANGED <<prev, gen, screen, appDid, waiting, intent>>

\* authCancel.
AuthCancel ==
    /\ Bump
    /\ rt' = IF rt.s \in {"starting", "offered", "authorizing", "error"}
             THEN prev ELSE rt
    /\ intent' = "cancel"

\* authRestore, sent once as the app starts.
AuthRestore ==
    /\ gen = 0 /\ Bump
    /\ rt' = Plain("restoring")
    /\ \E d \in IF store = {} THEN {NoDid} ELSE store : Spawn("restore", gen', d, {})
    /\ waiting' = TRUE
    /\ intent' = "sign in"
    /\ UNCHANGED <<prev, store, screen, appDid>>

Restored == \E t \in tasks :
    /\ t.kind = "restore"
    /\ tasks' = tasks \ {t}
    /\ \E answer \in SessionAnswers(t.did) :
         /\ store' = IF answer = "revoked" THEN store \ {t.did} ELSE store
         /\ Settle(t, IF answer = "revoked" THEN SignedOut ELSE SignedIn(t.did))
    /\ UNCHANGED <<prev, gen, screen, appDid, waiting, intent>>

\* Fault: only a reply that is signed in is taken.
Shown_SignedIn(next) == IF next.s = "signedIn" THEN next.did ELSE appDid

\* What App.tsx makes of a reply to authRefresh.
Shown(next) == IF next.s \in {"signedIn", "signedOut"} THEN next.did ELSE appDid

\* authRefresh, every minute and on return to the foreground, one at a time.
AuthRefresh ==
    /\ appDid # NoDid
    /\ ~\E t \in tasks : t.kind = "refresh"
    /\ IF rt.s = "signedIn"
       THEN Spawn("refresh", gen, rt.did, {appDid}) /\ UNCHANGED appDid
       ELSE appDid' = Shown(rt) /\ UNCHANGED tasks
    /\ UNCHANGED <<rt, prev, gen, store, screen, waiting, intent>>

\* Its reply counts only while the app still shows the account that asked.
Refreshed == \E t \in tasks :
    /\ t.kind = "refresh"
    /\ tasks' = tasks \ {t}
    /\ \E answer \in SessionAnswers(t.did) :
         /\ store' = IF answer = "revoked" /\ t.gen = gen
                     THEN store \ {t.did} ELSE store
         /\ rt' = CASE t.gen = gen /\ answer = "ok"      -> SignedIn(t.did)
                    [] t.gen = gen /\ answer = "revoked" -> SignedOut
                    [] OTHER                             -> rt
    /\ appDid' = IF appDid \in t.left THEN Shown(rt') ELSE appDid
    /\ UNCHANGED <<prev, gen, screen, waiting, intent>>

\* stationAction, up to its getSession.
StationAction ==
    /\ appDid # NoDid
    /\ rt = SignedIn(appDid)
    /\ Spawn("action", gen, rt.did, {})
    /\ UNCHANGED <<rt, prev, gen, store, screen, appDid, waiting, intent>>

\* A revoked session signs the runtime and the app out; otherwise the action goes on
\* to its write or is refused: the account changed.
Acted == \E t \in tasks :
    /\ t.kind = "action"
    /\ tasks' = tasks \ {t}
    /\ \E answer \in SessionAnswers(t.did) :
         IF answer = "revoked"
         THEN store' = store \ {t.did} /\ rt' = SignedOut /\ appDid' = NoDid
         ELSE UNCHANGED <<store, rt, appDid>>
    /\ UNCHANGED <<prev, gen, screen, waiting, intent>>

\* authLogout: the sessions stored now are signed out one after the other.
AuthLogout ==
    /\ appDid # NoDid /\ screen = "closed"
    /\ ~\E t \in tasks : t.kind = "logout"
    /\ Bump
    /\ rt' = SignedOut
    /\ prev' = SignedOut
    /\ Spawn("logout", gen', NoDid, store)
    /\ intent' = "log out"
    /\ UNCHANGED <<store, screen, appDid, waiting>>

\* Fault: authLogout does not delete the stored session.
LogoutStep_Kept(t, d) ==
    /\ store' = store
    /\ tasks' = (tasks \ {t}) \cup {[t EXCEPT !.left = @ \ {d}]}

LogoutStep(t, d) ==
    /\ store' = store \ {d}
    /\ tasks' = (tasks \ {t}) \cup {[t EXCEPT !.left = @ \ {d}]}

LoggingOut == \E t \in tasks : \E d \in t.left :
    /\ t.kind = "logout"
    /\ LogoutStep(t, d)
    /\ UNCHANGED <<rt, prev, gen, screen, appDid, waiting, intent>>

\* The reply: the app shows nobody.
LoggedOut == \E t \in tasks :
    /\ t.kind = "logout" /\ t.left = {}
    /\ tasks' = tasks \ {t}
    /\ appDid' = NoDid
    /\ UNCHANGED <<rt, prev, gen, store, screen, waiting, intent>>

-----------------------------------------------------------------------------
(* The sign-in screen and the app.                                         *)

OpenScreen ==
    /\ screen = "closed" /\ gen > 0
    /\ screen' = "form"
    /\ UNCHANGED <<rt, prev, gen, store, tasks, appDid, waiting, intent>>

\* startAuth: not while busy.
StartAuth ==
    /\ screen = "form"
    /\ screen' = "busy"
    /\ AuthStart
    /\ intent' = "sign in"
    /\ UNCHANGED <<store, appDid, waiting>>

\* The screen's poll of authStatus.
PollScreen ==
    /\ screen \in {"busy", "page"}
    /\ CASE rt.s = "offered"  -> screen' = "page"   /\ UNCHANGED appDid
         [] rt.s = "signedIn" -> screen' = "closed" /\ appDid' = rt.did
         [] rt.s = "error"    -> screen' = "form"   /\ UNCHANGED appDid
         [] OTHER             -> UNCHANGED <<screen, appDid>>
    /\ UNCHANGED <<rt, prev, gen, store, tasks, waiting, intent>>

\* The user approves as account d; the page is left for the callback.
Approve == \E d \in Did :
    /\ screen = "page"
    /\ screen' = "busy"
    /\ AuthCallback(d)
    /\ UNCHANGED <<prev, gen, store, appDid, waiting, intent>>

\* The page fails to load: the screen offers another try.
PageFails ==
    /\ screen = "page"
    /\ screen' = "form"
    /\ AuthCancel
    /\ UNCHANGED <<prev, store, tasks, appDid, waiting>>

\* Cancel, Close, the back button.
CloseScreen ==
    /\ screen # "closed"
    /\ screen' = "closed"
    /\ AuthCancel
    /\ UNCHANGED <<prev, store, tasks, appDid, waiting>>

\* The app's poll waits for the restored state.
PollRestored ==
    /\ waiting /\ rt.s # "restoring"
    /\ waiting' = FALSE
    /\ appDid' = rt.did
    /\ UNCHANGED <<rt, prev, gen, store, tasks, screen, intent>>

AuthNext ==
    \/ UrlCreated \/ Finalized \/ AuthRestore \/ Restored
    \/ AuthRefresh \/ Refreshed \/ StationAction \/ Acted
    \/ AuthLogout \/ LoggingOut \/ LoggedOut
    \/ OpenScreen \/ StartAuth \/ PollScreen \/ Approve \/ PageFails \/ CloseScreen
    \/ PollRestored

AuthSpec == AuthInit /\ [][AuthNext]_authVars

\* The polls run, and what the runtime awaits is answered.
AuthFairness ==
    /\ WF_authVars(PollScreen) /\ WF_authVars(PollRestored)
    /\ WF_authVars(AuthRefresh) /\ WF_authVars(Refreshed)
    /\ WF_authVars(UrlCreated) /\ WF_authVars(Finalized)
    /\ WF_authVars(Restored) /\ WF_authVars(Acted)
    /\ WF_authVars(LoggingOut) /\ WF_authVars(LoggedOut)

-----------------------------------------------------------------------------
(* Properties.                                                             *)

\* "cancelled OAuth cannot sign the user in when token exchange completes later"
\* (auth-runtime.test.js:64), nor does an answer that outlives a log-out: without a
\* wish to sign in, the runtime only goes back to the account it had, by the cancel or
\* by a refresh that was under way.
CancelledStaysOut ==
    [][rt'.s = "signedIn" /\ rt.s # "signedIn"
         => \/ intent = "sign in"
            \/ intent' = "cancel" /\ rt' = prev
            \/ \E t \in tasks : t.kind = "refresh" /\ rt' = SignedIn(t.did)]_authVars

\* Once authLogout is answered no credential is left, whatever was in flight.
LogoutForgetsAll ==
    intent = "log out" /\ (\A t \in tasks : t.kind # "logout") => store = {}

\* The app does not go on showing an account the runtime has signed out.
AppFollowsRuntime ==
    \A d \in Did : (appDid = d /\ rt = SignedOut) ~> (appDid # d \/ rt # SignedOut)
=============================================================================
