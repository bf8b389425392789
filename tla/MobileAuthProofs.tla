--------------------------- MODULE MobileAuthProofs ---------------------------
(***************************************************************************)
(* Nobody is signed in against the last wish, and a log-out leaves no      *)
(* session behind, for every number of accounts, generations and tasks.    *)
(*                                                                         *)
(* The argument: each wish but the callback's starts a generation of its   *)
(* own, so that a task of the current one that may sign in was started by  *)
(* a wish to sign in, and so was a screen that waits for the provider.     *)
(* After a log-out no task can therefore store a session any more, and     *)
(* each one stored before it is on the list the log-out works through.     *)
(***************************************************************************)
EXTENDS MobileAuth, TLAPS

RtStates == [s : RtState, did : Did \cup {NoDid}]

AuthTypeOK ==
    /\ rt \in RtStates /\ prev \in RtStates
    /\ gen \in 0..MaxGen
    /\ store \subseteq Did
    /\ tasks \subseteq Task
    /\ \A t \in tasks : t.kind = "finalize" => t.did \in Did
    /\ screen \in {"closed", "form", "busy", "page"}
    /\ appDid \in Did \cup {NoDid}
    /\ waiting \in BOOLEAN
    /\ intent \in {"sign in", "cancel", "log out", "none"}

SigningIn == {"url", "finalize", "restore"}

\* No task is of a generation to come; those of this one that may sign in were wished.
TasksInTime == \A t \in tasks :
    /\ t.gen <= gen
    /\ t.kind \in SigningIn /\ t.gen = gen => intent = "sign in"

\* A screen that waits was opened by a wish to sign in; a log-out has none.
ScreenInTime == screen \in {"busy", "page"} => intent = "sign in"

\* Before the app has asked for anything nothing is under way.
Untouched ==
    gen = 0 => tasks = {} /\ screen = "closed" /\ appDid = NoDid /\ ~waiting

\* What a log-out has not deleted yet is on its list.
LogoutKnowsAll ==
    intent = "log out" => \A d \in store : \E t \in tasks : t.kind = "logout" /\ d \in t.left

AuthInv == AuthTypeOK /\ TasksInTime /\ ScreenInTime /\ Untouched /\ LogoutKnowsAll

-----------------------------------------------------------------------------
(* Lemmas.                                                                 *)

\* The states the runtime goes to are states.
LEMMA RtFacts ==
    /\ \A s \in RtState : Plain(s) \in RtStates
    /\ \A d \in Did \cup {NoDid} : SignedIn(d) \in RtStates
    /\ SignedOut \in RtStates
    /\ Plain("starting") \in RtStates /\ Plain("offered") \in RtStates
    /\ Plain("authorizing") \in RtStates /\ Plain("restoring") \in RtStates
    /\ Plain("error") \in RtStates
  BY DEF RtStates, RtState, Plain, SignedIn, SignedOut

\* The fields of a task.
LEMMA TaskFacts ==
    ASSUME NEW t \in Task
    PROVE  /\ t.gen \in Nat /\ t.did \in Did \cup {NoDid} /\ t.left \subseteq Did
           /\ \A left \in SUBSET Did : [t EXCEPT !.left = left] \in Task
  BY MobileAuthAssumption DEF Task

\* A new generation leaves all tasks behind it.
LEMMA BumpFacts ==
    ASSUME AuthInv, Bump
    PROVE  /\ gen' = gen + 1 /\ gen' \in 0..MaxGen /\ gen' # 0
           /\ \A t \in tasks : t.gen <= gen' /\ t.gen # gen'
  <1>1. gen \in Nat /\ MaxGen \in Nat /\ gen < MaxGen /\ gen' = gen + 1
    <2>1. gen \in 0..MaxGen
      BY DEF AuthInv, AuthTypeOK
    <2> QED BY <2>1, MobileAuthAssumption DEF Bump
  <1>2. ASSUME NEW t \in tasks PROVE t.gen <= gen' /\ t.gen # gen'
    <2>1. t \in Task /\ t.gen <= gen
      BY DEF AuthInv, AuthTypeOK, TasksInTime
    <2>2. t.gen \in Nat
      BY <2>1, TaskFacts
    <2> QED BY <1>1, <2>1, <2>2
  <1> QED BY <1>1, <1>2

\* A spawned task is one more.
LEMMA SpawnFacts ==
    ASSUME NEW kind \in {"url", "finalize", "restore", "refresh", "action", "logout"},
           NEW g \in 0..MaxGen, NEW d \in Did \cup {NoDid}, NEW left \in SUBSET Did,
           tasks \subseteq Task, Spawn(kind, g, d, left)
    PROVE  /\ tasks' \subseteq Task /\ tasks \subseteq tasks'
           /\ \A t \in tasks' : t \in tasks \/ (t.kind = kind /\ t.gen = g /\ t.did = d)
           /\ \E t \in tasks' : t.kind = kind /\ t.left = left
  <1> DEFINE new == [kind |-> kind, gen |-> g, did |-> d, left |-> left]
  <1>1. tasks' = tasks \cup {new}
    BY DEF Spawn
  <1>2. new \in Task /\ new.kind = kind /\ new.gen = g /\ new.did = d
        /\ new.left = left
    BY DEF Task
  <1> QED BY <1>1, <1>2

\* A step that ends a task or does nothing about them, stores nothing and starts no
\* generation, keeps the rest of the invariant.
LEMMA QuietStep ==
    ASSUME AuthInv, AuthTypeOK', Untouched', tasks' \subseteq tasks, store' \subseteq store,
           \A t \in tasks \ tasks' : t.kind = "logout" => t.left = {},
           UNCHANGED <<gen, intent>>,
           screen' \in {"closed", "form", screen} \/ screen \in {"busy", "page"}
    PROVE  AuthInv'
  <1>1. TasksInTime' /\ ScreenInTime'
    BY DEF AuthInv, TasksInTime, ScreenInTime
  <1>2. LogoutKnowsAll'
    BY DEF AuthInv, LogoutKnowsAll
  <1> QED BY <1>1, <1>2 DEF AuthInv

\* The screen's own steps that cancel.
LEMMA CancelInv ==
    ASSUME AuthInv, PageFails \/ CloseScreen
    PROVE  AuthInv'
  <1>1. /\ gen' = gen + 1 /\ gen' \in 0..MaxGen /\ gen' # 0
        /\ \A t \in tasks : t.gen <= gen' /\ t.gen # gen'
    BY BumpFacts DEF PageFails, CloseScreen, AuthCancel
  <1>2. /\ intent' = "cancel" /\ screen' \in {"closed", "form"}
        /\ UNCHANGED <<prev, store, tasks, appDid, waiting>>
        /\ rt' \in {prev, rt}
    BY DEF PageFails, CloseScreen, AuthCancel
  <1>3. AuthTypeOK'
    BY <1>1, <1>2 DEF AuthInv, AuthTypeOK
  <1>4. TasksInTime' /\ ScreenInTime' /\ Untouched' /\ LogoutKnowsAll'
    BY <1>1, <1>2 DEF TasksInTime, ScreenInTime, Untouched, LogoutKnowsAll
  <1> QED BY <1>3, <1>4 DEF AuthInv

\* A wish to sign in starts a generation and a task in it.
LEMMA WishInv ==
    ASSUME AuthInv, AuthRestore \/ StartAuth
    PROVE  AuthInv'
  <1>1. /\ gen' = gen + 1 /\ gen' \in 0..MaxGen /\ gen' # 0
        /\ \A t \in tasks : t.gen <= gen' /\ t.gen # gen'
    BY BumpFacts DEF AuthRestore, StartAuth, AuthStart
  <1>2. /\ tasks' \subseteq Task
        /\ \A t \in tasks' : t \in tasks \/ (t.gen = gen' /\ t.kind # "finalize")
    <2>1. CASE AuthRestore
      <3>1. PICK d \in IF store = {} THEN {NoDid} ELSE store : Spawn("restore", gen', d, {})
        BY <2>1 DEF AuthRestore
      <3>2. d \in Did \cup {NoDid} /\ tasks \subseteq Task
        BY <3>1 DEF AuthInv, AuthTypeOK
      <3> QED BY <1>1, <3>1, <3>2, SpawnFacts
    <2>2. CASE StartAuth
      <3>1. Spawn("url", gen', NoDid, {}) /\ tasks \subseteq Task
        BY <2>2 DEF StartAuth, AuthStart, AuthInv, AuthTypeOK
      <3> QED BY <1>1, <3>1, SpawnFacts
    <2> QED BY <2>1, <2>2
  <1>3. intent' = "sign in" /\ store' = store /\ appDid' = appDid
    BY DEF AuthRestore, StartAuth
  <1>4. /\ rt' \in RtStates /\ prev' \in RtStates /\ waiting' \in BOOLEAN
        /\ screen' \in {"closed", "form", "busy", "page"}
    BY RtFacts DEF AuthRestore, StartAuth, AuthStart, AuthInv, AuthTypeOK
  <1>5. AuthTypeOK'
    BY <1>1, <1>2, <1>3, <1>4 DEF AuthInv, AuthTypeOK
  <1>6. TasksInTime'
    <2> SUFFICES ASSUME NEW t \in tasks' PROVE t.gen <= gen'
      BY <1>3 DEF TasksInTime
    <2>1. gen' <= gen'
      BY <1>1, MobileAuthAssumption
    <2> QED BY <1>1, <1>2, <2>1
  <1>7. ScreenInTime' /\ Untouched' /\ LogoutKnowsAll'
    BY <1>1, <1>3 DEF ScreenInTime, Untouched, LogoutKnowsAll
  <1> QED BY <1>5, <1>6, <1>7 DEF AuthInv

\* The callback goes on with the generation of the wish before it.
LEMMA ApproveInv ==
    ASSUME AuthInv, Approve
    PROVE  AuthInv'
  <1>1. PICK d \in Did : /\ screen = "page" /\ screen' = "busy" /\ AuthCallback(d)
                         /\ UNCHANGED <<prev, gen, store, appDid, waiting, intent>>
    BY DEF Approve
  <1>2. intent = "sign in" /\ gen # 0
    BY <1>1 DEF AuthInv, ScreenInTime, Untouched
  <1>3. gen \in 0..MaxGen
    BY DEF AuthInv, AuthTypeOK
  <1>4. tasks \subseteq Task
    BY DEF AuthInv, AuthTypeOK
  <1>5. Spawn("finalize", gen, d, {})
    BY <1>1 DEF AuthCallback
  <1>6. /\ tasks' \subseteq Task /\ tasks \subseteq tasks'
        /\ \A t \in tasks' : t \in tasks \/ (t.gen = gen /\ t.did = d)
    <2>1. d \in Did \cup {NoDid} /\ {} \in SUBSET Did
      OBVIOUS
    <2> QED BY <1>5, <1>3, <1>4, <2>1, SpawnFacts
  <1>7. AuthTypeOK'
    BY <1>1, <1>6, RtFacts DEF AuthCallback, AuthInv, AuthTypeOK
  <1>8. TasksInTime'
    <2> SUFFICES ASSUME NEW t \in tasks' PROVE t.gen <= gen
      BY <1>1, <1>2 DEF TasksInTime
    <2>1. gen <= gen
      BY <1>3, MobileAuthAssumption
    <2>2. t \in tasks => t.gen <= gen
      BY DEF AuthInv, TasksInTime
    <2> QED BY <1>6, <2>1, <2>2
  <1>9. ScreenInTime' /\ Untouched' /\ LogoutKnowsAll'
    BY <1>1, <1>2 DEF ScreenInTime, Untouched, LogoutKnowsAll
  <1> QED BY <1>7, <1>8, <1>9 DEF AuthInv

\* A log-out lists all that is stored.
LEMMA LogoutInv ==
    ASSUME AuthInv, AuthLogout
    PROVE  AuthInv'
  <1>1. /\ gen' = gen + 1 /\ gen' \in 0..MaxGen /\ gen' # 0
        /\ \A t \in tasks : t.gen <= gen' /\ t.gen # gen'
    BY BumpFacts DEF AuthLogout
  <1>2. /\ tasks' \subseteq Task
        /\ \A t \in tasks' : t \in tasks \/ (t.kind = "logout" /\ t.gen = gen')
        /\ \E t \in tasks' : t.kind = "logout" /\ t.left = store
    <2>1. /\ Spawn("logout", gen', NoDid, store)
          /\ tasks \subseteq Task /\ store \in SUBSET Did
      BY DEF AuthLogout, AuthInv, AuthTypeOK
    <2> QED BY <1>1, <2>1, SpawnFacts
  <1>3. /\ intent' = "log out" /\ screen = "closed"
        /\ UNCHANGED <<store, screen, appDid, waiting>>
        /\ rt' \in RtStates /\ prev' \in RtStates
    BY RtFacts DEF AuthLogout
  <1>4. AuthTypeOK'
    BY <1>1, <1>2, <1>3 DEF AuthInv, AuthTypeOK
  <1>5. TasksInTime'
    <2> SUFFICES ASSUME NEW t \in tasks' PROVE t.gen <= gen' /\ ~(t.kind \in SigningIn /\ t.gen = gen')
      BY DEF TasksInTime
    <2>1. gen' <= gen'
      BY <1>1, MobileAuthAssumption
    <2>2. "logout" \notin SigningIn
      BY DEF SigningIn
    <2> QED BY <1>1, <1>2, <2>1, <2>2
  <1>6. ScreenInTime' /\ Untouched' /\ LogoutKnowsAll'
    BY <1>1, <1>2, <1>3 DEF ScreenInTime, Untouched, LogoutKnowsAll
  <1> QED BY <1>4, <1>5, <1>6 DEF AuthInv

\* The log-out deletes the sessions on its list one after the other.
LEMMA LoggingOutInv ==
    ASSUME AuthInv, LoggingOut
    PROVE  AuthInv'
  <1>1. PICK t \in tasks : \E d \in t.left : t.kind = "logout" /\ LogoutStep(t, d)
    BY DEF LoggingOut
  <1>2. PICK d \in t.left : t.kind = "logout" /\ LogoutStep(t, d)
    BY <1>1
  <1> DEFINE new == [t EXCEPT !.left = @ \ {d}]
  <1>3. t \in Task /\ new \in Task
    BY TaskFacts DEF AuthInv, AuthTypeOK
  <1>4. new.kind = "logout" /\ new.gen = t.gen /\ new.left = t.left \ {d}
    BY <1>2, <1>3 DEF Task
  <1>5. /\ store' = store \ {d} /\ tasks' = (tasks \ {t}) \cup {new}
        /\ UNCHANGED <<rt, prev, gen, screen, appDid, waiting, intent>>
    BY <1>2 DEF LogoutStep, LoggingOut
  <1> HIDE DEF new
  <1>6. AuthTypeOK'
    <2>1. tasks' \subseteq Task /\ \A u \in tasks' : u.kind = "finalize" => u.did \in Did
      BY <1>3, <1>4, <1>5 DEF AuthInv, AuthTypeOK
    <2>2. store' \subseteq Did
      BY <1>5 DEF AuthInv, AuthTypeOK
    <2> QED BY <1>5, <2>1, <2>2 DEF AuthInv, AuthTypeOK
  <1>7. TasksInTime' /\ ScreenInTime' /\ Untouched'
    BY <1>4, <1>5 DEF AuthInv, TasksInTime, ScreenInTime, Untouched, SigningIn
  <1>8. LogoutKnowsAll'
    <2> SUFFICES ASSUME intent = "log out", NEW e \in store \ {d}
                 PROVE  \E u \in tasks' : u.kind = "logout" /\ e \in u.left
      BY <1>5 DEF LogoutKnowsAll
    <2>1. PICK u \in tasks : u.kind = "logout" /\ e \in u.left
      BY DEF AuthInv, LogoutKnowsAll
    <2> QED BY <1>4, <1>5, <2>1
  <1> QED BY <1>6, <1>7, <1>8 DEF AuthInv

\* The runtime's state after a task is a state.
LEMMA SettleFacts ==
    ASSUME AuthInv, NEW t, NEW next \in RtStates, Settle(t, next)
    PROVE  rt' \in RtStates
  BY DEF Settle, AuthInv, AuthTypeOK

\* finalizeAuthorization stores a session in its own generation only.
LEMMA FinalizedInv ==
    ASSUME AuthInv, Finalized
    PROVE  AuthInv'
  <1>1. PICK t \in tasks :
           /\ t.kind = "finalize" /\ tasks' = tasks \ {t}
           /\ \/ /\ store' = IF t.gen = gen THEN store \cup {t.did} ELSE store \ {t.did}
                 /\ Settle(t, SignedIn(t.did))
              \/ UNCHANGED store /\ Settle(t, Plain("error"))
           /\ UNCHANGED <<prev, gen, screen, appDid, waiting, intent>>
    BY DEF Finalized
  <1>2. t.did \in Did
    BY <1>1 DEF AuthInv, AuthTypeOK
  <1>3. rt' \in RtStates
    BY <1>1, <1>2, RtFacts, SettleFacts
  <1>4. AuthTypeOK'
    <2>1. store' \subseteq Did
      BY <1>1, <1>2 DEF AuthInv, AuthTypeOK
    <2>2. tasks' \subseteq tasks
      BY <1>1
    <2> QED BY <1>1, <1>3, <2>1, <2>2 DEF AuthInv, AuthTypeOK
  <1>5. CASE t.gen = gen
    <2>1. intent = "sign in"
      BY <1>1, <1>5 DEF AuthInv, TasksInTime, SigningIn
    <2>2. TasksInTime' /\ ScreenInTime' /\ Untouched' /\ LogoutKnowsAll'
      BY <1>1, <2>1
      DEF AuthInv, TasksInTime, ScreenInTime, Untouched, LogoutKnowsAll
    <2> QED BY <1>4, <2>2 DEF AuthInv
  <1>6. CASE t.gen # gen
    <2>1. tasks' \subseteq tasks /\ store' \subseteq store
      BY <1>1, <1>6
    <2>2. \A u \in tasks \ tasks' : u.kind # "logout"
      BY <1>1
    <2>3. Untouched'
      BY <1>1 DEF AuthInv, Untouched
    <2> QED BY <1>1, <1>4, <2>1, <2>2, <2>3, QuietStep
  <1> QED BY <1>5, <1>6

\* The other answers sign in or out, and delete what was revoked.
LEMMA AnsweredInv ==
    ASSUME AuthInv, UrlCreated \/ Restored \/ Refreshed \/ Acted \/ LoggedOut
    PROVE  AuthInv'
  <1>1. PICK t \in tasks :
           /\ tasks' = tasks \ {t} /\ (t.kind = "logout" => t.left = {})
           /\ store' \in {store, store \ {t.did}}
           /\ UNCHANGED <<prev, gen, screen, waiting, intent>>
    <2>1. CASE UrlCreated BY <2>1 DEF UrlCreated
    <2>2. CASE Restored   BY <2>2 DEF Restored
    <2>3. CASE Refreshed  BY <2>3 DEF Refreshed
    <2>4. CASE Acted      BY <2>4 DEF Acted
    <2>5. CASE LoggedOut  BY <2>5 DEF LoggedOut
    <2> QED BY <2>1, <2>2, <2>3, <2>4, <2>5
  <1>2. /\ rt' \in RtStates
        /\ appDid' \in Did \cup {NoDid}
    <2>1. /\ rt \in RtStates /\ appDid \in Did \cup {NoDid}
          /\ \A u \in tasks : u.did \in Did \cup {NoDid}
      BY TaskFacts DEF AuthInv, AuthTypeOK
    <2>2. CASE UrlCreated
      BY <2>1, <2>2, RtFacts, SettleFacts DEF UrlCreated
    <2>3. CASE Restored
      BY <2>1, <2>3, RtFacts, SettleFacts DEF Restored
    <2>4. CASE Refreshed
      <3>1. rt' \in RtStates
        BY <2>1, <2>4, RtFacts DEF Refreshed
      <3>2. \A next \in RtStates : Shown(next) \in Did \cup {NoDid}
        BY <2>1 DEF Shown, RtStates
      <3> QED BY <2>1, <2>4, <3>1, <3>2 DEF Refreshed
    <2>5. CASE Acted
      BY <2>1, <2>5, RtFacts DEF Acted
    <2>6. CASE LoggedOut
      BY <2>1, <2>6 DEF LoggedOut
    <2> QED BY <2>2, <2>3, <2>4, <2>5, <2>6
  <1>3. tasks' \subseteq tasks /\ store' \subseteq store
    BY <1>1
  <1>4. AuthTypeOK'
    BY <1>1, <1>2, <1>3 DEF AuthInv, AuthTypeOK
  <1>5. \A u \in tasks \ tasks' : u.kind = "logout" => u.left = {}
    BY <1>1
  <1>6. Untouched'
    BY <1>1 DEF AuthInv, Untouched
  <1> QED BY <1>1, <1>3, <1>4, <1>5, <1>6, QuietStep

\* A refresh and a station action start a task that signs nobody in.
LEMMA AskedInv ==
    ASSUME AuthInv, AuthRefresh \/ StationAction
    PROVE  AuthInv'
  <1>1. /\ gen \in 0..MaxGen /\ gen <= gen /\ tasks \subseteq Task
        /\ rt \in RtStates /\ rt.did \in Did \cup {NoDid} /\ appDid \in Did \cup {NoDid}
    <2>1. gen \in 0..MaxGen
      BY DEF AuthInv, AuthTypeOK
    <2>2. gen <= gen
      BY <2>1, MobileAuthAssumption
    <2> QED BY <2>1, <2>2 DEF AuthInv, AuthTypeOK, RtStates
  <1>2. appDid # NoDid /\ UNCHANGED <<rt, prev, gen, store, screen, waiting, intent>>
    BY DEF AuthRefresh, StationAction
  <1>3. /\ tasks' \subseteq Task /\ tasks \subseteq tasks'
        /\ \A t \in tasks' : t \in tasks \/ (t.kind \in {"refresh", "action"} /\ t.gen = gen)
    <2>1. CASE tasks' = tasks
      BY <1>1, <2>1
    <2>2. CASE Spawn("refresh", gen, rt.did, {appDid})
      <3>1. {appDid} \in SUBSET Did
        BY <1>1, <1>2
      <3> QED BY <1>1, <2>2, <3>1, SpawnFacts
    <2>3. CASE Spawn("action", gen, rt.did, {})
      BY <1>1, <2>3, SpawnFacts
    <2> QED BY <2>1, <2>2, <2>3 DEF AuthRefresh, StationAction
  <1>4. appDid' \in Did \cup {NoDid}
    BY <1>1 DEF AuthRefresh, StationAction, Shown
  <1>5. AuthTypeOK'
    BY <1>2, <1>3, <1>4 DEF AuthInv, AuthTypeOK
  <1>6. TasksInTime'
    BY <1>1, <1>2, <1>3 DEF AuthInv, TasksInTime, SigningIn
  <1>7. ScreenInTime' /\ LogoutKnowsAll'
    BY <1>2, <1>3 DEF AuthInv, ScreenInTime, LogoutKnowsAll
  <1>8. Untouched'
    BY <1>2 DEF AuthInv, Untouched
  <1> QED BY <1>5, <1>6, <1>7, <1>8 DEF AuthInv

\* The screen opens, polls, and the app's poll takes the restored account.
LEMMA ScreenInv ==
    ASSUME AuthInv, OpenScreen \/ PollScreen \/ PollRestored
    PROVE  AuthInv'
  <1>1. /\ UNCHANGED <<rt, prev, gen, store, tasks, intent>>
        /\ screen' \in {"closed", "form", screen} \/ screen \in {"busy", "page"}
        /\ screen' \in {"closed", "form", "busy", "page"}
        /\ waiting' \in BOOLEAN
        /\ appDid' \in {appDid, rt.did}
    BY DEF OpenScreen, PollScreen, PollRestored, AuthInv, AuthTypeOK
  <1>2. AuthTypeOK'
    <2>1. appDid' \in Did \cup {NoDid}
      BY <1>1 DEF AuthInv, AuthTypeOK, RtStates
    <2> QED BY <1>1, <2>1 DEF AuthInv, AuthTypeOK
  <1>3. Untouched'
    <2>1. CASE OpenScreen
      BY <2>1 DEF OpenScreen, Untouched
    <2>2. CASE PollScreen \/ PollRestored
      BY <1>1, <2>2 DEF PollScreen, PollRestored, AuthInv, Untouched
    <2> QED BY <2>1, <2>2
  <1> QED BY <1>1, <1>2, <1>3, QuietStep

\* Every step keeps the invariant.
LEMMA AuthStepInv == AuthInv /\ [AuthNext]_authVars => AuthInv'
  <1> SUFFICES ASSUME AuthInv, [AuthNext]_authVars PROVE AuthInv'
    OBVIOUS
  <1>1. CASE UNCHANGED authVars
    BY <1>1 DEF authVars, AuthInv, AuthTypeOK, TasksInTime, ScreenInTime, Untouched,
                LogoutKnowsAll
  <1>2. CASE AuthNext
    BY <1>2, CancelInv, WishInv, ApproveInv, LogoutInv, LoggingOutInv, FinalizedInv,
       AnsweredInv, AskedInv, ScreenInv DEF AuthNext
  <1> QED BY <1>1, <1>2

\* The first state.
LEMMA AuthInitInv == AuthInit => AuthInv
  <1> SUFFICES ASSUME AuthInit PROVE AuthInv
    OBVIOUS
  <1>1. store \subseteq Did
    BY DEF AuthInit
  <1>2. gen \in 0..MaxGen
    BY MobileAuthAssumption DEF AuthInit
  <1>3. AuthTypeOK
    BY <1>1, <1>2, RtFacts DEF AuthInit, AuthTypeOK
  <1>4. TasksInTime /\ ScreenInTime /\ Untouched /\ LogoutKnowsAll
    BY DEF AuthInit, TasksInTime, ScreenInTime, Untouched, LogoutKnowsAll
  <1> QED BY <1>3, <1>4 DEF AuthInv

-----------------------------------------------------------------------------
(* Theorems.                                                               *)

\* In every reachable state the types are right, and whatever may still sign somebody
\* in was started by the last wish.
THEOREM AuthIsInTime == AuthSpec => []AuthInv
  BY AuthInitInv, AuthStepInv, PTL DEF AuthSpec

\* Once authLogout is answered no credential is left (runtime.ts:323-337).
THEOREM LogoutLeavesNothing == AuthSpec => []LogoutForgetsAll
  <1>1. AuthInv => LogoutForgetsAll
    BY DEF AuthInv, LogoutKnowsAll, LogoutForgetsAll
  <1> QED BY <1>1, AuthIsInTime, PTL

\* What a step does to the state of the runtime, if it signs somebody in.
Signed ==
    rt'.s = "signedIn" /\ rt.s # "signedIn"
      => \/ intent = "sign in"
         \/ intent' = "cancel" /\ rt' = prev
         \/ \E t \in tasks : t.kind = "refresh" /\ rt' = SignedIn(t.did)

\* A state without an account is not "signedIn".
LEMMA PlainIsOut ==
    /\ Plain("starting").s # "signedIn" /\ Plain("offered").s # "signedIn"
    /\ Plain("authorizing").s # "signedIn" /\ Plain("restoring").s # "signedIn"
    /\ Plain("error").s # "signedIn" /\ SignedOut.s # "signedIn"
  BY DEF Plain, SignedOut

\* The answers that sign in are of the generation of the wish.
LEMMA AnswersSigned ==
    ASSUME AuthInv, UrlCreated \/ Finalized \/ Restored \/ Refreshed \/ Acted
    PROVE  Signed
  <1>1. \A t \in tasks : t.kind \in {"finalize", "restore"} /\ t.gen = gen => intent = "sign in"
    BY DEF AuthInv, TasksInTime, SigningIn
  <1>2. CASE UrlCreated
    BY <1>2, PlainIsOut DEF UrlCreated, Settle, Signed
  <1>3. CASE Finalized
    BY <1>1, <1>3 DEF Finalized, Settle, Signed
  <1>4. CASE Restored
    BY <1>1, <1>4 DEF Restored, Settle, Signed
  <1>5. CASE Refreshed
    BY <1>5, PlainIsOut DEF Refreshed, Signed
  <1>6. CASE Acted
    BY <1>6, PlainIsOut DEF Acted, Signed
  <1> QED BY <1>2, <1>3, <1>4, <1>5, <1>6

\* A command signs nobody in, but the cancel that takes back what it found.
LEMMA CommandsSigned ==
    ASSUME AuthInv, AuthNext \/ UNCHANGED authVars
    PROVE  Signed
  <1>1. CASE AuthRestore
    BY <1>1, PlainIsOut DEF AuthRestore, Signed
  <1>2. CASE StartAuth
    BY <1>2, PlainIsOut DEF StartAuth, AuthStart, Signed
  <1>3. CASE Approve
    BY <1>3, PlainIsOut DEF Approve, AuthCallback, Signed
  <1>4. CASE PageFails \/ CloseScreen
    BY <1>4 DEF PageFails, CloseScreen, AuthCancel, Signed
  <1>5. CASE AuthLogout
    BY <1>5, PlainIsOut DEF AuthLogout, Signed
  <1>6. CASE rt' = rt
    BY <1>6 DEF Signed
  <1>7. AuthRefresh \/ StationAction \/ LoggingOut \/ LoggedOut \/ OpenScreen
          \/ PollScreen \/ PollRestored \/ UNCHANGED authVars => rt' = rt
    BY DEF AuthRefresh, StationAction, LoggingOut, LoggedOut, OpenScreen, PollScreen,
           PollRestored, authVars
  <1> QED
    BY <1>1, <1>2, <1>3, <1>4, <1>5, <1>6, <1>7, AnswersSigned DEF AuthNext

\* "cancelled OAuth cannot sign the user in when token exchange completes later"
\* (auth-runtime.test.js:64): without a wish to sign in the runtime only goes back to
\* the account it had, by the cancel or by a refresh that was under way.
THEOREM NobodyIsSignedInAgain == AuthSpec => CancelledStaysOut
  <1>1. AuthInv /\ [AuthNext]_authVars => [Signed]_authVars
    BY CommandsSigned
  <1> QED BY <1>1, AuthIsInTime, PTL DEF AuthSpec, CancelledStaysOut, Signed

-----------------------------------------------------------------------------
(* A state that waits is awaited.                                          *)

Awaits(kind) == \E t \in tasks : t.kind = kind /\ t.gen = gen

\* The screen and the app poll until the runtime leaves these states; a task of this
\* generation, whose result counts, will make it leave them. The exception is a cancel
\* while the sessions are restored: it starts a generation and leaves the state.
WaitingIsAwaited ==
    /\ rt.s = "starting" => Awaits("url")
    /\ rt.s = "authorizing" => Awaits("finalize")
    /\ rt.s = "restoring" /\ intent # "cancel" => Awaits("restore")

\* prev is what a cancel goes back to; it does not wait.
PrevRests == prev.s \in {"signedIn", "signedOut"}

LEMMA StatesOf ==
    /\ \A s \in RtState : Plain(s).s = s
    /\ \A d : SignedIn(d).s = "signedIn"
    /\ SignedOut.s = "signedOut"
  BY DEF Plain, SignedIn, SignedOut

\* A task that starts is awaited; those of this generation stay so.
LEMMA SpawnIsAwaited ==
    ASSUME NEW kind, NEW g, NEW d, NEW left, Spawn(kind, g, d, left)
    PROVE  /\ \E t \in tasks' : t.kind = kind /\ t.gen = g
           /\ tasks \subseteq tasks'
  <1> DEFINE new == [kind |-> kind, gen |-> g, did |-> d, left |-> left]
  <1>1. tasks' = tasks \cup {new} /\ new.kind = kind /\ new.gen = g
    BY DEF Spawn
  <1> QED BY <1>1

\* The end of a task: if its result counts, the runtime leaves the state that waited.
LEMMA TaskEnds ==
    ASSUME WaitingIsAwaited, PrevRests, NEW t \in tasks, tasks' = tasks \ {t},
           UNCHANGED <<gen, intent, prev>>,
           \/ rt' = rt /\ (t.gen # gen \/ t.kind \notin SigningIn)
           \/ rt'.s \in {"signedIn", "signedOut", "offered", "error"}
    PROVE  WaitingIsAwaited' /\ PrevRests'
  BY DEF WaitingIsAwaited, PrevRests, Awaits, SigningIn

LEMMA WaitingSteps ==
    ASSUME WaitingIsAwaited, PrevRests, [AuthNext]_authVars
    PROVE  WaitingIsAwaited' /\ PrevRests'
  <1> USE StatesOf
  <1>1. CASE UrlCreated \/ Finalized \/ Restored
    <2>1. PICK t \in tasks : /\ tasks' = tasks \ {t} /\ UNCHANGED <<gen, intent, prev>>
                             /\ \E next : /\ next.s \in {"signedIn", "signedOut", "offered", "error"}
                                          /\ Settle(t, next)
      <3>1. "offered" \in RtState /\ "error" \in RtState
        BY DEF RtState
      <3> QED BY <1>1, <3>1 DEF UrlCreated, Finalized, Restored
    <2> QED BY <2>1, TaskEnds DEF Settle
  <1>2. CASE Refreshed \/ Acted
    <2>1. PICK t \in tasks : /\ tasks' = tasks \ {t} /\ UNCHANGED <<gen, intent, prev>>
                             /\ t.kind \in {"refresh", "action"}
                             /\ rt' = rt \/ rt'.s \in {"signedIn", "signedOut"}
      BY <1>2 DEF Refreshed, Acted
    <2> QED BY <2>1, TaskEnds DEF SigningIn
  <1>3. CASE LoggedOut
    <2>1. PICK t \in tasks : t.kind = "logout" /\ tasks' = tasks \ {t}
      BY <1>3 DEF LoggedOut
    <2> QED BY <1>3, <2>1, TaskEnds DEF LoggedOut, SigningIn
  <1>4. CASE LoggingOut
    <2>1. PICK t \in tasks : \E d \in t.left : t.kind = "logout" /\ LogoutStep(t, d)
      BY <1>4 DEF LoggingOut
    <2>2. tasks \ {t} \subseteq tasks'
      BY <2>1 DEF LogoutStep
    <2> QED BY <1>4, <2>1, <2>2 DEF LoggingOut, WaitingIsAwaited, PrevRests, Awaits
  <1>5. CASE AuthRestore
    <2>1. PICK d : Spawn("restore", gen', d, {})
      BY <1>5 DEF AuthRestore
    <2>2. rt'.s = "restoring" /\ prev' = prev
      BY <1>5 DEF AuthRestore, RtState
    <2> QED BY <2>1, <2>2, SpawnIsAwaited DEF WaitingIsAwaited, PrevRests, Awaits
  <1>6. CASE StartAuth
    <2>1. rt'.s = "starting" /\ Spawn("url", gen', NoDid, {}) /\ prev'.s \in {"signedIn", "signedOut"}
      BY <1>6 DEF StartAuth, AuthStart, RtState
    <2> QED BY <2>1, SpawnIsAwaited DEF WaitingIsAwaited, PrevRests, Awaits
  <1>7. CASE Approve
    <2>1. PICK d : Spawn("finalize", gen, d, {}) /\ rt'.s = "authorizing" /\ UNCHANGED <<gen, prev>>
      BY <1>7 DEF Approve, AuthCallback, RtState
    <2> QED BY <2>1, SpawnIsAwaited DEF WaitingIsAwaited, PrevRests, Awaits
  <1>8. CASE AuthRefresh \/ StationAction
    <2>1. tasks \subseteq tasks' /\ UNCHANGED <<rt, prev, gen, intent>>
      BY <1>8, SpawnIsAwaited DEF AuthRefresh, StationAction
    <2> QED BY <2>1 DEF WaitingIsAwaited, PrevRests, Awaits
  <1>9. CASE AuthLogout
    <2>1. rt'.s = "signedOut" /\ prev'.s = "signedOut"
      BY <1>9 DEF AuthLogout
    <2> QED BY <2>1 DEF WaitingIsAwaited, PrevRests
  <1>10. CASE PageFails \/ CloseScreen
    <2>1. /\ rt' = IF rt.s \in {"starting", "offered", "authorizing", "error"} THEN prev ELSE rt
          /\ intent' = "cancel" /\ prev' = prev
      BY <1>10 DEF PageFails, CloseScreen, AuthCancel
    <2> QED BY <2>1 DEF WaitingIsAwaited, PrevRests
  <1>11. CASE OpenScreen \/ PollScreen \/ PollRestored \/ UNCHANGED authVars
    <2>1. UNCHANGED <<rt, prev, gen, tasks, intent>>
      BY <1>11 DEF OpenScreen, PollScreen, PollRestored, authVars
    <2> QED BY <2>1 DEF WaitingIsAwaited, PrevRests, Awaits
  <1> QED BY <1>1, <1>2, <1>3, <1>4, <1>5, <1>6, <1>7, <1>8, <1>9, <1>10, <1>11 DEF AuthNext

\* Nobody polls for an answer that cannot come: while the runtime starts a sign-in,
\* exchanges a code or restores the sessions (runtime.ts:240-298), a task of the current
\* generation is under way, whatever was cancelled, retried or revoked before. A cancel
\* during the restore is the one exception: its state stays, its answer is dropped.
THEOREM WaitingEnds == AuthSpec => []WaitingIsAwaited
  <1>1. AuthInit => WaitingIsAwaited /\ PrevRests
    BY StatesOf DEF AuthInit, WaitingIsAwaited, PrevRests
  <1>2. WaitingIsAwaited /\ PrevRests /\ [AuthNext]_authVars => WaitingIsAwaited' /\ PrevRests'
    BY WaitingSteps
  <1> QED BY <1>1, <1>2, PTL DEF AuthSpec
=============================================================================
