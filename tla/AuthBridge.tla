------------------------------ MODULE AuthBridge ------------------------------
(***************************************************************************)
(* The bridge between the mobile app and the OAuth runtime: requests       *)
(* (auth/client.ts) handed to the page of the hidden WebView that owns     *)
(* them (AuthRuntime.tsx).  A view is one mount of AuthRuntime.  Its page  *)
(* reports ready twice, by its own script and when it has loaded.          *)
(***************************************************************************)
EXTENDS Naturals

CONSTANTS
    View,     \* mounts of AuthRuntime
    NoView,   \* nobody
    Request   \* calls of request()

VARIABLES
    active,   \* activeOwner
    sender,   \* the view whose page `send` reaches
    mounted,  \* views mounted
    page,     \* [View -> "none", "loaded", "ready"]: loaded and ready of the view
    waits,    \* [Request -> "new", "waiting", "sent", "settled"]: the map `waiting`
    owner,    \* [Request -> View or NoView]
    runs      \* [Request -> Nat]: how often a page was given the script

bridgeVars == <<active, sender, mounted, page, waits, owner, runs>>

BridgeInit ==
    /\ active = NoView /\ sender = NoView /\ mounted = {}
    /\ page = [v \in View |-> "none"]
    /\ waits = [r \in Request |-> "new"]
    /\ owner = [r \in Request |-> NoView]
    /\ runs = [r \in Request |-> 0]

Pending == {r \in Request : waits[r] \in {"waiting", "sent"}}

\* The requests of v are rejected, those of nobody stay.
Rejected(v) == [r \in Request |-> IF r \in Pending /\ owner[r] = v
                                  THEN "settled" ELSE waits[r]]

\* Fault: any view may disconnect the bridge.
Detach_Any(v) == active' = NoView /\ sender' = NoView /\ waits' = Rejected(v)

\* detachAuthRuntime: nothing unless v is the owner.
Detach(v) ==
    IF active = v
    THEN active' = NoView /\ sender' = NoView /\ waits' = Rejected(v)
    ELSE UNCHANGED <<active, sender, waits>>

\* prepareAuthRuntime: a new view takes over.
Mount(v) ==
    /\ v \notin mounted /\ page[v] = "none"
    /\ mounted' = mounted \cup {v}
    /\ active' = v
    /\ sender' = NoView
    /\ waits' = IF active = NoView THEN waits ELSE Rejected(active)
    /\ UNCHANGED <<page, owner, runs>>

\* The cleanup of the effect; it may come after the next view has mounted.
Unmount(v) ==
    /\ v \in mounted
    /\ mounted' = mounted \ {v}
    /\ Detach(v)
    /\ UNCHANGED <<page, owner, runs>>

Load(v) ==
    /\ v \in mounted /\ page[v] = "none"
    /\ page' = [page EXCEPT ![v] = "loaded"]
    /\ UNCHANGED <<active, sender, mounted, waits, owner, runs>>

\* attachAuthRuntime: nothing unless v is the owner; submit `them`.
Attach(v, them) ==
    IF active = v
    THEN /\ sender' = v
         /\ waits' = [r \in Request |-> IF r \in them THEN "sent" ELSE waits[r]]
         /\ owner' = [r \in Request |-> IF r \in them THEN v ELSE owner[r]]
         /\ runs'  = [r \in Request |-> runs[r] + IF r \in them THEN 1 ELSE 0]
    ELSE UNCHANGED <<sender, waits, owner, runs>>

\* Fault: every ready message attaches and submits all that waits for an answer.
Ready_Naive(v) ==
    /\ v \in mounted /\ page[v] # "none"
    /\ page' = [page EXCEPT ![v] = "ready"]
    /\ Attach(v, Pending)
    /\ UNCHANGED <<active, mounted>>

\* The first ready message after the load submits what was not sent yet.
Ready(v) ==
    /\ v \in mounted /\ page[v] = "loaded"
    /\ page' = [page EXCEPT ![v] = "ready"]
    /\ Attach(v, {r \in Request : waits[r] = "waiting"})
    /\ UNCHANGED <<active, mounted>>

\* A fatal message, a load error or the end of the render process; only the first
\* leaves `ready` set.  The view does not prepare itself again.
Break(v) ==
    /\ v \in mounted
    /\ \E next \in {page[v]} \cup (IF page[v] = "ready" THEN {"loaded"} ELSE {}) :
         page' = [page EXCEPT ![v] = next]
    /\ Detach(v)
    /\ UNCHANGED <<mounted, owner, runs>>

\* request(): submitted at once when a page is attached.
Ask(r) ==
    /\ waits[r] = "new"
    /\ owner' = [owner EXCEPT ![r] = active]
    /\ waits' = [waits EXCEPT ![r] = IF sender = NoView THEN "waiting" ELSE "sent"]
    /\ runs'  = [runs EXCEPT ![r] = @ + IF sender = NoView THEN 0 ELSE 1]
    /\ UNCHANGED <<active, sender, mounted, page>>

\* receiveAuthMessage, or the 20 seconds are over.
Settled(r) ==
    /\ r \in Pending
    /\ waits' = [waits EXCEPT ![r] = "settled"]
    /\ UNCHANGED <<active, sender, mounted, page, owner, runs>>

BridgeNext ==
    \/ \E v \in View : Mount(v) \/ Unmount(v) \/ Load(v) \/ Ready(v) \/ Break(v)
    \/ \E r \in Request : Ask(r) \/ Settled(r)

BridgeSpec == BridgeInit /\ [][BridgeNext]_bridgeVars

-----------------------------------------------------------------------------
(* Properties.                                                             *)

\* "duplicate ready events do not submit an OAuth or write command twice"
\* (auth-bridge.test.js:25), over remounts, failures and reloads too.
SubmittedOnce == \A r \in Request : runs[r] <= 1
=============================================================================
