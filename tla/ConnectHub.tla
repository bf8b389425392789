------------------------------ MODULE ConnectHub ------------------------------
(***************************************************************************)
(* The atradio Connect hub (apps/api/src/connect/hub.ts): the WebSocket    *)
(* server that groups the devices of an account, replicates presence over  *)
(* Redis to the other API instances, and asks one device to delete the     *)
(* account's actor.status record once nobody plays.                        *)
(*                                                                         *)
(* One account is modelled: every map of the hub is keyed by the DID       *)
(* first, and no handler reads the entries of two DIDs.  A playback state  *)
(* is reduced to playing or idle, a roster to what it shows per device.    *)
(* A socket is one WebSocket connection; it sends one hello, as both       *)
(* clients do.  JavaScript runs a handler to its end, so a handler is one  *)
(* action; only onHello is split, at its await of verifyToken.             *)
(***************************************************************************)
EXTENDS Integers, Sequences, FiniteSets

CONSTANTS
    Instance,     \* the API processes that share the Redis channel
    Device,       \* device ids; they are ordered, as the strings of the code
    Socket,       \* WebSocket connections that may ever be opened
    NoSocket,     \* no connection registered
    TTLTicks,     \* heartbeats a remote entry survives unrefreshed (3 in the code)
    ChanCap,      \* bound: messages a heartbeat may find in flight to a peer
    Budget        \* bound: how often each kind of disturbance may occur

\* A player starts or stops; a message or a peer is lost, or a process restarts; a
\* command is sent.
Disturbance == {"state", "fault", "command"}

ASSUME ConnectHubAssumption ==
    /\ Instance # {}
    /\ IsFiniteSet(Device)
    /\ Device \subseteq Nat
    /\ NoSocket \notin Socket
    /\ TTLTicks \in Nat
    /\ ChanCap \in Nat
    /\ Budget \in [Disturbance -> Nat]

VARIABLES
    ws,       \* [Socket -> WsState]: "dark" is open for the hub, its peer is gone
    hs,       \* [Socket -> Handshake]: "ready" once the closure's `conn` is set
    at,       \* [Socket -> Instance]: the process that accepted the socket
    dev,      \* [Socket -> Device]: the device at the other end
    state,    \* [Socket -> PlayState]: LocalConn.state (hello.device.state before)
    alive,    \* [Socket -> BOOLEAN]: LocalConn.alive
    local,    \* [Instance -> [Device -> Socket or NoSocket]]
    remote,   \* [Instance -> [Device -> RemoteDevice]]
    last,     \* [Instance -> BOOLEAN]: lastAnyPlaying
    chan,     \* [Instance -> [Instance -> Seq(RelayMsg)]]: Redis pub/sub, from and to
    view,     \* [Socket -> Roster]: the last `devices` frame an open socket was sent
    record,   \* the account's actor.status record may exist on its PDS
    delivered,\* command frames handed to devices
    spent     \* [Disturbance -> Nat]

sockVars == <<ws, hs, at, dev, state, alive>>
hubVars  == <<local, remote, last>>
vars == <<ws, hs, at, dev, state, alive, local, remote, last, chan, view,
          record, delivered, spent>>

WsState   == {"unused", "open", "dark", "closing", "closed"}
Handshake == {"none", "verifying", "ready", "refused"}
PlayState == {"idle", "playing"}
Shown     == PlayState \cup {"absent"}
RosterType == [Device -> Shown]

\* A remote entry; age counts the heartbeats since lastSeen was set.
RemoteDevice == [shown : Shown, age : 0..TTLTicks]
NoRemote     == [shown |-> "absent", age |-> 0]

\* join and update are handled alike by every receiver: one kind, "announce".
RelayMsg == [type : {"announce"}, device : Device, state : PlayState]
       \cup [type : {"leave", "command"}, device : Device]

Blank == [v \in Device |-> "absent"]

-----------------------------------------------------------------------------
(* The registry of an instance.                                            *)

\* Merged roster: local wins over a stale remote copy.
Roster(i) ==
    [v \in Device |-> IF local[i][v] # NoSocket THEN state[local[i][v]]
                                                ELSE remote[i][v].shown]

Online(i)     == {v \in Device : Roster(i)[v] # "absent"}
AnyPlaying(i) == \E v \in Device : Roster(i)[v] = "playing"
LocalDevices(i) == {v \in Device : local[i][v] # NoSocket}

\* The connection that is asked to clean up, if it is on this instance: that of
\* the lowest device id of the whole roster.
CleanupOwner(i) ==
    {s \in Socket : \E v \in Device :
        /\ local[i][v] = s
        /\ \A w \in Online(i) : v <= w}

\* Fault: removeConn trusts the device id.
IsCurrent_ById(s) == local[at[s]][dev[s]] # NoSocket

\* The object identity test of removeConn: the registry still holds this very
\* connection, not its replacement.
IsCurrent(s) == local[at[s]][dev[s]] = s

\* A frame sent to a socket arrives when the socket is OPEN and has a peer.
Reaches(s) == ws[s] = "open"

-----------------------------------------------------------------------------
(* Effects shared by the handlers; each assigns the variables it names.    *)

\* ws.close() or ws.terminate(): on a socket no longer open it changes nothing.
Shut(s) == [ws EXCEPT ![s] = IF @ \in {"open", "dark"} THEN "closing" ELSE @]

\* Fault: the roster is read before the handler changes it.
Broadcast_TooEarly(i) ==
    view' = [s \in Socket |->
                IF ws'[s] # "open" THEN Blank
                ELSE IF \E v \in Device : local'[i][v] = s THEN Roster(i)
                ELSE view[s]]

\* The `devices` frame goes to every local connection of the account.
Broadcast(i) ==
    view' = [s \in Socket |->
                IF ws'[s] # "open" THEN Blank
                ELSE IF \E v \in Device : local'[i][v] = s THEN Roster(i)'
                ELSE view[s]]

NoBroadcast ==
    view' = [s \in Socket |-> IF ws'[s] # "open" THEN Blank ELSE view[s]]

\* Fault: lastAnyPlaying is only stored when playback ends.
ReconcilePresence_EndOnly(i, written) ==
    /\ last' = [last EXCEPT ![i] = @ /\ AnyPlaying(i)']
    /\ record' = written

\* reconcilePresence; `written` says whether the record exists before it runs.
ReconcilePresence(i, written) ==
    /\ last' = [last EXCEPT ![i] = AnyPlaying(i)']
    /\ record' = IF /\ last[i] /\ ~AnyPlaying(i)'
                    /\ \E s \in CleanupOwner(i)' : Reaches(s)'
                 THEN FALSE
                 ELSE written

Peers(i) == Instance \ {i}

\* Redis accepts the messages of instance i in order and fans them out.
PublishAll(i, msgs) ==
    chan' = [chan EXCEPT ![i] =
               [j \in Instance |-> IF j \in Peers(i) THEN @[j] \o msgs ELSE @[j]]]

Publish(i, m) == PublishAll(i, <<m>>)

Announce(v, p) == [type |-> "announce", device |-> v, state |-> p]
Leave(v)       == [type |-> "leave", device |-> v]
Cmd(v)         == [type |-> "command", device |-> v]

Spend(kind) ==
    /\ spent[kind] < Budget[kind]
    /\ spent' = [spent EXCEPT ![kind] = @ + 1]

-----------------------------------------------------------------------------
Init ==
    /\ ws = [s \in Socket |-> "unused"]
    /\ hs = [s \in Socket |-> "none"]
    /\ at \in [Socket -> Instance]
    /\ dev \in [Socket -> Device]
    /\ state = [s \in Socket |-> "idle"]
    /\ alive = [s \in Socket |-> TRUE]
    /\ local = [i \in Instance |-> [v \in Device |-> NoSocket]]
    /\ remote = [i \in Instance |-> [v \in Device |-> NoRemote]]
    /\ last = [i \in Instance |-> FALSE]
    /\ chan = [i \in Instance |-> [j \in Instance |-> <<>>]]
    /\ view = [s \in Socket |-> Blank]
    /\ record = TRUE      \* an earlier session may have left one
    /\ delivered = 0
    /\ spent = [k \in Disturbance |-> 0]

-----------------------------------------------------------------------------
(* A connection's life, as the handlers of wss.on("connection") see it.    *)

Open(s) ==
    /\ ws[s] = "unused"
    /\ ws' = [ws EXCEPT ![s] = "open"]
    /\ UNCHANGED <<hs, at, dev, state, alive, local, remote, last, chan, view,
                   record, delivered, spent>>

\* hello reaches the hub: onHello runs up to `await verifyToken`.  A device that
\* plays wrote its status record when it started to.
Hello(s, p) ==
    /\ ws[s] = "open" /\ hs[s] = "none"
    /\ hs' = [hs EXCEPT ![s] = "verifying"]
    /\ state' = [state EXCEPT ![s] = p]
    /\ record' = (record \/ p = "playing")
    /\ IF p = "playing" THEN Spend("state") ELSE UNCHANGED spent
    /\ UNCHANGED <<ws, at, dev, alive, hubVars, chan, view, delivered>>

\* The rest of onHello after a verified token: register, whatever became of the
\* socket meanwhile; replace, welcome, publish, broadcast; then lastAnyPlaying is
\* set without a look at its old value.
LoneAndSilent(s) == Online(at[s]) = {dev[s]} /\ ~AnyPlaying(at[s])

VerifyOk(s) ==
    LET i == at[s]
        prior == local[i][dev[s]]
    IN  /\ hs[s] = "verifying"
        /\ hs' = [hs EXCEPT ![s] = "ready"]
        /\ alive' = [alive EXCEPT ![s] = TRUE]
        /\ local' = [local EXCEPT ![i][dev[s]] = s]
        /\ ws' = IF prior \in Socket THEN Shut(prior) ELSE ws
        /\ Publish(i, Announce(dev[s], state[s]))
        /\ UNCHANGED <<at, dev, state, remote, delivered, spent>>
        /\ last' = [last EXCEPT ![i] = AnyPlaying(i)']
        /\ record' = (record /\ ~(LoneAndSilent(s)' /\ Reaches(s)'))
        /\ Broadcast(i)

VerifyFail(s) ==
    /\ hs[s] = "verifying"
    /\ hs' = [hs EXCEPT ![s] = "refused"]
    /\ ws' = Shut(s)
    /\ NoBroadcast
    /\ UNCHANGED <<at, dev, state, alive, hubVars, chan, record, delivered, spent>>

\* The hello timer fires while the closure's conn is still null.
HelloTimeout(s) ==
    /\ hs[s] \in {"none", "verifying"}
    /\ ws[s] \in {"open", "dark"}
    /\ ws' = Shut(s)
    /\ NoBroadcast
    /\ UNCHANGED <<hs, at, dev, state, alive, hubVars, chan, record, delivered, spent>>

\* Frames of a ready connection are handled even while its socket is closing.
Listens(s) == hs[s] = "ready" /\ ws[s] \in {"open", "closing"}

\* A playing state is only reported by a device whose player started; that
\* device also writes the status record.
HandleState(s, p) ==
    /\ Listens(s) /\ state[s] # p
    /\ Spend("state")
    /\ state' = [state EXCEPT ![s] = p]
    /\ Publish(at[s], Announce(dev[s], p))
    /\ UNCHANGED <<ws, hs, at, dev, alive, local, remote, delivered>>
    /\ Broadcast(at[s])
    /\ ReconcilePresence(at[s], record \/ p = "playing")

\* A command frame lands if the target is registered here and its socket is open.
Landed(i, target) ==
    IF local[i][target] # NoSocket /\ Reaches(local[i][target]) THEN 1 ELSE 0

\* Fault: the relay is not skipped when the target is connected here.
Route_AlsoRelayed(i, target) ==
    /\ delivered' = delivered + Landed(i, target)
    /\ Publish(i, Cmd(target))

\* Deliver to a local connection of the target, else relay.
Route(i, target) ==
    /\ delivered' = delivered + Landed(i, target)
    /\ IF local[i][target] # NoSocket THEN UNCHANGED chan ELSE Publish(i, Cmd(target))

HandleCommand(s, target) ==
    /\ Listens(s) /\ target # dev[s]
    /\ Spend("command")
    /\ Route(at[s], target)
    /\ UNCHANGED <<sockVars, hubVars, view, record>>

Bye(s) ==
    /\ Listens(s) /\ ws[s] = "open"
    /\ ws' = Shut(s)
    /\ NoBroadcast
    /\ UNCHANGED <<hs, at, dev, state, alive, hubVars, chan, record, delivered, spent>>

\* The close event, with removeConn: the peer closed or dropped, or the hub's own
\* close or terminate completed.
Close(s) ==
    LET i == at[s]
    IN  /\ ws[s] \in {"open", "closing"}
        /\ ws' = [ws EXCEPT ![s] = "closed"]
        /\ UNCHANGED <<hs, at, dev, state, alive, remote, delivered, spent>>
        /\ IF hs[s] = "ready" /\ IsCurrent(s)
           THEN /\ local' = [local EXCEPT ![i][dev[s]] = NoSocket]
                /\ Publish(i, Leave(dev[s]))
                /\ Broadcast(i)
                /\ ReconcilePresence(i, record)
           ELSE /\ UNCHANGED <<local, last, chan, record>>
                /\ NoBroadcast

Pong(s) ==
    /\ ws[s] = "open" /\ hs[s] = "ready" /\ ~alive[s]
    /\ alive' = [alive EXCEPT ![s] = TRUE]
    /\ UNCHANGED <<ws, hs, at, dev, state, hubVars, chan, view, record, delivered, spent>>

\* The peer is gone and no close reaches the hub (sleep, lost network).
Vanish(s) ==
    /\ ws[s] = "open"
    /\ Spend("fault")
    /\ ws' = [ws EXCEPT ![s] = "dark"]
    /\ NoBroadcast
    /\ UNCHANGED <<hs, at, dev, state, alive, hubVars, chan, record, delivered>>

-----------------------------------------------------------------------------
(* The 30 s timer of an instance.                                          *)

Registered(i) == {local[i][v] : v \in LocalDevices(i)}

\* Fault: the ping answers are never looked at.
Unanswered_Ignored(i) == {}

\* Connections that answered no ping since the last heartbeat.
Unanswered(i) == {s \in Registered(i) : ~alive[s]}

\* Fault: the cutoff is one heartbeat late.
Expired_Late(i, v) == remote[i][v].shown # "absent" /\ remote[i][v].age > TTLTicks

Expired(i, v) == remote[i][v].shown # "absent" /\ remote[i][v].age >= TTLTicks

\* Fault: an expired entry is reported but not deleted.
Aged_NotPruned(i, v) ==
    IF remote[i][v].shown = "absent" \/ Expired(i, v) THEN remote[i][v]
    ELSE [shown |-> remote[i][v].shown, age |-> remote[i][v].age + 1]

\* pruneRemote, and one heartbeat less to live for the others.
Aged(i, v) ==
    IF remote[i][v].shown = "absent" \/ Expired(i, v) THEN NoRemote
    ELSE [shown |-> remote[i][v].shown, age |-> remote[i][v].age + 1]

\* The Map's insertion order is not tracked: any order of the local devices.
Orders(S) == {f \in [1..Cardinality(S) -> S] : \A v \in S : \E n \in DOMAIN f : f[n] = v}

\* Fault: the heartbeat does not re-announce the local devices.
Announcements_Skipped(i, order) == <<>>

Announcements(i, order) ==
    [n \in DOMAIN order |-> Announce(order[n], state[local[i][order[n]]])]

Heartbeat(i) ==
    /\ \A j \in Peers(i) : Len(chan[i][j]) <= ChanCap
    /\ ws' = [s \in Socket |-> IF s \in Unanswered(i) THEN Shut(s)[s] ELSE ws[s]]
    /\ alive' = [s \in Socket |-> alive[s] /\ s \notin Registered(i)]
    /\ \E order \in Orders(LocalDevices(i)) : PublishAll(i, Announcements(i, order))
    /\ remote' = [remote EXCEPT ![i] = [v \in Device |-> Aged(i, v)]]
    /\ UNCHANGED <<hs, at, dev, state, local, delivered, spent>>
    /\ IF \E v \in Device : Expired(i, v)
       THEN Broadcast(i) /\ ReconcilePresence(i, record)
       ELSE NoBroadcast /\ UNCHANGED <<last, record>>

-----------------------------------------------------------------------------
(* onRelay at instance j of the oldest message from instance i.            *)

Receive(i, j, type) ==
    /\ chan[i][j] # <<>>
    /\ Head(chan[i][j]).type = type
    /\ chan' = [chan EXCEPT ![i][j] = Tail(@)]
    /\ UNCHANGED <<sockVars, local, spent>>

DeliverAnnounce(i, j) ==
    LET m == Head(chan[i][j])
    IN  /\ Receive(i, j, "announce")
        /\ remote' = [remote EXCEPT ![j][m.device] = [shown |-> m.state, age |-> 0]]
        /\ UNCHANGED delivered
        /\ Broadcast(j)
        /\ ReconcilePresence(j, record)

\* A leave removes the entry whoever announced it.
DeliverLeave(i, j) ==
    LET m == Head(chan[i][j])
    IN  /\ Receive(i, j, "leave")
        /\ remote' = [remote EXCEPT ![j][m.device] = NoRemote]
        /\ UNCHANGED delivered
        /\ IF remote[j][m.device] # NoRemote
           THEN Broadcast(j) /\ ReconcilePresence(j, record)
           ELSE NoBroadcast /\ UNCHANGED <<last, record>>

DeliverCommand(i, j) ==
    /\ Receive(i, j, "command")
    /\ delivered' = delivered + Landed(j, Head(chan[i][j]).device)
    /\ UNCHANGED <<remote, last, view, record>>

\* Pub/sub is at most once: a subscriber that is reconnecting misses a message.
Lose(i, j) ==
    /\ chan[i][j] # <<>>
    /\ Spend("fault")
    /\ chan' = [chan EXCEPT ![i][j] = Tail(@)]
    /\ UNCHANGED <<sockVars, hubVars, view, record, delivered>>

\* A process restarts: its memory, its sockets and its subscription are gone, the
\* messages it published are not.
Crash(i) ==
    /\ Spend("fault")
    /\ ws' = [s \in Socket |-> IF at[s] = i /\ ws[s] # "unused" THEN "closed" ELSE ws[s]]
    /\ hs' = [s \in Socket |-> IF at[s] = i /\ hs[s] = "verifying" THEN "refused" ELSE hs[s]]
    /\ local' = [local EXCEPT ![i] = [v \in Device |-> NoSocket]]
    /\ remote' = [remote EXCEPT ![i] = [v \in Device |-> NoRemote]]
    /\ last' = [last EXCEPT ![i] = FALSE]
    /\ chan' = [j \in Instance |-> [chan[j] EXCEPT ![i] = <<>>]]
    /\ UNCHANGED <<at, dev, state, alive, record, delivered>>
    /\ NoBroadcast

-----------------------------------------------------------------------------
Verified(s) == VerifyOk(s) \/ VerifyFail(s)
Deliver(i, j) == DeliverAnnounce(i, j) \/ DeliverLeave(i, j) \/ DeliverCommand(i, j)

SocketStep(s) ==
    \/ Open(s)
    \/ \E p \in PlayState : Hello(s, p) \/ HandleState(s, p)
    \/ VerifyOk(s)
    \/ VerifyFail(s)
    \/ HelloTimeout(s)
    \/ \E target \in Device : HandleCommand(s, target)
    \/ Bye(s)
    \/ Close(s)
    \/ Pong(s)
    \/ Vanish(s)

InstanceStep(i) ==
    \/ Heartbeat(i)
    \/ Crash(i)
    \/ \E j \in Instance : DeliverAnnounce(i, j) \/ DeliverLeave(i, j)
                           \/ DeliverCommand(i, j) \/ Lose(i, j)

Next == (\E s \in Socket : SocketStep(s)) \/ (\E i \in Instance : InstanceStep(i))

Spec == Init /\ [][Next]_vars

\* Timers fire, TCP finishes a close, verification answers, and Redis delivers;
\* clients and failures are free.
Fairness ==
    /\ \A s \in Socket : WF_vars(Verified(s)) /\ WF_vars(ws[s] = "closing" /\ Close(s))
    /\ \A i \in Instance : WF_vars(Heartbeat(i))
    /\ \A i, j \in Instance : WF_vars(Deliver(i, j))

FairSpec == Spec /\ Fairness
-----------------------------------------------------------------------------
(* Properties.                                                             *)

\* Every variable of the hub stays in its type; a remote entry is never kept past
\* its TTL (hub.ts:309-320).
TypeOK ==
    /\ ws \in [Socket -> WsState]
    /\ hs \in [Socket -> Handshake]
    /\ at \in [Socket -> Instance]
    /\ dev \in [Socket -> Device]
    /\ state \in [Socket -> PlayState]
    /\ alive \in [Socket -> BOOLEAN]
    /\ local \in [Instance -> [Device -> Socket \cup {NoSocket}]]
    /\ remote \in [Instance -> [Device -> RemoteDevice]]
    /\ last \in [Instance -> BOOLEAN]
    /\ chan \in [Instance -> [Instance -> Seq(RelayMsg)]]
    /\ view \in [Socket -> RosterType]
    /\ record \in BOOLEAN
    /\ delivered \in Nat
    /\ spent \in [Disturbance -> Nat]

\* A device that completed its hello and whose socket is still open can be found:
\* a replaced connection is closed, and the late close of the old connection does
\* not take the registration of the new one with it (hub.ts:242-255, 285-289).
NoOrphanOpenSocket ==
    \A s \in Socket :
        ws[s] = "open" /\ hs[s] = "ready" => local[at[s]][dev[s]] = s

\* Between handlers every connected device was last sent exactly the roster its
\* instance holds: no handler changes the roster without a broadcast, and none
\* broadcasts a roster it then changes (hub.ts:145-153 and its callers).
FramesCurrent ==
    \A i \in Instance : \A v \in Device :
        LET s == local[i][v]
        IN  s # NoSocket /\ ws[s] = "open" => view[s] = Roster(i)

\* Between handlers lastAnyPlaying is what the roster says, so the next handler
\* sees a transition exactly when one happens (hub.ts:173-185, 297-298).
LastMatchesRoster == \A i \in Instance : last[i] = AnyPlaying(i)

\* With two instances a command reaches at most one device connection, even while a
\* device is registered on both (hub.ts:224-240).  (Of three, the two that receive a
\* relayed command would each hand it to the connection they have registered.)
CommandsAtMostOnce == delivered <= spent["command"]

\* The status record is only deleted on the word of an instance that has an open
\* device and sees nobody playing, neither among its own connections nor in what its
\* peers announced to it (hub.ts:173-185, 297-303; protocol.ts:106-111).
CleanupFromSilentInstance ==
    [][record /\ ~record' =>
          \E i \in Instance :
             /\ ~AnyPlaying(i)'
             /\ \E v \in Device : local'[i][v] # NoSocket /\ ws'[local'[i][v]] = "open"]_vars

\* When an instance goes from somebody playing to nobody playing and the lowest
\* device of the roster is connected to it, the record is deleted (hub.ts:168-172).
TransitionAsksCleanup ==
    [][\A i \in Instance :
          /\ AnyPlaying(i) /\ ~AnyPlaying(i)'
          /\ \E s \in CleanupOwner(i)' : ws'[s] = "open"
          => ~record']_vars

\* A connected device shows up on every other instance with the state it last
\* reported, in spite of lost messages and restarts (hub.ts:352-360).
PeersLearn ==
    \A i \in Instance, s \in Socket :
        LET there == /\ i # at[s] /\ local[at[s]][dev[s]] = s
                     /\ \A k \in Instance \ {at[s]} : local[k][dev[s]] = NoSocket
        IN  there ~> (~there \/ Roster(i)[dev[s]] = state[s])

\* A device registered nowhere else disappears from an instance's remote view even
\* if its leave was lost or its instance crashed (hub.ts:309-325).
PeersForget ==
    \A i \in Instance, v \in Device :
        LET nowhere == \A j \in Instance \ {i} : local[j][v] = NoSocket
        IN  nowhere ~> (~nowhere \/ remote[i][v].shown = "absent")

\* A connection whose peer vanished without a close is dropped from the registry
\* by the ping timer (hub.ts:465-476).
DeadPeerRemoved ==
    \A s \in Socket :
        LET registered == local[at[s]][dev[s]] = s
        IN  (ws[s] = "dark" /\ registered) ~> ~registered

\* A disconnect drops the device from the roster (README.md:128).
DisconnectDropsDevice ==
    \A s \in Socket :
        LET registered == local[at[s]][dev[s]] = s
        IN  (ws[s] = "closed" /\ registered) ~> ~registered
=============================================================================
