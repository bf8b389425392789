-------------------------- MODULE ConnectHubProofs --------------------------
(***************************************************************************)
(* Proofs about ConnectHub, for any number of instances, devices and       *)
(* connections: its type invariant, the agreement of the registry, the     *)
(* frames sent and lastAnyPlaying, who causes the deletion of the status   *)
(* record and which handler alone may miss it, how often a command is      *)
(* carried out, and which handler alone leaves a closed connection behind. *)
(***************************************************************************)
EXTENDS ConnectHub, FiniteSetTheorems, TLAPS

-----------------------------------------------------------------------------
(* Type correctness.                                                       *)

\* What is published are relay messages, and publishing keeps the channels typed.
LEMMA PublishTyped ==
    ASSUME NEW i \in Instance, NEW msgs \in Seq(RelayMsg), PublishAll(i, msgs),
           chan \in [Instance -> [Instance -> Seq(RelayMsg)]]
    PROVE  chan' \in [Instance -> [Instance -> Seq(RelayMsg)]]
<1>1. [j \in Instance |-> IF j \in Peers(i) THEN chan[i][j] \o msgs ELSE chan[i][j]]
        \in [Instance -> Seq(RelayMsg)]
    OBVIOUS
<1> QED BY <1>1 DEF PublishAll

LEMMA MessagesTyped ==
    ASSUME NEW v \in Device, NEW p \in PlayState
    PROVE  /\ <<Announce(v, p)>> \in Seq(RelayMsg)
           /\ <<Leave(v)>> \in Seq(RelayMsg)
           /\ <<Cmd(v)>> \in Seq(RelayMsg)
BY DEF Announce, Leave, Cmd, RelayMsg

LEMMA AnnouncementsTyped ==
    ASSUME TypeOK, NEW i \in Instance, NEW order \in Orders(LocalDevices(i))
    PROVE  Announcements(i, order) \in Seq(RelayMsg)
<1> DEFINE D == LocalDevices(i)
<1>1. IsFiniteSet(D)
    BY ConnectHubAssumption, FS_Subset DEF LocalDevices
<1>2. Cardinality(D) \in Nat
    BY <1>1, FS_CardinalityType
<1>3. order \in [1..Cardinality(D) -> D]
    BY DEF Orders
<1>4. \A n \in 1..Cardinality(D) : Announce(order[n], state[local[i][order[n]]]) \in RelayMsg
    <2> SUFFICES ASSUME NEW n \in 1..Cardinality(D)
                 PROVE  Announce(order[n], state[local[i][order[n]]]) \in RelayMsg
        OBVIOUS
    <2>1. order[n] \in D BY <1>3
    <2>2. order[n] \in Device /\ local[i][order[n]] \in Socket
        BY <2>1 DEF LocalDevices, TypeOK
    <2>3. state[local[i][order[n]]] \in PlayState BY <2>2 DEF TypeOK
    <2> QED BY <2>2, <2>3 DEF Announce, RelayMsg
<1> QED BY <1>2, <1>3, <1>4 DEF Announcements

\* The frames handed out by a step are rosters.
LEMMA BroadcastTyped ==
    ASSUME NEW i \in Instance, Broadcast(i), view \in [Socket -> RosterType],
           local' \in [Instance -> [Device -> Socket \cup {NoSocket}]],
           remote' \in [Instance -> [Device -> RemoteDevice]],
           state' \in [Socket -> PlayState]
    PROVE  view' \in [Socket -> RosterType]
<1>1. Roster(i)' \in RosterType
    <2>1. Roster(i)' = [v \in Device |-> IF local'[i][v] # NoSocket
                                            THEN state'[local'[i][v]]
                                            ELSE remote'[i][v].shown]
        BY Zenon DEF Roster
    <2>2. ASSUME NEW v \in Device
          PROVE  (IF local'[i][v] # NoSocket THEN state'[local'[i][v]]
                  ELSE remote'[i][v].shown) \in Shown
        <3>1. local'[i][v] \in Socket \cup {NoSocket} /\ remote'[i][v].shown \in Shown
            BY DEF RemoteDevice
        <3>2. local'[i][v] # NoSocket => state'[local'[i][v]] \in Shown
            BY <3>1 DEF Shown
        <3> QED BY <3>1, <3>2, Zenon
    <2> QED BY <2>1, <2>2 DEF RosterType
<1>2. Blank \in RosterType BY DEF Blank, RosterType, Shown
<1> QED BY <1>1, <1>2 DEF Broadcast

LEMMA NoBroadcastTyped ==
    ASSUME NoBroadcast, view \in [Socket -> RosterType]
    PROVE  view' \in [Socket -> RosterType]
<1>1. Blank \in RosterType BY DEF Blank, RosterType, Shown
<1> QED BY <1>1 DEF NoBroadcast

LEMMA ReconcileTyped ==
    ASSUME NEW i \in Instance, NEW written \in BOOLEAN, ReconcilePresence(i, written),
           last \in [Instance -> BOOLEAN]
    PROVE  last' \in [Instance -> BOOLEAN] /\ record' \in BOOLEAN
<1>1. AnyPlaying(i)' \in BOOLEAN BY DEF AnyPlaying
<1> QED BY <1>1 DEF ReconcilePresence

LEMMA SpendTyped ==
    ASSUME NEW k \in Disturbance, Spend(k), spent \in [Disturbance -> Nat]
    PROVE  spent' \in [Disturbance -> Nat]
BY DEF Spend

LEMMA ShutTyped ==
    ASSUME NEW s \in Socket, ws \in [Socket -> WsState]
    PROVE  Shut(s) \in [Socket -> WsState]
BY DEF Shut, WsState

LEMMA TypeInit == Init => TypeOK
<1> SUFFICES ASSUME Init PROVE TypeOK
    OBVIOUS
<1>1. NoRemote \in RemoteDevice
    BY ConnectHubAssumption DEF NoRemote, RemoteDevice, Shown
<1>2. Blank \in RosterType
    BY DEF Blank, RosterType, Shown
<1>3. <<>> \in Seq(RelayMsg)
    OBVIOUS
<1> QED BY <1>1, <1>2, <1>3 DEF Init, TypeOK, WsState, Handshake, PlayState

\* A step of a connection's handlers.
LEMMA TypeSocketStep ==
    ASSUME TypeOK, NEW s \in Socket, SocketStep(s)
    PROVE  TypeOK'
<1> USE DEF TypeOK
<1>0. at[s] \in Instance /\ dev[s] \in Device /\ Shut(s) \in [Socket -> WsState]
    BY ShutTyped
<1>1. CASE Open(s)
    BY <1>1 DEF Open, WsState
<1>2. ASSUME NEW p \in PlayState, Hello(s, p) PROVE TypeOK'
    <2>1. spent' \in [Disturbance -> Nat]
        BY <1>2, SpendTyped DEF Hello, Disturbance
    <2> QED BY <1>2, <2>1 DEF Hello, Handshake, hubVars
<1>3. ASSUME NEW p \in PlayState, HandleState(s, p) PROVE TypeOK'
    <2>1. spent' \in [Disturbance -> Nat]
        BY <1>3, SpendTyped DEF HandleState, Disturbance
    <2>2. chan' \in [Instance -> [Instance -> Seq(RelayMsg)]]
        BY <1>3, <1>0, PublishTyped, MessagesTyped DEF HandleState, Publish
    <2>3. state' \in [Socket -> PlayState]
        BY <1>3 DEF HandleState
    <2>4. view' \in [Socket -> RosterType]
        BY <1>3, <1>0, <2>3, BroadcastTyped DEF HandleState
    <2>5. last' \in [Instance -> BOOLEAN] /\ record' \in BOOLEAN
        BY <1>3, <1>0, ReconcileTyped DEF HandleState
    <2> QED BY <1>3, <2>1, <2>2, <2>3, <2>4, <2>5 DEF HandleState
<1>4. CASE VerifyOk(s)
    <2>1. ws' \in [Socket -> WsState]
        BY <1>4, ShutTyped DEF VerifyOk
    <2>2. chan' \in [Instance -> [Instance -> Seq(RelayMsg)]]
        BY <1>4, <1>0, PublishTyped, MessagesTyped DEF VerifyOk, Publish
    <2>3. local' \in [Instance -> [Device -> Socket \cup {NoSocket}]]
        BY <1>4, <1>0 DEF VerifyOk
    <2>4. view' \in [Socket -> RosterType]
        BY <1>4, <1>0, <2>3, BroadcastTyped DEF VerifyOk
    <2>5. last' \in [Instance -> BOOLEAN] /\ record' \in BOOLEAN
        <3>1. AnyPlaying(at[s])' \in BOOLEAN BY DEF AnyPlaying
        <3> QED BY <3>1, <1>4 DEF VerifyOk
    <2> QED BY <1>4, <2>1, <2>2, <2>3, <2>4, <2>5 DEF VerifyOk, Handshake
<1>5. CASE VerifyFail(s)
    <2>1. view' \in [Socket -> RosterType]
        BY <1>5, NoBroadcastTyped DEF VerifyFail
    <2> QED BY <1>5, <1>0, <2>1 DEF VerifyFail, Handshake, hubVars
<1>6. CASE HelloTimeout(s)
    <2>1. view' \in [Socket -> RosterType]
        BY <1>6, NoBroadcastTyped DEF HelloTimeout
    <2> QED BY <1>6, <1>0, <2>1 DEF HelloTimeout, hubVars
<1>7. ASSUME NEW target \in Device, HandleCommand(s, target) PROVE TypeOK'
    <2>1. spent' \in [Disturbance -> Nat]
        BY <1>7, SpendTyped DEF HandleCommand, Disturbance
    <2>2. chan' \in [Instance -> [Instance -> Seq(RelayMsg)]]
        BY <1>7, <1>0, PublishTyped, MessagesTyped DEF HandleCommand, Route, Publish
    <2>3. delivered' \in Nat
        BY <1>7 DEF HandleCommand, Route, Landed
    <2> QED BY <1>7, <2>1, <2>2, <2>3 DEF HandleCommand, sockVars, hubVars
<1>8. CASE Bye(s)
    <2>1. view' \in [Socket -> RosterType]
        BY <1>8, NoBroadcastTyped DEF Bye
    <2> QED BY <1>8, <1>0, <2>1 DEF Bye, hubVars
<1>9. CASE Close(s)
    <2>1. CASE hs[s] = "ready" /\ IsCurrent(s)
        <3>0. local' = [local EXCEPT ![at[s]][dev[s]] = NoSocket]
            BY <1>9, <2>1 DEF Close
        <3>1. local' \in [Instance -> [Device -> Socket \cup {NoSocket}]]
            BY <3>0, <1>0
        <3>2. chan' \in [Instance -> [Instance -> Seq(RelayMsg)]]
            BY <1>9, <2>1, <1>0, PublishTyped, MessagesTyped DEF Close, Publish
        <3>3. view' \in [Socket -> RosterType]
            BY <1>9, <2>1, <1>0, <3>1, BroadcastTyped DEF Close
        <3>4. last' \in [Instance -> BOOLEAN] /\ record' \in BOOLEAN
            BY <1>9, <2>1, <1>0, ReconcileTyped DEF Close
        <3> QED BY <1>9, <3>1, <3>2, <3>3, <3>4 DEF Close, WsState
    <2>2. CASE ~(hs[s] = "ready" /\ IsCurrent(s))
        <3>1. view' \in [Socket -> RosterType]
            BY <1>9, <2>2, NoBroadcastTyped DEF Close
        <3> QED BY <1>9, <2>2, <3>1 DEF Close, WsState
    <2> QED BY <2>1, <2>2
<1>10. CASE Pong(s)
    BY <1>10 DEF Pong, hubVars
<1>11. CASE Vanish(s)
    <2>1. view' \in [Socket -> RosterType]
        BY <1>11, NoBroadcastTyped DEF Vanish
    <2>2. spent' \in [Disturbance -> Nat]
        BY <1>11, SpendTyped DEF Vanish, Disturbance
    <2> QED BY <1>11, <2>1, <2>2 DEF Vanish, WsState, hubVars
<1> QED BY <1>1, <1>2, <1>3, <1>4, <1>5, <1>6, <1>7, <1>8, <1>9, <1>10, <1>11 DEF SocketStep

\* A step of an instance's timer, of its subscription, or its restart.
LEMMA TypeInstanceStep ==
    ASSUME TypeOK, NEW i \in Instance, InstanceStep(i)
    PROVE  TypeOK'
<1> USE DEF TypeOK
<1>0. NoRemote \in RemoteDevice
    BY ConnectHubAssumption DEF NoRemote, RemoteDevice, Shown
<1>1. CASE Heartbeat(i)
    <2>1. ws' \in [Socket -> WsState]
        BY <1>1 DEF Heartbeat, Shut, WsState
    <2>2. PICK order \in Orders(LocalDevices(i)) : PublishAll(i, Announcements(i, order))
        BY <1>1 DEF Heartbeat
    <2>3. chan' \in [Instance -> [Instance -> Seq(RelayMsg)]]
        BY <2>2, PublishTyped, AnnouncementsTyped
    <2>4. ASSUME NEW v \in Device PROVE Aged(i, v) \in RemoteDevice
        <3>1. /\ remote[i][v].shown \in Shown
              /\ remote[i][v].age \in 0..TTLTicks
            BY DEF RemoteDevice
        <3>2. CASE remote[i][v].shown = "absent" \/ Expired(i, v)
            BY <3>2, <1>0 DEF Aged
        <3>3. CASE ~(remote[i][v].shown = "absent" \/ Expired(i, v))
            <4>1. remote[i][v].age + 1 \in 0..TTLTicks
                BY <3>1, <3>3, ConnectHubAssumption DEF Expired
            <4> QED BY <3>1, <3>3, <4>1 DEF Aged, RemoteDevice
        <3> QED BY <3>2, <3>3
    <2>5. remote' \in [Instance -> [Device -> RemoteDevice]]
        <3>1. remote' = [remote EXCEPT ![i] = [v \in Device |-> Aged(i, v)]]
            BY <1>1 DEF Heartbeat
        <3> QED BY <3>1, <2>4
    <2>6. UNCHANGED <<hs, at, dev, state, local, delivered, spent>>
        BY <1>1 DEF Heartbeat
    <2>7. alive' \in [Socket -> BOOLEAN]
        BY <1>1 DEF Heartbeat
    <2>8. CASE \E v \in Device : Expired(i, v)
        <3>1. Broadcast(i) /\ ReconcilePresence(i, record)
            BY <1>1, <2>8 DEF Heartbeat
        <3>2. view' \in [Socket -> RosterType]
            BY <3>1, <2>5, <2>6, BroadcastTyped
        <3>3. last' \in [Instance -> BOOLEAN] /\ record' \in BOOLEAN
            BY <3>1, ReconcileTyped
        <3> QED BY <2>1, <2>3, <2>5, <2>6, <2>7, <3>2, <3>3
    <2>9. CASE ~\E v \in Device : Expired(i, v)
        <3>1. NoBroadcast /\ UNCHANGED <<last, record>>
            BY <1>1, <2>9 DEF Heartbeat
        <3>2. view' \in [Socket -> RosterType]
            BY <3>1, NoBroadcastTyped
        <3> QED BY <2>1, <2>3, <2>5, <2>6, <2>7, <3>1, <3>2
    <2> QED BY <2>8, <2>9
<1>2. CASE Crash(i)
    <2>1. spent' \in [Disturbance -> Nat]
        BY <1>2, SpendTyped DEF Crash, Disturbance
    <2>2. view' \in [Socket -> RosterType]
        BY <1>2, NoBroadcastTyped DEF Crash
    <2>3. ws' \in [Socket -> WsState] /\ hs' \in [Socket -> Handshake]
        BY <1>2 DEF Crash, WsState, Handshake
    <2>4. chan' \in [Instance -> [Instance -> Seq(RelayMsg)]]
        BY <1>2 DEF Crash
    <2>5. /\ local' \in [Instance -> [Device -> Socket \cup {NoSocket}]]
          /\ remote' \in [Instance -> [Device -> RemoteDevice]]
          /\ last' \in [Instance -> BOOLEAN]
        BY <1>2, <1>0 DEF Crash
    <2> QED BY <1>2, <2>1, <2>2, <2>3, <2>4, <2>5 DEF Crash
<1>3. ASSUME NEW j \in Instance, NEW type, Receive(i, j, type)
      PROVE  /\ Head(chan[i][j]) \in RelayMsg
             /\ chan' \in [Instance -> [Instance -> Seq(RelayMsg)]]
             /\ UNCHANGED <<ws, hs, at, dev, state, alive, local, spent>>
    <2>1. Head(chan[i][j]) \in RelayMsg /\ Tail(chan[i][j]) \in Seq(RelayMsg)
        BY <1>3 DEF Receive
    <2> QED BY <1>3, <2>1 DEF Receive, sockVars
<1>4. ASSUME NEW j \in Instance, DeliverAnnounce(i, j) PROVE TypeOK'
    <2> DEFINE m == Head(chan[i][j])
    <2>1. Receive(i, j, "announce")
        BY <1>4 DEF DeliverAnnounce
    <2>2. m \in RelayMsg /\ m.type = "announce"
        BY <2>1, <1>3 DEF Receive
    <2>3. m.device \in Device /\ m.state \in PlayState
        BY <2>2 DEF RelayMsg
    <2>4. [shown |-> m.state, age |-> 0] \in RemoteDevice
        BY <2>3, ConnectHubAssumption DEF RemoteDevice, Shown
    <2>5. remote' \in [Instance -> [Device -> RemoteDevice]]
        BY <1>4, <2>4 DEF DeliverAnnounce
    <2>6. view' \in [Socket -> RosterType]
        <3>1. Broadcast(j)
            BY <1>4 DEF DeliverAnnounce
        <3>2. local' = local /\ state' = state
            BY <2>1, <1>3, Zenon
        <3> QED BY <2>5, <3>1, <3>2, BroadcastTyped
    <2>7. last' \in [Instance -> BOOLEAN] /\ record' \in BOOLEAN
        BY <1>4, ReconcileTyped DEF DeliverAnnounce
    <2>8. delivered' = delivered
        BY <1>4 DEF DeliverAnnounce
    <2> QED BY <2>1, <1>3, <2>5, <2>6, <2>7, <2>8
<1>5. ASSUME NEW j \in Instance, DeliverLeave(i, j) PROVE TypeOK'
    <2>1. Receive(i, j, "leave") /\ delivered' = delivered
        BY <1>5 DEF DeliverLeave
    <2>2. remote' \in [Instance -> [Device -> RemoteDevice]]
        BY <1>5, <1>0 DEF DeliverLeave
    <2>3. \/ Broadcast(j) /\ ReconcilePresence(j, record)
          \/ NoBroadcast /\ UNCHANGED <<last, record>>
        BY <1>5 DEF DeliverLeave
    <2>4. view' \in [Socket -> RosterType]
        BY <2>1, <1>3, <2>2, <2>3, BroadcastTyped, NoBroadcastTyped
    <2>5. last' \in [Instance -> BOOLEAN] /\ record' \in BOOLEAN
        BY <2>3, ReconcileTyped
    <2> QED BY <2>1, <1>3, <2>2, <2>4, <2>5
<1>6. ASSUME NEW j \in Instance, DeliverCommand(i, j) PROVE TypeOK'
    <2>1. Receive(i, j, "command") /\ UNCHANGED <<remote, last, view, record>>
        BY <1>6 DEF DeliverCommand
    <2>2. delivered' \in Nat
        BY <1>6 DEF DeliverCommand, Landed
    <2> QED BY <2>1, <1>3, <2>2
<1>7. ASSUME NEW j \in Instance, Lose(i, j) PROVE TypeOK'
    <2>1. spent' \in [Disturbance -> Nat]
        BY <1>7, SpendTyped DEF Lose, Disturbance
    <2>2. Tail(chan[i][j]) \in Seq(RelayMsg)
        BY <1>7 DEF Lose
    <2> QED BY <1>7, <2>1, <2>2 DEF Lose, sockVars, hubVars
<1> QED BY <1>1, <1>2, <1>4, <1>5, <1>6, <1>7 DEF InstanceStep

LEMMA TypeStep == TypeOK /\ [Next]_vars => TypeOK'
<1> SUFFICES ASSUME TypeOK, [Next]_vars PROVE TypeOK'
    OBVIOUS
<1>1. CASE Next
    BY <1>1, TypeSocketStep, TypeInstanceStep DEF Next
<1>2. CASE UNCHANGED vars
    BY <1>2 DEF vars, TypeOK
<1> QED BY <1>1, <1>2

\* The maps of the hub keep their types under every handler; no remote entry
\* outlives its TTL (hub.ts:309-320), whatever the TTL and however many processes.
THEOREM TypeCorrect == Spec => []TypeOK
BY TypeInit, TypeStep, PTL DEF Spec
-----------------------------------------------------------------------------
(* The inductive invariant.  FramesCurrent, LastMatchesRoster and          *)
(* NoOrphanOpenSocket are about the connections an instance has            *)
(* registered: they need that a connection is only ever registered where   *)
(* it was accepted, under its own device, and after its handshake.         *)

\* What the registry of an instance holds are connections it accepted itself,
\* under their own device id, past their hello (hub.ts:273-290).
RegistryCoherent ==
    /\ \A i \in Instance : \A v \in Device :
          LET s == local[i][v]
          IN  s # NoSocket => at[s] = i /\ dev[s] = v /\ hs[s] = "ready"
    /\ \A s \in Socket : ws[s] = "unused" => hs[s] = "none"

\* FramesCurrent and LastMatchesRoster, of one instance.
Agrees(i) ==
    /\ \A v \in Device :
          local[i][v] # NoSocket /\ ws[local[i][v]] = "open"
            => view[local[i][v]] = Roster(i)
    /\ last[i] = AnyPlaying(i)

IInv ==
    /\ TypeOK
    /\ RegistryCoherent
    /\ NoOrphanOpenSocket
    /\ \A i \in Instance : Agrees(i)
\* The handlers that leave the registry, the handshakes and the places of the
\* sockets alone, and open none.
LEMMA RegistryUntouched ==
    ASSUME TypeOK, RegistryCoherent, NoOrphanOpenSocket,
           UNCHANGED <<hs, at, dev, local>>,
           \A s \in Socket : /\ ws'[s] = "open" => ws[s] = "open"
                             /\ ws'[s] = "unused" => ws[s] = "unused"
    PROVE  RegistryCoherent' /\ NoOrphanOpenSocket'
BY DEF RegistryCoherent, NoOrphanOpenSocket

\* Closing sockets opens none and brings none back.
LEMMA ShutCloses ==
    ASSUME TypeOK, NEW s \in Socket
    PROVE  /\ Shut(s)[s] # "open"
           /\ \A r \in Socket : /\ Shut(s)[r] = "open" => ws[r] = "open"
                                /\ Shut(s)[r] = "unused" => ws[r] = "unused"
BY DEF Shut, TypeOK

LEMMA RegistrySocketStep ==
    ASSUME TypeOK, RegistryCoherent, NoOrphanOpenSocket, NEW s \in Socket, SocketStep(s)
    PROVE  RegistryCoherent' /\ NoOrphanOpenSocket'
<1>0. at[s] \in Instance /\ dev[s] \in Device
    BY DEF TypeOK
<1>1. CASE Open(s)
    <2>1. UNCHANGED <<hs, at, dev, local>> /\ ws' = [ws EXCEPT ![s] = "open"]
        BY <1>1 DEF Open
    <2>2. ws[s] = "unused" /\ hs[s] = "none"
        BY <1>1 DEF Open, RegistryCoherent
    <2> QED BY <2>1, <2>2 DEF RegistryCoherent, NoOrphanOpenSocket, TypeOK
<1>2. ASSUME NEW p \in PlayState, Hello(s, p)
      PROVE  RegistryCoherent' /\ NoOrphanOpenSocket'
    <2>1. /\ UNCHANGED <<ws, at, dev, local>>
          /\ hs' = [hs EXCEPT ![s] = "verifying"]
          /\ ws[s] = "open" /\ hs[s] = "none"
        BY <1>2 DEF Hello, hubVars
    <2> QED BY <2>1 DEF RegistryCoherent, NoOrphanOpenSocket, TypeOK
<1>3. ASSUME NEW p \in PlayState, HandleState(s, p)
      PROVE  RegistryCoherent' /\ NoOrphanOpenSocket'
    BY <1>3, RegistryUntouched DEF HandleState
<1>4. CASE VerifyOk(s)
    <2> DEFINE i == at[s]
               prior == local[i][dev[s]]
    <2>1. /\ UNCHANGED <<at, dev>>
          /\ hs[s] = "verifying" /\ hs' = [hs EXCEPT ![s] = "ready"]
          /\ local' = [local EXCEPT ![i][dev[s]] = s]
          /\ ws' = IF prior \in Socket THEN Shut(prior) ELSE ws
        BY <1>4 DEF VerifyOk
    <2>2. \A r \in Socket : /\ ws'[r] = "open" => ws[r] = "open"
                            /\ ws'[r] = "unused" => ws[r] = "unused"
        BY <2>1, ShutCloses
    <2>3. prior \in Socket => ws'[prior] # "open"
        BY <2>1, ShutCloses
    <2>4. hs'[s] = "ready" /\ \A r \in Socket : r # s => hs'[r] = hs[r]
        BY <2>1 DEF TypeOK
    <2>5. /\ local'[i][dev[s]] = s
          /\ \A j \in Instance, v \in Device :
                j # i \/ v # dev[s] => local'[j][v] = local[j][v]
        BY <2>1, <1>0 DEF TypeOK
    <2>6. RegistryCoherent'
        <3>1. ASSUME NEW j \in Instance, NEW v \in Device, local'[j][v] # NoSocket
              PROVE  /\ at'[local'[j][v]] = j
                     /\ dev'[local'[j][v]] = v
                     /\ hs'[local'[j][v]] = "ready"
            <4>1. CASE j = i /\ v = dev[s]
                BY <4>1, <2>1, <2>4, <2>5
            <4>2. CASE ~(j = i /\ v = dev[s])
                <5>1. local'[j][v] = local[j][v] /\ local[j][v] \in Socket
                    BY <4>2, <2>5, <3>1 DEF TypeOK
                <5> QED BY <5>1, <3>1, <2>1, <2>4 DEF RegistryCoherent
            <4> QED BY <4>1, <4>2
        <3>2. ASSUME NEW r \in Socket, ws'[r] = "unused" PROVE hs'[r] = "none"
            <4>1. ws[r] = "unused" /\ hs[r] = "none"
                BY <3>2, <2>2 DEF RegistryCoherent
            <4> QED BY <4>1, <2>1, <2>4
        <3> QED BY <3>1, <3>2 DEF RegistryCoherent
    <2>7. NoOrphanOpenSocket'
        <3> SUFFICES ASSUME NEW r \in Socket, ws'[r] = "open", hs'[r] = "ready"
                     PROVE  local'[at[r]][dev[r]] = r
            BY <2>1 DEF NoOrphanOpenSocket
        <3>1. CASE r = s
            BY <3>1, <2>5
        <3>2. CASE r # s
            <4>0. ws[r] = "open" /\ hs[r] = "ready"
                BY <3>2, <2>2, <2>4
            <4>1. local[at[r]][dev[r]] = r
                BY <4>0 DEF NoOrphanOpenSocket
            <4>2. at[r] # i \/ dev[r] # dev[s]
                BY <4>1, <2>3
            <4>3. at[r] \in Instance /\ dev[r] \in Device
                BY DEF TypeOK
            <4> QED BY <4>1, <4>2, <4>3, <2>5
        <3> QED BY <3>1, <3>2
    <2> QED BY <2>6, <2>7
<1>5. CASE VerifyFail(s)
    <2>1. /\ UNCHANGED <<at, dev, local>> /\ ws' = Shut(s)
          /\ hs[s] = "verifying" /\ hs' = [hs EXCEPT ![s] = "refused"]
        BY <1>5 DEF VerifyFail, hubVars
    <2> QED BY <2>1, ShutCloses DEF RegistryCoherent, NoOrphanOpenSocket, TypeOK
<1>6. CASE HelloTimeout(s)
    BY <1>6, RegistryUntouched, ShutCloses DEF HelloTimeout, hubVars
<1>7. ASSUME NEW target \in Device, HandleCommand(s, target)
      PROVE  RegistryCoherent' /\ NoOrphanOpenSocket'
    BY <1>7, RegistryUntouched DEF HandleCommand, sockVars, hubVars
<1>8. CASE Bye(s)
    BY <1>8, RegistryUntouched, ShutCloses DEF Bye, hubVars
<1>9. CASE Close(s)
    <2>1. UNCHANGED <<hs, at, dev>> /\ ws' = [ws EXCEPT ![s] = "closed"]
        BY <1>9 DEF Close
    <2>2. /\ ws'[s] = "closed"
          /\ \A r \in Socket : r # s => ws'[r] = ws[r]
        BY <2>1 DEF TypeOK
    <2>3. ws[s] # "unused"
        BY <1>9 DEF Close
    <2>4. CASE hs[s] = "ready" /\ IsCurrent(s)
        <3>1. local' = [local EXCEPT ![at[s]][dev[s]] = NoSocket]
            BY <1>9, <2>4 DEF Close
        <3>2. \A j \in Instance, v \in Device :
                 local'[j][v] = IF j = at[s] /\ v = dev[s] THEN NoSocket ELSE local[j][v]
            BY <3>1 DEF TypeOK
        <3>3. RegistryCoherent'
            BY <3>2, <2>1, <2>2, <2>3 DEF RegistryCoherent
        <3>4. NoOrphanOpenSocket'
            <4> SUFFICES ASSUME NEW r \in Socket, ws'[r] = "open", hs[r] = "ready"
                         PROVE  local'[at[r]][dev[r]] = r
                BY <2>1 DEF NoOrphanOpenSocket
            <4>1. r # s /\ local[at[r]][dev[r]] = r
                BY <2>2 DEF NoOrphanOpenSocket
            <4>2. local[at[s]][dev[s]] = s
                BY <2>4 DEF IsCurrent
            <4>3. at[r] \in Instance /\ dev[r] \in Device
                BY DEF TypeOK
            <4> QED BY <3>2, <4>1, <4>2, <4>3
        <3> QED BY <3>3, <3>4
    <2>5. CASE ~(hs[s] = "ready" /\ IsCurrent(s))
        <3>1. local' = local
            BY <1>9, <2>5 DEF Close
        <3> QED BY <3>1, <2>1, <2>2, <2>3, RegistryUntouched
    <2> QED BY <2>4, <2>5
<1>10. CASE Pong(s)
    BY <1>10, RegistryUntouched DEF Pong, hubVars
<1>11. CASE Vanish(s)
    <2>1. UNCHANGED <<hs, at, dev, local>> /\ ws' = [ws EXCEPT ![s] = "dark"]
        BY <1>11 DEF Vanish, hubVars
    <2> QED BY <2>1, RegistryUntouched DEF TypeOK
<1> QED BY <1>1, <1>2, <1>3, <1>4, <1>5, <1>6, <1>7, <1>8, <1>9, <1>10, <1>11 DEF SocketStep

LEMMA RegistryInstanceStep ==
    ASSUME TypeOK, RegistryCoherent, NoOrphanOpenSocket, NEW i \in Instance, InstanceStep(i)
    PROVE  RegistryCoherent' /\ NoOrphanOpenSocket'
<1>1. CASE Heartbeat(i)
    <2>1. /\ UNCHANGED <<hs, at, dev, local>>
          /\ ws' = [s \in Socket |-> IF s \in Unanswered(i) THEN Shut(s)[s] ELSE ws[s]]
        BY <1>1 DEF Heartbeat
    <2>2. ASSUME NEW s \in Socket
          PROVE  /\ ws'[s] = "open" => ws[s] = "open"
                 /\ ws'[s] = "unused" => ws[s] = "unused"
        BY <2>1, ShutCloses
    <2> QED BY <2>1, <2>2, RegistryUntouched
<1>2. CASE Crash(i)
    <2>1. /\ UNCHANGED <<at, dev>>
          /\ ws' = [s \in Socket |->
                      IF at[s] = i /\ ws[s] # "unused" THEN "closed" ELSE ws[s]]
          /\ hs' = [s \in Socket |->
                      IF at[s] = i /\ hs[s] = "verifying" THEN "refused" ELSE hs[s]]
          /\ local' = [local EXCEPT ![i] = [v \in Device |-> NoSocket]]
        BY <1>2 DEF Crash
    <2>2. \A j \in Instance, v \in Device :
             local'[j][v] = IF j = i THEN NoSocket ELSE local[j][v]
        BY <2>1 DEF TypeOK
    <2>3. RegistryCoherent'
        <3>1. ASSUME NEW j \in Instance, NEW v \in Device, local'[j][v] # NoSocket
              PROVE  /\ at'[local'[j][v]] = j
                     /\ dev'[local'[j][v]] = v
                     /\ hs'[local'[j][v]] = "ready"
            <4>1. j # i /\ local'[j][v] = local[j][v] /\ local[j][v] \in Socket
                BY <3>1, <2>2 DEF TypeOK
            <4> QED BY <4>1, <3>1, <2>1 DEF RegistryCoherent
        <3>2. ASSUME NEW r \in Socket, ws'[r] = "unused" PROVE hs'[r] = "none"
            BY <3>2, <2>1 DEF RegistryCoherent
        <3> QED BY <3>1, <3>2 DEF RegistryCoherent
    <2>4. NoOrphanOpenSocket'
        <3> SUFFICES ASSUME NEW r \in Socket, ws'[r] = "open", hs'[r] = "ready"
                     PROVE  local'[at[r]][dev[r]] = r
            BY <2>1 DEF NoOrphanOpenSocket
        <3>1. at[r] \in Instance /\ dev[r] \in Device
            BY DEF TypeOK
        <3>2. hs[r] = "ready" /\ ws[r] # "unused"
            BY <2>1 DEF RegistryCoherent
        <3>3. at[r] # i /\ ws[r] = "open"
            BY <2>1, <3>2
        <3>4. local[at[r]][dev[r]] = r
            BY <3>2, <3>3 DEF NoOrphanOpenSocket
        <3> QED BY <3>1, <3>3, <3>4, <2>2
    <2> QED BY <2>3, <2>4
<1>3. ASSUME NEW j \in Instance,
             \/ DeliverAnnounce(i, j) \/ DeliverLeave(i, j)
             \/ DeliverCommand(i, j) \/ Lose(i, j)
      PROVE  RegistryCoherent' /\ NoOrphanOpenSocket'
    <2>1. UNCHANGED <<ws, hs, at, dev, local>>
        BY <1>3 DEF DeliverAnnounce, DeliverLeave, DeliverCommand, Lose, Receive,
                    sockVars, hubVars
    <2> QED BY <2>1, RegistryUntouched
<1> QED BY <1>1, <1>2, <1>3 DEF InstanceStep
-----------------------------------------------------------------------------
(* The frames sent and lastAnyPlaying follow the roster.                   *)

\* An instance whose entries show the same has the same roster.
LEMMA SameRoster ==
    ASSUME NEW j \in Instance, local'[j] = local[j],
           \A v \in Device : remote'[j][v].shown = remote[j][v].shown,
           \A v \in Device : local[j][v] # NoSocket
                             => state'[local[j][v]] = state[local[j][v]]
    PROVE  Roster(j)' = Roster(j) /\ AnyPlaying(j)' = AnyPlaying(j)
<1>1. Roster(j)' = Roster(j)
    BY DEF Roster
<1> QED BY <1>1 DEF AnyPlaying

\* An instance that is left alone keeps agreeing.
LEMMA LeftAlone ==
    ASSUME NEW j \in Instance, Agrees(j),
           local'[j] = local[j], last'[j] = last[j],
           \A v \in Device : remote'[j][v].shown = remote[j][v].shown,
           \A v \in Device : local[j][v] # NoSocket
                             => state'[local[j][v]] = state[local[j][v]],
           \A v \in Device : local[j][v] # NoSocket /\ ws'[local[j][v]] = "open"
                             => /\ ws[local[j][v]] = "open"
                                /\ view'[local[j][v]] = view[local[j][v]]
    PROVE  Agrees(j)'
<1>1. Roster(j)' = Roster(j) /\ AnyPlaying(j)' = AnyPlaying(j)
    BY SameRoster
<1> QED BY <1>1 DEF Agrees

\* A broadcast after the last change of the roster restores the agreement, and
\* touches the connections of no other instance.
LEMMA BroadcastStep ==
    ASSUME TypeOK, TypeOK', RegistryCoherent, RegistryCoherent',
           \A j \in Instance : Agrees(j),
           NEW i \in Instance, Broadcast(i), at' = at,
           last' = [last EXCEPT ![i] = AnyPlaying(i)'],
           \A s \in Socket : ws'[s] = "open" => ws[s] = "open",
           \A j \in Instance \ {i} : local'[j] = local[j] /\ remote'[j] = remote[j],
           \A j \in Instance \ {i} : \A v \in Device :
              local[j][v] # NoSocket => state'[local[j][v]] = state[local[j][v]]
    PROVE  \A j \in Instance : Agrees(j)'
<1>1. Agrees(i)'
    <2>1. last'[i] = AnyPlaying(i)'
        BY DEF TypeOK
    <2>2. ASSUME NEW v \in Device, local'[i][v] # NoSocket, ws'[local'[i][v]] = "open"
          PROVE  view'[local'[i][v]] = Roster(i)'
        <3>1. local'[i][v] \in Socket
            BY <2>2 DEF TypeOK
        <3> QED BY <2>2, <3>1 DEF Broadcast
    <2> QED BY <2>1, <2>2 DEF Agrees
<1>2. ASSUME NEW j \in Instance, j # i PROVE Agrees(j)'
    <2>1. ASSUME NEW v \in Device, local[j][v] # NoSocket, ws'[local[j][v]] = "open"
          PROVE  ws[local[j][v]] = "open" /\ view'[local[j][v]] = view[local[j][v]]
        <3> DEFINE s == local[j][v]
        <3>1. s \in Socket /\ at[s] = j
            BY <2>1 DEF TypeOK, RegistryCoherent
        <3>2. ~ \E w \in Device : local'[i][w] = s
            BY <3>1, <1>2, ConnectHubAssumption DEF RegistryCoherent
        <3> QED BY <2>1, <3>1, <3>2 DEF Broadcast
    <2>2. last'[j] = last[j]
        BY <1>2 DEF TypeOK
    <2> QED BY <1>2, <2>1, <2>2, LeftAlone
<1> QED BY <1>1, <1>2

\* A step that changes no roster and sends no roster.
LEMMA QuietStep ==
    ASSUME TypeOK, \A j \in Instance : Agrees(j),
           NoBroadcast \/ UNCHANGED <<ws, view>>,
           UNCHANGED <<local, last>>,
           \A s \in Socket : ws'[s] = "open" => ws[s] = "open",
           \A j \in Instance : \A v \in Device : remote'[j][v].shown = remote[j][v].shown,
           \A j \in Instance : \A v \in Device :
              local[j][v] # NoSocket => state'[local[j][v]] = state[local[j][v]]
    PROVE  \A j \in Instance : Agrees(j)'
<1> SUFFICES ASSUME NEW j \in Instance PROVE Agrees(j)'
    OBVIOUS
<1>1. ASSUME NEW v \in Device, local[j][v] # NoSocket, ws'[local[j][v]] = "open"
      PROVE  ws[local[j][v]] = "open" /\ view'[local[j][v]] = view[local[j][v]]
    <2>1. local[j][v] \in Socket
        BY <1>1 DEF TypeOK
    <2> QED BY <1>1, <2>1 DEF NoBroadcast
<1> QED BY <1>1, LeftAlone

LEMMA AgreesSocketStep ==
    ASSUME IInv, TypeOK', RegistryCoherent', NEW s \in Socket, SocketStep(s)
    PROVE  \A j \in Instance : Agrees(j)'
<1> DEFINE i == at[s]
<1>0. /\ TypeOK /\ RegistryCoherent /\ \A j \in Instance : Agrees(j)
      /\ i \in Instance /\ dev[s] \in Device
    BY DEF IInv, TypeOK
\* A connection registered with another instance, or not registered at all, is
\* not s, and a connection that is not ready is not registered.
<1>a. ASSUME NEW j \in Instance, NEW v \in Device, local[j][v] = s
      PROVE  j = i /\ v = dev[s] /\ hs[s] = "ready" /\ ws[s] # "unused"
    BY <1>0, <1>a, ConnectHubAssumption DEF RegistryCoherent
<1>b. ASSUME NEW p, state' = [state EXCEPT ![s] = p], NEW j \in Instance, NEW v \in Device,
             local[j][v] # NoSocket, local[j][v] # s
      PROVE  state'[local[j][v]] = state[local[j][v]]
    BY <1>0, <1>b DEF TypeOK
<1>1. CASE Open(s)
    <2>1. /\ ws[s] = "unused" /\ ws' = [ws EXCEPT ![s] = "open"]
          /\ UNCHANGED <<state, local, remote, last, view>>
        BY <1>1 DEF Open
    <2> SUFFICES ASSUME NEW j \in Instance PROVE Agrees(j)'
        OBVIOUS
    <2>2. ASSUME NEW v \in Device, local[j][v] # NoSocket, ws'[local[j][v]] = "open"
          PROVE  ws[local[j][v]] = "open"
        <3>1. local[j][v] \in Socket /\ local[j][v] # s
            BY <1>0, <1>a, <2>1, <2>2 DEF TypeOK
        <3> QED BY <1>0, <2>1, <2>2, <3>1 DEF TypeOK
    <2> QED BY <1>0, <2>1, <2>2, LeftAlone
<1>2. ASSUME NEW p \in PlayState, Hello(s, p)
      PROVE  \A j \in Instance : Agrees(j)'
    <2>1. /\ hs[s] = "none" /\ state' = [state EXCEPT ![s] = p]
          /\ UNCHANGED <<ws, local, remote, last, view>>
        BY <1>2 DEF Hello, hubVars
    <2>2. ASSUME NEW j \in Instance, NEW v \in Device, local[j][v] # NoSocket
          PROVE  state'[local[j][v]] = state[local[j][v]]
        BY <1>a, <1>b, <2>1, <2>2
    <2> QED BY <1>0, <2>1, <2>2, QuietStep
<1>3. ASSUME NEW p \in PlayState, HandleState(s, p)
      PROVE  \A j \in Instance : Agrees(j)'
    <2>1. /\ state' = [state EXCEPT ![s] = p] /\ Broadcast(i)
          /\ last' = [last EXCEPT ![i] = AnyPlaying(i)']
          /\ UNCHANGED <<ws, at, local, remote>>
        BY <1>3 DEF HandleState, ReconcilePresence
    <2>2. ASSUME NEW j \in Instance \ {i}, NEW v \in Device, local[j][v] # NoSocket
          PROVE  state'[local[j][v]] = state[local[j][v]]
        BY <1>a, <1>b, <2>1, <2>2
    <2> QED BY <1>0, <2>1, <2>2, BroadcastStep
<1>4. CASE VerifyOk(s)
    <2>1. /\ last' = [last EXCEPT ![i] = AnyPlaying(i)'] /\ Broadcast(i)
          /\ local' = [local EXCEPT ![i][dev[s]] = s]
          /\ ws' = IF local[i][dev[s]] \in Socket THEN Shut(local[i][dev[s]]) ELSE ws
          /\ UNCHANGED <<at, state, remote>>
        BY <1>4 DEF VerifyOk
    <2>2. ASSUME NEW r \in Socket, ws'[r] = "open" PROVE ws[r] = "open"
        BY <1>0, <2>1, <2>2, ShutCloses
    <2>3. \A j \in Instance \ {i} : local'[j] = local[j]
        BY <1>0, <2>1 DEF TypeOK
    <2> QED BY <1>0, <2>1, <2>2, <2>3, BroadcastStep
<1>5. CASE VerifyFail(s)
    BY <1>5, <1>0, ShutCloses, QuietStep DEF VerifyFail, hubVars
<1>6. CASE HelloTimeout(s)
    BY <1>6, <1>0, ShutCloses, QuietStep DEF HelloTimeout, hubVars
<1>7. ASSUME NEW target \in Device, HandleCommand(s, target)
      PROVE  \A j \in Instance : Agrees(j)'
    BY <1>7, <1>0, QuietStep DEF HandleCommand, sockVars, hubVars
<1>8. CASE Bye(s)
    BY <1>8, <1>0, ShutCloses, QuietStep DEF Bye, hubVars
<1>9. CASE Close(s)
    <2>1. ws' = [ws EXCEPT ![s] = "closed"] /\ UNCHANGED <<at, state, remote>>
        BY <1>9 DEF Close
    <2>2. ASSUME NEW r \in Socket, ws'[r] = "open" PROVE ws[r] = "open"
        BY <1>0, <2>1, <2>2 DEF TypeOK
    <2>3. CASE hs[s] = "ready" /\ IsCurrent(s)
        <3>1. /\ local' = [local EXCEPT ![i][dev[s]] = NoSocket]
              /\ Broadcast(i) /\ last' = [last EXCEPT ![i] = AnyPlaying(i)']
            BY <1>9, <2>3 DEF Close, ReconcilePresence
        <3>2. \A j \in Instance \ {i} : local'[j] = local[j]
            BY <1>0, <3>1 DEF TypeOK
        <3> QED BY <1>0, <2>1, <2>2, <3>1, <3>2, BroadcastStep
    <2>4. CASE ~(hs[s] = "ready" /\ IsCurrent(s))
        <3>1. NoBroadcast /\ UNCHANGED <<local, last>>
            BY <1>9, <2>4 DEF Close
        <3> QED BY <1>0, <2>1, <2>2, <3>1, QuietStep
    <2> QED BY <2>3, <2>4
<1>10. CASE Pong(s)
    BY <1>10, <1>0, QuietStep DEF Pong, hubVars
<1>11. CASE Vanish(s)
    <2>1. /\ ws' = [ws EXCEPT ![s] = "dark"] /\ NoBroadcast
          /\ UNCHANGED <<state, local, remote, last>>
        BY <1>11 DEF Vanish, hubVars
    <2>2. ASSUME NEW r \in Socket, ws'[r] = "open" PROVE ws[r] = "open"
        BY <1>0, <2>1, <2>2 DEF TypeOK
    <2> QED BY <1>0, <2>1, <2>2, QuietStep
<1> QED BY <1>1, <1>2, <1>3, <1>4, <1>5, <1>6, <1>7, <1>8, <1>9, <1>10, <1>11 DEF SocketStep
LEMMA AgreesInstanceStep ==
    ASSUME IInv, TypeOK', RegistryCoherent', NEW i \in Instance, InstanceStep(i)
    PROVE  \A j \in Instance : Agrees(j)'
<1>0. TypeOK /\ RegistryCoherent /\ \A j \in Instance : Agrees(j)
    BY DEF IInv
<1>1. CASE Heartbeat(i)
    <2>1. /\ ws' = [s \in Socket |-> IF s \in Unanswered(i) THEN Shut(s)[s] ELSE ws[s]]
          /\ remote' = [remote EXCEPT ![i] = [v \in Device |-> Aged(i, v)]]
          /\ UNCHANGED <<at, state, local>>
        BY <1>1 DEF Heartbeat
    <2>2. ASSUME NEW r \in Socket, ws'[r] = "open" PROVE ws[r] = "open"
        BY <1>0, <2>1, <2>2, ShutCloses
    <2>3. /\ \A j \in Instance \ {i} : remote'[j] = remote[j]
          /\ \A v \in Device : remote'[i][v] = Aged(i, v)
        BY <1>0, <2>1 DEF TypeOK
    <2>4. CASE \E v \in Device : Expired(i, v)
        <3>1. Broadcast(i) /\ last' = [last EXCEPT ![i] = AnyPlaying(i)']
            BY <1>1, <2>4 DEF Heartbeat, ReconcilePresence
        <3> QED BY <1>0, <2>1, <2>2, <2>3, <3>1, BroadcastStep
    <2>5. CASE ~\E v \in Device : Expired(i, v)
        <3>1. NoBroadcast /\ UNCHANGED last
            BY <1>1, <2>5 DEF Heartbeat
        <3>2. ASSUME NEW v \in Device PROVE remote'[i][v].shown = remote[i][v].shown
            <4>1. CASE remote[i][v].shown = "absent"
                <5>1. remote'[i][v] = NoRemote
                    BY <2>3, <4>1 DEF Aged
                <5> QED BY <4>1, <5>1 DEF NoRemote
            <4>2. CASE remote[i][v].shown # "absent"
                <5>1. remote'[i][v] = [shown |-> remote[i][v].shown, age |-> remote[i][v].age + 1]
                    BY <2>3, <2>5, <4>2 DEF Aged
                <5> QED BY <5>1
            <4> QED BY <4>1, <4>2
        <3>3. ASSUME NEW j \in Instance, NEW v \in Device
              PROVE  remote'[j][v].shown = remote[j][v].shown
            BY <2>3, <3>2
        <3> QED BY <1>0, <2>1, <2>2, <3>1, <3>3, QuietStep
    <2> QED BY <2>4, <2>5
<1>2. CASE Crash(i)
    <2>1. /\ ws' = [s \in Socket |->
                      IF at[s] = i /\ ws[s] # "unused" THEN "closed" ELSE ws[s]]
          /\ local' = [local EXCEPT ![i] = [v \in Device |-> NoSocket]]
          /\ remote' = [remote EXCEPT ![i] = [v \in Device |-> NoRemote]]
          /\ last' = [last EXCEPT ![i] = FALSE]
          /\ NoBroadcast
          /\ UNCHANGED state
        BY <1>2 DEF Crash
    <2>2. Agrees(i)'
        <3>1. \A v \in Device : local'[i][v] = NoSocket /\ remote'[i][v] = NoRemote
            BY <1>0, <2>1 DEF TypeOK
        <3>2. ~last'[i]
            BY <1>0, <2>1 DEF TypeOK
        <3>3. \A v \in Device : Roster(i)'[v] = "absent"
            BY <3>1 DEF Roster, NoRemote
        <3> QED BY <1>0, <3>1, <3>2, <3>3 DEF Agrees, AnyPlaying, TypeOK
    <2>3. ASSUME NEW j \in Instance, j # i PROVE Agrees(j)'
        <3>1. local'[j] = local[j] /\ remote'[j] = remote[j] /\ last'[j] = last[j]
            BY <1>0, <2>1, <2>3 DEF TypeOK
        <3>2. ASSUME NEW v \in Device, local[j][v] # NoSocket, ws'[local[j][v]] = "open"
              PROVE  ws[local[j][v]] = "open" /\ view'[local[j][v]] = view[local[j][v]]
            <4>1. local[j][v] \in Socket
                BY <1>0, <3>2 DEF TypeOK
            <4> QED BY <2>1, <3>2, <4>1 DEF NoBroadcast
        <3> QED BY <1>0, <2>1, <3>1, <3>2, LeftAlone
    <2> QED BY <2>2, <2>3
<1>3. ASSUME NEW j \in Instance, NEW type, Receive(i, j, type)
      PROVE  UNCHANGED <<ws, at, state, local>>
    BY <1>3 DEF Receive, sockVars
<1>4. ASSUME NEW j \in Instance, DeliverAnnounce(i, j)
      PROVE  \A k \in Instance : Agrees(k)'
    <2>1. Broadcast(j) /\ last' = [last EXCEPT ![j] = AnyPlaying(j)']
        BY <1>4 DEF DeliverAnnounce, ReconcilePresence
    <2>2. UNCHANGED <<ws, at, state, local>>
        BY <1>4, <1>3 DEF DeliverAnnounce
    <2>3. \A k \in Instance \ {j} : remote'[k] = remote[k]
        BY <1>4, <1>0 DEF DeliverAnnounce, TypeOK
    <2> QED BY <1>0, <2>1, <2>2, <2>3, BroadcastStep
<1>5. ASSUME NEW j \in Instance, DeliverLeave(i, j)
      PROVE  \A k \in Instance : Agrees(k)'
    <2> DEFINE v == Head(chan[i][j]).device
    <2>1. /\ UNCHANGED <<ws, at, state, local>>
          /\ remote' = [remote EXCEPT ![j][v] = NoRemote]
        BY <1>5, <1>3 DEF DeliverLeave
    <2>2. CASE remote[j][v] # NoRemote
        <3>1. Broadcast(j) /\ last' = [last EXCEPT ![j] = AnyPlaying(j)']
            BY <1>5, <2>2 DEF DeliverLeave, ReconcilePresence
        <3>2. \A k \in Instance \ {j} : remote'[k] = remote[k]
            BY <1>0, <2>1 DEF TypeOK
        <3> QED BY <1>0, <2>1, <3>1, <3>2, BroadcastStep
    <2>3. CASE remote[j][v] = NoRemote
        <3>1. NoBroadcast /\ UNCHANGED last
            BY <1>5, <2>3 DEF DeliverLeave
        <3>2. ASSUME NEW k \in Instance, NEW w \in Device
              PROVE  remote'[k][w] = remote[k][w]
            BY <1>0, <2>1, <2>3 DEF TypeOK
        <3> QED BY <1>0, <2>1, <3>1, <3>2, QuietStep
    <2> QED BY <2>2, <2>3
<1>6. ASSUME NEW j \in Instance, DeliverCommand(i, j)
      PROVE  \A k \in Instance : Agrees(k)'
    <2>1. UNCHANGED <<ws, at, state, local, remote, last, view>>
        BY <1>6, <1>3 DEF DeliverCommand
    <2> QED BY <1>0, <2>1, QuietStep
<1>7. ASSUME NEW j \in Instance, Lose(i, j)
      PROVE  \A k \in Instance : Agrees(k)'
    BY <1>7, <1>0, QuietStep DEF Lose, sockVars, hubVars
<1> QED BY <1>1, <1>2, <1>4, <1>5, <1>6, <1>7 DEF InstanceStep

LEMMA IInvInit == Init => IInv
<1> SUFFICES ASSUME Init PROVE IInv
    OBVIOUS
<1>1. TypeOK
    BY TypeInit
<1>2. RegistryCoherent /\ NoOrphanOpenSocket
    BY DEF Init, RegistryCoherent, NoOrphanOpenSocket
<1>3. ASSUME NEW i \in Instance PROVE Agrees(i)
    <2>1. \A v \in Device : local[i][v] = NoSocket /\ remote[i][v] = NoRemote
        BY DEF Init
    <2>2. \A v \in Device : Roster(i)[v] = "absent"
        BY <2>1 DEF Roster, NoRemote
    <2>3. last[i] = FALSE
        BY DEF Init
    <2> QED BY <2>1, <2>2, <2>3 DEF Agrees, AnyPlaying
<1> QED BY <1>1, <1>2, <1>3 DEF IInv

LEMMA IInvStep == IInv /\ [Next]_vars => IInv'
<1> SUFFICES ASSUME IInv, [Next]_vars PROVE IInv'
    OBVIOUS
<1>1. TypeOK' BY TypeStep DEF IInv
<1>2. CASE Next
    <2>1. RegistryCoherent' /\ NoOrphanOpenSocket'
        BY <1>2, RegistrySocketStep, RegistryInstanceStep DEF Next, IInv
    <2>2. \A j \in Instance : Agrees(j)'
        BY <1>1, <1>2, <2>1, AgreesSocketStep, AgreesInstanceStep DEF Next
    <2> QED BY <1>1, <2>1, <2>2 DEF IInv
<1>3. CASE UNCHANGED vars
    <2>1. RegistryCoherent' /\ NoOrphanOpenSocket'
        BY <1>3 DEF vars, IInv, RegistryCoherent, NoOrphanOpenSocket
    <2>2. UNCHANGED <<ws, view, local, last, remote, state>>
        BY <1>3 DEF vars
    <2>3. \A j \in Instance : Agrees(j)'
        BY <2>2, QuietStep DEF IInv
    <2> QED BY <1>1, <2>1, <2>3 DEF IInv
<1> QED BY <1>2, <1>3

\* IInv holds in every reachable state.
THEOREM Invariance == Spec => []IInv
BY IInvInit, IInvStep, PTL DEF Spec

\* A replaced connection is closed, and its late close event leaves the new
\* registration alone (hub.ts:242-255, 285-289).
THEOREM NoOrphan == Spec => []NoOrphanOpenSocket
<1>1. IInv => NoOrphanOpenSocket
    BY DEF IInv
<1> QED BY <1>1, Invariance, PTL

\* After every handler each connected device was last sent the roster of its
\* instance (hub.ts:145-153 and its callers).
THEOREM FramesFollowRoster == Spec => []FramesCurrent
<1>1. IInv => FramesCurrent
    BY DEF IInv, Agrees, FramesCurrent
<1> QED BY <1>1, Invariance, PTL

\* After every handler lastAnyPlaying is what the roster says (hub.ts:173-185,
\* 297-298).
THEOREM LastFollowsRoster == Spec => []LastMatchesRoster
<1>1. IInv => LastMatchesRoster
    BY DEF IInv, Agrees, LastMatchesRoster
<1> QED BY <1>1, Invariance, PTL
-----------------------------------------------------------------------------
(* Who may cause the deletion of the status record.                        *)

\* A connection registered with i, open, while i sees nobody playing.
SilentWitness(i) ==
    /\ ~AnyPlaying(i)
    /\ \E v \in Device : local[i][v] # NoSocket /\ ws[local[i][v]] = "open"

\* reconcilePresence deletes the record only on a witness of its own instance.
LEMMA ReconcileWitness ==
    ASSUME NEW i \in Instance, NEW written, written, ReconcilePresence(i, written), ~record'
    PROVE  SilentWitness(i)'
<1>1. ~AnyPlaying(i)' /\ \E s \in CleanupOwner(i)' : Reaches(s)'
    BY DEF ReconcilePresence
<1>2. PICK s \in Socket : /\ ws'[s] = "open"
                          /\ \E v \in Device : local'[i][v] = s
    BY <1>1 DEF CleanupOwner, Reaches
<1> QED BY <1>1, <1>2, ConnectHubAssumption DEF SilentWitness

LEMMA CleanupStep ==
    ASSUME TypeOK, TypeOK', Next, record, ~record'
    PROVE  \E i \in Instance : SilentWitness(i)'
<1>1. ASSUME NEW s \in Socket, SocketStep(s)
      PROVE  \E i \in Instance : SilentWitness(i)'
    <2>0. at[s] \in Instance /\ dev[s] \in Device
        BY DEF TypeOK
    <2>1. ASSUME NEW p \in PlayState, HandleState(s, p)
          PROVE  \E i \in Instance : SilentWitness(i)'
        BY <2>0, <2>1, ReconcileWitness DEF HandleState
    <2>2. CASE VerifyOk(s)
        <3>1. LoneAndSilent(s)' /\ Reaches(s)' /\ UNCHANGED <<at, dev>>
              /\ local' = [local EXCEPT ![at[s]][dev[s]] = s]
            BY <2>2 DEF VerifyOk
        <3>2. ~AnyPlaying(at[s])'
            BY <3>1 DEF LoneAndSilent
        <3>3. local'[at[s]][dev[s]] = s /\ ws'[s] = "open"
            BY <2>0, <3>1 DEF Reaches, TypeOK
        <3>4. PICK i \in Instance : i = at[s] /\ at' = at
            BY <2>0, <3>1
        <3>5. ~AnyPlaying(i)'
            BY <3>2, <3>4 DEF AnyPlaying, Roster
        <3>6. SilentWitness(i)'
            BY <2>0, <3>3, <3>4, <3>5, ConnectHubAssumption DEF SilentWitness
        <3> QED BY <3>6
    <2>3. CASE Close(s)
        <3>1. ReconcilePresence(at[s], record)
            BY <2>3 DEF Close
        <3> QED BY <2>0, <3>1, ReconcileWitness
    <2>4. ~Open(s) /\ ~VerifyFail(s) /\ ~HelloTimeout(s) /\ ~Bye(s) /\ ~Pong(s) /\ ~Vanish(s)
        BY DEF Open, VerifyFail, HelloTimeout, Bye, Pong, Vanish
    <2>5. /\ \A p \in PlayState : ~Hello(s, p)
          /\ \A target \in Device : ~HandleCommand(s, target)
        BY DEF Hello, HandleCommand
    <2> QED BY <1>1, <2>1, <2>2, <2>3, <2>4, <2>5 DEF SocketStep
<1>2. ASSUME NEW i \in Instance, InstanceStep(i)
      PROVE  \E j \in Instance : SilentWitness(j)'
    <2>1. CASE Heartbeat(i)
        <3>1. ReconcilePresence(i, record)
            BY <2>1 DEF Heartbeat
        <3> QED BY <3>1, ReconcileWitness
    <2>2. ASSUME NEW j \in Instance, DeliverAnnounce(i, j) \/ DeliverLeave(i, j)
          PROVE  \E k \in Instance : SilentWitness(k)'
        <3>1. ReconcilePresence(j, record)
            BY <2>2 DEF DeliverAnnounce, DeliverLeave
        <3> QED BY <3>1, ReconcileWitness
    <2>3. ~Crash(i) /\ \A j \in Instance : ~DeliverCommand(i, j) /\ ~Lose(i, j)
        BY DEF Crash, DeliverCommand, Lose
    <2> QED BY <1>2, <2>1, <2>2, <2>3 DEF InstanceStep
<1> QED BY <1>1, <1>2 DEF Next

\* The status record is only deleted on the word of an instance that has an open
\* connection and whose roster, remote entries included, shows nobody playing
\* (hub.ts:173-185, 297-303).
THEOREM CleanupNeedsSilence == Spec => CleanupFromSilentInstance
<1>1. TypeOK /\ TypeOK' /\ [Next]_vars =>
        [record /\ ~record' =>
           \E i \in Instance :
              /\ ~AnyPlaying(i)'
              /\ \E v \in Device : local'[i][v] # NoSocket /\ ws'[local'[i][v]] = "open"]_vars
    <2> SUFFICES ASSUME TypeOK, TypeOK', Next, record, ~record'
                 PROVE  \E i \in Instance :
                          /\ ~AnyPlaying(i)'
                          /\ \E v \in Device :
                               local'[i][v] # NoSocket /\ ws'[local'[i][v]] = "open"
        OBVIOUS
    <2> QED BY CleanupStep DEF SilentWitness
<1> QED BY <1>1, TypeCorrect, PTL DEF Spec, CleanupFromSilentInstance
-----------------------------------------------------------------------------
(* How often a command is carried out.  With two instances every command   *)
(* that was sent is delivered, under way or gone, and one of them at most. *)

AtMostTwo == \A i, j, k \in Instance : i = j \/ i = k \/ j = k

Commands(s) == {n \in DOMAIN s : s[n].type = "command"}
Cmds(s)     == Cardinality(Commands(s))

\* The commands sent cover those delivered and those under way between two instances.
CommandsCovered ==
    \A i, j \in Instance :
        /\ chan[i][i] = <<>>
        /\ delivered + Cmds(chan[i][j]) + Cmds(chan[j][i]) <= spent["command"]

LEMMA CommandsAreFinite ==
    ASSUME NEW s \in Seq(RelayMsg)
    PROVE  IsFiniteSet(Commands(s)) /\ Cmds(s) \in Nat
<1>1. IsFiniteSet(1..Len(s))
    <2>1. 1 \in Int /\ Len(s) \in Int
        OBVIOUS
    <2> QED BY <2>1, FS_Interval
<1>2. Commands(s) \in SUBSET (1..Len(s))
    BY DEF Commands
<1> QED BY <1>1, <1>2, FS_Subset, FS_CardinalityType DEF Cmds

LEMMA NoCommands ==
    ASSUME NEW s, \A n \in DOMAIN s : s[n].type # "command"
    PROVE  Cmds(s) = 0
<1>1. Commands(s) = {}
    BY DEF Commands
<1> QED BY <1>1, FS_EmptySet DEF Cmds

\* What is appended adds no command of its own, or one.
LEMMA CommandsAppended ==
    ASSUME NEW s \in Seq(RelayMsg), NEW t \in Seq(RelayMsg)
    PROVE  /\ Cmds(t) = 0 => Cmds(s \o t) = Cmds(s)
           /\ Len(t) = 1 => Cmds(s \o t) <= Cmds(s) + 1
<1>1. s \o t \in Seq(RelayMsg) /\ Len(s \o t) = Len(s) + Len(t) /\ Len(s) \in Nat /\ Len(t) \in Nat
      /\ \A n \in 1..(Len(s) + Len(t)) : (s \o t)[n] = IF n <= Len(s) THEN s[n] ELSE t[n - Len(s)]
    OBVIOUS
<1>2. ASSUME Cmds(t) = 0 PROVE Cmds(s \o t) = Cmds(s)
    <2>1. Commands(t) = {}
        BY <1>2, CommandsAreFinite, FS_EmptySet DEF Cmds
    <2>2. \A n \in 1..Len(t) : t[n].type # "command"
        BY <2>1 DEF Commands
    <2>3. Commands(s \o t) = Commands(s)
        BY <1>1, <2>2 DEF Commands
    <2> QED BY <2>3 DEF Cmds
<1>3. ASSUME Len(t) = 1 PROVE Cmds(s \o t) <= Cmds(s) + 1
    <2> DEFINE m == Len(s) + 1
    <2>1. Commands(s \o t) \in SUBSET (Commands(s) \cup {m})
        BY <1>1, <1>3 DEF Commands
    <2>2. m \notin Commands(s)
        BY <1>1 DEF Commands
    <2> HIDE DEF m
    <2>3. IsFiniteSet(Commands(s) \cup {m})
          /\ Cardinality(Commands(s) \cup {m}) = Cmds(s) + 1
        BY <2>2, CommandsAreFinite, FS_AddElement DEF Cmds
    <2> QED BY <2>1, <2>3, FS_Subset DEF Cmds
<1> QED BY <1>2, <1>3

\* What is taken off the front.
LEMMA CommandsTaken ==
    ASSUME NEW s \in Seq(RelayMsg), s # <<>>
    PROVE  /\ Cmds(Tail(s)) \in Nat /\ Cmds(s) \in Nat
           /\ Cmds(s) = Cmds(Tail(s)) + IF Head(s).type = "command" THEN 1 ELSE 0
<1> DEFINE A == Commands(s) \ {1}
           f == [n \in Commands(Tail(s)) |-> n + 1]
<1>1. /\ Tail(s) \in Seq(RelayMsg) /\ Len(s) \in Nat /\ Len(s) # 0
      /\ Len(Tail(s)) = Len(s) - 1 /\ \A n \in 1..(Len(s) - 1) : Tail(s)[n] = s[n + 1]
    OBVIOUS
<1>2. f \in Bijection(Commands(Tail(s)), A)
    <2>1. f \in [Commands(Tail(s)) -> A]
        BY <1>1 DEF Commands
    <2>2. f \in Injection(Commands(Tail(s)), A)
        BY <1>1, <2>1 DEF Injection, IsInjective, Commands
    <2>3. \A n \in A : \E k \in Commands(Tail(s)) : f[k] = n
        <3> SUFFICES ASSUME NEW n \in A PROVE \E k \in Commands(Tail(s)) : f[k] = n
            OBVIOUS
        <3>1. n - 1 \in Commands(Tail(s)) /\ (n - 1) + 1 = n
            BY <1>1 DEF Commands
        <3> QED BY <3>1
    <2> QED BY <2>1, <2>2, <2>3 DEF Bijection, Surjection
<1> HIDE DEF f
<1>3. Cardinality(A) = Cmds(Tail(s))
    BY <1>1, <1>2, CommandsAreFinite, FS_Bijection DEF ExistsBijection, Cmds
<1>4. 1 \in Commands(s) <=> Head(s).type = "command"
    BY <1>1 DEF Commands
<1>5. IsFiniteSet(Commands(s)) /\ Cmds(s) \in Nat /\ Cmds(Tail(s)) \in Nat
    BY <1>1, CommandsAreFinite
<1>6. CASE 1 \in Commands(s)
    <2>1. Cardinality(A) = Cmds(s) - 1
        BY <1>5, <1>6, FS_RemoveElement DEF Cmds
    <2> QED BY <1>3, <1>4, <1>5, <1>6, <2>1
<1>7. CASE 1 \notin Commands(s)
    <2>1. A = Commands(s)
        BY <1>7
    <2>2. Cmds(Tail(s)) = Cmds(s)
        BY <1>3, <2>1 DEF Cmds
    <2> QED BY <1>4, <1>5, <1>7, <2>2
<1> QED BY <1>6, <1>7

\* A published message is for the others.
LEMMA PublishedTo ==
    ASSUME TypeOK, NEW i \in Instance, NEW msgs \in Seq(RelayMsg), PublishAll(i, msgs),
           NEW j \in Instance, NEW k \in Instance
    PROVE  chan'[j][k] = IF j = i /\ k # i THEN chan[j][k] \o msgs ELSE chan[j][k]
BY DEF PublishAll, Peers, TypeOK

LEMMA PublishingCovers ==
    ASSUME TypeOK, CommandsCovered, NEW i \in Instance, NEW msgs \in Seq(RelayMsg),
           PublishAll(i, msgs), delivered' = delivered,
           \/ Cmds(msgs) = 0 /\ spent'["command"] = spent["command"]
           \/ Len(msgs) = 1 /\ spent'["command"] = spent["command"] + 1
    PROVE  CommandsCovered'
<1> SUFFICES ASSUME NEW j \in Instance, NEW k \in Instance
             PROVE  /\ chan'[j][j] = <<>>
                    /\ delivered' + Cmds(chan'[j][k]) + Cmds(chan'[k][j]) <= spent'["command"]
    BY DEF CommandsCovered, Cmds, Commands
<1>1. /\ chan[j][j] = <<>>
      /\ delivered + Cmds(chan[j][k]) + Cmds(chan[k][j]) <= spent["command"]
    BY DEF CommandsCovered
<1>2. /\ chan[j][k] \in Seq(RelayMsg) /\ chan[k][j] \in Seq(RelayMsg)
      /\ delivered \in Nat /\ spent["command"] \in Nat
    BY DEF TypeOK, Disturbance
<1>3. /\ Cmds(chan[j][k]) \in Nat /\ Cmds(chan[k][j]) \in Nat
      /\ Cmds(chan[j][k] \o msgs) \in Nat /\ Cmds(chan[k][j] \o msgs) \in Nat
    <2>1. chan[j][k] \o msgs \in Seq(RelayMsg) /\ chan[k][j] \o msgs \in Seq(RelayMsg)
        BY <1>2
    <2> QED BY <1>2, <2>1, CommandsAreFinite
<1>4. /\ chan'[j][j] = chan[j][j]
      /\ chan'[j][k] = IF j = i /\ k # i THEN chan[j][k] \o msgs ELSE chan[j][k]
      /\ chan'[k][j] = IF k = i /\ j # i THEN chan[k][j] \o msgs ELSE chan[k][j]
    BY PublishedTo
<1>5. CASE Cmds(msgs) = 0 /\ spent'["command"] = spent["command"]
    <2>1. Cmds(chan'[j][k]) = Cmds(chan[j][k]) /\ Cmds(chan'[k][j]) = Cmds(chan[k][j])
        BY <1>2, <1>4, <1>5, CommandsAppended
    <2> QED BY <1>1, <1>4, <1>5, <2>1
<1>6. CASE Len(msgs) = 1 /\ spent'["command"] = spent["command"] + 1
    <2>1. CASE j = i /\ k # i
        <3>1. Cmds(chan'[j][k]) <= Cmds(chan[j][k]) + 1 /\ chan'[k][j] = chan[k][j]
              /\ Cmds(chan'[j][k]) \in Nat
            BY <1>2, <1>3, <1>4, <1>6, <2>1, CommandsAppended
        <3> QED BY <1>1, <1>2, <1>3, <1>4, <1>6, <3>1, SMTT(40)
    <2>2. CASE k = i /\ j # i
        <3>1. Cmds(chan'[k][j]) <= Cmds(chan[k][j]) + 1 /\ chan'[j][k] = chan[j][k]
              /\ Cmds(chan'[k][j]) \in Nat
            BY <1>2, <1>3, <1>4, <1>6, <2>2, CommandsAppended
        <3> QED BY <1>1, <1>2, <1>3, <1>4, <1>6, <3>1, SMTT(40)
    <2>3. CASE ~(j = i /\ k # i) /\ ~(k = i /\ j # i)
        <3>1. chan'[j][k] = chan[j][k] /\ chan'[k][j] = chan[k][j]
            BY <1>4, <2>3
        <3> QED BY <1>1, <1>2, <1>3, <1>4, <1>6, <3>1, SMTT(40)
    <2> QED BY <2>1, <2>2, <2>3
<1> QED BY <1>5, <1>6

\* A command that leaves the relay is delivered, or lost, and counted once.
Fits(d, n, b, s) == d + n + b <= s

LEMMA TakenFits ==
    ASSUME NEW d \in Nat, NEW n \in Nat, NEW t \in Nat, NEW b \in Nat, NEW s \in Nat,
           Fits(d, n, b, s)
    PROVE  /\ n = t + 1 => Fits(d, t, b, s) /\ Fits(d + 1, t, b, s)
           /\ n = t + 0 => Fits(d, t, b, s)
  BY DEF Fits

LEMMA TakingCovers ==
    ASSUME AtMostTwo, TypeOK, CommandsCovered, NEW i \in Instance, NEW j \in Instance,
           chan[i][j] # <<>>, chan' = [chan EXCEPT ![i][j] = Tail(@)],
           \/ delivered' = delivered
           \/ delivered' = delivered + 1 /\ Head(chan[i][j]).type = "command",
           spent'["command"] = spent["command"]
    PROVE  CommandsCovered'
<1> SUFFICES ASSUME NEW x \in Instance, NEW y \in Instance
             PROVE  /\ chan'[x][x] = <<>>
                    /\ delivered' + Cmds(chan'[x][y]) + Cmds(chan'[y][x]) <= spent'["command"]
    BY DEF CommandsCovered, Cmds, Commands
<1>1. /\ chan[i][i] = <<>> /\ chan[x][x] = <<>>
      /\ delivered + Cmds(chan[i][j]) + Cmds(chan[j][i]) <= spent["command"]
    BY DEF CommandsCovered
<1>2. /\ chan[i][j] \in Seq(RelayMsg) /\ chan[j][i] \in Seq(RelayMsg)
      /\ delivered \in Nat /\ spent["command"] \in Nat /\ i # j
    BY <1>1 DEF TypeOK, Disturbance
<1>3. /\ Cmds(chan[i][j]) = Cmds(Tail(chan[i][j]))
                            + IF Head(chan[i][j]).type = "command" THEN 1 ELSE 0
      /\ Cmds(chan[i][j]) \in Nat /\ Cmds(chan[j][i]) \in Nat /\ Cmds(Tail(chan[i][j])) \in Nat
      /\ Cmds(<<>>) = 0
    BY <1>2, CommandsTaken, CommandsAreFinite, NoCommands, SMTT(40)
<1>4. chan'[i][j] = Tail(chan[i][j]) /\ chan'[j][i] = chan[j][i] /\ chan'[x][x] = chan[x][x]
    BY <1>1, <1>2 DEF TypeOK
<1>5. delivered' + Cmds(chan'[i][j]) + Cmds(chan'[j][i]) <= spent["command"] /\ delivered' \in Nat
    <2>1. /\ Cmds(chan'[i][j]) = Cmds(Tail(chan[i][j])) /\ Cmds(chan'[j][i]) = Cmds(chan[j][i])
        BY <1>4, Zenon
    <2>2. Fits(delivered, Cmds(chan[i][j]), Cmds(chan[j][i]), spent["command"])
        BY <1>1, Zenon DEF Fits
    <2>3. CASE delivered' = delivered
        <3>1. \/ Cmds(chan[i][j]) = Cmds(Tail(chan[i][j])) + 1
              \/ Cmds(chan[i][j]) = Cmds(Tail(chan[i][j])) + 0
            BY <1>3, Zenon
        <3>2. Fits(delivered, Cmds(Tail(chan[i][j])), Cmds(chan[j][i]), spent["command"])
            BY <1>2, <1>3, <2>2, <3>1, TakenFits, Zenon
        <3> QED BY <1>2, <2>1, <2>3, <3>2, Zenon DEF Fits
    <2>4. CASE delivered' = delivered + 1 /\ Head(chan[i][j]).type = "command"
        <3>1. Cmds(chan[i][j]) = Cmds(Tail(chan[i][j])) + 1
            BY <1>3, <2>4, Zenon
        <3>2. Fits(delivered + 1, Cmds(Tail(chan[i][j])), Cmds(chan[j][i]), spent["command"])
            BY <1>2, <1>3, <2>2, <3>1, TakenFits, Zenon
        <3>3. delivered + 1 \in Nat
            BY <1>2
        <3> QED BY <2>1, <2>4, <3>2, <3>3, Zenon DEF Fits
    <2> QED BY <2>3, <2>4, Zenon
<1>6. CASE x = y
    <2>1. Cmds(chan'[x][x]) = 0 /\ chan'[x][x] = <<>>
        BY <1>1, <1>3, <1>4
    <2>2. Cmds(chan'[i][j]) \in Nat /\ Cmds(chan'[j][i]) \in Nat
        BY <1>3, <1>4
    <2>3. delivered' <= spent["command"]
        BY <1>2, <1>5, <2>2
    <2> QED BY <1>5, <1>6, <2>1, <2>3
<1>7. CASE x # y
    <2>1. (x = i /\ y = j) \/ (x = j /\ y = i)
        BY <1>2, <1>7 DEF AtMostTwo
    <2>2. chan'[x][x] = <<>>
        BY <1>1, <1>4, Zenon
    <2>3. CASE x = i /\ y = j
        BY <1>5, <2>2, <2>3, Zenon
    <2>4. CASE x = j /\ y = i
        <3>1. ASSUME NEW a \in Nat, NEW b \in Nat, delivered' + a + b <= spent["command"]
              PROVE  delivered' + b + a <= spent["command"]
            BY <1>2, <1>5, <3>1
        <3>2. Cmds(chan'[i][j]) \in Nat /\ Cmds(chan'[j][i]) \in Nat
            BY <1>3, <1>4, Zenon
        <3>3. delivered' + Cmds(chan'[j][i]) + Cmds(chan'[i][j]) <= spent["command"]
            BY <1>5, <3>1, <3>2, Zenon
        <3> QED BY <2>2, <2>4, <3>3, Zenon
    <2> QED BY <2>1, <2>3, <2>4, Zenon
<1> QED BY <1>6, <1>7

\* Nothing is published and nothing is taken.
LEMMA QuietCovers ==
    ASSUME TypeOK, CommandsCovered, chan' = chan, spent'["command"] \in Nat,
           delivered' \in Nat,
           delivered' - delivered <= spent'["command"] - spent["command"]
    PROVE  CommandsCovered'
<1> SUFFICES ASSUME NEW j \in Instance, NEW k \in Instance
             PROVE  /\ chan[j][j] = <<>>
                    /\ delivered' + Cmds(chan[j][k]) + Cmds(chan[k][j]) <= spent'["command"]
    BY DEF CommandsCovered, Cmds, Commands
<1>1. /\ chan[j][j] = <<>>
      /\ delivered + Cmds(chan[j][k]) + Cmds(chan[k][j]) <= spent["command"]
    BY DEF CommandsCovered
<1>2. /\ Cmds(chan[j][k]) \in Nat /\ Cmds(chan[k][j]) \in Nat
      /\ delivered \in Nat /\ spent["command"] \in Nat
    BY CommandsAreFinite DEF TypeOK, Disturbance
<1> QED BY <1>1, <1>2

LEMMA CommandsSocketStep ==
    ASSUME TypeOK, CommandsCovered, NEW s \in Socket, SocketStep(s)
    PROVE  CommandsCovered'
<1>0. at[s] \in Instance /\ dev[s] \in Device /\ delivered \in Nat
      /\ spent \in [Disturbance -> Nat] /\ spent["command"] \in Nat
    BY DEF TypeOK, Disturbance
<1>1. ASSUME NEW target \in Device, HandleCommand(s, target) PROVE CommandsCovered'
    <2>1. spent'["command"] = spent["command"] + 1
        BY <1>0, <1>1 DEF HandleCommand, Spend, Disturbance
    <2>2. CASE local[at[s]][target] # NoSocket
        <3>1. chan' = chan /\ delivered' \in {delivered, delivered + 1}
            BY <1>0, <1>1, <2>2 DEF HandleCommand, Route, Landed
        <3> QED BY <1>0, <2>1, <3>1, QuietCovers
    <2>3. CASE local[at[s]][target] = NoSocket
        <3>1. PublishAll(at[s], <<Cmd(target)>>) /\ delivered' = delivered
            BY <1>0, <1>1, <2>3 DEF HandleCommand, Route, Landed, Publish
        <3>2. <<Cmd(target)>> \in Seq(RelayMsg) /\ Len(<<Cmd(target)>>) = 1
            BY MessagesTyped DEF PlayState
        <3> QED BY <1>0, <2>1, <3>1, <3>2, PublishingCovers
    <2> QED BY <2>2, <2>3
<1>2. ASSUME NEW p \in PlayState, PublishAll(at[s], <<Announce(dev[s], p)>>),
             delivered' = delivered, spent'["command"] = spent["command"]
      PROVE  CommandsCovered'
    <2>1. Cmds(<<Announce(dev[s], p)>>) = 0
        BY NoCommands DEF Announce
    <2> QED BY <1>0, <1>2, <2>1, PublishingCovers, MessagesTyped
<1>3. ASSUME NEW p \in PlayState, HandleState(s, p) PROVE CommandsCovered'
    BY <1>0, <1>2, <1>3 DEF HandleState, Publish, Spend, Disturbance
<1>4. CASE VerifyOk(s)
    <2>1. state[s] \in PlayState
        BY DEF TypeOK
    <2> QED BY <1>2, <1>4, <2>1 DEF VerifyOk, Publish
<1>5. CASE Close(s)
    <2>1. UNCHANGED <<delivered, spent>>
        BY <1>5 DEF Close
    <2>2. CASE PublishAll(at[s], <<Leave(dev[s])>>)
        <3>1. Cmds(<<Leave(dev[s])>>) = 0
            BY NoCommands DEF Leave
        <3>2. <<Leave(dev[s])>> \in Seq(RelayMsg)
            BY <1>0, MessagesTyped DEF PlayState
        <3> QED BY <1>0, <2>1, <2>2, <3>1, <3>2, PublishingCovers
    <2>3. CASE chan' = chan
        BY <1>0, <2>1, <2>3, QuietCovers
    <2> QED BY <1>5, <2>2, <2>3 DEF Close, Publish
<1>6. ASSUME UNCHANGED <<chan, delivered>>, spent'["command"] = spent["command"]
      PROVE  CommandsCovered'
    BY <1>0, <1>6, QuietCovers
<1>7. ASSUME NEW p \in PlayState, Hello(s, p) PROVE CommandsCovered'
    BY <1>0, <1>6, <1>7 DEF Hello, Spend, Disturbance
<1>8. CASE Open(s) \/ VerifyFail(s) \/ HelloTimeout(s) \/ Bye(s) \/ Pong(s) \/ Vanish(s)
    BY <1>0, <1>6, <1>8 DEF Open, VerifyFail, HelloTimeout, Bye, Pong, Vanish, Spend, Disturbance
<1> QED BY <1>1, <1>3, <1>4, <1>5, <1>7, <1>8 DEF SocketStep

LEMMA CommandsInstanceStep ==
    ASSUME AtMostTwo, TypeOK, CommandsCovered, NEW i \in Instance, InstanceStep(i)
    PROVE  CommandsCovered'
<1>0. delivered \in Nat /\ spent \in [Disturbance -> Nat] /\ spent["command"] \in Nat
    BY DEF TypeOK, Disturbance
<1>1. CASE Heartbeat(i)
    <2>1. PICK order \in Orders(LocalDevices(i)) : PublishAll(i, Announcements(i, order))
        BY <1>1 DEF Heartbeat
    <2>2. Announcements(i, order) \in Seq(RelayMsg)
        BY AnnouncementsTyped
    <2>3. Cmds(Announcements(i, order)) = 0
        BY NoCommands DEF Announcements, Announce
    <2>4. UNCHANGED <<delivered, spent>>
        BY <1>1 DEF Heartbeat
    <2> QED BY <2>1, <2>2, <2>3, <2>4, PublishingCovers
<1>2. CASE Crash(i)
    <2> SUFFICES ASSUME NEW j \in Instance, NEW k \in Instance
                 PROVE  /\ chan'[j][j] = <<>>
                        /\ delivered' + Cmds(chan'[j][k]) + Cmds(chan'[k][j])
                           <= spent'["command"]
        BY DEF CommandsCovered, Cmds, Commands
    <2>1. /\ chan[j][j] = <<>>
          /\ delivered + Cmds(chan[j][k]) + Cmds(chan[k][j]) <= spent["command"]
        BY DEF CommandsCovered
    <2>2. /\ Cmds(chan[j][k]) \in Nat /\ Cmds(chan[k][j]) \in Nat /\ Cmds(<<>>) = 0
        <3>1. chan[j][k] \in Seq(RelayMsg) /\ chan[k][j] \in Seq(RelayMsg)
            BY DEF TypeOK
        <3>2. Cmds(<<>>) = 0
            BY NoCommands
        <3> QED BY <3>1, <3>2, CommandsAreFinite, Zenon
    <2>3. ASSUME NEW x \in Instance, NEW y \in Instance
          PROVE  chan'[x][y] = IF y = i THEN <<>> ELSE chan[x][y]
        BY <1>2 DEF Crash, TypeOK
    <2>4. delivered' = delivered /\ spent'["command"] = spent["command"]
        BY <1>0, <1>2 DEF Crash, Spend, Disturbance
    <2>5. /\ chan'[j][j] = <<>>
          /\ chan'[j][k] = <<>> \/ chan'[j][k] = chan[j][k]
          /\ chan'[k][j] = <<>> \/ chan'[k][j] = chan[k][j]
        BY <2>1, <2>3
    <2> QED BY <1>0, <2>1, <2>2, <2>4, <2>5
<1>3. ASSUME NEW j \in Instance, DeliverAnnounce(i, j) \/ DeliverLeave(i, j) \/ Lose(i, j)
      PROVE  CommandsCovered'
    <2>1. /\ chan[i][j] # <<>> /\ chan' = [chan EXCEPT ![i][j] = Tail(@)]
          /\ delivered' = delivered /\ spent'["command"] = spent["command"]
        BY <1>0, <1>3 DEF DeliverAnnounce, DeliverLeave, Lose, Receive, Spend, Disturbance
    <2> QED BY <2>1, TakingCovers
<1>4. ASSUME NEW j \in Instance, DeliverCommand(i, j) PROVE CommandsCovered'
    <2>1. /\ chan[i][j] # <<>> /\ chan' = [chan EXCEPT ![i][j] = Tail(@)]
          /\ Head(chan[i][j]).type = "command" /\ spent' = spent
          /\ delivered' = delivered \/ delivered' = delivered + 1
        BY <1>0, <1>4 DEF DeliverCommand, Receive, Landed
    <2> QED BY <2>1, TakingCovers
<1> QED BY <1>1, <1>2, <1>3, <1>4 DEF InstanceStep

\* With two instances every command is carried out once at most, by one connection,
\* whoever is registered where, and whatever is lost or restarts (hub.ts:224-240).
THEOREM CommandsOnce == AtMostTwo => (Spec => []CommandsAtMostOnce)
<1> SUFFICES ASSUME AtMostTwo PROVE Spec => []CommandsAtMostOnce
    OBVIOUS
<1>1. Init => CommandsCovered
    <2> SUFFICES ASSUME Init, NEW j \in Instance, NEW k \in Instance
                 PROVE  /\ chan[j][j] = <<>>
                        /\ delivered + Cmds(chan[j][k]) + Cmds(chan[k][j]) <= spent["command"]
        BY DEF CommandsCovered
    <2>1. chan[j][j] = <<>> /\ chan[j][k] = <<>> /\ chan[k][j] = <<>>
          /\ delivered = 0 /\ spent["command"] = 0
        BY DEF Init, Disturbance
    <2> QED BY <2>1, NoCommands
<1>2. TypeOK /\ CommandsCovered /\ [Next]_vars => CommandsCovered'
    <2> SUFFICES ASSUME TypeOK, CommandsCovered, [Next]_vars PROVE CommandsCovered'
        OBVIOUS
    <2>1. CASE UNCHANGED vars
        BY <2>1 DEF vars, CommandsCovered, Cmds, Commands
    <2> QED BY <2>1, CommandsSocketStep, CommandsInstanceStep DEF Next
<1>3. TypeOK /\ CommandsCovered => CommandsAtMostOnce
    <2> SUFFICES ASSUME TypeOK, CommandsCovered PROVE delivered <= spent["command"]
        BY DEF CommandsAtMostOnce
    <2>1. PICK i \in Instance : TRUE
        BY ConnectHubAssumption
    <2>2. delivered + Cmds(chan[i][i]) + Cmds(chan[i][i]) <= spent["command"]
        BY DEF CommandsCovered
    <2>3. Cmds(chan[i][i]) \in Nat /\ delivered \in Nat /\ spent["command"] \in Nat
        BY CommandsAreFinite DEF TypeOK, Disturbance
    <2> QED BY <2>2, <2>3
<1> QED BY <1>1, <1>2, <1>3, TypeCorrect, PTL DEF Spec
-----------------------------------------------------------------------------
(* When the deletion is not asked for.  TransitionAsksCleanup fails when a *)
(* hello replaces the connection of the last device that played: onHello   *)
(* sets lastAnyPlaying without a look at its old value.  It is the only    *)
(* handler that misses a transition.                                       *)

\* Instance i goes silent while the device it would ask is connected to it.
FallsSilent(i) ==
    /\ AnyPlaying(i) /\ ~AnyPlaying(i)'
    /\ \E s \in CleanupOwner(i)' : ws'[s] = "open"

SilenceIsSeen ==
    [][\A i \in Instance :
          FallsSilent(i) => ~record' \/ \E s \in Socket : at[s] = i /\ VerifyOk(s)]_vars

\* A roster that shows the same does not go silent.
LEMMA SameStaysLoud ==
    ASSUME NEW i \in Instance, FallsSilent(i), local'[i] = local[i],
           \A v \in Device : remote'[i][v].shown = remote[i][v].shown,
           \A v \in Device : local[i][v] # NoSocket
                             => state'[local[i][v]] = state[local[i][v]]
    PROVE  FALSE
<1>1. AnyPlaying(i)' = AnyPlaying(i)
    BY SameRoster
<1> QED BY <1>1 DEF FallsSilent

\* reconcilePresence sees the silence of its own instance, for lastAnyPlaying was true.
LEMMA ReconcileSees ==
    ASSUME IInv, NEW i \in Instance, FallsSilent(i), NEW written, ReconcilePresence(i, written)
    PROVE  ~record'
<1>1. last[i] /\ ~AnyPlaying(i)'
    BY DEF IInv, Agrees, FallsSilent
<1>2. \E s \in CleanupOwner(i)' : Reaches(s)'
    BY DEF FallsSilent, Reaches
<1> QED BY <1>1, <1>2 DEF ReconcilePresence

LEMMA SocketStepSees ==
    ASSUME IInv, NEW i \in Instance, FallsSilent(i), NEW s \in Socket, SocketStep(s)
    PROVE  ~record' \/ (at[s] = i /\ VerifyOk(s))
<1>0. /\ TypeOK /\ RegistryCoherent /\ at[s] \in Instance /\ dev[s] \in Device
    BY DEF IInv, TypeOK
<1>1. ASSUME NEW v \in Device, local[i][v] = s PROVE at[s] = i /\ hs[s] = "ready"
    BY <1>0, <1>1, ConnectHubAssumption DEF RegistryCoherent
<1>2. ASSUME NEW p, state' = [state EXCEPT ![s] = p], \A v \in Device : local[i][v] # s
      PROVE  \A v \in Device : local[i][v] # NoSocket => state'[local[i][v]] = state[local[i][v]]
    BY <1>0, <1>2 DEF TypeOK
<1>3. ASSUME UNCHANGED <<state, local, remote>> PROVE FALSE
    BY <1>3, SameStaysLoud
<1>4. ASSUME NEW p \in PlayState, Hello(s, p) PROVE FALSE
    <2>1. hs[s] = "none" /\ state' = [state EXCEPT ![s] = p] /\ UNCHANGED <<local, remote>>
        BY <1>4 DEF Hello, hubVars
    <2>2. \A v \in Device : local[i][v] # s
        BY <1>1, <2>1
    <2> QED BY <1>2, <2>1, <2>2, SameStaysLoud
<1>5. ASSUME NEW p \in PlayState, HandleState(s, p) PROVE ~record'
    <2>1. /\ state' = [state EXCEPT ![s] = p] /\ UNCHANGED <<local, remote>>
          /\ ReconcilePresence(at[s], record \/ p = "playing")
        BY <1>5 DEF HandleState
    <2>2. CASE at[s] = i
        BY <2>1, <2>2, ReconcileSees
    <2>3. CASE at[s] # i
        <3>1. \A v \in Device : local[i][v] # s
            BY <1>1, <2>3
        <3> QED BY <1>2, <2>1, <3>1, SameStaysLoud
    <2> QED BY <2>2, <2>3
<1>6. ASSUME VerifyOk(s) PROVE at[s] = i
    <2>1. local' = [local EXCEPT ![at[s]][dev[s]] = s] /\ UNCHANGED <<state, remote>>
        BY <1>6 DEF VerifyOk
    <2>2. at[s] # i => local'[i] = local[i]
        BY <1>0, <2>1 DEF TypeOK
    <2> QED BY <2>1, <2>2, SameStaysLoud
<1>7. ASSUME Close(s) PROVE ~record'
    <2>1. UNCHANGED <<state, remote>>
        BY <1>7 DEF Close
    <2>2. CASE hs[s] = "ready" /\ IsCurrent(s)
        <3>1. /\ local' = [local EXCEPT ![at[s]][dev[s]] = NoSocket]
              /\ ReconcilePresence(at[s], record)
            BY <1>7, <2>2 DEF Close
        <3>2. CASE at[s] = i
            BY <3>1, <3>2, ReconcileSees
        <3>3. CASE at[s] # i
            <4>1. local'[i] = local[i]
                BY <1>0, <3>1, <3>3 DEF TypeOK
            <4> QED BY <2>1, <4>1, SameStaysLoud
        <3> QED BY <3>2, <3>3
    <2>3. CASE ~(hs[s] = "ready" /\ IsCurrent(s))
        BY <1>3, <1>7, <2>1, <2>3 DEF Close
    <2> QED BY <2>2, <2>3
<1>8. \/ Open(s) \/ VerifyFail(s) \/ HelloTimeout(s) \/ Bye(s) \/ Pong(s) \/ Vanish(s)
      \/ \E target \in Device : HandleCommand(s, target)
      => UNCHANGED <<state, local, remote>>
    BY DEF Open, VerifyFail, HelloTimeout, Bye, Pong, Vanish, HandleCommand, sockVars, hubVars
<1> QED BY <1>3, <1>4, <1>5, <1>6, <1>7, <1>8 DEF SocketStep

LEMMA InstanceStepSees ==
    ASSUME IInv, NEW i \in Instance, FallsSilent(i), NEW k \in Instance, InstanceStep(k)
    PROVE  ~record'
<1>0. TypeOK
    BY DEF IInv
<1>1. CASE Heartbeat(k)
    <2>1. /\ remote' = [remote EXCEPT ![k] = [v \in Device |-> Aged(k, v)]]
          /\ UNCHANGED <<state, local>>
        BY <1>1 DEF Heartbeat
    <2>2. k # i => remote'[i] = remote[i]
        BY <1>0, <2>1 DEF TypeOK
    <2>3. k = i
        BY <2>1, <2>2, SameStaysLoud
    <2>4. CASE \E v \in Device : Expired(k, v)
        <3>1. ReconcilePresence(i, record)
            BY <1>1, <2>3, <2>4 DEF Heartbeat
        <3> QED BY <3>1, ReconcileSees
    <2>5. CASE ~\E v \in Device : Expired(k, v)
        <3>1. ASSUME NEW v \in Device PROVE remote'[i][v].shown = remote[i][v].shown
            <4>1. remote'[i][v] = Aged(i, v)
                BY <1>0, <2>1, <2>3 DEF TypeOK
            <4>2. CASE remote[i][v].shown = "absent"
                <5>1. remote'[i][v] = NoRemote
                    BY <4>1, <4>2 DEF Aged
                <5> QED BY <4>2, <5>1 DEF NoRemote
            <4>3. CASE remote[i][v].shown # "absent"
                <5>1. remote'[i][v] = [shown |-> remote[i][v].shown, age |-> remote[i][v].age + 1]
                    BY <2>3, <2>5, <4>1, <4>3 DEF Aged
                <5> QED BY <5>1
            <4> QED BY <4>2, <4>3
        <3> QED BY <2>1, <3>1, SameStaysLoud
    <2> QED BY <2>4, <2>5
<1>2. CASE Crash(k)
    <2>1. /\ local' = [local EXCEPT ![k] = [v \in Device |-> NoSocket]]
          /\ remote' = [remote EXCEPT ![k] = [v \in Device |-> NoRemote]]
          /\ UNCHANGED state
        BY <1>2 DEF Crash
    <2>2. CASE k = i
        <3>1. \A v \in Device : local'[i][v] = NoSocket
            BY <1>0, <2>1, <2>2 DEF TypeOK
        <3>2. CleanupOwner(i)' = {}
            BY <3>1, ConnectHubAssumption DEF CleanupOwner
        <3> QED BY <3>2 DEF FallsSilent
    <2>3. CASE k # i
        <3>1. local'[i] = local[i] /\ remote'[i] = remote[i]
            BY <1>0, <2>1, <2>3 DEF TypeOK
        <3> QED BY <2>1, <3>1, SameStaysLoud
    <2> QED BY <2>2, <2>3
<1>3. ASSUME NEW j \in Instance, DeliverAnnounce(k, j) PROVE ~record'
    <2>1. ReconcilePresence(j, record) /\ UNCHANGED <<state, local>>
        BY <1>3 DEF DeliverAnnounce, Receive, sockVars
    <2>2. j # i => remote'[i] = remote[i]
        BY <1>3, <1>0 DEF DeliverAnnounce, TypeOK
    <2> QED BY <2>1, <2>2, SameStaysLoud, ReconcileSees
<1>4. ASSUME NEW j \in Instance, DeliverLeave(k, j) PROVE ~record'
    <2> DEFINE v == Head(chan[k][j]).device
    <2>1. remote' = [remote EXCEPT ![j][v] = NoRemote] /\ UNCHANGED <<state, local>>
        BY <1>4 DEF DeliverLeave, Receive, sockVars
    <2>2. j # i => remote'[i] = remote[i]
        BY <1>0, <2>1 DEF TypeOK
    <2>3. CASE remote[j][v] # NoRemote
        <3>1. ReconcilePresence(j, record)
            BY <1>4, <2>3 DEF DeliverLeave
        <3> QED BY <2>1, <2>2, <3>1, SameStaysLoud, ReconcileSees
    <2>4. CASE remote[j][v] = NoRemote
        <3>1. \A w \in Device : remote'[i][w] = remote[i][w]
            BY <1>0, <2>1, <2>4 DEF TypeOK
        <3> QED BY <2>1, <3>1, SameStaysLoud
    <2> QED BY <2>3, <2>4
<1>5. ASSUME NEW j \in Instance, DeliverCommand(k, j) \/ Lose(k, j) PROVE FALSE
    <2>1. UNCHANGED <<state, local, remote>>
        BY <1>5 DEF DeliverCommand, Lose, Receive, sockVars, hubVars
    <2> QED BY <2>1, SameStaysLoud
<1> QED BY <1>1, <1>2, <1>3, <1>4, <1>5 DEF InstanceStep

\* Every handler but a hello asks for the deletion when its instance goes silent and the
\* device it would ask is connected to it (hub.ts:173-185); a hello that replaces the
\* connection of the last player may not (hub.ts:297-303), which is what the run that finds
\* TransitionAsksCleanup violated shows.
THEOREM OnlyHelloMissesSilence == Spec => SilenceIsSeen
<1>1. IInv /\ [Next]_vars =>
        [\A i \in Instance :
            FallsSilent(i) => ~record' \/ \E s \in Socket : at[s] = i /\ VerifyOk(s)]_vars
    <2> SUFFICES ASSUME IInv, Next, NEW i \in Instance, FallsSilent(i)
                 PROVE  ~record' \/ \E s \in Socket : at[s] = i /\ VerifyOk(s)
        OBVIOUS
    <2> QED BY SocketStepSees, InstanceStepSees DEF Next
<1> QED BY <1>1, Invariance, PTL DEF Spec, SilenceIsSeen
-----------------------------------------------------------------------------
(* Where ghosts come from.  DisconnectDropsDevice fails because onHello    *)
(* registers a connection that closed while its token was verified.        *)

\* The registry holds a connection that is closed.
Ghost(s) == ws[s] = "closed" /\ local[at[s]][dev[s]] = s

GhostsAreLateHellos ==
    [][\A s \in Socket : ~Ghost(s) /\ Ghost(s)' => VerifyOk(s) /\ ws[s] = "closed"]_vars

\* What leaves the registry alone, and closes nobody, raises no ghost.
LEMMA NoGhostRises ==
    ASSUME NEW s \in Socket, Ghost(s)', UNCHANGED <<at, dev, local>>,
           ws'[s] = "closed" => ws[s] = "closed"
    PROVE  Ghost(s)
BY DEF Ghost

\* Shutting a socket does not close it at once.
LEMMA ShutIsNotClosed ==
    ASSUME TypeOK, NEW r \in Socket, NEW s \in Socket, Shut(r)[s] = "closed"
    PROVE  ws[s] = "closed"
BY DEF Shut, TypeOK

LEMMA GhostSocketStep ==
    ASSUME IInv, NEW s \in Socket, ~Ghost(s), Ghost(s)', NEW r \in Socket, SocketStep(r)
    PROVE  VerifyOk(s) /\ ws[s] = "closed"
<1>0. /\ TypeOK /\ RegistryCoherent
      /\ \A q \in Socket : at[q] \in Instance /\ dev[q] \in Device
    BY DEF IInv, TypeOK
<1>1. CASE VerifyOk(r)
    <2>1. /\ hs[r] = "verifying" /\ local' = [local EXCEPT ![at[r]][dev[r]] = r]
          /\ ws' = IF local[at[r]][dev[r]] \in Socket THEN Shut(local[at[r]][dev[r]]) ELSE ws
          /\ UNCHANGED <<at, dev>>
        BY <1>1 DEF VerifyOk
    <2>2. ws[s] = "closed"
        <3>1. ws'[s] = "closed"
            BY DEF Ghost
        <3> QED BY <1>0, <2>1, <3>1, ShutIsNotClosed
    <2>3. local'[at[s]][dev[s]] = s /\ local[at[s]][dev[s]] # s
        BY <2>1, <2>2 DEF Ghost
    <2>4. r = s
        BY <1>0, <2>1, <2>3 DEF TypeOK
    <2> QED BY <1>1, <2>2, <2>4
<1>2. CASE Close(r)
    <2>1. ws' = [ws EXCEPT ![r] = "closed"] /\ UNCHANGED <<at, dev, hs>>
        BY <1>2 DEF Close
    <2>2. local'[at[s]][dev[s]] = s
        BY <2>1 DEF Ghost
    <2>3. local[at[s]][dev[s]] = s
        <3>1. \/ local' = [local EXCEPT ![at[r]][dev[r]] = NoSocket]
              \/ local' = local
            BY <1>2 DEF Close
        <3>2. CASE local' = [local EXCEPT ![at[r]][dev[r]] = NoSocket]
            <4>1. local'[at[s]][dev[s]] \in {NoSocket, local[at[s]][dev[s]]}
                BY <1>0, <3>2 DEF TypeOK
            <4> QED BY <2>2, <4>1, ConnectHubAssumption
        <3> QED BY <2>2, <3>1, <3>2
    <2>4. s = r
        BY <1>0, <2>1, <2>3 DEF Ghost, TypeOK
    <2>5. hs[r] = "ready" /\ IsCurrent(r)
        BY <1>0, <2>3, <2>4, ConnectHubAssumption DEF RegistryCoherent, IsCurrent
    <2>6. local' = [local EXCEPT ![at[r]][dev[r]] = NoSocket]
        BY <1>2, <2>5 DEF Close
    <2>7. local'[at[r]][dev[r]] = NoSocket
        BY <1>0, <2>6 DEF TypeOK
    <2> QED BY <2>2, <2>4, <2>7, ConnectHubAssumption
<1>3. CASE VerifyFail(r) \/ HelloTimeout(r) \/ Bye(r)
    <2>1. ws' = Shut(r) /\ UNCHANGED <<at, dev, local>>
        BY <1>3 DEF VerifyFail, HelloTimeout, Bye, hubVars
    <2> QED BY <1>0, <2>1, NoGhostRises, ShutIsNotClosed
<1>4. CASE Open(r) \/ Vanish(r)
    <2>1. /\ ws' = [ws EXCEPT ![r] = "open"] \/ ws' = [ws EXCEPT ![r] = "dark"]
          /\ UNCHANGED <<at, dev, local>>
        BY <1>4 DEF Open, Vanish, hubVars
    <2>2. ws'[s] = "closed" => ws[s] = "closed"
        BY <1>0, <2>1 DEF TypeOK
    <2> QED BY <2>1, <2>2, NoGhostRises
<1>5. ASSUME NEW p \in PlayState, NEW target \in Device,
             Hello(r, p) \/ HandleState(r, p) \/ HandleCommand(r, target) \/ Pong(r)
      PROVE  FALSE
    <2>1. UNCHANGED <<ws, at, dev, local>>
        BY <1>5 DEF Hello, HandleState, HandleCommand, Pong, sockVars, hubVars
    <2> QED BY <2>1, NoGhostRises
<1> QED BY <1>0, <1>1, <1>2, <1>3, <1>4, <1>5 DEF SocketStep, PlayState

LEMMA GhostInstanceStep ==
    ASSUME IInv, NEW s \in Socket, ~Ghost(s), Ghost(s)', NEW i \in Instance, InstanceStep(i)
    PROVE  FALSE
<1>0. TypeOK /\ at[s] \in Instance /\ dev[s] \in Device
    BY DEF IInv, TypeOK
<1>1. CASE Heartbeat(i)
    <2>1. /\ ws' = [r \in Socket |-> IF r \in Unanswered(i) THEN Shut(r)[r] ELSE ws[r]]
          /\ UNCHANGED <<at, dev, local>>
        BY <1>1 DEF Heartbeat
    <2>2. ws'[s] = "closed" => ws[s] = "closed"
        BY <1>0, <2>1, ShutIsNotClosed
    <2> QED BY <2>1, <2>2, NoGhostRises
<1>2. CASE Crash(i)
    <2>1. /\ ws' = [r \in Socket |-> IF at[r] = i /\ ws[r] # "unused" THEN "closed" ELSE ws[r]]
          /\ local' = [local EXCEPT ![i] = [v \in Device |-> NoSocket]]
          /\ UNCHANGED <<at, dev>>
        BY <1>2 DEF Crash
    <2>2. ws'[s] = "closed" /\ local'[at[s]][dev[s]] = s
        BY <2>1 DEF Ghost
    <2>3. at[s] # i
        BY <1>0, <2>1, <2>2, ConnectHubAssumption DEF TypeOK
    <2> QED BY <1>0, <2>1, <2>2, <2>3 DEF Ghost, TypeOK
<1>3. ASSUME NEW j \in Instance,
             DeliverAnnounce(i, j) \/ DeliverLeave(i, j) \/ DeliverCommand(i, j) \/ Lose(i, j)
      PROVE  FALSE
    <2>1. UNCHANGED <<ws, at, dev, local>>
        BY <1>3 DEF DeliverAnnounce, DeliverLeave, DeliverCommand, Lose, Receive, sockVars, hubVars
    <2> QED BY <2>1, NoGhostRises
<1> QED BY <1>1, <1>2, <1>3 DEF InstanceStep

\* A closed connection is never left registered by its close, by a heartbeat or by a
\* restart (hub.ts:242-255, 455-463): the one way to a ghost device is a hello whose
\* connection closed while its token was verified (hub.ts:257-290), which is what the run that
\* finds DisconnectDropsDevice violated shows.
THEOREM OnlyLateHellosLeaveGhosts == Spec => GhostsAreLateHellos
<1>1. IInv /\ [Next]_vars =>
        [\A s \in Socket : ~Ghost(s) /\ Ghost(s)' => VerifyOk(s) /\ ws[s] = "closed"]_vars
    <2> SUFFICES ASSUME IInv, Next, NEW s \in Socket, ~Ghost(s), Ghost(s)'
                 PROVE  VerifyOk(s) /\ ws[s] = "closed"
        OBVIOUS
    <2> QED BY GhostSocketStep, GhostInstanceStep DEF Next
<1> QED BY <1>1, Invariance, PTL DEF Spec, GhostsAreLateHellos
=============================================================================
