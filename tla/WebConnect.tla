------------------------------ MODULE WebConnect ------------------------------
(***************************************************************************)
(* A browser on the Connect hub: the socket client (lib/connect/client.ts),*)
(* the provider that rebuilds it with the session (ConnectProvider.tsx),   *)
(* and the ways to play here or on the device that is controlled           *)
(* (atoms/connect.ts, atoms/player.ts, the picker, the banner, the         *)
(* player's buttons and the media keys).  The hub and one other device are *)
(* seen through their messages.                                            *)
(***************************************************************************)
EXTENDS Naturals

CONSTANTS WcStation, WcNone,   \* stations, and none
          WcFaults,            \* bound: sockets and mints that fail
          WcActs               \* bound: what users do, here and on the other device

VARIABLES
    wcConn,    \* the ConnectClient: [on, sock, timer, closed, fails, notified]
    wcLate,    \* what is still to happen to sockets given up: [ev, own, fails]
    wcShown,   \* connectStatusAtom and connectAuthErrorAtom
    wcView,    \* devicesAtom: "self", "other"
    wcPeer,    \* the other device: [on, st]
    wcTarget,  \* remoteTargetIdAtom is the other device
    wcHere,    \* this player: [st, playing, direct]
    wcCount    \* [faults, acts] so far

wcVars == <<wcConn, wcLate, wcShown, wcView, wcPeer, wcTarget, wcHere, wcCount>>
wcNet  == <<wcConn, wcLate, wcShown, wcView>>
wcPlay == <<wcPeer, wcTarget, wcHere>>

NoClient    == [on |-> FALSE, sock |-> "none", timer |-> FALSE, closed |-> TRUE,
                fails |-> 0, notified |-> FALSE]
FreshClient == [NoClient EXCEPT !.on = TRUE, !.sock = "connecting", !.closed = FALSE]

\* st is currentStationAtom, playing is isPlayingAtom, and direct says that its own
\* button or the other device made it play while it controlled that one.
NothingOn      == [st |-> WcNone, playing |-> FALSE, direct |-> FALSE]
Starting(st)   == [st |-> st, playing |-> TRUE, direct |-> FALSE]
Pausing(here)  == [here EXCEPT !.playing = FALSE, !.direct = FALSE]
Toggling(here) == IF here.playing THEN Pausing(here) ELSE [here EXCEPT !.playing = TRUE]

WcInit ==
    /\ wcConn = NoClient /\ wcLate = {} /\ wcView = {}
    /\ wcShown = [status |-> "offline", authError |-> FALSE]
    /\ wcPeer \in [on : BOOLEAN, st : {WcNone}]
    /\ wcTarget = FALSE /\ wcHere = NothingOn
    /\ wcCount = [faults |-> 0, acts |-> 0]

Online == wcConn.sock = "online"
Fault  == wcCount.faults < WcFaults /\ wcCount' = [wcCount EXCEPT !.faults = @ + 1]
ConnectAct  == wcCount.acts < WcActs /\ wcCount' = [wcCount EXCEPT !.acts = @ + 1]

\* The target while it is listed (remoteTargetAtom): what the page shows as active.
Controls(target, view) == target /\ "other" \in view
RemoteActive           == Controls(wcTarget, wcView)

-----------------------------------------------------------------------------
(* The socket client.                                                      *)

\* Fault: after the prompt the client gives up.
Retrying_Prompted(c) == [c EXCEPT !.timer = ~c.closed /\ ~c.notified]

\* scheduleReconnect: one timer, and none once closed.
Retrying(c) == [c EXCEPT !.timer = ~c.closed]

\* notifyAuthError: once until the next welcome.
Notified(c, shown) ==
    IF c.notified THEN shown ELSE [status |-> "offline", authError |-> TRUE]

\* onopen, to mint the token; the minted token is said on the socket it was minted for.
SocketOpens ==
    /\ wcConn.sock = "connecting"
    /\ wcConn' = [wcConn EXCEPT !.sock = "minting"]
    /\ UNCHANGED <<wcLate, wcShown, wcView, wcPlay, wcCount>>

Hello ==
    /\ wcConn.sock = "minting"
    /\ wcConn' = [wcConn EXCEPT !.sock = "hello"]
    /\ UNCHANGED <<wcLate, wcShown, wcView, wcPlay, wcCount>>

\* The token could not be minted: the second time in a row the user is asked to sign in;
\* the retries go on.
MintFails ==
    /\ wcConn.sock = "minting" /\ Fault
    /\ LET more == [wcConn EXCEPT !.fails = @ + 1]
           tell == more.fails >= 2
       IN  /\ wcConn' = Retrying([more EXCEPT !.sock = "none",
                                              !.notified = @ \/ tell])
           /\ wcShown' = [(IF tell THEN Notified(more, wcShown) ELSE wcShown)
                             EXCEPT !.status = "offline"]
    /\ UNCHANGED <<wcLate, wcView, wcPlay>>

\* The hub verified the hello.
Welcome ==
    /\ wcConn.sock = "hello"
    /\ wcConn' = [wcConn EXCEPT !.sock = "online", !.fails = 0, !.notified = FALSE]
    /\ wcShown' = [status |-> "online", authError |-> FALSE]
    /\ UNCHANGED <<wcLate, wcView, wcPlay, wcCount>>

\* AuthFailed: no more retries, the user is to sign in again.
AuthFailed ==
    /\ wcConn.sock = "hello" /\ Fault
    /\ wcConn' = [wcConn EXCEPT !.sock = "none", !.closed = TRUE, !.notified = TRUE]
    /\ wcShown' = [Notified(wcConn, wcShown) EXCEPT !.status = "offline"]
    /\ UNCHANGED <<wcLate, wcView, wcPlay>>

\* onclose.  A mint under way is for nobody then, but its failure counts.
SocketCloses ==
    /\ wcConn.sock # "none" /\ Fault
    /\ wcConn' = Retrying([wcConn EXCEPT !.sock = "none"])
    /\ wcLate' = IF wcConn.sock = "minting"
                 THEN wcLate \cup {[ev |-> "mint", own |-> TRUE, fails |-> 0]} ELSE wcLate
    /\ wcShown' = [wcShown EXCEPT !.status = "offline"]
    /\ UNCHANGED <<wcView, wcPlay>>

Reconnect ==
    /\ wcConn.timer
    /\ wcConn' = [wcConn EXCEPT !.timer = FALSE, !.sock = "connecting"]
    /\ wcShown' = [wcShown EXCEPT !.status = "connecting"]
    /\ UNCHANGED <<wcLate, wcView, wcPlay, wcCount>>

\* The handlers of a socket given up write what this client, or the next, shows.
Late == \E e \in wcLate :
    /\ wcLate' = wcLate \ {e}
    /\ CASE e.ev = "close" ->
              wcShown' = [wcShown EXCEPT !.status = "offline"] /\ UNCHANGED wcConn
         [] e.ev = "mint" /\ e.own ->
              LET c == [wcConn EXCEPT !.fails = @ + 1]
              IN  /\ wcConn' = [c EXCEPT !.notified = @ \/ c.fails >= 2]
                  /\ wcShown' = IF c.fails >= 2 THEN Notified(c, wcShown) ELSE wcShown
         [] OTHER ->
              /\ wcShown' = IF e.fails >= 1 THEN [status |-> "offline", authError |-> TRUE]
                                            ELSE wcShown
              /\ UNCHANGED wcConn
    /\ UNCHANGED <<wcView, wcPlay, wcCount>>

MintedLate == \E e \in wcLate :
    /\ e.ev = "mint" /\ wcLate' = wcLate \ {e}
    /\ UNCHANGED <<wcConn, wcShown, wcView, wcPlay, wcCount>>

-----------------------------------------------------------------------------
(* The session.                                                            *)

SignIn ==
    /\ ~wcConn.on /\ ConnectAct
    /\ wcConn' = FreshClient
    /\ wcShown' = [status |-> "connecting", authError |-> FALSE]
    /\ UNCHANGED <<wcLate, wcView, wcPlay>>

\* The session ends or is another: stop() says bye; what its socket and mint still bring
\* comes late.
WebSignOut ==
    /\ wcConn.on /\ ConnectAct
    /\ wcConn' = NoClient
    /\ wcLate' = {[e EXCEPT !.own = FALSE, !.fails = wcConn.fails] : e \in wcLate}
                 \cup (IF wcConn.sock = "none" THEN {}
                       ELSE {[ev |-> "close", own |-> FALSE, fails |-> 0]})
                 \cup (IF wcConn.sock # "minting" THEN {}
                       ELSE {[ev |-> "mint", own |-> FALSE, fails |-> wcConn.fails]})
    /\ wcShown' = [status |-> "offline", authError |-> FALSE]
    /\ wcView' = {}
    /\ UNCHANGED wcPlay

-----------------------------------------------------------------------------
(* Playing here, or there.                                                 *)

\* A command reaches the other device through the hub, or nobody; a play or pause and a
\* volume change nothing that this device looks at.
Command(cmd, st) ==
    IF ~(Online /\ wcPeer.on) THEN wcPeer
    ELSE CASE cmd = "playStation" -> [wcPeer EXCEPT !.st = st]
           [] cmd = "stop"        -> [wcPeer EXCEPT !.st = WcNone]
           [] OTHER               -> wcPeer

Becomes(here, peer) == wcHere' = here /\ wcPeer' = peer

\* playStationAtom and togglePlayAtom route by the target's id, listed or not.
RoutePlay(st) ==
    /\ ConnectAct
    /\ IF wcTarget THEN Becomes(wcHere, Command("playStation", st))
                   ELSE Becomes(Starting(st), wcPeer)
    /\ UNCHANGED <<wcNet, wcTarget>>

TogglePlay ==
    /\ ConnectAct /\ wcHere.st # WcNone
    /\ IF wcTarget THEN Becomes(wcHere, Command("playPause", WcNone))
                   ELSE Becomes(Toggling(wcHere), wcPeer)
    /\ UNCHANGED <<wcNet, wcTarget>>

\* The player's own buttons and the media keys of the system act on this player, whatever
\* it controls; a stop pauses too.
LocalButton ==
    /\ wcHere.st # WcNone /\ ConnectAct
    /\ \E here \in {[wcHere EXCEPT !.playing = TRUE, !.direct = @ \/ RemoteActive],
                     Pausing(wcHere)} : Becomes(here, wcPeer)
    /\ UNCHANGED <<wcNet, wcTarget>>

\* selectDeviceAtom: the other device takes over what plays here.
SelectRemote ==
    /\ ConnectAct
    /\ wcTarget' = TRUE
    /\ Becomes(Pausing(wcHere),
               IF wcHere.playing /\ wcHere.st # WcNone
               THEN Command("playStation", wcHere.st) ELSE wcPeer)
    /\ UNCHANGED wcNet

\* ... or what the other device shows is pulled back.
SelectHere ==
    /\ wcTarget /\ ConnectAct
    /\ wcTarget' = FALSE
    /\ IF RemoteActive /\ wcPeer.st # WcNone
       THEN Becomes(Starting(wcPeer.st), Command("stop", WcNone))
       ELSE Becomes(wcHere, wcPeer)
    /\ UNCHANGED wcNet

\* The picker lists whom the roster lists.
Picker == ("other" \in wcView /\ SelectRemote) \/ ("self" \in wcView /\ SelectHere)

\* The banner, while a remote device is active.
Banner ==
    /\ RemoteActive /\ ConnectAct
    /\ Becomes(wcHere, Command("stop", WcNone))
    /\ UNCHANGED <<wcNet, wcTarget>>

\* applyCommand: what the other device orders.
Ordered(cmd, st) ==
    /\ Online /\ wcPeer.on /\ ConnectAct
    /\ wcTarget' = (wcTarget /\ cmd \notin {"play", "playStation"})
    /\ Becomes(CASE cmd = "play"        -> [wcHere EXCEPT !.playing = TRUE]
                 [] cmd = "pause"       -> Pausing(wcHere)
                 [] cmd = "playPause"   -> [Toggling(wcHere) EXCEPT
                                              !.direct = ~wcHere.playing /\ RemoteActive]
                 [] cmd = "stop"        -> NothingOn
                 [] cmd = "playStation" -> Starting(st), wcPeer)
    /\ UNCHANGED wcNet

\* Fault: a target that is listed again is controlled, but nothing is silenced.
Silenced_OnSelect(here, view) == here

\* The player's effect on isRemoteActiveAtom.
Silenced(here, view) ==
    IF ~RemoteActive /\ Controls(wcTarget, view) THEN Pausing(here) ELSE here

\* The hub's roster.  A device that left stays the target; one that is listed again is
\* controlled again.
Devices ==
    LET listed == {"self"} \cup (IF wcPeer.on THEN {"other"} ELSE {})
    IN  /\ Online /\ wcView # listed
        /\ wcView' = listed
        /\ Becomes(Silenced(wcHere, listed), wcPeer)
        /\ UNCHANGED <<wcConn, wcLate, wcShown, wcTarget, wcCount>>

\* The other device joins, or leaves.
PeerMoves ==
    /\ ConnectAct
    /\ Becomes(wcHere, [on |-> ~wcPeer.on, st |-> WcNone])
    /\ UNCHANGED <<wcNet, wcTarget>>

Order == {"play", "pause", "playPause", "stop", "playStation"}

WcNext ==
    \/ SocketOpens \/ Hello \/ MintFails \/ Welcome \/ AuthFailed \/ SocketCloses \/ Reconnect
    \/ Late \/ MintedLate \/ SignIn \/ WebSignOut
    \/ \E st \in WcStation : RoutePlay(st)
    \/ TogglePlay \/ LocalButton \/ Picker \/ Banner
    \/ \E cmd \in Order, st \in WcStation : Ordered(cmd, st)
    \/ Devices \/ PeerMoves

\* Timers fire, and what the network is to bring arrives or fails.
WcFairness ==
    /\ WF_wcVars(SocketOpens) /\ WF_wcVars(Hello) /\ WF_wcVars(Welcome)
    /\ WF_wcVars(Reconnect)

WcSpec == WcInit /\ [][WcNext]_wcVars

-----------------------------------------------------------------------------
(* Properties.                                                             *)

\* A client that was not refused for good reaches the hub again, whatever sockets and
\* mints fail on the way, the prompt to sign in included: it keeps retrying.
ComesBack ==
    (wcConn.on /\ ~wcConn.closed) ~> (Online \/ wcConn.closed)

\* While another device is shown as the one that plays, this one is silent ("silence local
\* audio; the remote takes over", connect.ts:66; "Handing off to a remote device: silence
\* local playback", Player.tsx:369), however devices leave and come back, sockets fail and
\* orders cross; but for the player's own button and a toggle of the other device, which
\* nothing routes.
SilentWhileControlling ==
    RemoteActive /\ wcHere.playing => wcHere.direct
=============================================================================
