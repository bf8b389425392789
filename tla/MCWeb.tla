-------------------------------- MODULE MCWeb --------------------------------
(***************************************************************************)
(* The parts of the web app, the media proxies, the read API and the SDK,  *)
(* for model checking.  They share no state in these modules, so one run   *)
(* checks them all: each behaviour is about one of them, and the others    *)
(* stay where they are.                                                    *)
(***************************************************************************)
EXTENDS ProxyStream, ProxyGate, AppViewRead, RepoAgent, WebConnect, WebPlayer,
        WebSettings, WebLibrary, WebDiscussion, WebSession, TLC

\* The bodies of the upstreams: a listener's song and one that breaks off, a title whose
\* metadata two chunks share, and audio without one. A size line may have an extension.
Lines    == ("0" :> 0) @@ ("1;" :> 1) @@ ("2" :> 2) @@ ("3" :> 3) @@ ("4" :> 4)
Line(l)  == IF l = "1;" THEN <<"1", ";">> ELSE <<l>>
MCSize   == [line \in {Line(l) : l \in DOMAIN Lines} |->
               Lines[CHOOSE l \in DOMAIN Lines : Line(l) = line]]
Music    == <<"a", "b", "c">>
Untitled == <<"a", "b", "l0", "a", "b", "l0", "a", "b", "l0", "a">>
Titled   == <<"a", "b", "l0", "c", "d", "l2", "T", "U", "a">>
MCByte   == {"\r", "\n", ";", "0", "1", "2", "3", "4", "z", "a", "b", "c", "d", "l0", "l2",
             "T", "U"}
MCLength == [b \in MCByte |-> IF b = "l2" THEN 2 ELSE 0]
MCTitles == {<<"T", "U">>}
MCPayload == [stream |-> {Music, <<"a">>}, icy |-> {Titled, Untitled}]

\* A body that ends, and one that a chunk comes before.
Ends(last, rest) == (Line(last) \o CRLF \o rest) :> <<>>
Prepend(l, data, framed) ==
    [w \in {Line(l) \o CRLF \o data \o CRLF \o v : v \in DOMAIN framed} |->
       data \o framed[SubSeq(w, Len(Line(l)) + Len(data) + 5, Len(w))]]
MCFramed ==
    LET ended  == Ends("0", CRLF)
        broken == Ends("z", <<"b">>)
        c      == Prepend("1;", <<"c">>, ended)
        abc    == Prepend("2", <<"a", "b">>, c)
        a      == Prepend("1;", <<"a">>, broken)
        ua     == Prepend("2", <<"U", "a">>, ended)
        title  == Prepend("4", <<"c", "d", "l2", "T">>, ua)
        titled == Prepend("3", <<"a", "b", "l0">>, title)
    IN  ended @@ broken @@ c @@ abc @@ a @@ ua @@ title @@ titled

VARIABLE webPart   \* the part this behaviour is about

webVars ==
    <<webPart, upVars, gateVars, readVars, agentVars, wcVars, wpVars, waVars,
      wlVars, wdVars, wsVars>>

WebPart ==
    {"upstream", "gate", "pages", "agents", "connect", "player", "settings",
     "library", "discussion", "session"}

\* The part that moves starts in any of its initial states, the others in one.
WebInit ==
    /\ webPart \in WebPart
    /\ UpInit
    /\ GateInit
    /\ ReadInit /\ (webPart = "pages" \/ (readList = "comments" /\ readRows = {}))
    /\ AgentInit /\ (webPart = "agents" \/ favRecords = {})
    /\ WcInit /\ (webPart = "connect" \/ ~wcPeer.on)
    /\ WpInit
    /\ WaInit /\ \A s \in WaSection \ {"eq"} : waLocal[s] = 0
              /\ (webPart = "settings" \/ (waLocal = Defaults /\ waRepo = [u \in WaUser |-> WaNone]))
    /\ WlInit
    /\ WdInit /\ (webPart = "discussion" \/ wdServer = {})
    /\ WsInit /\ (webPart = "session" \/ wsStore = [u \in WsUser |-> "none"])

\* The other parts stay as they are.
Only(name) ==
    /\ webPart = name /\ UNCHANGED webPart
    /\ (name # "upstream" => UNCHANGED upVars)
    /\ (name # "gate" => UNCHANGED gateVars)
    /\ (name # "pages" => UNCHANGED readVars)
    /\ (name # "agents" => UNCHANGED agentVars)
    /\ (name # "connect" => UNCHANGED wcVars)
    /\ (name # "player" => UNCHANGED wpVars)
    /\ (name # "settings" => UNCHANGED waVars)
    /\ (name # "library" => UNCHANGED wlVars)
    /\ (name # "discussion" => UNCHANGED wdVars)
    /\ (name # "session" => UNCHANGED wsVars)

UpStep    == Only("upstream") /\ UpNext
GateStep  == Only("gate") /\ GateNext
ReadStep  == Only("pages") /\ ReadNext
AgentStep == Only("agents") /\ AgentNext
WcStep    == Only("connect") /\ WcNext
WpStep    == Only("player") /\ WpNext
WaStep    == Only("settings") /\ WaNext
WlStep    == Only("library") /\ WlNext
WdStep    == Only("discussion") /\ WdNext
WsStep    == Only("session") /\ WsNext

WebNext ==
    \/ UpStep \/ GateStep \/ ReadStep \/ AgentStep \/ WcStep \/ WpStep \/ WaStep
    \/ WlStep \/ WdStep \/ WsStep

\* The fairness each part states, for the behaviours that are about it.
WebFairness ==
    /\ WF_upVars(webPart = "upstream" /\ HeaderTimeout)
    /\ WF_upVars(webPart = "upstream" /\ ScanTimeout)
    /\ WF_wcVars(webPart = "connect" /\ SocketOpens)
    /\ WF_wcVars(webPart = "connect" /\ Hello)
    /\ WF_wcVars(webPart = "connect" /\ Welcome)
    /\ WF_wcVars(webPart = "connect" /\ Reconnect)
    /\ WF_wsVars(webPart = "session" /\ SessionRestored)
    /\ WF_wsVars(webPart = "session" /\ FinishLogin)
    /\ WF_wsVars(webPart = "session" /\ LogoutDone)
    /\ WF_wsVars(webPart = "session" /\ RefreshTick)
    /\ WF_wsVars(webPart = "session" /\ RefresherDone)

WebSpec == WebInit /\ [][WebNext]_webVars /\ WebFairness
==============================================================================
