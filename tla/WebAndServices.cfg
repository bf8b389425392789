SPECIFICATION WebSpec
CHECK_DEADLOCK FALSE
CONSTANTS
    UpHops = 2
    UpExtra = 5
    UpMetaint = 2
    UpByte <- MCByte
    UpSize <- MCSize
    UpLength <- MCLength
    UpTitles <- MCTitles
    UpPayload <- MCPayload
    UpFramed <- MCFramed
    GateIp = {i1}
    GateLimit = 2
    GateWindow = 2
    GateTtl = 2
    GateWait = 1
    GateOpen = 2
    GateEnd = 3
    ReadItem = {i1, i2}
    ReadLimit = 1
    ReadTime = 3
    ReadWrites = 1
    Agent = {x, y}
    ListLimit = 2
    AgentCalls = 2
    WcStation = {s1}
    WcNone = none
    WcFaults = 2
    WcActs = 6
    WpStation = {s1, s2}
    WpNone = none
    WpActs = 3
    WaUser = {u1, u2}
    WaNoUser = noUser
    WaSection = {"eq", "tone"}
    WaNone = none
    WaActs = 3
    WaFaults = 1
    WaOpen = 2
    WlUser = {u1, u2}
    WlNoUser = noUser
    WlStation = {s1, s2}
    WlActs = 3
    WlFaults = 1
    WdStation = {s1, s2}
    WdNone = none
    WdComments = 1
    WdActs = 3
    WdPolls = 2
    WdFaults = 1
    WsUser = {u1, u2}
    WsNoUser = noUser
    WsActs = 2
    WsFaults = 2
INVARIANTS
    PayloadOnly
    GateHolds
    WalkShowsOnce
    SilentWhileControlling
    OneBackend
    LibraryShown
    OwnWordsStand
PROPERTIES
    OpenSettles
    CallsEndRight
    ComesBack
    OnlyLateSavesClobber
    DeadSessionEnds
