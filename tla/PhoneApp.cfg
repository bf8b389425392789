SPECIFICATION PhoneSpec
CHECK_DEADLOCK FALSE
CONSTANTS
    Did = {d1, d2}
    NoDid = noDid
    MaxGen = 4
    MaxTask = 2
    View = {v1, v2}
    NoView = noView
    Request = {r1, r2}
    MobStation = {m1, m2}
    NoStation = noStation
    MobQueue = 2
    MobWishes = 3
    HistKey = {a, b}
    NoKey = noKey
    HistSelects = 4
    HistFaults = 2
    EqUser = {u1, u2}
    NoUser = noUser
    EqValue = {1, 2}
    NoValue = 0
    EqEdits = 3
    EqChanges = 3
    MfUser = {u1}
    MfNoUser = noUser
    MfStation = {s1, s2}
    MfActs = 4
    MfFaults = 2
    RsText = {q1}
    RsBlank = blank
    RsGenre = {g1}
    RsNoGenre = noGenre
    RsMirrors = 1
    RsActs = 5
    MsUser = {u1}
    MsNoUser = noUser
    MsActs = 6
    MdOld = {1}
    MdActs = 5
    MdFaults = 1
INVARIANTS
    LogoutForgetsAll
    SubmittedOnce
    LastWishHeard
    SettingsKeepTheirOwner
    HeartsAreTrue
    TitleIsTrue
    FormWasAskedFor
    NothingTypedIsLost
PROPERTIES
    CancelledStaysOut
    AppFollowsRuntime
    RecordFollowsSelection
    PlayedIsRecorded
    
