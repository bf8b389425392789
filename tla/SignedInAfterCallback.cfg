SPECIFICATION WsSpec
CHECK_DEADLOCK FALSE
CONSTANTS
    WsUser = {u1, u2}
    WsNoUser = noUser
    WsActs = 1
    WsFaults = 0
PROPERTIES
    LandsAuthenticated
