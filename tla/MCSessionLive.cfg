SPECIFICATION FairLinkSpec
CONSTANTS
    HeartBtInt = 1
    LogonTimeout = 1
    LogoutTimeout = 1
    PeerKinds = {"App", "Logout"}
    MaxPeer = 3
    MaxGarbled = 1
    MaxOrders = 0
    MaxConnections = 1
PROPERTIES
    GapEnds
    LogoutEnds
CHECK_DEADLOCK FALSE
