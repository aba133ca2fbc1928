SPECIFICATION LinkSpec
CONSTANTS
    HeartBtInt = 1
    LogonTimeout = 1
    LogoutTimeout = 1
    PeerKinds = {"App", "Bad", "TestRequest", "Logout"}
    MaxPeer = 3
    MaxGarbled = 1
    MaxOrders = 1
    MaxConnections = 2
INVARIANTS
    TypeOK
    DeliveredExactly
    OrdersAtMostOnce
    NothingInTurnWaits
PROPERTY
    ImplementsDelivery
CHECK_DEADLOCK FALSE
