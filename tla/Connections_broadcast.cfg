SPECIFICATION SocketsSpec
CONSTANTS
    Clients = {c1, c2, c3}
    Broadcasts = {b1, b2}
    Faults <- AllFaults
INVARIANTS
    DeliveredOnce
    UndisturbedReachesAll
SYMMETRY AnyName
CHECK_DEADLOCK FALSE
