CONSTANTS
    n1 = n1
    n2 = n2
    Nodes <- MCNodes
    Nil = Nil
    MaxReplicaId = 3
    MaxConf = 3
    AdminCap = 2
    ReplicaNum = 1
    ChanLimit = 2
    FollowerReport = "none"
    MaxAdminOps = 3
    MaxCrashes = 1
    MaxExpiries = 1
    ExpiriesBounded = TRUE
    MaxTasks = 5
    MaxPSStops = 0
SYMMETRY NodeSymmetry
SPECIFICATION Spec
INVARIANTS
    NoHandlerPanic
CHECK_DEADLOCK FALSE
