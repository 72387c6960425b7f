CONSTANTS
    n1 = n1
    n2 = n2
    Nodes <- MCNodes
    Nil = Nil
    MaxReplicaId = 3
    MaxConf = 3
    AdminCap = 2
    ReplicaNum = 1
    ChanLimit = 2
    FollowerReport = "nil"
    MaxAdminOps = 3
    MaxCrashes = 1
    MaxExpiries = 1
    ExpiriesBounded = TRUE
    MaxTasks = 5
    MaxPSStops = 0
SYMMETRY NodeSymmetry
SPECIFICATION Spec
INVARIANTS
    TypeOK
    LeaderInReplicas
    CacheMatchesStore
PROPERTIES
    RecordRefined
    DeleteOnlyWhenOverReplicated
\* Once the admin, crash and timeout budgets are spent and the replicas have
\* converged, nothing is left to change: the control plane is quiescent.
CHECK_DEADLOCK FALSE
