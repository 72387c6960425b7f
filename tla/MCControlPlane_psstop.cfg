\* PS processes stop (Close or a crash) and start again through doStart,
\* recovering what PSRegister assigns them from the master's record; a
\* target of two replicas, one admin RPC, no master crash.
CONSTANTS
    n1 = n1
    n2 = n2
    Nodes <- MCNodes
    Nil = Nil
    MaxReplicaId = 3
    MaxConf = 3
    AdminCap = 2
    ReplicaNum = 2
    ChanLimit = 2
    FollowerReport = "nil"
    MaxAdminOps = 1
    MaxCrashes = 0
    MaxExpiries = 1
    ExpiriesBounded = TRUE
    MaxTasks = 5
    MaxPSStops = 1
SYMMETRY NodeSymmetry
SPECIFICATION Spec
INVARIANTS
    LeaderInReplicas
    CacheMatchesStore
PROPERTIES
    RecordRefined
\* Once the admin, crash and timeout budgets are spent and the replicas have
\* converged, nothing is left to change: the control plane is quiescent.
CHECK_DEADLOCK FALSE
