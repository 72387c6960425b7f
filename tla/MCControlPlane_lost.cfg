\* The liveness configuration with one PS stop: the PS restarts through
\* doStart, and register answers from the master's record of the partition,
\* which a heartbeat has not yet brought up to date.
CONSTANTS
    n1 = n1
    n2 = n2
    Nodes <- MCNodes
    Nil = Nil
    MaxReplicaId = 3
    MaxConf = 2
    AdminCap = 1
    ReplicaNum = 2
    ChanLimit = 1
    FollowerReport = "nil"
    MaxAdminOps = 1
    MaxCrashes = 0
    MaxExpiries = 1
    ExpiriesBounded = FALSE
    MaxTasks = 2
    MaxPSStops = 1
SPECIFICATION LiveSpec
PROPERTIES
    LostReplicaRepaired
\* Until the admin RPC creates the first store no PS heartbeats and nothing
\* is enabled: the system really idles there.
CHECK_DEADLOCK FALSE
