\* As MCControlPlane_live.cfg, with a second admin RPC: a ChangeReplica the
\* master has not yet seen bumps the leader's ConfVersion while a Create is
\* in flight, and one failed AddReplica leaves an orphaned, stale store.
CONSTANTS
    n1 = n1
    n2 = n2
    Nodes <- MCNodes
    Nil = Nil
    MaxReplicaId = 3
    MaxConf = 2
    AdminCap = 1
    ReplicaNum = 2
    ChanLimit = 1
    FollowerReport = "nil"
    MaxAdminOps = 2
    MaxCrashes = 0
    MaxExpiries = 1
    ExpiriesBounded = FALSE
    MaxTasks = 2
    MaxPSStops = 0
SPECIFICATION LiveSpec
PROPERTIES
    DeficitRetried
\* Until the admin RPC creates the first store no PS heartbeats and nothing
\* is enabled: the system really idles there.
CHECK_DEADLOCK FALSE
