\* Liveness under LiveSpec's fairness.  A target of 2 replicas, so the
\* under-count branch, the latch and Create events are exercised; one admin
\* RPC to bootstrap the partition, no master crash, time unbounded (the
\* latch's timeout fires as often as it is held).  No symmetry: it is not
\* sound with liveness.  Smaller channels, ConfVersion and one processor
\* goroutine at a time keep the temporal check within minutes.
CONSTANTS
    n1 = n1
    n2 = n2
    Nodes <- MCNodes
    Nil = Nil
    MaxReplicaId = 3
    MaxConf = 2
    AdminCap = 1
    ReplicaNum = 2
    ChanLimit = 1
    FollowerReport = "nil"
    MaxAdminOps = 1
    MaxCrashes = 0
    MaxExpiries = 1
    ExpiriesBounded = FALSE
    MaxTasks = 1
    MaxPSStops = 0
SPECIFICATION LiveSpec
PROPERTIES
    DeficitRetried
\* Until the admin RPC creates the first store no PS heartbeats and nothing
\* is enabled: the system really idles there.
CHECK_DEADLOCK FALSE
