\* A directory of two keys, Watch on one of them and WatchDir on both, one
\* value, three writes (in or outside the directory) and channels of one,
\* so a goroutine blocks on a full channel.
CONSTANTS
    Keys = {k1, k2}
    WatchKey = k1
    Vals = {v1}
    MaxWrites = 3
    NotifCap = 1
    Nil = Nil
SPECIFICATION LiveSpec
INVARIANTS
    TypeOK
    DirStreamExact
PROPERTIES
    StreamDeliversWrites
    CancelEndsStream
\* Once the writes are spent and the streams have ended or are drained,
\* nothing is left to happen.
CHECK_DEADLOCK FALSE
