\* The Versions a Watch caller sees, with one value and three writes.
CONSTANTS
    Keys = {k1, k2}
    WatchKey = k1
    Vals = {v1}
    MaxWrites = 3
    NotifCap = 2
    Nil = Nil
SPECIFICATION Spec
INVARIANT VersionsIncrease
\* Once the writes are spent and the streams have ended or are drained,
\* nothing is left to happen.
CHECK_DEADLOCK FALSE
