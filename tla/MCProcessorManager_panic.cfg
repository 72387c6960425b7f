\* Reproduction only, kept by no run (Close has no caller in src): a Close
\* racing PushEvent makes the process panic.
CONSTANTS
    Pushers = {p1, p2}
    Closers = {c1}
    EventTypes = {"create"}
    Limit = 1
    Cap = 2
    MaxPushes = 1
    Nil = Nil
SPECIFICATION Spec
INVARIANTS
    NoPanic
CHECK_DEADLOCK FALSE
