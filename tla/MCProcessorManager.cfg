\* Two pushers of two events each, two closers (so a second manager is
\* created after a Close, and two Closes can race), the three event
\* types, and a channel limit of 1 below a capacity of 2, as 900 is below
\* 1000: both pushers can pass the limit check at once and the sends fit.
CONSTANTS
    Pushers = {p1, p2}
    Closers = {c1, c2}
    EventTypes = {"create", "force"}
    Limit = 1
    Cap = 2
    MaxPushes = 1
    Nil = Nil
SPECIFICATION Spec
INVARIANTS
    TypeOK
    OneRunLoop
PROPERTIES
    AcceptedEventHandled
\* The process may stop: the pushers' budgets spent and the closers done,
\* or a panic.
CHECK_DEADLOCK FALSE
