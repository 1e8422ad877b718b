CONSTANTS
    Client = {a, b}
    Request = {r1, r2, r3, r4, r5}
    MaxScans = 2
    Window = 2
    MaxTime = 3
    MaxRestarts = 1
    NoClient = NoClient
SPECIFICATION Spec
SYMMETRY Symmetry
INVARIANTS TypeOK SlidingWindow AcceptedKeepTheRate
PROPERTY RefusedOnlyWhenFull
\* The clock and the requests are bounded: the model stops when both are used up.
CHECK_DEADLOCK FALSE
