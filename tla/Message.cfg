SPECIFICATION Spec
CONSTANTS
    Words = {a, b}
    Pipes = {p, q}
    MaxArguments = 3
    MaxLength = 2
    MaxHops = 2
INVARIANTS TypeOK ArgumentsArrive PointersSound
PROPERTIES Invoked
CHECK_DEADLOCK FALSE
