SPECIFICATION Spec
CONSTANTS
    A = A
    B = B
    C = C
    Nodes = {A, B}
    Threads = {main}
    Origin = main
    IO = io
    InitialChannel = initial
    NoOne = none
    Invitations <- ParentChild
    MaxPipes = 2
    MaxSends = 3
    MaxHandles = 1
    MovesPerPipe = 3
    Creators = {A}
    Remotes <- AnyEnd
    Receivers <- AnyEnd
    Movables <- AnyEnd
    EarlyHandles = TRUE
    Reforward = FALSE
INVARIANTS ReceptionReady DependentsReady HandlesAreDirect OneHome RightReceiver
PROPERTIES RoutesAreFinal
CHECK_DEADLOCK FALSE
