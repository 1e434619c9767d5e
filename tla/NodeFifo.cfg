SPECIFICATION Spec
CONSTANTS
    A = A
    B = B
    C = C
    Nodes = {A, B}
    Threads = {main}
    Origin = main
    IO = io
    InitialChannel = initial
    NoOne = none
    Invitations <- ParentChild
    MaxPipes = 3
    MaxSends = 4
    MaxHandles = 2
    MovesPerPipe = 1
    Creators = {A}
    Remotes <- FirstSides
    Receivers <- SecondSides
    Movables <- SecondSides
    EarlyHandles = FALSE
    Reforward = FALSE
INVARIANTS TypeOK PeerIsLocalOrRemote InOrder NoLossNoDup
CHECK_DEADLOCK FALSE
