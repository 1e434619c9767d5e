SPECIFICATION FairSpec
CONSTANTS
    A = A
    B = B
    C = C
    Nodes = {A, B}
    Threads = {main, worker}
    Origin = main
    IO = io
    InitialChannel = initial
    NoOne = none
    Invitations <- ParentChild
    MaxPipes = 2
    MaxSends = 3
    MaxHandles = 1
    MovesPerPipe = 2
    Creators = {A}
    Remotes <- FirstSides
    Receivers <- SecondSides
    Movables <- SecondSides
    EarlyHandles = TRUE
    Reforward = FALSE
INVARIANTS NoLossNoDup
PROPERTIES Delivery AcceptanceReported
CHECK_DEADLOCK FALSE
