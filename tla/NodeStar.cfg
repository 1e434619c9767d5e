SPECIFICATION ConnectedSpec
CONSTANTS
    A = A
    B = B
    C = C
    Nodes = {A, B, C}
    Threads = {main}
    Origin = main
    IO = io
    InitialChannel = initial
    NoOne = none
    Invitations <- Star
    MaxPipes = 3
    MaxSends = 4
    MaxHandles = 1
    MovesPerPipe = 3
    Creators = {A}
    Remotes <- FirstSides
    Receivers <- SecondSides
    Movables <- AnyEnd
    EarlyHandles = TRUE
    Reforward = FALSE
INVARIANTS NoOrphans ProxiesLeadOn
CHECK_DEADLOCK FALSE
