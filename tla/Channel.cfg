SPECIFICATION FairSpec
CONSTANTS
    Inviter = inviter
    Invitee = invitee
    main = main
    worker = worker
    Threads <- SomeThreads
    IO = io
    NoThread = none
    HeaderSize = 1
    ControlSize = 2
    Sizes = {2, 3}
    Chunk = 2
    Capacity = 2
    Setups <- SomeSetups
    MaxMessages <- SomeMessages
    Mortal = {invitee}
INVARIANTS TypeOK StreamIsWhole AbortsForCause
PROPERTIES ImplementsPipes Delivered DeathSpreads
CHECK_DEADLOCK FALSE
