SPECIFICATION FairSpec
CONSTANTS
    Senders = {io, app}
    Owner = owner
    NoThread = none
    Plans = {"bind", "send", "invite"}
    MaxMessages = 4
INVARIANTS Guarded ChecksHold NoneStranded IntroducedFirst NoLossNoDup InOrder
PROPERTIES StateIsFinal ImplementsPipe Delivery
CHECK_DEADLOCK FALSE
