SPECIFICATION FairSpec
CONSTANTS
    Threads = {main, worker}
    IO = io
    NoThread = none
    Roles = {"inviter", "invitee"}
    MaxCalls = 2
    MaxInvitations = 2
    MaxReceived = 1
INVARIANTS TypeOK ChecksHold HandlesUnique TablesGuarded
PROPERTIES CallsReturn AcceptanceReported
CHECK_DEADLOCK FALSE
