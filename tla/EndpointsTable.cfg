SPECIFICATION Spec
CONSTANTS
    Threads = {main, worker}
    IO = io
    NoThread = none
    Roles = {"inviter", "invitee"}
    MaxCalls = 2
    MaxInvitations = 2
    MaxReceived = 1
INVARIANTS EndpointsGuarded
CHECK_DEADLOCK FALSE
