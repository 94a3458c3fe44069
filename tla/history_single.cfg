CONSTANTS
    alice = alice
    bob = bob
    app = app
    other = other
    Callers = {app}
    Peers = {alice}
    Builds = {"on", "off"}
    Timestamps = {1, 2, 3}
    Reports = {"sent"}
    MaxMessages = 3
    MaxConversations = 2
    MaxFaults = 1
SPECIFICATION Spec
INVARIANTS
    TypeOK
    StatusOfItsReport
    UnreadIsExact
CHECK_DEADLOCK FALSE
