CONSTANTS
    alice = alice
    bob = bob
    app = app
    other = other
    Callers = {app, other}
    Peers = {alice, bob}
    Builds = {"on", "off"}
    Timestamps = {0}
    Reports = {"sent"}
    MaxMessages = 2
    MaxConversations = 2
    MaxFaults = 0
SPECIFICATION Spec
INVARIANTS
    StatusOfItsReport
    MessagesFiledUnderPeer
CHECK_DEADLOCK FALSE
SYMMETRY Interchangeable
