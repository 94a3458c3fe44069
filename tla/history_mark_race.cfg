CONSTANTS
    alice = alice
    bob = bob
    app = app
    other = other
    Callers = {app}
    Peers = {alice}
    Builds = {"on"}
    Timestamps = {1, 2}
    Reports = {"sent"}
    MaxMessages = 2
    MaxConversations = 1
    MaxFaults = 0
SPECIFICATION Spec
PROPERTIES
    UnseenStayUnread
CHECK_DEADLOCK FALSE
