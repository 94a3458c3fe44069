SPECIFICATION Spec
CONSTANTS
    alice = alice
    bob = bob
    carol = carol
    Parties = {alice, bob, carol}
    Publishers = {bob}
    MinPreKeyCount = 1
    ReplenishCount = 2
    MaxMinted = 2
    MaxSessions = 2
    MaxSent = 1
    MaxReinstalls = 0
    MaxDeletes = 0
    MaxFaults = 0
INVARIANT FirstMessagesReadable
SYMMETRY Interchangeable
CHECK_DEADLOCK FALSE
