SPECIFICATION Spec
CONSTANTS
    alice = alice
    bob = bob
    carol = carol
    Parties = {alice, bob}
    Publishers = {bob}
    MinPreKeyCount = 1
    ReplenishCount = 1
    MaxMinted = 2
    MaxSessions = 2
    MaxSent = 2
    MaxReinstalls = 1
    MaxDeletes = 1
    MaxFaults = 1
INVARIANTS
    TypeOK
    OneSessionPerKey
PROPERTIES
    ReturnedOnce
    NumbersFresh
    IdentityPinned
    SessionsImplementChannel
CHECK_DEADLOCK FALSE
