SPECIFICATION LiveSpec
CONSTANTS
    TwoTo64 = 1000000
    RotationSecs = 1
    GraceSecs = 1
    MinPreKeyCount = 2
    ReplenishCount = 2
    Builds = {TRUE, FALSE}
    FaultKinds = {"crash", "error", "clockback", "clear", "noIdentity", "noMax", "noCount"}
    Starts = {500}
    Ticks = {1500, 2000}
    MaxNow = 4000
    MaxFaults = 1
    MaxUsed = 1
INVARIANTS
    TypeOK
    SupersededKeysExpired
    PublishedPreKeysUsable
    KeysSignedByIdentity
PROPERTIES
    StoreNeverEmptied
    CurrentKeySurvives
    RotationOnlyWhenOld
    MaintenanceResult
    BundleEventuallyReady
    SupersededKeysErased
