SPECIFICATION Spec
CONSTANTS
    TwoTo64 = 1000000
    RotationSecs = 1
    GraceSecs = 1
    MinPreKeyCount = 2
    ReplenishCount = 2
    Builds = {FALSE}
    FaultKinds = {"noIdentity"}
    Starts = {1000}
    Ticks = {500, 1500}
    MaxNow = 3000
    MaxFaults = 1
    MaxUsed = 0
INVARIANTS
    BundleKeysVerify
