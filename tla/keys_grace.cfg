SPECIFICATION Spec
CONSTANTS
    TwoTo64 = 1000000
    RotationSecs = 1
    GraceSecs = 1
    MinPreKeyCount = 2
    ReplenishCount = 2
    Builds = {FALSE}
    FaultKinds = {}
    Starts = {1000}
    Ticks = {500, 1500}
    MaxNow = 6000
    MaxFaults = 0
    MaxUsed = 0
PROPERTIES
    GracePeriodHonoured
