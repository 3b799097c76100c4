SPECIFICATION FairBoot
CONSTANTS
    Commands = {"calib"}
    HeartbeatMs = 0
    Limit = 0
INVARIANTS
    ResetOnlyWhenSafe
    OkMeansStopped
    AnswerIsLast
PROPERTIES
    LockedMotorStops
    HostIsAnswered
    SaveEnds
