SPECIFICATION FairBoot
CONSTANTS
    Commands = {"damping"}
    HeartbeatMs = 0
    Limit = 0
PROPERTIES
    BootStopsMotor
