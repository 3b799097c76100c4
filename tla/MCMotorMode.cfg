SPECIFICATION MotorSpec
CONSTANTS
    Commands = {"current", "servo", "calib", "observer", "offset", "damping",
                "zero", "save", "default", "clear", "disable",
                "anticogging", "configure", "profile", "query"}
    HeartbeatMs = 1
INVARIANTS
    PoweredIsHealthy
    SaveIsQuiet
    TrippedIsOff
    SettledBeforeDriven
PROPERTIES
    ServoStartsReady
