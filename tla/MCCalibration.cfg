SPECIFICATION FairSpec
CONSTANTS
    Bins = 2
    Patience = 1
    HoldTicks = 1
INVARIANTS
    InstalledIsSound
    RunsAreSeparate
PROPERTIES
    CalibrationEnds
