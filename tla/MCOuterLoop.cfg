CONSTANTS
    Divider = 2
    MaxCommands = 3
SPECIFICATION FairOuter
INVARIANTS
    AnswerOfItsSession
    FrameIsWhole
PROPERTIES
    OverrunIsReal
    TickAsMotorMode
    StartEnds
