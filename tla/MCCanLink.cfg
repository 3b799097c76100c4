SPECIFICATION FairCan
CONSTANTS
    Nodes = {0, 1}
    Rates = {500, 1000}
    FirstRate = 1000
    NoNode = NoNode
    Kinds = {"get", "crc", "on", "off", "node", "rate"}
    MaxFrames = 3
    FifoDepth = 2
INVARIANTS
    AnsweredOnce
    StatusIsFresh
PROPERTIES
    SlotFrees
