SPECIFICATION FairCan
CONSTANTS
    Nodes = {0}
    Rates = {1000}
    FirstRate = 1000
    NoNode = NoNode
    Kinds = {"get", "crc"}
    MaxFrames = 2
    FifoDepth = 3
PROPERTIES
    FramesHandled
