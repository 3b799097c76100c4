SPECIFICATION CanSpec
CONSTANTS
    Nodes = {0, 1}
    Rates = {500, 1000}
    FirstRate = 1000
    NoNode = NoNode
    Kinds = {"get", "node", "rate"}
    MaxFrames = 2
    FifoDepth = 3
INVARIANTS
    FilterIsNode
