SPECIFICATION UpdateSpec
CONSTANTS
    A = A  B = B  va = va  vb = vb  x = x  s1 = s1
    Blank = Blank  Torn = Torn  Commit = Commit
    NoImage = NoImage  NoSession = NoSession
    NoRequest = NoRequest  NoReply = NoReply  NoCache = NoCache  NoValue = NoValue
    Data <- MCData
    Images = {A, B}
    Size <- MCSize
    Content <- MCContent
    Reset <- MCReset
    PageOf <- MCPageOf
    Capacity = 2
    LastPage = 1
    Sessions = {s1}
    MaxSeq = 8
    MaxChunk = 1
    Requests <- MCRequests
    Observer <- MCObserver
    MaxForeign = 1
    Offered = {A}
    Retries = 2
    FactoryFlash <- MCFactory
    RingSize = 2
    FifoDepth = 2
    BootWindow = 1
    TxLimit = 1
    IdleLimit = 1
INVARIANTS
    UpdateTypeOK
    AcknowledgedIsInstalled
    ClientNeverAhead
    RetriesAreTransparent
PROPERTIES
    LeavesCommitted
    ImplementsCore
