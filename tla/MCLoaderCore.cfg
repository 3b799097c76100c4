SPECIFICATION Spec
CONSTANTS
    A = A  B = B  V = V  L = L
    va = va  vb = vb  x = x
    s1 = s1  s2 = s2
    Blank = Blank  Torn = Torn  Commit = Commit
    NoImage = NoImage  NoSession = NoSession
    NoRequest = NoRequest  NoReply = NoReply  NoCache = NoCache  NoValue = NoValue
    Data <- MCData
    Images <- MCImages
    Size <- MCSize
    Content <- MCContent
    Reset <- MCReset
    PageOf <- MCPageOf
    Capacity = 3
    LastPage = 1
    Sessions = {s1, s2}
    MaxSeq = 6
    MaxChunk = 2
    Requests <- MCRequests
    FactoryFlash <- MCFactory
INVARIANTS
    RecordVouches
    PendingMeansCommitted
    TailBlank
    ReplayTruthful
    IInv
PROPERTIES
    SessionMonotone
    ImplementsBootUpdate
