SPECIFICATION Spec
CONSTANTS
    None = None
    w1 = w1
    w2 = w2
    r1 = r1
    Writers = {w1, w2}
    Readers = {r1}
    ObjectIds = {1, 2}
    Objects <- MCObjects
    Scopes <- WriterScopes
    ReadOps = {"page", "exportSnapshot"}
    Labels = {"s0"}
    Batches <- WriterBatches
    Declarations <- WriterDeclarations
    PageRequests <- FirstOfTwo
    ChunkSize = 1
    MaxRevision = 2
SYMMETRY WritersAreAlike
INVARIANTS
    PagesAreSlicesOfOneRevision
    ExportsAreOneRevision
    TransactionsNeverReportCorruption
PROPERTIES
    RevisionNamesOneContent
    ImplementsAtomicStore
