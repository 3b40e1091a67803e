SPECIFICATION Spec
CONSTANTS
    None = None
    w1 = w1
    w2 = w2
    r1 = r1
    Writers = {w1}
    Readers = {r1}
    ObjectIds = {1, 2}
    Objects <- MCObjects
    Scopes <- SingleScopes
    ReadOps = {"find", "verifyIntegrity"}
    Labels = {"s0"}
    Batches <- SingleBatches
    Declarations <- SingleDeclarations
    PageRequests <- FirstOfTwo
    ChunkSize = 1
    MaxRevision = 2
INVARIANTS
    TypeOK
    CompleteFindsAreExact
