SPECIFICATION FairSpec
CONSTANTS
    c = c
    x = x
    y = y
    ObjectIds = {1, 2, 3, 4}
    Objects <- MCObjects
    Scopes <- BothScopes
    None = None
    Limits = {None, 2, 3}
    defaultPageSize = 1
    maximumPageSize = 2
    Size <- MCSize
    maximumResponseBytes = 2
    Ttl = 1
    Second = 2
    Batches <- SingleBatches
    Archives <- MCArchives
    MaxTime = 3
    MaxRevision = 2
    MaxSecrets = 2
INVARIANTS
    ListingsAreSound
    FullListingsMissNothing
    CompleteListingsAreExact
    CursorsLiveTheirLifetime
PROPERTIES
    ListingsEnd
