SPECIFICATION Spec
CONSTANTS
    x = x
    ObjectIds = {1, 2, 3, 4}
    Objects <- MCObjects
    Scopes <- MCScopes
    None = None
    Malformed = Malformed
    Queries <- MCQueries
    Entries <- MCEntries
    Contents <- MCContents
INVARIANTS
    DiscoveryMissesNothing
    IntegrityErrorsAreTrue
    MergedAnswersAgree
    IncompletenessIsReported
