SPECIFICATION Spec
CONSTANTS
    i1 = i1
    r1 = r1
    r2 = r2
    x = x
    Requests = {q1}
    Importer = importer
    Exporter = exporter
    Ids = {i1}
    Reps = {r1, r2}
    Absent = Absent
    Capabilities = {c1}
    ContextOf <- MCContextOf
    Scopes <- MCScopes
    Archives <- AllArchives
INVARIANT
    VisibleCandidatesHaveBlobs
