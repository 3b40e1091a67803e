SPECIFICATION Spec
CONSTANTS
    i1 = i1
    r1 = r1
    r2 = r2
    x = x
    Requests = {q1, q2}
    Importer = importer
    Exporter = exporter
    Ids = {i1, i2}
    Reps = {r1, r2}
    Absent = Absent
    Capabilities = {c1}
    ContextOf <- MCContextOf
    Scopes <- MCObjectScopes
    Archives <- TwoArchives
SYMMETRY Symmetry
VIEW WithoutStored
INVARIANTS
    VisibleCandidatesHaveDurableBlobs
    PublicationsStayVisible
    PublicationsNeverFork
    ExportsAreComplete
