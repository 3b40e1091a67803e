SPECIFICATION Spec
CONSTANTS
    Procs = {p1, p2}
    Ids = {i1, i2}
    Reps = {r1, r2}
    Absent = Absent
INVARIANTS
    TypeOK
    StoredBlobsAreDurable
PROPERTY
    ImplementsWriteOnceStore
