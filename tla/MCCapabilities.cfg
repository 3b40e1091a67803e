SPECIFICATION Spec
CONSTANTS
    o1 = o1
    o2 = o2
    x = x
    Admins = {a1, a2}
    Requests = {q1, q2}
    TokenIds = {t1}
    Secrets = {s1, s2}
    ScopeLists <- MCScopeLists
    Expiries = {1, 2}
    Candidates <- MCCandidates
    Second = 2
    MaxTime = 4
    None = None
SYMMETRY Symmetry
INVARIANTS
    TypeOK
    AdmissionsWereAuthorized
    OneRevocationWins
PROPERTIES
    RevocationIsFinal
