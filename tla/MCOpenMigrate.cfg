SPECIFICATION FairSpec
CONSTANTS
    Processes = {p1, p2}
    Sources = {s1, s2}
    MaxCrashes = 1
    None = None
INVARIANTS
    FilesAreWhole
PROPERTIES
    FirstOpenerNamesTheSource
    OpenersGetIn
