SPECIFICATION TimerSpec
CONSTANTS
    f = f
    g = g
    Connections = {c1, c2}
    Candidates = {small, large}
    Large = {large}
    Placements <- MCPlacements
    Signals = {SIGINT, SIGTERM}
    None = None
INVARIANTS
    StoresOutliveRequests
    AnswersTellTheTruth
PROPERTIES
    CleanExitsAreDrained
    NothingIsServedAfterAnError
    DrainEnds
    ShutdownEnds
