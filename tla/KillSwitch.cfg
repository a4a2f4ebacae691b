SPECIFICATION KsSpec
CONSTANTS
    Scopes = {global, strategy}
    Callers = {c1}
    KsDbFaults = TRUE
    Cli = TRUE
    MaxTriggers = 2
    MaxRows = 2
    MaxRestarts = 1
INVARIANTS
    ModeIsSeverestHalt
    HaltsDurable
    ResumedRowsWereAcked
PROPERTIES
    HaltDiscipline
CHECK_DEADLOCK FALSE
SYMMETRY KsSymmetry
