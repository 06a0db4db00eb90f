\* Two clients, every failure.  Everyone may stop: clients and owner are not obliged to act.
SPECIFICATION Spec
CONSTANTS
    Conns = {c1, c2}
    MaxChunks = 1
    CloseFirst = TRUE
    Faults = {"accept", "dial", "close"}
CHECK_DEADLOCK FALSE
SYMMETRY Symmetry
INVARIANTS
    TypeOK
    Lossless
    OneLateClient
    NoUseAfterClose
PROPERTIES
    IsRelay
