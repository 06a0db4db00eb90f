\* A client that finishes sending and waits for the answer.
SPECIFICATION FairSpec
CONSTANTS
    Conns = {c1}
    MaxChunks = 1
    CloseFirst = FALSE
    Faults = {}
CHECK_DEADLOCK FALSE
PROPERTIES
    EndForwarded
