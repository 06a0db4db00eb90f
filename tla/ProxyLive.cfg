\* Two connections and an owner that starts and closes the proxy, fairly scheduled.
SPECIFICATION FairSpec
CONSTANTS
    Conns = {c1, c2}
    MaxChunks = 0
    CloseFirst = FALSE
    Faults = {"dial"}
CHECK_DEADLOCK FALSE
PROPERTIES
    Answered
    CloseEndsRun
    Releases
