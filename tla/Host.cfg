CONSTANTS
    Apps <- MCApps
    Processes = {"q1", "q2"}
    Process <- MCProcess
    Units <- MCUnits
    Owner <- MCOwner
    Name <- MCName
    ContainerNames <- MCNames
    Ports <- MCPorts
    Fixed <- MCFixed
    Dynamic <- MCDynamic
SPECIFICATION FairSpec
CHECK_DEADLOCK FALSE
INVARIANTS TypeOK OpenIsServed CleanStop
PROPERTY NothingWaits
