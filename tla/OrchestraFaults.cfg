\* Every kind of failure, at most two of them, and two more Starts.
SPECIFICATION Spec
CONSTANTS
    Containers = {"postgres", "mailslurper", "hydra", "kratos"}
    Proxies = {"hydra proxy", "mailslurper proxy"}
    Needs <- MCNeeds
    Migrates <- MCMigrates
    Reruns <- MCReruns
    Faults <- FaultKinds
    MaxFaults = 2
    MaxStarts = 3
INVARIANTS
    TypeOK
    HookOrder
    DependenciesOutlive
    LeakAccounted
    LeaksReported
    StartedIsComplete
    RestartRefused
    MigrationAlone
    IInv
PROPERTIES
    NoReopen
    IsFleet
