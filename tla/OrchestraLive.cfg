\* The same failures, under the fairness of the code's goroutines, with the service that
\* starts its container again in OnStart beside those that do not.
SPECIFICATION FairSpec
CONSTANTS
    Containers = {"postgres", "concourse", "hydra"}
    Proxies = {"hydra proxy", "concourse proxy"}
    Needs <- MCNeeds
    Migrates <- MCMigrates
    Reruns <- MCReruns
    Faults <- FaultKinds
    MaxFaults = 2
    MaxStarts = 3
INVARIANTS
    ReadyRuns
PROPERTIES
    NewReturns
    StartIsStopped
    
