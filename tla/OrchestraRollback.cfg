\* An OnStart hook that fails.
SPECIFICATION Spec
CONSTANTS
    Containers = {"postgres", "hydra"}
    Proxies = {"hydra proxy"}
    Needs <- MCNeeds
    Migrates <- MCMigrates
    Reruns <- MCReruns
    Faults = {"onstart"}
    MaxFaults = 1
    MaxStarts = 1
INVARIANTS
    DependenciesHandled
