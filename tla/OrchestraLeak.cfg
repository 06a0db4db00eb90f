\* A container that never becomes ready.
SPECIFICATION Spec
CONSTANTS
    Containers = {"postgres", "hydra"}
    Proxies = {"hydra proxy"}
    Needs <- MCNeeds
    Migrates <- MCMigrates
    Reruns <- MCReruns
    Faults = {"wait"}
    MaxFaults = 1
    MaxStarts = 1
INVARIANTS
    NothingLeft
