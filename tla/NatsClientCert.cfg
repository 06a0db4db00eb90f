\* nats alone, with any two of its options.
SPECIFICATION Spec
CONSTANTS
    Packages <- Names
    Needs <- MCNeeds
    Migrates <- MCMigrates
    Base <- MCBase
    Last <- MCLast
    Links <- MCLinks
    Mangled = {"p#ss"}
    Compositions <- MCCompositions
    Targets = {"nats"}
INVARIANTS
    PresentsClientCert
