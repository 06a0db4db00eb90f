\* Every package with up to two of its options, and with each way to set up its database.
SPECIFICATION Spec
CONSTANTS
    Packages <- Names
    Needs <- MCNeeds
    Migrates <- MCMigrates
    Base <- MCBase
    Last <- MCLast
    Links <- MCLinks
    Mangled = {"p#ss"}
    Compositions <- MCCompositions
    Targets <- Names
INVARIANTS
    TypeOK
    OptionsTakeEffect
    FilesArrive
    HooksSeeContainer
    HooksRunOnce
    JobMatchesServer
    CredentialsMatch
    OnlyNilFunctionsPanic
    TLSHooksConnect
PROPERTIES
    RequestFrozen
    IsFleet
