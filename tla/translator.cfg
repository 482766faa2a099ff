SPECIFICATION Spec
CONSTANTS
    Inputs <- MCInputs
    Queries <- MCQueries
    Dests <- MCDests
INVARIANTS
    ReferencesResolve
    RefusedForNamesOnly
    LargestSetOfGroups
    NoStubTested
    BootstrapIsDirect
    ECHQueriesAreDirect
    QueriesAnswered
    RoutesAsPromised
    UpgradePreserves
    StartsOn114
    StoredIsStable
CHECK_DEADLOCK FALSE
