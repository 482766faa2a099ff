SPECIFICATION Spec
CONSTANTS
    Inputs <- MCInputs
    Queries <- MCQueries
    Dests <- MCDests
INVARIANTS
    WhitelistAsDocumented
CHECK_DEADLOCK FALSE
