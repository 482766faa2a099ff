CONSTANTS
  Host = {h1, h2}
  Watchdog = wd
  None = None
  MaxCalls = 3
  HealthCheck = TRUE
  InitCanFail = FALSE
  StartCanFail = TRUE
  CanReenter = TRUE
  HostOps = {"init", "start", "stop", "destroy"}
  Serialized = FALSE
SPECIFICATION Spec
SYMMETRY Symmetry
INVARIANT TypeOK
INVARIANT ClosedOnce
INVARIANT StartingIsOwned
INVARIANT ProxyMatchesRunning
INVARIANT HooksFollowInstance
PROPERTY DestroyedIsTerminal
