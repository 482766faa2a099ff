CONSTANTS
  Host = {h1, h2}
  Watchdog = wd
  None = None
  MaxCalls = 4
  HealthCheck = TRUE
  InitCanFail = TRUE
  StartCanFail = TRUE
  CanReenter = TRUE
  HostOps = {"init", "start", "stop", "destroy"}
  Serialized = TRUE
SPECIFICATION Spec
CHECK_DEADLOCK FALSE
SYMMETRY Symmetry
INVARIANT ConsistentWhenIdle
INVARIANT OneInstance
INVARIANT LastEventIsState
INVARIANT LatestStartWins
PROPERTY ImplementsLifecycle
