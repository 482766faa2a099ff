CONSTANTS
  Host = {h1}
  Watchdog = wd
  None = None
  MaxCalls = 3
  HealthCheck = TRUE
  InitCanFail = FALSE
  StartCanFail = FALSE
  CanReenter = FALSE
  HostOps = {"init", "start", "stop", "destroy"}
  Serialized = FALSE
SPECIFICATION Spec
INVARIANT HealthRestartsCurrent
