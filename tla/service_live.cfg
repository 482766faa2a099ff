CONSTANTS
  Host = {h1, h2}
  Watchdog = wd
  None = None
  MaxCalls = 2
  HealthCheck = FALSE
  InitCanFail = FALSE
  StartCanFail = TRUE
  CanReenter = TRUE
  HostOps = {"init", "start", "stop", "destroy"}
  Serialized = FALSE
SPECIFICATION FairSpec
PROPERTY CallsReturn
