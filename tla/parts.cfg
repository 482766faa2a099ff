CONSTANTS
  Given <- MCGiven
  Default <- MCDefault
  MaxRestart = 8
  Member = {m1, m2, m3, m4}
  Slots = 2
  BatchTimeout = 3
  Updater = {u1, u2}
  Callback = {k1, k2}
  Report <- MCReports
  OSName <- MCNames
  Tun = "tun0"
  Nothing = Nothing
  MaxUpdates = 2
  Process = {p1, p2, p3}
  NoUser = {p3}
  None = None
SPECIFICATION PartsSpec
CHECK_DEADLOCK FALSE
INVARIANT TypeOK
INVARIANT SocketTypeOK
INVARIANT ServingReachable
INVARIANT ServingGranted
INVARIANT NothingLeft
INVARIANT WholeBatchInTime
INVARIANT NoUpdateMissed
PROPERTY RestartsSpaced
PROPERTY SustainedFailure
PROPERTY DownRestarts
PROPERTY CancelEndsLoop
