CONSTANTS
  Conn = {c1, c2}
  Request = {r1}
  Notice = {}
  None = None
SPECIFICATION FairSpec
CHECK_DEADLOCK FALSE
PROPERTY CancelEndsRun
PROPERTY RequestAnswered
