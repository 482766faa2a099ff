CONSTANTS
  Conn = {c1, c2}
  Request = {r1, r2}
  Notice = {}
  None = None
SPECIFICATION Spec
CHECK_DEADLOCK FALSE
INVARIANT NoSelfWait
