CONSTANTS
  Process = {p1, p2}
  NoUser = {}
  None = None
SPECIFICATION SocketSpec
CHECK_DEADLOCK FALSE
SYMMETRY Symmetry
INVARIANT ProbeProtects
