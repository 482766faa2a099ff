CONSTANTS
  Conn = {c1, c2}
  Request = {r1, r2}
  Notice = {r2}
  None = None
SPECIFICATION Spec
CHECK_DEADLOCK FALSE
SYMMETRY Symmetry
INVARIANT TypeOK
INVARIANT ResponseToOriginator
INVARIANT OneWriter
INVARIANT KernelKept
