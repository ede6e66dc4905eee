\* Two processes are enough.
SPECIFICATION Spec
CONSTANTS
  Proc = {c1, c2}
  Pid = {n1, n2}
  None = None
  Watch = TRUE
INVARIANT NoWmAfterExit
\* A finished compositor leaves nothing to do.
CHECK_DEADLOCK FALSE
