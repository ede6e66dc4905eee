\* Three processes on two pids, which are reused, under the fairness of the
\* event loop.
SPECIFICATION FairSpec
CONSTANTS
  Proc = {c1, c2, c3}
  Pid = {n1, n2}
  None = None
  Watch = TRUE
INVARIANTS
  TypeOK
  ChildrenOurs
  ExitIsRelayed
  XwaylandPaired
PROPERTIES
  ChildrenAreReaped
  DeadWatchEnds
\* A finished compositor leaves nothing to do.
CHECK_DEADLOCK FALSE
