\* Up to four nested activations, two pending events, a one-shot object
\* listener and a seat listener besides the shell's destroy listener, under
\* the fairness of handlers that return.
SPECIFICATION FairSpec
CONSTANTS
  Event = {e1, e2}
  Shutdown = Shutdown
  Box = {listener, seat, destroy}
  NoBox = NoBox
  DestroyBox = destroy
  SeatBox = {seat}
  OneShot = {listener, destroy}
  MaxDepth = 4
INVARIANTS
  TypeOK
  ShellNotReentered
  DeferredAtTheEdge
  QuietLoop
  NoBoxFreedInUse
PROPERTIES
  ShellSpec
  EventsLeaveQueue
CHECK_DEADLOCK TRUE
