\* Two windows of one client, one with a subsurface, a pointer and a touch
\* screen.
SPECIFICATION Spec
CONSTANTS
  Window = {w1, w2}
  WithSub = {w1}
  Loner = {}
  Pointer = {p1}
  Touch = {t1}
  Box = {b1, b2, b3, b4}
  Default = Default
  None = None
INVARIANTS
  TypeOK
  GrabsUsable
PROPERTIES
  PongSparesOthers
  BusyShown
\* Boxes of superseded grabs are never freed: a bounded pool runs out.
CHECK_DEADLOCK FALSE
