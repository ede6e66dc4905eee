\* Two windows on one seat are enough.
SPECIFICATION Spec
CONSTANTS
  Window = {w1, w2}
  WithSub = {}
  Seat = {s1}
  None = None
  MaxHops = 4
INVARIANT ActivationFollowsFocus
\* After Shutdown the shell is gone.
CHECK_DEADLOCK FALSE
