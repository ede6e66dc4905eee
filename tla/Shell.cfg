\* Two windows, one with a subsurface, and two seats; or three plain windows and
\* one seat.  Five hops end at the same member of a cycle of up to three windows
\* as the 65 of the code.
SPECIFICATION Spec
CONSTANTS
  Window = {w1, w2, w3, w4}
  WithSub = {w1}
  Seat = {s1, s2}
  None = None
  MaxHops = 4
CONSTRAINT SmallInstance
SYMMETRY Symmetry
INVARIANTS
  TypeOK
  FamilyLinked
  FocusWatched
  FocusKept
PROPERTY FocusIsReplaced
\* After Shutdown the shell is gone.
CHECK_DEADLOCK FALSE
