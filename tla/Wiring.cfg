\* Two seats and two outputs; positions and widths of two values.
SPECIFICATION Spec
CONSTANTS
  Seat = {s1, s2}
  Output = {o1, o2}
  MaxPlace = 1
  MaxWidth = 2
INVARIANTS
  TypeOK
  SeatListenersSound
  CurtainsSound
\* After the teardown libweston frees the rest and stops.
CHECK_DEADLOCK FALSE
