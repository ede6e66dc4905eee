\* Generations are 5 live values wide, and up to 15 deaths: every slot wraps.
SPECIFICATION Spec
CONSTANTS
  Ptr = {p1, p2, p3}
  NULL = NULL
  GenMod = 6
  MaxSlots = 3
  MaxInvalidations = 15
CONSTRAINT Bounded
SYMMETRY Symmetry
INVARIANTS
  TypeOK
  Consistent
  StaleIdsStayDead
PROPERTY RegistryUntilWrap
CHECK_DEADLOCK TRUE
