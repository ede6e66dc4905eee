------------------------------ MODULE MCSlotTable ------------------------------
(***************************************************************************)
(* TLC instances of SlotTable.                                             *)
(***************************************************************************)
EXTENDS SlotTable, TLC

CONSTANT MaxInvalidations   \* bound of the exploration: deaths per behaviour

Symmetry == Permutations(Ptr)

Bounded == invalidations <= MaxInvalidations

===============================================================================
