------------------------------- MODULE Registry -------------------------------
(***************************************************************************)
(* What the wrapper's id registries promise to the rest of the program: an *)
(* id is bound to one C object when the object is registered, resolves to  *)
(* that object for as long as the object lives, and never means anything   *)
(* again once the object died -- even if the allocator hands the same      *)
(* address to a new object.  SlotTable is the implementation.              *)
(***************************************************************************)

CONSTANTS
  Ptr,      \* addresses of C objects; an address may be reused after a death
  Id        \* the ids that can ever be minted

VARIABLES
  bound,    \* the live ids, each with the address of its object
  retired   \* every id whose object died

regVars == <<bound, retired>>

RegInit ==
  /\ bound = [id \in {} |-> {}]
  /\ retired = {}

\* A live C object gets an id that is neither live nor was ever live.
Register(p, id) ==
  /\ \A i \in DOMAIN bound : bound[i] # p
  /\ id \notin DOMAIN bound \cup retired
  /\ bound' = [i \in DOMAIN bound \cup {id} |-> IF i = id THEN p ELSE bound[i]]
  /\ UNCHANGED retired

\* The object dies: its id leaves the registry for good.
Unregister(id) ==
  /\ id \in DOMAIN bound
  /\ bound' = [i \in DOMAIN bound \ {id} |-> bound[i]]
  /\ retired' = retired \cup {id}

RegNext == \E id \in Id :
  \/ Unregister(id)
  \/ \E p \in Ptr : Register(p, id)

RegSpec == RegInit /\ [][RegNext]_regVars

===============================================================================
