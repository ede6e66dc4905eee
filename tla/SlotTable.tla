------------------------------- MODULE SlotTable -------------------------------
(***************************************************************************)
(* The generational slot table behind every id of the wrapper              *)
(* (crates/weston/src/registry.rs).  A slot holds the address of a live C  *)
(* object and the generation its id was minted with; the death of the      *)
(* object clears the address, bumps the generation modulo GenMod (2^32 in  *)
(* the code, skipping 0) and pushes the slot on a LIFO free list.          *)
(*                                                                         *)
(* Slots are numbered from 1 here and from 0 in the code.                  *)
(***************************************************************************)
EXTENDS Integers, Sequences

CONSTANTS
  Ptr,        \* addresses of C objects
  NULL,       \* the empty ptr field of a dead slot
  GenMod,     \* generations are integers modulo GenMod
  MaxSlots    \* slot numbers that exist; beyond them `insert` panics

ASSUME SlotTableAssumption ==
  /\ NULL \notin Ptr
  /\ GenMod \in Nat /\ GenMod >= 2
  /\ MaxSlots \in Nat

VARIABLES
  slots,         \* the table: a sequence of [ptr, generation]
  free,          \* the free list: a stack of slot numbers, top at the end
  staled,        \* history: every id `invalidate_ptr` ever returned
  invalidations  \* history: how often `invalidate_ptr` hit

vars == <<slots, free, staled, invalidations>>

-------------------------------------------------------------------------------
Generation == 0 .. GenMod - 1
Slot == [ptr : Ptr \cup {NULL}, generation : Generation]
RawId == [slot : 1 .. MaxSlots, generation : Generation]

MkId(s) == [slot |-> s, generation |-> slots[s].generation]

Live(s) == slots[s].ptr # NULL

\* `resolve`: the pointer, or NULL for a dead object or a recycled slot.
Resolve(id) ==
  IF /\ id.slot \in DOMAIN slots
     /\ slots[id.slot].generation = id.generation
  THEN slots[id.slot].ptr
  ELSE NULL

\* `live_ids`: the snapshot of all ids that resolve.
LiveIds == {MkId(s) : s \in {t \in DOMAIN slots : Live(t)}}

Holds(s, p) == slots[s].ptr = p

\* Some slot holds p and no earlier one does: `iter().position(..)`.
FirstSlotOf(s, p) ==
  /\ s \in DOMAIN slots
  /\ Holds(s, p)
  /\ \A t \in 1 .. s - 1 : ~Holds(t, p)

Known(p) == \E s \in DOMAIN slots : Holds(s, p)

\* Faulty variants, used only to show that the properties below can fail:
\* the counter never moves, runs out of its width, or wraps through 0.
FrozenGeneration(g) == g
UnboundedGeneration(g) == g + 1
GenerationThroughZero(g) == (g + 1) % GenMod

\* `wrapping_add(1)`, and generation 0 is never minted.
NextGeneration(g) ==
  LET h == (g + 1) % GenMod IN IF h = 0 THEN 1 ELSE h

-------------------------------------------------------------------------------
(***************************************************************************)
(* Actions.  Every register_* helper inserts only objects its registry     *)
(* does not hold yet (`id_of(ptr).is_some()` returns early), which is the  *)
(* guard ~Known(p).                                                        *)
(***************************************************************************)

\* Faulty variant: the generation of a recycled slot restarts.
InsertRecycledRestarts(p) ==
  /\ ~Known(p)
  /\ free # <<>>
  /\ slots' = [slots EXCEPT ![free[Len(free)]] = [ptr |-> p, generation |-> 1]]
  /\ free' = SubSeq(free, 1, Len(free) - 1)
  /\ UNCHANGED <<staled, invalidations>>

InsertRecycled(p) ==
  /\ ~Known(p)
  /\ free # <<>>
  /\ LET s == free[Len(free)] IN
       /\ slots' = [slots EXCEPT ![s].ptr = p]
       /\ free' = SubSeq(free, 1, Len(free) - 1)
  /\ UNCHANGED <<staled, invalidations>>

InsertFresh(p) ==
  /\ ~Known(p)
  /\ free = <<>>
  /\ Len(slots) < MaxSlots
  /\ slots' = Append(slots, [ptr |-> p, generation |-> 1])
  /\ UNCHANGED <<free, staled, invalidations>>

\* A miss (an object never registered) changes nothing.
InvalidatePtr(p) == \E s \in DOMAIN slots :
  /\ FirstSlotOf(s, p)
  /\ slots' = [slots EXCEPT ![s] =
                 [ptr |-> NULL, generation |-> NextGeneration(@.generation)]]
  /\ free' = Append(free, s)
  /\ staled' = staled \cup {MkId(s)}
  /\ invalidations' = invalidations + 1

Init ==
  /\ slots = <<>>
  /\ free = <<>>
  /\ staled = {}
  /\ invalidations = 0

Next == \E p \in Ptr :
  \/ InsertRecycled(p)
  \/ InsertFresh(p)
  \/ InvalidatePtr(p)

Spec == Init /\ [][Next]_vars

\* No generation can have wrapped around yet.
BelowWrap == invalidations + 1 < GenMod

-------------------------------------------------------------------------------
(***************************************************************************)
(* Properties                                                              *)
(***************************************************************************)

TypeOK ==
  /\ slots \in Seq(Slot)
  /\ Len(slots) <= MaxSlots
  /\ free \in Seq(DOMAIN slots)
  /\ staled \subseteq RawId
  /\ invalidations \in Nat

\* The free list holds every dead slot and nothing else, each once: no slot
\* is leaked by a death and none is handed out twice (`insert` and
\* `invalidate_ptr` keep the two halves of the table in step).
FreeListExact ==
  /\ \A i \in DOMAIN free : ~Live(free[i])
  /\ \A i, j \in DOMAIN free : free[i] = free[j] => i = j
  /\ \A s \in DOMAIN slots : ~Live(s) => \E i \in DOMAIN free : free[i] = s

\* Generation 0 never resolves, even across a wrap of the counter: a zeroed
\* or forged id cannot reach an object (module doc of registry.rs).
GenerationZeroNeverLive ==
  \A s \in DOMAIN slots : slots[s].generation # 0

\* An object has at most one id, so pointer -> id is a function although
\* `invalidate_ptr` and `id_of` stop at the first slot that matches.
OneIdPerObject ==
  \A s, t \in DOMAIN slots : Live(s) /\ Holds(t, slots[s].ptr) => s = t

\* The table is consistent (`insert`, `invalidate_ptr`), also when generations
\* have wrapped around.
Consistent == FreeListExact /\ GenerationZeroNeverLive /\ OneIdPerObject

\* Below the wrap of a generation counter, no id of a dead object ever
\* resolves again, whatever was registered in its slot since.
StaleIdsStayDead == BelowWrap => \A id \in staled : Resolve(id) = NULL

\* What makes the properties above inductive: below the wrap, generations
\* are bounded by the number of deaths, and every staled id lags behind its
\* slot.
StaledOutdated == BelowWrap =>
  /\ \A s \in DOMAIN slots : slots[s].generation <= invalidations + 1
  /\ \A id \in staled : /\ id.slot \in DOMAIN slots
                         /\ id.generation < slots[id.slot].generation

IInv == /\ TypeOK
        /\ FreeListExact
        /\ GenerationZeroNeverLive
        /\ OneIdPerObject
        /\ StaledOutdated

\* The table implements the registry that never reuses an id, up to the first
\* step that may wrap a generation around.
BoundNow == [id \in LiveIds |-> Resolve(id)]
Abstract == INSTANCE Registry
              WITH Id <- RawId, bound <- BoundNow, retired <- staled

RegistryUntilWrap ==
  Abstract!RegInit /\ [][BelowWrap' => [Abstract!RegNext]_(Abstract!regVars)]_vars

===============================================================================
