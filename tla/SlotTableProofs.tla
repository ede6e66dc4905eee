---------------------------- MODULE SlotTableProofs ----------------------------
(***************************************************************************)
(* Proofs about SlotTable, for every set of addresses, every width of the  *)
(* generation counter and every capacity of the table.                     *)
(***************************************************************************)
EXTENDS SlotTable, SequenceTheorems, TLAPS

-------------------------------------------------------------------------------
(***************************************************************************)
(* What each operation does, slot by slot.                                 *)
(***************************************************************************)

LEMMA NextGenerationProperties ==
  ASSUME NEW g \in Generation
  PROVE  /\ NextGeneration(g) \in Generation
         /\ NextGeneration(g) # 0
         /\ g + 1 < GenMod => NextGeneration(g) = g + 1
BY SlotTableAssumption DEF NextGeneration, Generation

\* The domains of the two sequences, and the type of what they hold.
LEMMA TypeFacts ==
  ASSUME TypeOK
  PROVE  /\ Len(slots) \in Nat /\ DOMAIN slots = 1 .. Len(slots)
         /\ Len(free) \in Nat /\ DOMAIN free = 1 .. Len(free)
         /\ \A s \in DOMAIN slots : slots[s] \in Slot
         /\ \A i \in DOMAIN free : free[i] \in DOMAIN slots
<1>1. /\ Len(slots) \in Nat /\ DOMAIN slots = 1 .. Len(slots)
      /\ Len(free) \in Nat /\ DOMAIN free = 1 .. Len(free)
  BY LenProperties DEF TypeOK
<1>2. \A s \in DOMAIN slots : slots[s] \in Slot
  BY <1>1, ElementOfSeq DEF TypeOK
<1>3. \A i \in DOMAIN free : free[i] \in DOMAIN slots
  BY <1>1, ElementOfSeq DEF TypeOK
<1> QED
  BY <1>1, <1>2, <1>3

LEMMA InsertRecycledEffect ==
  ASSUME TypeOK, NEW p \in Ptr, InsertRecycled(p)
  PROVE  /\ TypeOK'
         /\ Len(slots') = Len(slots)
         /\ Len(free) > 0
         /\ Len(free') = Len(free) - 1
         /\ \A i \in 1 .. Len(free) - 1 : free'[i] = free[i]
         /\ slots'[free[Len(free)]]
              = [ptr |-> p, generation |-> slots[free[Len(free)]].generation]
         /\ \A s \in DOMAIN slots : s # free[Len(free)] => slots'[s] = slots[s]
<1> DEFINE n == Len(free)
           s == free[n]
           e == [slots[s] EXCEPT !.ptr = p]
<1>1. n \in Nat /\ n > 0
  BY EmptySeq, TypeFacts DEF InsertRecycled, TypeOK
<1>2. s \in 1 .. Len(slots) /\ slots[s] \in Slot
  BY <1>1, TypeFacts
<1>3. e \in Slot /\ e = [ptr |-> p, generation |-> slots[s].generation]
  BY <1>2 DEF Slot
<1>4. slots' = [slots EXCEPT ![s] = e] /\ free' = SubSeq(free, 1, n - 1)
  BY DEF InsertRecycled
<1>5. /\ slots' \in Seq(Slot)
      /\ Len(slots') = Len(slots)
      /\ \A t \in 1 .. Len(slots) : slots'[t] = IF t = s THEN e ELSE slots[t]
  <2> HIDE DEF e, s
  <2> QED BY <1>2, <1>3, <1>4, ExceptSeq DEF TypeOK
<1>6. /\ free' \in Seq(DOMAIN slots)
      /\ Len(free') = n - 1
      /\ \A i \in 1 .. n - 1 : free'[i] = free[i]
  <2>1. \A i \in 1 .. n - 1 : free[i] \in DOMAIN slots
    BY <1>1, TypeFacts
  <2>2. n - 1 \in Int /\ 1 \in Int
    BY <1>1
  <2>3. /\ SubSeq(free, 1, n - 1) \in Seq(DOMAIN slots)
        /\ Len(SubSeq(free, 1, n - 1)) = IF 1 <= n - 1 THEN n - 1 - 1 + 1 ELSE 0
        /\ \A i \in 1 .. n - 1 - 1 + 1 : SubSeq(free, 1, n - 1)[i] = free[1 + i - 1]
    <3> HIDE DEF n
    <3> QED BY <2>1, <2>2, SubSeqProperties
  <2>4. free' = SubSeq(free, 1, n - 1)
    BY <1>4
  <2> HIDE DEF n, s, e
  <2>5. Len(free') = n - 1
    BY <1>1, <2>3, <2>4
  <2>6. \A i \in 1 .. n - 1 : free'[i] = free[i]
    BY <1>1, <2>3, <2>4
  <2> QED BY <2>3, <2>4, <2>5, <2>6
<1>7. DOMAIN slots' = DOMAIN slots
  BY <1>4
<1>8. TypeOK'
  BY <1>5, <1>6, <1>7 DEF TypeOK, InsertRecycled
<1> QED
  BY <1>1, <1>2, <1>3, <1>5, <1>6, <1>8, TypeFacts

LEMMA InsertFreshEffect ==
  ASSUME TypeOK, NEW p \in Ptr, InsertFresh(p)
  PROVE  /\ TypeOK'
         /\ Len(slots') = Len(slots) + 1
         /\ free = <<>> /\ free' = <<>>
         /\ slots'[Len(slots) + 1] = [ptr |-> p, generation |-> 1]
         /\ \A s \in DOMAIN slots : slots'[s] = slots[s]
<1> DEFINE e == [ptr |-> p, generation |-> 1]
<1>1. e \in Slot
  BY SlotTableAssumption DEF Slot, Generation
<1>2. /\ slots' \in Seq(Slot)
      /\ Len(slots') = Len(slots) + 1
      /\ \A s \in 1 .. Len(slots) : slots'[s] = slots[s]
      /\ slots'[Len(slots) + 1] = e
  <2> HIDE DEF e
  <2>1. slots' = Append(slots, e)
    BY DEF InsertFresh, e
  <2> QED BY <1>1, <2>1, AppendProperties DEF TypeOK
<1>3. free' = <<>> /\ free = <<>> /\ free' \in Seq(DOMAIN slots')
  BY DEF InsertFresh
<1>4. TypeOK'
  BY <1>2, <1>3, TypeFacts, SlotTableAssumption DEF TypeOK, InsertFresh
<1> QED
  BY <1>2, <1>3, <1>4, TypeFacts

LEMMA InvalidatePtrEffect ==
  ASSUME TypeOK, NEW p \in Ptr, NEW s \in DOMAIN slots, FirstSlotOf(s, p),
         slots' = [slots EXCEPT ![s] =
                     [ptr |-> NULL, generation |-> NextGeneration(@.generation)]],
         free' = Append(free, s),
         staled' = staled \cup {MkId(s)},
         invalidations' = invalidations + 1
  PROVE  /\ TypeOK'
         /\ Len(slots') = Len(slots)
         /\ Len(free') = Len(free) + 1
         /\ \A i \in DOMAIN free : free'[i] = free[i]
         /\ free'[Len(free) + 1] = s
         /\ slots[s].ptr = p
         /\ slots'[s] = [ptr |-> NULL,
                         generation |-> NextGeneration(slots[s].generation)]
         /\ \A t \in DOMAIN slots : t # s => slots'[t] = slots[t]
<1> DEFINE e == [ptr |-> NULL, generation |-> NextGeneration(slots[s].generation)]
<1>1. slots[s] \in Slot /\ s \in 1 .. Len(slots)
  BY TypeFacts
<1>2. e \in Slot
  BY <1>1, NextGenerationProperties DEF Slot
<1>3. /\ slots' \in Seq(Slot)
      /\ Len(slots') = Len(slots)
      /\ \A t \in 1 .. Len(slots) : slots'[t] = IF t = s THEN e ELSE slots[t]
  <2>1. slots' = [slots EXCEPT ![s] = e]
    OBVIOUS
  <2> HIDE DEF e
  <2> QED BY <1>1, <1>2, <2>1, ExceptSeq DEF TypeOK
<1>4. DOMAIN slots' = DOMAIN slots
  OBVIOUS
<1>5. /\ free' \in Seq(DOMAIN slots)
      /\ Len(free') = Len(free) + 1
      /\ \A i \in 1 .. Len(free) : free'[i] = free[i]
      /\ free'[Len(free) + 1] = s
  BY AppendProperties DEF TypeOK
<1>6. MkId(s) \in RawId
  BY <1>1, TypeFacts, SlotTableAssumption DEF MkId, RawId, Slot, TypeOK
<1>7. TypeOK'
  BY <1>3, <1>4, <1>5, <1>6 DEF TypeOK
<1>8. slots[s].ptr = p
  BY DEF FirstSlotOf, Holds
<1> QED
  BY <1>1, <1>3, <1>5, <1>7, <1>8, TypeFacts

-------------------------------------------------------------------------------
(***************************************************************************)
(* The inductive invariant.                                                *)
(***************************************************************************)

LEMMA InitInvariant == Init => IInv
<1> SUFFICES ASSUME Init PROVE IInv
  OBVIOUS
<1>1. TypeOK
  BY SlotTableAssumption, EmptySeq DEF Init, TypeOK
<1>2. DOMAIN slots = {} /\ DOMAIN free = {} /\ staled = {}
  BY DEF Init
<1> QED
  BY <1>1, <1>2 DEF IInv, FreeListExact, GenerationZeroNeverLive,
                    OneIdPerObject, StaledOutdated

LEMMA RecycledPreserves ==
  ASSUME IInv, NEW p \in Ptr, InsertRecycled(p)
  PROVE  IInv'
<1> USE DEF IInv
<1> DEFINE n == Len(free)
           s == free[n]
<1>a. TypeOK'
  BY InsertRecycledEffect
<1>b. DOMAIN slots' = 1 .. Len(slots') /\ DOMAIN free' = 1 .. Len(free')
  BY <1>a, LenProperties DEF TypeOK
<1>1. /\ TypeOK'
      /\ DOMAIN slots' = DOMAIN slots
      /\ n \in Nat /\ n > 0
      /\ DOMAIN free = 1 .. n /\ DOMAIN free' = 1 .. n - 1
      /\ \A i \in 1 .. n - 1 : free'[i] = free[i]
      /\ s \in DOMAIN slots
      /\ slots'[s] = [ptr |-> p, generation |-> slots[s].generation]
      /\ \A t \in DOMAIN slots : t # s => slots'[t] = slots[t]
      /\ \A i \in DOMAIN free : free[i] \in DOMAIN slots
  <2>0. n \in Nat /\ n > 0
    BY InsertRecycledEffect, TypeFacts
  <2>1. s \in DOMAIN slots
    BY <2>0, TypeFacts
  <2>2. DOMAIN slots' = DOMAIN slots /\ DOMAIN free' = 1 .. n - 1
    BY <1>b, InsertRecycledEffect, TypeFacts
  <2> QED BY <1>a, <2>0, <2>1, <2>2, InsertRecycledEffect, TypeFacts
<1> HIDE DEF s
<1>2. p # NULL
  BY SlotTableAssumption
<1>3. FreeListExact'
  <2>1. \A i \in 1 .. n - 1 : free[i] # s
    BY <1>1 DEF FreeListExact, s
  <2>2. \A i \in DOMAIN free' : slots'[free'[i]].ptr = NULL
    BY <1>1, <2>1 DEF FreeListExact, Live
  <2>3. \A i, j \in DOMAIN free' : free'[i] = free'[j] => i = j
    BY <1>1 DEF FreeListExact
  <2>4. ASSUME NEW t \in DOMAIN slots', slots'[t].ptr = NULL
        PROVE  \E i \in DOMAIN free' : free'[i] = t
    <3>1. t # s
      BY <1>1, <1>2, <2>4 DEF Live
    <3>2. PICK i \in DOMAIN free : free[i] = t
      BY <1>1, <2>4, <3>1 DEF FreeListExact, Live
    <3>3. i # n
      BY <3>1, <3>2 DEF s
    <3> QED BY <1>1, <3>2, <3>3
  <2> QED BY <2>2, <2>3, <2>4 DEF FreeListExact, Live
<1>4. GenerationZeroNeverLive'
  BY <1>1 DEF GenerationZeroNeverLive
<1>5. OneIdPerObject'
  <2>1. \A t \in DOMAIN slots : slots[t].ptr # p
    BY DEF InsertRecycled, Known, Holds
  <2> QED BY <1>1, <2>1 DEF OneIdPerObject, Live, Holds
<1>6. StaledOutdated'
  <2>1. \A t \in DOMAIN slots : slots'[t].generation = slots[t].generation
    BY <1>1
  <2> QED BY <1>1, <2>1 DEF StaledOutdated, BelowWrap, InsertRecycled
<1> QED
  BY <1>1, <1>3, <1>4, <1>5, <1>6

LEMMA FreshPreserves ==
  ASSUME IInv, NEW p \in Ptr, InsertFresh(p)
  PROVE  IInv'
<1> USE DEF IInv
<1> DEFINE s == Len(slots) + 1
<1>a. TypeOK'
  BY InsertFreshEffect
<1>b. DOMAIN slots' = 1 .. Len(slots') /\ DOMAIN free' = 1 .. Len(free')
  BY <1>a, LenProperties DEF TypeOK
<1>1. /\ TypeOK'
      /\ DOMAIN slots' = DOMAIN slots \cup {s}
      /\ s \notin DOMAIN slots
      /\ DOMAIN free = {} /\ DOMAIN free' = {}
      /\ slots'[s] = [ptr |-> p, generation |-> 1]
      /\ \A t \in DOMAIN slots : slots'[t] = slots[t]
  <2>1. Len(slots) \in Nat /\ DOMAIN slots = 1 .. Len(slots)
    BY TypeFacts
  <2>2. /\ Len(slots') = s
        /\ free = <<>> /\ free' = <<>>
        /\ slots'[s] = [ptr |-> p, generation |-> 1]
        /\ \A t \in DOMAIN slots : slots'[t] = slots[t]
    BY InsertFreshEffect
  <2>3. DOMAIN slots' = DOMAIN slots \cup {s} /\ s \notin DOMAIN slots
    BY <1>b, <2>1, <2>2
  <2> QED BY <1>a, <2>2, <2>3
<1> HIDE DEF s
<1>2. FreeListExact'
  BY <1>1, SlotTableAssumption DEF FreeListExact, Live
<1>3. GenerationZeroNeverLive'
  BY <1>1 DEF GenerationZeroNeverLive
<1>4. OneIdPerObject'
  <2>1. \A t \in DOMAIN slots : slots[t].ptr # p
    BY DEF InsertFresh, Known, Holds
  <2> QED BY <1>1, <2>1 DEF OneIdPerObject, Live, Holds
<1>5. StaledOutdated'
  <2>1. invalidations \in Nat
    BY DEF TypeOK
  <2> QED BY <1>1, <2>1 DEF StaledOutdated, BelowWrap, InsertFresh
<1> QED
  BY <1>1, <1>2, <1>3, <1>4, <1>5

LEMMA InvalidatePreserves ==
  ASSUME IInv, NEW p \in Ptr, InvalidatePtr(p)
  PROVE  IInv'
<1> USE DEF IInv
<1>0. PICK s \in DOMAIN slots :
        /\ FirstSlotOf(s, p)
        /\ slots' = [slots EXCEPT ![s] =
                       [ptr |-> NULL, generation |-> NextGeneration(@.generation)]]
        /\ free' = Append(free, s)
        /\ staled' = staled \cup {MkId(s)}
        /\ invalidations' = invalidations + 1
  BY DEF InvalidatePtr
<1> DEFINE n == Len(free)
<1>a. TypeOK'
  BY <1>0, InvalidatePtrEffect
<1>b. DOMAIN slots' = 1 .. Len(slots') /\ DOMAIN free' = 1 .. Len(free')
  BY <1>a, LenProperties DEF TypeOK
<1>1. /\ TypeOK'
      /\ DOMAIN slots' = DOMAIN slots
      /\ n \in Nat
      /\ DOMAIN free = 1 .. n /\ DOMAIN free' = 1 .. n + 1
      /\ \A i \in 1 .. n : free'[i] = free[i]
      /\ free'[n + 1] = s
      /\ slots[s].ptr = p
      /\ slots'[s] = [ptr |-> NULL, generation |-> NextGeneration(slots[s].generation)]
      /\ \A t \in DOMAIN slots : t # s => slots'[t] = slots[t]
      /\ slots[s] \in Slot
  BY <1>0, <1>a, <1>b, InvalidatePtrEffect, TypeFacts
<1>2. p # NULL /\ Live(s)
  BY <1>1, SlotTableAssumption DEF Live
<1>3. slots[s].generation \in Generation
  BY <1>1 DEF Slot
<1>4. FreeListExact'
  <2>1. \A i \in DOMAIN free : free[i] # s
    BY <1>2 DEF FreeListExact
  <2>2. \A i \in DOMAIN free' : slots'[free'[i]].ptr = NULL
    <3>1. \A i \in DOMAIN free : free[i] \in DOMAIN slots
      BY TypeFacts
    <3> QED BY <1>1, <2>1, <3>1 DEF FreeListExact, Live
  <2>3. \A i, j \in DOMAIN free' : free'[i] = free'[j] => i = j
    BY <1>1, <2>1 DEF FreeListExact
  <2>4. \A t \in DOMAIN slots' : slots'[t].ptr = NULL => \E i \in DOMAIN free' : free'[i] = t
    BY <1>1 DEF FreeListExact, Live
  <2> QED BY <2>2, <2>3, <2>4 DEF FreeListExact, Live
<1>5. GenerationZeroNeverLive'
  BY <1>1, <1>3, NextGenerationProperties DEF GenerationZeroNeverLive
<1>6. OneIdPerObject'
  BY <1>1 DEF OneIdPerObject, Live, Holds
<1>7. StaledOutdated'
  <2> SUFFICES ASSUME BelowWrap' PROVE (StaledOutdated!2)'
    BY DEF StaledOutdated
  <2>0. /\ BelowWrap /\ invalidations \in Nat
        /\ invalidations' = invalidations + 1
        /\ invalidations + 2 < GenMod
    BY <1>0, SlotTableAssumption DEF BelowWrap, TypeOK
  <2>1. \A t \in DOMAIN slots : /\ slots[t].generation <= invalidations + 1
                               /\ slots[t].generation \in Nat
    BY <2>0, TypeFacts, SlotTableAssumption DEF StaledOutdated, Slot, Generation
  <2>2. slots'[s].generation = slots[s].generation + 1
    <3>1. slots[s].generation + 1 < GenMod
      BY <2>0, <2>1, SlotTableAssumption
    <3> QED BY <1>1, <1>3, <3>1, NextGenerationProperties
  <2>3. \A t \in DOMAIN slots : slots[t].generation <= slots'[t].generation
    BY <1>1, <2>1, <2>2
  <2>4. ASSUME NEW t \in DOMAIN slots'
        PROVE  slots'[t].generation <= invalidations' + 1
    BY <1>1, <2>0, <2>1, <2>2
  <2>5. ASSUME NEW id \in staled'
        PROVE  id.slot \in DOMAIN slots' /\ id.generation < slots'[id.slot].generation
    <3>1. CASE id = MkId(s)
      BY <1>1, <2>1, <2>2, <3>1 DEF MkId
    <3>2. CASE id \in staled
      <4>1. id.slot \in DOMAIN slots /\ id.generation < slots[id.slot].generation
        BY <2>0, <3>2 DEF StaledOutdated
      <4>2. id.generation \in Nat
        BY <3>2, SlotTableAssumption DEF TypeOK, RawId, Generation
      <4>3. slots'[id.slot].generation \in Nat
        BY <1>1, <2>1, <2>2, <4>1
      <4> QED BY <1>1, <2>1, <2>3, <4>1, <4>2, <4>3
    <3> QED BY <1>0, <2>5, <3>1, <3>2
  <2> QED BY <2>4, <2>5
<1> QED
  BY <1>1, <1>4, <1>5, <1>6, <1>7

LEMMA NextPreserves == IInv /\ [Next]_vars => IInv'
<1> SUFFICES ASSUME IInv, [Next]_vars PROVE IInv'
  OBVIOUS
<1>1. ASSUME NEW p \in Ptr, InsertRecycled(p) PROVE IInv'
  BY <1>1, RecycledPreserves
<1>2. ASSUME NEW p \in Ptr, InsertFresh(p) PROVE IInv'
  BY <1>2, FreshPreserves
<1>3. ASSUME NEW p \in Ptr, InvalidatePtr(p) PROVE IInv'
  BY <1>3, InvalidatePreserves
<1>4. CASE UNCHANGED vars
  BY <1>4 DEF vars, IInv, TypeOK, FreeListExact, GenerationZeroNeverLive,
              OneIdPerObject, StaledOutdated, BelowWrap, Live, Holds
<1> QED
  BY <1>1, <1>2, <1>3, <1>4 DEF Next

-------------------------------------------------------------------------------
(***************************************************************************)
(* The theorems.                                                           *)
(***************************************************************************)

\* The table is well typed: slot numbers on the free list exist, generations
\* keep their width (registry.rs, SlotTable).
THEOREM TypeCorrect == Spec => []TypeOK
<1>1. IInv => TypeOK
  BY DEF IInv
<1> QED
  BY InitInvariant, NextPreserves, <1>1, PTL DEF Spec

\* The free list is exactly the set of dead slots, without repetition, no id
\* of generation 0 is live, and no object has two ids (registry.rs, insert
\* and invalidate_ptr).
THEOREM TableConsistent == Spec => []Consistent
<1>1. IInv => Consistent
  BY DEF IInv, Consistent
<1> QED
  BY InitInvariant, NextPreserves, <1>1, PTL DEF Spec

LEMMA OutdatedIdsAreDead == IInv => StaleIdsStayDead
<1> SUFFICES ASSUME IInv, BelowWrap, NEW id \in staled PROVE Resolve(id) = NULL
  BY DEF StaleIdsStayDead
<1>1. /\ id.slot \in DOMAIN slots
      /\ id.generation < slots[id.slot].generation
      /\ slots[id.slot].generation \in Int
      /\ id.generation \in Int
  BY TypeFacts, SlotTableAssumption
     DEF IInv, StaledOutdated, TypeOK, RawId, Slot, Generation
<1> QED
  BY <1>1 DEF Resolve

\* Until a generation counter can have wrapped around, an id whose object
\* died never resolves again (registry.rs, resolve).
THEOREM StaleIdsDead == Spec => []StaleIdsStayDead
<1> QED
  BY InitInvariant, NextPreserves, OutdatedIdsAreDead, PTL DEF Spec

-------------------------------------------------------------------------------
(***************************************************************************)
(* Below the wrap, the table implements the abstract registry.             *)
(***************************************************************************)

LEMMA BoundFacts ==
  ASSUME TypeOK
  PROVE  /\ DOMAIN BoundNow = LiveIds
         /\ \A s \in DOMAIN slots : Live(s) =>
              /\ MkId(s) \in LiveIds
              /\ BoundNow[MkId(s)] = slots[s].ptr
         /\ \A id \in LiveIds : /\ id.slot \in DOMAIN slots
                               /\ Live(id.slot)
                               /\ id = MkId(id.slot)
<1>1. \A s \in DOMAIN slots : Live(s) => MkId(s) \in LiveIds
  BY DEF LiveIds
<1>2. \A s \in DOMAIN slots : Resolve(MkId(s)) = slots[s].ptr
  BY DEF Resolve, MkId
<1>3. \A id \in LiveIds : id.slot \in DOMAIN slots /\ Live(id.slot) /\ id = MkId(id.slot)
  BY DEF LiveIds, MkId
<1> QED
  BY <1>1, <1>2, <1>3 DEF BoundNow

\* Both halves of `insert`: slot s, dead or new, now holds p.
LEMMA InsertImplementsRegister ==
  ASSUME IInv, TypeOK', BelowWrap,
         NEW p \in Ptr, ~Known(p),
         NEW s \in DOMAIN slots', NEW g \in Generation,
         DOMAIN slots' = DOMAIN slots \cup {s},
         slots'[s] = [ptr |-> p, generation |-> g],
         s \in DOMAIN slots => slots[s].ptr = NULL /\ slots[s].generation = g,
         \A t \in DOMAIN slots : t # s => slots'[t] = slots[t],
         staled' = staled
  PROVE  Abstract!RegNext
<1> USE DEF IInv
<1> DEFINE id == [slot |-> s, generation |-> g]
<1>1. id \in RawId
  <2>0. /\ Len(slots') \in Nat /\ DOMAIN slots' = 1 .. Len(slots')
        /\ Len(slots') <= MaxSlots
    BY LenProperties DEF TypeOK
  <2>1. s \in 1 .. MaxSlots
    BY <2>0, SlotTableAssumption
  <2> QED BY <2>1 DEF RawId
<1>2. \A i \in LiveIds : BoundNow[i] # p
  BY BoundFacts DEF Known, Holds
<1>3. id \notin LiveIds
  BY BoundFacts DEF Live
<1>4. id \notin staled
  BY DEF StaledOutdated, Generation
<1>5. p # NULL
  BY SlotTableAssumption
<1>6. LiveIds' = LiveIds \cup {id}
  BY <1>5 DEF LiveIds, Live, MkId
<1>7. \A i \in LiveIds' : Resolve(i)' = IF i = id THEN p ELSE Resolve(i)
  <2>1. ASSUME NEW i \in LiveIds, i # id PROVE Resolve(i)' = Resolve(i)
    <3>1. i.slot \in DOMAIN slots /\ slots[i.slot].ptr # NULL
      BY BoundFacts DEF Live
    <3>2. i.slot # s
      BY <3>1
    <3> QED BY <3>1, <3>2 DEF Resolve
  <2>2. Resolve(id)' = p
    BY DEF Resolve
  <2> QED BY <1>6, <2>1, <2>2
<1>8. BoundNow' = [i \in LiveIds \cup {id} |-> IF i = id THEN p ELSE BoundNow[i]]
  BY <1>3, <1>6, <1>7 DEF BoundNow
<1>9. Abstract!Register(p, id)
  BY <1>2, <1>3, <1>4, <1>8, BoundFacts DEF Abstract!Register
<1> QED
  BY <1>1, <1>9 DEF Abstract!RegNext

LEMMA InvalidateImplementsUnregister ==
  ASSUME IInv, NEW p \in Ptr, InvalidatePtr(p)
  PROVE  Abstract!RegNext
<1> USE DEF IInv
<1>0. PICK s \in DOMAIN slots :
        /\ FirstSlotOf(s, p)
        /\ slots' = [slots EXCEPT ![s] =
                       [ptr |-> NULL, generation |-> NextGeneration(@.generation)]]
        /\ free' = Append(free, s)
        /\ staled' = staled \cup {MkId(s)}
        /\ invalidations' = invalidations + 1
  BY DEF InvalidatePtr
<1>1. /\ DOMAIN slots' = DOMAIN slots
      /\ slots[s].ptr = p
      /\ slots'[s].ptr = NULL
      /\ \A t \in DOMAIN slots : t # s => slots'[t] = slots[t]
  BY <1>0, InvalidatePtrEffect
<1>2. MkId(s) \in LiveIds
  BY <1>1, SlotTableAssumption DEF LiveIds, Live
<1>3. MkId(s) \in RawId
  BY TypeFacts, SlotTableAssumption DEF MkId, RawId, Slot, TypeOK
<1>4. LiveIds' = LiveIds \ {MkId(s)}
  <2>1. \A t \in DOMAIN slots : t # s => MkId(t)' = MkId(t) /\ MkId(t) # MkId(s)
    BY <1>1 DEF MkId
  <2>2. \A t \in DOMAIN slots : Live(t)' <=> (Live(t) /\ t # s)
    BY <1>1 DEF Live
  <2> QED BY <1>1, <2>1, <2>2 DEF LiveIds
<1>5. \A i \in LiveIds' : Resolve(i)' = Resolve(i)
  <2>1. ASSUME NEW i \in LiveIds, i # MkId(s) PROVE Resolve(i)' = Resolve(i)
    <3>1. i.slot \in DOMAIN slots /\ i.slot # s
      BY <2>1, BoundFacts
    <3> QED BY <1>1, <3>1 DEF Resolve
  <2> QED BY <1>4, <2>1
<1>6. BoundNow' = [i \in LiveIds \ {MkId(s)} |-> BoundNow[i]]
  BY <1>4, <1>5 DEF BoundNow
<1>7. Abstract!Unregister(MkId(s))
  BY <1>0, <1>2, <1>6, BoundFacts DEF Abstract!Unregister
<1> QED
  BY <1>3, <1>7 DEF Abstract!RegNext

LEMMA InitImplementsRegistry == Init => Abstract!RegInit
<1> SUFFICES ASSUME Init PROVE Abstract!RegInit
  OBVIOUS
<1>1. LiveIds = {} /\ staled = {}
  BY DEF Init, LiveIds
<1>2. BoundNow = [id \in {} |-> {}]
  BY <1>1 DEF BoundNow
<1> QED
  BY <1>1, <1>2 DEF Abstract!RegInit

LEMMA StepImplementsRegistry ==
  IInv /\ [Next]_vars => [BelowWrap' => [Abstract!RegNext]_(Abstract!regVars)]_vars
<1> SUFFICES ASSUME IInv, [Next]_vars, BelowWrap'
             PROVE  [Abstract!RegNext]_(Abstract!regVars)
  OBVIOUS
<1> USE DEF IInv
<1>1. ASSUME NEW p \in Ptr, InsertRecycled(p), BelowWrap' PROVE Abstract!RegNext
  <2> DEFINE s == free[Len(free)]
  <2>1. /\ TypeOK' /\ Len(free) > 0 /\ BelowWrap
        /\ ~Known(p) /\ staled' = staled /\ DOMAIN slots' = DOMAIN slots
        /\ slots'[s] = [ptr |-> p, generation |-> slots[s].generation]
        /\ \A t \in DOMAIN slots : t # s => slots'[t] = slots[t]
    BY <1>1, InsertRecycledEffect DEF InsertRecycled, BelowWrap
  <2>2. Len(free) \in DOMAIN free
    BY <2>1, TypeFacts
  <2>3. s \in DOMAIN slots /\ slots[s].ptr = NULL /\ slots[s].generation \in Generation
    BY <2>2, TypeFacts DEF FreeListExact, Live, Slot
  <2> HIDE DEF s
  <2> QED BY <2>1, <2>3, InsertImplementsRegister
<1>2. ASSUME NEW p \in Ptr, InsertFresh(p), BelowWrap' PROVE Abstract!RegNext
  <2> DEFINE s == Len(slots) + 1
  <2>1. /\ TypeOK' /\ BelowWrap /\ ~Known(p) /\ staled' = staled
        /\ Len(slots') = s
        /\ slots'[s] = [ptr |-> p, generation |-> 1]
        /\ \A t \in DOMAIN slots : slots'[t] = slots[t]
    BY <1>2, InsertFreshEffect DEF InsertFresh, BelowWrap
  <2>2. DOMAIN slots' = 1 .. Len(slots')
    BY <2>1, LenProperties DEF TypeOK
  <2>3. DOMAIN slots' = DOMAIN slots \cup {s} /\ s \notin DOMAIN slots
    BY <2>1, <2>2, TypeFacts
  <2>4. 1 \in Generation
    BY SlotTableAssumption DEF Generation
  <2> HIDE DEF s
  <2> QED BY <2>1, <2>3, <2>4, InsertImplementsRegister
<1>3. ASSUME NEW p \in Ptr, InvalidatePtr(p) PROVE Abstract!RegNext
  BY <1>3, InvalidateImplementsUnregister
<1>4. CASE UNCHANGED vars
  <2>1. BoundNow' = BoundNow /\ staled' = staled
    BY <1>4 DEF vars, BoundNow, LiveIds, Resolve, MkId, Live
  <2> QED BY <2>1 DEF Abstract!regVars
<1> QED
  BY <1>1, <1>2, <1>3, <1>4 DEF Next

\* Every step of the table before a generation can wrap is a step of the
\* abstract registry: each live object has one id, bound to it until it dies
\* and never reused (registry.rs as a whole).
THEOREM TableImplementsRegistry == Spec => RegistryUntilWrap
<1> QED
  BY InitInvariant, NextPreserves, InitImplementsRegistry, StepImplementsRegistry, PTL
     DEF Spec, RegistryUntilWrap

===============================================================================
