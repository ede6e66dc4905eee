---------------------------- MODULE LayoutputProofs ----------------------------
(***************************************************************************)
(* Proofs about Layoutput: no output leaks or blocks its group, no head is *)
(* lost by the undo, and startup keeps require-outputs, for any connectors *)
(* and outputs and any cap on clones above one.                            *)
(***************************************************************************)
EXTENDS Layoutput, FiniteSetTheorems, SequenceTheorems, TLAPS

-------------------------------------------------------------------------------
(***************************************************************************)
(* The inductive invariant.                                                *)
(***************************************************************************)

Working == {"existing", "create", "configure", "enable"}
Trying == {"configure", "enable"}

\* What a running flush remembers.
AtHeads == [at : {"heads"}, todo : SUBSET Connector]
AtGroups == [at : {"groups"}, todo : SUBSET Group, failed : Nat]
AtExisting == [at : {"existing"}, group : Group, walk : SUBSET Output,
               todo : SUBSET Group, failed : Nat]
AtCreate == [at : {"create"}, group : Group, todo : SUBSET Group, failed : Nat]
AtTrying == [at : Trying, group : Group, output : Output, undo : Seq(Connector \cup {None}),
             lost : Seq(Connector), todo : SUBSET Group, failed : Nat]
Flushes == {Idle} \cup AtHeads \cup AtGroups \cup AtExisting \cup AtCreate \cup AtTrying

\* Heads are staged on their own group, and only groups to be processed have
\* any once the heads were visited.
StagedSound ==
  /\ \A g \in Group : \A h \in Elements(add[g]) : GroupOf(h) = g
  /\ \A g \in Group : add[g] # <<>> => g \in layoutputs
  /\ flush.at = "idle" => \A g \in Group : add[g] = <<>>
  /\ flush.at = "groups" => \A g \in Group : g \in flush.todo <=> add[g] # <<>>
  /\ flush.at \in Working =>
       /\ flush.group \in layoutputs \ flush.todo
       /\ \A g \in Group \ {flush.group} : g \in flush.todo <=> add[g] # <<>>
  /\ flush.at = "existing" => add[flush.group] # <<>>

\* Entries, outputs and heads agree; only the output being tried is not up.
OutputsSound ==
  /\ \A g \in Group : \A a, b \in outputs[g] : a = b
  /\ \A g \in Group : \A o \in outputs[g] \cap cell :
       output[o] = "enabled" \/ (flush.at \in Trying /\ o = flush.output)
  /\ flush.at = "existing" =>
       flush.walk \subseteq outputs[flush.group] /\ outputs[flush.group] \subseteq flush.walk \cup cell
  /\ flush.at \in {"create", "configure", "enable"} => outputs[flush.group] \subseteq cell
  /\ flush.at \in Trying => output[flush.output] = "pending"
  /\ \A h \in Connector : attached[h] # None => attached[h] \in outputs[GroupOf(h)] \cap cell
  /\ \A o \in Output : output[o] # "none" => o \in cell /\ \E g \in Group : o \in outputs[g]

\* While an output is tried, each head staged for it is on it or is remembered.
UndoSound == flush.at \in Trying =>
  /\ \A h \in Elements(flush.undo) \cup Elements(flush.lost) : GroupOf(h) = flush.group
  /\ \A h \in Elements(flush.undo) : attached[h] \in {flush.output, None}
  /\ \A h \in Elements(add[flush.group]) : h \in Elements(flush.lost) \/ attached[h] # None

\* A connected head that no full group dropped.
Wanted(h) == head[h] = "connected" /\ Cardinality(Clones(h)) < MaxCloneHeads

Visited(g) == {c \in Connector \ flush.todo : GroupOf(c) = g /\ head[c] = "connected"}
SomeEnabled == \E h \in Connector : IsEnabled(h)

\* The groups the first flush is done with.
Finished == layoutputs \ (IF flush.at \in Working THEN flush.todo \cup {flush.group}
                          ELSE flush.todo)

\* A wanted head that is not enabled is still under way.
UnderWay(h) ==
  IF flush.at \in Trying /\ GroupOf(h) = flush.group
  THEN h \in Elements(flush.lost) \/ attached[h] = flush.output
  ELSE h \in Elements(add[GroupOf(h)])

BootSound == stage = "boot" =>
  /\ flush.at \in {"idle", "heads"} => \A g \in Group : outputs[g] = {}
  /\ flush.at = "idle" => layoutputs = {}
  /\ flush.at = "heads" =>
       /\ \A g \in layoutputs : add[g] # <<>>
       /\ \A g \in Group : Len(add[g]) <= Cardinality(Visited(g))
       /\ \A h \in Connector \ flush.todo : Wanted(h) => h \in Elements(add[GroupOf(h)])
  /\ flush.at \in {"groups"} \cup Working =>
       /\ \A g \in flush.todo : outputs[g] = {}
       /\ SomeEnabled \/ flush.failed = Cardinality(Finished)
       /\ flush.failed = 0 => \A h \in Connector : Wanted(h) => IsEnabled(h) \/ UnderWay(h)
  /\ flush.at = "existing" => outputs[flush.group] = {}
  /\ flush.at = "create" => SomeEnabled \/ add[flush.group] # <<>>

IInv ==
  /\ TypeOK /\ flush \in Flushes
  /\ StagedSound /\ OutputsSound /\ UndoSound /\ BootSound

-------------------------------------------------------------------------------
(***************************************************************************)
(* Staged heads and flushes.                                               *)
(***************************************************************************)

LEMMA Constants ==
  /\ None \notin Connector /\ None \notin Output /\ Shared \notin Connector
  /\ Solo \subseteq Connector /\ IsFiniteSet(Connector)
  /\ MaxCloneHeads \in Nat /\ MaxCloneHeads > 1
BY LayoutputAssumption

LEMMA GroupsAreFinite ==
  /\ IsFiniteSet(Group)
  /\ \A h \in Connector : GroupOf(h) \in Group
<1>1. IsFiniteSet(Solo)
  BY Constants, FS_Subset
<1>2. IsFiniteSet(Solo \cup {Shared})
  BY <1>1, FS_AddElement
<1> QED BY <1>2 DEF Group, GroupOf

LEMMA FlushShape ==
  ASSUME flush \in Flushes
  PROVE  /\ flush.at \in {"idle", "heads", "groups", "existing", "create"} \cup Trying
         /\ flush.at = "idle" <=> flush = Idle
         /\ flush.at = "heads" => flush \in AtHeads
         /\ flush.at = "groups" => flush \in AtGroups
         /\ flush.at = "existing" => flush \in AtExisting
         /\ flush.at = "create" => flush \in AtCreate
         /\ flush.at \in Trying => flush \in AtTrying
         /\ flush.at \in Working =>
              flush.group \in Group /\ flush.todo \subseteq Group /\ flush.failed \in Nat
<1>1. CASE flush = Idle
  BY <1>1 DEF Idle, Trying, Working
<1>2. CASE flush \in AtHeads
  BY <1>2 DEF AtHeads, Idle, Trying, Working
<1>3. CASE flush \in AtGroups
  BY <1>3 DEF AtGroups, Idle, Trying, Working
<1>4. CASE flush \in AtExisting
  BY <1>4 DEF AtExisting, Idle, Trying, Working
<1>5. CASE flush \in AtCreate
  BY <1>5 DEF AtCreate, Idle, Trying, Working
<1>6. CASE flush \in AtTrying
  BY <1>6 DEF AtTrying, Idle, Trying, Working
<1> QED BY <1>1, <1>2, <1>3, <1>4, <1>5, <1>6 DEF Flushes

LEMMA ElementsAre ==
  ASSUME NEW s \in Seq(Connector)
  PROVE  /\ Elements(s) = {s[i] : i \in 1 .. Len(s)}
         /\ Elements(s) \subseteq Connector
         /\ s = <<>> => Elements(s) = {}
<1>1. DOMAIN s = 1 .. Len(s) /\ \A i \in 1 .. Len(s) : s[i] \in Connector
  OBVIOUS
<1> QED BY <1>1, Constants DEF Elements

LEMMA ElementsAppended ==
  ASSUME NEW s \in Seq(Connector), NEW h \in Connector
  PROVE  Append(s, h) \in Seq(Connector) /\ Elements(Append(s, h)) = Elements(s) \cup {h}
<1> DEFINE t == Append(s, h)
<1>1. t \in Seq(Connector) /\ Len(t) = Len(s) + 1 /\ t[Len(s) + 1] = h
  OBVIOUS
<1>2. \A i \in 1 .. Len(s) : t[i] = s[i] /\ i \in 1 .. Len(t)
  OBVIOUS
<1>3. \A i \in 1 .. Len(t) : i = Len(s) + 1 \/ i \in 1 .. Len(s)
  BY <1>1
<1>4. Len(s) + 1 \in 1 .. Len(t)
  BY <1>1
<1> HIDE DEF t
<1>5. /\ Elements(t) = {t[i] : i \in 1 .. Len(t)}
      /\ Elements(s) = {s[i] : i \in 1 .. Len(s)}
  BY <1>1, ElementsAre
<1>6. Elements(t) = Elements(s) \cup {h}
  BY <1>1, <1>2, <1>3, <1>4, <1>5
<1> QED BY <1>1, <1>6 DEF t

LEMMA AttachableAre ==
  ASSUME NEW s \in Seq(Connector)
  PROVE  Attachable(s) = {s[i] : i \in 2 .. Len(s)}
<1> DEFINE t == SubSeq(s, 2, Len(s))
<1>0. Len(s) \in Nat
  OBVIOUS
<1>1. CASE Len(s) >= 2
  <2>1. t \in Seq(Connector) /\ Len(t) = Len(s) - 1
    BY <1>0, <1>1
  <2>2. \A i \in 1 .. Len(t) : t[i] = s[i + 1] /\ i + 1 \in 2 .. Len(s)
    BY <1>0, <1>1, <2>1
  <2>3. \A i \in 2 .. Len(s) : i - 1 \in 1 .. Len(t) /\ t[i - 1] = s[i]
    BY <1>0, <1>1, <2>1
  <2> HIDE DEF t
  <2>4. Elements(t) = {t[i] : i \in 1 .. Len(t)}
    BY <2>1, ElementsAre
  <2>5. Elements(t) = {s[i] : i \in 2 .. Len(s)}
    BY <2>2, <2>3, <2>4
  <2> QED BY <2>5 DEF Attachable, t
<1>2. CASE Len(s) < 2
  <2>1. t = <<>> /\ t \in Seq(Connector) /\ 2 .. Len(s) = {}
    BY <1>0, <1>2
  <2> HIDE DEF t
  <2>2. Elements(t) = {}
    BY <2>1, ElementsAre
  <2> QED BY <2>1, <2>2 DEF Attachable, t
<1> QED BY <1>0, <1>1, <1>2

\* try_attach splits the staged heads into the first, those that were attached
\* and those that were refused; it loses none.
LEMMA SplitStaged ==
  ASSUME NEW s \in Seq(Connector), s # <<>>, NEW r \in Refusals(s), NEW p \in Places(s, r)
  PROVE  /\ s[1] \in Connector /\ Attachable(s) \subseteq Connector
         /\ Elements(s) = {s[1]} \cup Attachable(s)
         /\ Refused(s, p) \in Seq(Connector) /\ Elements(Refused(s, p)) = r
         /\ r = {} => Refused(s, p) = <<>>
         /\ Kept(s, r) \in Seq(Connector \cup {None})
         /\ Elements(Kept(s, r)) \subseteq {s[1]} \cup (Attachable(s) \ r)
<1> DEFINE at == {i \in 2 .. Len(s) : s[i] \in r}
           n == Cardinality(at)
           t == Refused(s, p)
           k == Kept(s, r)
<1>0. /\ Len(s) \in Nat /\ Len(s) >= 1 /\ DOMAIN s = 1 .. Len(s)
      /\ \A i \in 1 .. Len(s) : s[i] \in Connector
  OBVIOUS
<1>1. /\ Attachable(s) = {s[i] : i \in 2 .. Len(s)}
      /\ Elements(s) = {s[i] : i \in 1 .. Len(s)}
  BY AttachableAre, ElementsAre
<1>2. s[1] \in Connector /\ Attachable(s) \subseteq Connector
  BY <1>0, <1>1
<1>3. Elements(s) = {s[1]} \cup Attachable(s)
  <2>1. \A i \in 1 .. Len(s) : i = 1 \/ i \in 2 .. Len(s)
    BY <1>0
  <2>2. 1 \in 1 .. Len(s) /\ \A i \in 2 .. Len(s) : i \in 1 .. Len(s)
    BY <1>0
  <2> QED BY <1>1, <2>1, <2>2
<1>4. r \subseteq Attachable(s)
  BY DEF Refusals
<1>5. n \in Nat
  <2>1. IsFiniteSet(2 .. Len(s))
    BY <1>0, FS_Interval
  <2>2. IsFiniteSet(at)
    BY <2>1, FS_Subset
  <2> HIDE DEF at
  <2> QED BY <2>2, FS_CardinalityType
<1>6. p \in [1 .. n -> at] /\ at = {p[m] : m \in 1 .. n}
  <2>1. p \in [1 .. n -> at] /\ at = {p[m] : m \in DOMAIN p}
    BY DEF Places
  <2> HIDE DEF at, n
  <2> QED BY <2>1
<1>7. t = [m \in 1 .. n |-> s[p[m]]]
  <2> HIDE DEF at, n
  <2> QED BY <1>6 DEF Refused
<1>8. t \in Seq(Connector) /\ Len(t) = n
  <2>1. \A m \in 1 .. n : p[m] \in at /\ s[p[m]] \in Connector
    BY <1>0, <1>6
  <2> HIDE DEF at, n, t
  <2> QED BY <1>5, <1>7, <2>1
<1>9. Elements(t) = r
  <2>1. Elements(t) = {t[m] : m \in 1 .. n}
    <3> HIDE DEF at, n, t
    <3> QED BY <1>8, ElementsAre
  <2>2. \A m \in 1 .. n : t[m] = s[p[m]] /\ p[m] \in at
    <3> HIDE DEF at, n, t
    <3> QED BY <1>6, <1>7
  <2>3. \A m \in 1 .. n : t[m] \in r
    BY <2>2
  <2>4. ASSUME NEW h \in r PROVE \E m \in 1 .. n : t[m] = h
    <3>1. PICK i \in 2 .. Len(s) : s[i] = h
      BY <1>1, <1>4
    <3>2. i \in at
      BY <3>1
    <3>3. PICK m \in 1 .. n : p[m] = i
      <4> HIDE DEF at, n, t
      <4> QED BY <1>6, <3>2
    <3> HIDE DEF at, n, t
    <3> QED BY <2>2, <3>1, <3>3
  <2> HIDE DEF at, n, t
  <2> QED BY <2>1, <2>3, <2>4
<1>10. r = {} => t = <<>>
  <2>1. r = {} => at = {}
    OBVIOUS
  <2> HIDE DEF at
  <2>2. r = {} => n = 0
    BY <2>1, FS_EmptySet
  <2> HIDE DEF n, t
  <2> QED BY <1>8, <2>2
<1>11. k = [i \in 1 .. Len(s) |-> IF i > 1 /\ s[i] \in r THEN None ELSE s[i]]
  BY <1>0 DEF Kept
<1>12. k \in Seq(Connector \cup {None}) /\ DOMAIN k = 1 .. Len(s)
  <2> HIDE DEF k
  <2> QED BY <1>0, <1>11
<1>13. Elements(k) \subseteq {s[1]} \cup (Attachable(s) \ r)
  <2> SUFFICES ASSUME NEW i \in 1 .. Len(s), k[i] # None
               PROVE  k[i] \in {s[1]} \cup (Attachable(s) \ r)
    BY <1>12 DEF Elements
  <2> HIDE DEF k
  <2>1. k[i] = s[i] /\ (i = 1 \/ (i \in 2 .. Len(s) /\ s[i] \notin r))
    BY <1>0, <1>11
  <2> QED BY <1>1, <2>1
<1> HIDE DEF k, t
<1> QED BY <1>2, <1>3, <1>8, <1>9, <1>10, <1>12, <1>13 DEF k, t

LEMMA NaturalsHaveLeast ==
  ASSUME NEW T \in SUBSET Nat, T # {}
  PROVE  \E n \in T : \A m \in T : n <= m
<1> DEFINE R == {p \in Nat \X Nat : p[1] < p[2]}
<1>1. R = OpToRel(<, Nat)
  BY Zenon DEF OpToRel
<1>2. IsWellFoundedOn(R, Nat)
  BY <1>1, NatLessThanWellFounded
<1>3. PICK x \in T : \A y \in T : ~ (<<y, x>> \in R)
  <2> HIDE DEF R
  <2> QED BY <1>2, WFMin
<1>4. \A y \in T : ~ (y < x)
  BY <1>3
<1> QED BY <1>4

\* The undo gives back a head that is left.
LEMMA LastIsLeft ==
  ASSUME flush \in AtTrying, Left # {}
  PROVE  /\ Last \in 1 .. Len(flush.undo) /\ flush.undo[Last] \in Connector
         /\ flush.undo[Last] \in Elements(flush.undo)
         /\ SubSeq(flush.undo, 1, Last - 1) \in Seq(Connector \cup {None})
         /\ Elements(SubSeq(flush.undo, 1, Last - 1)) \subseteq Elements(flush.undo)
<1> DEFINE u == flush.undo
           M == Len(u)
           T == {M - i : i \in Left}
<1>1. /\ u \in Seq(Connector \cup {None}) /\ M \in Nat /\ Left \subseteq 1 .. M
      /\ DOMAIN u = 1 .. M
      /\ \A i \in 1 .. M : i \in Left => u[i] \in Connector
  BY DEF AtTrying, Left
<1>2. T \in SUBSET Nat /\ T # {}
  <2> HIDE DEF M
  <2>1. \A i \in Left : i \in 1 .. M
    BY <1>1
  <2>2. \A i \in 1 .. M : M - i \in Nat
    BY <1>1
  <2>3. \E i \in Left : TRUE
    OBVIOUS
  <2> QED BY <2>1, <2>2, <2>3
<1>3. PICK n \in T : \A m \in T : n <= m
  <2> HIDE DEF T
  <2> QED BY <1>2, NaturalsHaveLeast
<1>4. PICK i \in Left : n = M - i
  OBVIOUS
<1>5. \A j \in Left : j <= i
  <2> HIDE DEF M
  <2>1. \A j \in Left : M - i <= M - j
    BY <1>3, <1>4
  <2> QED BY <1>1, <2>1
<1>6. Last \in Left
  BY <1>5 DEF Last
<1>7. Last \in 1 .. M /\ u[Last] \in Connector
  BY <1>1, <1>6
<1>8. u[Last] \in Elements(u)
  BY <1>1, <1>7, Constants DEF Elements
<1> DEFINE v == SubSeq(u, 1, Last - 1)
<1> HIDE DEF Last
<1>9. v \in Seq(Connector \cup {None}) /\ DOMAIN v = 1 .. Last - 1
  BY <1>1, <1>7
<1>10. \A j \in 1 .. Last - 1 : v[j] = u[j] /\ j \in 1 .. M
  BY <1>1, <1>7
<1>11. Elements(v) \subseteq Elements(u)
  <2> HIDE DEF u, v, M
  <2> QED BY <1>1, <1>9, <1>10 DEF Elements
<1> QED BY <1>7, <1>8, <1>9, <1>11

-------------------------------------------------------------------------------
(***************************************************************************)
(* Hotplug.                                                                *)
(***************************************************************************)

LEMMA PluggedKeeps ==
  ASSUME IInv, NEW h \in Connector, Plugged(h)
  PROVE  IInv'
<1>1. PICK state \in {"disconnected", "connected"} : head' = [head EXCEPT ![h] = state]
  BY DEF Plugged
<1>2. /\ stage = "up"
      /\ UNCHANGED <<output, attached, layoutputs, outputs, cell, add, require,
                     initFailed, stage, flush>>
  BY DEF Plugged, groups, startup
<1>3. TypeOK' /\ flush' \in Flushes
  BY <1>1, <1>2 DEF IInv, TypeOK
<1>4. StagedSound' /\ OutputsSound' /\ UndoSound' /\ BootSound'
  BY <1>2 DEF IInv, StagedSound, OutputsSound, UndoSound, BootSound
<1> QED BY <1>3, <1>4 DEF IInv

LEMMA HeadDestroyedKeeps ==
  ASSUME IInv, NEW h \in Connector, HeadDestroyed(h)
  PROVE  IInv'
<1>1. /\ flush = Idle /\ stage = "up"
      /\ head' = [head EXCEPT ![h] = "absent"] /\ attached' = [attached EXCEPT ![h] = None]
      /\ UNCHANGED <<output, layoutputs, outputs, cell, add, require, initFailed, stage,
                     flush>>
  BY DEF HeadDestroyed, Between, groups, startup
<1>2. TypeOK' /\ flush' \in Flushes
  BY <1>1 DEF IInv, TypeOK
<1>3. StagedSound' /\ BootSound'
  BY <1>1 DEF IInv, StagedSound, BootSound
<1>4. OutputsSound'
  BY <1>1 DEF IInv, TypeOK, OutputsSound
<1>5. UndoSound'
  BY <1>1 DEF UndoSound, Idle, Trying
<1> QED BY <1>2, <1>3, <1>4, <1>5 DEF IInv

LEMMA DestroyedTyped ==
  ASSUME TypeOK, NEW o \in Output, Destroyed(o)
  PROVE  /\ output' \in [Output -> {"none", "pending", "enabled"}]
         /\ attached' \in [Connector -> Output \cup {None}]
         /\ cell' \subseteq Output
BY DEF Destroyed, TypeOK

LEMMA OutputDestroyedKeeps ==
  ASSUME IInv, NEW o \in Output, OutputDestroyed(o)
  PROVE  IInv'
<1>1. /\ flush = Idle /\ output[o] # "none" /\ Destroyed(o)
      /\ UNCHANGED <<head, layoutputs, outputs, add, require, initFailed, stage, flush>>
  BY DEF OutputDestroyed, Between, startup
<1>2. /\ output' = [output EXCEPT ![o] = "none"] /\ cell' = cell \ {o}
      /\ attached' = [h \in Connector |-> IF attached[h] = o THEN None ELSE attached[h]]
  BY <1>1 DEF Destroyed
<1>3. TypeOK' /\ flush' \in Flushes
  BY <1>1, DestroyedTyped DEF IInv, TypeOK
<1>4. stage # "boot"
  BY <1>1 DEF IInv, OutputsSound, BootSound, Idle
<1>5. StagedSound' /\ BootSound'
  BY <1>1, <1>4 DEF IInv, StagedSound, BootSound
<1>6. OutputsSound'
  BY <1>1, <1>2 DEF IInv, TypeOK, OutputsSound, Idle, Trying
<1>7. UndoSound'
  BY <1>1 DEF UndoSound, Idle, Trying
<1> QED BY <1>3, <1>5, <1>6, <1>7 DEF IInv

LEMMA NoHeadsKeeps ==
  ASSUME IInv, NoHeads
  PROVE  IInv'
<1>1. /\ stage' = "up" /\ flush = Idle
      /\ UNCHANGED <<head, output, attached, layoutputs, outputs, cell, add, require,
                     initFailed, flush>>
  BY DEF NoHeads, Between, libweston, groups
<1>2. TypeOK' /\ flush' \in Flushes
  BY <1>1 DEF IInv, TypeOK
<1>3. StagedSound' /\ OutputsSound' /\ UndoSound' /\ BootSound'
  BY <1>1 DEF IInv, StagedSound, OutputsSound, UndoSound, BootSound
<1> QED BY <1>2, <1>3 DEF IInv

-------------------------------------------------------------------------------
(***************************************************************************)
(* The heads of a flush.                                                   *)
(***************************************************************************)

LEMMA HeadsChangedKeeps ==
  ASSUME IInv, HeadsChanged
  PROVE  IInv'
<1>1. /\ flush = Idle
      /\ flush' = [at |-> "heads", todo |-> {h \in Connector : head[h] # "absent"}]
      /\ UNCHANGED <<head, output, attached, layoutputs, outputs, cell, add, require,
                     initFailed, stage>>
  BY DEF HeadsChanged, Between, libweston, groups, startup
<1>2. /\ flush'.at = "heads" /\ flush'.todo = {h \in Connector : head[h] # "absent"}
      /\ flush' \in AtHeads /\ flush.at = "idle"
  BY <1>1 DEF AtHeads, Idle
<1>3. TypeOK' /\ flush' \in Flushes
  BY <1>1, <1>2 DEF IInv, TypeOK, Flushes
<1>4. \A g \in Group : add[g] = <<>>
  BY <1>2 DEF IInv, StagedSound
<1>5. StagedSound'
  BY <1>1, <1>2 DEF IInv, StagedSound, Working
<1>6. OutputsSound' /\ UndoSound'
  BY <1>1, <1>2 DEF IInv, OutputsSound, UndoSound, Trying
<1>7. BootSound'
  <2>1. ASSUME NEW g \in Group PROVE Len(add[g]) <= Cardinality(Visited(g)')
    <3> DEFINE V == {c \in Connector \ flush'.todo : GroupOf(c) = g /\ head'[c] = "connected"}
    <3>1. IsFiniteSet(V)
      BY Constants, FS_Subset
    <3> HIDE DEF V
    <3>2. Cardinality(V) >= 0
      BY <3>1, FS_CardinalityType
    <3> QED BY <1>4, <3>2 DEF Visited, V
  <2>2. ASSUME NEW h \in Connector \ flush'.todo PROVE ~Wanted(h)'
    BY <1>1, <1>2, <2>2 DEF Wanted
  <2> QED BY <1>1, <1>2, <2>1, <2>2 DEF IInv, BootSound, Working
<1> QED BY <1>3, <1>5, <1>6, <1>7 DEF IInv

LEMMA VisitFrame ==
  ASSUME IInv, NEW h \in Connector, Visit(h)
  PROVE  /\ flush.at = "heads" /\ flush \in AtHeads /\ h \in flush.todo
         /\ flush' = [flush EXCEPT !.todo = @ \ {h}] /\ flush' \in AtHeads /\ flush' \in Flushes
         /\ flush'.at = "heads" /\ flush'.todo = flush.todo \ {h}
         /\ UNCHANGED <<require, initFailed, stage>>
<1>1. flush.at = "heads" /\ h \in flush.todo /\ flush' = [flush EXCEPT !.todo = @ \ {h}]
  BY DEF Visit
<1>2. flush \in AtHeads
  BY <1>1, FlushShape DEF IInv
<1>3. flush' \in AtHeads /\ flush'.at = "heads" /\ flush'.todo = flush.todo \ {h}
  BY <1>1, <1>2 DEF AtHeads
<1> QED BY <1>1, <1>2, <1>3 DEF Flushes, Visit, startup

\* No output is enabled before the groups are processed for the first time.
LEMMA NoneEnabledAtBoot ==
  ASSUME IInv, stage = "boot", flush.at \in {"idle", "heads"}, NEW h \in Connector
  PROVE  ~IsEnabled(h)
BY GroupsAreFinite DEF IInv, OutputsSound, BootSound, IsEnabled

LEMMA LeaveHeadKeeps ==
  ASSUME IInv, NEW h \in Connector, LeaveHead(h)
  PROVE  IInv'
<1>1. /\ (head[h] = "connected") = IsEnabled(h)
      /\ UNCHANGED <<head, output, attached, layoutputs, outputs, cell, add>>
  BY DEF LeaveHead, libweston, groups
<1>2. /\ flush.at = "heads" /\ flush \in AtHeads /\ h \in flush.todo
      /\ flush' \in Flushes /\ flush'.at = "heads" /\ flush'.todo = flush.todo \ {h}
      /\ UNCHANGED <<require, initFailed, stage>>
  BY VisitFrame DEF LeaveHead
<1>3. TypeOK' /\ flush' \in Flushes
  BY <1>1, <1>2 DEF IInv, TypeOK
<1>4. StagedSound' /\ OutputsSound' /\ UndoSound'
  BY <1>1, <1>2 DEF IInv, StagedSound, OutputsSound, UndoSound, Working, Trying
<1>5. ASSUME stage = "boot" PROVE head[h] # "connected"
  BY <1>1, <1>2, <1>5, NoneEnabledAtBoot
<1>6. BootSound'
  <2>1. ASSUME stage = "boot", NEW g \in Group PROVE Visited(g)' = Visited(g)
    BY <1>1, <1>2, <1>5, <2>1 DEF Visited
  <2>2. ASSUME NEW c \in Connector PROVE Wanted(c)' <=> Wanted(c)
    BY <1>1 DEF Wanted, Clones
  <2>3. ASSUME stage = "boot" PROVE ~Wanted(h)
    BY <1>5, <2>3 DEF Wanted
  <2> QED BY <1>1, <1>2, <2>1, <2>2, <2>3 DEF IInv, BootSound, Working
<1> QED BY <1>3, <1>4, <1>6 DEF IInv

LEMMA DisableHeadKeeps ==
  ASSUME IInv, NEW h \in Connector, DisableHead(h)
  PROVE  IInv'
<1> DEFINE o == attached[h]
<1>1. /\ IsEnabled(h) /\ UNCHANGED <<head, layoutputs, add>>
      /\ \/ /\ Destroyed(o) /\ outputs' = [g \in Group |-> outputs[g] \ {o}]
         \/ /\ attached' = [attached EXCEPT ![h] = None]
            /\ UNCHANGED <<output, outputs, cell>>
  BY DEF DisableHead
<1>2. /\ flush.at = "heads" /\ flush \in AtHeads /\ h \in flush.todo
      /\ flush' \in Flushes /\ flush'.at = "heads" /\ flush'.todo = flush.todo \ {h}
      /\ UNCHANGED <<require, initFailed, stage>>
  BY VisitFrame DEF DisableHead
<1>3. o \in Output /\ stage # "boot"
  BY <1>1, <1>2, NoneEnabledAtBoot DEF IInv, TypeOK, IsEnabled
<1>4. StagedSound' /\ UndoSound' /\ BootSound'
  BY <1>1, <1>2, <1>3 DEF IInv, StagedSound, UndoSound, BootSound, Working, Trying
<1>5. CASE Destroyed(o) /\ outputs' = [g \in Group |-> outputs[g] \ {o}]
  <2> HIDE DEF o
  <2>1. TypeOK'
    BY <1>1, <1>2, <1>3, <1>5, DestroyedTyped DEF IInv, TypeOK
  <2>2. OutputsSound'
    BY <1>2, <1>3, <1>5, GroupsAreFinite
       DEF IInv, TypeOK, OutputsSound, Destroyed, Trying
  <2> QED BY <1>2, <1>4, <2>1, <2>2 DEF IInv
<1>6. CASE attached' = [attached EXCEPT ![h] = None] /\ UNCHANGED <<output, outputs, cell>>
  <2> HIDE DEF o
  <2>1. TypeOK'
    BY <1>1, <1>2, <1>6 DEF IInv, TypeOK
  <2>2. OutputsSound'
    BY <1>2, <1>6 DEF IInv, TypeOK, OutputsSound, Trying
  <2> QED BY <1>2, <1>4, <2>1, <2>2 DEF IInv
<1> QED BY <1>1, <1>5, <1>6

LEMMA AddHeadKeeps ==
  ASSUME IInv, NEW h \in Connector, AddHead(h)
  PROVE  IInv'
<1> DEFINE k == GroupOf(h)
<1>1. /\ head[h] = "connected" /\ layoutputs' = layoutputs \cup {k}
      /\ add' = IF Len(add[k]) + 1 >= MaxCloneHeads THEN add
                ELSE [add EXCEPT ![k] = Append(@, h)]
      /\ UNCHANGED <<head, output, attached, outputs, cell>>
  BY DEF AddHead, libweston
<1>2. /\ flush.at = "heads" /\ flush \in AtHeads /\ h \in flush.todo
      /\ flush' \in Flushes /\ flush'.at = "heads" /\ flush'.todo = flush.todo \ {h}
      /\ UNCHANGED <<require, initFailed, stage>>
  BY VisitFrame DEF AddHead
<1>3. k \in Group /\ add \in [Group -> Seq(Connector)] /\ add[k] \in Seq(Connector)
      /\ Len(add[k]) \in Nat
  BY GroupsAreFinite DEF IInv, TypeOK
<1> HIDE DEF k
<1>4. /\ Append(add[k], h) \in Seq(Connector) /\ Append(add[k], h) # <<>>
      /\ Len(Append(add[k], h)) = Len(add[k]) + 1
      /\ Elements(Append(add[k], h)) = Elements(add[k]) \cup {h}
  BY <1>3, ElementsAppended
<1>5. /\ \A g \in Group : g # k => add'[g] = add[g]
      /\ add'[k] = add[k] \/ add'[k] = Append(add[k], h)
      /\ Len(add[k]) + 1 < MaxCloneHeads => add'[k] = Append(add[k], h)
  BY <1>1, <1>3, Constants
<1>6. add' \in [Group -> Seq(Connector)]
  BY <1>1, <1>3, <1>4
<1>7. TypeOK'
  BY <1>1, <1>2, <1>3, <1>6 DEF IInv, TypeOK
<1>8. StagedSound'
  <2>1. \A g \in Group : \A c \in Elements(add'[g]) : GroupOf(c) = g
    BY <1>4, <1>5 DEF IInv, StagedSound, k
  <2>2. \A g \in Group : add'[g] # <<>> => g \in layoutputs'
    BY <1>1, <1>5 DEF IInv, StagedSound
  <2> QED BY <1>2, <2>1, <2>2 DEF StagedSound, Working
<1>9. OutputsSound' /\ UndoSound'
  BY <1>1, <1>2 DEF IInv, OutputsSound, UndoSound, Trying
<1>10. BootSound'
  <2> SUFFICES ASSUME stage = "boot"
               PROVE  /\ \A g \in Group : outputs'[g] = {}
                      /\ \A g \in layoutputs' : add'[g] # <<>>
                      /\ \A g \in Group : Len(add'[g]) <= Cardinality(Visited(g)')
                      /\ \A c \in Connector \ flush'.todo :
                           Wanted(c)' => c \in Elements(add'[GroupOf(c)])
    BY <1>2 DEF BootSound, Working
  <2>0. /\ \A g \in Group : outputs[g] = {}
        /\ \A g \in layoutputs : add[g] # <<>>
        /\ \A g \in Group : Len(add[g]) <= Cardinality(Visited(g))
        /\ \A c \in Connector \ flush.todo : Wanted(c) => c \in Elements(add[GroupOf(c)])
    BY <1>2 DEF IInv, BootSound
  <2>1. ASSUME NEW g PROVE IsFiniteSet(Visited(g)) /\ Cardinality(Visited(g)) \in Nat
    <3>1. Visited(g) \subseteq Connector
      BY DEF Visited
    <3> QED BY <3>1, Constants, FS_Subset, FS_CardinalityType
  <2>2. ASSUME NEW g \in Group, g # k PROVE Visited(g)' = Visited(g)
    BY <1>1, <1>2, <2>2 DEF Visited, k
  <2>3. Visited(k)' = Visited(k) \cup {h} /\ h \notin Visited(k)
    BY <1>1, <1>2 DEF Visited, k, AtHeads
  <2>4. Cardinality(Visited(k)') = Cardinality(Visited(k)) + 1
    BY <2>1, <2>3, FS_AddElement
  <2>5. ASSUME NEW g \in Group PROVE Len(add'[g]) <= Cardinality(Visited(g)')
    <3>1. CASE g = k
      BY <1>3, <1>4, <1>5, <2>0, <2>1, <2>4, <3>1
    <3>2. CASE g # k
      BY <1>5, <2>0, <2>2, <3>2
    <3> QED BY <3>1, <3>2
  <2>6. add'[k] # <<>>
    <3>1. CASE Len(add[k]) = 0
      BY <1>4, <1>5, <3>1, Constants
    <3>2. CASE Len(add[k]) # 0
      BY <1>3, <1>4, <1>5, <3>2
    <3> QED BY <3>1, <3>2
  <2>7. ASSUME NEW g \in layoutputs' PROVE add'[g] # <<>>
    <3>1. CASE g = k
      BY <2>6, <3>1
    <3>2. CASE g # k
      BY <1>1, <1>5, <2>0, <3>2 DEF IInv, TypeOK
    <3> QED BY <3>1, <3>2
  <2>8. ASSUME NEW c \in Connector PROVE Wanted(c)' <=> Wanted(c)
    BY <1>1 DEF Wanted, Clones
  <2>9. ASSUME Wanted(h) PROVE h \in Elements(add'[k])
    <3>1. Visited(k) \subseteq Clones(h) \ {h} /\ h \in Clones(h)
      BY <1>1, <2>3 DEF Visited, Clones, k
    <3>2. IsFiniteSet(Clones(h))
      <4>1. Clones(h) \subseteq Connector
        BY DEF Clones
      <4> QED BY <4>1, Constants, FS_Subset
    <3>3. /\ IsFiniteSet(Clones(h) \ {h}) /\ Cardinality(Clones(h)) \in Nat
          /\ Cardinality(Clones(h) \ {h}) = Cardinality(Clones(h)) - 1
      BY <3>1, <3>2, FS_RemoveElement, FS_CardinalityType
    <3>4. Cardinality(Visited(k)) <= Cardinality(Clones(h)) - 1
      BY <3>1, <3>3, FS_Subset
    <3>5. Cardinality(Clones(h)) < MaxCloneHeads
      BY <2>9 DEF Wanted
    <3>6. Len(add[k]) <= Cardinality(Visited(k))
      BY <1>3, <2>0
    <3>7. Len(add[k]) + 1 < MaxCloneHeads
      BY <1>3, <2>1, <3>3, <3>4, <3>5, <3>6, Constants
    <3> QED BY <1>4, <1>5, <3>7
  <2>10. ASSUME NEW c \in Connector \ flush'.todo, Wanted(c)
         PROVE  c \in Elements(add'[GroupOf(c)])
    <3>1. CASE c = h
      BY <2>9, <2>10, <3>1 DEF k
    <3>2. CASE c # h
      <4>1. c \in Elements(add[GroupOf(c)]) /\ GroupOf(c) \in Group
        BY <1>2, <2>0, <2>10, <3>2, GroupsAreFinite
      <4> QED BY <1>4, <1>5, <4>1
    <3> QED BY <3>1, <3>2
  <2> QED BY <1>1, <2>0, <2>5, <2>7, <2>8, <2>10
<1> QED BY <1>2, <1>7, <1>8, <1>9, <1>10 DEF IInv

-------------------------------------------------------------------------------
(***************************************************************************)
(* The groups of a flush.                                                  *)
(***************************************************************************)

LEMMA HeadsVisitedKeeps ==
  ASSUME IInv, HeadsVisited
  PROVE  IInv'
<1> DEFINE staged == {g \in layoutputs : add[g] # <<>>}
<1>1. /\ flush.at = "heads" /\ flush.todo = {}
      /\ flush' = [at |-> "groups", todo |-> staged, failed |-> 0]
      /\ UNCHANGED <<head, output, attached, layoutputs, outputs, cell, add, require,
                     initFailed, stage>>
  BY DEF HeadsVisited, NextGroup, libweston, groups, startup
<1>2. /\ flush'.at = "groups" /\ flush'.todo = staged /\ flush'.failed = 0
      /\ staged \subseteq Group /\ flush' \in AtGroups
  BY <1>1 DEF IInv, TypeOK, AtGroups
<1>3. TypeOK' /\ flush' \in Flushes
  BY <1>1, <1>2 DEF IInv, TypeOK, Flushes
<1>4. StagedSound'
  BY <1>1, <1>2 DEF IInv, StagedSound, Working
<1>5. OutputsSound' /\ UndoSound'
  BY <1>1, <1>2 DEF IInv, OutputsSound, UndoSound, Trying
<1>6. BootSound'
  <2> SUFFICES ASSUME stage = "boot"
               PROVE  /\ \A g \in flush'.todo : outputs[g] = {}
                      /\ flush'.failed = Cardinality(Finished')
                      /\ \A h \in Connector : Wanted(h)' => UnderWay(h)'
    BY <1>1, <1>2 DEF BootSound, Working
  <2>1. /\ \A g \in Group : outputs[g] = {}
        /\ \A g \in layoutputs : add[g] # <<>>
        /\ \A h \in Connector : Wanted(h) => h \in Elements(add[GroupOf(h)])
    BY <1>1 DEF IInv, BootSound
  <2>2. Finished' = {}
    BY <1>1, <1>2, <2>1 DEF Finished, Working
  <2>3. \A h \in Connector : Wanted(h)' <=> Wanted(h)
    BY <1>1 DEF Wanted, Clones
  <2> HIDE DEF staged
  <2>4. \A h \in Connector : UnderWay(h)' <=> h \in Elements(add[GroupOf(h)])
    BY <1>1, <1>2 DEF UnderWay, Trying
  <2> QED BY <1>2, <2>1, <2>2, <2>3, <2>4, FS_EmptySet
<1> QED BY <1>3, <1>4, <1>5, <1>6 DEF IInv

LEMMA ProcessKeeps ==
  ASSUME IInv, NEW g \in Group, Process(g)
  PROVE  IInv'
<1>1. /\ flush.at = "groups" /\ g \in flush.todo
      /\ flush' = [at |-> "existing", group |-> g, walk |-> outputs[g],
                   todo |-> flush.todo \ {g}, failed |-> flush.failed]
      /\ UNCHANGED <<head, output, attached, layoutputs, outputs, cell, add, require,
                     initFailed, stage>>
  BY DEF Process, libweston, groups, startup
<1>2. /\ flush'.at = "existing" /\ flush'.group = g /\ flush'.walk = outputs[g]
      /\ flush'.todo = flush.todo \ {g} /\ flush'.failed = flush.failed
  BY <1>1
<1>3. flush.todo \subseteq Group /\ flush.failed \in Nat /\ outputs[g] \subseteq Output
  BY <1>1, FlushShape DEF IInv, TypeOK, AtGroups
<1>4. flush' \in AtExisting
  BY <1>1, <1>3 DEF AtExisting
<1>5. TypeOK' /\ flush' \in Flushes
  BY <1>1, <1>4 DEF IInv, TypeOK, Flushes
<1>6. /\ add[g] # <<>> /\ g \in layoutputs
      /\ \A k \in Group : k \in flush.todo <=> add[k] # <<>>
  BY <1>1 DEF IInv, StagedSound
<1>7. StagedSound'
  <2>1. \A k \in Group \ {g} : k \in flush'.todo <=> add[k] # <<>>
    BY <1>2, <1>6
  <2> QED BY <1>1, <1>2, <1>6, <2>1 DEF IInv, StagedSound, Working
<1>8. OutputsSound' /\ UndoSound'
  BY <1>1, <1>2 DEF IInv, OutputsSound, UndoSound, Trying
<1>9. BootSound'
  <2>1. Finished' = Finished
    BY <1>1, <1>2 DEF Finished, Working
  <2>2. \A h \in Connector : /\ Wanted(h)' <=> Wanted(h)
                             /\ IsEnabled(h)' <=> IsEnabled(h)
                             /\ UnderWay(h)' <=> UnderWay(h)
    BY <1>1, <1>2 DEF Wanted, Clones, IsEnabled, UnderWay, Trying
  <2>3. SomeEnabled' <=> SomeEnabled
    BY <2>2 DEF SomeEnabled
  <2> QED BY <1>1, <1>2, <1>6, <2>1, <2>2, <2>3 DEF IInv, BootSound, Working, Trying
<1> QED BY <1>5, <1>7, <1>8, <1>9 DEF IInv

\* A group is left with nothing staged, and one more group is finished.
LEMMA GroupLeft ==
  ASSUME IInv, flush.at \in Working, NEW n \in Nat, flush' = NextGroup(flush.todo, n),
         add' = [add EXCEPT ![flush.group] = <<>>], layoutputs' = layoutputs
  PROVE  /\ flush'.at = "groups" /\ flush'.todo = flush.todo /\ flush'.failed = n
         /\ flush' \in Flushes /\ add' \in [Group -> Seq(Connector)]
         /\ StagedSound' /\ UndoSound'
         /\ flush.group \in Group /\ flush.todo \subseteq Group
         /\ Finished' = Finished \cup {flush.group}
         /\ Cardinality(Finished) \in Nat
         /\ Cardinality(Finished') = Cardinality(Finished) + 1
<1>1. flush' = [at |-> "groups", todo |-> flush.todo, failed |-> n]
  BY DEF NextGroup
<1>2. flush'.at = "groups" /\ flush'.todo = flush.todo /\ flush'.failed = n
  BY <1>1
<1>3. flush.group \in Group /\ flush.todo \subseteq Group
  BY FlushShape DEF IInv
<1>4. flush' \in Flushes
  BY <1>1, <1>3 DEF Flushes, AtGroups
<1>5. /\ add' \in [Group -> Seq(Connector)] /\ add'[flush.group] = <<>>
      /\ \A g \in Group : g # flush.group => add'[g] = add[g]
  BY <1>3 DEF IInv, TypeOK
<1>6. /\ flush.group \in layoutputs \ flush.todo
      /\ \A g \in Group \ {flush.group} : g \in flush.todo <=> add[g] # <<>>
  BY DEF IInv, StagedSound
<1>7. StagedSound'
  <2>1. \A s \in Seq(Connector) : s = <<>> => Elements(s) = {}
    BY ElementsAre
  <2>2. \A g \in Group : \A h \in Elements(add'[g]) : GroupOf(h) = g
    BY <1>5, <2>1 DEF IInv, StagedSound
  <2>3. \A g \in Group : add'[g] # <<>> => g \in layoutputs'
    BY <1>5 DEF IInv, StagedSound
  <2>4. \A g \in Group : g \in flush'.todo <=> add'[g] # <<>>
    BY <1>2, <1>5, <1>6
  <2> QED BY <1>2, <2>2, <2>3, <2>4 DEF StagedSound, Working
<1>8. UndoSound'
  BY <1>2 DEF UndoSound, Trying
<1>9. Finished' = Finished \cup {flush.group} /\ flush.group \notin Finished
  BY <1>2, <1>6 DEF Finished, Working
<1>10. IsFiniteSet(Finished)
  <2>1. Finished \subseteq Group
    BY DEF Finished, IInv, TypeOK
  <2> QED BY <2>1, GroupsAreFinite, FS_Subset
<1>11. Cardinality(Finished) \in Nat /\ Cardinality(Finished') = Cardinality(Finished) + 1
  BY <1>9, <1>10, FS_AddElement, FS_CardinalityType
<1> QED BY <1>2, <1>3, <1>4, <1>5, <1>7, <1>8, <1>9, <1>11

LEMMA ReapKeeps ==
  ASSUME IInv, NEW o \in Output, Reap(o)
  PROVE  IInv'
<1> DEFINE k == flush.group
<1>1. /\ flush.at = "existing" /\ o \in flush.walk /\ o \notin cell
      /\ outputs' = [outputs EXCEPT ![k] = @ \ {o}]
      /\ flush' = [flush EXCEPT !.walk = @ \ {o}]
      /\ UNCHANGED <<head, output, attached, layoutputs, cell, add, require, initFailed, stage>>
  BY DEF Reap, libweston, startup
<1>2. flush \in AtExisting
  BY <1>1, FlushShape DEF IInv
<1>3. /\ flush' \in AtExisting /\ flush'.at = "existing" /\ flush'.group = k
      /\ flush'.walk = flush.walk \ {o} /\ flush'.todo = flush.todo
  BY <1>1, <1>2 DEF AtExisting
<1>4. /\ k \in Group /\ outputs'[k] = outputs[k] \ {o}
      /\ \A g \in Group : g # k => outputs'[g] = outputs[g]
  BY <1>1, <1>2 DEF AtExisting, IInv, TypeOK
<1>5. stage # "boot"
  BY <1>1 DEF IInv, BootSound, OutputsSound
<1>6. TypeOK' /\ flush' \in Flushes
  <2>1. outputs' \in [Group -> SUBSET Output]
    BY <1>1, <1>4 DEF IInv, TypeOK
  <2> QED BY <1>1, <1>3, <2>1 DEF IInv, TypeOK, Flushes
<1>7. StagedSound' /\ UndoSound' /\ BootSound'
  BY <1>1, <1>3, <1>5 DEF IInv, StagedSound, UndoSound, BootSound, Working, Trying
<1>8. OutputsSound'
  <2> HIDE DEF k
  <2>1. \A g \in Group : outputs'[g] \subseteq outputs[g]
    BY <1>4
  <2>2. \A g \in Group : \A x \in outputs[g] : x # o => x \in outputs'[g]
    BY <1>4
  <2>3. /\ flush'.walk \subseteq outputs'[k]
        /\ outputs'[k] \subseteq flush'.walk \cup cell
    BY <1>1, <1>3, <1>4 DEF IInv, OutputsSound, k
  <2>4. \A h \in Connector : attached[h] # None => attached[h] \in outputs'[GroupOf(h)] \cap cell
    BY <1>1, <2>2, GroupsAreFinite DEF IInv, OutputsSound
  <2>5. \A x \in Output : output[x] # "none" => x \in cell /\ \E g \in Group : x \in outputs'[g]
    BY <1>1, <2>2 DEF IInv, OutputsSound
  <2>6. \A g \in Group : \A a, b \in outputs'[g] : a = b
    BY <2>1 DEF IInv, OutputsSound
  <2>7. \A g \in Group : \A x \in outputs'[g] \cap cell : output[x] = "enabled"
    BY <1>1, <2>1 DEF IInv, OutputsSound, Trying
  <2> QED BY <1>1, <1>3, <2>3, <2>4, <2>5, <2>6, <2>7 DEF OutputsSound, Trying
<1> QED BY <1>6, <1>7, <1>8 DEF IInv

LEMMA AttachExistingKeeps ==
  ASSUME IInv, NEW o \in Output, AttachExisting(o)
  PROVE  IInv'
<1> DEFINE k == flush.group
           s == add[k]
<1>1. PICK r \in Refusals(s) : \E p \in Places(s, r) :
        /\ attached' = AttachedTo(o, s, r)
        /\ add' = [add EXCEPT ![k] = Refused(s, p)]
        /\ IF r = {} THEN GroupDone ELSE flush' = [flush EXCEPT !.walk = @ \ {o}]
  BY DEF AttachExisting
<1>2. PICK p \in Places(s, r) :
        /\ attached' = AttachedTo(o, s, r)
        /\ add' = [add EXCEPT ![k] = Refused(s, p)]
        /\ IF r = {} THEN GroupDone ELSE flush' = [flush EXCEPT !.walk = @ \ {o}]
  BY <1>1
<1>3. /\ flush.at = "existing" /\ o \in flush.walk /\ o \in cell
      /\ UNCHANGED <<head, output, layoutputs, outputs, cell, require, initFailed, stage>>
  BY DEF AttachExisting, startup
<1>4. flush \in AtExisting /\ k \in Group /\ flush.failed \in Nat
  BY <1>3, FlushShape DEF IInv, AtExisting
<1>5. s \in Seq(Connector) /\ s # <<>> /\ \A h \in Elements(s) : GroupOf(h) = k
  BY <1>3, <1>4 DEF IInv, TypeOK, StagedSound
<1> DEFINE t == Refused(s, p)
<1>6. /\ Attachable(s) \subseteq Elements(s) /\ Elements(s) \subseteq Connector
      /\ t \in Seq(Connector) /\ Elements(t) = r /\ (r = {} => t = <<>>)
  <2> HIDE DEF s
  <2> QED BY <1>2, <1>5, SplitStaged, ElementsAre
<1>7. r \subseteq Attachable(s)
  BY DEF Refusals
<1>8. stage # "boot" /\ o \in outputs[k]
  BY <1>3 DEF IInv, BootSound, OutputsSound
<1> HIDE DEF s, t, k
<1>9. /\ attached' \in [Connector -> Output \cup {None}]
      /\ \A h \in Connector : attached'[h] = attached[h] \/ (attached'[h] = o /\ GroupOf(h) = k)
  BY <1>2, <1>5, <1>6 DEF AttachedTo, IInv, TypeOK
<1>10. \A h \in Connector : attached'[h] # None => attached'[h] \in outputs[GroupOf(h)] \cap cell
  BY <1>3, <1>8, <1>9 DEF IInv, OutputsSound
<1>11. /\ add' \in [Group -> Seq(Connector)] /\ add'[k] = t
       /\ \A g \in Group : g # k => add'[g] = add[g]
  BY <1>2, <1>4, <1>6 DEF IInv, TypeOK, t
<1>12. TypeOK'
  BY <1>3, <1>9, <1>11 DEF IInv, TypeOK
<1>13. BootSound'
  BY <1>3, <1>8 DEF BootSound
<1>14. CASE r = {}
  <2>1. /\ flush' = NextGroup(flush.todo, flush.failed)
        /\ add' = [add EXCEPT ![flush.group] = <<>>]
    BY <1>2, <1>6, <1>14 DEF GroupDone, t, k
  <2>2. flush.at \in Working
    BY <1>3 DEF Working
  <2>3. flush'.at = "groups" /\ flush' \in Flushes /\ StagedSound' /\ UndoSound'
    BY <1>3, <1>4, <2>1, <2>2, GroupLeft
  <2>4. OutputsSound'
    BY <1>3, <1>10, <2>3 DEF IInv, OutputsSound, Trying
  <2> QED BY <1>12, <1>13, <2>3, <2>4 DEF IInv
<1>15. CASE r # {}
  <2>1. flush' = [flush EXCEPT !.walk = @ \ {o}]
    BY <1>2, <1>15
  <2>2. /\ flush' \in AtExisting /\ flush'.at = "existing" /\ flush'.group = k
        /\ flush'.walk = flush.walk \ {o} /\ flush'.todo = flush.todo
    BY <1>4, <2>1 DEF AtExisting, k
  <2>3. t # <<>>
    BY <1>6, <1>15, ElementsAre
  <2>4. StagedSound'
    <3>1. k \in layoutputs \ flush.todo /\ \A g \in Group \ {k} : g \in flush.todo <=> add[g] # <<>>
      BY <1>3 DEF IInv, StagedSound, Working, k
    <3>2. \A g \in Group : \A h \in Elements(add'[g]) : GroupOf(h) = g
      BY <1>5, <1>6, <1>7, <1>11 DEF IInv, StagedSound
    <3>3. \A g \in Group : add'[g] # <<>> => g \in layoutputs
      BY <1>11, <3>1 DEF IInv, StagedSound
    <3> QED BY <1>3, <1>11, <2>2, <2>3, <3>1, <3>2, <3>3 DEF StagedSound, Working
  <2>5. OutputsSound'
    BY <1>3, <1>10, <2>2 DEF IInv, OutputsSound, Trying, k
  <2>6. UndoSound' /\ flush' \in Flushes
    BY <2>2 DEF UndoSound, Trying, Flushes
  <2> QED BY <1>12, <1>13, <2>4, <2>5, <2>6 DEF IInv
<1> QED BY <1>14, <1>15

LEMMA ExistingTriedKeeps ==
  ASSUME IInv, ExistingTried
  PROVE  IInv'
<1>1. /\ flush.at = "existing" /\ flush.walk = {}
      /\ flush' = [at |-> "create", group |-> flush.group,
                   todo |-> flush.todo, failed |-> flush.failed]
      /\ UNCHANGED <<head, output, attached, layoutputs, outputs, cell, add, require,
                     initFailed, stage>>
  BY DEF ExistingTried, libweston, groups, startup
<1>2. flush \in AtExisting
  BY <1>1, FlushShape DEF IInv
<1>3. /\ flush' \in AtCreate /\ flush'.at = "create" /\ flush'.group = flush.group
      /\ flush'.todo = flush.todo /\ flush'.failed = flush.failed
  BY <1>1, <1>2 DEF AtExisting, AtCreate
<1>4. TypeOK' /\ flush' \in Flushes
  BY <1>1, <1>3 DEF IInv, TypeOK, Flushes
<1>5. StagedSound' /\ OutputsSound' /\ UndoSound'
  BY <1>1, <1>3 DEF IInv, StagedSound, OutputsSound, UndoSound, Working, Trying
<1>6. BootSound'
  <2>1. Finished' = Finished
    BY <1>1, <1>3 DEF Finished, Working
  <2>2. \A h \in Connector : /\ Wanted(h)' <=> Wanted(h)
                             /\ IsEnabled(h)' <=> IsEnabled(h)
                             /\ UnderWay(h)' <=> UnderWay(h)
    BY <1>1, <1>3 DEF Wanted, Clones, IsEnabled, UnderWay, Trying
  <2>3. SomeEnabled' <=> SomeEnabled
    BY <2>2 DEF SomeEnabled
  <2> QED BY <1>1, <1>3, <2>1, <2>2, <2>3 DEF IInv, StagedSound, BootSound, Working, Trying
<1> QED BY <1>4, <1>5, <1>6 DEF IInv

LEMMA AllAttachedKeeps ==
  ASSUME IInv, AllAttached
  PROVE  IInv'
<1>1. /\ flush.at = "create" /\ add[flush.group] = <<>>
      /\ flush' = NextGroup(flush.todo, flush.failed)
      /\ UNCHANGED <<head, output, attached, layoutputs, outputs, cell, add, require,
                     initFailed, stage>>
  BY DEF AllAttached, GroupDone, libweston, groups, startup
<1>2. flush.at \in Working /\ flush.failed \in Nat
  BY <1>1, FlushShape DEF IInv, Working
<1>3. add' = [add EXCEPT ![flush.group] = <<>>]
  BY <1>1 DEF IInv, TypeOK
<1>4. /\ flush'.at = "groups" /\ flush'.todo = flush.todo /\ flush'.failed = flush.failed
      /\ flush' \in Flushes /\ StagedSound' /\ UndoSound' /\ flush.group \in Group
  BY <1>1, <1>2, <1>3, GroupLeft
<1>5. TypeOK'
  BY <1>1 DEF IInv, TypeOK
<1>6. OutputsSound'
  BY <1>1, <1>4 DEF IInv, OutputsSound, Trying
<1>7. BootSound'
  <2> SUFFICES ASSUME stage = "boot"
               PROVE  /\ \A g \in flush.todo : outputs[g] = {}
                      /\ SomeEnabled'
                      /\ flush.failed = 0 =>
                           \A h \in Connector : Wanted(h)' => IsEnabled(h)' \/ UnderWay(h)'
    BY <1>1, <1>4 DEF BootSound, Working
  <2>1. /\ \A g \in flush.todo : outputs[g] = {}
        /\ flush.failed = 0 => \A h \in Connector : Wanted(h) => IsEnabled(h) \/ UnderWay(h)
        /\ SomeEnabled
    BY <1>1, <1>2 DEF IInv, BootSound
  <2>2. \A h \in Connector : /\ Wanted(h)' <=> Wanted(h)
                             /\ IsEnabled(h)' <=> IsEnabled(h)
                             /\ UnderWay(h)' <=> UnderWay(h)
    BY <1>1, <1>4 DEF Wanted, Clones, IsEnabled, UnderWay, Trying
  <2>3. SomeEnabled'
    BY <2>1, <2>2 DEF SomeEnabled
  <2> QED BY <2>1, <2>2, <2>3
<1> QED BY <1>4, <1>5, <1>6, <1>7 DEF IInv

\* A failed group leaves what the startup relies on.
LEMMA FailedAtBoot ==
  ASSUME IInv, flush.at \in Working, GroupFails, SomeEnabled => SomeEnabled',
         \A g \in Group : outputs'[g] \subseteq outputs[g], UNCHANGED <<layoutputs, stage>>
  PROVE  BootSound'
<1>1. flush.failed \in Nat
  BY FlushShape DEF IInv
<1>2. /\ flush'.at = "groups" /\ flush'.todo = flush.todo /\ flush'.failed = flush.failed + 1
      /\ flush.todo \subseteq Group
      /\ Cardinality(Finished) \in Nat /\ Cardinality(Finished') = Cardinality(Finished) + 1
  BY <1>1, GroupLeft DEF GroupFails
<1>3. flush'.failed # 0
  BY <1>1, <1>2
<1> SUFFICES ASSUME stage = "boot"
             PROVE  /\ \A g \in flush.todo : outputs'[g] = {}
                    /\ SomeEnabled' \/ flush'.failed = Cardinality(Finished')
  BY <1>2, <1>3 DEF BootSound, Working
<1>4. /\ \A g \in flush.todo : outputs[g] = {}
      /\ SomeEnabled \/ flush.failed = Cardinality(Finished)
  BY DEF IInv, BootSound
<1> QED BY <1>2, <1>4

LEMMA CreateFailsKeeps ==
  ASSUME IInv, CreateFails
  PROVE  IInv'
<1>1. /\ flush.at = "create" /\ GroupFails
      /\ UNCHANGED <<head, output, attached, layoutputs, outputs, cell, require, initFailed,
                     stage>>
  BY DEF CreateFails, libweston, startup
<1>2. flush.at \in Working /\ flush.failed + 1 \in Nat
  BY <1>1, FlushShape DEF IInv, Working
<1>3. /\ flush'.at = "groups" /\ flush' \in Flushes /\ StagedSound' /\ UndoSound'
      /\ add' \in [Group -> Seq(Connector)] /\ flush.group \in Group
  BY <1>1, <1>2, GroupLeft DEF GroupFails
<1>4. TypeOK'
  BY <1>1, <1>3 DEF IInv, TypeOK
<1>5. OutputsSound'
  BY <1>1, <1>3 DEF IInv, OutputsSound, Trying
<1>6. BootSound'
  <2>1. SomeEnabled' <=> SomeEnabled
    BY <1>1 DEF SomeEnabled, IsEnabled
  <2> QED BY <1>1, <1>2, <2>1, FailedAtBoot
<1> QED BY <1>3, <1>4, <1>5, <1>6 DEF IInv

LEMMA ConfiguredKeeps ==
  ASSUME IInv, Configured
  PROVE  IInv'
<1>1. /\ flush.at = "configure" /\ flush' = [flush EXCEPT !.at = "enable"]
      /\ UNCHANGED <<head, output, attached, layoutputs, outputs, cell, add, require,
                     initFailed, stage>>
  BY DEF Configured, libweston, groups, startup
<1>2. flush \in AtTrying
  BY <1>1, FlushShape DEF IInv, Trying
<1>3. /\ flush' \in AtTrying /\ flush'.at = "enable" /\ flush'.group = flush.group
      /\ flush'.todo = flush.todo /\ flush'.failed = flush.failed
      /\ flush'.output = flush.output /\ flush'.undo = flush.undo /\ flush'.lost = flush.lost
  BY <1>1, <1>2 DEF AtTrying, Trying
<1>4. TypeOK' /\ flush' \in Flushes
  BY <1>1, <1>3 DEF IInv, TypeOK, Flushes
<1>5. StagedSound' /\ OutputsSound' /\ UndoSound'
  BY <1>1, <1>3 DEF IInv, StagedSound, OutputsSound, UndoSound, Working, Trying
<1>6. BootSound'
  <2>1. Finished' = Finished
    BY <1>1, <1>3 DEF Finished, Working
  <2>2. \A h \in Connector : /\ Wanted(h)' <=> Wanted(h)
                             /\ IsEnabled(h)' <=> IsEnabled(h)
                             /\ UnderWay(h)' <=> UnderWay(h)
    BY <1>1, <1>3 DEF Wanted, Clones, IsEnabled, UnderWay, Trying
  <2>3. SomeEnabled' <=> SomeEnabled
    BY <2>2 DEF SomeEnabled
  <2> QED BY <1>1, <1>3, <2>1, <2>2, <2>3 DEF IInv, BootSound, Working, Trying
<1> QED BY <1>4, <1>5, <1>6 DEF IInv

LEMMA AbandonIsSound ==
  ASSUME IInv, flush.at \in Trying, Abandon,
         UNCHANGED <<head, layoutputs, require, initFailed, stage>>
  PROVE  IInv'
<1> DEFINE k == flush.group
           o == flush.output
<1>1. flush \in AtTrying /\ flush.at \in Working
  BY FlushShape DEF IInv, Trying, Working
<1>2. k \in Group /\ o \in Output /\ flush.failed + 1 \in Nat /\ output[o] = "pending"
  BY <1>1 DEF AtTrying, IInv, OutputsSound
<1>3. Destroyed(o) /\ outputs' = [outputs EXCEPT ![k] = @ \ {o}] /\ GroupFails
  BY DEF Abandon
<1>4. /\ flush'.at = "groups" /\ flush' \in Flushes /\ StagedSound' /\ UndoSound'
      /\ add' \in [Group -> Seq(Connector)]
  BY <1>1, <1>2, <1>3, GroupLeft DEF GroupFails
<1>5. /\ outputs' \in [Group -> SUBSET Output]
      /\ \A g \in Group : /\ outputs'[g] \subseteq outputs[g]
                          /\ \A x \in outputs[g] : x # o => x \in outputs'[g]
  BY <1>2, <1>3 DEF IInv, TypeOK
<1>6. /\ output' \in [Output -> {"none", "pending", "enabled"}]
      /\ attached' \in [Connector -> Output \cup {None}]
      /\ cell' = cell \ {o} /\ output'[o] = "none"
      /\ \A x \in Output : x # o => output'[x] = output[x]
      /\ \A h \in Connector : attached'[h] = IF attached[h] = o THEN None ELSE attached[h]
  BY <1>2, <1>3, DestroyedTyped DEF IInv, TypeOK, Destroyed
<1>8. TypeOK'
  BY <1>4, <1>5, <1>6 DEF IInv, TypeOK
<1> HIDE DEF o, k
<1>9. OutputsSound'
  <2>1. \A g \in Group : \A a, b \in outputs'[g] : a = b
    BY <1>5 DEF IInv, OutputsSound
  <2>2. \A g \in Group : \A x \in outputs'[g] \cap cell' : output'[x] = "enabled"
    BY <1>5, <1>6 DEF IInv, TypeOK, OutputsSound, o
  <2>3. \A h \in Connector : attached'[h] # None => attached'[h] \in outputs'[GroupOf(h)] \cap cell'
    BY <1>5, <1>6, GroupsAreFinite DEF IInv, OutputsSound
  <2>4. \A x \in Output : output'[x] # "none" => x \in cell' /\ \E g \in Group : x \in outputs'[g]
    BY <1>5, <1>6 DEF IInv, OutputsSound
  <2> QED BY <1>4, <2>1, <2>2, <2>3, <2>4 DEF OutputsSound, Trying
<1>10. SomeEnabled => SomeEnabled'
  <2> SUFFICES ASSUME NEW h \in Connector, IsEnabled(h) PROVE IsEnabled(h)'
    BY DEF SomeEnabled
  <2>1. attached[h] \in Output /\ attached[h] # o /\ attached[h] # None
    BY <1>2 DEF IInv, TypeOK, IsEnabled, o
  <2>2. attached'[h] = attached[h] /\ output'[attached[h]] = output[attached[h]]
    BY <1>6, <2>1
  <2> QED BY <2>1, <2>2 DEF IsEnabled
<1>11. BootSound'
  BY <1>1, <1>3, <1>5, <1>10, FailedAtBoot
<1> QED BY <1>4, <1>8, <1>9, <1>11 DEF IInv

LEMMA ConfigureFailsKeeps ==
  ASSUME IInv, ConfigureFails \/ NothingLeft
  PROVE  IInv'
BY AbandonIsSound DEF ConfigureFails, NothingLeft, Trying, startup

LEMMA CreateKeeps ==
  ASSUME IInv, NEW o \in Output, Create(o)
  PROVE  IInv'
<1> DEFINE k == flush.group
           s == add[k]
<1>1. /\ flush.at = "create" /\ s # <<>> /\ outputs[k] = {}
      /\ attached[s[1]] = None /\ Freed(o)
      /\ output' = [output EXCEPT ![o] = "pending"]
      /\ outputs' = [outputs EXCEPT ![k] = {o}]
      /\ cell' = cell \cup {o}
      /\ UNCHANGED <<head, layoutputs, add, require, initFailed, stage>>
  BY DEF Create, startup
<1>2. PICK r \in Refusals(s) : \E p \in Places(s, r) :
        /\ attached' = [AttachedTo(o, s, r) EXCEPT ![s[1]] = o]
        /\ flush' = [at |-> "configure", group |-> k, output |-> o,
                     undo |-> Kept(s, r), lost |-> Refused(s, p),
                     todo |-> flush.todo, failed |-> flush.failed]
  BY DEF Create
<1>3. PICK p \in Places(s, r) :
        /\ attached' = [AttachedTo(o, s, r) EXCEPT ![s[1]] = o]
        /\ flush' = [at |-> "configure", group |-> k, output |-> o,
                     undo |-> Kept(s, r), lost |-> Refused(s, p),
                     todo |-> flush.todo, failed |-> flush.failed]
  BY <1>2
<1>4. flush \in AtCreate /\ k \in Group /\ flush.todo \subseteq Group /\ flush.failed \in Nat
  BY <1>1, FlushShape DEF IInv, AtCreate
<1>5. s \in Seq(Connector) /\ \A h \in Elements(s) : GroupOf(h) = k
  BY <1>4 DEF IInv, TypeOK, StagedSound
<1> DEFINE u == Kept(s, r)
           t == Refused(s, p)
<1>6. /\ s[1] \in Connector /\ Elements(s) = {s[1]} \cup Attachable(s)
      /\ t \in Seq(Connector) /\ Elements(t) = r
      /\ u \in Seq(Connector \cup {None})
      /\ Elements(u) \subseteq {s[1]} \cup (Attachable(s) \ r)
      /\ Elements(s) \subseteq Connector
  <2> HIDE DEF s
  <2> QED BY <1>1, <1>3, <1>5, SplitStaged, ElementsAre
<1>7. r \subseteq Attachable(s) /\ \A h \in Attachable(s) : attached[h] # None => h \in r
  BY DEF Refusals
<1> HIDE DEF s, t, u, k
<1>8. /\ flush' \in AtTrying /\ flush'.at = "configure" /\ flush'.group = k
      /\ flush'.output = o /\ flush'.undo = u /\ flush'.lost = t
      /\ flush'.todo = flush.todo /\ flush'.failed = flush.failed
  BY <1>3, <1>4, <1>6 DEF AtTrying, Trying, t, u
<1>9. /\ attached' \in [Connector -> Output \cup {None}]
      /\ \A h \in Connector : attached'[h] = IF h = s[1] \/ h \in Attachable(s) \ r THEN o
                                             ELSE attached[h]
  BY <1>3, <1>6 DEF AttachedTo, IInv, TypeOK
<1>10. /\ output'[o] = "pending" /\ output[o] = "none"
       /\ \A x \in Output : x # o => output'[x] = output[x]
       /\ output' \in [Output -> {"none", "pending", "enabled"}]
  BY <1>1 DEF Freed, IInv, TypeOK
<1>11. /\ outputs' \in [Group -> SUBSET Output] /\ outputs'[k] = {o}
       /\ \A g \in Group : o \notin outputs[g] /\ (g # k => outputs'[g] = outputs[g])
  BY <1>1, <1>4 DEF Freed, IInv, TypeOK
<1>12. TypeOK' /\ flush' \in Flushes
  BY <1>1, <1>8, <1>9, <1>10, <1>11 DEF IInv, TypeOK, Flushes
<1>13. StagedSound'
  BY <1>1, <1>8 DEF IInv, StagedSound, Working, k
<1>14. OutputsSound'
  <2>1. \A g \in Group : \A a, b \in outputs'[g] : a = b
    BY <1>11 DEF IInv, OutputsSound
  <2>2. \A g \in Group : \A x \in outputs'[g] \cap cell' : output'[x] = "enabled" \/ x = o
    BY <1>1, <1>10, <1>11 DEF IInv, TypeOK, OutputsSound, Trying
  <2>3. \A h \in Connector : attached'[h] # None => attached'[h] \in outputs'[GroupOf(h)] \cap cell'
    <3> SUFFICES ASSUME NEW h \in Connector, attached'[h] # None
                 PROVE  attached'[h] \in outputs'[GroupOf(h)] \cap cell'
      OBVIOUS
    <3>1. CASE attached'[h] = attached[h]
      BY <1>1, <1>11, <3>1, GroupsAreFinite DEF IInv, OutputsSound
    <3>2. CASE attached'[h] = o /\ h \in Elements(s)
      BY <1>1, <1>5, <1>11, <3>2
    <3> QED BY <1>6, <1>9, <3>1, <3>2
  <2>4. \A x \in Output : output'[x] # "none" => x \in cell' /\ \E g \in Group : x \in outputs'[g]
    <3> SUFFICES ASSUME NEW x \in Output, output'[x] # "none"
                 PROVE  x \in cell' /\ \E g \in Group : x \in outputs'[g]
      OBVIOUS
    <3>1. CASE x = o
      BY <1>1, <1>4, <1>11, <3>1
    <3>2. CASE x # o
      BY <1>1, <1>10, <1>11, <3>2 DEF IInv, OutputsSound
    <3> QED BY <3>1, <3>2
  <2>5. outputs'[k] \subseteq cell'
    BY <1>1, <1>11
  <2> QED BY <1>8, <1>10, <2>1, <2>2, <2>3, <2>4, <2>5 DEF OutputsSound, Trying
<1>15. UndoSound'
  <2>1. \A h \in Elements(u) \cup Elements(t) : GroupOf(h) = k
    BY <1>5, <1>6, <1>7
  <2>2. \A h \in Elements(u) : attached'[h] = o
    BY <1>6, <1>9
  <2>3. \A h \in Elements(s) : h \in Elements(t) \/ attached'[h] # None
    BY <1>6, <1>9, Constants
  <2> QED BY <1>1, <1>8, <2>1, <2>2, <2>3 DEF UndoSound, s
<1>16. BootSound'
  <2>1. Finished' = Finished
    BY <1>1, <1>8 DEF Finished, Working, k
  <2>2. ASSUME NEW h \in Connector, IsEnabled(h) PROVE IsEnabled(h)'
    <3>1. attached[h] \in Output /\ attached[h] # o /\ attached[h] # None
      BY <1>10, <2>2 DEF IInv, TypeOK, IsEnabled
    <3>2. h # s[1] /\ h \notin Attachable(s) \ r
      BY <1>1, <1>7, <3>1 DEF s
    <3>3. attached'[h] = attached[h] /\ output'[attached[h]] = output[attached[h]]
      BY <1>9, <1>10, <3>1, <3>2
    <3> QED BY <2>2, <3>3 DEF IsEnabled
  <2>3. SomeEnabled => SomeEnabled'
    BY <2>2 DEF SomeEnabled
  <2>4. \A h \in Connector : Wanted(h)' <=> Wanted(h)
    BY <1>1 DEF Wanted, Clones
  <2>5. ASSUME NEW h \in Connector, UnderWay(h) PROVE UnderWay(h)'
    <3>1. h \in Elements(add[GroupOf(h)])
      BY <1>1, <2>5 DEF UnderWay, Trying
    <3>2. CASE GroupOf(h) = k
      <4>1. h \in Elements(s)
        BY <3>1, <3>2 DEF s
      <4> QED BY <1>6, <1>8, <1>9, <3>2, <4>1 DEF UnderWay, Trying
    <3>3. CASE GroupOf(h) # k
      BY <1>1, <1>8, <3>1, <3>3 DEF UnderWay
    <3> QED BY <3>2, <3>3
  <2>6. k \notin flush.todo
    BY <1>1 DEF IInv, StagedSound, Working, k
  <2> SUFFICES ASSUME stage = "boot"
               PROVE  /\ \A g \in flush.todo : outputs'[g] = {}
                      /\ SomeEnabled' \/ flush.failed = Cardinality(Finished')
                      /\ flush.failed = 0 =>
                           \A h \in Connector : Wanted(h)' => IsEnabled(h)' \/ UnderWay(h)'
    BY <1>1, <1>8 DEF BootSound, Working
  <2>7. /\ \A g \in flush.todo : outputs[g] = {}
        /\ SomeEnabled \/ flush.failed = Cardinality(Finished)
        /\ flush.failed = 0 => \A h \in Connector : Wanted(h) => IsEnabled(h) \/ UnderWay(h)
    BY <1>1 DEF IInv, BootSound, Working
  <2>8. \A g \in flush.todo : outputs'[g] = {}
    BY <1>4, <1>11, <2>6, <2>7
  <2> QED BY <2>1, <2>2, <2>3, <2>4, <2>5, <2>7, <2>8
<1> QED BY <1>12, <1>13, <1>14, <1>15, <1>16 DEF IInv

LEMMA EnabledKeeps ==
  ASSUME IInv, Enabled
  PROVE  IInv'
<1> DEFINE k == flush.group
           o == flush.output
<1>1. /\ flush.at = "enable" /\ HeadsOf(o) # {}
      /\ output' = [output EXCEPT ![o] = "enabled"]
      /\ add' = [add EXCEPT ![k] = flush.lost]
      /\ flush' = [at |-> "create", group |-> k, todo |-> flush.todo, failed |-> flush.failed]
      /\ UNCHANGED <<head, attached, layoutputs, outputs, cell, require, initFailed, stage>>
  BY DEF Enabled, startup
<1>2. flush \in AtTrying
  BY <1>1, FlushShape DEF IInv, Trying
<1>3. /\ k \in Group /\ o \in Output /\ flush.lost \in Seq(Connector)
      /\ flush' \in AtCreate /\ flush'.at = "create" /\ flush'.group = k
      /\ flush'.todo = flush.todo /\ flush'.failed = flush.failed
  BY <1>1, <1>2 DEF AtTrying, AtCreate
<1>4. /\ add' \in [Group -> Seq(Connector)] /\ add'[k] = flush.lost
      /\ \A g \in Group : g # k => add'[g] = add[g]
  BY <1>1, <1>3 DEF IInv, TypeOK
<1>5. /\ output' \in [Output -> {"none", "pending", "enabled"}] /\ output'[o] = "enabled"
      /\ \A x \in Output : x # o => output'[x] = output[x]
  BY <1>1, <1>3 DEF IInv, TypeOK
<1> HIDE DEF o, k
<1>6. TypeOK' /\ flush' \in Flushes
  BY <1>1, <1>3, <1>4, <1>5 DEF IInv, TypeOK, Flushes
<1>7. /\ k \in layoutputs \ flush.todo
      /\ \A g \in Group \ {k} : g \in flush.todo <=> add[g] # <<>>
      /\ \A h \in Elements(flush.lost) : GroupOf(h) = k
  BY <1>1 DEF IInv, StagedSound, UndoSound, Working, Trying, k
<1>8. StagedSound'
  <2>1. \A g \in Group : \A h \in Elements(add'[g]) : GroupOf(h) = g
    BY <1>4, <1>7 DEF IInv, StagedSound
  <2>2. \A g \in Group : add'[g] # <<>> => g \in layoutputs
    BY <1>4, <1>7 DEF IInv, StagedSound
  <2>3. \A g \in Group \ {k} : g \in flush'.todo <=> add'[g] # <<>>
    BY <1>3, <1>4, <1>7
  <2> QED BY <1>1, <1>3, <1>7, <2>1, <2>2, <2>3 DEF StagedSound, Working
<1>9. OutputsSound'
  <2>1. \A g \in Group : \A x \in outputs[g] \cap cell : output'[x] = "enabled"
    BY <1>5 DEF IInv, TypeOK, OutputsSound, o
  <2>2. outputs[k] \subseteq cell
    BY <1>1 DEF IInv, OutputsSound, k
  <2>3. \A x \in Output : output'[x] # "none" => output[x] # "none"
    BY <1>1, <1>5 DEF IInv, OutputsSound, Trying, o
  <2> QED BY <1>1, <1>3, <2>1, <2>2, <2>3 DEF IInv, OutputsSound, Trying
<1>10. UndoSound'
  BY <1>3 DEF UndoSound, Trying
<1>11. BootSound'
  <2>1. Finished' = Finished
    BY <1>1, <1>3 DEF Finished, Working, k
  <2>2. ASSUME NEW h \in Connector, IsEnabled(h) \/ attached[h] = o PROVE IsEnabled(h)'
    <3>1. attached[h] \in Output /\ attached[h] # None
      BY <1>3, <2>2, Constants DEF IInv, TypeOK, IsEnabled
    <3>2. output'[attached[h]] = "enabled"
      BY <1>5, <2>2, <3>1 DEF IsEnabled
    <3> QED BY <1>1, <3>1, <3>2 DEF IsEnabled
  <2>3. SomeEnabled'
    BY <1>1, <2>2 DEF SomeEnabled, HeadsOf
  <2>4. \A h \in Connector : Wanted(h)' <=> Wanted(h)
    BY <1>1 DEF Wanted, Clones
  <2>5. ASSUME NEW h \in Connector, UnderWay(h) PROVE IsEnabled(h)' \/ UnderWay(h)'
    <3>1. CASE GroupOf(h) = k
      <4>1. h \in Elements(flush.lost) \/ attached[h] = o
        BY <1>1, <2>5, <3>1 DEF UnderWay, Trying, k, o
      <4>2. CASE h \in Elements(flush.lost)
        BY <1>3, <1>4, <3>1, <4>2 DEF UnderWay, Trying
      <4> QED BY <2>2, <4>1, <4>2
    <3>2. CASE GroupOf(h) # k
      BY <1>3, <1>4, <2>5, <3>2, GroupsAreFinite DEF UnderWay, Trying, k
    <3> QED BY <3>1, <3>2
  <2> SUFFICES ASSUME stage = "boot"
               PROVE  /\ \A g \in flush.todo : outputs[g] = {}
                      /\ flush.failed = 0 =>
                           \A h \in Connector : Wanted(h)' => IsEnabled(h)' \/ UnderWay(h)'
    BY <1>1, <1>3, <2>3 DEF BootSound, Working
  <2>6. /\ \A g \in flush.todo : outputs[g] = {}
        /\ flush.failed = 0 => \A h \in Connector : Wanted(h) => IsEnabled(h) \/ UnderWay(h)
    BY <1>1 DEF IInv, BootSound, Working
  <2> QED BY <2>2, <2>4, <2>5, <2>6
<1> QED BY <1>6, <1>8, <1>9, <1>10, <1>11 DEF IInv

LEMMA UndoKeeps ==
  ASSUME IInv, Undo
  PROVE  IInv'
<1> DEFINE k == flush.group
           o == flush.output
           l == flush.undo[Last]
           u == SubSeq(flush.undo, 1, Last - 1)
           t == Append(flush.lost, l)
<1>1. /\ flush.at = "enable" /\ Left # {}
      /\ attached' = [attached EXCEPT ![l] = None]
      /\ flush' = [flush EXCEPT !.undo = u, !.lost = t]
      /\ UNCHANGED <<head, output, layoutputs, outputs, cell, add, require, initFailed, stage>>
  BY DEF Undo, groups, startup
<1>2. flush \in AtTrying
  BY <1>1, FlushShape DEF IInv, Trying
<1>3. /\ l \in Connector /\ l \in Elements(flush.undo)
      /\ u \in Seq(Connector \cup {None}) /\ Elements(u) \subseteq Elements(flush.undo)
  BY <1>1, <1>2, LastIsLeft
<1>4. k \in Group /\ o \in Output /\ flush.lost \in Seq(Connector)
  BY <1>2 DEF AtTrying
<1> HIDE DEF l, u
<1>5. t \in Seq(Connector) /\ Elements(t) = Elements(flush.lost) \cup {l}
  BY <1>3, <1>4, ElementsAppended
<1> HIDE DEF t, k, o
<1>6. /\ flush' \in AtTrying /\ flush'.at = "enable" /\ flush'.group = k
      /\ flush'.output = o /\ flush'.undo = u /\ flush'.lost = t
      /\ flush'.todo = flush.todo /\ flush'.failed = flush.failed
  BY <1>1, <1>2, <1>3, <1>5 DEF AtTrying, k, o
<1>7. /\ attached' \in [Connector -> Output \cup {None}] /\ attached'[l] = None
      /\ \A h \in Connector : h # l => attached'[h] = attached[h]
  BY <1>1, <1>3 DEF IInv, TypeOK
<1>8. /\ \A h \in Elements(flush.undo) \cup Elements(flush.lost) : GroupOf(h) = k
      /\ \A h \in Elements(flush.undo) : attached[h] \in {o, None}
      /\ \A h \in Elements(add[k]) : h \in Elements(flush.lost) \/ attached[h] # None
      /\ output[o] = "pending"
  BY <1>1 DEF IInv, UndoSound, OutputsSound, Trying, k, o
<1>9. TypeOK' /\ flush' \in Flushes
  BY <1>1, <1>6, <1>7 DEF IInv, TypeOK, Flushes
<1>10. StagedSound'
  BY <1>1, <1>6 DEF IInv, StagedSound, Working, k
<1>11. OutputsSound'
  <2>1. \A h \in Connector : attached'[h] # None => attached'[h] = attached[h]
    BY <1>7
  <2> QED BY <1>1, <1>6, <2>1 DEF IInv, OutputsSound, Trying, k, o
<1>12. UndoSound'
  <2>1. add[k] \in Seq(Connector)
    BY <1>4 DEF IInv, TypeOK
  <2>2. Elements(add[k]) \subseteq Connector
    BY <2>1, ElementsAre
  <2>3. Elements(flush.undo) \subseteq Connector
    BY <1>2 DEF AtTrying, Elements
  <2>4. \A h \in Elements(u) \cup Elements(t) : GroupOf(h) = k
    BY <1>3, <1>5, <1>8
  <2>5. \A h \in Elements(u) : attached'[h] \in {o, None}
    BY <1>3, <1>7, <1>8, <2>3
  <2>6. \A h \in Elements(add[k]) : h \in Elements(t) \/ attached'[h] # None
    BY <1>5, <1>7, <1>8, <2>2
  <2> QED BY <1>1, <1>6, <2>4, <2>5, <2>6 DEF UndoSound
<1>13. BootSound'
  <2>1. Finished' = Finished
    BY <1>1, <1>6 DEF Finished, Working, k
  <2>2. ASSUME NEW h \in Connector, IsEnabled(h) PROVE IsEnabled(h)'
    <3>1. h # l
      BY <1>3, <1>8, <2>2 DEF IsEnabled
    <3> QED BY <1>1, <1>7, <2>2, <3>1 DEF IsEnabled
  <2>3. SomeEnabled => SomeEnabled'
    BY <2>2 DEF SomeEnabled
  <2>4. \A h \in Connector : Wanted(h)' <=> Wanted(h)
    BY <1>1 DEF Wanted, Clones
  <2>5. ASSUME NEW h \in Connector, UnderWay(h) PROVE UnderWay(h)'
    <3>1. CASE GroupOf(h) = k
      <4>1. h \in Elements(flush.lost) \/ attached[h] = o
        BY <1>1, <2>5, <3>1 DEF UnderWay, Trying, k, o
      <4>2. h \in Elements(t) \/ attached'[h] = o
        BY <1>5, <1>7, <4>1
      <4> QED BY <1>6, <3>1, <4>2 DEF UnderWay, Trying
    <3>2. CASE GroupOf(h) # k
      BY <1>1, <1>6, <2>5, <3>2 DEF UnderWay, k
    <3> QED BY <3>1, <3>2
  <2> QED BY <1>1, <1>6, <2>1, <2>2, <2>3, <2>4, <2>5 DEF IInv, BootSound, Working
<1> QED BY <1>9, <1>10, <1>11, <1>12, <1>13 DEF IInv

LEMMA GroupsProcessedKeeps ==
  ASSUME IInv, GroupsProcessed
  PROVE  IInv'
<1>1. /\ flush.at = "groups" /\ flush.todo = {} /\ flush' = Idle
      /\ initFailed' \in BOOLEAN
      /\ stage' = IF stage # "boot" THEN stage ELSE IF initFailed' THEN "aborted" ELSE "up"
      /\ UNCHANGED <<head, output, attached, layoutputs, outputs, cell, add, require>>
  BY DEF GroupsProcessed, libweston, groups
<1>2. stage' # "boot" /\ stage' \in {"boot", "up", "aborted"}
  BY <1>1 DEF IInv, TypeOK
<1>3. flush'.at = "idle" /\ flush' \in Flushes
  BY <1>1 DEF Idle, Flushes
<1>4. TypeOK'
  BY <1>1, <1>2 DEF IInv, TypeOK
<1>5. StagedSound'
  BY <1>1, <1>3 DEF IInv, StagedSound, Working
<1>6. OutputsSound' /\ UndoSound' /\ BootSound'
  BY <1>1, <1>2, <1>3 DEF IInv, OutputsSound, UndoSound, BootSound, Trying
<1> QED BY <1>3, <1>4, <1>5, <1>6 DEF IInv

-------------------------------------------------------------------------------
(***************************************************************************)
(* The specification.                                                      *)
(***************************************************************************)

LEMMA InitIsSound == Init => IInv
<1> SUFFICES ASSUME Init PROVE IInv
  OBVIOUS
<1>1. flush = Idle /\ flush.at = "idle"
  BY DEF Init, Idle
<1>2. TypeOK /\ flush \in Flushes
  <2>1. add \in [Group -> Seq(Connector)]
    <3>1. <<>> \in Seq(Connector) /\ add = [g \in Group |-> <<>>]
      BY DEF Init
    <3> QED BY <3>1
  <2>2. output \in [Output -> {"none", "pending", "enabled"}]
    BY DEF Init
  <2>3. attached \in [Connector -> Output \cup {None}]
    BY DEF Init
  <2>4. outputs \in [Group -> SUBSET Output]
    BY DEF Init
  <2> QED BY <1>1, <2>1, <2>2, <2>3, <2>4 DEF Init, TypeOK, Flushes
<1>3. add = [g \in Group |-> <<>>] /\ layoutputs = {}
  BY DEF Init
<1>4. \A g \in Group : add[g] = <<>> /\ Elements(add[g]) = {}
  <2>1. \A g \in Group : add[g] = <<>> /\ add[g] \in Seq(Connector)
    BY <1>3
  <2> QED BY <2>1, ElementsAre
<1>5. StagedSound
  BY <1>1, <1>4 DEF StagedSound, Working
<1>6. OutputsSound /\ UndoSound /\ BootSound
  BY <1>1, <1>3 DEF Init, OutputsSound, UndoSound, BootSound, Working, Trying
<1> QED BY <1>2, <1>5, <1>6 DEF IInv

LEMMA StepsAreSound == IInv /\ [Next]_vars => IInv'
<1> SUFFICES ASSUME IInv, [Next]_vars PROVE IInv'
  OBVIOUS
<1>1. ASSUME NEW h \in Connector,
             Plugged(h) \/ HeadDestroyed(h) \/ AddHead(h) \/ DisableHead(h) \/ LeaveHead(h)
      PROVE  IInv'
  BY <1>1, PluggedKeeps, HeadDestroyedKeeps, AddHeadKeeps, DisableHeadKeeps, LeaveHeadKeeps
<1>2. ASSUME NEW o \in Output,
             OutputDestroyed(o) \/ Reap(o) \/ AttachExisting(o) \/ Create(o)
      PROVE  IInv'
  BY <1>2, OutputDestroyedKeeps, ReapKeeps, AttachExistingKeeps, CreateKeeps
<1>3. ASSUME NEW g \in Group, Process(g) PROVE IInv'
  BY <1>3, ProcessKeeps
<1>4. ASSUME \/ NoHeads \/ HeadsChanged \/ HeadsVisited \/ ExistingTried \/ AllAttached
             \/ CreateFails \/ GroupsProcessed
      PROVE  IInv'
  BY <1>4, NoHeadsKeeps, HeadsChangedKeeps, HeadsVisitedKeeps, ExistingTriedKeeps,
     AllAttachedKeeps, CreateFailsKeeps, GroupsProcessedKeeps
<1>5. ASSUME Configured \/ ConfigureFails \/ Enabled \/ Undo \/ NothingLeft PROVE IInv'
  BY <1>5, ConfiguredKeeps, ConfigureFailsKeeps, EnabledKeeps, UndoKeeps
<1>6. ASSUME UNCHANGED vars PROVE IInv'
  <2>1. UNCHANGED <<head, output, attached, layoutputs, outputs, cell, add, require,
                    initFailed, stage, flush>>
    BY <1>6 DEF vars, libweston, groups, startup
  <2>2. TypeOK' /\ flush' \in Flushes /\ StagedSound' /\ OutputsSound' /\ UndoSound'
    BY <2>1 DEF IInv, TypeOK, StagedSound, OutputsSound, UndoSound
  <2>3. Finished' = Finished
    BY <2>1 DEF Finished
  <2>4. \A h \in Connector : /\ Wanted(h)' <=> Wanted(h)
                             /\ IsEnabled(h)' <=> IsEnabled(h)
                             /\ UnderWay(h)' <=> UnderWay(h)
    BY <2>1 DEF Wanted, Clones, IsEnabled, UnderWay
  <2>5. (SomeEnabled' <=> SomeEnabled) /\ \A g \in Group : Visited(g)' = Visited(g)
    BY <2>1, <2>4 DEF SomeEnabled, Visited
  <2>6. BootSound'
    BY <2>1, <2>3, <2>4, <2>5 DEF IInv, BootSound
  <2> QED BY <2>2, <2>6 DEF IInv
<1> QED BY <1>1, <1>2, <1>3, <1>4, <1>5, <1>6 DEF Next

\* In every reachable state of every installation, staged heads, entries,
\* outputs, the undo of a flush and the first flush of the startup agree.
THEOREM LayoutputSound == Spec => []IInv
BY InitIsSound, StepsAreSound, PTL DEF Spec

\* Heads, outputs and groups keep their types.
THEOREM LayoutputTyped == Spec => []TypeOK
<1>1. IInv => TypeOK
  BY DEF IInv
<1> QED BY <1>1, LayoutputSound, PTL

LEMMA GroupsOwn == IInv => GroupsOwnTheirs
<1> SUFFICES ASSUME IInv PROVE GroupsOwnTheirs
  OBVIOUS
<1>1. flush = Idle => flush.at = "idle"
  BY DEF Idle
<1>2. NothingStaged
  BY <1>1 DEF IInv, StagedSound, NothingStaged
<1>3. ASSUME NEW g \in Group PROVE Cardinality(outputs[g]) <= 1
  <2>1. CASE outputs[g] = {}
    BY <2>1, FS_EmptySet
  <2>2. CASE outputs[g] # {}
    <3>0. PICK a : a \in outputs[g]
      BY <2>2
    <3>1. outputs[g] = {a}
      BY <3>0 DEF IInv, OutputsSound
    <3>2. Cardinality({a}) = 1
      BY FS_Singleton
    <3> QED BY <3>1, <3>2
  <2> QED BY <2>1, <2>2
<1>4. /\ flush.at \in {"idle", "heads", "groups", "existing"} =>
           \A g \in Group : \A o \in outputs[g] \cap cell : output[o] = "enabled"
      /\ flush.at \in {"create", "configure", "enable"} => outputs[flush.group] \subseteq cell
  BY DEF IInv, OutputsSound, Trying
<1>5. flush = Idle => \A o \in Output : output[o] # "pending"
  BY <1>1 DEF IInv, OutputsSound, Trying
<1>6. OutputsOwned
  BY <1>5 DEF IInv, OutputsSound, OutputsOwned
<1> QED BY <1>2, <1>3, <1>4, <1>6 DEF GroupsOwnTheirs, GroupsSound

\* A group never has two outputs and never keeps a dead one when it looks for
\* an output to create; every output belongs to a group, and undo, failure and
\* hotplug leave none half made.
THEOREM GroupsOwnTheirOutputs == Spec => []GroupsOwnTheirs
BY GroupsOwn, LayoutputSound, PTL

\* A step that takes a head off the list of its group while an output is
\* created, configured or enabled.
LEMMA StepsCountTheLost ==
  ASSUME IInv, Next, NEW g \in Group, NEW h \in Elements(add[g]),
         flush.at \in {"create", "configure", "enable"}, h \notin Elements(add'[g])
  PROVE  attached'[h] # None \/ flush'.failed > flush.failed
<1>1. add' # add
  OBVIOUS
<1>2. /\ flush # Idle /\ flush.at \notin {"heads", "groups", "existing"}
      /\ flush.at \in Working
  BY DEF Idle, Working
<1>3. flush.group \in Group /\ flush.failed \in Nat
  BY <1>2, FlushShape DEF IInv
<1>4. \/ CreateFails \/ ConfigureFails \/ NothingLeft \/ Enabled
  <2>1. ASSUME NEW c \in Connector
        PROVE  ~(Plugged(c) \/ HeadDestroyed(c) \/ AddHead(c) \/ DisableHead(c) \/ LeaveHead(c))
    BY <1>2 DEF Plugged, HeadDestroyed, Between, AddHead, DisableHead, LeaveHead, Visit
  <2>2. ASSUME NEW o \in Output
        PROVE  ~(OutputDestroyed(o) \/ Reap(o) \/ AttachExisting(o) \/ Create(o))
    BY <1>1, <1>2 DEF OutputDestroyed, Between, Reap, AttachExisting, Create
  <2>3. ASSUME NEW k \in Group PROVE ~Process(k)
    BY <1>2 DEF Process
  <2>4. ~(NoHeads \/ HeadsChanged \/ HeadsVisited \/ ExistingTried \/ GroupsProcessed)
    BY <1>2 DEF NoHeads, HeadsChanged, Between, HeadsVisited, ExistingTried, GroupsProcessed
  <2>5. ~(AllAttached \/ Configured \/ Undo)
    BY <1>1 DEF AllAttached, Configured, Undo, groups
  <2> QED BY <2>1, <2>2, <2>3, <2>4, <2>5 DEF Next
<1>5. CASE CreateFails \/ ConfigureFails \/ NothingLeft
  <2>1. GroupFails
    BY <1>5 DEF CreateFails, ConfigureFails, NothingLeft, Abandon
  <2>2. flush'.failed = flush.failed + 1
    BY <2>1 DEF GroupFails, NextGroup
  <2> QED BY <1>3, <2>2
<1>6. CASE Enabled
  <2>1. /\ flush.at \in Trying /\ UNCHANGED attached
        /\ add' = [add EXCEPT ![flush.group] = flush.lost]
    BY <1>6 DEF Enabled, Trying
  <2>2. g = flush.group /\ h \notin Elements(flush.lost)
    BY <1>3, <2>1 DEF IInv, TypeOK
  <2> QED BY <2>1, <2>2 DEF IInv, UndoSound
<1> QED BY <1>4, <1>5, <1>6

\* The undo of a failed enable loses no head: one that leaves the list of its
\* group has an output, or its group is counted as failed.
THEOREM NoneIsLost == Spec => LostIsCounted
<1>1. IInv /\ [Next]_vars
        => [\A g \in Group : \A h \in Elements(add[g]) :
              flush.at \in {"create", "configure", "enable"} /\ h \notin Elements(add'[g])
                => attached'[h] # None \/ flush'.failed > flush.failed]_vars
  BY StepsCountTheLost
<1> QED BY <1>1, LayoutputSound, PTL DEF Spec, LostIsCounted

\* The step that ends the startup, when the verdict of process_all was good.
LEMMA StartupEnds ==
  ASSUME IInv, Next, stage = "boot", stage' = "up"
  PROVE  /\ require = "any" /\ (\E h \in Connector : head[h] # "absent")
              => \E h \in Connector : IsEnabled(h)
         /\ require = "all" => \A h \in Connector : Wanted(h) => IsEnabled(h)
<1>1. NoHeads \/ GroupsProcessed
  <2>1. ASSUME NEW c \in Connector
        PROVE  ~(Plugged(c) \/ HeadDestroyed(c) \/ AddHead(c) \/ DisableHead(c) \/ LeaveHead(c))
    BY DEF Plugged, HeadDestroyed, AddHead, DisableHead, LeaveHead, Visit, startup
  <2>2. ASSUME NEW o \in Output
        PROVE  ~(OutputDestroyed(o) \/ Reap(o) \/ AttachExisting(o) \/ Create(o))
    BY DEF OutputDestroyed, Reap, AttachExisting, Create, startup
  <2>3. ASSUME NEW k \in Group PROVE ~Process(k)
    BY DEF Process, startup
  <2>4. ~(HeadsChanged \/ HeadsVisited \/ ExistingTried \/ AllAttached \/ CreateFails)
    BY DEF HeadsChanged, HeadsVisited, ExistingTried, AllAttached, CreateFails, startup
  <2>5. ~(Configured \/ ConfigureFails \/ Enabled \/ Undo \/ NothingLeft)
    BY DEF Configured, ConfigureFails, Enabled, Undo, NothingLeft, startup
  <2> QED BY <2>1, <2>2, <2>3, <2>4, <2>5 DEF Next
<1>2. CASE NoHeads
  BY <1>2 DEF NoHeads, Wanted
<1>3. CASE GroupsProcessed
  <2>1. flush.at = "groups" /\ flush.todo = {} /\ Verdict(flush.failed)
    BY <1>3 DEF GroupsProcessed
  <2>2. /\ SomeEnabled \/ flush.failed = Cardinality(Finished)
        /\ flush.failed = 0 => \A h \in Connector : Wanted(h) => IsEnabled(h) \/ UnderWay(h)
    BY <2>1 DEF IInv, BootSound
  <2>3. Finished = layoutputs
    BY <2>1 DEF Finished, Working
  <2>4. ASSUME NEW h \in Connector PROVE ~UnderWay(h)
    <3>1. add[GroupOf(h)] = <<>> /\ add[GroupOf(h)] \in Seq(Connector)
      BY <2>1, GroupsAreFinite DEF IInv, TypeOK, StagedSound
    <3>2. Elements(add[GroupOf(h)]) = {}
      BY <3>1, ElementsAre
    <3> QED BY <2>1, <3>2 DEF UnderWay, Trying
  <2> QED BY <2>1, <2>2, <2>3, <2>4 DEF Verdict, SomeEnabled
<1> QED BY <1>1, <1>2, <1>3

\* With require-outputs=any a compositor that has heads comes up with an
\* output, with all only with every connected head enabled that no full group
\* dropped.
THEOREM StartsWithItsOutputs == Spec => StartsAsRequired
<1>1. IInv /\ [Next]_vars
        => [stage = "boot" /\ stage' = "up" =>
              /\ require = "any" /\ (\E h \in Connector : head[h] # "absent")
                   => \E h \in Connector : IsEnabled(h)
              /\ require = "all" =>
                   \A h \in Connector :
                     head[h] = "connected" /\ Cardinality(Clones(h)) < MaxCloneHeads
                       => IsEnabled(h)]_vars
  BY StartupEnds DEF Wanted
<1> QED BY <1>1, LayoutputSound, PTL DEF Spec, StartsAsRequired

===============================================================================
