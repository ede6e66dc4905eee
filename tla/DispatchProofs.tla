---------------------------- MODULE DispatchProofs -----------------------------
(***************************************************************************)
(* Proofs about Dispatch, for every set of events and boxes and every      *)
(* nesting depth.                                                          *)
(***************************************************************************)
EXTENDS Dispatch, SequenceTheorems, TLAPS

-------------------------------------------------------------------------------
(***************************************************************************)
(* The stack, frame by frame.                                              *)
(***************************************************************************)

LEMMA StackFacts ==
  ASSUME TypeOK
  PROVE  /\ Len(stack) \in Nat
         /\ DOMAIN stack = 1 .. Len(stack)
         /\ stack = <<>> <=> Len(stack) = 0
         /\ \A i \in DOMAIN stack : stack[i] \in Frame
BY LenProperties, ElementOfSeq, EmptySeq DEF TypeOK

LEMMA PushFacts ==
  ASSUME TypeOK, NEW f \in Frame, stack' = Push(f.kind, f.box, f.phase)
  PROVE  /\ stack' \in Seq(Frame)
         /\ Len(stack') = Len(stack) + 1
         /\ DOMAIN stack' = 1 .. Len(stack) + 1
         /\ stack' # <<>>
         /\ \A i \in 1 .. Len(stack) : stack'[i] = stack[i]
         /\ stack'[Len(stack) + 1] = f
<1>1. stack' = Append(stack, f)
  BY DEF Push, Frame
<1>2. /\ Append(stack, f) \in Seq(Frame)
      /\ Append(stack, f) # <<>>
      /\ Len(Append(stack, f)) = Len(stack) + 1
      /\ \A i \in 1 .. Len(stack) : Append(stack, f)[i] = stack[i]
      /\ Append(stack, f)[Len(stack) + 1] = f
  BY AppendProperties DEF TypeOK
<1> QED
  BY <1>1, <1>2, LenProperties

LEMMA PopFacts ==
  ASSUME TypeOK, stack # <<>>, stack' = Pop
  PROVE  /\ stack' \in Seq(Frame)
         /\ Len(stack) > 0
         /\ Len(stack') = Len(stack) - 1
         /\ DOMAIN stack' = 1 .. Len(stack) - 1
         /\ stack' = <<>> <=> Len(stack) = 1
         /\ \A i \in 1 .. Len(stack) - 1 : stack'[i] = stack[i]
<1> DEFINE n == Len(stack)
<1>1. n \in Nat /\ n > 0 /\ DOMAIN stack = 1 .. n
  BY StackFacts
<1>2. \A i \in 1 .. n - 1 : stack[i] \in Frame
  BY <1>1, StackFacts
<1>3. stack' = SubSeq(stack, 1, n - 1)
  BY DEF Pop
<1> HIDE DEF n
<1>4. /\ SubSeq(stack, 1, n - 1) \in Seq(Frame)
      /\ Len(SubSeq(stack, 1, n - 1)) = IF 1 <= n - 1 THEN n - 1 - 1 + 1 ELSE 0
      /\ \A i \in 1 .. n - 1 - 1 + 1 : SubSeq(stack, 1, n - 1)[i] = stack[1 + i - 1]
  <2>1. 1 \in Int /\ n - 1 \in Int
    BY <1>1
  <2> QED BY <1>2, <2>1, SubSeqProperties
<1>5. stack' \in Seq(Frame) /\ Len(stack') = n - 1
  BY <1>1, <1>3, <1>4
<1>6. \A i \in 1 .. n - 1 : stack'[i] = stack[i]
  BY <1>1, <1>3, <1>4
<1>7. DOMAIN stack' = 1 .. n - 1 /\ (stack' = <<>> <=> n = 1)
  BY <1>1, <1>5, LenProperties, EmptySeq
<1> QED
  BY <1>1, <1>5, <1>6, <1>7 DEF n

LEMMA GoToFacts ==
  ASSUME TypeOK, stack # <<>>,
         NEW phase \in {"body", "sync", "emit", "closing", "drain", "handle"},
         stack' = GoTo(phase)
  PROVE  /\ stack' \in Seq(Frame)
         /\ Len(stack) > 0
         /\ Len(stack') = Len(stack)
         /\ DOMAIN stack' = 1 .. Len(stack)
         /\ stack' # <<>>
         /\ \A i \in 1 .. Len(stack) : i # Len(stack) => stack'[i] = stack[i]
         /\ stack'[Len(stack)].kind = stack[Len(stack)].kind
         /\ stack'[Len(stack)].box = stack[Len(stack)].box
         /\ stack'[Len(stack)].phase = phase
<1> DEFINE n == Len(stack)
           f == [stack[n] EXCEPT !.phase = phase]
<1>1. n \in 1 .. n /\ n > 0 /\ stack[n] \in Frame /\ DOMAIN stack = 1 .. n
  BY StackFacts
<1>2. /\ f \in Frame
      /\ f.kind = stack[n].kind /\ f.box = stack[n].box /\ f.phase = phase
  BY <1>1 DEF Frame
<1>3. stack' = [stack EXCEPT ![n] = f]
  BY DEF GoTo
<1> HIDE DEF f
<1>4. /\ stack' \in Seq(Frame)
      /\ Len(stack') = n
      /\ \A i \in 1 .. n : stack'[i] = IF i = n THEN f ELSE stack[i]
  BY <1>1, <1>2, <1>3, ExceptSeq DEF TypeOK
<1>5. DOMAIN stack' = 1 .. n
  BY <1>4, LenProperties
<1> QED
  BY <1>1, <1>2, <1>4, <1>5, StackFacts

\* What the queue operations preserve.
LEMMA QueueFacts ==
  ASSUME TypeOK, NEW e \in Event \cup {Shutdown}
  PROVE  /\ AfterEnqueue(e) \in Seq(Event \cup {Shutdown})
         /\ queue # <<>> => Tail(queue) \in Seq(Event \cup {Shutdown})
<1>1. Append(queue, e) \in Seq(Event \cup {Shutdown})
  BY AppendProperties DEF TypeOK
<1>2. queue # <<>> => Tail(queue) \in Seq(Event \cup {Shutdown})
  BY HeadTailProperties DEF TypeOK
<1> QED
  BY <1>1, <1>2 DEF AfterEnqueue, TypeOK

-------------------------------------------------------------------------------
(***************************************************************************)
(* The inductive invariant.                                                *)
(***************************************************************************)

LEMMA InitInvariant == Init => IInv
<1> SUFFICES ASSUME Init PROVE IInv
  OBVIOUS
<1>1. stack = <<>> /\ DOMAIN stack = {} /\ Len(stack) = 0
  BY DEF Init
<1>2. TypeOK
  BY <1>1, EmptySeq DEF Init, TypeOK
<1>3. StackShape /\ ShellNotReentered /\ NoBoxFreedInUse
  BY <1>1 DEF StackShape, ShellNotReentered, NoBoxFreedInUse
<1>4. Bookkeeping
  BY <1>1 DEF Init, Bookkeeping, AttachBase
<1>5. QuietBase /\ Lifecycle
  BY DispatchAssumption DEF Init, QuietBase, Lifecycle
<1> QED
  BY <1>2, <1>3, <1>4, <1>5 DEF IInv

\* The steps that leave the stack as it is.
LEMMA SameStackPreserves ==
  ASSUME IInv, stack' = stack, draining' = draining, depth' = depth,
         inSync' = inSync, app' = "taken" <=> app = "taken",
         stage = "gone" => stage' = "gone"
  PROVE  StackShape' /\ Bookkeeping' /\ ShellNotReentered'
BY DEF IInv, StackShape, Bookkeeping, ShellNotReentered, Executing, InShell,
       Edge, AttachBase

LEMMA EnqueuePreserves ==
  ASSUME IInv, NEW e \in Event, Enqueue(e) \/ DispatchSyncDeferred(e)
  PROVE  IInv'
<1> USE DEF IInv
<1>1. /\ UNCHANGED <<stack, box, depth, draining, inSync, shuttingDown, app, current, stage>>
      /\ queue' = AfterEnqueue(e)
  BY DEF Enqueue, DispatchSyncDeferred, flags
<1>2. TypeOK'
  BY <1>1, QueueFacts DEF TypeOK
<1>3. ~AttachBase /\ stack # <<>>
  <2>1. CASE Enqueue(e)
    BY <2>1 DEF Enqueue, Wired, RustRuns, At, AttachBase
  <2>2. CASE DispatchSyncDeferred(e)
    BY <2>2, StackFacts DEF DispatchSyncDeferred, At, Top, StackShape
  <2> QED BY <2>1, <2>2
<1>4. QuietBase'
  BY <1>1, <1>3 DEF QuietBase, AttachBase
<1>5. NoBoxFreedInUse' /\ Lifecycle'
  BY <1>1 DEF NoBoxFreedInUse, Executing, Lifecycle
<1> QED
  BY <1>1, <1>2, <1>4, <1>5, SameStackPreserves

LEMMA DrainDiscardPreserves ==
  ASSUME IInv, DrainDiscard
  PROVE  IInv'
<1> USE DEF IInv
<1>1. /\ UNCHANGED <<stack, box, depth, draining, inSync, shuttingDown, app, current, stage>>
      /\ queue # <<>> /\ queue' = Tail(queue)
  BY DEF DrainDiscard, flags
<1>2. TypeOK'
  BY <1>1, HeadTailProperties DEF TypeOK
<1>3. QuietBase' /\ NoBoxFreedInUse' /\ Lifecycle'
  BY <1>1 DEF QuietBase, AttachBase, NoBoxFreedInUse, Executing, Lifecycle
<1> QED
  BY <1>1, <1>2, <1>3, SameStackPreserves

LEMMA BoxesPreserve ==
  ASSUME IInv, NEW b \in Box, NewBox(b) \/ Retire(b)
  PROVE  IInv'
<1> USE DEF IInv
<1>1. /\ UNCHANGED <<stack, queue, depth, draining, inSync, shuttingDown, app, current, stage>>
      /\ box' = [box EXCEPT ![b] = "live"] \/ box' = [box EXCEPT ![b] = "retired"]
      /\ b # DestroyBox
      /\ ~AttachBase /\ stack # <<>>
  BY DEF NewBox, Retire, flags, Wired, RustRuns, At, AttachBase
<1>2. TypeOK'
  BY <1>1 DEF TypeOK
<1>3. \A c \in Box : box[c] # "none" => box'[c] # "none"
  BY <1>1 DEF TypeOK
<1>4. NoBoxFreedInUse'
  BY <1>1, <1>3, StackFacts DEF NoBoxFreedInUse, Executing, Frame
<1>5. QuietBase' /\ Lifecycle'
  BY <1>1, DispatchAssumption DEF QuietBase, AttachBase, Lifecycle, TypeOK
<1> QED
  BY <1>1, <1>2, <1>4, <1>5, SameStackPreserves

LEMMA BaseStepsPreserve ==
  ASSUME IInv, AttachShell \/ Run \/ BeginDrop \/ TeardownUnattached
  PROVE  IInv'
<1> USE DEF IInv
<1>1. /\ UNCHANGED <<stack, depth, draining, inSync>>
      /\ stack = <<>> /\ queue = <<>> /\ queue' = <<>>
      /\ \A b \in Box : box[b] # "retired"
  BY DEF AttachShell, Run, BeginDrop, TeardownUnattached, ClearContext, QuietBase
<1>2. DestroyBox \in Box /\ DOMAIN stack = {}
  BY <1>1, DispatchAssumption
<1>3. app # "taken" /\ app' # "taken"
  BY <1>1, <1>2 DEF Bookkeeping, AttachShell, Run, BeginDrop, TeardownUnattached, ClearContext
<1>4. stage # "gone" /\ TypeOK' /\ Lifecycle' /\ \A b \in Box : box'[b] # "retired"
  <2>1. CASE AttachShell
    BY <1>1, <1>2, <2>1 DEF AttachShell, TypeOK, Lifecycle
  <2>2. CASE Run
    BY <1>1, <1>2, <2>2 DEF Run, TypeOK, Lifecycle
  <2>3. CASE BeginDrop
    BY <1>1, <1>2, <2>3 DEF BeginDrop, TypeOK, Lifecycle
  <2>4. CASE TeardownUnattached
    BY <1>1, <1>2, <2>4
       DEF TeardownUnattached, ClearContext, BoxesAfterTeardown, TypeOK, Lifecycle
  <2> QED BY <2>1, <2>2, <2>3, <2>4
<1>5. QuietBase' /\ NoBoxFreedInUse'
  BY <1>1, <1>2, <1>4 DEF QuietBase, NoBoxFreedInUse
<1> QED
  BY <1>1, <1>3, <1>4, <1>5, SameStackPreserves

\* A frame enters on top of C code, of Rust code, or of an empty stack.
LEMMA PushPreserves ==
  ASSUME IInv, NEW f \in Frame, stack' = Push(f.kind, f.box, f.phase),
         f.kind # "attach", f.phase \notin {"drain", "handle"},
         f.phase = "emit" => f.kind = "out",
         f.phase = "closing" => f.kind = "destroy",
         f.kind = "cb" => ~AttachBase,
         f.kind = "out" => f.box = NoBox,
         f.kind = "destroy" => /\ f.box = DestroyBox
                               /\ f.phase \in {"sync", "closing"}
                               /\ \A j \in DOMAIN stack :
                                    stack[j].kind = "out" /\ stack[j].phase = "emit",
         stack # <<>> => Top.phase # "closing",
         f.phase = "sync" => app # "taken",
         depth' = depth + 1, draining' = draining,
         inSync' <=> inSync \/ f.phase = "sync",
         app' = "taken" <=> app = "taken" \/ f.phase = "sync",
         stage = "gone" => stage' = "gone"
  PROVE  StackShape' /\ Bookkeeping' /\ ShellNotReentered'
<1> USE DEF IInv
<1>0. PICK n \in Nat : n = Len(stack)
  BY StackFacts
<1>1. /\ n \in Nat /\ DOMAIN stack = 1 .. n /\ (stack = <<>> <=> n = 0)
      /\ Len(stack') = n + 1 /\ DOMAIN stack' = 1 .. n + 1 /\ stack' # <<>>
      /\ \A i \in 1 .. n : stack'[i] = stack[i]
      /\ stack'[n + 1] = f
  BY <1>0, StackFacts, PushFacts
<1>2. \A i \in 1 .. n : stack[i].phase # "closing"
  BY <1>0, <1>1 DEF StackShape, Top
<1>3. AttachBase' <=> AttachBase
  BY <1>1 DEF AttachBase
<1>4. StackShape'
  <2>1. \A i \in 1 .. n : Executing(i)' <=> Executing(i)
    BY <1>1 DEF Executing
  <2>2. Executing(n + 1)'
    BY <1>1 DEF Executing
  <2>3. Edge' = Edge
    BY <1>3 DEF Edge
  <2> QED BY <1>0, <1>1, <1>2, <1>3, <2>1, <2>2, <2>3 DEF StackShape
<1>5. Bookkeeping'
  <2>1. draining' <=> \E i \in DOMAIN stack' : ~Executing(i)'
    BY <1>1 DEF Bookkeeping, Executing
  <2>2. inSync' <=> \E i \in DOMAIN stack' : stack'[i].phase = "sync"
    BY <1>1 DEF Bookkeeping
  <2>3. app' = "taken" <=> \E i \in DOMAIN stack' : InShell(i)'
    BY <1>1 DEF Bookkeeping, InShell
  <2>4. depth' = Len(stack') - (IF AttachBase' THEN 1 ELSE 0) - (IF draining' THEN 1 ELSE 0)
    BY <1>0, <1>1, <1>3 DEF Bookkeeping
  <2> QED BY <2>1, <2>2, <2>3, <2>4 DEF Bookkeeping
<1>6. ShellNotReentered'
  <2>1. f.phase = "sync" => \A i \in 1 .. n : ~InShell(i)
    BY <1>1 DEF Bookkeeping
  <2>2. \A i \in 1 .. n : InShell(i)' <=> InShell(i)
    BY <1>1 DEF InShell
  <2>3. InShell(n + 1)' <=> f.phase = "sync"
    BY <1>1 DEF InShell
  <2> QED BY <1>1, <2>1, <2>2, <2>3 DEF ShellNotReentered
<1> QED
  BY <1>4, <1>5, <1>6

\* ... and its box is not freed.
LEMMA PushKeepsBoxes ==
  ASSUME IInv, NEW f \in Frame, stack' = Push(f.kind, f.box, f.phase),
         \A b \in Box : box[b] # "none" => box'[b] # "none",
         f.box # NoBox => box'[f.box] # "none"
  PROVE  NoBoxFreedInUse'
<1> USE DEF IInv
<1>1. /\ Len(stack) \in Nat /\ DOMAIN stack = 1 .. Len(stack)
      /\ DOMAIN stack' = 1 .. Len(stack) + 1
      /\ \A i \in 1 .. Len(stack) : stack'[i] = stack[i] /\ stack[i] \in Frame
      /\ stack'[Len(stack) + 1] = f
  BY StackFacts, PushFacts
<1> QED
  BY <1>1 DEF NoBoxFreedInUse, Executing, Frame

LEMMA CallbackPreserves ==
  ASSUME IInv, NEW b \in Box \cup {NoBox}, Callback(b)
  PROVE  IInv'
<1> USE DEF IInv
<1> DEFINE f == [kind |-> "cb", box |-> b, phase |-> "body"]
<1>1. /\ f \in Frame /\ f.kind = "cb" /\ f.box = b /\ f.phase = "body"
      /\ stack' = Push(f.kind, f.box, f.phase)
  BY DEF Frame, Callback
<1> HIDE DEF f
<1>2. /\ UNCHANGED <<queue, draining, inSync, shuttingDown, app, current, stage>>
      /\ depth' = depth + 1
      /\ box' = IF b \in OneShot THEN [box EXCEPT ![b] = "spent"] ELSE box
      /\ b # NoBox => b \in Box /\ box[b] = "live"
      /\ stack # <<>> => Top.phase # "closing"
      /\ ~AttachBase
  BY DEF Callback, At, Wired, AttachBase
<1>3. /\ TypeOK'
      /\ \A c \in Box : box[c] # "none" <=> box'[c] # "none"
      /\ \A c \in Box : box[c] # "retired" => box'[c] # "retired"
  BY <1>1, <1>2, PushFacts, DispatchAssumption DEF TypeOK
<1>4. NoBoxFreedInUse'
  BY <1>1, <1>2, <1>3, PushKeepsBoxes
<1>5. stack' # <<>> /\ ~AttachBase'
  BY <1>1, <1>2, StackFacts, PushFacts DEF AttachBase
<1>6. QuietBase' /\ Lifecycle'
  BY <1>2, <1>3, <1>5, DispatchAssumption DEF QuietBase, Lifecycle
<1>7. StackShape' /\ Bookkeeping' /\ ShellNotReentered'
  BY <1>1, <1>2, PushPreserves
<1> QED
  BY <1>3, <1>4, <1>6, <1>7

LEMMA OutboundPreserves ==
  ASSUME IInv, Outbound
  PROVE  IInv'
<1> USE DEF IInv
<1> DEFINE f == [kind |-> "out", box |-> NoBox, phase |-> "emit"]
<1>1. /\ f \in Frame /\ f.kind = "out" /\ f.box = NoBox /\ f.phase = "emit"
      /\ stack' = Push(f.kind, f.box, f.phase)
  BY DEF Frame, Outbound
<1> HIDE DEF f
<1>2. /\ UNCHANGED <<queue, box, draining, inSync, shuttingDown, app, current, stage>>
      /\ depth' = depth + 1
      /\ stack # <<>> => Top.phase # "closing"
  BY DEF Outbound, RustRuns, At
<1>3. TypeOK'
  BY <1>1, <1>2, PushFacts DEF TypeOK
<1>4. NoBoxFreedInUse'
  BY <1>1, <1>2, PushKeepsBoxes
<1>5. stack' # <<>> /\ (AttachBase' => AttachBase \/ stack = <<>>)
  BY <1>1, StackFacts, PushFacts DEF AttachBase
<1>6. QuietBase' /\ Lifecycle'
  BY <1>2, <1>5 DEF QuietBase, Lifecycle
<1>7. StackShape' /\ Bookkeeping' /\ ShellNotReentered'
  BY <1>1, <1>2, PushPreserves
<1> QED
  BY <1>3, <1>4, <1>6, <1>7

LEMMA CompositorDestroyedPreserves ==
  ASSUME IInv, CompositorDestroyed
  PROVE  IInv'
<1> USE DEF IInv
<1> DEFINE f == [kind |-> "destroy", box |-> DestroyBox,
                 phase |-> IF app = "slot" THEN "sync" ELSE "closing"]
<1>0. DestroyBox \in Box
  BY DispatchAssumption
<1>1. /\ f \in Frame /\ f.kind = "destroy" /\ f.box = DestroyBox
      /\ f.phase = IF app = "slot" THEN "sync" ELSE "closing"
      /\ stack' = Push(f.kind, f.box, f.phase)
  BY <1>0 DEF Frame, CompositorDestroyed
<1> HIDE DEF f
<1>2. /\ UNCHANGED <<draining, shuttingDown, current>>
      /\ depth' = depth + 1
      /\ box' = [box EXCEPT ![DestroyBox] = "spent"] /\ box[DestroyBox] = "live"
      /\ queue' = queue \/ queue' = AfterEnqueue(Shutdown)
      /\ app' = IF app = "slot" THEN "taken" ELSE app
      /\ inSync' = IF app = "slot" THEN TRUE ELSE inSync
      /\ stage # "gone" /\ stage' = "destroying"
  BY DEF CompositorDestroyed
<1>3. \A i \in DOMAIN stack : stack[i].kind = "out" /\ stack[i].phase = "emit"
  BY StackFacts DEF CompositorDestroyed, At, Top, StackShape
<1>4. app # "taken"
  BY <1>3 DEF Bookkeeping, InShell
<1>5. TypeOK'
  <2>1. stack' \in Seq(Frame)
    BY <1>1, PushFacts
  <2>2. queue' \in Seq(Event \cup {Shutdown})
    BY <1>2, QueueFacts DEF TypeOK
  <2>3. box' \in [Box -> {"none", "live", "spent", "retired", "parked"}]
    BY <1>2 DEF TypeOK
  <2>4. depth' \in Nat /\ app' \in {"none", "slot", "taken"}
    BY <1>2 DEF TypeOK
  <2>5. inSync' \in BOOLEAN
    BY <1>2 DEF TypeOK
  <2> QED BY <1>2, <2>1, <2>2, <2>3, <2>4, <2>5 DEF TypeOK
<1>6. NoBoxFreedInUse'
  <2>1. (\A b \in Box : box[b] # "none" => box'[b] # "none") /\ box'[f.box] # "none"
    BY <1>0, <1>1, <1>2 DEF TypeOK
  <2> QED BY <1>1, <2>1, PushKeepsBoxes
<1>7. stack' # <<>> /\ ~AttachBase'
  <2>1. stack'[1].kind # "attach"
    BY <1>1, <1>3, StackFacts, PushFacts
  <2> QED BY <1>1, <2>1, PushFacts DEF AttachBase
<1>8. QuietBase' /\ Lifecycle'
  BY <1>0, <1>2, <1>7 DEF QuietBase, Lifecycle, TypeOK
<1>9. StackShape' /\ Bookkeeping' /\ ShellNotReentered'
  <2>1. stack # <<>> => Top.phase # "closing"
    BY <1>3, StackFacts DEF Top
  <2>2. /\ inSync' <=> inSync \/ f.phase = "sync"
        /\ app' = "taken" <=> app = "taken" \/ f.phase = "sync"
        /\ f.phase \in {"sync", "closing"}
    BY <1>1, <1>2 DEF TypeOK
  <2> QED BY <1>1, <1>2, <1>3, <1>4, <2>1, <2>2, PushPreserves
<1> QED
  BY <1>5, <1>6, <1>8, <1>9

LEMMA AttachSyncPreserves ==
  ASSUME IInv, AttachSync
  PROVE  IInv'
<1> USE DEF IInv
<1> DEFINE f == [kind |-> "attach", box |-> NoBox, phase |-> "sync"]
<1>1. /\ f \in Frame /\ f.kind = "attach" /\ f.box = NoBox /\ f.phase = "sync"
      /\ stack' = Push(f.kind, f.box, f.phase)
  BY DEF Frame, AttachSync
<1> HIDE DEF f
<1>2. /\ UNCHANGED <<queue, box, depth, draining, shuttingDown, current, stage>>
      /\ stack = <<>> /\ inSync' = TRUE /\ app' = "taken" /\ app = "slot"
  BY DEF AttachSync
<1>3. /\ Len(stack) = 0 /\ DOMAIN stack = {}
      /\ Len(stack') = 1 /\ DOMAIN stack' = {1} /\ stack'[1] = f /\ stack' # <<>>
  BY <1>1, <1>2, PushFacts
<1>4. TypeOK'
  BY <1>1, <1>2, PushFacts DEF TypeOK
<1>5. NoBoxFreedInUse'
  BY <1>1, <1>3 DEF NoBoxFreedInUse
<1>6. QuietBase' /\ Lifecycle'
  BY <1>2, <1>3 DEF QuietBase, Lifecycle
<1>7. StackShape' /\ ShellNotReentered'
  BY <1>1, <1>3 DEF StackShape, ShellNotReentered, Executing
<1>8. Bookkeeping'
  BY <1>1, <1>2, <1>3 DEF Bookkeeping, AttachBase, Executing, InShell
<1> QED
  BY <1>4, <1>5, <1>6, <1>7, <1>8

\* The frame on top leaves.
LEMMA PopPreserves ==
  ASSUME IInv, stack # <<>>, stack' = Pop,
         AttachBase => Len(stack) > 1 \/ Top.kind = "attach",
         depth' = depth - (IF Executing(Len(stack)) /\ Top.kind # "attach" THEN 1 ELSE 0),
         draining' <=> draining /\ Executing(Len(stack)),
         inSync' <=> inSync /\ Top.phase # "sync",
         app' = "taken" <=> app = "taken" /\ ~InShell(Len(stack)),
         stage' = stage
  PROVE  StackShape' /\ Bookkeeping' /\ ShellNotReentered'
<1> USE DEF IInv
<1>0. PICK n \in Nat : n = Len(stack)
  BY StackFacts
<1>1. /\ n > 0 /\ DOMAIN stack = 1 .. n
      /\ Len(stack') = n - 1 /\ DOMAIN stack' = 1 .. n - 1
      /\ (stack' = <<>> <=> n = 1)
      /\ \A i \in 1 .. n - 1 : stack'[i] = stack[i]
  BY <1>0, StackFacts, PopFacts
<1>2. n > 1 => (AttachBase' <=> AttachBase)
  BY <1>1 DEF AttachBase
<1>3. n = 1 => ~AttachBase'
  BY <1>1 DEF AttachBase
<1>4. /\ \A i \in 1 .. n - 1 : Executing(i)' <=> Executing(i)
      /\ \A i \in 1 .. n - 1 : InShell(i)' <=> InShell(i)
  BY <1>1 DEF Executing, InShell
<1>5. StackShape'
  <2>1. n > 1 => Edge' = Edge
    BY <1>2 DEF Edge
  <2> QED BY <1>0, <1>1, <1>2, <1>4, <2>1 DEF StackShape
<1>6. Bookkeeping'
  <2>1. draining' <=> \E i \in DOMAIN stack' : ~Executing(i)'
    <3>1. \A i, j \in 1 .. n : ~Executing(i) /\ ~Executing(j) => i = j
      BY <1>1 DEF StackShape
    <3> QED BY <1>0, <1>1, <1>4, <3>1 DEF Bookkeeping
  <2>2. inSync' <=> \E i \in DOMAIN stack' : stack'[i].phase = "sync"
    <3>1. \A i, j \in 1 .. n : stack[i].phase = "sync" /\ stack[j].phase = "sync" => i = j
      BY <1>1 DEF ShellNotReentered, InShell
    <3>2. inSync' <=> inSync /\ stack[n].phase # "sync"
      BY <1>0 DEF Top
    <3>3. inSync <=> \E i \in 1 .. n : stack[i].phase = "sync"
      BY <1>1 DEF Bookkeeping
    <3>4. n \in 1 .. n /\ 1 .. n - 1 = (1 .. n) \ {n}
      BY <1>1
    <3> HIDE DEF IInv
    <3> QED BY <1>1, <3>1, <3>2, <3>3, <3>4
  <2>3. app' = "taken" <=> \E i \in DOMAIN stack' : InShell(i)'
    <3>1. \A i, j \in 1 .. n : InShell(i) /\ InShell(j) => i = j
      BY <1>1 DEF ShellNotReentered
    <3> QED BY <1>0, <1>1, <1>4, <3>1 DEF Bookkeeping
  <2>4. depth' = Len(stack') - (IF AttachBase' THEN 1 ELSE 0) - (IF draining' THEN 1 ELSE 0)
    <3>1. Top.kind = "attach" => n = 1 /\ AttachBase /\ Executing(n)
      BY <1>0, <1>1 DEF StackShape, Top, AttachBase, Executing
    <3>2. ~Executing(n) => draining
      BY <1>0, <1>1 DEF Bookkeeping
    <3>3. n = 1 /\ Executing(n) => ~draining
      BY <1>0, <1>1 DEF Bookkeeping
    <3>4. AttachBase /\ n = 1 => Top.kind = "attach"
      BY <1>0, <1>1 DEF AttachBase, Top
    <3> DEFINE a == IF AttachBase THEN 1 ELSE 0
               d == IF draining THEN 1 ELSE 0
               a2 == IF AttachBase' THEN 1 ELSE 0
               d2 == IF draining' THEN 1 ELSE 0
    <3>5. depth = n - a - d /\ a \in {0, 1} /\ d \in {0, 1}
      BY <1>0 DEF Bookkeeping
    <3>6. Top.kind # "attach" => (AttachBase' <=> AttachBase)
      BY <1>0, <1>1, <1>2, <1>3, <3>4
    <3>7. CASE Top.kind = "attach"
      <4>1. depth' = depth - 0 /\ n = 1 /\ a = 1
        BY <1>0, <3>1, <3>7
      <4>2. d = 0 /\ d2 = 0 /\ a2 = 0
        BY <1>0, <1>3, <3>1, <3>3, <3>7
      <4> HIDE DEF a, d, a2, d2
      <4>3. depth' = n - 1 - a2 - d2
        BY <3>5, <4>1, <4>2
      <4> QED BY <1>1, <4>3 DEF a2, d2
    <3>8. CASE Top.kind # "attach" /\ Executing(n)
      <4>1. depth' = depth - 1 /\ a2 = a /\ d2 = d
        BY <1>0, <3>6, <3>8
      <4> HIDE DEF a, d, a2, d2
      <4>2. depth' = n - 1 - a2 - d2
        BY <3>5, <4>1
      <4> QED BY <1>1, <4>2 DEF a2, d2
    <3>9. CASE Top.kind # "attach" /\ ~Executing(n)
      <4>1. depth' = depth - 0 /\ a2 = a /\ d = 1 /\ d2 = 0
        BY <1>0, <3>2, <3>6, <3>9
      <4> HIDE DEF a, d, a2, d2
      <4>2. depth' = n - 1 - a2 - d2
        BY <3>5, <4>1
      <4> QED BY <1>1, <4>2 DEF a2, d2
    <3> QED BY <3>7, <3>8, <3>9
  <2> QED BY <2>1, <2>2, <2>3, <2>4 DEF Bookkeeping
<1>7. ShellNotReentered'
  BY <1>1, <1>4 DEF ShellNotReentered
<1> QED
  BY <1>5, <1>6, <1>7

LEMMA ReturnInnerPreserves ==
  ASSUME IInv, ReturnInner
  PROVE  IInv'
<1> USE DEF IInv
<1>0. PICK n \in Nat : n = Len(stack)
  BY StackFacts
<1>1. /\ UNCHANGED <<queue, box, draining, inSync, shuttingDown, app, current, stage>>
      /\ stack # <<>> /\ n > 0 /\ stack' = Pop
      /\ Top = stack[n] /\ Top.phase \in {"body", "emit"}
      /\ depth - 1 # 0 \/ draining
      /\ depth' = depth - 1
  BY <1>0, StackFacts DEF ReturnInner, Leaving, At, Top
<1>2. Executing(n) /\ ~InShell(n) /\ Top.kind # "attach"
  BY <1>0, <1>1, StackFacts DEF Executing, InShell, StackShape
<1>3. n > 1 /\ (AttachBase => n > 2)
  <2>1. n = 1 => ~draining
    BY <1>0, <1>2, StackFacts DEF Bookkeeping
  <2>2. n = 2 /\ AttachBase => ~draining
    BY <1>0, <1>2, StackFacts DEF Bookkeeping, StackShape, AttachBase, Executing
  <2>3. n = 1 => ~AttachBase
    BY <1>0, <1>1, <1>2 DEF AttachBase
  <2> QED BY <1>0, <1>1, <2>1, <2>2, <2>3 DEF Bookkeeping
<1>4. stack' # <<>> /\ (AttachBase' => AttachBase)
  BY <1>0, <1>1, <1>3, PopFacts DEF AttachBase
<1>5. TypeOK'
  <2>1. depth \in Nat /\ depth >= 1
    BY <1>0, <1>1, <1>3 DEF Bookkeeping, TypeOK
  <2> QED BY <1>1, <2>1, PopFacts DEF TypeOK
<1>6. NoBoxFreedInUse' /\ QuietBase' /\ Lifecycle'
  BY <1>0, <1>1, <1>4, PopFacts, StackFacts
     DEF NoBoxFreedInUse, Executing, QuietBase, Lifecycle
<1>7. StackShape' /\ Bookkeeping' /\ ShellNotReentered'
  BY <1>0, <1>1, <1>2, <1>3, PopPreserves
<1> QED
  BY <1>5, <1>6, <1>7

LEMMA DrainEndPreserves ==
  ASSUME IInv, DrainEnd
  PROVE  IInv'
<1> USE DEF IInv
<1>0. PICK n \in Nat : n = Len(stack)
  BY StackFacts
<1>1. /\ UNCHANGED <<queue, depth, inSync, shuttingDown, app, current, stage>>
      /\ stack # <<>> /\ n > 0 /\ stack' = Pop
      /\ Top = stack[n] /\ Top.phase = "drain"
      /\ queue = <<>> /\ draining' = FALSE
      /\ box' = [b \in Box |-> IF box[b] = "retired" THEN "none" ELSE box[b]]
  BY <1>0, StackFacts DEF DrainEnd, At, Top
<1>2. /\ ~Executing(n) /\ ~InShell(n) /\ Top.kind # "attach" /\ n = Edge
      /\ Top.phase # "sync"
  BY <1>0, <1>1, StackFacts DEF Executing, InShell, StackShape
<1>3. AttachBase => n > 1
  BY <1>0, <1>1, <1>2 DEF AttachBase
<1>4. TypeOK'
  BY <1>1, PopFacts DEF TypeOK
<1>5. \A i \in 1 .. n - 1 : stack[i].box = NoBox
  BY <1>0, <1>1, <1>2, StackFacts DEF Edge, AttachBase, StackShape
<1>6. NoBoxFreedInUse'
  BY <1>0, <1>1, <1>5, PopFacts DEF NoBoxFreedInUse
<1>7. \A b \in Box : box'[b] # "retired"
  BY <1>1 DEF TypeOK
<1>8. QuietBase' /\ Lifecycle'
  <2>1. DestroyBox \in Box /\ box'[DestroyBox] = box[DestroyBox]
    BY <1>1, DispatchAssumption DEF Lifecycle
  <2> QED BY <1>1, <1>7, <2>1 DEF QuietBase, Lifecycle
<1>9. StackShape' /\ Bookkeeping' /\ ShellNotReentered'
  <2>1. AttachBase => Len(stack) > 1
    BY <1>0, <1>3
  <2>2. depth' = depth - (IF Executing(Len(stack)) /\ Top.kind # "attach" THEN 1 ELSE 0)
    BY <1>0, <1>1, <1>2 DEF TypeOK
  <2>3. /\ draining' <=> draining /\ Executing(Len(stack))
        /\ inSync' <=> inSync /\ Top.phase # "sync"
        /\ app' = "taken" <=> app = "taken" /\ ~InShell(Len(stack))
    BY <1>0, <1>1, <1>2
  <2> QED BY <1>1, <2>1, <2>2, <2>3, PopPreserves
<1> QED
  BY <1>4, <1>6, <1>8, <1>9

\* The frame on top changes what it does.
LEMMA GoToPreserves ==
  ASSUME IInv, stack # <<>>,
         NEW phase \in {"body", "sync", "emit", "closing", "drain", "handle"},
         stack' = GoTo(phase),
         Top.kind # "attach", phase # "emit",
         phase = "closing" => Top.kind = "destroy",
         phase \in {"drain", "handle"} => Len(stack) = Edge,
         Top.kind = "destroy" => phase \in {"sync", "closing"} \/ stage' = "gone",
         phase \in {"sync", "handle"} => \A i \in DOMAIN stack : ~InShell(i),
         depth' = Len(stack) - (IF AttachBase THEN 1 ELSE 0)
                             - (IF draining' THEN 1 ELSE 0),
         draining' <=> (\/ phase \in {"drain", "handle"}
                        \/ \E i \in DOMAIN stack : i # Len(stack) /\ ~Executing(i)),
         inSync' <=> (\/ phase = "sync"
                      \/ \E i \in DOMAIN stack : i # Len(stack) /\ stack[i].phase = "sync"),
         app' = "taken" <=> (\/ phase \in {"sync", "handle"}
                             \/ \E i \in DOMAIN stack : i # Len(stack) /\ InShell(i)),
         stage = "gone" => stage' = "gone"
  PROVE  StackShape' /\ Bookkeeping' /\ ShellNotReentered'
<1> USE DEF IInv
<1>0. PICK n \in Nat : n = Len(stack)
  BY StackFacts
<1>1. /\ n > 0 /\ DOMAIN stack = 1 .. n
      /\ Len(stack') = n /\ DOMAIN stack' = 1 .. n /\ stack' # <<>>
      /\ \A i \in 1 .. n : i # n => stack'[i] = stack[i]
      /\ stack'[n].kind = stack[n].kind
      /\ stack'[n].box = stack[n].box
      /\ stack'[n].phase = phase
  BY <1>0, StackFacts, GoToFacts
<1>2. (AttachBase' <=> AttachBase) /\ Edge' = Edge
  BY <1>1 DEF AttachBase, Edge
<1>3. /\ \A i \in 1 .. n : i # n => (Executing(i)' <=> Executing(i))
      /\ \A i \in 1 .. n : i # n => (InShell(i)' <=> InShell(i))
      /\ Executing(n)' <=> phase \notin {"drain", "handle"}
      /\ InShell(n)' <=> phase \in {"sync", "handle"}
  BY <1>1 DEF Executing, InShell
<1>4. StackShape'
  BY <1>0, <1>1, <1>2, <1>3 DEF StackShape, Top
<1>5. Bookkeeping'
  <2>1. draining' <=> \E i \in DOMAIN stack' : ~Executing(i)'
    BY <1>0, <1>1, <1>3
  <2>2. inSync' <=> \E i \in DOMAIN stack' : stack'[i].phase = "sync"
    BY <1>0, <1>1
  <2>3. app' = "taken" <=> \E i \in DOMAIN stack' : InShell(i)'
    BY <1>0, <1>1, <1>3
  <2>4. depth' = Len(stack') - (IF AttachBase' THEN 1 ELSE 0) - (IF draining' THEN 1 ELSE 0)
    BY <1>0, <1>1, <1>2
  <2> QED BY <2>1, <2>2, <2>3, <2>4 DEF Bookkeeping
<1>6. ShellNotReentered'
  BY <1>0, <1>1, <1>3 DEF ShellNotReentered
<1> QED
  BY <1>4, <1>5, <1>6

\* ... and what it holds is still there.
LEMMA GoToKeeps ==
  ASSUME IInv, stack # <<>>,
         NEW phase \in {"body", "sync", "emit", "closing", "drain", "handle"},
         stack' = GoTo(phase), box' = box,
         phase \notin {"drain", "handle"} => Executing(Len(stack)),
         queue' = queue \/ queue # <<>>,
         UNCHANGED <<current, stage, shuttingDown>>,
         app' # "none" => app # "none"
  PROVE  NoBoxFreedInUse' /\ QuietBase' /\ Lifecycle'
<1> USE DEF IInv
<1>0. PICK n \in Nat : n = Len(stack)
  BY StackFacts
<1>1. /\ n > 0 /\ DOMAIN stack = 1 .. n
      /\ DOMAIN stack' = 1 .. n /\ stack' # <<>>
      /\ \A i \in 1 .. n : i # n => stack'[i] = stack[i]
      /\ stack'[n].kind = stack[n].kind
      /\ stack'[n].box = stack[n].box
      /\ stack'[n].phase = phase
  BY <1>0, StackFacts, GoToFacts
<1>2. NoBoxFreedInUse'
  BY <1>0, <1>1 DEF NoBoxFreedInUse, Executing
<1>3. AttachBase' => AttachBase
  BY <1>1 DEF AttachBase
<1>4. QuietBase'
  BY <1>1, <1>3 DEF QuietBase
<1>5. Lifecycle'
  BY DEF Lifecycle
<1> QED
  BY <1>2, <1>4, <1>5

LEMMA ReturnOutermostPreserves ==
  ASSUME IInv, ReturnOutermost
  PROVE  IInv'
<1> USE DEF IInv
<1>0. PICK n \in Nat : n = Len(stack)
  BY StackFacts
<1>1. /\ UNCHANGED <<queue, box, inSync, shuttingDown, app, current, stage>>
      /\ stack # <<>> /\ n > 0 /\ stack' = GoTo("drain")
      /\ Top = stack[n] /\ Top.phase \in {"body", "emit"}
      /\ Top.kind = "destroy" => ~current
      /\ depth = 1 /\ ~draining /\ depth' = 0 /\ draining' = TRUE
  BY <1>0, StackFacts DEF ReturnOutermost, Leaving, At, Top, TypeOK
<1>2. /\ Top.kind # "attach"
      /\ ~InShell(n) /\ \A i \in DOMAIN stack : Executing(i)
  BY <1>0, <1>1, StackFacts DEF InShell, StackShape, Bookkeeping
<1>3. n = Edge /\ n = 1 + (IF AttachBase THEN 1 ELSE 0)
  BY <1>0, <1>1 DEF Bookkeeping, Edge
<1>4. TypeOK'
  BY <1>1, GoToFacts DEF TypeOK
<1>5. NoBoxFreedInUse' /\ QuietBase' /\ Lifecycle'
  BY <1>1, GoToKeeps
<1>6. StackShape' /\ Bookkeeping' /\ ShellNotReentered'
  <2>1. Top.kind = "destroy" => stage' = "gone"
    BY <1>1 DEF Lifecycle
  <2>2. depth' = Len(stack) - (IF AttachBase THEN 1 ELSE 0) - (IF draining' THEN 1 ELSE 0)
    BY <1>0, <1>1, <1>3
  <2>3. inSync' <=> \E i \in DOMAIN stack : i # Len(stack) /\ stack[i].phase = "sync"
    BY <1>0, <1>1 DEF Bookkeeping
  <2>4. app' = "taken" <=> \E i \in DOMAIN stack : i # Len(stack) /\ InShell(i)
    BY <1>0, <1>1, <1>2 DEF Bookkeeping
  <2> QED BY <1>0, <1>1, <1>2, <1>3, <2>1, <2>2, <2>3, <2>4, GoToPreserves
<1> QED
  BY <1>4, <1>5, <1>6

\* The frame that enters the shell: nothing below it is inside.
LEMMA DispatchSyncPreserves ==
  ASSUME IInv, DispatchSync
  PROVE  IInv'
<1> USE DEF IInv
<1>0. PICK n \in Nat : n = Len(stack)
  BY StackFacts
<1>1. /\ UNCHANGED <<queue, box, depth, draining, shuttingDown, current, stage>>
      /\ stack # <<>> /\ n > 0 /\ stack' = GoTo("sync")
      /\ Top = stack[n] /\ Top.phase = "body" /\ Top.kind = "cb"
      /\ app = "slot" /\ app' = "taken" /\ inSync' = TRUE
  BY <1>0, StackFacts DEF DispatchSync, At, Top
<1>2. Executing(n) /\ \A i \in DOMAIN stack : ~InShell(i)
  BY <1>0, <1>1 DEF Executing, Bookkeeping
<1>3. TypeOK'
  BY <1>1, GoToFacts DEF TypeOK
<1>4. NoBoxFreedInUse' /\ QuietBase' /\ Lifecycle'
  BY <1>0, <1>1, <1>2, GoToKeeps
<1>5. StackShape' /\ Bookkeeping' /\ ShellNotReentered'
  <2>1. depth' = Len(stack) - (IF AttachBase THEN 1 ELSE 0) - (IF draining' THEN 1 ELSE 0)
    BY <1>1 DEF Bookkeeping
  <2>2. draining' <=> \E i \in DOMAIN stack : i # Len(stack) /\ ~Executing(i)
    BY <1>0, <1>1, <1>2 DEF Bookkeeping
  <2> QED BY <1>1, <1>2, <2>1, <2>2, GoToPreserves
<1> QED
  BY <1>3, <1>4, <1>5

LEMMA SyncReturnPreserves ==
  ASSUME IInv, SyncReturn
  PROVE  IInv'
<1> USE DEF IInv
<1>0. PICK n \in Nat : n = Len(stack)
  BY StackFacts
<1>1. /\ UNCHANGED <<queue, box, depth, draining, shuttingDown, current, stage>>
      /\ stack # <<>> /\ n > 0 /\ DOMAIN stack = 1 .. n
      /\ Top = stack[n] /\ Top.phase = "sync"
      /\ app' = "slot" /\ inSync' = FALSE
  BY <1>0, StackFacts DEF SyncReturn, At, Top
<1>2. /\ Executing(n) /\ InShell(n) /\ app = "taken"
      /\ \A i \in DOMAIN stack : i # n => ~InShell(i) /\ stack[i].phase # "sync"
  BY <1>0, <1>1 DEF Executing, InShell, Bookkeeping, ShellNotReentered
<1>3. CASE Top.kind = "attach"
  <2>1. n = 1 /\ AttachBase /\ stack' = Pop /\ stack' = <<>>
    BY <1>0, <1>1, <1>3, PopFacts DEF SyncReturn, StackShape, AttachBase
  <2>2. TypeOK'
    BY <1>1, PopFacts, <2>1 DEF TypeOK
  <2>3. NoBoxFreedInUse' /\ QuietBase' /\ Lifecycle'
    BY <1>1, <1>2, <2>1 DEF NoBoxFreedInUse, QuietBase, Lifecycle
  <2>4. StackShape' /\ Bookkeeping' /\ ShellNotReentered'
    <3>1. depth' = depth - (IF Executing(Len(stack)) /\ Top.kind # "attach" THEN 1 ELSE 0)
      BY <1>1, <1>3 DEF TypeOK
    <3>2. /\ draining' <=> draining /\ Executing(Len(stack))
          /\ inSync' <=> inSync /\ Top.phase # "sync"
          /\ app' = "taken" <=> app = "taken" /\ ~InShell(Len(stack))
      BY <1>0, <1>1, <1>2
    <3> QED BY <1>1, <1>3, <2>1, <3>1, <3>2, PopPreserves
  <2> QED BY <2>2, <2>3, <2>4
<1>4. CASE Top.kind # "attach"
  <2>1. PICK phase \in {"body", "closing"} :
          stack' = GoTo(phase) /\ (phase = "closing" <=> Top.kind = "destroy")
    BY <1>4 DEF SyncReturn
  <2>2. TypeOK'
    BY <1>1, <2>1, GoToFacts DEF TypeOK
  <2>3. NoBoxFreedInUse' /\ QuietBase' /\ Lifecycle'
    BY <1>0, <1>1, <1>2, <2>1, GoToKeeps
  <2>4. StackShape' /\ Bookkeeping' /\ ShellNotReentered'
    <3>1. depth' = Len(stack) - (IF AttachBase THEN 1 ELSE 0) - (IF draining' THEN 1 ELSE 0)
      BY <1>1 DEF Bookkeeping
    <3>2. draining' <=> \E i \in DOMAIN stack : i # Len(stack) /\ ~Executing(i)
      BY <1>0, <1>1, <1>2 DEF Bookkeeping
    <3>3. /\ ~ \E i \in DOMAIN stack : i # Len(stack) /\ stack[i].phase = "sync"
          /\ ~ \E i \in DOMAIN stack : i # Len(stack) /\ InShell(i)
      BY <1>0, <1>2
    <3> QED BY <1>1, <1>4, <2>1, <3>1, <3>2, <3>3, GoToPreserves
  <2> QED BY <2>2, <2>3, <2>4
<1> QED
  BY <1>3, <1>4

\* The drain loop moves between its two phases.
LEMMA DrainLoopPreserves ==
  ASSUME IInv, DrainDeliver \/ HandlerReturn
  PROVE  IInv'
<1> USE DEF IInv
<1>0. PICK n \in Nat : n = Len(stack)
  BY StackFacts
<1>1. PICK phase \in {"handle", "drain"} :
        /\ UNCHANGED <<box, depth, draining, inSync, shuttingDown, current, stage>>
        /\ stack # <<>> /\ n > 0 /\ DOMAIN stack = 1 .. n /\ stack' = GoTo(phase)
        /\ Top = stack[n] /\ Top.phase \in {"drain", "handle"}
        /\ phase = "handle" => app = "slot" /\ app' = "taken"
        /\ phase = "drain" => Top.phase = "handle" /\ app' = "slot"
        /\ queue' = queue \/ (queue # <<>> /\ queue' = Tail(queue))
  BY <1>0, StackFacts DEF DrainDeliver, HandlerReturn, At, Top
<1>2. /\ ~Executing(n) /\ n = Edge /\ Top.kind # "attach" /\ draining
      /\ Top.kind = "destroy" => stage = "gone"
  BY <1>0, <1>1 DEF Executing, Bookkeeping, StackShape
<1>3. \A i \in DOMAIN stack : i # n => ~InShell(i)
  <2>1. CASE phase = "handle"
    BY <1>1, <2>1 DEF Bookkeeping
  <2>2. CASE phase = "drain"
    BY <1>0, <1>1, <2>2 DEF ShellNotReentered, InShell
  <2> QED BY <2>1, <2>2
<1>4. app' # "none" => app # "none"
  <2>1. phase = "drain" => InShell(n)
    BY <1>1 DEF InShell
  <2> QED BY <1>0, <1>1, <2>1 DEF Bookkeeping
<1>5. TypeOK'
  BY <1>1, GoToFacts, HeadTailProperties DEF TypeOK
<1>6. NoBoxFreedInUse' /\ QuietBase' /\ Lifecycle'
  BY <1>1, <1>4, GoToKeeps
<1>7. StackShape' /\ Bookkeeping' /\ ShellNotReentered'
  <2>1. depth' = Len(stack) - (IF AttachBase THEN 1 ELSE 0) - (IF draining' THEN 1 ELSE 0)
    BY <1>1 DEF Bookkeeping
  <2>2. inSync' <=> \E i \in DOMAIN stack : i # Len(stack) /\ stack[i].phase = "sync"
    BY <1>0, <1>1 DEF Bookkeeping
  <2>3. app' = "taken" <=> phase = "handle"
    BY <1>1
  <2>4. phase = "handle" => \A i \in DOMAIN stack : ~InShell(i)
    BY <1>1 DEF Bookkeeping
  <2> QED BY <1>0, <1>1, <1>2, <1>3, <2>1, <2>2, <2>3, <2>4, GoToPreserves
<1> QED
  BY <1>5, <1>6, <1>7

LEMMA TeardownPreserves ==
  ASSUME IInv, Teardown
  PROVE  IInv'
<1> USE DEF IInv
<1>0. PICK n \in Nat : n = Len(stack)
  BY StackFacts
<1>1. /\ UNCHANGED <<depth, draining, inSync>>
      /\ stack # <<>> /\ n > 0 /\ DOMAIN stack = 1 .. n /\ stack' = GoTo("body")
      /\ Top = stack[n] /\ Top.phase = "closing"
      /\ shuttingDown' = TRUE /\ queue' = <<>> /\ app' = "none"
      /\ current' = FALSE /\ stage' = "gone"
      /\ box' = BoxesAfterTeardown
  BY <1>0, StackFacts DEF Teardown, ClearContext, At, Top
<1>2. /\ Top.kind = "destroy" /\ Top.box = DestroyBox
      /\ \A i \in 1 .. n - 1 : stack[i].kind = "out" /\ stack[i].phase = "emit"
                              /\ stack[i].box = NoBox
  BY <1>0, <1>1 DEF StackShape
<1>3. Executing(n) /\ \A i \in DOMAIN stack : ~InShell(i)
  BY <1>1, <1>2 DEF Executing, InShell
<1>4. TypeOK'
  BY <1>1, GoToFacts, EmptySeq DEF TypeOK, BoxesAfterTeardown
<1>5. NoBoxFreedInUse'
  <2>1. DestroyBox \in Box /\ box[DestroyBox] # "none"
    BY <1>0, <1>1, <1>2, <1>3, DispatchAssumption DEF NoBoxFreedInUse
  <2>2. box'[DestroyBox] # "none"
    BY <1>1, <2>1, DispatchAssumption DEF BoxesAfterTeardown
  <2> QED BY <1>0, <1>1, <1>2, <2>2, GoToFacts DEF NoBoxFreedInUse
<1>6. QuietBase' /\ Lifecycle'
  BY <1>1, DispatchAssumption DEF QuietBase, Lifecycle, BoxesAfterTeardown
<1>7. StackShape' /\ Bookkeeping' /\ ShellNotReentered'
  <2>1. depth' = Len(stack) - (IF AttachBase THEN 1 ELSE 0) - (IF draining' THEN 1 ELSE 0)
    BY <1>1 DEF Bookkeeping
  <2>2. draining' <=> \E i \in DOMAIN stack : i # Len(stack) /\ ~Executing(i)
    BY <1>0, <1>1, <1>3 DEF Bookkeeping
  <2>3. inSync' <=> \E i \in DOMAIN stack : i # Len(stack) /\ stack[i].phase = "sync"
    BY <1>0, <1>1 DEF Bookkeeping
  <2> QED BY <1>1, <1>2, <1>3, <2>1, <2>2, <2>3, GoToPreserves
<1> QED
  BY <1>4, <1>5, <1>6, <1>7

LEMMA NextPreserves == IInv /\ [Next]_vars => IInv'
<1> SUFFICES ASSUME IInv, [Next]_vars PROVE IInv'
  OBVIOUS
<1>1. CASE \E b \in Box \cup {NoBox} : Callback(b)
  BY <1>1, CallbackPreserves
<1>2. CASE \E b \in Box : NewBox(b) \/ Retire(b)
  BY <1>2, BoxesPreserve
<1>3. CASE \E e \in Event : Enqueue(e) \/ DispatchSyncDeferred(e)
  BY <1>3, EnqueuePreserves
<1>4. CASE Outbound \/ ReturnInner \/ ReturnOutermost
  BY <1>4, OutboundPreserves, ReturnInnerPreserves, ReturnOutermostPreserves
<1>5. CASE DispatchSync \/ AttachSync \/ SyncReturn
  BY <1>5, DispatchSyncPreserves, AttachSyncPreserves, SyncReturnPreserves
<1>6. CASE DrainDeliver \/ DrainDiscard \/ HandlerReturn \/ DrainEnd
  BY <1>6, DrainLoopPreserves, DrainDiscardPreserves, DrainEndPreserves
<1>7. CASE AttachShell \/ Run \/ BeginDrop \/ TeardownUnattached
  BY <1>7, BaseStepsPreserve
<1>8. CASE CompositorDestroyed \/ Teardown
  BY <1>8, CompositorDestroyedPreserves, TeardownPreserves
<1>9. CASE Exited \/ UNCHANGED vars
  <2>1. UNCHANGED <<stack, queue, box, depth, draining, inSync, shuttingDown,
                    app, current, stage>>
    BY <1>9 DEF Exited, vars, flags
  <2>2. TypeOK' /\ NoBoxFreedInUse' /\ QuietBase' /\ Lifecycle'
    BY <2>1 DEF IInv, TypeOK, NoBoxFreedInUse, Executing, QuietBase, AttachBase, Lifecycle
  <2> QED BY <2>1, <2>2, SameStackPreserves DEF IInv
<1> QED
  BY <1>1, <1>2, <1>3, <1>4, <1>5, <1>6, <1>7, <1>8, <1>9 DEF Next

-------------------------------------------------------------------------------
(***************************************************************************)
(* The refinement of ShellEvents.                                          *)
(***************************************************************************)

DestroyFrame == \E i \in DOMAIN stack : stack[i].kind = "destroy"

\* A destroy frame is inside the shell, on top after it, or past the teardown.
LEMMA SeenFacts ==
  ASSUME IInv, app # "taken"
  PROVE  /\ DestroyFrame => stage = "gone" \/ (stack # <<>> /\ Top.phase = "closing")
         /\ app = "none" => (ShutdownSeen <=> stage = "gone")
BY DEF DestroyFrame, ShutdownSeen, IInv, StackShape, Bookkeeping, InShell, Top

LEMMA SeenPush ==
  ASSUME IInv, NEW f \in Frame, stack' = Push(f.kind, f.box, f.phase),
         f.kind # "destroy", UNCHANGED <<app, stage>>
  PROVE  ShutdownSeen' <=> ShutdownSeen
<1>1. /\ DOMAIN stack = 1 .. Len(stack) /\ Len(stack) \in Nat
      /\ DOMAIN stack' = 1 .. Len(stack) + 1
      /\ \A i \in 1 .. Len(stack) : stack'[i] = stack[i]
      /\ stack'[Len(stack) + 1] = f
  BY StackFacts, PushFacts DEF IInv
<1>2. DestroyFrame' <=> DestroyFrame
  BY <1>1 DEF DestroyFrame
<1> QED
  BY <1>2 DEF ShutdownSeen, DestroyFrame

LEMMA SeenPop ==
  ASSUME IInv, stack # <<>>, stack' = Pop, Top.kind = "destroy" => stage = "gone",
         app' # "none" <=> app # "none", stage' = stage
  PROVE  ShutdownSeen' <=> ShutdownSeen
<1>1. /\ DOMAIN stack = 1 .. Len(stack) /\ Len(stack) \in Nat /\ Len(stack) > 0
      /\ DOMAIN stack' = 1 .. Len(stack) - 1
      /\ \A i \in 1 .. Len(stack) - 1 : stack'[i] = stack[i]
  BY StackFacts, PopFacts DEF IInv
<1>2. stage = "gone" \/ (DestroyFrame' <=> DestroyFrame)
  BY <1>1 DEF DestroyFrame, Top
<1> QED
  BY <1>2 DEF ShutdownSeen, DestroyFrame

LEMMA SeenGoTo ==
  ASSUME IInv, stack # <<>>,
         NEW phase \in {"body", "sync", "emit", "closing", "drain", "handle"},
         stack' = GoTo(phase), app' # "none" <=> app # "none", stage' = stage
  PROVE  ShutdownSeen' <=> ShutdownSeen
<1>1. /\ DOMAIN stack = 1 .. Len(stack) /\ DOMAIN stack' = DOMAIN stack
      /\ \A i \in DOMAIN stack : stack'[i].kind = stack[i].kind
  BY StackFacts, GoToFacts DEF IInv
<1>2. DestroyFrame' <=> DestroyFrame
  BY <1>1 DEF DestroyFrame
<1> QED
  BY <1>2 DEF ShutdownSeen, DestroyFrame

\* Nothing the shell can tell changed.
Unseen == /\ UNCHANGED <<queue, shuttingDown>>
          /\ app' = "taken" <=> app = "taken"
          /\ app' # "none" <=> app # "none"
          /\ ShutdownSeen' <=> ShutdownSeen

\* Equal truth values are equal.
LEMMA SeenEqual ==
  /\ (ShutdownSeen' <=> ShutdownSeen) => ShutdownSeen' = ShutdownSeen
  /\ (app' = "taken" <=> app = "taken") => (app' = "taken") = (app = "taken")
  /\ (app' # "none" <=> app # "none") => (app' # "none") = (app # "none")
BY DEF ShutdownSeen

LEMMA UnseenStutters == Unseen => UNCHANGED Abstract!shellVars
BY SeenEqual DEF Unseen, Abstract!shellVars

LEMMA InnerStepsStutter ==
  ASSUME IInv,
         \/ \E b \in Box \cup {NoBox} : Callback(b)
         \/ \E b \in Box : NewBox(b) \/ Retire(b)
         \/ Outbound \/ ReturnInner \/ ReturnOutermost \/ DrainEnd \/ Run
         \/ Exited \/ UNCHANGED vars
  PROVE  Unseen
<1> USE DEF Unseen
<1>1. CASE \E b \in Box \cup {NoBox} : Callback(b)
  <2> PICK b \in Box \cup {NoBox} : Callback(b)
    BY <1>1
  <2> DEFINE f == [kind |-> "cb", box |-> b, phase |-> "body"]
  <2>1. /\ f \in Frame /\ f.kind # "destroy"
        /\ stack' = Push(f.kind, f.box, f.phase)
        /\ UNCHANGED <<queue, shuttingDown, app, stage>>
    BY DEF Frame, Callback
  <2> HIDE DEF f
  <2> QED BY <2>1, SeenPush
<1>2. CASE Outbound
  <2> DEFINE f == [kind |-> "out", box |-> NoBox, phase |-> "emit"]
  <2>1. /\ f \in Frame /\ f.kind # "destroy"
        /\ stack' = Push(f.kind, f.box, f.phase)
        /\ UNCHANGED <<queue, shuttingDown, app, stage>>
    BY <1>2 DEF Frame, Outbound
  <2> HIDE DEF f
  <2> QED BY <2>1, SeenPush
<1>3. CASE ReturnInner
  <2>1. /\ UNCHANGED <<queue, shuttingDown, app, stage>>
        /\ stack # <<>> /\ stack' = Pop
        /\ Top.kind = "destroy" => stage = "gone"
    BY <1>3 DEF ReturnInner, Leaving, At, IInv, Lifecycle
  <2> QED BY <2>1, SeenPop
<1>4. CASE ReturnOutermost
  <2>1. /\ UNCHANGED <<queue, shuttingDown, app, stage>>
        /\ stack # <<>> /\ stack' = GoTo("drain")
    BY <1>4 DEF ReturnOutermost, Leaving, At
  <2> QED BY <2>1, SeenGoTo
<1>5. CASE DrainEnd
  <2>1. /\ UNCHANGED <<queue, shuttingDown, app, stage>>
        /\ stack # <<>> /\ stack' = Pop /\ Top.phase = "drain"
    BY <1>5 DEF DrainEnd, At
  <2>2. Top.kind = "destroy" => stage = "gone"
    BY <2>1, StackFacts DEF IInv, StackShape, Top
  <2> QED BY <2>1, <2>2, SeenPop
<1>6. CASE (\E b \in Box : NewBox(b) \/ Retire(b)) \/ Run \/ Exited \/ UNCHANGED vars
  <2>1. UNCHANGED <<stack, queue, shuttingDown, app>>
    BY <1>6 DEF NewBox, Retire, Run, Exited, vars, flags
  <2>2. stage' = "gone" <=> stage = "gone"
    BY <1>6 DEF NewBox, Retire, Run, Exited, vars, flags
  <2> QED BY <2>1, <2>2 DEF ShutdownSeen
<1> QED
  BY <1>1, <1>2, <1>3, <1>4, <1>5, <1>6

LEMMA PostRefines ==
  ASSUME IInv, NEW e \in Event, Enqueue(e) \/ DispatchSyncDeferred(e)
  PROVE  Unseen \/ Abstract!Post(e)
<1>1. /\ UNCHANGED <<stack, shuttingDown, app, stage>>
      /\ queue' = AfterEnqueue(e)
  BY DEF Enqueue, DispatchSyncDeferred, flags
<1>2. ShutdownSeen' <=> ShutdownSeen
  BY <1>1 DEF ShutdownSeen
<1> QED
  BY <1>1, <1>2 DEF Unseen, AfterEnqueue, Abstract!Post

LEMMA DeliveryRefines ==
  ASSUME IInv, DispatchSync \/ AttachSync \/ DrainDeliver
  PROVE  Abstract!DeliverNow \/ Abstract!DeliverPending
<1> USE DEF Abstract!DeliverNow, Abstract!DeliverPending, Abstract!CanDeliver
<1>1. app = "slot" /\ app' = "taken" /\ UNCHANGED <<shuttingDown, stage>>
  BY DEF DispatchSync, AttachSync, DrainDeliver
<1>2. ~shuttingDown /\ stage # "gone"
  BY DEF DispatchSync, AttachSync, DrainDeliver, IInv, Lifecycle
<1>3. stack # <<>> => Top.phase # "closing"
  BY DEF DispatchSync, AttachSync, DrainDeliver, At
<1>4. ~ShutdownSeen
  BY <1>1, <1>2, <1>3, SeenFacts DEF ShutdownSeen, DestroyFrame
<1>5. CASE DispatchSync
  <2>1. stack # <<>> /\ stack' = GoTo("sync") /\ queue' = queue
    BY <1>5 DEF DispatchSync, At
  <2> QED BY <1>1, <1>2, <1>4, <2>1, SeenGoTo, SeenEqual
<1>6. CASE AttachSync
  <2> DEFINE f == [kind |-> "attach", box |-> NoBox, phase |-> "sync"]
  <2>1. /\ f \in Frame /\ f.kind = "attach"
        /\ stack' = Push(f.kind, f.box, f.phase)
        /\ stack = <<>> /\ queue' = queue
    BY <1>6 DEF Frame, AttachSync
  <2> HIDE DEF f
  <2>2. ~DestroyFrame'
    BY <2>1, StackFacts, PushFacts DEF DestroyFrame, IInv
  <2> QED BY <1>1, <1>2, <1>4, <2>1, <2>2 DEF ShutdownSeen, DestroyFrame
<1>7. CASE DrainDeliver
  <2>1. stack # <<>> /\ stack' = GoTo("handle") /\ queue # <<>> /\ queue' = Tail(queue)
    BY <1>7 DEF DrainDeliver, At
  <2> QED BY <1>1, <1>2, <1>4, <2>1, SeenGoTo, SeenEqual
<1> QED
  BY <1>5, <1>6, <1>7

LEMMA DrainDiscardRefines ==
  ASSUME IInv, DrainDiscard
  PROVE  Abstract!Drop
<1>1. /\ UNCHANGED <<stack, shuttingDown, app, stage>>
      /\ stack # <<>> /\ Top.phase = "drain"
      /\ queue # <<>> /\ queue' = Tail(queue)
      /\ shuttingDown \/ app # "slot"
  BY DEF DrainDiscard, flags, At
<1>2. ShutdownSeen' <=> ShutdownSeen
  BY <1>1 DEF ShutdownSeen
<1>3. app # "taken"
  <2> SUFFICES ASSUME app = "taken" PROVE FALSE
    OBVIOUS
  <2>0. PICK n \in Nat : n = Len(stack)
    BY StackFacts DEF IInv
  <2>1. PICK i \in 1 .. n : InShell(i)
    BY <2>0, StackFacts DEF IInv, Bookkeeping
  <2>2. n > 0 /\ stack[n].phase = "drain"
    BY <1>1, <2>0, StackFacts DEF IInv, Top
  <2>3. n = Edge
    BY <2>0, <2>2, StackFacts DEF IInv, StackShape, Executing
  <2>4. i # n
    BY <2>1, <2>2 DEF InShell
  <2>5. AttachBase
    BY <2>1, <2>3, <2>4 DEF Edge
  <2> QED BY <1>1, <2>5 DEF IInv, QuietBase
<1> QED
  BY <1>1, <1>2, <1>3 DEF Abstract!Drop, IInv, TypeOK

LEMMA FinishRefines ==
  ASSUME IInv, SyncReturn \/ HandlerReturn
  PROVE  Abstract!Finish
<1>0. PICK n \in Nat : n = Len(stack)
  BY StackFacts DEF IInv
<1>1. /\ UNCHANGED <<queue, shuttingDown, stage>> /\ app' = "slot"
      /\ stack # <<>> /\ n > 0 /\ DOMAIN stack = 1 .. n
      /\ Top = stack[n] /\ Top.phase \in {"sync", "handle"}
  BY <1>0, StackFacts DEF SyncReturn, HandlerReturn, At, Top, IInv
<1>2. app = "taken"
  BY <1>0, <1>1 DEF IInv, Bookkeeping, InShell
<1>3. ShutdownSeen' <=> ShutdownSeen
  <2>1. CASE stack' = Pop /\ Top.kind = "attach"
    BY <1>1, <1>2, <2>1, SeenPop
  <2>2. CASE \E phase \in {"body", "closing", "drain"} : stack' = GoTo(phase)
    BY <1>1, <1>2, <2>2, SeenGoTo
  <2> QED BY <2>1, <2>2 DEF SyncReturn, HandlerReturn
<1> QED
  BY <1>1, <1>2, <1>3 DEF Abstract!Finish

LEMMA LifecycleRefines ==
  ASSUME IInv, AttachShell \/ BeginDrop \/ TeardownUnattached
  PROVE  Unseen \/ Abstract!Install \/ Abstract!Close \/ Abstract!Gone
<1>1. stack = <<>> /\ stack' = <<>> /\ stage # "gone"
  BY DEF AttachShell, BeginDrop, TeardownUnattached
<1>2. app # "taken" /\ ~ShutdownSeen
  BY <1>1 DEF IInv, Bookkeeping, ShutdownSeen
<1>3. CASE AttachShell
  <2>1. app = "none" /\ app' \in {"none", "slot"} /\ UNCHANGED <<queue, shuttingDown>>
    BY <1>3 DEF AttachShell, IInv, Lifecycle
  <2>2. ~ShutdownSeen'
    BY <1>1, <1>3 DEF AttachShell, ShutdownSeen
  <2> QED BY <1>2, <2>1, <2>2, SeenEqual DEF Unseen, Abstract!Install
<1>4. CASE BeginDrop
  <2>1. ~ShutdownSeen' /\ UNCHANGED <<queue, app>> /\ shuttingDown' = TRUE
    BY <1>1, <1>4 DEF BeginDrop, ShutdownSeen
  <2> QED BY <1>2, <2>1, SeenEqual DEF Abstract!Close
<1>5. CASE TeardownUnattached
  <2>1. app = "none" /\ app' = "none" /\ queue' = <<>> /\ shuttingDown' = TRUE
    BY <1>5 DEF TeardownUnattached, ClearContext, IInv, Lifecycle
  <2>2. ShutdownSeen'
    BY <1>5 DEF TeardownUnattached, ClearContext, ShutdownSeen
  <2> QED BY <2>1, <2>2 DEF Abstract!Gone
<1> QED
  BY <1>3, <1>4, <1>5

LEMMA CompositorDestroyedRefines ==
  ASSUME IInv, CompositorDestroyed
  PROVE  Unseen \/ Abstract!DeliverShutdown \/ Abstract!Post(Shutdown)
<1>1. /\ stage # "gone" /\ stage' = "destroying" /\ shuttingDown' = shuttingDown
      /\ stack = <<>> \/ (Len(stack) = 1 /\ stack[1].phase = "emit")
  BY DEF CompositorDestroyed, At, Top
<1>2. \A i \in DOMAIN stack : ~InShell(i) /\ stack[i].kind = "out"
  BY <1>1, StackFacts DEF InShell, IInv, StackShape
<1>3. app # "taken" /\ ~ShutdownSeen
  BY <1>1, <1>2 DEF IInv, Bookkeeping, ShutdownSeen
<1>4. CASE app = "slot"
  <2> DEFINE f == [kind |-> "destroy", box |-> DestroyBox, phase |-> "sync"]
  <2>1. /\ f \in Frame /\ f.kind = "destroy"
        /\ stack' = Push(f.kind, f.box, f.phase)
        /\ app' = "taken" /\ queue' = queue
    BY <1>4, DispatchAssumption DEF Frame, CompositorDestroyed
  <2> HIDE DEF f
  <2>2. ShutdownSeen'
    BY <2>1, StackFacts, PushFacts DEF ShutdownSeen, IInv
  <2> QED BY <1>1, <1>3, <1>4, <2>1, <2>2, SeenEqual DEF Abstract!DeliverShutdown
<1>5. CASE app = "none"
  <2>1. app' = "none" /\ queue' = AfterEnqueue(Shutdown)
    BY <1>5 DEF CompositorDestroyed
  <2>2. ~ShutdownSeen'
    BY <1>1, <2>1 DEF ShutdownSeen
  <2> QED BY <1>1, <1>3, <1>5, <2>1, <2>2, SeenEqual DEF Unseen, AfterEnqueue, Abstract!Post
<1> QED
  BY <1>3, <1>4, <1>5 DEF IInv, TypeOK

LEMMA TeardownRefines ==
  ASSUME IInv, Teardown
  PROVE  Abstract!Gone
<1>0. PICK n \in Nat : n = Len(stack)
  BY StackFacts DEF IInv
<1>1. /\ n > 0 /\ DOMAIN stack = 1 .. n /\ stack[n].phase = "closing"
      /\ shuttingDown' = TRUE /\ queue' = <<>> /\ app' = "none" /\ stage' = "gone"
  BY <1>0, StackFacts DEF Teardown, ClearContext, At, Top, IInv
<1>2. /\ stack[n].kind = "destroy"
      /\ \A i \in 1 .. n - 1 : stack[i].phase = "emit"
  BY <1>1 DEF IInv, StackShape
<1>3. app # "taken"
  BY <1>1, <1>2 DEF IInv, Bookkeeping, InShell
<1>4. (app # "none" => ShutdownSeen) /\ ShutdownSeen'
  BY <1>1, <1>2 DEF ShutdownSeen
<1> QED
  BY <1>1, <1>3, <1>4 DEF Abstract!Gone

LEMMA NextRefines == IInv /\ [Next]_vars => [Abstract!ShellNext]_(Abstract!shellVars)
<1> SUFFICES ASSUME IInv, [Next]_vars
             PROVE  Unseen \/ Abstract!ShellNext
  BY UnseenStutters
<1> USE DEF Abstract!ShellNext
<1>1. CASE \/ \E b \in Box \cup {NoBox} : Callback(b)
           \/ \E b \in Box : NewBox(b) \/ Retire(b)
           \/ Outbound \/ ReturnInner \/ ReturnOutermost \/ DrainEnd \/ Run
           \/ Exited \/ UNCHANGED vars
  BY <1>1, InnerStepsStutter
<1>2. CASE \E e \in Event : Enqueue(e) \/ DispatchSyncDeferred(e)
  BY <1>2, PostRefines
<1>3. CASE DispatchSync \/ AttachSync \/ DrainDeliver
  BY <1>3, DeliveryRefines
<1>4. CASE DrainDiscard
  BY <1>4, DrainDiscardRefines
<1>5. CASE SyncReturn \/ HandlerReturn
  BY <1>5, FinishRefines
<1>6. CASE AttachShell \/ BeginDrop \/ TeardownUnattached
  BY <1>6, LifecycleRefines
<1>7. CASE CompositorDestroyed
  BY <1>7, CompositorDestroyedRefines
<1>8. CASE Teardown
  BY <1>8, TeardownRefines
<1> QED
  BY <1>1, <1>2, <1>3, <1>4, <1>5, <1>6, <1>7, <1>8 DEF Next

-------------------------------------------------------------------------------
(***************************************************************************)
(* The theorems.                                                           *)
(***************************************************************************)

\* Every field of the context keeps its type; in particular the depth counter
\* never goes below zero (ctx.rs, with_depth).
THEOREM TypeCorrect == Spec => []TypeOK
<1>1. IInv => TypeOK
  BY DEF IInv
<1> QED
  BY InitInvariant, NextPreserves, <1>1, PTL DEF Spec

\* The shell's policy code is never re-entered (ctx.rs, dispatch_sync and
\* drain).
THEOREM NoReentry == Spec => []ShellNotReentered
<1>1. IInv => ShellNotReentered
  BY DEF IInv
<1> QED
  BY InitInvariant, NextPreserves, <1>1, PTL DEF Spec

\* Deferred events are handled only at the outermost edge of the stack
\* (ctx.rs, with_depth and drain).
THEOREM DeferredOnlyAtTheEdge == Spec => []DeferredAtTheEdge
<1>1. IInv => DeferredAtTheEdge
  <2> SUFFICES ASSUME IInv, NEW i \in DOMAIN stack, ~Executing(i), NEW j \in 1 .. i - 1
               PROVE  stack[j].kind = "attach"
    BY DEF DeferredAtTheEdge
  <2>1. i = Edge /\ i \in Nat
    BY StackFacts DEF IInv, StackShape
  <2> QED BY <2>1 DEF Edge, AttachBase
<1> QED
  BY InitInvariant, NextPreserves, <1>1, PTL DEF Spec

\* Back in the event loop, no event waits and no retired box is kept
\* (ctx.rs, drain).
THEOREM LoopIsQuiet == Spec => []QuietLoop
<1>1. IInv => QuietLoop
  BY DEF IInv, QuietBase, QuietLoop
<1> QED
  BY InitInvariant, NextPreserves, <1>1, PTL DEF Spec

\* No box is freed under an activation that still uses it (ctx.rs,
\* pending_drop and GRAVEYARD; listener.rs, trampoline).
THEOREM BoxesOutliveTheirFrames == Spec => []NoBoxFreedInUse
<1>1. IInv => NoBoxFreedInUse
  BY DEF IInv
<1> QED
  BY InitInvariant, NextPreserves, <1>1, PTL DEF Spec

\* The wrapper keeps the delivery promise: no event is lost, reordered or
\* delivered inside another between the installation of the shell and the
\* teardown, and no shell is dropped without Shutdown (ctx.rs, dispatch_sync,
\* drain, teardown; shell_init.rs, the destroy listener).
THEOREM EventsDelivered == Spec => ShellSpec
<1>1. Init => Abstract!ShellInit
  BY DEF Init, Abstract!ShellInit, ShutdownSeen
<1> QED
  BY <1>1, InitInvariant, NextPreserves, NextRefines, PTL
     DEF Spec, ShellSpec, Abstract!ShellSpec

===============================================================================
