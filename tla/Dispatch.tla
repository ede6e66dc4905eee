------------------------------- MODULE Dispatch --------------------------------
(***************************************************************************)
(* The dispatch core of the wrapper (crates/weston/src/ctx.rs and          *)
(* listener.rs): one thread, a stack of activations that alternate between *)
(* C and Rust, the two delivery tiers of shell events, the deferred drop   *)
(* of the boxes C holds pointers into, and the teardown.                   *)
(*                                                                         *)
(* The stack holds one frame per activation, outermost first:              *)
(*   "cb"      C called a wrapper callback: the listener trampoline, a     *)
(*             grab or binding entry, a desktop-api entry (box = NoBox)    *)
(*   "out"     the wrapper called into libweston, which may call back      *)
(*   "attach"  shell_init delivering a creation event from the base of the *)
(*             stack, the one sync delivery outside with_depth             *)
(*   "destroy" the compositor-destroy listener of the shell                *)
(* and what the frame is doing:                                            *)
(*   "body"    wrapper code         "sync"    the shell, sync tier         *)
(*   "emit"    C code               "closing" wrapper, after Shutdown      *)
(*   "drain"   the drain loop of with_depth: the handler has returned      *)
(*   "handle"  the shell, handling an event the drain loop popped          *)
(***************************************************************************)
EXTENDS Integers, Sequences

CONSTANTS
  Event,      \* instances of shell events, Shutdown excepted
  Shutdown,
  Box,        \* allocations C holds pointers into: listeners and grabs
  NoBox,      \* the box of a frame that runs without one
  DestroyBox, \* the shell's compositor-destroy listener
  SeatBox,    \* boxes of seat records: dropped, not parked, at shutdown
  OneShot,    \* boxes of destroy listeners: they detach when they fire
  MaxDepth    \* bound: frames on the stack

ASSUME DispatchAssumption ==
  /\ Shutdown \notin Event
  /\ NoBox \notin Box
  /\ DestroyBox \in OneShot /\ DestroyBox \notin SeatBox
  /\ SeatBox \subseteq Box /\ OneShot \subseteq Box
  /\ MaxDepth \in Nat

VARIABLES
  stack,
  depth,        \* CtxInner.depth
  draining,     \* CtxInner.draining
  inSync,       \* CtxInner.in_sync_handler
  shuttingDown, \* CtxInner.shutting_down
  queue,        \* CtxInner.queue
  box,          \* where each box is: "retired" is CtxInner.pending_drop,
                \* "parked" the GRAVEYARD, "none" freed or not created yet,
                \* "spent" a one-shot listener that fired, still owned
  app,          \* CtxInner.app: "none", "slot", or "taken" by a delivery
  current,      \* CURRENT holds a context
  stage         \* the life of the process

flags == <<depth, draining, inSync, shuttingDown, app, current, stage>>
vars == <<stack, queue, box, flags>>

-------------------------------------------------------------------------------
Frame == [kind : {"cb", "out", "attach", "destroy"},
          box : Box \cup {NoBox},
          phase : {"body", "sync", "emit", "closing", "drain", "handle"}]

Top == stack[Len(stack)]
Push(kind, b, phase) == Append(stack, [kind |-> kind, box |-> b, phase |-> phase])
Pop == SubSeq(stack, 1, Len(stack) - 1)
GoTo(phase) == [stack EXCEPT ![Len(stack)].phase = phase]

At(phases) == stack # <<>> /\ Top.phase \in phases

\* The frame of activation i has not made its last access to its box.
Executing(i) == stack[i].phase \notin {"drain", "handle"}
Borrowed(b) == \E i \in DOMAIN stack : stack[i].box = b /\ Executing(i)

\* Rust code runs that may call into C, enqueue, and retire boxes.
RustRuns == At({"body", "sync", "handle"})

\* The creation events of the attach reach the shell before any listener of a
\* seat, a surface or a grab exists, and nothing it calls (background curtain
\* creation) fires one that does.
Wired == stack # <<>> => stack[1].kind # "attach"

Queued == {queue[i] : i \in DOMAIN queue}

\* `enqueue`: refused once the teardown began.
AfterEnqueue(e) == IF shuttingDown THEN queue ELSE Append(queue, e)

-------------------------------------------------------------------------------
(***************************************************************************)
(* Activations: `with_depth`.                                              *)
(***************************************************************************)

\* C fires a callback, from the event loop or under an outbound call.  A box
\* whose handler is already borrowed is skipped by the trampoline.
Callback(b) ==
  /\ current
  /\ \/ stack = <<>> /\ stage = "run"
     \/ At({"emit"})
  /\ Wired
  /\ Len(stack) < MaxDepth
  /\ b # NoBox => box[b] = "live" /\ ~Borrowed(b) /\ b # DestroyBox
  /\ stack' = Push("cb", b, "body")
  /\ depth' = depth + 1
  /\ box' = IF b \in OneShot THEN [box EXCEPT ![b] = "spent"] ELSE box
  /\ UNCHANGED <<queue, draining, inSync, shuttingDown, app, current, stage>>

\* A call into libweston, by Rust code on the stack or by the frontend itself
\* (startup, Compositor::drop).
Outbound ==
  /\ current
  /\ RustRuns \/ (stack = <<>> /\ stage \in {"boot", "dropping"})
  /\ Len(stack) < MaxDepth
  /\ stack' = Push("out", NoBox, "emit")
  /\ depth' = depth + 1
  /\ UNCHANGED <<queue, box, draining, inSync, shuttingDown, app, current, stage>>

\* The destroy listener returns once the teardown is done.
Leaving == At({"body", "emit"}) /\ (Top.kind = "destroy" => ~current)

\* Returning below the edge, or inside a drain.
ReturnInner ==
  /\ Leaving
  /\ depth - 1 # 0 \/ draining
  /\ depth' = depth - 1
  /\ stack' = Pop
  /\ UNCHANGED <<queue, box, draining, inSync, shuttingDown, app, current, stage>>

\* Faulty variant: every return drains.
ReturnOutermostAnywhere ==
  /\ Leaving
  /\ ~draining
  /\ depth' = depth - 1
  /\ draining' = TRUE
  /\ stack' = GoTo("drain")
  /\ UNCHANGED <<queue, box, inSync, shuttingDown, app, current, stage>>

ReturnOutermost ==
  /\ Leaving
  /\ depth - 1 = 0 /\ ~draining
  /\ depth' = depth - 1
  /\ draining' = TRUE
  /\ stack' = GoTo("drain")
  /\ UNCHANGED <<queue, box, inSync, shuttingDown, app, current, stage>>

-------------------------------------------------------------------------------
(***************************************************************************)
(* The two delivery tiers.                                                 *)
(***************************************************************************)

\* `enqueue` of a deferred-tier event; an instance is posted once.
Enqueue(e) ==
  /\ RustRuns /\ Wired
  /\ e \notin Queued
  /\ queue' = AfterEnqueue(e)
  /\ UNCHANGED <<stack, box, flags>>

\* Faulty variant: the shell is entered although a delivery holds it.
DispatchSyncReentrant ==
  /\ At({"body"}) /\ Top.kind = "cb"
  /\ ~shuttingDown /\ app # "none"
  /\ stack' = GoTo("sync")
  /\ app' = "taken"
  /\ inSync' = TRUE
  /\ UNCHANGED <<queue, box, depth, draining, shuttingDown, current, stage>>

\* `dispatch_sync` with the shell in its slot.  Once the teardown began the
\* event is ignored.
DispatchSync ==
  /\ At({"body"}) /\ Top.kind = "cb"
  /\ ~shuttingDown /\ app = "slot"
  /\ stack' = GoTo("sync")
  /\ app' = "taken"
  /\ inSync' = TRUE
  /\ UNCHANGED <<queue, box, depth, draining, shuttingDown, current, stage>>

\* `dispatch_sync` with an empty slot degrades to the queue: mid-drain, before
\* a shell is installed, or (logged) under another sync delivery.
DispatchSyncDeferred(e) ==
  /\ At({"body"}) /\ Top.kind = "cb"
  /\ ~shuttingDown /\ app # "slot"
  /\ e \notin Queued
  /\ queue' = AfterEnqueue(e)
  /\ UNCHANGED <<stack, box, flags>>

\* A creation event delivered while the shell is being attached.
AttachSync ==
  /\ stack = <<>> /\ stage = "attach" /\ MaxDepth > 0
  /\ app = "slot"
  /\ stack' = Push("attach", NoBox, "sync")
  /\ app' = "taken"
  /\ inSync' = TRUE
  /\ UNCHANGED <<queue, box, depth, draining, shuttingDown, current, stage>>

SyncReturn ==
  /\ At({"sync"})
  /\ stack' = CASE Top.kind = "attach"  -> Pop
                [] Top.kind = "destroy" -> GoTo("closing")
                [] OTHER                -> GoTo("body")
  /\ app' = "slot"
  /\ inSync' = FALSE
  /\ UNCHANGED <<queue, box, depth, draining, shuttingDown, current, stage>>

\* Faulty variant: the newest event first.
DrainDeliverNewest ==
  /\ At({"drain"}) /\ queue # <<>>
  /\ ~shuttingDown /\ app = "slot"
  /\ queue' = SubSeq(queue, 1, Len(queue) - 1)
  /\ stack' = GoTo("handle")
  /\ app' = "taken"
  /\ UNCHANGED <<box, depth, draining, inSync, shuttingDown, current, stage>>

DrainDeliver ==
  /\ At({"drain"}) /\ queue # <<>>
  /\ ~shuttingDown /\ app = "slot"
  /\ queue' = Tail(queue)
  /\ stack' = GoTo("handle")
  /\ app' = "taken"
  /\ UNCHANGED <<box, depth, draining, inSync, shuttingDown, current, stage>>

\* Discarded by the teardown, or nobody to deliver to.
DrainDiscard ==
  /\ At({"drain"}) /\ queue # <<>>
  /\ shuttingDown \/ app # "slot"
  /\ queue' = Tail(queue)
  /\ UNCHANGED <<stack, box, flags>>

HandlerReturn ==
  /\ At({"handle"})
  /\ stack' = GoTo("drain")
  /\ app' = "slot"
  /\ UNCHANGED <<queue, box, depth, draining, inSync, shuttingDown, current, stage>>

\* Faulty variants: the depth is given back twice; one event per drain; the
\* flag stays set.
DrainEndTwice ==
  /\ At({"drain"}) /\ queue = <<>>
  /\ depth' = depth - 1
  /\ draining' = FALSE
  /\ stack' = Pop
  /\ box' = [b \in Box |-> IF box[b] = "retired" THEN "none" ELSE box[b]]
  /\ UNCHANGED <<queue, inSync, shuttingDown, app, current, stage>>

DrainEndEarly ==
  /\ At({"drain"})
  /\ draining' = FALSE
  /\ stack' = Pop
  /\ box' = [b \in Box |-> IF box[b] = "retired" THEN "none" ELSE box[b]]
  /\ UNCHANGED <<queue, depth, inSync, shuttingDown, app, current, stage>>

DrainEndStuck ==
  /\ At({"drain"}) /\ queue = <<>>
  /\ stack' = Pop
  /\ box' = [b \in Box |-> IF box[b] = "retired" THEN "none" ELSE box[b]]
  /\ UNCHANGED <<queue, flags>>

\* The queue is empty: the retired boxes are freed and with_depth returns.
DrainEnd ==
  /\ At({"drain"}) /\ queue = <<>>
  /\ draining' = FALSE
  /\ stack' = Pop
  /\ box' = [b \in Box |-> IF box[b] = "retired" THEN "none" ELSE box[b]]
  /\ UNCHANGED <<queue, depth, inSync, shuttingDown, app, current, stage>>

-------------------------------------------------------------------------------
(***************************************************************************)
(* Boxes.                                                                  *)
(***************************************************************************)

\* A listener or grab is created for a C object.
NewBox(b) ==
  /\ current
  /\ RustRuns /\ Wired
  /\ box[b] = "none" /\ b # DestroyBox
  /\ b \in SeatBox => stage \notin {"boot", "attach"}
  /\ box' = [box EXCEPT ![b] = "live"]
  /\ UNCHANGED <<stack, queue, flags>>

\* Faulty variant: the box is dropped at once.
RetireNow(b) ==
  /\ RustRuns /\ Wired
  /\ box[b] \in {"live", "spent"} /\ b # DestroyBox
  /\ box' = [box EXCEPT ![b] = "none"]
  /\ UNCHANGED <<stack, queue, flags>>

\* `retire_listener`, `defer_drop`: its object died, or its grab ended.
Retire(b) ==
  /\ RustRuns /\ Wired
  /\ box[b] \in {"live", "spent"} /\ b # DestroyBox
  /\ box' = [box EXCEPT ![b] = "retired"]
  /\ UNCHANGED <<stack, queue, flags>>

-------------------------------------------------------------------------------
(***************************************************************************)
(* The life of the context.                                                *)
(***************************************************************************)

\* attach_shell_*: the destroy listener is attached, and the shell installed
\* unless libweston-desktop could not be created.
AttachShell == \E installs \in BOOLEAN :
  /\ stack = <<>> /\ stage = "boot" /\ current
  /\ box[DestroyBox] = "none"
  /\ box' = [box EXCEPT ![DestroyBox] = "live"]
  /\ app' = IF installs THEN "slot" ELSE app
  /\ stage' = IF installs THEN "attach" ELSE stage
  /\ UNCHANGED <<stack, queue, depth, draining, inSync, shuttingDown, current>>

Run ==
  /\ stack = <<>> /\ stage = "attach"
  /\ stage' = "run"
  /\ UNCHANGED <<stack, queue, box, depth, draining, inSync, shuttingDown, app, current>>

\* Compositor::drop, up to the last call before weston_compositor_destroy.
BeginDrop ==
  /\ stack = <<>> /\ stage \in {"boot", "run"}
  /\ stage' = "dropping"
  /\ shuttingDown' = TRUE
  /\ UNCHANGED <<stack, queue, box, depth, draining, inSync, app, current>>

\* weston_compositor_destroy emits its destroy signal: under Compositor::drop,
\* or (the plugin in a C frontend) straight from the base of the stack.  The
\* handler starts with the sync delivery of Shutdown, the one event the
\* teardown lets through; without a shell it is left to a queue that the
\* teardown clears.
CompositorDestroyed ==
  /\ box[DestroyBox] = "live"
  /\ \/ stack = <<>> /\ stage \in {"boot", "run"}
     \/ Len(stack) = 1 /\ At({"emit"}) /\ stage = "dropping"
  /\ Len(stack) < MaxDepth
  /\ IF app = "slot"
     THEN /\ stack' = Push("destroy", DestroyBox, "sync")
          /\ app' = "taken" /\ inSync' = TRUE
          /\ UNCHANGED queue
     ELSE /\ stack' = Push("destroy", DestroyBox, "closing")
          /\ queue' = AfterEnqueue(Shutdown)
          /\ UNCHANGED <<app, inSync>>
  /\ depth' = depth + 1
  /\ box' = [box EXCEPT ![DestroyBox] = "spent"]
  /\ stage' = "destroying"
  /\ UNCHANGED <<draining, shuttingDown, current>>

\* Faulty variant: every box is dropped with the wrapper.
BoxesAfterTeardownDropped == [b \in Box |-> "none"]

\* Every box is parked, except those of the seat records.
BoxesAfterTeardown ==
  [b \in Box |-> IF box[b] = "none" \/ (b \in SeatBox /\ box[b] \in {"live", "spent"})
                 THEN "none" ELSE "parked"]

ClearContext ==
  /\ shuttingDown' = TRUE
  /\ queue' = <<>>
  /\ app' = "none"
  /\ current' = FALSE
  /\ stage' = "gone"
  /\ UNCHANGED <<depth, draining, inSync>>

\* The rest of the destroy handler: the curtains, the desktop, the layers and
\* the seat records go (what these calls post is cleared here), then
\* `teardown` runs with this handler's own box on the stack.
Teardown ==
  /\ At({"closing"})
  /\ stack' = GoTo("body")
  /\ box' = BoxesAfterTeardown
  /\ ClearContext

\* The `teardown` of Compositor::drop when no destroy handler ran.
TeardownUnattached ==
  /\ stack = <<>> /\ stage = "dropping"
  /\ box[DestroyBox] = "none"
  /\ box' = BoxesAfterTeardown
  /\ ClearContext
  /\ UNCHANGED stack

\* The process has nothing left to do.
Exited ==
  /\ stack = <<>> /\ stage = "gone"
  /\ UNCHANGED vars

-------------------------------------------------------------------------------
Init ==
  /\ stack = <<>>
  /\ depth = 0
  /\ draining = FALSE
  /\ inSync = FALSE
  /\ shuttingDown = FALSE
  /\ queue = <<>>
  /\ box = [b \in Box |-> "none"]
  /\ app = "none"
  /\ current = TRUE
  /\ stage = "boot"

Return == ReturnInner \/ ReturnOutermost
Drain == DrainDeliver \/ DrainDiscard \/ DrainEnd

Next ==
  \/ \E b \in Box \cup {NoBox} : Callback(b)
  \/ \E b \in Box : NewBox(b) \/ Retire(b)
  \/ \E e \in Event : Enqueue(e) \/ DispatchSyncDeferred(e)
  \/ Outbound \/ ReturnInner \/ ReturnOutermost
  \/ DispatchSync \/ AttachSync \/ SyncReturn
  \/ DrainDeliver \/ DrainDiscard \/ HandlerReturn \/ DrainEnd
  \/ AttachShell \/ Run \/ BeginDrop
  \/ CompositorDestroyed \/ Teardown \/ TeardownUnattached
  \/ Exited

Spec == Init /\ [][Next]_vars

\* Every handler and every C call returns: the loops of the wrapper, of the
\* shell and of libweston that call back are over finite collections, so an
\* activation that gets to run again and again leaves eventually.
Fairness ==
  /\ WF_vars(Drain) /\ WF_vars(Teardown)
  /\ \A i \in 1 .. MaxDepth :
       /\ SF_vars(Len(stack) = i /\ Return)
       /\ SF_vars(Len(stack) = i /\ SyncReturn)
       /\ SF_vars(Len(stack) = i /\ HandlerReturn)

FairSpec == Spec /\ Fairness

-------------------------------------------------------------------------------
(***************************************************************************)
(* Properties                                                              *)
(***************************************************************************)

TypeOK ==
  /\ stack \in Seq(Frame)
  /\ depth \in Nat
  /\ draining \in BOOLEAN /\ inSync \in BOOLEAN
  /\ shuttingDown \in BOOLEAN /\ current \in BOOLEAN
  /\ queue \in Seq(Event \cup {Shutdown})
  /\ box \in [Box -> {"none", "live", "spent", "retired", "parked"}]
  /\ app \in {"none", "slot", "taken"}
  /\ stage \in {"boot", "attach", "run", "dropping", "destroying", "gone"}

\* At most one activation is inside the shell, whatever calls back into the
\* wrapper while the shell runs: the policy code is never re-entered.
InShell(i) == stack[i].phase \in {"sync", "handle"}
ShellNotReentered ==
  \A i, j \in DOMAIN stack : InShell(i) /\ InShell(j) => i = j

\* A deferred event is handled only at the outermost edge of the stack, when
\* no callback and no call into C is suspended below the drain (ctx.rs,
\* with_depth: "whoever returns it to zero drains").
DeferredAtTheEdge ==
  \A i \in DOMAIN stack : ~Executing(i) =>
    \A j \in 1 .. i - 1 : stack[j].kind = "attach"

\* Back in the event loop nothing is left over: no event waits for an
\* unrelated later callback, no retired box is kept.
QuietLoop ==
  stack = <<>> => queue = <<>> /\ \A b \in Box : box[b] # "retired"

\* No box is freed under an activation that will still touch it -- the
\* handler that retired its own listener, one further down the stack, or the
\* destroy listener that tears the whole wrapper down (ctx.rs, pending_drop
\* and GRAVEYARD).
NoBoxFreedInUse ==
  \A i \in DOMAIN stack :
    Executing(i) /\ stack[i].box # NoBox => box[stack[i].box] # "none"

-------------------------------------------------------------------------------
(***************************************************************************)
(* What makes the properties inductive.                                    *)
(***************************************************************************)

AttachBase == stack # <<>> /\ stack[1].kind = "attach"

\* The frame whose return reaches depth zero.
Edge == IF AttachBase THEN 2 ELSE 1

StackShape == \A i \in DOMAIN stack :
  /\ stack[i].kind = "attach" => i = 1 /\ stack[i].phase = "sync"
  /\ stack[i].phase = "emit" => stack[i].kind = "out"
  /\ stack[i].kind = "cb" => ~AttachBase
  /\ stack[i].kind \in {"out", "attach"} => stack[i].box = NoBox
  /\ stack[i].phase = "closing" => stack[i].kind = "destroy" /\ i = Len(stack)
  /\ ~Executing(i) => i = Edge
  /\ stack[i].kind = "destroy" =>
       /\ stack[i].box = DestroyBox
       /\ \A j \in 1 .. i - 1 : stack[j].kind = "out" /\ stack[j].phase = "emit"
       /\ stack[i].phase \in {"sync", "closing"} \/ stage = "gone"

Bookkeeping ==
  /\ draining <=> \E i \in DOMAIN stack : ~Executing(i)
  /\ depth = Len(stack) - (IF AttachBase THEN 1 ELSE 0) - (IF draining THEN 1 ELSE 0)
  /\ inSync <=> \E i \in DOMAIN stack : stack[i].phase = "sync"
  /\ app = "taken" <=> \E i \in DOMAIN stack : InShell(i)

\* QuietLoop, also while the shell is being attached.
QuietBase ==
  stack = <<>> \/ AttachBase =>
    queue = <<>> /\ \A b \in Box : box[b] # "retired"

Lifecycle ==
  /\ stage = "gone" <=> ~current
  /\ stage = "gone" => shuttingDown /\ app = "none"
  /\ stage \in {"boot", "attach", "run"} => ~shuttingDown
  /\ box[DestroyBox] # "retired"
  /\ box[DestroyBox] = "none" => app = "none"

IInv == /\ TypeOK
        /\ StackShape
        /\ Bookkeeping
        /\ ShellNotReentered
        /\ NoBoxFreedInUse
        /\ QuietBase
        /\ Lifecycle

-------------------------------------------------------------------------------
\* A shell that is uninstalled has seen Shutdown, events reach it one at a
\* time and in order, and none is lost before the teardown: the wrapper
\* implements ShellEvents.
ShutdownSeen ==
  \/ stage = "gone"
  \/ app # "none" /\ \E i \in DOMAIN stack : stack[i].kind = "destroy"
Abstract == INSTANCE ShellEvents
              WITH Event <- Event \cup {Shutdown},
                   pending <- queue, busy <- app = "taken",
                   installed <- app # "none", closing <- shuttingDown,
                   last <- ShutdownSeen

ShellSpec == Abstract!ShellSpec

\* A posted event does not stay in the queue: the activation that posted it,
\* and every one below, returns to the edge and drains.
EventsLeaveQueue == \A e \in Event : e \in Queued ~> e \notin Queued

===============================================================================
