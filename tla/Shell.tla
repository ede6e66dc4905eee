--------------------------------- MODULE Shell ---------------------------------
(***************************************************************************)
(* The focus policy of the desktop shell (crates/westonite-shell/src/      *)
(* lib.rs) on top of the wrapper's reference-counted tracking of focused   *)
(* surfaces (crates/weston/src/compositor.rs, track_surface): windows and  *)
(* their families, seats, activation, and the hunt for a new focus when    *)
(* the focused surface dies.                                               *)
(*                                                                         *)
(* C calls in while a frame is open; deferred events are handled when it   *)
(* returned (Dispatch).  Ids are never reused (SlotTable), so an object    *)
(* stands for its id.  Placement, sizes and outputs are left out.          *)
(***************************************************************************)
EXTENDS Integers, Sequences, FiniteSets, Functions

CONSTANTS
  Window,    \* desktop surfaces
  WithSub,   \* those whose weston_surface has a subsurface
  Seat,
  None,
  MaxHops    \* the cap on walks along families, 64 in the code

ASSUME ShellAssumption ==
  /\ WithSub \subseteq Window
  /\ None \notin Window \cup [of : Window, part : {"main", "sub"}]
  /\ MaxHops \in Nat

VARIABLES
  \* libweston
  window,    \* "unborn", "live", "removed" (its weston_surface remains), "dead"
  subs,      \* windows with a live subsurface
  seat,      \* "unborn", "live" or "gone"
  mapped,    \* windows whose surface is mapped
  views,     \* the workspace layer, top first
  activated, \* what each window was last told by set_activated
  \* the wrapper
  tracked,   \* TRACK_COUNTS: references held on a focused surface
  queue,     \* deferred events, oldest first
  open,      \* a callback is on the stack
  down,      \* Shutdown was handled
  \* Shell
  surfaces, parent, children, focusCount,  \* Shell.surfaces and SurfState
  known, focused,                          \* Shell.seats and focused_surface
  focus,                                   \* Shell.focus
  job, todo  \* the running handler, and the seats its loop has yet to visit

libweston == <<window, subs, seat, mapped>>
family == <<surfaces, parent, children>>
activation == <<views, activated, tracked, focusCount, focused, focus>>
vars == <<libweston, family, activation, queue, open, down, known, job, todo>>

-------------------------------------------------------------------------------
Main(w) == [of |-> w, part |-> "main"]
Sub(w) == [of |-> w, part |-> "sub"]
Surface == {Main(w) : w \in Window} \cup {Sub(w) : w \in WithSub}

Alive(es) == IF es.part = "main" THEN window[es.of] \in {"live", "removed"}
                                 ELSE es.of \in subs

Idle == [op |-> "idle"]
MapJob(w) == [op |-> "map", surface |-> w]
SessionJob == [op |-> "session"]
SessionActivated == [type |-> "session"]
SeatGone(s) == [type |-> "seat", seat |-> s]
SurfaceGone(es, main) == [type |-> "gone", surface |-> es, main |-> main]

Visible == Range(views)

\* The elements of seq that lie in S, in their order.
Only(seq, S) ==
  LET upto[n \in 0 .. Len(seq)] ==
        IF n = 0 THEN <<>>
        ELSE upto[n - 1] \o (IF seq[n] \in S THEN <<seq[n]>> ELSE <<>>)
  IN upto[Len(seq)]

Without(seq, w) == Only(seq, Window \ {w})
Raised(w) == <<w>> \o Without(views, w)

\* `last_mapped_child`, or the window itself.
LastChildOf(w) ==
  LET visible == Only(children[w], Visible)
  IN IF visible = <<>> THEN w ELSE visible[Len(visible)]
ParentOf(w) == IF parent[w] = None THEN w ELSE parent[w]

\* Follow a link MaxHops + 1 times; both walks stop where there is none.
Walk(link, w) ==
  LET at[n \in 0 .. MaxHops + 1] == IF n = 0 THEN w ELSE link[at[n - 1]]
  IN at[MaxHops + 1]
Descend(w) == Walk([x \in Window |-> LastChildOf(x)], w)
Root(w) == Walk([x \in Window |-> ParentOf(x)], w)

\* The window and its descendants, down to MaxHops generations.
Descendants(w) ==
  LET upto[n \in 0 .. MaxHops] ==
        IF n = 0 THEN {w}
        ELSE upto[n - 1] \cup UNION {Range(children[x]) : x \in upto[n - 1]}
  IN upto[MaxHops]

\* `sync_activated`, with the focus counts it reads.
SyncActivated(act, count, w) ==
  LET root == Root(w)
  IN IF window[root] = "live"
     THEN [act EXCEPT ![root] = \E d \in Descendants(root) \cap surfaces : count[d] > 0]
     ELSE act

-------------------------------------------------------------------------------
(***************************************************************************)
(* Tracking.                                                               *)
(***************************************************************************)

Track(counts, es) == [counts EXCEPT ![es] = @ + 1]

\* Faulty variants: no release, or one that does not look the id up.
ReleaseNever(counts, es) == counts
ReleaseUnresolved(counts, es) ==
  IF es = None THEN counts ELSE [counts EXCEPT ![es] = @ - 1]

\* `untrack_surface`: an id that no longer resolves is ignored.
Release(counts, es) ==
  IF es = None \/ counts[es] = 0 THEN counts ELSE [counts EXCEPT ![es] = @ - 1]

\* The destroy listener of a tracked surface; unwatched surfaces die unseen.
SurfaceDies(es, main) ==
  /\ tracked' = [tracked EXCEPT ![es] = 0]
  /\ queue' = IF tracked[es] > 0 THEN Append(queue, SurfaceGone(es, main)) ELSE queue

-------------------------------------------------------------------------------
(***************************************************************************)
(* Activation.                                                             *)
(***************************************************************************)

\* activate_input reaches a live view on a live seat, and tracks it.
TakesInput(s, w) == seat[s] = "live" /\ window[w] = "live"

\* Faulty variant: the counts change although the focus does not.
CountsAfterAlways(s, w) ==
  LET old == focused[s]
      lost == IF s \in known /\ old \in surfaces
              THEN [focusCount EXCEPT ![old] = @ - 1] ELSE focusCount
  IN <<lost, IF s \in known /\ old # w THEN [lost EXCEPT ![w] = @ + 1] ELSE lost>>

\* The focus counts after the previously focused window lost one, and after
\* the new one gained one.
CountsAfter(s, w) ==
  LET old == focused[s]
      lost == IF s \in known /\ old # w /\ old \in surfaces
              THEN [focusCount EXCEPT ![old] = @ - 1] ELSE focusCount
  IN <<lost, IF s \in known /\ old # w THEN [lost EXCEPT ![w] = @ + 1] ELSE lost>>

\* `change_focus_count`: a count that leaves or reaches zero is synced.
Crossed(before, after, w) ==
  w \in surfaces /\ (before[w] = 0) # (after[w] = 0)

ActivatedAfter(s, w) ==
  LET counts == CountsAfter(s, w)
      old == focused[s]
      first == IF Crossed(focusCount, counts[1], old)
               THEN SyncActivated(activated, counts[1], old) ELSE activated
  IN IF Crossed(counts[1], counts[2], w)
     THEN SyncActivated(first, counts[2], w) ELSE first

\* The seat's keyboard focus moves to es; its old reference is dropped.
\* `held` is Shell.focus as the handler left it.
TakeFocus(s, w, es, held) ==
  IF TakesInput(s, w)
  THEN /\ focus' = [held EXCEPT ![s] = es]
       /\ tracked' = Release(Track(tracked, es), held[s])
  ELSE /\ focus' = held
       /\ UNCHANGED tracked

\* `activate`: es is the surface of the target view.  The last mapped
\* descendant is activated instead of the window.
ActivateOn(s, w, es, held) ==
  IF w \notin surfaces
  THEN /\ focus' = held
       /\ UNCHANGED <<views, activated, tracked, focusCount, focused>>
  ELSE LET t == Descend(w) IN
       /\ TakeFocus(s, t, IF t = w THEN es ELSE Main(t), held)
       /\ focusCount' = CountsAfter(s, t)[2]
       /\ activated' = ActivatedAfter(s, t)
       /\ focused' = IF s \in known THEN [focused EXCEPT ![s] = t] ELSE focused
       /\ views' = IF window[t] = "live" THEN Raised(t) ELSE views

-------------------------------------------------------------------------------
(***************************************************************************)
(* What C reports.                                                         *)
(***************************************************************************)

\* A callback arrives: from the event loop, or within the open frame.
Called ==
  /\ ~down /\ todo = {}
  /\ open \/ queue = <<>>
  /\ open' = TRUE
  /\ UNCHANGED <<down, job, todo>>

SurfaceAdded(w) ==
  /\ Called
  /\ window[w] = "unborn"
  /\ window' = [window EXCEPT ![w] = "live"]
  /\ subs' = IF w \in WithSub THEN subs \cup {w} ELSE subs
  /\ surfaces' = surfaces \cup {w}
  /\ UNCHANGED <<seat, mapped, parent, children, activation, queue, known>>

FocusedWithout(w) == [s \in Seat |-> IF focused[s] = w THEN None ELSE focused[s]]

SurfaceRemoved(w) ==
  /\ Called
  /\ window[w] = "live"
  /\ window' = [window EXCEPT ![w] = "removed"]
  /\ mapped' = mapped \ {w}
  /\ views' = Without(views, w)
  /\ focused' = FocusedWithout(w)
  /\ surfaces' = surfaces \ {w}
  /\ parent' = [c \in Window |-> IF c = w \/ c \in Range(children[w]) THEN None ELSE parent[c]]
  /\ children' = [p \in Window |->
                    IF p = w THEN <<>>
                    ELSE IF p = parent[w] THEN Without(children[p], w) ELSE children[p]]
  /\ focusCount' = [focusCount EXCEPT ![w] = 0]
  /\ UNCHANGED <<subs, seat, activated, tracked, focus, queue, known>>

\* The first commit with a size maps the window, raises it, and activates it
\* on every seat the wrapper knows.
Committed(w) ==
  /\ ~down /\ todo = {}
  /\ open \/ queue = <<>>
  /\ window[w] = "live" /\ w \notin mapped
  /\ mapped' = mapped \cup {w}
  /\ views' = Raised(w)
  /\ todo' = {s \in Seat : seat[s] = "live"}
  /\ job' = IF todo' = {} THEN Idle ELSE MapJob(w)
  /\ open' = TRUE
  /\ UNCHANGED <<window, subs, seat, family, activated, tracked, focusCount,
                 focused, focus, queue, down, known>>

\* The client detaches its buffer.
Unmapped(w) ==
  /\ Called
  /\ w \in mapped
  /\ mapped' = mapped \ {w}
  /\ views' = Without(views, w)
  /\ UNCHANGED <<window, subs, seat, family, activated, tracked, focusCount,
                 focused, focus, queue, known>>

\* Faulty variant: the old parent keeps the child.
AdoptedTwice(w, p) ==
  IF p = None THEN children ELSE [children EXCEPT ![p] = Append(@, w)]

\* The children's lists after w left its old parent and joined p.
Adopted(w, p) ==
  LET left == IF parent[w] = None THEN children
              ELSE [children EXCEPT ![parent[w]] = Without(@, w)]
  IN IF p = None THEN left ELSE [left EXCEPT ![p] = Append(@, w)]

\* Clients choose the parents: cycles are possible.
ParentSet(w, p) ==
  /\ Called
  /\ window[w] = "live" /\ (p # None => window[p] = "live")
  /\ parent' = [parent EXCEPT ![w] = p]
  /\ children' = Adopted(w, p)
  /\ UNCHANGED <<libweston, surfaces, activation, queue, known>>

\* A click or a touch on a view, which may be a subsurface; BusyClick is one
\* on the main surface.
Activate(s, es) ==
  /\ Called
  /\ seat[s] = "live" /\ Alive(es)
  /\ es.of \in Visible
  /\ ActivateOn(s, es.of, es, focus)
  /\ UNCHANGED <<libweston, family, queue, known>>

\* A subsurface dies: the payload is its main window, while there is one.
SubDies(w) ==
  /\ Called
  /\ w \in subs
  /\ subs' = subs \ {w}
  /\ SurfaceDies(Sub(w), IF window[w] = "live" THEN w ELSE None)
  /\ UNCHANGED <<window, seat, mapped, views, activated, focusCount, focused,
                 focus, family, known>>

MainDies(w) ==
  /\ Called
  /\ window[w] = "removed"
  /\ window' = [window EXCEPT ![w] = "dead"]
  /\ SurfaceDies(Main(w), None)
  /\ UNCHANGED <<subs, seat, mapped, views, activated, focusCount, focused,
                 focus, family, known>>

SeatCreated(s) ==
  /\ Called
  /\ seat[s] = "unborn"
  /\ seat' = [seat EXCEPT ![s] = "live"]
  /\ known' = known \cup {s}
  /\ UNCHANGED <<window, subs, mapped, family, activation, queue>>

SeatDestroyed(s) ==
  /\ Called
  /\ seat[s] = "live"
  /\ seat' = [seat EXCEPT ![s] = "gone"]
  /\ queue' = Append(queue, SeatGone(s))
  /\ UNCHANGED <<window, subs, mapped, family, activation, known>>

\* The session becomes active again after a VT switch.
SessionSignal ==
  /\ Called
  /\ SessionActivated \notin Range(queue)
  /\ queue' = Append(queue, SessionActivated)
  /\ UNCHANGED <<libweston, family, activation, known>>

\* The last callback returns.
Return ==
  /\ todo = {} /\ open
  /\ open' = FALSE
  /\ UNCHANGED <<libweston, family, activation, queue, down, known, job, todo>>

-------------------------------------------------------------------------------
(***************************************************************************)
(* The deferred events.                                                    *)
(***************************************************************************)

Draining == todo = {} /\ ~open /\ queue # <<>>

HandleSeatGone(s) ==
  /\ Draining /\ Head(queue) = SeatGone(s)
  /\ queue' = Tail(queue)
  /\ tracked' = Release(tracked, focus[s])
  /\ focus' = [focus EXCEPT ![s] = None]
  /\ known' = known \ {s}
  /\ focused' = [focused EXCEPT ![s] = None]
  /\ UNCHANGED <<libweston, family, views, activated, focusCount, open, down,
                 job, todo>>

\* The handlers that loop over seats.
HandleSession ==
  /\ Draining /\ Head(queue) = SessionActivated
  /\ queue' = Tail(queue)
  /\ todo' = {s \in known : focused[s] # None}
  /\ job' = IF todo' = {} THEN Idle ELSE SessionJob
  /\ UNCHANGED <<libweston, family, activation, open, down, known>>

HandleSurfaceGone ==
  /\ Draining /\ Head(queue).type = "gone"
  /\ queue' = Tail(queue)
  /\ todo' = {s \in Seat : focus[s] = Head(queue).surface}
  /\ job' = IF todo' = {} THEN Idle
            ELSE [op |-> "hunt", surface |-> Head(queue).surface, main |-> Head(queue).main]
  /\ UNCHANGED <<libweston, family, activation, open, down, known>>

Visit(s) ==
  /\ s \in todo
  /\ todo' = todo \ {s}
  /\ job' = IF todo' = {} THEN Idle ELSE job
  /\ UNCHANGED <<libweston, family, queue, open, down, known>>

\* `map`, for one seat.
VisitMap(s) ==
  /\ Visit(s) /\ job.op = "map"
  /\ ActivateOn(s, job.surface, Main(job.surface), focus)

\* The SessionActivated handler, for one seat: no bookkeeping, no raise.
VisitSession(s) ==
  /\ Visit(s) /\ job.op = "session"
  /\ TakeFocus(s, focused[s], Main(focused[s]), focus)
  /\ UNCHANGED <<views, activated, focusCount, focused>>

\* Faulty variant: only the main surface of a subsurface is considered.
NextFocusMainOnly == IF job.main \in surfaces THEN job.main ELSE None

\* `focus_surface_gone`: the main surface of a dead subsurface, or else the
\* topmost window.
NextFocus ==
  LET managed == Only(views, surfaces)
  IN CASE job.main \in surfaces -> job.main
       [] job.main \notin surfaces /\ managed # <<>> -> Head(managed)
       [] OTHER -> None

VisitHunt(s) ==
  /\ Visit(s) /\ job.op = "hunt"
  /\ LET held == [focus EXCEPT ![s] = None] IN
       IF NextFocus = None
       THEN /\ focus' = held
            /\ UNCHANGED <<views, activated, tracked, focusCount, focused>>
       ELSE ActivateOn(s, NextFocus, Main(NextFocus), held)

\* Every window is destroyed and every map cleared; nothing is untracked.
Shutdown ==
  /\ ~down /\ todo = {}
  /\ down' = TRUE
  /\ queue' = <<>> /\ open' = FALSE
  /\ views' = <<>> /\ surfaces' = {} /\ known' = {}
  /\ parent' = [w \in Window |-> None]
  /\ children' = [w \in Window |-> <<>>]
  /\ focusCount' = [w \in Window |-> 0]
  /\ focused' = [s \in Seat |-> None]
  /\ focus' = [s \in Seat |-> None]
  /\ UNCHANGED <<libweston, activated, tracked, job, todo>>

-------------------------------------------------------------------------------
Init ==
  /\ window = [w \in Window |-> "unborn"]
  /\ subs = {}
  /\ seat = [s \in Seat |-> "unborn"]
  /\ mapped = {}
  /\ views = <<>>
  /\ activated = [w \in Window |-> FALSE]
  /\ tracked = [es \in Surface |-> 0]
  /\ queue = <<>>
  /\ open = FALSE
  /\ down = FALSE
  /\ surfaces = {}
  /\ parent = [w \in Window |-> None]
  /\ children = [w \in Window |-> <<>>]
  /\ focusCount = [w \in Window |-> 0]
  /\ known = {}
  /\ focused = [s \in Seat |-> None]
  /\ focus = [s \in Seat |-> None]
  /\ job = Idle
  /\ todo = {}

Next ==
  \/ \E w \in Window :
       \/ SurfaceAdded(w) \/ SurfaceRemoved(w) \/ Committed(w) \/ Unmapped(w)
       \/ SubDies(w) \/ MainDies(w)
       \/ \E p \in Window \cup {None} : ParentSet(w, p)
  \/ \E s \in Seat :
       \/ SeatCreated(s) \/ SeatDestroyed(s) \/ HandleSeatGone(s)
       \/ VisitMap(s) \/ VisitSession(s) \/ VisitHunt(s)
       \/ \E es \in Surface : Activate(s, es)
  \/ SessionSignal \/ Return \/ HandleSession \/ HandleSurfaceGone \/ Shutdown

Spec == Init /\ [][Next]_vars

-------------------------------------------------------------------------------
(***************************************************************************)
(* Properties                                                              *)
(***************************************************************************)

TypeOK ==
  /\ window \in [Window -> {"unborn", "live", "removed", "dead"}]
  /\ subs \subseteq WithSub /\ mapped \subseteq Window
  /\ seat \in [Seat -> {"unborn", "live", "gone"}]
  /\ views \in Seq(Window)
  /\ activated \in [Window -> BOOLEAN]
  /\ tracked \in [Surface -> Nat]
  /\ open \in BOOLEAN /\ down \in BOOLEAN
  /\ surfaces \subseteq Window /\ known \subseteq Seat /\ todo \subseteq Seat
  /\ parent \in [Window -> Window \cup {None}]
  /\ children \in [Window -> Seq(Window)]
  /\ focusCount \in [Window -> Int]
  /\ focused \in [Seat -> Window \cup {None}]
  /\ focus \in [Seat -> Surface \cup {None}]

\* The two halves of the family relation agree whatever the clients do with
\* parents and in whatever order windows go: w is in its parent's list once
\* and in no other, and no list names a window that is gone
\* (set_parent, surface_removed).
FamilyLinked == \A w, p \in Window :
  LET at == {i \in DOMAIN children[p] : children[p][i] = w} IN
    /\ parent[w] = p <=> at # {}
    /\ at # {} => Cardinality(at) = 1 /\ {w, p} \subseteq surfaces

\* Each seat holds one reference on its focused surface and nothing else
\* does, so the death of a focused surface is reported to the seats that
\* focus it, all of them, until they have been served (the ref-count contract
\* of activate, SeatGone and SessionActivated in lib.rs).
FocusWatched == ~down =>
  \A es \in Surface :
    LET holders == {s \in Seat : focus[s] = es} IN
      IF Alive(es) THEN tracked[es] = Cardinality(holders)
      ELSE /\ tracked[es] = 0
           /\ \/ holders \subseteq IF job.op = "hunt" /\ job.surface = es THEN todo ELSE {}
              \/ \E i \in DOMAIN queue : queue[i].type = "gone" /\ queue[i].surface = es

\* A seat never names as focused a window the shell does not manage: the C
\* shell asserts it at each activation (shell.c:1659).
FocusedIsManaged == \A s \in Seat :
  focused[s] # None => focused[s] \in surfaces /\ s \in known

\* No window that a seat focuses is counted as unfocused, and no count goes
\* below zero, so no window that loses one of two seats is deactivated
\* (change_focus_count).
CountCoversFocus == \A w \in Window :
  focusCount[w] >= Cardinality({s \in known : focused[s] = w})

\* Both halves of the focus bookkeeping at once (activate).
FocusKept == FocusedIsManaged /\ CountCoversFocus

\* A live seat loses the focus it had only when no window is left to take it:
\* the hunt of focus_surface_gone does not come back empty-handed while the
\* workspace shows one.
FocusIsReplaced ==
  [][\A s \in Seat :
       focus[s] # None /\ focus'[s] = None /\ seat[s] = "live" /\ ~down'
         => Visible = {}]_vars

-------------------------------------------------------------------------------
\* A claim of the documents that the code does not keep.

Quiet == ~open /\ queue = <<>> /\ todo = {} /\ ~down
HasFocus(w) == \E s \in known : focused[s] \in Descendants(w)
IsRoot(w) == w \in surfaces /\ parent[w] = None

\* The root of a family is shown as activated exactly while a seat focuses a
\* member: "any transitive child focused => activated"
\* (rust-migration-plan.md:742, lib.rs:542-543).
ActivationFollowsFocus == Quiet =>
  \A w \in Window : IsRoot(w) => (activated[w] <=> HasFocus(w))

===============================================================================
