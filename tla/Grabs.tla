--------------------------------- MODULE Grabs ---------------------------------
(***************************************************************************)
(* Grabs (crates/weston/src/grab.rs): the move, resize and busy-cursor     *)
(* grabs of pointers and the move grab of touch devices.  The wrapper      *)
(* allocates a box per grab, hands its address to libweston, keeps it on   *)
(* active_grabs, and frees it at the end of the drain after it ended.      *)
(*                                                                         *)
(* libweston keeps one current grab per device and never tells a grab that *)
(* another one superseded it.  Starting and ending a grab calls the focus  *)
(* callback of the grab that becomes current, which may end that grab or,  *)
(* through the pointer-focus listener, start a busy grab: these nested     *)
(* calls are composed from the operators below.  Callbacks come from the   *)
(* event loop, so the drain that follows one is part of its action.        *)
(*                                                                         *)
(* Coordinates, sizes, serials and the reaction of the shell to a click on *)
(* a busy window (see Shell) are left out.                                 *)
(***************************************************************************)
EXTENDS FiniteSets

CONSTANTS
  Window,    \* desktop surfaces
  WithSub,   \* those with a subsurface
  Loner,     \* those with a client of their own; the others share one
  Pointer, Touch,  \* input devices, each the only one of its seat
  Box,       \* addresses of grab boxes, reused once freed; bounds the live ones
  Default,   \* the grab of an idle device
  None

ASSUME GrabsAssumption ==
  /\ WithSub \subseteq Window /\ Loner \subseteq Window
  /\ None \notin Window /\ Default \notin Box
  /\ Pointer \cap Touch = {}

Device == Pointer \cup Touch

VARIABLES
  \* libweston
  window,    \* "unborn", "live" or "dead"
  device,    \* "plugged", "unplugged", or "none": no such seat
  pressed,   \* devices with a button or a finger down
  hover,     \* what weston_compositor_pick_view finds at each device
  focus,     \* the focus of each device
  current,   \* the current grab of each device
  \* the wrapper
  grab,      \* contents of the boxes
  list,      \* the boxes on active_grabs; a grab that ended is on it no more
  retired,   \* the boxes on pending_drop
  grabbed,   \* windows whose SurfaceRec.grabbed is set
  resizing,  \* windows with SurfaceRec.resize_edges other than 0
  unresponsive,
  loop       \* the running loop over devices or grabs, and what it has left

vars == <<window, device, pressed, hover, focus, current, grab, list, retired,
          grabbed, resizing, unresponsive, loop>>

-------------------------------------------------------------------------------
Main(w) == [of |-> w, part |-> "main"]
Nowhere == Main(None)
Target == {Main(w) : w \in Window} \cup {[of |-> w, part |-> "sub"] : w \in WithSub}
Grab == [kind : {"move", "resize", "busy", "touch"}, surface : Window, device : Device]

SameClient(v, w) == v = w \/ {v, w} \cap Loner = {}
ClientOf(w) == {v \in Window : SameClient(v, w) /\ window[v] = "live"}

NoLoop == [op |-> "none", left |-> {}, surfaces |-> {}]

\* The state that nested calls pass on, and what libweston is going to do in
\* them: emit the focus signal although the focus stays, and cancel the
\* current grab in weston_seat_break_desktop_grabs.
Now(emits, cancels) ==
  [window |-> window, device |-> device, pressed |-> pressed, hover |-> hover,
   focus |-> focus, current |-> current, grab |-> grab, list |-> list,
   retired |-> retired, grabbed |-> grabbed, resizing |-> resizing,
   unresponsive |-> unresponsive, emits |-> emits, cancels |-> cancels]

World == {Now(emits, cancels) : emits, cancels \in BOOLEAN}
Unbroken == {Now(emits, FALSE) : emits \in BOOLEAN}
Same == Now(FALSE, FALSE)
\* The contents of a freed box.
Blank == [kind |-> "busy", surface |-> None, device |-> None]

Free(g) == Box \ (g.list \cup g.retired)
Current(g, d) == g.grab[g.current[d]]
HasBusy(g, d) == g.current[d] # Default /\ Current(g, d).kind = "busy"

-------------------------------------------------------------------------------
(***************************************************************************)
(* Nested calls.                                                           *)
(***************************************************************************)

\* The tail of start_pointer_grab and start_touch_grab: flag the surface, list
\* the box, hand it to libweston.
Place(g, d, kind, w) ==
  LET b == CHOOSE b \in Free(g) : TRUE IN
  [g EXCEPT !.grabbed = @ \cup {w},
            !.list = @ \cup {b},
            !.grab = [@ EXCEPT ![b] = [kind |-> kind, surface |-> w, device |-> d]],
            !.current = [@ EXCEPT ![d] = b]]

\* Faulty variant: the surface of a busy grab stays flagged.
StillGrabbed(g, w) == g

\* set_busy_cursor clears the flag again, for a move request to go through.
Ungrabbed(g, w) == [g EXCEPT !.grabbed = @ \ {w}]

\* The pointer-focus listener: an unresponsive window gets the busy cursor.
FocusListener(g, d) ==
  LET w == g.focus[d].of IN
  IF /\ g.focus[d].part = "main" /\ w \in g.unresponsive
     /\ g.device[d] = "plugged" /\ ~HasBusy(g, d)
  THEN Ungrabbed(Place(g, d, "busy", w), w)
  ELSE g

\* The default grab of a pointer follows what is under it.
DefaultFocus(g, d) ==
  LET h == [g EXCEPT !.focus = [@ EXCEPT ![d] = g.hover[d]]] IN
  CASE d \in Touch \/ d \in g.pressed -> g
    [] d \in Pointer \ g.pressed /\ h = g /\ ~g.emits -> g
    [] OTHER -> FocusListener(h, d)

\* Faulty variant: the box is retired without leaving active_grabs.
RetiredButListed(g, b) == [g EXCEPT !.retired = @ \cup {b}]

Retired(g, b) == [g EXCEPT !.list = @ \ {b}, !.retired = @ \cup {b}]

\* end_pointer_grab, end_touch_grab: the flags of the surface are cleared,
\* libweston falls back to the default grab, the box is retired.
End(g, b) ==
  LET d == g.grab[b].device
      w == g.grab[b].surface
      idle == [g EXCEPT !.grabbed = @ \ {w}, !.resizing = @ \ {w},
                        !.current = [@ EXCEPT ![d] = Default]]
  IN Retired(DefaultFocus(idle, d), b)

EndCurrent(g, d) == IF g.current[d] = Default THEN g ELSE End(g, g.current[d])

\* busy_focus: the grab ends unless its window is the one under the pointer.
BusyFocus(g, d) ==
  IF g.hover[d] = Main(Current(g, d).surface) THEN g ELSE EndCurrent(g, d)

\* The focus callback of whatever grab is current.
FocusCallback(g, d) ==
  CASE g.current[d] = Default -> DefaultFocus(g, d)
    [] HasBusy(g, d)          -> BusyFocus(g, d)
    [] OTHER                  -> g

\* start_pointer_grab, start_touch_grab.
Start(g, d, kind, w) ==
  LET broken == IF g.cancels THEN EndCurrent(g, d) ELSE g
  IN FocusCallback(Place(broken, d, kind, w), d)

\* Faulty variant: only an idle pointer gets the busy cursor.
SetBusyIdle(g, d, w) ==
  IF g.device[d] # "plugged" \/ g.current[d] # Default \/ g.window[w] # "live" THEN g
  ELSE Ungrabbed(Start(g, d, "busy", w), w)

\* set_busy_cursor.
SetBusy(g, d, w) ==
  IF g.device[d] # "plugged" \/ HasBusy(g, d) \/ g.window[w] # "live" THEN g
  ELSE Ungrabbed(Start(g, d, "busy", w), w)

\* Faulty variant: a busy grab is ended although it is not current.
EndBusyEnds(g, b) == End(g, b)

\* One busy grab of end_busy_grabs_for_client_of.  A superseded grab, or one
\* whose pointer is gone, is retired without calling libweston.
EndBusy(g, b) ==
  IF g.device[g.grab[b].device] = "plugged" /\ g.current[g.grab[b].device] = b
  THEN End(g, b) ELSE Retired(g, b)

-------------------------------------------------------------------------------
(***************************************************************************)
(* Callbacks.                                                              *)
(***************************************************************************)

\* A callback may need two boxes: for the grab it starts and for a busy one.
Roomy == ~ \A a, b \in Box \ (list \cup retired) : a = b
Called == loop = NoLoop /\ Roomy

\* The callback, or one round of a loop, leaves g; the drain frees the boxes.
\* (Bound to a variable, r is computed once.)
Becomes(g) == \E r \in {g} :
  /\ window' = r.window /\ device' = r.device /\ pressed' = r.pressed
  /\ hover' = r.hover /\ focus' = r.focus /\ current' = r.current
  /\ list' = r.list
  /\ retired' = IF loop' = NoLoop THEN {} ELSE r.retired
  /\ grab' = [b \in Box |-> IF b \in list' \cup retired' THEN r.grab[b] ELSE Blank]
  /\ grabbed' = r.grabbed /\ resizing' = r.resizing
  /\ unresponsive' = r.unresponsive

Returns(g) == Called /\ loop' = loop /\ Becomes(g)

SurfaceAdded(w) ==
  /\ window[w] = "unborn"
  /\ Returns([Same EXCEPT !.window = [@ EXCEPT ![w] = "live"]])

\* The record goes with its flags, the views and with them the focus; a grab
\* of the window keeps the id.
SurfaceRemoved(w) ==
  /\ window[w] = "live"
  /\ Returns([Same EXCEPT
       !.window = [@ EXCEPT ![w] = "dead"],
       !.hover = [d \in Device |-> IF @[d].of = w THEN Nowhere ELSE @[d]],
       !.focus = [d \in Device |-> IF @[d].of = w THEN Nowhere ELSE @[d]],
       !.grabbed = @ \ {w}, !.resizing = @ \ {w}, !.unresponsive = @ \ {w}])

Plug(d) ==
  /\ device[d] # "plugged"
  /\ Returns([Same EXCEPT !.device = [@ EXCEPT ![d] = "plugged"]])

\* The focus is cleared and the current grab cancelled when the device went.
Unplug(d) ==
  /\ device[d] = "plugged"
  /\ \E g \in Unbroken :
       Returns(EndCurrent([g EXCEPT !.device = [@ EXCEPT ![d] = "unplugged"],
                                    !.focus = [@ EXCEPT ![d] = Nowhere],
                                    !.pressed = @ \ {d}], d))

\* The seat dies, and its address may become that of a later one.
SeatDies(d) ==
  /\ device[d] = "unplugged"
  /\ Returns([Same EXCEPT !.device = [@ EXCEPT ![d] = "none"],
                       !.focus = [@ EXCEPT ![d] = Nowhere],
                       !.hover = [@ EXCEPT ![d] = Nowhere]])

\* The pointer moves, or a repaint picks again.
Motion(d, t) ==
  /\ d \in Pointer /\ device[d] = "plugged"
  /\ \E g \in Unbroken : Returns(FocusCallback([g EXCEPT !.hover = [@ EXCEPT ![d] = t]], d))

\* A button goes down; or a finger, which sets the focus.
Press(p) ==
  /\ p \in Pointer /\ device[p] = "plugged" /\ p \notin pressed
  /\ Returns([Same EXCEPT !.pressed = @ \cup {p}])

TouchDown(d, t) ==
  /\ d \in Touch /\ device[d] = "plugged" /\ d \notin pressed
  /\ Returns([Same EXCEPT !.pressed = @ \cup {d}, !.focus = [@ EXCEPT ![d] = t]])

\* The last button is lifted: move_button, resize_button, busy_button.
Release(p) ==
  /\ p \in Pointer \cap pressed
  /\ \E g \in Unbroken :
       LET up == [g EXCEPT !.pressed = @ \ {p}] IN
       Returns(CASE g.current[p] = Default -> DefaultFocus(up, p)
                 [] HasBusy(g, p)          -> up
                 [] OTHER                  -> EndCurrent(up, p))

\* The last finger is lifted: touch_up, and the focus goes.
TouchUp(d) ==
  /\ d \in Touch \cap pressed
  /\ \E g \in Unbroken :
       Returns(EndCurrent([g EXCEPT !.pressed = @ \ {d},
                                    !.focus = [@ EXCEPT ![d] = Nowhere]], d))

\* handle_move_request: a client asks for a move in answer to a press on one
\* of its surfaces.
MoveRequest(d, w) ==
  /\ d \in Pointer /\ device[d] = "plugged" /\ d \in pressed
  /\ window[w] = "live" /\ focus[d].of = w
  /\ w \notin grabbed
  /\ \E g \in World : Returns(Start(g, d, "move", w))

\* The touch path does not look at the flag.
TouchMoveRequest(d, w) ==
  /\ d \in Touch /\ device[d] = "plugged"
  /\ window[w] = "live" /\ focus[d].of = w
  /\ \E g \in World : Returns(Start(g, d, "touch", w))

\* handle_resize_request; the edges are set before the grab starts.
ResizeRequest(d, w) ==
  /\ d \in Pointer /\ device[d] = "plugged" /\ d \in pressed
  /\ window[w] = "live" /\ focus[d].of = w
  /\ w \notin grabbed
  /\ \E g \in World : Returns(Start([g EXCEPT !.resizing = @ \cup {w}], d, "resize", w))

-------------------------------------------------------------------------------
(***************************************************************************)
(* Unresponsive clients: the mark is set at once, the cursors by the shell *)
(* in the drain that follows.                                              *)
(***************************************************************************)

PingTimeout(w) ==
  /\ Called /\ window[w] = "live"
  /\ LET seats == {p \in Pointer : device[p] = "plugged"} IN
     loop' = IF seats = {} THEN NoLoop
             ELSE [op |-> "timeout", left |-> seats, surfaces |-> ClientOf(w)]
  /\ Becomes([Same EXCEPT !.unresponsive = @ \cup ClientOf(w)])

\* The busy grabs are those listed when the loop starts.
Pong(w) ==
  /\ Called /\ window[w] = "live"
  /\ LET busy == {b \in list : grab[b].kind = "busy" /\ grab[b].surface \in ClientOf(w)} IN
     loop' = IF busy = {} THEN NoLoop
             ELSE [op |-> "pong", left |-> busy, surfaces |-> {}]
  /\ Becomes([Same EXCEPT !.unresponsive = @ \ ClientOf(w)])

Left(x) ==
  LET left == loop.left \ {x} IN
  loop' = IF left = {} THEN NoLoop ELSE [loop EXCEPT !.left = left]

\* The PingTimeout handler, for one seat.
VisitTimeout(d) ==
  /\ loop.op = "timeout" /\ d \in loop.left /\ Roomy
  /\ Left(d)
  /\ \E g \in World :
       Becomes(IF focus[d].of \in loop.surfaces THEN SetBusy(g, d, focus[d].of) ELSE g)

\* end_busy_grabs_for_client_of, for one grab.
VisitPong(b) ==
  /\ loop.op = "pong" /\ b \in loop.left /\ Roomy
  /\ Left(b)
  /\ \E g \in Unbroken : Becomes(EndBusy(g, b))

-------------------------------------------------------------------------------
Init ==
  /\ window = [w \in Window |-> "unborn"]
  /\ device = [d \in Device |-> "none"]
  /\ pressed = {}
  /\ hover = [d \in Device |-> Nowhere]
  /\ focus = [d \in Device |-> Nowhere]
  /\ current = [d \in Device |-> Default]
  /\ grab = [b \in Box |-> Blank]
  /\ list = {} /\ retired = {}
  /\ grabbed = {} /\ resizing = {} /\ unresponsive = {}
  /\ loop = NoLoop

Shown == {t \in Target : window[t.of] = "live"} \cup {Nowhere}

Next ==
  \/ \E w \in Window :
       \/ SurfaceAdded(w) \/ SurfaceRemoved(w) \/ PingTimeout(w) \/ Pong(w)
       \/ \E d \in Device :
            MoveRequest(d, w) \/ TouchMoveRequest(d, w) \/ ResizeRequest(d, w)
  \/ \E d \in Device :
       \/ Plug(d) \/ Unplug(d) \/ SeatDies(d) \/ VisitTimeout(d)
       \/ Press(d) \/ Release(d) \/ TouchUp(d)
       \/ \E t \in Shown : Motion(d, t) \/ TouchDown(d, t)
  \/ \E b \in Box : VisitPong(b)

Spec == Init /\ [][Next]_vars

-------------------------------------------------------------------------------
(***************************************************************************)
(* Properties                                                              *)
(***************************************************************************)

TypeOK ==
  /\ window \in [Window -> {"unborn", "live", "dead"}]
  /\ device \in [Device -> {"none", "plugged", "unplugged"}]
  /\ pressed \subseteq Device
  /\ hover \in [Device -> Target \cup {Nowhere}]
  /\ focus \in [Device -> Target \cup {Nowhere}]
  /\ current \in [Device -> Box \cup {Default}]
  /\ grab \in [Box -> Grab \cup {Blank}]
  /\ list \subseteq Box /\ retired \subseteq Box \ list
  /\ grabbed \subseteq Window /\ resizing \subseteq Window
  /\ unresponsive \subseteq Window
  /\ loop \in [op : {"none", "timeout", "pong"}, left : SUBSET (Pointer \cup Box),
               surfaces : SUBSET Window]

\* The grab libweston would dispatch the next event of a device to is a box
\* that is still allocated, did not end, and was started on that device --
\* whatever superseded, ended or cancelled whatever else, and although boxes
\* are freed by address and addresses are reused.
CurrentGrabUsable == \A d \in Device :
  current[d] # Default => current[d] \in list /\ Current(Same, d).device = d

\* Answering a ping takes no device out of a move or resize: neither one that
\* superseded the busy grab that is taken down, nor one of another device (the
\* check in end_busy_grabs_for_client_of).
PongSparesOthers ==
  [][loop.op = "pong" =>
       \A d \in Device :
         current[d] # Default /\ ~HasBusy(Same, d)
           => current'[d] = current[d] /\ current[d] \in list']_vars

\* Whatever marks a window is still there to unmark it: a window that refuses
\* move requests is held by a current move or resize, and one that keeps its
\* resize edges by some current grab.
HeldBy(d, w) == current[d] # Default /\ Current(Same, d).surface = w
FlagsHaveHolder == \A w \in Window :
  /\ w \in grabbed => \E d \in Device :
       HeldBy(d, w) /\ ~HasBusy(Same, d)
  /\ w \in resizing => \E p \in Pointer : HeldBy(p, w)

GrabsUsable == CurrentGrabUsable /\ FlagsHaveHolder

\* The busy cursor of an unresponsive window shows when the timeout is handled
\* while the pointer is on it.
OnUnresponsive(p) ==
  loop.op = "timeout" /\ p \in loop.left /\ focus[p] = hover[p] /\ focus[p].of \in loop.surfaces
BusyShown ==
  [][\A p \in Pointer : OnUnresponsive(p) /\ hover[p].part = "main" /\ loop' # loop
       => p \in loop'.left \/ HasBusy(Same', p)]_vars

===============================================================================
