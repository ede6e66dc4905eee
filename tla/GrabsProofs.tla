------------------------------ MODULE GrabsProofs ------------------------------
(***************************************************************************)
(* Proofs about Grabs: the grab libweston dispatches to is always a live   *)
(* box of its device, and every flag of a window has a holder, for any     *)
(* number of windows, devices and boxes.                                   *)
(*                                                                         *)
(* The nested calls of Grabs are operators on a record of the state.  The  *)
(* invariant is stated on such a record, g, and each operator has a lemma: *)
(* what it does to the fields, and that it keeps the invariant.            *)
(***************************************************************************)
EXTENDS Grabs, TLAPS

Worlds ==
  [window : [Window -> {"unborn", "live", "dead"}],
   device : [Device -> {"none", "plugged", "unplugged"}],
   pressed : SUBSET Device,
   hover : [Device -> Target \cup {Nowhere}], focus : [Device -> Target \cup {Nowhere}],
   current : [Device -> Box \cup {Default}], grab : [Box -> Grab \cup {Blank}],
   list : SUBSET Box, retired : SUBSET Box,
   grabbed : SUBSET Window, resizing : SUBSET Window, unresponsive : SUBSET Window,
   emits : BOOLEAN, cancels : BOOLEAN]

Kinds == {"move", "resize", "busy", "touch"}

\* What holds even inside a callback.
Static(g) ==
  /\ g \in Worlds
  /\ g.list \cap g.retired = {}
  /\ \A b \in g.list : g.grab[b] \in Grab
  /\ \A b \in g.list : g.grab[b].kind = "busy" => g.grab[b].device \in Pointer
  /\ \A w \in g.grabbed \cup g.resizing \cup g.unresponsive : g.window[w] = "live"
  /\ \A d \in Touch : g.focus[d] # Nowhere => d \in g.pressed

\* A current grab is listed under its device, which is there; but for the busy
\* cursor it lasts as long as the button or finger is down; and its window keeps
\* the focus as long as it lives.
Usable(g, d) ==
  g.current[d] # Default =>
    /\ g.current[d] \in g.list
    /\ Current(g, d).device = d
    /\ g.device[d] = "plugged"
    /\ d \in g.pressed \/ HasBusy(g, d)
    /\ g.focus[d].of = Current(g, d).surface \/ g.window[Current(g, d).surface] = "dead"

Holds(g, d, w) == g.current[d] # Default /\ Current(g, d).surface = w

\* The flags of a window have a holder.
GrabbedHeld(g, w) == w \in g.grabbed => \E d \in Device : Holds(g, d, w) /\ ~HasBusy(g, d)
ResizeHeld(g, w) == w \in g.resizing => \E p \in Pointer : Holds(g, p, w)

\* All of it, the flags for the windows of V and R.
Good(g, V, R) ==
  /\ Static(g)
  /\ \A d \in Device : Usable(g, d)
  /\ \A w \in V : GrabbedHeld(g, w)
  /\ \A w \in R : ResizeHeld(g, w)

\* While the loop over the seats or the busy grabs runs, what it has still to
\* visit stays as it found it: pointers plugged, windows live, boxes busy.
LoopInv ==
  /\ loop.op = "timeout" =>
       /\ loop.left \subseteq Pointer
       /\ \A p \in loop.left : device[p] = "plugged"
       /\ \A w \in loop.surfaces : window[w] = "live"
  /\ loop.op = "pong" => loop.left \subseteq {b \in list : grab[b].kind = "busy"}

IInv == TypeOK /\ Good(Same, Window, Window) /\ LoopInv

-------------------------------------------------------------------------------
(***************************************************************************)
(* The nested calls.                                                       *)
(***************************************************************************)
LEMMA NoneIsNothing == None \notin Window /\ Nowhere.of = None /\ Blank \notin Grab
BY GrabsAssumption DEF GrabsAssumption, Nowhere, Main, Blank, Grab

LEMMA TargetParts == \A t \in Target \cup {Nowhere} : t.of \in Window \/ t = Nowhere
BY GrabsAssumption DEF GrabsAssumption, Target, Nowhere, Main

\* The fields after a grab was placed in box b.
PlacedIn(g, h, b, d, kind, w) ==
  /\ h \in Worlds
  /\ h.window = g.window /\ h.device = g.device /\ h.pressed = g.pressed
  /\ h.hover = g.hover /\ h.focus = g.focus /\ h.unresponsive = g.unresponsive
  /\ h.retired = g.retired /\ h.resizing = g.resizing
  /\ h.emits = g.emits /\ h.cancels = g.cancels
  /\ h.grabbed = g.grabbed \cup {w} /\ h.list = g.list \cup {b}
  /\ h.grab = [g.grab EXCEPT ![b] = [kind |-> kind, surface |-> w, device |-> d]]
  /\ h.current = [g.current EXCEPT ![d] = b]

LEMMA PlaceDoes ==
  ASSUME NEW g, g \in Worlds, Free(g) # {}, NEW d \in Device, NEW w \in Window,
         NEW kind \in Kinds
  PROVE  \E b \in Free(g) : PlacedIn(g, Place(g, d, kind, w), b, d, kind, w)
<1> DEFINE b == CHOOSE x \in Free(g) : TRUE
           h == Place(g, d, kind, w)
<1>1. b \in Free(g)
  OBVIOUS
<1>2. [kind |-> kind, surface |-> w, device |-> d] \in Grab
  BY DEF Grab, Kinds
<1>3. h = [g EXCEPT !.grabbed = g.grabbed \cup {w}, !.list = g.list \cup {b},
                    !.grab = [g.grab EXCEPT ![b] = [kind |-> kind, surface |-> w, device |-> d]],
                    !.current = [g.current EXCEPT ![d] = b]]
  BY DEF Place, Worlds
<1> HIDE DEF b, h
<1>4. /\ g.grabbed \cup {w} \in SUBSET Window
      /\ g.list \cup {b} \in SUBSET Box
      /\ [g.grab EXCEPT ![b] = [kind |-> kind, surface |-> w, device |-> d]] \in [Box -> Grab \cup {Blank}]
      /\ [g.current EXCEPT ![d] = b] \in [Device -> Box \cup {Default}]
  BY <1>1, <1>2 DEF Worlds, Free
<1>5. h \in Worlds
  BY <1>3, <1>4 DEF Worlds
<1>6. PlacedIn(g, h, b, d, kind, w)
  BY <1>3, <1>5 DEF PlacedIn, Worlds
<1> QED BY <1>1, <1>6 DEF h

\* What h has of g when only the device d was touched, and boxes were added.
Grown(g, h, d) ==
  /\ h.window = g.window /\ h.device = g.device /\ h.pressed = g.pressed
  /\ h.hover = g.hover /\ h.unresponsive = g.unresponsive /\ h.retired = g.retired
  /\ h.emits = g.emits /\ h.cancels = g.cancels
  /\ g.list \subseteq h.list
  /\ \A b \in g.list : h.grab[b] = g.grab[b]
  /\ \A e \in Device \ {d} : h.current[e] = g.current[e]

Placed(g, h, d, w) ==
  /\ Grown(g, h, d) /\ Holds(h, d, w)
  /\ h.focus = g.focus /\ h.resizing = g.resizing
  /\ h.current[d] \in Free(g) /\ h.list = g.list \cup {h.current[d]}

\* A grab is placed on a window that has the focus of the device; whatever it
\* supersedes is of the same window, or of a dead one.
LEMMA PlaceKeeps ==
  ASSUME NEW g, NEW V \in SUBSET Window, NEW R \in SUBSET Window, Good(g, V, R), Free(g) # {},
         NEW d \in Device, NEW w \in Window,
         NEW kind \in Kinds,
         g.window[w] = "live", g.device[d] = "plugged", g.focus[d].of = w,
         kind # "busy" => d \in g.pressed, kind = "busy" => d \in Pointer,
         NEW h, h = Place(g, d, kind, w)
  PROVE  /\ Good(h, V \ {w}, R)
         /\ d \in Pointer => ResizeHeld(h, w)
         /\ kind # "busy" => GrabbedHeld(h, w)
         /\ HasBusy(h, d) <=> kind = "busy"
         /\ Placed(g, h, d, w)
<1> DEFINE new == [kind |-> kind, surface |-> w, device |-> d]
<1>1. g \in Worlds
  BY DEF Good, Static
<1>2. PICK b \in Free(g) : PlacedIn(g, h, b, d, kind, w)
  BY <1>1, PlaceDoes
<1>3. b \in Box /\ b \notin g.list /\ b \notin g.retired /\ b # Default
  BY GrabsAssumption DEF GrabsAssumption, Free
<1>4. /\ h.grab[b] = new /\ \A c \in Box \ {b} : h.grab[c] = g.grab[c]
      /\ h.current[d] = b /\ \A e \in Device \ {d} : h.current[e] = g.current[e]
      /\ g.list \subseteq Box
      /\ \A e \in Device : g.current[e] # Default => g.current[e] \in g.list
  BY <1>2, <1>3 DEF PlacedIn, Worlds, Good, Static, Usable
<1> HIDE DEF new
<1>5. new.kind = kind /\ new.surface = w /\ new.device = d /\ new \in Grab
  BY DEF new, Grab, Kinds
<1>6. \A e \in Device \ {d} :
        g.current[e] # Default => Current(h, e) = Current(g, e)
  BY <1>3, <1>4 DEF Current
<1>7. Grown(g, h, d)
  BY <1>2, <1>3, <1>4 DEF PlacedIn, Grown
<1>8. Static(h)
  BY <1>1, <1>2, <1>3, <1>4, <1>5 DEF PlacedIn, Good, Static
<1>9. ASSUME NEW e \in Device PROVE Usable(h, e)
  <2>1. CASE e = d
    BY <2>1, <1>2, <1>3, <1>4, <1>5 DEF PlacedIn, Usable, Current, HasBusy
  <2>2. CASE e # d
    BY <2>2, <1>2, <1>4, <1>6 DEF PlacedIn, Usable, HasBusy, Good
  <2> QED BY <2>1, <2>2
<1>10. ASSUME NEW v \in g.grabbed \cup g.resizing, v # w, Holds(g, d, v) PROVE FALSE
  BY <1>10 DEF Good, Static, Usable, Holds
<1>11. ASSUME NEW v \in Window, v # w, v \in g.grabbed \cup g.resizing,
              NEW e \in Device, Holds(g, e, v)
       PROVE  Holds(h, e, v) /\ (HasBusy(h, e) <=> HasBusy(g, e))
  <2>1. e # d
    BY <1>10, <1>11
  <2> QED BY <2>1, <1>4, <1>6, <1>11 DEF Holds, HasBusy
<1>12. ASSUME NEW v \in V \ {w} PROVE GrabbedHeld(h, v)
  BY <1>2, <1>11, <1>12 DEF PlacedIn, Good, GrabbedHeld, Device
<1>13. Holds(h, d, w) /\ (HasBusy(h, d) <=> kind = "busy")
  BY <1>3, <1>4, <1>5 DEF Holds, HasBusy, Current
<1>14. d \in Pointer => ResizeHeld(h, w)
  BY <1>13 DEF ResizeHeld
<1>15. ASSUME NEW v \in R PROVE ResizeHeld(h, v)
  <2>1. CASE v # w
    BY <2>1, <1>2, <1>11, <1>15 DEF PlacedIn, Good, ResizeHeld, Device
  <2>2. CASE v = w /\ d \notin Pointer
    <3>1. ASSUME NEW p \in Pointer, Holds(g, p, w) PROVE Holds(h, p, w)
      BY <3>1, <2>2, <1>4, <1>6 DEF Holds, Device
    <3> QED BY <3>1, <2>2, <1>2, <1>15 DEF PlacedIn, Good, ResizeHeld
  <2> QED BY <2>1, <2>2, <1>14
<1> QED BY <1>2, <1>4, <1>5, <1>7, <1>8, <1>9, <1>12, <1>13, <1>14, <1>15
        DEF PlacedIn, Good, GrabbedHeld, Placed

\* Clearing the flag of a window leaves the others as they are.
LEMMA UngrabbedKeeps ==
  ASSUME NEW g, NEW V \in SUBSET Window, NEW R \in SUBSET Window, NEW w \in Window,
         Good(g, V \ {w}, R),
         NEW h, h = Ungrabbed(g, w)
  PROVE  /\ Good(h, V, R)
         /\ h.window = g.window /\ h.device = g.device /\ h.pressed = g.pressed
         /\ h.hover = g.hover /\ h.focus = g.focus /\ h.unresponsive = g.unresponsive
         /\ h.emits = g.emits /\ h.cancels = g.cancels
         /\ h.list = g.list /\ h.retired = g.retired /\ h.grab = g.grab
         /\ h.current = g.current /\ h.resizing = g.resizing
<1>1. g \in Worlds
  BY DEF Good, Static
<1>2. /\ h.window = g.window /\ h.device = g.device /\ h.pressed = g.pressed
      /\ h.hover = g.hover /\ h.focus = g.focus /\ h.unresponsive = g.unresponsive
      /\ h.emits = g.emits /\ h.cancels = g.cancels
      /\ h.list = g.list /\ h.retired = g.retired /\ h.grab = g.grab
      /\ h.current = g.current /\ h.resizing = g.resizing
      /\ h.grabbed = g.grabbed \ {w} /\ h \in Worlds
  BY <1>1 DEF Ungrabbed, Worlds
<1>3. \A d : /\ Current(h, d) = Current(g, d)
            /\ HasBusy(h, d) = HasBusy(g, d)
            /\ \A v : Holds(h, d, v) = Holds(g, d, v)
  BY <1>2 DEF Current, HasBusy, Holds
<1>4. Static(h)
  BY <1>2 DEF Good, Static
<1>5. ASSUME NEW d \in Device PROVE Usable(h, d)
  BY <1>2, <1>3 DEF Good, Usable
<1>6. ASSUME NEW v \in V PROVE GrabbedHeld(h, v)
  BY <1>2, <1>3 DEF Good, GrabbedHeld
<1>7. ASSUME NEW v \in R PROVE ResizeHeld(h, v)
  BY <1>2, <1>3 DEF Good, ResizeHeld
<1> QED BY <1>2, <1>4, <1>5, <1>6, <1>7 DEF Good

\* Nothing current on d: at most a busy grab is placed there.
LEMMA FocusListenerKeeps ==
  ASSUME NEW g, NEW V \in SUBSET Window, NEW R \in SUBSET Window, Good(g, V, R), Free(g) # {},
         NEW d \in Pointer, g.current[d] = Default,
         NEW h, h = FocusListener(g, d)
  PROVE  /\ Good(h, V, R) /\ Grown(g, h, d) /\ h.resizing = g.resizing
         /\ h.current[d] \in Free(g) \cup {Default}
<1> DEFINE w == g.focus[d].of
<1>1. d \in Device
  BY DEF Device
<1>2. CASE ~(/\ g.focus[d].part = "main" /\ w \in g.unresponsive
             /\ g.device[d] = "plugged" /\ ~HasBusy(g, d))
  BY <1>2 DEF FocusListener, Grown
<1>3. CASE /\ g.focus[d].part = "main" /\ w \in g.unresponsive
           /\ g.device[d] = "plugged" /\ ~HasBusy(g, d)
  <2> DEFINE p == Place(g, d, "busy", w)
  <2>1. w \in Window /\ g.window[w] = "live"
    BY <1>3 DEF Good, Static, Worlds
  <2>2. h = Ungrabbed(p, w)
    BY <1>3 DEF FocusListener
  <2>5. g.focus[d].of = w /\ g.device[d] = "plugged" /\ p = Place(g, d, "busy", w)
        /\ "busy" \in Kinds
    BY <1>3 DEF Kinds
  <2> HIDE DEF w, p
  <2>3. /\ Good(p, V \ {w}, R) /\ Placed(g, p, d, w)
    BY <1>1, <2>1, <2>5, PlaceKeeps
  <2>4. /\ Good(h, V, R)
        /\ h.window = p.window /\ h.device = p.device /\ h.pressed = p.pressed
        /\ h.hover = p.hover /\ h.unresponsive = p.unresponsive
        /\ h.emits = p.emits /\ h.cancels = p.cancels
        /\ h.list = p.list /\ h.retired = p.retired /\ h.grab = p.grab
        /\ h.current = p.current /\ h.resizing = p.resizing
    BY <2>1, <2>2, <2>3, UngrabbedKeeps
  <2> QED BY <2>3, <2>4 DEF Grown, Placed
<1> QED BY <1>2, <1>3

LEMMA DefaultFocusKeeps ==
  ASSUME NEW g, NEW V \in SUBSET Window, NEW R \in SUBSET Window, Good(g, V, R), Free(g) # {},
         NEW d \in Device, g.current[d] = Default,
         NEW h, h = DefaultFocus(g, d)
  PROVE  /\ Good(h, V, R) /\ Grown(g, h, d) /\ h.resizing = g.resizing
         /\ h.current[d] \in Free(g) \cup {Default}
         /\ d \in Touch \cup g.pressed => h = g
<1> DEFINE f == [g EXCEPT !.focus = [@ EXCEPT ![d] = g.hover[d]]]
<1>1. g \in Worlds
  BY DEF Good, Static
<1>2. CASE h = g
  BY <1>2 DEF Grown
<1>3. CASE d \in Pointer \ (Touch \cup g.pressed) /\ h = FocusListener(f, d)
  <2>1. /\ f.window = g.window /\ f.device = g.device /\ f.pressed = g.pressed
        /\ f.hover = g.hover /\ f.unresponsive = g.unresponsive
        /\ f.emits = g.emits /\ f.cancels = g.cancels
        /\ f.list = g.list /\ f.retired = g.retired /\ f.grab = g.grab
        /\ f.current = g.current /\ f.resizing = g.resizing /\ f.grabbed = g.grabbed
        /\ f.focus = [g.focus EXCEPT ![d] = g.hover[d]]
    BY <1>1 DEF Worlds
  <2>2. f \in Worlds
    BY <1>1 DEF Worlds
  <2> HIDE DEF f
  <2>3. \A e : /\ Current(f, e) = Current(g, e)
              /\ HasBusy(f, e) = HasBusy(g, e)
              /\ \A v : Holds(f, e, v) = Holds(g, e, v)
    BY <2>1 DEF Current, HasBusy, Holds
  <2>4. \A e \in Device \ {d} : f.focus[e] = g.focus[e]
    BY <1>1, <2>1 DEF Worlds
  <2>5. Static(f)
    BY <1>3, <2>1, <2>2, <2>4 DEF Good, Static, Device
  <2>6. ASSUME NEW e \in Device PROVE Usable(f, e)
    BY <2>1, <2>3, <2>4 DEF Good, Usable
  <2>7. ASSUME NEW v \in V PROVE GrabbedHeld(f, v)
    BY <2>1, <2>3 DEF Good, GrabbedHeld
  <2>8. ASSUME NEW v \in R PROVE ResizeHeld(f, v)
    BY <2>1, <2>3 DEF Good, ResizeHeld
  <2>9. Good(f, V, R) /\ Free(f) = Free(g) /\ f.current[d] = Default
    BY <2>1, <2>5, <2>6, <2>7, <2>8 DEF Good, Free
  <2>10. /\ Good(h, V, R) /\ Grown(f, h, d) /\ h.resizing = f.resizing
         /\ h.current[d] \in Free(f) \cup {Default}
    BY <1>3, <2>9, FocusListenerKeeps
  <2> QED BY <1>3, <2>1, <2>9, <2>10 DEF Grown
<1>4. h = g \/ (d \in Pointer \ (Touch \cup g.pressed) /\ h = FocusListener(f, d))
  <2>1. CASE d \in Touch \/ d \in g.pressed
    BY <2>1 DEF DefaultFocus
  <2>2. CASE d \in Pointer \ (Touch \cup g.pressed) /\ f = g /\ ~g.emits
    BY <2>2 DEF DefaultFocus
  <2>3. CASE d \in Pointer \ (Touch \cup g.pressed) /\ ~(f = g /\ ~g.emits)
    BY <2>3 DEF DefaultFocus
  <2> QED BY <2>1, <2>2, <2>3 DEF Device
<1>5. d \in Touch \cup g.pressed => h = g
  BY DEF DefaultFocus
<1> QED BY <1>2, <1>3, <1>4, <1>5

Delisted(g, h, b) ==
  /\ h.window = g.window /\ h.device = g.device /\ h.pressed = g.pressed
  /\ h.hover = g.hover /\ h.focus = g.focus /\ h.unresponsive = g.unresponsive
  /\ h.emits = g.emits /\ h.cancels = g.cancels /\ h.grab = g.grab
  /\ h.current = g.current /\ h.resizing = g.resizing
  /\ h.list = g.list \ {b} /\ h.retired = g.retired \cup {b}

\* A box that is nobody's current grab leaves the list.
LEMMA RetiredKeeps ==
  ASSUME NEW g, NEW V \in SUBSET Window, NEW R \in SUBSET Window, Good(g, V, R),
         NEW b \in Box, \A d \in Device : g.current[d] # b,
         NEW h, h = Retired(g, b)
  PROVE  Good(h, V, R) /\ Delisted(g, h, b)
<1>1. g \in Worlds
  BY DEF Good, Static
<1>2. /\ h.window = g.window /\ h.device = g.device /\ h.pressed = g.pressed
      /\ h.hover = g.hover /\ h.focus = g.focus /\ h.unresponsive = g.unresponsive
      /\ h.emits = g.emits /\ h.cancels = g.cancels /\ h.grab = g.grab
      /\ h.current = g.current /\ h.resizing = g.resizing /\ h.grabbed = g.grabbed
      /\ h.list = g.list \ {b} /\ h.retired = g.retired \cup {b} /\ h \in Worlds
  BY <1>1 DEF Retired, Worlds
<1>3. \A d : /\ Current(h, d) = Current(g, d)
            /\ HasBusy(h, d) = HasBusy(g, d)
            /\ \A v : Holds(h, d, v) = Holds(g, d, v)
  BY <1>2 DEF Current, HasBusy, Holds
<1>4. Static(h)
  BY <1>2 DEF Good, Static
<1>5. ASSUME NEW d \in Device PROVE Usable(h, d)
  BY <1>2, <1>3 DEF Good, Usable
<1>6. ASSUME NEW v \in V PROVE GrabbedHeld(h, v)
  BY <1>2, <1>3 DEF Good, GrabbedHeld
<1>7. ASSUME NEW v \in R PROVE ResizeHeld(h, v)
  BY <1>2, <1>3 DEF Good, ResizeHeld
<1> QED BY <1>2, <1>4, <1>5, <1>6, <1>7 DEF Good, Delisted

\* The invariant while the device d is being unplugged or released.
GoodBut(g, V, R, d) ==
  /\ Static(g)
  /\ \A e \in Device \ {d} : Usable(g, e)
  /\ g.current[d] # Default => g.current[d] \in g.list /\ Current(g, d).device = d
  /\ \A w \in V : GrabbedHeld(g, w)
  /\ \A w \in R : ResizeHeld(g, w)

\* What is left of g when the current grab of d ended: the other grabs, and no
\* grab on d unless a busy grab was placed in a free box.
Ended(g, h, d) ==
  /\ h.window = g.window /\ h.device = g.device /\ h.pressed = g.pressed
  /\ h.hover = g.hover /\ h.unresponsive = g.unresponsive
  /\ h.emits = g.emits /\ h.cancels = g.cancels
  /\ g.list \ {g.current[d]} \subseteq h.list
  /\ \A b \in g.list : h.grab[b] = g.grab[b]
  /\ \A e \in Device \ {d} : h.current[e] = g.current[e]
  /\ d \in Touch \cup g.pressed =>
       h.current[d] = Default /\ h.focus = g.focus /\ Free(h) = Free(g)

LEMMA EndKeeps ==
  ASSUME NEW g, NEW V \in SUBSET Window, NEW R \in SUBSET Window, NEW d \in Device, GoodBut(g, V, R, d),
         g.current[d] # Default, Free(g) # {},
         NEW h, h = End(g, g.current[d])
  PROVE  Good(h, V, R) /\ Ended(g, h, d)
<1> DEFINE b == g.current[d]
           w == g.grab[b].surface
           idle == [g EXCEPT !.grabbed = @ \ {w}, !.resizing = @ \ {w},
                             !.current = [@ EXCEPT ![d] = Default]]
<1>1. /\ g \in Worlds /\ b \in g.list /\ b \in Box /\ b # Default /\ g.grab[b].device = d
      /\ w \in Window
  BY GrabsAssumption DEF GrabsAssumption, GoodBut, Static, Worlds, Current, Grab
<1>2. h = Retired(DefaultFocus(idle, d), b)
  BY <1>1 DEF End
<1>3. /\ idle.window = g.window /\ idle.device = g.device /\ idle.pressed = g.pressed
      /\ idle.hover = g.hover /\ idle.focus = g.focus /\ idle.unresponsive = g.unresponsive
      /\ idle.emits = g.emits /\ idle.cancels = g.cancels
      /\ idle.list = g.list /\ idle.retired = g.retired /\ idle.grab = g.grab
      /\ idle.grabbed = g.grabbed \ {w} /\ idle.resizing = g.resizing \ {w}
      /\ idle.current = [g.current EXCEPT ![d] = Default]
      /\ idle \in Worlds
  BY <1>1 DEF Worlds
<1>4. Holds(g, d, w) /\ \A v : Holds(g, d, v) => v = w
  BY DEF Holds, Current
<1> HIDE DEF b, w, idle
<1>5. idle.current[d] = Default /\ \A e \in Device \ {d} : idle.current[e] = g.current[e]
  BY <1>1, <1>3 DEF Worlds
<1>6. \A e \in Device \ {d} : /\ Current(idle, e) = Current(g, e)
                            /\ HasBusy(idle, e) = HasBusy(g, e)
                            /\ \A v : Holds(idle, e, v) = Holds(g, e, v)
  BY <1>3, <1>5 DEF Current, HasBusy, Holds
<1>7. Static(idle)
  BY <1>3 DEF GoodBut, Static
<1>8. ASSUME NEW e \in Device PROVE Usable(idle, e)
  BY <1>3, <1>5, <1>6 DEF GoodBut, Usable
<1>9. ASSUME NEW v \in Window PROVE /\ v \in V => GrabbedHeld(idle, v)
                                    /\ v \in R => ResizeHeld(idle, v)
  <2>1. CASE v = w
    BY <2>1, <1>3 DEF GrabbedHeld, ResizeHeld
  <2>2. CASE v # w
    <3>1. \A e \in Device : Holds(g, e, v) => e # d
      BY <2>2, <1>4
    <3>2. v \in R => ResizeHeld(idle, v)
      BY <1>3, <1>6, <3>1 DEF GoodBut, ResizeHeld, Device
    <3>3. v \in V => GrabbedHeld(idle, v)
      BY <1>3, <1>6, <3>1 DEF GoodBut, GrabbedHeld
    <3> QED BY <3>2, <3>3
  <2> QED BY <2>1, <2>2
<1>10. Good(idle, V, R) /\ Free(idle) = Free(g)
  BY <1>3, <1>7, <1>8, <1>9 DEF Good, Free
<1> DEFINE f == DefaultFocus(idle, d)
<1>11. /\ Good(f, V, R) /\ Grown(idle, f, d) /\ f.current[d] \in Free(g) \cup {Default}
       /\ d \in Touch \cup idle.pressed => f = idle
  BY <1>5, <1>10, DefaultFocusKeeps
<1> HIDE DEF f
<1>12. \A e \in Device : f.current[e] # b
  <2>1. f.current[d] # b
    BY <1>1, <1>11 DEF Free
  <2>2. ASSUME NEW e \in Device \ {d} PROVE g.current[e] # b
    BY <1>1, <2>2 DEF GoodBut, Usable, Current
  <2> QED BY <2>1, <2>2, <1>5, <1>11 DEF Grown
<1>13. h = Retired(f, b)
  BY <1>2 DEF f
<1>14. Good(h, V, R) /\ Delisted(f, h, b)
  BY <1>1, <1>11, <1>12, <1>13, RetiredKeeps
<1>15. Ended(g, h, d)
  <2>1. d \in Touch \cup g.pressed =>
          h.current[d] = Default /\ h.focus = g.focus /\ Free(h) = Free(g)
    BY <1>1, <1>3, <1>5, <1>11, <1>14 DEF Free, Delisted
  <2>2. \A e \in Device \ {d} : h.current[e] = g.current[e]
    BY <1>5, <1>11, <1>14 DEF Grown, Delisted
  <2> QED BY <2>1, <2>2, <1>3, <1>11, <1>14 DEF Ended, Grown, Delisted, b
<1> QED BY <1>14, <1>15

LEMMA EndCurrentKeeps ==
  ASSUME NEW g, NEW V \in SUBSET Window, NEW R \in SUBSET Window, NEW d \in Device, GoodBut(g, V, R, d),
         Free(g) # {}, NEW h, h = EndCurrent(g, d)
  PROVE  Good(h, V, R) /\ Ended(g, h, d)
<1>1. CASE g.current[d] = Default
  BY <1>1 DEF EndCurrent, GoodBut, Good, Usable, Ended
<1>2. CASE g.current[d] # Default
  BY <1>2, EndKeeps DEF EndCurrent
<1> QED BY <1>1, <1>2

LEMMA FocusCallbackKeeps ==
  ASSUME NEW g, NEW V \in SUBSET Window, NEW R \in SUBSET Window, Good(g, V, R),
         Free(g) # {}, NEW d \in Device, NEW h, h = FocusCallback(g, d)
  PROVE  /\ Good(h, V, R)
         /\ h.window = g.window /\ h.device = g.device /\ h.hover = g.hover
         /\ HasBusy(g, d) /\ g.hover[d] = Main(Current(g, d).surface) => h = g
<1>1. GoodBut(g, V, R, d)
  BY DEF Good, GoodBut, Usable
<1>2. CASE g.current[d] = Default
  <2>1. h = DefaultFocus(g, d)
    BY <1>2 DEF FocusCallback, HasBusy
  <2>2. Good(h, V, R) /\ Grown(g, h, d)
    BY <1>2, <2>1, DefaultFocusKeeps
  <2> QED BY <1>2, <2>2 DEF Grown, HasBusy
<1>3. CASE g.current[d] # Default /\ HasBusy(g, d)
  <2>1. CASE g.hover[d] = Main(Current(g, d).surface)
    BY <1>3, <2>1 DEF FocusCallback, BusyFocus
  <2>2. CASE g.hover[d] # Main(Current(g, d).surface)
    <3>1. h = EndCurrent(g, d)
      BY <1>3, <2>2 DEF FocusCallback, BusyFocus
    <3>2. Good(h, V, R) /\ Ended(g, h, d)
      BY <1>1, <3>1, EndCurrentKeeps
    <3> QED BY <2>2, <3>2 DEF Ended
  <2> QED BY <2>1, <2>2
<1>4. CASE g.current[d] # Default /\ ~HasBusy(g, d)
  BY <1>4 DEF FocusCallback
<1> QED BY <1>2, <1>3, <1>4

Room(g) == \E a, b \in Free(g) : a # b

\* A grab is started: at most the flag of its own window is without a holder.
LEMMA StartKeeps ==
  ASSUME NEW g, NEW V \in SUBSET Window, NEW R \in SUBSET Window, Good(g, V, R),
         Room(g), NEW d \in Device, NEW w \in Window, NEW kind \in Kinds,
         g.window[w] = "live", g.device[d] = "plugged", g.focus[d].of = w,
         kind # "busy" => d \in g.pressed, kind = "busy" => d \in Pointer,
         g.current[d] = Default \/ d \in g.pressed,
         NEW h, h = Start(g, d, kind, w)
  PROVE  /\ Good(h, V \ {w}, R)
         /\ kind # "busy" => GrabbedHeld(h, w)
         /\ kind # "busy" /\ d \in Pointer => ResizeHeld(h, w)
         /\ h.window = g.window /\ h.device = g.device /\ h.hover = g.hover
         /\ kind = "busy" /\ g.hover[d] = Main(w) => HasBusy(h, d)
<1> DEFINE n == IF g.cancels THEN EndCurrent(g, d) ELSE g
           p == Place(n, d, kind, w)
<1>1. h = FocusCallback(p, d)
  BY DEF Start
<1>2. Free(g) # {} /\ GoodBut(g, V, R, d)
  BY DEF Room, Good, GoodBut, Usable
<1>3. /\ Good(n, V, R) /\ Free(n) = Free(g)
      /\ n.window = g.window /\ n.device = g.device /\ n.pressed = g.pressed
      /\ n.focus = g.focus /\ n.hover = g.hover
  <2>1. CASE n = g
    BY <2>1
  <2>2. CASE n = EndCurrent(g, d) /\ g.current[d] # Default
    <3> HIDE DEF n
    <3>1. Good(n, V, R) /\ Ended(g, n, d)
      BY <1>2, <2>2, EndCurrentKeeps
    <3> QED BY <2>2, <3>1 DEF Ended
  <2> QED BY <2>1, <2>2 DEF EndCurrent
<1> HIDE DEF n
<1>4. p = Place(n, d, kind, w)
  OBVIOUS
<1> HIDE DEF p
<1>5. /\ Good(n, V, R) /\ Free(n) # {} /\ n.window[w] = "live" /\ n.device[d] = "plugged"
      /\ n.focus[d].of = w /\ (kind # "busy" => d \in n.pressed)
  BY <1>2, <1>3
<1>6. /\ Good(p, V \ {w}, R)
      /\ d \in Pointer => ResizeHeld(p, w)
      /\ kind # "busy" => GrabbedHeld(p, w)
      /\ HasBusy(p, d) <=> kind = "busy"
      /\ Placed(n, p, d, w)
  BY <1>4, <1>5, PlaceKeeps
<1>7. CASE kind # "busy"
  <2>1. p.current[d] # Default
    BY <1>6, GrabsAssumption DEF GrabsAssumption, Placed, Free
  <2>2. h = p
    BY <1>1, <1>6, <1>7, <2>1 DEF FocusCallback
  <2> QED BY <1>3, <1>6, <1>7, <2>2 DEF Placed, Grown
<1>8. CASE kind = "busy"
  <2>1. Free(p) # {}
    <3>1. PICK a, b \in Free(n) : a # b
      BY <1>3 DEF Room
    <3>2. p.list = n.list \cup {p.current[d]} /\ p.retired = n.retired
      BY <1>6 DEF Placed, Grown
    <3>3. a \in Free(p) \/ b \in Free(p)
      BY <3>1, <3>2 DEF Free
    <3> QED BY <3>3
  <2>2. /\ Good(h, V \ {w}, R)
        /\ h.window = p.window /\ h.device = p.device /\ h.hover = p.hover
        /\ HasBusy(p, d) /\ p.hover[d] = Main(Current(p, d).surface) => h = p
    BY <1>1, <1>6, <2>1, FocusCallbackKeeps
  <2>3. /\ p.window = g.window /\ p.device = g.device /\ p.hover = g.hover
        /\ HasBusy(p, d) /\ Current(p, d).surface = w
    BY <1>3, <1>6, <1>8 DEF Placed, Grown, Holds
  <2> QED BY <1>8, <2>2, <2>3
<1> QED BY <1>7, <1>8

LEMMA SetBusyKeeps ==
  ASSUME NEW g, Good(g, Window, Window), Room(g),
         NEW d \in Pointer, NEW w \in Window, g.focus[d].of = w,
         NEW h, h = SetBusy(g, d, w)
  PROVE  /\ Good(h, Window, Window)
         /\ h.window = g.window /\ h.device = g.device
         /\ g.device[d] = "plugged" /\ g.window[w] = "live" /\ g.hover[d] = Main(w)
              => HasBusy(h, d)
<1>1. CASE g.device[d] # "plugged" \/ HasBusy(g, d) \/ g.window[w] # "live"
  BY <1>1 DEF SetBusy
<1>2. CASE ~(g.device[d] # "plugged" \/ HasBusy(g, d) \/ g.window[w] # "live")
  <2> DEFINE s == Start(g, d, "busy", w)
  <2>1. h = Ungrabbed(s, w) /\ s = Start(g, d, "busy", w)
    BY <1>2 DEF SetBusy
  <2> HIDE DEF s
  <2>2. d \in Device /\ "busy" \in Kinds
    BY DEF Device, Kinds
  <2>3. g.current[d] = Default \/ d \in g.pressed
    BY <1>2, <2>2 DEF Good, Usable
  <2>4. /\ Good(s, Window \ {w}, Window)
        /\ s.window = g.window /\ s.device = g.device
        /\ g.hover[d] = Main(w) => HasBusy(s, d)
    BY <1>2, <2>1, <2>2, <2>3, StartKeeps
  <2>5. /\ Good(h, Window, Window) /\ h.window = s.window /\ h.device = s.device
        /\ h.current = s.current /\ h.grab = s.grab
    BY <2>1, <2>4, UngrabbedKeeps
  <2> QED BY <2>4, <2>5 DEF HasBusy, Current
<1> QED BY <1>1, <1>2

LEMMA EndBusyKeeps ==
  ASSUME NEW g, Good(g, Window, Window), Free(g) # {},
         NEW b, b \in g.list, g.grab[b].kind = "busy", NEW h, h = EndBusy(g, b)
  PROVE  /\ Good(h, Window, Window)
         /\ g.list \ {b} \subseteq h.list
         /\ \A c \in g.list : h.grab[c] = g.grab[c]
         /\ \A e \in Device :
              g.current[e] # Default /\ ~HasBusy(g, e) => h.current[e] = g.current[e]
<1> DEFINE d == g.grab[b].device
<1>1. d \in Device /\ b \in Box /\ b # Default
  BY GrabsAssumption DEF GrabsAssumption, Good, Static, Worlds, Grab
<1>2. CASE g.device[d] = "plugged" /\ g.current[d] = b
  <2>1. h = End(g, g.current[d]) /\ g.current[d] # Default
    BY <1>1, <1>2 DEF EndBusy
  <2>2. GoodBut(g, Window, Window, d)
    BY <1>1 DEF Good, GoodBut, Usable
  <2>4. HasBusy(g, d)
    BY <1>2, <2>1 DEF HasBusy, Current
  <2> HIDE DEF d
  <2>3. Good(h, Window, Window) /\ Ended(g, h, d)
    BY <1>1, <2>1, <2>2, EndKeeps
  <2> QED BY <1>2, <2>3, <2>4 DEF Ended
<1>3. CASE ~(g.device[d] = "plugged" /\ g.current[d] = b)
  <2>1. h = Retired(g, b)
    BY <1>3 DEF EndBusy
  <2>2. ASSUME NEW e \in Device, g.current[e] = b PROVE FALSE
    <3>1. e = d /\ g.device[e] = "plugged"
      BY <1>1, <2>2 DEF Good, Usable, Current
    <3> QED BY <1>3, <2>2, <3>1
  <2> HIDE DEF d
  <2>3. Good(h, Window, Window) /\ Delisted(g, h, b)
    BY <1>1, <2>1, <2>2, RetiredKeeps
  <2> QED BY <2>3 DEF Delisted
<1> QED BY <1>2, <1>3

-------------------------------------------------------------------------------
(***************************************************************************)
(* The state before and after a callback.                                  *)
(***************************************************************************)

\* The holders of flags are read from the current grabs and the boxes alone.
LEMMA HoldersStay ==
  ASSUME NEW g, NEW h, h.current = g.current,
         \A d \in Device : g.current[d] # Default => h.grab[g.current[d]] = g.grab[g.current[d]]
  PROVE  /\ \A d \in Device : g.current[d] # Default => Current(h, d) = Current(g, d)
         /\ \A d \in Device : HasBusy(h, d) = HasBusy(g, d)
         /\ \A d \in Device, w \in Window : Holds(h, d, w) = Holds(g, d, w)
         /\ h.grabbed = g.grabbed => \A w \in Window : GrabbedHeld(h, w) = GrabbedHeld(g, w)
         /\ h.resizing = g.resizing => \A w \in Window : ResizeHeld(h, w) = ResizeHeld(g, w)
<1>1. \A d \in Device : g.current[d] # Default => Current(h, d) = Current(g, d)
  BY DEF Current
<1>2. \A d \in Device : HasBusy(h, d) = HasBusy(g, d)
  BY <1>1 DEF HasBusy
<1>3. \A d \in Device, w \in Window : Holds(h, d, w) = Holds(g, d, w)
  BY <1>1 DEF Holds
<1>4. h.grabbed = g.grabbed => \A w \in Window : GrabbedHeld(h, w) = GrabbedHeld(g, w)
  BY <1>2, <1>3 DEF GrabbedHeld
<1>5. h.resizing = g.resizing => \A w \in Window : ResizeHeld(h, w) = ResizeHeld(g, w)
  BY <1>3 DEF ResizeHeld, Device
<1> QED BY <1>1, <1>2, <1>3, <1>4, <1>5

\* The same but for history: what is nobody's may change.
LEMMA AlikeIsGood ==
  ASSUME NEW g, Good(g, Window, Window), NEW h, h \in Worlds,
         h.window = g.window, h.device = g.device, h.pressed = g.pressed,
         h.focus = g.focus, h.current = g.current, h.list = g.list,
         h.retired \subseteq g.retired, \A b \in g.list : h.grab[b] = g.grab[b],
         h.grabbed = g.grabbed, h.resizing = g.resizing,
         \A w \in h.unresponsive : g.window[w] = "live"
  PROVE  Good(h, Window, Window)
<1>1. \A d \in Device : g.current[d] # Default => g.current[d] \in g.list
  BY DEF Good, Usable
<1>2. /\ \A d \in Device : g.current[d] # Default => Current(h, d) = Current(g, d)
      /\ \A d \in Device : HasBusy(h, d) = HasBusy(g, d)
      /\ \A w \in Window : GrabbedHeld(h, w) = GrabbedHeld(g, w)
      /\ \A w \in Window : ResizeHeld(h, w) = ResizeHeld(g, w)
  BY <1>1, HoldersStay
<1>3. Static(h)
  BY DEF Good, Static
<1>4. ASSUME NEW d \in Device PROVE Usable(h, d)
  BY <1>2 DEF Good, Usable
<1> QED BY <1>2, <1>3, <1>4 DEF Good

LEMMA NowFields ==
  ASSUME NEW e, NEW c
  PROVE  /\ Now(e, c).window = window /\ Now(e, c).device = device
         /\ Now(e, c).pressed = pressed /\ Now(e, c).hover = hover
         /\ Now(e, c).focus = focus /\ Now(e, c).current = current
         /\ Now(e, c).grab = grab /\ Now(e, c).list = list
         /\ Now(e, c).retired = retired /\ Now(e, c).grabbed = grabbed
         /\ Now(e, c).resizing = resizing /\ Now(e, c).unresponsive = unresponsive
BY DEF Now

LEMMA NowIsWorld ==
  ASSUME TypeOK, NEW e \in BOOLEAN, NEW c \in BOOLEAN PROVE Now(e, c) \in Worlds
BY DEF TypeOK, Now, Worlds

\* Whatever libweston is going to do, the state is good.
LEMMA WorldsAreGood ==
  ASSUME IInv, NEW g, g \in World \/ g \in Unbroken \/ g = Same
  PROVE  /\ Good(g, Window, Window)
         /\ g.window = window /\ g.device = device /\ g.pressed = pressed
         /\ g.hover = hover /\ g.focus = focus /\ g.current = current
         /\ g.grab = grab /\ g.list = list /\ g.retired = retired
         /\ g.grabbed = grabbed /\ g.resizing = resizing /\ g.unresponsive = unresponsive
<1>1. \E e \in BOOLEAN, c \in BOOLEAN : g = Now(e, c)
  <2>1. CASE g \in World
    BY <2>1 DEF World
  <2>2. CASE g \in Unbroken
    BY <2>2 DEF Unbroken
  <2>3. CASE g = Same
    BY <2>3 DEF Same
  <2> QED BY <2>1, <2>2, <2>3
<1>2. /\ g.window = window /\ g.device = device /\ g.pressed = pressed
      /\ g.hover = hover /\ g.focus = focus /\ g.current = current
      /\ g.grab = grab /\ g.list = list /\ g.retired = retired
      /\ g.grabbed = grabbed /\ g.resizing = resizing /\ g.unresponsive = unresponsive
  BY <1>1, NowFields
<1>3. /\ Same.window = window /\ Same.device = device /\ Same.pressed = pressed
      /\ Same.focus = focus /\ Same.current = current
      /\ Same.grab = grab /\ Same.list = list /\ Same.retired = retired
      /\ Same.grabbed = grabbed /\ Same.resizing = resizing /\ Same.unresponsive = unresponsive
  BY NowFields DEF Same
<1>4. g \in Worlds /\ Good(Same, Window, Window)
  BY <1>1, NowIsWorld DEF IInv
<1>5. \A w \in unresponsive : window[w] = "live"
  BY <1>3, <1>4 DEF Good, Static
<1>6. Good(g, Window, Window)
  BY <1>2, <1>3, <1>4, <1>5, AlikeIsGood
<1> QED BY <1>2, <1>6

\* The callback leaves a good g: the new state is good.
LEMMA BecomesKeeps ==
  ASSUME NEW g, Good(g, Window, Window), Becomes(g),
         loop' \in [op : {"none", "timeout", "pong"}, left : SUBSET (Pointer \cup Box),
                    surfaces : SUBSET Window]
  PROVE  TypeOK' /\ Good(Same', Window, Window)
<1>1. g \in Worlds /\ g.list \cap g.retired = {}
  BY DEF Good, Static
<1>2. /\ window' = g.window /\ device' = g.device /\ pressed' = g.pressed
      /\ hover' = g.hover /\ focus' = g.focus /\ current' = g.current
      /\ list' = g.list /\ retired' \subseteq g.retired
      /\ grabbed' = g.grabbed /\ resizing' = g.resizing
      /\ unresponsive' = g.unresponsive
      /\ grab' \in [Box -> Grab \cup {Blank}]
      /\ \A b \in g.list : grab'[b] = g.grab[b]
  BY <1>1 DEF Becomes, Worlds
<1>3. TypeOK'
  BY <1>1, <1>2 DEF TypeOK, Worlds
<1> DEFINE h == Same'
<1>4. /\ h.window = window' /\ h.device = device' /\ h.pressed = pressed'
      /\ h.hover = hover' /\ h.focus = focus' /\ h.current = current'
      /\ h.grab = grab' /\ h.list = list' /\ h.retired = retired'
      /\ h.grabbed = grabbed' /\ h.resizing = resizing' /\ h.unresponsive = unresponsive'
  BY DEF Same, Now
<1>5. h \in Worlds
  BY <1>1, <1>2 DEF Same, Now, Worlds
<1> HIDE DEF h
<1>6. \A w \in h.unresponsive : g.window[w] = "live"
  BY <1>2, <1>4 DEF Good, Static
<1>7. Good(h, Window, Window)
  BY <1>2, <1>4, <1>5, <1>6, AlikeIsGood
<1> QED BY <1>3, <1>7 DEF h

LEMMA GoodPrimed ==
  ASSUME Good(Same', Window, Window) PROVE (Good(Same, Window, Window))'
BY DEF Good, Static, Usable, GrabbedHeld, ResizeHeld, Holds, HasBusy, Current

LEMMA ReturnsKeeps ==
  ASSUME IInv, NEW g, Good(g, Window, Window), Returns(g) PROVE IInv'
<1>1. loop = NoLoop /\ loop' = loop /\ Becomes(g)
  BY DEF Returns, Called
<1>2. TypeOK' /\ Good(Same', Window, Window)
  BY <1>1, BecomesKeeps DEF IInv, TypeOK
<1>3. LoopInv'
  BY <1>1 DEF LoopInv, NoLoop
<1> QED BY <1>2, <1>3, GoodPrimed DEF IInv

LEMMA RoomToCall ==
  ASSUME Roomy, NEW g, g.list = list, g.retired = retired
  PROVE  Room(g) /\ Free(g) # {}
BY DEF Roomy, Room, Free

-------------------------------------------------------------------------------
(***************************************************************************)
(* Windows and devices come and go.                                        *)
(***************************************************************************)
LEMMA SurfaceAddedKeeps ==
  ASSUME IInv, NEW w \in Window, SurfaceAdded(w) PROVE IInv'
<1> DEFINE h == [Same EXCEPT !.window = [@ EXCEPT ![w] = "live"]]
<1>1. Returns(h) /\ window[w] = "unborn"
  BY DEF SurfaceAdded
<1>2. Good(Same, Window, Window) /\ Same \in Worlds /\ Same.window = window
  BY NowFields DEF IInv, Good, Static, Same
<1>3. /\ h.window = [Same.window EXCEPT ![w] = "live"] /\ h.device = Same.device
      /\ h.pressed = Same.pressed /\ h.hover = Same.hover /\ h.focus = Same.focus
      /\ h.current = Same.current /\ h.grab = Same.grab /\ h.list = Same.list
      /\ h.retired = Same.retired /\ h.grabbed = Same.grabbed
      /\ h.resizing = Same.resizing /\ h.unresponsive = Same.unresponsive
      /\ h \in Worlds
  BY <1>2 DEF Worlds
<1> HIDE DEF h
<1>4. /\ \A d \in Device : Same.current[d] # Default => Current(h, d) = Current(Same, d)
      /\ \A d \in Device : HasBusy(h, d) = HasBusy(Same, d)
      /\ \A v \in Window : GrabbedHeld(h, v) = GrabbedHeld(Same, v)
      /\ \A v \in Window : ResizeHeld(h, v) = ResizeHeld(Same, v)
  BY <1>3, HoldersStay
<1>5. \A v \in Window : Same.window[v] # "unborn" => h.window[v] = Same.window[v]
  BY <1>1, <1>2, <1>3 DEF Worlds
<1>6. Static(h)
  BY <1>2, <1>3, <1>5 DEF Good, Static, Worlds
<1>7. ASSUME NEW d \in Device PROVE Usable(h, d)
  <2>1. Same.current[d] # Default => Current(Same, d).surface \in Window
    BY <1>2 DEF Good, Usable, Static, Current, Grab
  <2> QED BY <2>1, <1>2, <1>3, <1>4, <1>5 DEF Good, Usable
<1>8. Good(h, Window, Window)
  BY <1>2, <1>4, <1>6, <1>7 DEF Good
<1> QED BY <1>1, <1>8, ReturnsKeeps

LEMMA SurfaceRemovedKeeps ==
  ASSUME IInv, NEW w \in Window, SurfaceRemoved(w) PROVE IInv'
<1> DEFINE g == Same
           h == [Same EXCEPT
                  !.window = [@ EXCEPT ![w] = "dead"],
                  !.hover = [d \in Device |-> IF @[d].of = w THEN Nowhere ELSE @[d]],
                  !.focus = [d \in Device |-> IF @[d].of = w THEN Nowhere ELSE @[d]],
                  !.grabbed = @ \ {w}, !.resizing = @ \ {w}, !.unresponsive = @ \ {w}]
<1>1. Returns(h)
  BY DEF SurfaceRemoved
<1>2. Good(g, Window, Window) /\ g \in Worlds
  BY DEF IInv, Good, Static
<1> HIDE DEF g
<1>3. /\ h.window = [g.window EXCEPT ![w] = "dead"] /\ h.device = g.device
      /\ h.pressed = g.pressed
      /\ h.focus = [d \in Device |-> IF g.focus[d].of = w THEN Nowhere ELSE g.focus[d]]
      /\ h.current = g.current /\ h.grab = g.grab /\ h.list = g.list
      /\ h.retired = g.retired /\ h.grabbed = g.grabbed \ {w}
      /\ h.resizing = g.resizing \ {w} /\ h.unresponsive = g.unresponsive \ {w}
      /\ h \in Worlds
  BY <1>2 DEF Worlds, g
<1> HIDE DEF h
<1>4. /\ \A d \in Device : g.current[d] # Default => Current(h, d) = Current(g, d)
      /\ \A d \in Device : HasBusy(h, d) = HasBusy(g, d)
      /\ \A d \in Device, v \in Window : Holds(h, d, v) = Holds(g, d, v)
  BY <1>3, HoldersStay
<1>5. \A v \in Window : h.window[v] = IF v = w THEN "dead" ELSE g.window[v]
  BY <1>2, <1>3 DEF Worlds
<1>6. Static(h)
  <2>1. \A d \in Touch : h.focus[d] # Nowhere => h.focus[d] = g.focus[d]
    BY <1>3 DEF Device
  <2> QED BY <2>1, <1>2, <1>3, <1>5 DEF Good, Static, Worlds
<1>7. ASSUME NEW d \in Device PROVE Usable(h, d)
  <2>1. g.current[d] # Default => Current(g, d).surface \in Window
    BY <1>2 DEF Good, Usable, Static, Current, Grab
  <2> QED BY <2>1, <1>2, <1>3, <1>4, <1>5 DEF Good, Usable
<1>8. ASSUME NEW v \in Window PROVE GrabbedHeld(h, v) /\ ResizeHeld(h, v)
  BY <1>2, <1>3, <1>4 DEF Good, GrabbedHeld, ResizeHeld, Device
<1>9. Good(h, Window, Window)
  BY <1>6, <1>7, <1>8 DEF Good
<1> QED BY <1>1, <1>9, ReturnsKeeps

\* Only a device d changes: all but its grab is as good as before.
Moved(g, h, d) ==
  /\ h \in Worlds
  /\ h.window = g.window /\ h.current = g.current /\ h.grab = g.grab
  /\ h.list = g.list /\ h.retired = g.retired /\ h.grabbed = g.grabbed
  /\ h.resizing = g.resizing /\ h.unresponsive = g.unresponsive
  /\ \A e \in Device \ {d} : h.device[e] = g.device[e] /\ h.focus[e] = g.focus[e]
  /\ h.pressed \ {d} = g.pressed \ {d}
  /\ d \in Touch /\ h.focus[d] # Nowhere => d \in h.pressed

LEMMA DeviceMoves ==
  ASSUME NEW g, Good(g, Window, Window), NEW h, NEW d \in Device, Moved(g, h, d)
  PROVE  /\ GoodBut(h, Window, Window, d)
         /\ Usable(h, d) => Good(h, Window, Window)
         /\ HasBusy(h, d) = HasBusy(g, d)
         /\ g.current[d] # Default => Current(h, d) = Current(g, d)
<1>1. /\ \A e \in Device : g.current[e] # Default => Current(h, e) = Current(g, e)
      /\ \A e \in Device : HasBusy(h, e) = HasBusy(g, e)
      /\ \A v \in Window : GrabbedHeld(h, v) = GrabbedHeld(g, v)
      /\ \A v \in Window : ResizeHeld(h, v) = ResizeHeld(g, v)
  BY HoldersStay DEF Moved
<1>2. Static(h)
  <2>1. ASSUME NEW e \in Touch PROVE h.focus[e] # Nowhere => e \in h.pressed
    <3>1. CASE e = d
      BY <3>1, <2>1 DEF Moved
    <3>2. CASE e # d
      <4>1. h.focus[e] = g.focus[e] /\ (e \in g.pressed => e \in h.pressed)
        BY <3>2, <2>1 DEF Moved, Device
      <4> QED BY <4>1, <2>1 DEF Good, Static
    <3> QED BY <3>1, <3>2
  <2>2. /\ h \in Worlds /\ h.list \cap h.retired = {}
        /\ \A b \in h.list : h.grab[b] \in Grab
        /\ \A b \in h.list : h.grab[b].kind = "busy" => h.grab[b].device \in Pointer
    BY DEF Moved, Good, Static
  <2>3. \A w \in h.grabbed \cup h.resizing \cup h.unresponsive : h.window[w] = "live"
    BY DEF Moved, Good, Static
  <2> QED BY <2>1, <2>2, <2>3 DEF Static
<1>3. ASSUME NEW e \in Device \ {d} PROVE Usable(h, e)
  <2>1. /\ h.device[e] = g.device[e] /\ h.focus[e] = g.focus[e]
        /\ e \in g.pressed => e \in h.pressed
        /\ h.current = g.current /\ h.list = g.list /\ h.window = g.window
    BY <1>3 DEF Moved
  <2> QED BY <2>1, <1>1, <1>3 DEF Good, Usable
<1>4. g.current[d] # Default => g.current[d] \in g.list /\ Current(g, d).device = d
  BY DEF Good, Usable
<1>5. GoodBut(h, Window, Window, d)
  BY <1>1, <1>2, <1>3, <1>4 DEF GoodBut, Good, Moved
<1>6. ASSUME Usable(h, d) PROVE Good(h, Window, Window)
  BY <1>1, <1>2, <1>3, <1>6 DEF Good
<1> QED BY <1>1, <1>5, <1>6

LEMMA PlugKeeps ==
  ASSUME IInv, NEW d \in Device, Plug(d) PROVE IInv'
<1> DEFINE g == Same
           h == [Same EXCEPT !.device = [@ EXCEPT ![d] = "plugged"]]
<1>1. Returns(h) /\ g.device[d] # "plugged"
  BY NowFields DEF Plug, Same
<1>2. Good(g, Window, Window) /\ g \in Worlds
  BY DEF IInv, Good, Static
<1> HIDE DEF g
<1>3. Moved(g, h, d) /\ h.current = g.current
  BY <1>2 DEF Moved, Good, Static, Worlds, g
<1> HIDE DEF h
<1>4. Usable(h, d)
  BY <1>1, <1>2, <1>3 DEF Good, Usable
<1> QED BY <1>1, <1>2, <1>3, <1>4, DeviceMoves, ReturnsKeeps

LEMMA UnplugKeeps ==
  ASSUME IInv, NEW d \in Device, Unplug(d) PROVE IInv'
<1>1. PICK g \in Unbroken :
        Returns(EndCurrent([g EXCEPT !.device = [@ EXCEPT ![d] = "unplugged"],
                                     !.focus = [@ EXCEPT ![d] = Nowhere],
                                     !.pressed = @ \ {d}], d))
  BY DEF Unplug
<1> DEFINE h == [g EXCEPT !.device = [@ EXCEPT ![d] = "unplugged"],
                          !.focus = [@ EXCEPT ![d] = Nowhere],
                          !.pressed = @ \ {d}]
           r == EndCurrent(h, d)
<1>2. Good(g, Window, Window) /\ g \in Worlds /\ g.list = list /\ g.retired = retired
  BY WorldsAreGood DEF Good, Static
<1>3. Moved(g, h, d)
  BY <1>2 DEF Moved, Good, Static, Worlds
<1>4. h.list = list /\ h.retired = retired /\ Returns(r) /\ r = EndCurrent(h, d)
  BY <1>1, <1>2, <1>3 DEF Moved
<1> HIDE DEF h, r
<1>5. Free(h) # {}
  BY <1>4, RoomToCall DEF Returns, Called
<1>6. Good(r, Window, Window)
  BY <1>2, <1>3, <1>4, <1>5, DeviceMoves, EndCurrentKeeps
<1> QED BY <1>4, <1>6, ReturnsKeeps

LEMMA SeatDiesKeeps ==
  ASSUME IInv, NEW d \in Device, SeatDies(d) PROVE IInv'
<1> DEFINE g == Same
           h == [Same EXCEPT !.device = [@ EXCEPT ![d] = "none"],
                             !.focus = [@ EXCEPT ![d] = Nowhere],
                             !.hover = [@ EXCEPT ![d] = Nowhere]]
<1>1. Returns(h) /\ g.device[d] = "unplugged"
  BY NowFields DEF SeatDies, Same
<1>2. Good(g, Window, Window) /\ g \in Worlds
  BY DEF IInv, Good, Static
<1> HIDE DEF g
<1>3. Moved(g, h, d) /\ h.current = g.current
  <2>1. /\ h.window = g.window /\ h.current = g.current /\ h.grab = g.grab
        /\ h.list = g.list /\ h.retired = g.retired /\ h.grabbed = g.grabbed
        /\ h.resizing = g.resizing /\ h.unresponsive = g.unresponsive
        /\ h.pressed = g.pressed /\ h \in Worlds
        /\ h.device = [g.device EXCEPT ![d] = "none"]
        /\ h.focus = [g.focus EXCEPT ![d] = Nowhere]
    BY <1>2 DEF Worlds, g
  <2> HIDE DEF h
  <2>2. /\ \A e \in Device \ {d} : h.device[e] = g.device[e] /\ h.focus[e] = g.focus[e]
        /\ h.focus[d] = Nowhere
    BY <1>2, <2>1 DEF Worlds
  <2> QED BY <2>1, <2>2 DEF Moved
<1> HIDE DEF h
<1>4. Usable(h, d)
  BY <1>1, <1>2, <1>3 DEF Good, Usable
<1> QED BY <1>1, <1>2, <1>3, <1>4, DeviceMoves, ReturnsKeeps

-------------------------------------------------------------------------------
(***************************************************************************)
(* Motion, buttons and fingers.                                            *)
(***************************************************************************)
LEMMA ShownIsTarget == Shown \subseteq Target \cup {Nowhere}
BY DEF Shown

LEMMA MotionKeeps ==
  ASSUME IInv, NEW d \in Device, NEW t \in Shown, Motion(d, t) PROVE IInv'
<1>1. PICK g \in Unbroken :
        Returns(FocusCallback([g EXCEPT !.hover = [@ EXCEPT ![d] = t]], d))
  BY DEF Motion
<1> DEFINE h == [g EXCEPT !.hover = [@ EXCEPT ![d] = t]]
           r == FocusCallback(h, d)
<1>2. Good(g, Window, Window) /\ g \in Worlds /\ g.list = list /\ g.retired = retired
  BY WorldsAreGood DEF Good, Static
<1>3. Moved(g, h, d) /\ h.focus = g.focus /\ h.device = g.device /\ h.pressed = g.pressed
  BY <1>2, ShownIsTarget DEF Moved, Good, Static, Worlds
<1>4. h.list = list /\ h.retired = retired /\ Returns(r) /\ r = FocusCallback(h, d)
  BY <1>1, <1>2, <1>3 DEF Moved
<1> HIDE DEF h, r
<1>5. Free(h) # {}
  BY <1>4, RoomToCall DEF Returns, Called
<1>6. Usable(h, d)
  BY <1>2, <1>3, DeviceMoves DEF Good, Usable, Moved
<1>7. Good(h, Window, Window)
  BY <1>2, <1>3, <1>6, DeviceMoves
<1>8. Good(r, Window, Window)
  BY <1>4, <1>5, <1>7, FocusCallbackKeeps
<1> QED BY <1>4, <1>8, ReturnsKeeps

LEMMA PressKeeps ==
  ASSUME IInv, NEW d \in Device, Press(d) PROVE IInv'
<1> DEFINE g == Same
           h == [Same EXCEPT !.pressed = @ \cup {d}]
<1>1. Returns(h)
  BY DEF Press
<1>2. Good(g, Window, Window) /\ g \in Worlds
  BY DEF IInv, Good, Static
<1> HIDE DEF g
<1>3. Moved(g, h, d) /\ h.current = g.current /\ h.focus = g.focus /\ h.device = g.device
      /\ d \in h.pressed /\ h.list = g.list
  BY <1>2 DEF Moved, Good, Static, Worlds, g
<1> HIDE DEF h
<1>4. Usable(h, d)
  BY <1>2, <1>3, DeviceMoves DEF Good, Usable, Moved
<1> QED BY <1>1, <1>2, <1>3, <1>4, DeviceMoves, ReturnsKeeps

LEMMA TouchDownKeeps ==
  ASSUME IInv, NEW d \in Device, NEW t \in Shown, TouchDown(d, t) PROVE IInv'
<1> DEFINE g == Same
           h == [Same EXCEPT !.pressed = @ \cup {d}, !.focus = [@ EXCEPT ![d] = t]]
<1>1. Returns(h) /\ d \in Touch /\ d \notin g.pressed
  BY NowFields DEF TouchDown, Same
<1>2. Good(g, Window, Window) /\ g \in Worlds
  BY DEF IInv, Good, Static
<1> HIDE DEF g
<1>3. Moved(g, h, d) /\ h.current = g.current
  BY <1>2, ShownIsTarget DEF Moved, Good, Static, Worlds, g
<1> HIDE DEF h
<1>4. g.current[d] = Default
  BY <1>1, <1>2, GrabsAssumption
     DEF GrabsAssumption, Good, Usable, Static, HasBusy, Current, Device
<1>5. Usable(h, d)
  BY <1>3, <1>4 DEF Usable
<1> QED BY <1>1, <1>2, <1>3, <1>5, DeviceMoves, ReturnsKeeps

LEMMA ReleaseKeeps ==
  ASSUME IInv, NEW d \in Device, Release(d) PROVE IInv'
<1>1. PICK g \in Unbroken :
        LET up == [g EXCEPT !.pressed = @ \ {d}] IN
        Returns(CASE g.current[d] = Default -> DefaultFocus(up, d)
                  [] HasBusy(g, d)          -> up
                  [] OTHER                  -> EndCurrent(up, d))
  BY DEF Release
<1> DEFINE h == [g EXCEPT !.pressed = @ \ {d}]
           r == CASE g.current[d] = Default -> DefaultFocus(h, d)
                  [] HasBusy(g, d)          -> h
                  [] OTHER                  -> EndCurrent(h, d)
<1>2. Good(g, Window, Window) /\ g \in Worlds /\ g.list = list /\ g.retired = retired
  BY WorldsAreGood DEF Good, Static
<1>3. d \in Pointer /\ d \notin Touch
  BY GrabsAssumption DEF GrabsAssumption, Release
<1>4. /\ Moved(g, h, d) /\ h.current = g.current
      /\ h.device = g.device /\ h.focus = g.focus /\ h.window = g.window
  BY <1>2, <1>3 DEF Moved, Good, Static, Worlds
<1>5. h.list = list /\ h.retired = retired /\ Returns(r)
  BY <1>1, <1>2, <1>4 DEF Moved
<1>6. r = CASE g.current[d] = Default -> DefaultFocus(h, d)
            [] HasBusy(g, d)          -> h
            [] OTHER                  -> EndCurrent(h, d)
  OBVIOUS
<1> HIDE DEF h, r
<1>7. Free(h) # {}
  BY <1>5, RoomToCall DEF Returns, Called
<1>8. GoodBut(h, Window, Window, d) /\ (Usable(h, d) => Good(h, Window, Window))
  BY <1>2, <1>4, DeviceMoves
<1>9. CASE g.current[d] = Default
  <2>1. r = DefaultFocus(h, d)
    BY <1>6, <1>9 DEF HasBusy
  <2>2. Good(h, Window, Window) /\ h.current[d] = Default
    BY <1>4, <1>8, <1>9 DEF Usable
  <2>3. Good(r, Window, Window)
    BY <1>7, <2>1, <2>2, DefaultFocusKeeps
  <2> QED BY <1>5, <2>3, ReturnsKeeps
<1>10. CASE g.current[d] # Default /\ HasBusy(g, d)
  <2>1. r = h
    BY <1>6, <1>10
  <2>2. HasBusy(h, d) /\ Current(h, d) = Current(g, d)
    BY <1>2, <1>4, <1>10, DeviceMoves
  <2>3. Usable(h, d)
    BY <1>2, <1>4, <2>2 DEF Good, Usable, Moved
  <2> QED BY <1>5, <1>8, <2>1, <2>3, ReturnsKeeps
<1>11. CASE g.current[d] # Default /\ ~HasBusy(g, d)
  <2>1. r = EndCurrent(h, d)
    BY <1>6, <1>11
  <2>2. Good(r, Window, Window)
    BY <1>7, <1>8, <2>1, EndCurrentKeeps
  <2> QED BY <1>5, <2>2, ReturnsKeeps
<1> QED BY <1>9, <1>10, <1>11

LEMMA TouchUpKeeps ==
  ASSUME IInv, NEW d \in Device, TouchUp(d) PROVE IInv'
<1>1. PICK g \in Unbroken :
        Returns(EndCurrent([g EXCEPT !.pressed = @ \ {d},
                                     !.focus = [@ EXCEPT ![d] = Nowhere]], d))
  BY DEF TouchUp
<1> DEFINE h == [g EXCEPT !.pressed = @ \ {d}, !.focus = [@ EXCEPT ![d] = Nowhere]]
           r == EndCurrent(h, d)
<1>2. Good(g, Window, Window) /\ g \in Worlds /\ g.list = list /\ g.retired = retired
  BY WorldsAreGood DEF Good, Static
<1>3. Moved(g, h, d)
  BY <1>2 DEF Moved, Good, Static, Worlds
<1>4. h.list = list /\ h.retired = retired /\ Returns(r) /\ r = EndCurrent(h, d)
  BY <1>1, <1>2, <1>3 DEF Moved
<1> HIDE DEF h, r
<1>5. Free(h) # {}
  BY <1>4, RoomToCall DEF Returns, Called
<1>6. Good(r, Window, Window)
  BY <1>2, <1>3, <1>4, <1>5, DeviceMoves, EndCurrentKeeps
<1> QED BY <1>4, <1>6, ReturnsKeeps

-------------------------------------------------------------------------------
(***************************************************************************)
(* Requests.                                                               *)
(***************************************************************************)
LEMMA MoveRequestKeeps ==
  ASSUME IInv, NEW d \in Device, NEW w \in Window, MoveRequest(d, w) PROVE IInv'
<1>1. PICK g \in World : Returns(Start(g, d, "move", w))
  BY DEF MoveRequest
<1> DEFINE r == Start(g, d, "move", w)
<1>2. /\ Good(g, Window, Window) /\ Room(g)
      /\ g.window[w] = "live" /\ g.device[d] = "plugged" /\ g.focus[d].of = w
      /\ d \in g.pressed
  BY <1>1, WorldsAreGood, RoomToCall DEF MoveRequest, Returns, Called
<1>3. "move" \in Kinds /\ "move" # "busy" /\ r = Start(g, d, "move", w)
  BY DEF Kinds
<1> HIDE DEF r
<1>4. Good(r, Window \ {w}, Window) /\ GrabbedHeld(r, w)
  BY <1>2, <1>3, StartKeeps
<1>5. Good(r, Window, Window)
  BY <1>4 DEF Good
<1> QED BY <1>1, <1>3, <1>5, ReturnsKeeps

LEMMA TouchMoveRequestKeeps ==
  ASSUME IInv, NEW d \in Device, NEW w \in Window, TouchMoveRequest(d, w) PROVE IInv'
<1>1. PICK g \in World : Returns(Start(g, d, "touch", w))
  BY DEF TouchMoveRequest
<1> DEFINE r == Start(g, d, "touch", w)
<1>2. /\ Good(g, Window, Window) /\ Room(g)
      /\ g.window[w] = "live" /\ g.device[d] = "plugged" /\ g.focus[d].of = w
  BY <1>1, WorldsAreGood, RoomToCall DEF TouchMoveRequest, Returns, Called
<1>3. d \in g.pressed
  <2>1. g.focus[d] # Nowhere
    BY <1>2, NoneIsNothing
  <2> QED BY <1>2, <2>1 DEF TouchMoveRequest, Good, Static
<1>4. "touch" \in Kinds /\ "touch" # "busy" /\ r = Start(g, d, "touch", w)
  BY DEF Kinds
<1> HIDE DEF r
<1>5. Good(r, Window \ {w}, Window) /\ GrabbedHeld(r, w)
  BY <1>2, <1>3, <1>4, StartKeeps
<1>6. Good(r, Window, Window)
  BY <1>5 DEF Good
<1> QED BY <1>1, <1>4, <1>6, ReturnsKeeps

LEMMA ResizeRequestKeeps ==
  ASSUME IInv, NEW d \in Device, NEW w \in Window, ResizeRequest(d, w) PROVE IInv'
<1>1. PICK g \in World : Returns(Start([g EXCEPT !.resizing = @ \cup {w}], d, "resize", w))
  BY DEF ResizeRequest
<1> DEFINE h == [g EXCEPT !.resizing = @ \cup {w}]
           r == Start(h, d, "resize", w)
<1>2. /\ Good(g, Window, Window) /\ g \in Worlds
      /\ g.window[w] = "live" /\ g.device[d] = "plugged" /\ g.focus[d].of = w
      /\ d \in g.pressed /\ d \in Pointer /\ g.list = list /\ g.retired = retired
  BY WorldsAreGood DEF ResizeRequest, Good, Static
<1>3. /\ h.window = g.window /\ h.device = g.device /\ h.pressed = g.pressed
      /\ h.focus = g.focus /\ h.current = g.current /\ h.grab = g.grab
      /\ h.list = g.list /\ h.retired = g.retired /\ h.grabbed = g.grabbed
      /\ h.resizing = g.resizing \cup {w} /\ h.unresponsive = g.unresponsive
      /\ h \in Worlds
  BY <1>2 DEF Worlds
<1>4. "resize" \in Kinds /\ "resize" # "busy" /\ r = Start(h, d, "resize", w) /\ Returns(r)
  BY <1>1 DEF Kinds
<1> HIDE DEF h, r
<1>5. /\ \A e \in Device : g.current[e] # Default => Current(h, e) = Current(g, e)
      /\ \A e \in Device : HasBusy(h, e) = HasBusy(g, e)
      /\ \A e \in Device, v \in Window : Holds(h, e, v) = Holds(g, e, v)
      /\ \A v \in Window : GrabbedHeld(h, v) = GrabbedHeld(g, v)
  BY <1>3, HoldersStay
<1>6. Static(h)
  BY <1>2, <1>3 DEF Good, Static
<1>7. ASSUME NEW e \in Device PROVE Usable(h, e)
  BY <1>2, <1>3, <1>5 DEF Good, Usable
<1>8. ASSUME NEW v \in Window \ {w} PROVE ResizeHeld(h, v)
  BY <1>2, <1>3, <1>5 DEF Good, ResizeHeld, Device
<1>9. Good(h, Window, Window \ {w})
  BY <1>2, <1>5, <1>6, <1>7, <1>8 DEF Good
<1>10. Room(h)
  BY <1>2, <1>3, <1>4, RoomToCall DEF Returns, Called
<1>11. /\ h.window[w] = "live" /\ h.device[d] = "plugged" /\ h.focus[d].of = w
       /\ d \in h.pressed /\ d \in Pointer
  BY <1>2, <1>3
<1>12. Good(r, Window \ {w}, Window \ {w}) /\ GrabbedHeld(r, w) /\ ResizeHeld(r, w)
  BY <1>4, <1>9, <1>10, <1>11, StartKeeps
<1>13. Good(r, Window, Window)
  BY <1>12 DEF Good
<1> QED BY <1>4, <1>13, ReturnsKeeps

-------------------------------------------------------------------------------
(***************************************************************************)
(* Unresponsive clients.                                                   *)
(***************************************************************************)
Loops == [op : {"none", "timeout", "pong"}, left : SUBSET (Pointer \cup Box),
          surfaces : SUBSET Window]

LEMMA NoLoopIsIdle ==
  NoLoop \in Loops /\ NoLoop.op = "none"
BY DEF NoLoop, Loops

\* Marking or unmarking live windows.
LEMMA MarkedFields ==
  ASSUME NEW g, g \in Worlds, NEW U, U \subseteq Window
  PROVE  LET h == [g EXCEPT !.unresponsive = U] IN
         /\ h.window = g.window /\ h.device = g.device /\ h.pressed = g.pressed
         /\ h.focus = g.focus /\ h.current = g.current /\ h.grab = g.grab
         /\ h.list = g.list /\ h.retired = g.retired /\ h.grabbed = g.grabbed
         /\ h.resizing = g.resizing /\ h.unresponsive = U /\ h \in Worlds
BY DEF Worlds

LEMMA MarkKeeps ==
  ASSUME IInv, NEW U, U \subseteq Window, \A w \in U : window[w] = "live",
         NEW h, h = [Same EXCEPT !.unresponsive = U]
  PROVE  /\ Good(h, Window, Window)
         /\ h.list = list /\ h.grab = grab
         /\ h.window = window /\ h.device = device /\ h.current = current
<1>1. /\ Good(Same, Window, Window) /\ Same \in Worlds
      /\ Same.window = window /\ Same.list = list /\ Same.grab = grab
      /\ Same.device = device /\ Same.current = current
  BY NowFields DEF IInv, Good, Static, Same
<1>2. /\ h.window = Same.window /\ h.device = Same.device /\ h.pressed = Same.pressed
      /\ h.focus = Same.focus /\ h.current = Same.current /\ h.grab = Same.grab
      /\ h.list = Same.list /\ h.retired = Same.retired /\ h.grabbed = Same.grabbed
      /\ h.resizing = Same.resizing /\ h.unresponsive = U /\ h \in Worlds
  BY <1>1, MarkedFields
<1>3. \A w \in h.unresponsive : Same.window[w] = "live"
  BY <1>1, <1>2
<1>4. Good(h, Window, Window)
  BY <1>1, <1>2, <1>3, AlikeIsGood
<1> QED BY <1>1, <1>2, <1>4

LEMMA LiveMarks ==
  ASSUME IInv
  PROVE  unresponsive \subseteq Window /\ \A w \in unresponsive : window[w] = "live"
<1>1. Good(Same, Window, Window) /\ Same.window = window /\ Same.unresponsive = unresponsive
  BY NowFields DEF IInv, Same
<1> QED BY <1>1 DEF Good, Static, Worlds

LEMMA PingTimeoutKeeps ==
  ASSUME IInv, NEW w \in Window, PingTimeout(w) PROVE IInv'
<1> DEFINE seats == {p \in Pointer : device[p] = "plugged"}
           U == unresponsive \cup ClientOf(w)
           h == [Same EXCEPT !.unresponsive = U]
<1>1. /\ loop' = IF seats = {} THEN NoLoop
                 ELSE [op |-> "timeout", left |-> seats, surfaces |-> ClientOf(w)]
      /\ Becomes(h)
  BY NowFields DEF PingTimeout, Same
<1>2. ClientOf(w) \subseteq Window /\ \A v \in ClientOf(w) : window[v] = "live"
  BY DEF ClientOf
<1>3. U \subseteq Window /\ \A v \in U : window[v] = "live"
  BY <1>2, LiveMarks
<1> HIDE DEF h, U
<1>4. Good(h, Window, Window) /\ h.window = window /\ h.device = device
  BY <1>3, MarkKeeps DEF h
<1>5. window' = window /\ device' = device
  BY <1>1, <1>4 DEF Becomes
<1>6. loop' \in Loops /\ LoopInv'
  BY <1>1, <1>2, <1>5, NoLoopIsIdle DEF Loops, LoopInv
<1>7. TypeOK' /\ Good(Same', Window, Window)
  BY <1>1, <1>4, <1>6, BecomesKeeps DEF Loops
<1> QED BY <1>6, <1>7, GoodPrimed DEF IInv

\* The boxes left of a good state keep their contents in the drain.
LEMMA ListedStay ==
  ASSUME NEW g, g \in Worlds, Becomes(g)
  PROVE  list' = g.list /\ \A b \in list' : grab'[b] = g.grab[b]
BY DEF Becomes, Worlds

LEMMA PongKeeps ==
  ASSUME IInv, NEW w \in Window, Pong(w) PROVE IInv'
<1> DEFINE busy == {b \in list : grab[b].kind = "busy" /\ grab[b].surface \in ClientOf(w)}
           U == unresponsive \ ClientOf(w)
           h == [Same EXCEPT !.unresponsive = U]
<1>1. /\ loop' = IF busy = {} THEN NoLoop
                 ELSE [op |-> "pong", left |-> busy, surfaces |-> {}]
      /\ Becomes(h)
  BY NowFields DEF Pong, Same
<1>2. U \subseteq Window /\ \A v \in U : window[v] = "live"
  BY LiveMarks
<1> HIDE DEF h, U
<1>3. Good(h, Window, Window) /\ h.list = list /\ h.grab = grab
  BY <1>2, MarkKeeps DEF h
<1>4. list' = list /\ \A b \in list : grab'[b] = grab[b]
  BY <1>1, <1>3, ListedStay DEF Good, Static
<1>5. busy \subseteq {b \in list' : grab'[b].kind = "busy"} /\ busy \subseteq Box
  BY <1>4 DEF IInv, TypeOK
<1> HIDE DEF busy
<1>6. loop' \in Loops /\ LoopInv'
  BY <1>1, <1>5, NoLoopIsIdle DEF Loops, LoopInv
<1>7. TypeOK' /\ Good(Same', Window, Window)
  BY <1>1, <1>3, <1>6, BecomesKeeps DEF Loops
<1> QED BY <1>6, <1>7, GoodPrimed DEF IInv

\* A round of a loop leaves the others to do.
LEMMA LeftIsLess ==
  ASSUME loop \in Loops, NEW x, Left(x)
  PROVE  /\ loop' \in Loops
         /\ loop'.op # "none" => /\ loop'.op = loop.op /\ loop'.left = loop.left \ {x}
                                /\ loop'.surfaces = loop.surfaces
         /\ \A y \in loop.left \ {x} : y \in loop'.left
<1>1. CASE loop.left \ {x} = {}
  BY <1>1, NoLoopIsIdle DEF Left
<1>2. CASE loop.left \ {x} # {}
  <2>1. loop' = [loop EXCEPT !.left = loop.left \ {x}]
    BY <1>2 DEF Left
  <2> QED BY <2>1 DEF Loops
<1> QED BY <1>1, <1>2

LEMMA MainParts == \A t \in Target \cup {Nowhere} : t.part = "main" => t = Main(t.of)
BY DEF Target, Nowhere, Main

\* What is current in a state that was left good is current after the drain.
LEMMA BusyStays ==
  ASSUME NEW g, Good(g, Window, Window), Becomes(g), NEW d \in Device, HasBusy(g, d)
  PROVE  HasBusy(Same', d)
<1>1. list' = g.list /\ \A b \in list' : grab'[b] = g.grab[b]
  BY ListedStay DEF Good, Static
<1>2. current' = g.current
  BY DEF Becomes
<1>3. Same'.current = current' /\ Same'.grab = grab'
  BY DEF Same, Now
<1>4. g.current[d] \in g.list
  BY DEF HasBusy, Good, Usable
<1> QED BY <1>1, <1>2, <1>3, <1>4 DEF HasBusy, Current

LEMMA VisitTimeoutKeeps ==
  ASSUME IInv, NEW d \in Device, VisitTimeout(d)
  PROVE  /\ IInv'
         /\ \A p \in Pointer : OnUnresponsive(p) /\ hover[p].part = "main"
              => p \in loop'.left \/ HasBusy(Same', p)
<1>1. PICK g \in World :
        Becomes(IF focus[d].of \in loop.surfaces THEN SetBusy(g, d, focus[d].of) ELSE g)
  BY DEF VisitTimeout
<1> DEFINE h == IF focus[d].of \in loop.surfaces THEN SetBusy(g, d, focus[d].of) ELSE g
<1>2. h = IF focus[d].of \in loop.surfaces THEN SetBusy(g, d, focus[d].of) ELSE g
  OBVIOUS
<1> HIDE DEF h
<1>3. /\ Good(g, Window, Window) /\ g.focus = focus /\ g.hover = hover /\ Room(g)
      /\ g.window = window /\ g.device = device
  BY WorldsAreGood, RoomToCall DEF VisitTimeout
<1>4. loop \in Loops /\ d \in Pointer /\ loop.op = "timeout" /\ Left(d)
  BY DEF VisitTimeout, IInv, LoopInv, TypeOK, Loops
<1>5. /\ Good(h, Window, Window) /\ h.window = window /\ h.device = device
      /\ OnUnresponsive(d) /\ hover[d].part = "main" => HasBusy(h, d)
  <2>1. CASE focus[d].of \in loop.surfaces
    <3> DEFINE w == focus[d].of
    <3>1. w \in Window /\ d \in loop.left
      BY <1>4, <2>1 DEF Loops, VisitTimeout
    <3>2. device[d] = "plugged" /\ window[w] = "live"
      BY <1>4, <2>1, <3>1 DEF IInv, LoopInv
    <3>3. OnUnresponsive(d) /\ hover[d].part = "main" => hover[d] = Main(w)
      BY MainParts DEF OnUnresponsive, IInv, TypeOK
    <3> HIDE DEF w
    <3> QED BY <1>2, <1>3, <1>4, <2>1, <3>1, <3>2, <3>3, SetBusyKeeps DEF w
  <2>2. CASE focus[d].of \notin loop.surfaces
    BY <1>2, <1>3, <2>2 DEF OnUnresponsive
  <2> QED BY <2>1, <2>2
<1>6. /\ loop' \in Loops
      /\ loop'.op # "none" => /\ loop'.op = loop.op /\ loop'.left = loop.left \ {d}
                             /\ loop'.surfaces = loop.surfaces
      /\ \A y \in loop.left \ {d} : y \in loop'.left
  BY <1>4, LeftIsLess
<1>7. window' = window /\ device' = device
  BY <1>1, <1>2, <1>5 DEF Becomes
<1>8. LoopInv'
  BY <1>4, <1>6, <1>7 DEF LoopInv, IInv
<1>9. TypeOK' /\ Good(Same', Window, Window)
  BY <1>1, <1>2, <1>5, <1>6, BecomesKeeps DEF Loops
<1>10. ASSUME NEW p \in Pointer, OnUnresponsive(p), hover[p].part = "main"
       PROVE  p \in loop'.left \/ HasBusy(Same', p)
  <2>1. CASE p # d
    BY <1>6, <1>10, <2>1 DEF OnUnresponsive
  <2>2. CASE p = d
    BY <1>1, <1>2, <1>5, <1>10, <2>2, BusyStays
  <2> QED BY <2>1, <2>2
<1> QED BY <1>8, <1>9, <1>10, GoodPrimed DEF IInv

LEMMA VisitPongKeeps ==
  ASSUME IInv, NEW b \in Box, VisitPong(b)
  PROVE  /\ IInv'
         /\ \A d \in Device : current[d] # Default /\ ~HasBusy(Same, d)
              => current'[d] = current[d] /\ current[d] \in list'
<1>1. PICK g \in Unbroken : Becomes(EndBusy(g, b))
  BY DEF VisitPong
<1> DEFINE h == EndBusy(g, b)
<1>2. h = EndBusy(g, b)
  OBVIOUS
<1> HIDE DEF h
<1>3. /\ Good(g, Window, Window) /\ g.list = list /\ g.grab = grab /\ Free(g) # {}
      /\ g.current = current
  BY WorldsAreGood, RoomToCall DEF VisitPong
<1>4. loop \in Loops /\ loop.op = "pong" /\ b \in loop.left /\ Left(b)
  BY DEF VisitPong, IInv, TypeOK, Loops
<1>5. loop.left \subseteq {c \in list : grab[c].kind = "busy"}
  BY <1>4 DEF IInv, LoopInv
<1>6. /\ Good(h, Window, Window) /\ list \ {b} \subseteq h.list
      /\ \A c \in list : h.grab[c] = grab[c]
      /\ \A e \in Device :
           current[e] # Default /\ ~HasBusy(g, e) => h.current[e] = current[e]
  <2>1. b \in g.list /\ g.grab[b].kind = "busy"
    BY <1>3, <1>4, <1>5
  <2>2. /\ Good(h, Window, Window) /\ g.list \ {b} \subseteq h.list
        /\ \A c \in g.list : h.grab[c] = g.grab[c]
        /\ \A e \in Device :
             g.current[e] # Default /\ ~HasBusy(g, e) => h.current[e] = g.current[e]
    BY <1>2, <1>3, <2>1, EndBusyKeeps
  <2> QED BY <1>3, <2>2
<1>7. list' = h.list /\ \A c \in list' : grab'[c] = h.grab[c]
  BY <1>1, <1>2, <1>6, ListedStay DEF Good, Static
<1>8. /\ loop' \in Loops
      /\ loop'.op # "none" => loop'.op = loop.op /\ loop'.left = loop.left \ {b}
  BY <1>4, LeftIsLess
<1>9. LoopInv'
  BY <1>4, <1>5, <1>6, <1>7, <1>8 DEF LoopInv
<1>10. TypeOK' /\ Good(Same', Window, Window)
  BY <1>1, <1>2, <1>6, <1>8, BecomesKeeps DEF Loops
<1>11. ASSUME NEW d \in Device, current[d] # Default, ~HasBusy(Same, d)
       PROVE  current'[d] = current[d] /\ current[d] \in list'
  <2>1. ~HasBusy(g, d)
    <3>1. Same.current = current /\ Same.grab = grab
      BY NowFields DEF Same
    <3> QED BY <1>3, <1>11, <3>1 DEF HasBusy, Current
  <2>2. h.current[d] = current[d] /\ h.current[d] \in h.list
    BY <1>6, <1>11, <2>1 DEF Good, Usable
  <2>3. current' = h.current
    BY <1>1, <1>2 DEF Becomes
  <2> QED BY <1>7, <2>2, <2>3
<1> QED BY <1>9, <1>10, <1>11, GoodPrimed DEF IInv

-------------------------------------------------------------------------------
(***************************************************************************)
(* The theorems.                                                           *)
(***************************************************************************)
LEMMA InitGood == Init => IInv
<1> SUFFICES ASSUME Init PROVE IInv
  OBVIOUS
<1>1. TypeOK
  BY NoneIsNothing, NoLoopIsIdle DEF Init, TypeOK, Loops, Device
<1>2. Same \in Worlds
  BY <1>1, NowIsWorld DEF Same
<1>3. /\ Same.list = list /\ Same.retired = retired /\ Same.grabbed = grabbed
      /\ Same.resizing = resizing /\ Same.unresponsive = unresponsive
      /\ Same.current = current /\ Same.focus = focus
  BY NowFields DEF Same
<1>4. Good(Same, Window, Window)
  BY <1>2, <1>3 DEF Init, Good, Static, Usable, GrabbedHeld, ResizeHeld, Device
<1>5. LoopInv
  BY NoLoopIsIdle DEF Init, LoopInv
<1> QED BY <1>1, <1>4, <1>5 DEF IInv

LEMMA NextKeeps == IInv /\ [Next]_vars => IInv'
<1> SUFFICES ASSUME IInv, [Next]_vars PROVE IInv'
  OBVIOUS
<1>1. CASE UNCHANGED vars
  <2>1. TypeOK' /\ LoopInv'
    BY <1>1 DEF vars, IInv, TypeOK, LoopInv
  <2>2. Same' = Same
    BY <1>1 DEF vars, Same, Now
  <2> QED BY <2>1, <2>2, GoodPrimed DEF IInv
<1>2. ASSUME NEW w \in Window,
             \/ SurfaceAdded(w) \/ SurfaceRemoved(w) \/ PingTimeout(w) \/ Pong(w)
             \/ \E d \in Device :
                  MoveRequest(d, w) \/ TouchMoveRequest(d, w) \/ ResizeRequest(d, w)
      PROVE  IInv'
  BY <1>2, SurfaceAddedKeeps, SurfaceRemovedKeeps, PingTimeoutKeeps, PongKeeps,
     MoveRequestKeeps, TouchMoveRequestKeeps, ResizeRequestKeeps
<1>3. ASSUME NEW d \in Device,
             \/ Plug(d) \/ Unplug(d) \/ SeatDies(d) \/ VisitTimeout(d)
             \/ Press(d) \/ Release(d) \/ TouchUp(d)
             \/ \E t \in Shown : Motion(d, t) \/ TouchDown(d, t)
      PROVE  IInv'
  BY <1>3, PlugKeeps, UnplugKeeps, SeatDiesKeeps, VisitTimeoutKeeps, PressKeeps,
     ReleaseKeeps, TouchUpKeeps, MotionKeeps, TouchDownKeeps
<1>4. ASSUME NEW b \in Box, VisitPong(b) PROVE IInv'
  BY <1>4, VisitPongKeeps
<1> QED BY <1>1, <1>2, <1>3, <1>4 DEF Next

\* The inductive invariant: between callbacks, and between the rounds of the
\* loops over seats and busy grabs, the state is good.
THEOREM InvariantHolds == Spec => []IInv
BY InitGood, NextKeeps, PTL DEF Spec

\* The state of grab.rs keeps its types; above all no box is both on
\* active_grabs and on pending_drop.
THEOREM TypeCorrect == Spec => []TypeOK
BY InvariantHolds, PTL DEF IInv

\* The grab libweston dispatches to is a box that is allocated, listed and of
\* that device, and a window is flagged only while a grab holds it: for any
\* windows, devices and boxes.
THEOREM GrabsAreUsable == Spec => []GrabsUsable
<1>1. IInv => GrabsUsable
  <2> SUFFICES ASSUME IInv PROVE GrabsUsable
    OBVIOUS
  <2>1. /\ Good(Same, Window, Window) /\ Same.current = current /\ Same.list = list
        /\ Same.grabbed = grabbed /\ Same.resizing = resizing
    BY NowFields DEF IInv, Same
  <2>2. CurrentGrabUsable
    BY <2>1 DEF CurrentGrabUsable, Good, Usable
  <2>3. \A d \in Device, w \in Window : Holds(Same, d, w) = HeldBy(d, w)
    BY <2>1 DEF Holds, HeldBy
  <2>4. FlagsHaveHolder
    BY <2>1, <2>3 DEF FlagsHaveHolder, Good, GrabbedHeld, ResizeHeld, Device
  <2> QED BY <2>2, <2>4 DEF GrabsUsable
<1> QED BY <1>1, InvariantHolds, PTL

\* Only the rounds of the loops take place while one runs.
LEMMA LoopsRunAlone ==
  ASSUME Next, loop.op # "none"
  PROVE  \/ \E d \in Device : VisitTimeout(d)
         \/ \E b \in Box : VisitPong(b)
<1>1. loop # NoLoop
  BY NoLoopIsIdle
<1>2. ~Called /\ \A g : ~Returns(g)
  BY <1>1 DEF Called, Returns
<1>3. ASSUME NEW w \in Window
      PROVE  /\ ~SurfaceAdded(w) /\ ~SurfaceRemoved(w) /\ ~PingTimeout(w) /\ ~Pong(w)
             /\ \A d \in Device : /\ ~MoveRequest(d, w) /\ ~TouchMoveRequest(d, w)
                                  /\ ~ResizeRequest(d, w)
  BY <1>2 DEF SurfaceAdded, SurfaceRemoved, PingTimeout, Pong, MoveRequest,
              TouchMoveRequest, ResizeRequest
<1>4. ASSUME NEW d \in Device
      PROVE  /\ ~Plug(d) /\ ~Unplug(d) /\ ~SeatDies(d)
             /\ ~Press(d) /\ ~Release(d) /\ ~TouchUp(d)
             /\ \A t : ~Motion(d, t) /\ ~TouchDown(d, t)
  BY <1>2 DEF Plug, Unplug, SeatDies, Press, Release, TouchUp, Motion, TouchDown
<1> QED BY <1>3, <1>4 DEF Next

\* The pong of a client ends busy grabs alone: a device that is in a move or
\* resize stays in it, for any grabs on any devices.
THEOREM PongsSpareOthers == Spec => PongSparesOthers
<1>1. IInv /\ [Next]_vars =>
        [loop.op = "pong" =>
           \A d \in Device :
             current[d] # Default /\ ~HasBusy(Same, d)
               => current'[d] = current[d] /\ current[d] \in list']_vars
  <2> SUFFICES ASSUME IInv, Next, loop.op = "pong", NEW d \in Device,
                      current[d] # Default, ~HasBusy(Same, d)
               PROVE  current'[d] = current[d] /\ current[d] \in list'
    OBVIOUS
  <2>1. \E b \in Box : VisitPong(b)
    BY LoopsRunAlone DEF VisitTimeout
  <2> QED BY <2>1, VisitPongKeeps
<1> QED BY <1>1, InvariantHolds, PTL DEF Spec, PongSparesOthers

\* The timeout of a ping shows the busy cursor on every pointer that is on the
\* window when its seat is visited, whatever grab that pointer is in.
THEOREM BusyIsShown == Spec => BusyShown
<1>1. IInv /\ [Next]_vars =>
        [\A p \in Pointer : OnUnresponsive(p) /\ hover[p].part = "main" /\ loop' # loop
           => p \in loop'.left \/ HasBusy(Same', p)]_vars
  <2> SUFFICES ASSUME IInv, Next, NEW p \in Pointer, OnUnresponsive(p),
                      hover[p].part = "main"
               PROVE  p \in loop'.left \/ HasBusy(Same', p)
    OBVIOUS
  <2>1. loop.op = "timeout"
    BY DEF OnUnresponsive
  <2>2. \E d \in Device : VisitTimeout(d)
    BY <2>1, LoopsRunAlone DEF VisitPong
  <2> QED BY <2>2, VisitTimeoutKeeps
<1> QED BY <1>1, InvariantHolds, PTL DEF Spec, BusyShown

===============================================================================
