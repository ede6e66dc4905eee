-------------------------------- MODULE Wiring ---------------------------------
(***************************************************************************)
(* The wiring of the shell (crates/weston/src/shell_init.rs, curtain.rs,   *)
(* layer.rs): the listeners it keeps on seats, pointers and outputs, the   *)
(* background curtains, the shell layers, and the order in which the       *)
(* compositor's destruction takes all of it down.                          *)
(*                                                                         *)
(* libweston is the environment: it creates and releases seats, gives and  *)
(* takes the pointer capability, enables, moves, resizes and destroys      *)
(* outputs.  A signal reaches a handler only while its listener is linked. *)
(* A seat stands for its address, so it may be born again; an output       *)
(* stands for its id, which is never reused (SlotTable).  Geometry has one *)
(* dimension.                                                              *)
(***************************************************************************)
EXTENDS Integers, FiniteSets

CONSTANTS
  Seat,
  Output,
  MaxPlace,  \* bound: the largest position of an output
  MaxWidth   \* bound: the largest width of an output

ASSUME WiringAssumption == MaxPlace \in Nat /\ MaxWidth \in Nat \ {0}

VARIABLES
  stage,    \* how far the attach, and later the destruction, has got
  \* libweston
  seat,     \* "none", "live", or "releasing": its pointer is gone already
  pointer,  \* "none", "able", "idle" (capability lost, struct kept), "freed"
  out,      \* "none", "live" or "gone"
  area,     \* position and width of each output
  desktop,  \* the weston_desktop exists
  layers,   \* the shell layers are initialised
  made,     \* curtains of each output that libweston holds
  \* the wrapper
  links,    \* how often each listener of a seat's record is on a list
  rec,      \* seats with a SEAT_RECS entry
  watch,    \* who listens to the destruction of each output
  curtain,  \* CtxInner.curtains: the area each one covers
  resized,  \* outputs with a queued OutputResized
  bare      \* outputs whose last curtain could not be created

libweston == <<seat, pointer, out, area>>
seats == <<seat, pointer, links, rec>>
outputs == <<out, area, watch, curtain, made, resized, bare>>
vars == <<stage, seats, outputs, desktop, layers>>

-------------------------------------------------------------------------------
Listener == {"destroy", "caps", "focus", "guard"}
Area == [at : 0 .. MaxPlace, width : 1 .. MaxWidth]
NoCurtain == [at |-> -1, width |-> 0]
Detached == [l \in Listener |-> 0]

\* The compositor's own destruction has not begun.
Alive == stage \in {"boot", "half", "run"}
\* The shell listens to the compositor's signals.
Listening == stage = "run"
Hears(s, l) == links[s][l] > 0
\* libweston is not inside the release of a seat.
NoRelease == \A s \in Seat : seat[s] # "releasing"

\* Faulty variant: the guard is added again.
GuardAddedAgain(link) ==
  [link EXCEPT !["focus"] = IF @ = 0 THEN 1 ELSE @, !["guard"] = @ + 1]

\* `attach_pointer_listeners`
PointerAttached(link) ==
  [link EXCEPT !["focus"] = IF @ = 0 THEN 1 ELSE @,
               !["guard"] = IF @ = 0 THEN 1 ELSE @]

\* `register_seat`: no seat is registered twice.
Registered(s) ==
  LET own == [Detached EXCEPT !["destroy"] = 1, !["caps"] = 1]
  IN IF s \in rec THEN links[s]
     ELSE IF pointer[s] = "able" THEN PointerAttached(own) ELSE own

\* `recreate_background`, with or without success of libweston's part.
Recreated(o, ok) ==
  /\ made' = [made EXCEPT ![o] =
                (IF curtain[o] = NoCurtain THEN @ ELSE @ - 1)
                + (IF out[o] = "live" /\ layers /\ ok THEN 1 ELSE 0)]
  /\ curtain' = [curtain EXCEPT ![o] =
                   IF out[o] = "live" /\ layers /\ ok THEN area[o] ELSE NoCurtain]
  /\ bare' = IF ok THEN bare \ {o} ELSE bare \cup {o}

-------------------------------------------------------------------------------
(***************************************************************************)
(* The attach.                                                             *)
(***************************************************************************)

Init ==
  /\ stage = "boot" /\ desktop = FALSE /\ layers = FALSE
  /\ seat = [s \in Seat |-> "none"] /\ pointer = [s \in Seat |-> "none"]
  /\ links = [s \in Seat |-> Detached] /\ rec = {}
  /\ out = [o \in Output |-> "none"]
  /\ area = [o \in Output |-> [at |-> 0, width |-> 1]]
  /\ watch = [o \in Output |-> "nobody"]
  /\ curtain = [o \in Output |-> NoCurtain] /\ made = [o \in Output |-> 0]
  /\ resized = {} /\ bare = {}

\* `wire_common`: layers, desktop, app, then the outputs and the seats that
\* exist already, with their listeners and curtains (those of `ok` work).
Attach(ok) ==
  /\ stage = "boot" /\ NoRelease
  /\ stage' = "run" /\ layers' = TRUE /\ desktop' = TRUE
  /\ LET there == {o \in Output : out[o] = "live"}
         held == {s \in Seat : seat[s] = "live"}
     IN /\ watch' = [o \in Output |-> IF o \in there THEN "shell" ELSE watch[o]]
        /\ curtain' = [o \in Output |-> IF o \in there \cap ok THEN area[o] ELSE curtain[o]]
        /\ made' = [o \in Output |-> IF o \in there \cap ok THEN 1 ELSE made[o]]
        /\ bare' = there \ ok
        /\ links' = [s \in Seat |-> IF s \in held THEN Registered(s) ELSE links[s]]
        /\ rec' = rec \cup held
  /\ UNCHANGED <<libweston, resized>>

\* The desktop cannot be created: only the layers and the destroy listener of
\* the compositor stay behind, for the teardown.
AttachFails ==
  /\ stage = "boot" /\ NoRelease
  /\ stage' = "half" /\ layers' = TRUE
  /\ UNCHANGED <<seats, outputs, desktop>>

-------------------------------------------------------------------------------
(***************************************************************************)
(* Seats.                                                                  *)
(***************************************************************************)

SeatCreated(s) ==
  /\ Alive /\ seat[s] = "none"
  /\ seat' = [seat EXCEPT ![s] = "live"]
  /\ rec' = IF Listening THEN rec \cup {s} ELSE rec
  /\ links' = IF Listening THEN [links EXCEPT ![s] = Registered(s)] ELSE links
  /\ UNCHANGED <<stage, pointer, outputs, desktop, layers>>

\* The caps handler, for the capability the seat now has.
CapsHandled(s, link, now) ==
  IF link["caps"] = 0 THEN link
  ELSE IF now = "able" THEN PointerAttached(link) ELSE [link EXCEPT !["focus"] = 0]

\* updated_caps_signal: the pointer capability came, went, or another did.
CapsChanged(s, now) ==
  /\ Alive /\ seat[s] = "live"
  /\ now \in (IF pointer[s] = "none" THEN {"none", "able"} ELSE {"able", "idle"})
  /\ pointer' = [pointer EXCEPT ![s] = now]
  /\ links' = [links EXCEPT ![s] = CapsHandled(s, @, now)]
  /\ UNCHANGED <<stage, seat, rec, outputs, desktop, layers>>

\* Faulty variant: the focus listener is left to the destruction of the seat.
PointerDestroyedBare(s) ==
  /\ seat[s] = "live" /\ pointer[s] \in {"able", "idle"}
  /\ seat' = [seat EXCEPT ![s] = "releasing"]
  /\ pointer' = [pointer EXCEPT ![s] = "freed"]
  /\ links' = [links EXCEPT ![s] = [@ EXCEPT !["guard"] = 0]]
  /\ UNCHANGED <<stage, rec, outputs, desktop, layers>>

\* weston_seat_release frees the pointer first; its destroy signal fires the
\* guard, a one-shot that takes the focus listener with it.
PointerDestroyed(s) ==
  /\ seat[s] = "live" /\ pointer[s] \in {"able", "idle"}
  /\ seat' = [seat EXCEPT ![s] = "releasing"]
  /\ pointer' = [pointer EXCEPT ![s] = "freed"]
  /\ links' = IF Hears(s, "guard")
              THEN [links EXCEPT ![s] = [@ EXCEPT !["guard"] = 0, !["focus"] = 0]]
              ELSE links
  /\ UNCHANGED <<stage, rec, outputs, desktop, layers>>

\* The destroy signal of the seat, after which it is freed: the record goes
\* and takes all its listeners off.
SeatDestroyed(s) ==
  /\ seat[s] = "releasing" \/ (seat[s] = "live" /\ pointer[s] = "none")
  /\ seat' = [seat EXCEPT ![s] = "none"]
  /\ pointer' = [pointer EXCEPT ![s] = "none"]
  /\ links' = IF Hears(s, "destroy") THEN [links EXCEPT ![s] = Detached] ELSE links
  /\ rec' = IF Hears(s, "destroy") THEN rec \ {s} ELSE rec
  /\ UNCHANGED <<stage, outputs, desktop, layers>>

-------------------------------------------------------------------------------
(***************************************************************************)
(* Outputs and their curtains.                                             *)
(***************************************************************************)

\* Faulty variant: the frontend registers the output before it enables it, so
\* that the shell takes it for one it knows.
EnabledRegisteredFirst(o, a, ok) ==
  /\ Alive /\ out[o] = "none"
  /\ out' = [out EXCEPT ![o] = "live"] /\ area' = [area EXCEPT ![o] = a]
  /\ watch' = IF Listening THEN [watch EXCEPT ![o] = "frontend"] ELSE watch
  /\ UNCHANGED <<stage, seats, curtain, made, bare, resized, desktop, layers>>

\* `register_output_shell` from the created signal, and then the
\* `register_output` of the frontend, which enabled the output.
OutputEnabled(o, a, ok) ==
  /\ Alive /\ out[o] = "none"
  /\ out' = [out EXCEPT ![o] = "live"] /\ area' = [area EXCEPT ![o] = a]
  /\ IF Listening
     THEN /\ watch' = [watch EXCEPT ![o] = "shell"]
          /\ curtain' = [curtain EXCEPT ![o] = IF ok THEN a ELSE @]
          /\ made' = [made EXCEPT ![o] = IF ok THEN @ + 1 ELSE @]
          /\ bare' = IF ok THEN bare ELSE bare \cup {o}
     ELSE UNCHANGED <<watch, curtain, made, bare>>
  /\ UNCHANGED <<stage, seats, resized, desktop, layers>>

\* The curtain moves inside the signal, with the view the shell holds.
MovedBy(cover, delta) ==
  IF cover = NoCurtain THEN cover ELSE [cover EXCEPT !.at = @ + delta]

OutputMoved(o, to) ==
  /\ Alive /\ out[o] = "live" /\ to # area[o].at
  /\ area' = [area EXCEPT ![o].at = to]
  /\ curtain' = IF Listening /\ watch[o] # "nobody"
                THEN [curtain EXCEPT ![o] = MovedBy(@, to - area[o].at)] ELSE curtain
  /\ UNCHANGED <<stage, seats, out, watch, made, resized, bare, desktop, layers>>

OutputResized(o, width) ==
  /\ Alive /\ out[o] = "live" /\ width # area[o].width
  /\ area' = [area EXCEPT ![o].width = width]
  /\ resized' = IF Listening /\ watch[o] # "nobody" THEN resized \cup {o} ELSE resized
  /\ UNCHANGED <<stage, seats, out, watch, curtain, made, bare, desktop, layers>>

\* The drain hands OutputResized to the shell; the output may be gone.
HandleResized(o, ok) ==
  /\ Alive /\ o \in resized
  /\ resized' = resized \ {o}
  /\ Recreated(o, ok)
  /\ UNCHANGED <<stage, seats, out, area, watch, desktop, layers>>

\* The user-destroy signal; then libweston frees the output.  A listener of
\* the frontend knows nothing of curtains.
OutputDestroyed(o) ==
  /\ out[o] = "live"
  /\ out' = [out EXCEPT ![o] = "gone"]
  /\ watch' = [watch EXCEPT ![o] = "nobody"]
  /\ IF watch[o] = "shell"
     THEN /\ curtain' = [curtain EXCEPT ![o] = NoCurtain]
          /\ made' = [made EXCEPT ![o] = IF curtain[o] = NoCurtain THEN @ ELSE @ - 1]
     ELSE UNCHANGED <<curtain, made>>
  /\ UNCHANGED <<stage, seats, area, resized, bare, desktop, layers>>

-------------------------------------------------------------------------------
(***************************************************************************)
(* The compositor-destroy listener, one call at a time.                    *)
(***************************************************************************)

After == [half |-> "curtains", run |-> "curtains", curtains |-> "desktop",
          desktop |-> "layers", layers |-> "seats", seats |-> "context"]

\* The destroy signal of the compositor reaches the shell.
Destroyed ==
  /\ stage \in {"half", "run"} /\ NoRelease
  /\ stage' = After[stage]
  /\ UNCHANGED <<seats, outputs, desktop, layers>>

\* `destroy_all_backgrounds`
CurtainsGo ==
  /\ stage = "curtains"
  /\ stage' = After[stage]
  /\ made' = [o \in Output |-> IF curtain[o] = NoCurtain THEN made[o] ELSE made[o] - 1]
  /\ curtain' = [o \in Output |-> NoCurtain]
  /\ UNCHANGED <<seats, out, area, watch, resized, bare, desktop, layers>>

\* `destroy_desktop`
DesktopGoes ==
  /\ stage = "desktop"
  /\ stage' = After[stage] /\ desktop' = FALSE
  /\ UNCHANGED <<seats, outputs, layers>>

\* `destroy_shell_layers`
LayersGo ==
  /\ stage = "layers"
  /\ stage' = After[stage] /\ layers' = FALSE
  /\ UNCHANGED <<seats, outputs, desktop>>

SeatsGo ==
  /\ stage = "seats"
  /\ stage' = After[stage]
  /\ rec' = {} /\ links' = [s \in Seat |-> IF s \in rec THEN Detached ELSE links[s]]
  /\ UNCHANGED <<seat, pointer, outputs, desktop, layers>>

\* `Ctx::teardown`: the queue is cleared, and every listener the context owns
\* is detached.
Teardown ==
  /\ stage = "context"
  /\ stage' = "down"
  /\ resized' = {} /\ watch' = [o \in Output |-> "nobody"]
  /\ UNCHANGED <<seats, out, area, curtain, made, bare, desktop, layers>>

-------------------------------------------------------------------------------
Attaching == AttachFails \/ \E ok \in SUBSET Output : Attach(ok)

SeatStep(s) ==
  \/ SeatCreated(s) \/ PointerDestroyed(s) \/ SeatDestroyed(s)
  \/ \E now \in {"none", "able", "idle"} : CapsChanged(s, now)

OutputStep(o) ==
  \/ \E a \in Area, ok \in BOOLEAN : OutputEnabled(o, a, ok)
  \/ \E to \in 0 .. MaxPlace : OutputMoved(o, to)
  \/ \E width \in 1 .. MaxWidth : OutputResized(o, width)
  \/ \E ok \in BOOLEAN : HandleResized(o, ok)
  \/ OutputDestroyed(o)

Destruction == Destroyed \/ CurtainsGo \/ DesktopGoes \/ LayersGo \/ SeatsGo \/ Teardown

\* libweston frees seats and outputs before the destroy signal of the
\* compositor or after it, never inside it.
Settled == Alive \/ stage = "down"

Next ==
  \/ Attaching
  \/ Settled /\ \E s \in Seat : SeatStep(s)
  \/ Settled /\ \E o \in Output : OutputStep(o)
  \/ Destruction

Spec == Init /\ [][Next]_vars

-------------------------------------------------------------------------------
(***************************************************************************)
(* Properties.                                                             *)
(***************************************************************************)

\* The variables have their types.
TypeOK ==
  /\ stage \in {"boot", "half", "run", "curtains", "desktop", "layers", "seats",
                "context", "down"}
  /\ seat \in [Seat -> {"none", "live", "releasing"}]
  /\ pointer \in [Seat -> {"none", "able", "idle", "freed"}]
  /\ links \in [Seat -> [Listener -> 0 .. 1]] /\ rec \subseteq Seat
  /\ out \in [Output -> {"none", "live", "gone"}]
  /\ area \in [Output -> Area]
  /\ watch \in [Output -> {"nobody", "shell", "frontend"}]
  /\ curtain \in [Output -> Area \cup {NoCurtain}]
  /\ made \in [Output -> 0 .. 1]
  /\ resized \subseteq Output /\ bare \subseteq Output
  /\ desktop \in BOOLEAN /\ layers \in BOOLEAN

\* No listener is on the list of a seat or pointer that was freed, or whose
\* record is gone; none is on two lists.  On whichever of the capability
\* change, the pointer's destruction and the seat's comes first, and whether
\* the compositor goes before or after them.
LinkedToLive ==
  \A s \in Seat :
    /\ Hears(s, "destroy") \/ Hears(s, "caps") => seat[s] # "none"
    /\ Hears(s, "focus") \/ Hears(s, "guard") => pointer[s] \in {"able", "idle"}
    /\ s \notin rec => links[s] = Detached

\* While the shell runs, every seat has a record, its focus listener is on
\* exactly while there is a pointer to focus, and the guard as long as the
\* pointer is not freed: no seat is forgotten over a capability that comes
\* and goes.
PointersFollowed ==
  Listening =>
    \A s \in Seat :
      /\ seat[s] = "live" => s \in rec
      /\ seat[s] = "live" => (Hears(s, "focus") <=> pointer[s] = "able")
      /\ pointer[s] = "able" => Hears(s, "guard")

\* Every enabled output has its curtain (unless libweston made none), and the
\* curtain covers the output as it is, whatever moved it or resized it, once
\* the queue holds no resize of it.
CurtainFits ==
  Listening =>
    \A o \in Output \ resized :
      out[o] = "live" =>
        /\ curtain[o] = NoCurtain => o \in bare
        /\ curtain[o] # NoCurtain => curtain[o] = area[o]

\* A curtain that libweston holds is one the wrapper knows, on an output and
\* on a layer that still exist.
CurtainsHeld ==
  \A o \in Output :
    /\ made[o] = IF curtain[o] = NoCurtain THEN 0 ELSE 1
    /\ made[o] > 0 => out[o] = "live" /\ layers

\* After the teardown libweston holds nothing of the shell: what it frees
\* later reaches no listener; and nothing outlived the layers its views are on.
NothingLeft ==
  /\ stage = "down" =>
       /\ ~desktop /\ ~layers /\ rec = {}
       /\ \A o \in Output : made[o] = 0 /\ watch[o] = "nobody"
       /\ \A s \in Seat : links[s] = Detached
  /\ desktop => layers

\* The listeners of seats and pointers (register_seat), through capability
\* changes, releases and the shutdown in any order: LinkedToLive and
\* PointersFollowed.
SeatListenersSound == LinkedToLive /\ PointersFollowed

\* The curtains (curtain.rs, register_output_shell), through moves, resizes,
\* the death of their output and the shutdown: CurtainFits, CurtainsHeld and
\* NothingLeft.
CurtainsSound == CurtainFits /\ CurtainsHeld /\ NothingLeft
===============================================================================
