----------------------------- MODULE WiringProofs ------------------------------
(***************************************************************************)
(* Proofs about Wiring: the listeners of seats and pointers, and the       *)
(* curtains, are sound for any number of seats and outputs.                *)
(***************************************************************************)
EXTENDS Wiring, TLAPS

\* A record holds the two listeners of the seat; those of the pointer follow
\* the pointer, and nothing is held for a seat without a record.
SeatInv ==
  \A s \in Seat :
    /\ seat[s] = "none" => pointer[s] = "none"
    /\ seat[s] = "releasing" <=> pointer[s] = "freed"
    /\ s \notin rec => links[s] = Detached
    /\ s \in rec =>
         /\ seat[s] # "none"
         /\ links[s]["destroy"] = 1 /\ links[s]["caps"] = 1
         /\ links[s]["focus"] = (IF pointer[s] = "able" THEN 1 ELSE 0)
         /\ pointer[s] = "able" => links[s]["guard"] = 1
         /\ links[s]["guard"] = 1 => pointer[s] \in {"able", "idle"}

\* Records exist only between the attach and the destruction, and then for
\* every seat.
RecInv ==
  /\ stage \in {"boot", "half", "context", "down"} => rec = {}
  /\ Listening => \A s \in Seat : seat[s] # "none" => s \in rec

\* A curtain stands where its output stands; its width may wait for the queue.
OutputInv ==
  \A o \in Output :
    /\ made[o] = IF curtain[o] = NoCurtain THEN 0 ELSE 1
    /\ curtain[o] # NoCurtain =>
         /\ out[o] = "live" /\ watch[o] = "shell"
         /\ curtain[o].at = area[o].at
         /\ o \notin resized => curtain[o].width = area[o].width
    /\ curtain[o] = NoCurtain /\ Listening /\ out[o] = "live" => o \in resized \cup bare
    /\ Listening /\ out[o] = "live" => watch[o] = "shell"
    /\ out[o] # "live" => watch[o] = "nobody"

\* What exists at each stage.
StageInv ==
  /\ layers <=> stage \in {"half", "run", "curtains", "desktop", "layers"}
  /\ desktop => stage \in {"run", "curtains", "desktop"}
  /\ stage \notin {"run", "curtains"} => \A o \in Output : curtain[o] = NoCurtain
  /\ stage \in {"boot", "half", "down"} => \A o \in Output : watch[o] = "nobody"
  /\ stage \in {"boot", "half", "down"} => resized = {}

IInv == TypeOK /\ SeatInv /\ RecInv /\ OutputInv /\ StageInv

\* The widths of areas are positive, so that no area is NoCurtain.
LEMMA AreaIsShown == \A a \in Area : a # NoCurtain
BY DEF Area, NoCurtain

LEMMA AreaByFields ==
  \A a, b \in Area : a.at = b.at /\ a.width = b.width => a = b
BY DEF Area

\* A record without links.
LEMMA DetachedIsTyped ==
  /\ Detached \in [Listener -> 0 .. 1]
  /\ Detached["focus"] = 0 /\ Detached["guard"] = 0
BY DEF Detached, Listener

LEMMA InitEstablishes == Init => IInv
<1> SUFFICES ASSUME Init PROVE IInv
  OBVIOUS
<1> USE WiringAssumption
<1>1. TypeOK
  <2>1. [at |-> 0, width |-> 1] \in Area
    BY DEF Area
  <2>2. links \in [Seat -> [Listener -> 0 .. 1]]
    BY DetachedIsTyped DEF Init
  <2>3. curtain \in [Output -> Area \cup {NoCurtain}]
    BY DEF Init
  <2>4. area \in [Output -> Area]
    BY <2>1 DEF Init
  <2>5. /\ seat \in [Seat -> {"none", "live", "releasing"}]
        /\ pointer \in [Seat -> {"none", "able", "idle", "freed"}]
        /\ out \in [Output -> {"none", "live", "gone"}]
        /\ watch \in [Output -> {"nobody", "shell", "frontend"}]
        /\ made \in [Output -> 0 .. 1]
    BY DEF Init
  <2>6. /\ stage = "boot" /\ rec = {} /\ resized = {} /\ bare = {}
        /\ desktop = FALSE /\ layers = FALSE
    BY DEF Init
  <2> QED BY <2>2, <2>3, <2>4, <2>5, <2>6 DEF TypeOK
<1>2. SeatInv /\ RecInv /\ OutputInv /\ StageInv
  BY DEF Init, SeatInv, RecInv, OutputInv, StageInv, Listening, NoCurtain
<1> QED BY <1>1, <1>2 DEF IInv

\* Each group of steps leaves the variables of the other alone.
LEMMA SeatStepKeeps ==
  ASSUME NEW s \in Seat, IInv, Settled, SeatStep(s) PROVE IInv'
<1> USE WiringAssumption DEF IInv, Settled, Alive, Listening, seats, outputs
<1>1. CASE SeatCreated(s)
  <2>1. TypeOK'
    <3>1. Registered(s) \in [Listener -> 0 .. 1]
      BY DEF TypeOK, Registered, PointerAttached, Detached, Listener
    <3> QED BY <1>1, <3>1 DEF SeatCreated, TypeOK
  <2>2. SeatInv'
    <3>1. s \notin rec /\ pointer[s] = "none"
      BY <1>1 DEF SeatCreated, SeatInv
    <3>2. /\ Registered(s)["destroy"] = 1 /\ Registered(s)["caps"] = 1
          /\ Registered(s)["focus"] = 0 /\ Registered(s)["guard"] = 0
      BY <3>1 DEF Registered, Detached, Listener
    <3>3. ASSUME NEW t \in Seat \ {s}
          PROVE  /\ seat'[t] = seat[t] /\ pointer'[t] = pointer[t]
                 /\ links'[t] = links[t] /\ (t \in rec' <=> t \in rec)
      BY <1>1 DEF SeatCreated, TypeOK
    <3>4. /\ seat'[s] = "live" /\ pointer'[s] = "none"
          /\ IF s \in rec' THEN links'[s] = Registered(s) ELSE links'[s] = links[s]
      BY <1>1, <3>1 DEF SeatCreated, TypeOK
    <3> QED BY <3>1, <3>2, <3>3, <3>4 DEF SeatInv
  <2>3. RecInv'
    BY <1>1 DEF SeatCreated, TypeOK, RecInv
  <2>4. OutputInv' /\ StageInv'
    BY <1>1 DEF SeatCreated, OutputInv, StageInv
  <2> QED BY <2>1, <2>2, <2>3, <2>4
<1>2. CASE PointerDestroyed(s)
  <2>1. TypeOK'
    BY <1>2 DEF PointerDestroyed, TypeOK, Listener
  <2>2. SeatInv'
    BY <1>2 DEF PointerDestroyed, TypeOK, SeatInv, Hears, Detached, Listener
  <2>3. RecInv'
    BY <1>2 DEF PointerDestroyed, TypeOK, RecInv
  <2>4. OutputInv' /\ StageInv'
    BY <1>2 DEF PointerDestroyed, OutputInv, StageInv
  <2> QED BY <2>1, <2>2, <2>3, <2>4
<1>3. CASE SeatDestroyed(s)
  <2>1. TypeOK'
    BY <1>3 DEF SeatDestroyed, TypeOK, Detached, Listener
  <2>2. SeatInv'
    <3>1. s \in rec <=> Hears(s, "destroy")
      BY DetachedIsTyped DEF SeatInv, Hears, TypeOK, Detached, Listener
    <3>2. seat'[s] = "none" /\ pointer'[s] = "none" /\ links'[s] = Detached /\ s \notin rec'
      BY <1>3, <3>1 DEF SeatDestroyed, TypeOK, SeatInv
    <3>3. \A x \in Seat \ {s} : /\ seat'[x] = seat[x] /\ pointer'[x] = pointer[x]
                               /\ links'[x] = links[x] /\ (x \in rec' <=> x \in rec)
      BY <1>3 DEF SeatDestroyed, TypeOK
    <3> QED BY <3>2, <3>3 DEF SeatInv
  <2>3. RecInv'
    BY <1>3 DEF SeatDestroyed, TypeOK, RecInv, SeatInv, Hears, Detached, Listener
  <2>4. OutputInv' /\ StageInv'
    BY <1>3 DEF SeatDestroyed, OutputInv, StageInv
  <2> QED BY <2>1, <2>2, <2>3, <2>4
<1>4. ASSUME NEW now \in {"none", "able", "idle"}, CapsChanged(s, now) PROVE IInv'
  <2>0. pointer[s] \in {"none", "able", "idle"} /\ seat[s] = "live"
    BY <1>4 DEF CapsChanged, TypeOK, SeatInv
  <2>1. TypeOK'
    BY <1>4, <2>0 DEF CapsChanged, TypeOK, CapsHandled, PointerAttached, Listener
  <2>2. SeatInv'
    <3>1. \A x \in Seat \ {s} : pointer'[x] = pointer[x] /\ links'[x] = links[x]
      BY <1>4 DEF CapsChanged, TypeOK
    <3>2. pointer'[s] = now /\ links'[s] = CapsHandled(s, links[s], now) /\ links[s] \in [Listener -> 0 .. 1]
      BY <1>4 DEF CapsChanged, TypeOK
    <3>3. seat' = seat /\ rec' = rec
      BY <1>4 DEF CapsChanged
    <3>4. now # "none" \/ pointer[s] = "none"
      BY <1>4, <2>0 DEF CapsChanged
    <3>5. CASE s \in rec
      <4>1. /\ links'[s]["destroy"] = 1 /\ links'[s]["caps"] = 1
            /\ links'[s]["focus"] = (IF now = "able" THEN 1 ELSE 0)
            /\ now = "able" => links'[s]["guard"] = 1
            /\ now # "able" => links'[s]["guard"] = links[s]["guard"]
        BY <3>2, <3>5 DEF SeatInv, CapsHandled, PointerAttached, Listener
      <4>2. links'[s]["guard"] = 1 => now \in {"able", "idle"}
        BY <4>1, <3>4, <3>5 DEF SeatInv
      <4> QED BY <2>0, <3>1, <3>2, <3>3, <3>5, <4>1, <4>2 DEF SeatInv
    <3>6. CASE s \notin rec
      <4>1. links'[s] = Detached
        BY <3>2, <3>6 DEF SeatInv, CapsHandled, Detached, Listener
      <4> QED BY <2>0, <3>1, <3>2, <3>3, <3>6, <4>1 DEF SeatInv
    <3> QED BY <3>5, <3>6
  <2>3. RecInv'
    BY <1>4 DEF CapsChanged, TypeOK, RecInv
  <2>4. OutputInv' /\ StageInv'
    BY <1>4 DEF CapsChanged, OutputInv, StageInv
  <2> QED BY <2>1, <2>2, <2>3, <2>4
<1> QED BY <1>1, <1>2, <1>3, <1>4 DEF SeatStep

LEMMA OutputStepKeeps ==
  ASSUME NEW o \in Output, IInv, Settled, OutputStep(o) PROVE IInv'
<1> USE WiringAssumption, AreaIsShown, AreaByFields DEF IInv, Settled, Alive, Listening
<1>1. ASSUME NEW a \in Area, NEW ok \in BOOLEAN, OutputEnabled(o, a, ok) PROVE IInv'
  <2>1. TypeOK'
    BY <1>1 DEF OutputEnabled, TypeOK, OutputInv, seats
  <2>2. SeatInv' /\ RecInv'
    BY <1>1 DEF OutputEnabled, SeatInv, RecInv, seats
  <2>3. OutputInv'
    BY <1>1 DEF OutputEnabled, TypeOK, OutputInv, StageInv
  <2>4. StageInv'
    BY <1>1 DEF OutputEnabled, TypeOK, StageInv
  <2> QED BY <2>1, <2>2, <2>3, <2>4
<1>2. ASSUME NEW to \in 0 .. MaxPlace, OutputMoved(o, to) PROVE IInv'
  <2>1. TypeOK'
    BY <1>2 DEF OutputMoved, MovedBy, TypeOK, OutputInv, Area, seats
  <2>2. SeatInv' /\ RecInv'
    BY <1>2 DEF OutputMoved, SeatInv, RecInv, seats
  <2>3. OutputInv'
    BY <1>2 DEF OutputMoved, MovedBy, TypeOK, OutputInv, StageInv, Area, NoCurtain
  <2>4. StageInv'
    BY <1>2 DEF OutputMoved, MovedBy, TypeOK, StageInv
  <2> QED BY <2>1, <2>2, <2>3, <2>4
<1>3. ASSUME NEW width \in 1 .. MaxWidth, OutputResized(o, width) PROVE IInv'
  <2>1. TypeOK'
    BY <1>3 DEF OutputResized, TypeOK, Area, seats
  <2>2. SeatInv' /\ RecInv'
    BY <1>3 DEF OutputResized, SeatInv, RecInv, seats
  <2>3. OutputInv'
    BY <1>3 DEF OutputResized, TypeOK, OutputInv, StageInv, Area
  <2>4. StageInv'
    BY <1>3 DEF OutputResized, TypeOK, StageInv
  <2> QED BY <2>1, <2>2, <2>3, <2>4
<1>4. ASSUME NEW ok \in BOOLEAN, HandleResized(o, ok) PROVE IInv'
  <2>0. stage = "run"
    BY <1>4 DEF HandleResized, StageInv
  <2>1. TypeOK'
    BY <1>4 DEF HandleResized, Recreated, TypeOK, OutputInv, seats
  <2>2. SeatInv' /\ RecInv'
    BY <1>4 DEF HandleResized, SeatInv, RecInv, seats
  <2>3. OutputInv'
    BY <1>4, <2>0 DEF HandleResized, Recreated, TypeOK, OutputInv, StageInv
  <2>4. StageInv'
    BY <1>4, <2>0 DEF HandleResized, Recreated, TypeOK, StageInv
  <2> QED BY <2>1, <2>2, <2>3, <2>4
<1>5. CASE OutputDestroyed(o)
  <2>1. TypeOK'
    <3>1. made' \in [Output -> 0 .. 1]
      BY <1>5 DEF OutputDestroyed, TypeOK, OutputInv
    <3> QED BY <1>5, <3>1 DEF OutputDestroyed, TypeOK, seats
  <2>2. SeatInv' /\ RecInv'
    BY <1>5 DEF OutputDestroyed, SeatInv, RecInv, seats
  <2>3. OutputInv'
    BY <1>5 DEF OutputDestroyed, TypeOK, OutputInv
  <2>4. StageInv'
    BY <1>5 DEF OutputDestroyed, TypeOK, StageInv, OutputInv
  <2> QED BY <2>1, <2>2, <2>3, <2>4
<1> QED BY <1>1, <1>2, <1>3, <1>4, <1>5 DEF OutputStep

LEMMA AttachKeeps == ASSUME IInv, Attaching PROVE IInv'
<1> USE WiringAssumption, AreaIsShown DEF IInv, Listening
<1>1. CASE AttachFails
  <2>1. TypeOK'
    BY <1>1 DEF AttachFails, TypeOK, seats, outputs
  <2>2. SeatInv' /\ RecInv'
    BY <1>1 DEF AttachFails, SeatInv, RecInv, seats
  <2>3. OutputInv' /\ StageInv'
    BY <1>1 DEF AttachFails, OutputInv, StageInv, outputs
  <2> QED BY <2>1, <2>2, <2>3
<1>2. ASSUME NEW ok \in SUBSET Output, Attach(ok) PROVE IInv'
  <2>1. rec = {} /\ rec' = {s \in Seat : seat[s] = "live"}
    BY <1>2 DEF Attach, RecInv, TypeOK
  <2>2. \A s \in Seat : links'[s] = IF seat[s] = "live" THEN Registered(s) ELSE links[s]
    BY <1>2 DEF Attach
  <2>3. links' \in [Seat -> [Listener -> 0 .. 1]]
    BY <1>2, <2>1 DEF Attach, TypeOK, Registered, PointerAttached, Detached, Listener
  <2>4. TypeOK'
    BY <1>2, <2>1, <2>3 DEF Attach, TypeOK, libweston
  <2>5. SeatInv'
    <3>1. seat' = seat /\ pointer' = pointer
      BY <1>2 DEF Attach, libweston
    <3>2. ASSUME NEW s \in Seat, seat[s] = "live"
          PROVE /\ links'[s]["destroy"] = 1 /\ links'[s]["caps"] = 1
                /\ links'[s]["focus"] = (IF pointer[s] = "able" THEN 1 ELSE 0)
                /\ links'[s]["guard"] = (IF pointer[s] = "able" THEN 1 ELSE 0)
      <4>1. links'[s] = Registered(s) /\ s \notin rec
        BY <2>1, <2>2, <3>2
      <4> QED BY <4>1 DEF Registered, PointerAttached, Detached, Listener
    <3>3. \A s \in Seat : seat[s] # "live" => links'[s] = Detached /\ s \notin rec'
      BY <2>1, <2>2 DEF SeatInv
    <3> QED BY <2>1, <3>1, <3>2, <3>3 DEF SeatInv
  <2>6. RecInv'
    <3>1. seat' = seat /\ stage' = "run" /\ NoRelease
      BY <1>2 DEF Attach, libweston
    <3>2. \A s \in Seat : seat[s] # "none" => seat[s] = "live"
      BY <3>1 DEF NoRelease, TypeOK
    <3> QED BY <2>1, <3>1, <3>2 DEF RecInv
  <2>7. OutputInv' /\ StageInv'
    BY <1>2 DEF Attach, TypeOK, OutputInv, StageInv, libweston
  <2> QED BY <2>4, <2>5, <2>6, <2>7
<1> QED BY <1>1, <1>2 DEF Attaching

LEMMA DestructionKeeps == ASSUME IInv, Destruction PROVE IInv'
<1> USE WiringAssumption DEF IInv, Listening, After
<1>1. CASE Destroyed
  BY <1>1 DEF Destroyed, TypeOK, SeatInv, RecInv, OutputInv, StageInv, seats, outputs
<1>2. CASE CurtainsGo
  <2>1. TypeOK' /\ SeatInv' /\ RecInv'
    BY <1>2 DEF CurtainsGo, TypeOK, SeatInv, RecInv, OutputInv, seats
  <2>2. OutputInv' /\ StageInv'
    BY <1>2 DEF CurtainsGo, TypeOK, OutputInv, StageInv
  <2> QED BY <2>1, <2>2
<1>3. CASE DesktopGoes
  <2>1. TypeOK' /\ SeatInv' /\ RecInv'
    BY <1>3 DEF DesktopGoes, TypeOK, SeatInv, RecInv, seats, outputs
  <2>2. OutputInv' /\ StageInv'
    BY <1>3 DEF DesktopGoes, OutputInv, StageInv, seats, outputs
  <2> QED BY <2>1, <2>2
<1>4. CASE LayersGo
  <2>1. TypeOK' /\ SeatInv' /\ RecInv'
    BY <1>4 DEF LayersGo, TypeOK, SeatInv, RecInv, seats, outputs
  <2>2. OutputInv' /\ StageInv'
    BY <1>4 DEF LayersGo, OutputInv, StageInv, seats, outputs
  <2> QED BY <2>1, <2>2
<1>5. CASE SeatsGo
  <2>1. links' = [s \in Seat |-> IF s \in rec THEN Detached ELSE links[s]]
    BY <1>5 DEF SeatsGo
  <2>2. \A s \in Seat : links'[s] = Detached
    BY <2>1 DEF SeatInv
  <2>3. links' \in [Seat -> [Listener -> 0 .. 1]]
    BY <2>1, <2>2, DetachedIsTyped
  <2>4. TypeOK' /\ RecInv'
    BY <1>5, <2>3 DEF SeatsGo, TypeOK, RecInv, outputs
  <2>5. SeatInv'
    BY <1>5, <2>2 DEF SeatsGo, SeatInv
  <2>6. OutputInv' /\ StageInv'
    BY <1>5 DEF SeatsGo, TypeOK, OutputInv, StageInv, outputs
  <2> QED BY <2>4, <2>5, <2>6
<1>6. CASE Teardown
  <2>1. TypeOK' /\ SeatInv' /\ RecInv'
    BY <1>6 DEF Teardown, TypeOK, SeatInv, RecInv, seats
  <2>2. OutputInv' /\ StageInv'
    BY <1>6 DEF Teardown, TypeOK, OutputInv, StageInv
  <2> QED BY <2>1, <2>2
<1> QED BY <1>1, <1>2, <1>3, <1>4, <1>5, <1>6 DEF Destruction

LEMMA StutterKeeps == ASSUME IInv, UNCHANGED vars PROVE IInv'
BY DEF IInv, TypeOK, SeatInv, RecInv, OutputInv, StageInv, Listening, vars, seats, outputs

THEOREM InvariantHolds == Spec => []IInv
<1>1. Init => IInv
  BY InitEstablishes
<1>2. IInv /\ [Next]_vars => IInv'
  BY AttachKeeps, SeatStepKeeps, OutputStepKeeps, DestructionKeeps, StutterKeeps DEF Next
<1> QED BY <1>1, <1>2, PTL DEF Spec

\* The variables of Wiring always have their types; in particular no listener
\* of shell_init.rs is ever on two lists.
THEOREM TypeCorrect == Spec => []TypeOK
<1>1. IInv => TypeOK
  BY DEF IInv
<1> QED BY <1>1, InvariantHolds, PTL

\* No listener of a seat record is linked to a freed seat or pointer, and a
\* pointer is listened to exactly as long as it has its capability.
THEOREM SeatListeners == Spec => []SeatListenersSound
<1>1. IInv => LinkedToLive
  BY DEF IInv, TypeOK, SeatInv, LinkedToLive, Hears, Detached, Listener
<1>2. IInv => PointersFollowed
  BY DEF IInv, TypeOK, SeatInv, RecInv, PointersFollowed, Hears, Listening
<1> QED BY <1>1, <1>2, InvariantHolds, PTL DEF SeatListenersSound

\* Curtains fit their outputs, are destroyed before their layer, and nothing
\* of the shell is left in libweston after the teardown.
THEOREM Curtains == Spec => []CurtainsSound
<1>1. IInv => CurtainFits
  <2> SUFFICES ASSUME IInv, Listening, NEW o \in Output, o \notin resized, out[o] = "live"
               PROVE /\ curtain[o] = NoCurtain => o \in bare
                     /\ curtain[o] # NoCurtain => curtain[o] = area[o]
    BY DEF CurtainFits
  <2> QED BY AreaByFields DEF IInv, TypeOK, OutputInv
<1>2. IInv => CurtainsHeld
  BY DEF IInv, TypeOK, OutputInv, StageInv, CurtainsHeld
<1>3. IInv => NothingLeft
  BY DEF IInv, TypeOK, SeatInv, RecInv, OutputInv, StageInv, NothingLeft
<1> QED BY <1>1, <1>2, <1>3, InvariantHolds, PTL DEF CurtainsSound
===============================================================================
