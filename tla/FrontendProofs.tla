----------------------------- MODULE FrontendProofs -----------------------------
(***************************************************************************)
(* Proofs about Frontend.  First the resources: on every path out of every *)
(* step of startup, and on every path through the drop, what is held never *)
(* points into what was given back, all of it is given back, and a stop    *)
(* signal is graceful, whatever the program is started with.               *)
(*                                                                         *)
(* Then the heads.  What an enable, an announcement or a disable makes of  *)
(* a state is proved of the states themselves, as values (Good): enables   *)
(* nest, and a state inside one is good but for the outputs that are up    *)
(* and not announced, and the heads attached and not yet registered.  The  *)
(* steps of a flush and of hotplug follow from that, one lemma each, and   *)
(* the policy they read is the one main let through (PlanIsChecked).       *)
(* And the settings: a plan that is made is the one asked for.             *)
(***************************************************************************)
EXTENDS Frontend, FiniteSetTheorems, NaturalsInduction, SequenceTheorems, TLAPS,
        WellFoundedInduction

\* Steps that are never passed over, and that others point into.
Base == {"logCtx", "logFile", "logScope", "ctx", "display", "compositor"}
Before(n) == {Startup[i] : i \in 1 .. n - 1}

\* A startup holds nothing but what was reached, and all of its base.
StartupInv ==
  phase \in {"startup", "flushing"} =>
    /\ at \in 1 .. 28
    /\ held \subseteq Before(at)
    /\ Base \cap Before(at) \subseteq held
    /\ at > 17 => masked
    /\ phase = "flushing" => at = 25

LeakInv ==
  /\ phase \in {"startup", "flushing", "run"} => leaked = {}
  /\ leaked # {} => exit # "success" /\ plan.colorManagement

SignalInv ==
  /\ workers \in {None, TRUE}
  /\ workers # None => masked
  /\ exit = "killed" => workers = None /\ phase = "ended"

IInv ==
  /\ StartupInv /\ LeakInv /\ SignalInv
  /\ NothingDangles
  /\ phase = "ended" /\ exit # "killed" => held = {}

-------------------------------------------------------------------------------
(***************************************************************************)
(* The literal sequences.                                                  *)
(***************************************************************************)
LEMMA StartupLength == Len(Startup) = 28
BY DEF Startup

\* Where the steps stand that the invariant speaks of.
LEMMA StartupOrder ==
  /\ Startup[1] = "logCtx" /\ Startup[2] = "logScope" /\ Startup[3] = "logFile"
  /\ Startup[4] = "logger" /\ Startup[5] = "recorder" /\ Startup[6] = "handlers"
  /\ Startup[7] = "environment" /\ Startup[8] = "configure" /\ Startup[9] = "ctx"
  /\ Startup[10] = "display" /\ Startup[11] = "compositor" /\ Startup[12] = "keyboard"
  /\ Startup[13] = "colorManager" /\ Startup[14] = "protoScope"
  /\ Startup[15] = "protologger" /\ Startup[16] = "debugListener"
  /\ Startup[17] = "signals" /\ Startup[18] = "headsChanged"
  /\ Startup[19] = "mirrorListeners" /\ Startup[20] = "backends"
  /\ Startup[21] = "backendsLoaded" /\ Startup[22] = "dumpBinding"
  /\ Startup[23] = "shell" /\ Startup[24] = "screenshooter" /\ Startup[25] = "flush"
  /\ Startup[26] = "socket" /\ Startup[27] = "xwayland" /\ Startup[28] = "autolaunch"
BY DEF Startup

\* Steps are named once.
LEMMA StepsDiffer ==
  ASSUME NEW i \in 1 .. 28, NEW j \in 1 .. 28, Startup[i] = Startup[j]
  PROVE  i = j
BY StartupOrder, SMTT(60)

LEMMA BeforeGrows ==
  ASSUME NEW n \in 1 .. 28
  PROVE  /\ Before(n + 1) = Before(n) \cup {Startup[n]}
         /\ Before(n) \subseteq Before(n + 1)
BY DEF Before

LEMMA TeardownOrder ==
  /\ DOMAIN Teardown = 1 .. 15
  /\ Teardown[1] = {"xwayland"} /\ Teardown[2] = {"headsChanged"}
  /\ Teardown[3] = {"mirrorListeners", "debugListener", "screenshooter"}
  /\ Teardown[4] = {"protologger"} /\ Teardown[5] = {"protoScope"}
  /\ Teardown[6] = {"signals"}
  /\ Teardown[7] = {"compositor", "backends", "colorManager", "dumpBinding", "shell"}
  /\ Teardown[8] = {"ctx"} /\ Teardown[9] = {"display", "socket"}
  /\ Teardown[10] = {"handlers"} /\ Teardown[11] = {"logScope"}
  /\ Teardown[12] = {"logger"} /\ Teardown[13] = {"recorder"}
  /\ Teardown[14] = {"logCtx"} /\ Teardown[15] = {"logFile"}
BY DEF Teardown

\* What a step needs stands before it, or was looked at before it was taken.
LEMMA NeedsComeFirst ==
  ASSUME NEW n \in 1 .. 28, NEW r \in Needs(Startup[n])
  PROVE  \/ r \in Base \cap Before(n)
         \/ Startup[n] = "dumpBinding" /\ r = "recorder"
         \/ Startup[n] = "protologger" /\ r = "protoScope"
<1>1. /\ 1 < n => "logCtx" \in Before(n)
      /\ 2 < n => "logScope" \in Before(n)
      /\ 3 < n => "logFile" \in Before(n)
      /\ 9 < n => "ctx" \in Before(n)
      /\ 10 < n => "display" \in Before(n)
      /\ 11 < n => "compositor" \in Before(n)
  BY StartupOrder DEF Before
<1> QED BY <1>1, StartupOrder DEF Needs, Base

\* Whatever points into a resource goes before it, or with it.
LEMMA TeardownRespectsNeeds ==
  ASSUME NEW i \in DOMAIN Teardown, NEW r, NEW n \in Needs(r) \cap Teardown[i]
  PROVE  \E j \in 1 .. i : r \in Teardown[j]
<1>1. \/ n = "logCtx" /\ i = 14
      \/ n = "logFile" /\ i = 15
      \/ n = "logScope" /\ i = 11
      \/ n = "display" /\ i = 9
      \/ n = "ctx" /\ i = 8
      \/ n = "compositor" /\ i = 7
      \/ n = "recorder" /\ i = 13
      \/ n = "protoScope" /\ i = 5
  BY TeardownOrder DEF Needs
<1>2. \A j \in 1 .. 15 : j <= i => j \in 1 .. i
  BY TeardownOrder
<1> QED BY <1>1, <1>2, TeardownOrder, SMTT(60) DEF Needs

-------------------------------------------------------------------------------
(***************************************************************************)
(* Startup.                                                                *)
(***************************************************************************)
LEMMA InitEstablishes == Init => IInv
<1> SUFFICES ASSUME Init PROVE IInv
  OBVIOUS
<1>1. Before(1) = {}
  BY DEF Before
<1> QED BY <1>1, NoneAssumption
        DEF Init, IInv, StartupInv, LeakInv, SignalInv, NothingDangles

\* The next step, with what this one acquired.
LEMMA AdvanceKeeps ==
  ASSUME StartupInv, phase = "startup", NEW step, Advance(step),
         held' \in {held, held \cup {Startup[at]}},
         Startup[at] \in Base => Startup[at] \in held',
         masked => masked', at = 17 => masked'
  PROVE  StartupInv'
<1> SUFFICES ASSUME phase' \in {"startup", "flushing"}
             PROVE  /\ at' \in 1 .. 28
                    /\ held' \subseteq Before(at')
                    /\ Base \cap Before(at') \subseteq held'
                    /\ at' > 17 => masked'
                    /\ phase' = "flushing" => at' = 25
  BY DEF StartupInv, Before, Base
<1>1. at \in 1 .. 28 /\ at # 28 /\ at' = at + 1 /\ phase' = "startup"
  BY StartupLength DEF StartupInv, Advance
<1>2. Before(at') = Before(at) \cup {Startup[at]}
  BY <1>1, BeforeGrows
<1> QED BY <1>1, <1>2 DEF StartupInv

\* What stands above a step acquired in its turn.
LEMMA NextOneStands ==
  ASSUME StartupInv, NothingDangles, phase = "startup",
         Startup[at] = "dumpBinding" => "recorder" \in held,
         Startup[at] = "protologger" => "protoScope" \in held,
         held' \in {held, held \cup {Startup[at]}}
  PROVE  NothingDangles'
<1> SUFFICES ASSUME NEW r \in held' PROVE Needs(r) \subseteq held'
  BY DEF NothingDangles
<1>1. CASE r \in held
  BY <1>1 DEF NothingDangles
<1>2. CASE r = Startup[at]
  BY <1>2, NeedsComeFirst DEF StartupInv
<1> QED BY <1>1, <1>2

LEMMA AcquireKeeps ==
  ASSUME IInv, phase = "startup", Acquire(Startup[at]) PROVE IInv'
<1>1. at \in 1 .. 28 /\ Advance(Startup[at])
  BY DEF IInv, StartupInv, Acquire
<1>2. /\ held' \in {held, held \cup {Startup[at]}}
      /\ Startup[at] \in Base => Startup[at] \in held'
      /\ masked => masked'
      /\ at = 17 => masked'
  BY <1>1, StartupOrder DEF Acquire, Base, Transient
<1>3. StartupInv'
  BY <1>1, <1>2, AdvanceKeeps DEF IInv
<1>4. NothingDangles'
  BY <1>2, NextOneStands DEF IInv, Acquire, Skipped
<1>5. LeakInv' /\ SignalInv'
  BY DEF IInv, LeakInv, SignalInv, Acquire, Advance
<1>6. phase' # "ended"
  BY DEF Acquire, Advance
<1> QED BY <1>3, <1>4, <1>5, <1>6 DEF IInv

LEMMA SkipKeeps ==
  ASSUME IInv, phase = "startup", Skip(Startup[at]) PROVE IInv'
<1>1. at \in 1 .. 28 /\ Advance(Startup[at])
  BY DEF IInv, StartupInv, Skip
<1>2. /\ held' = held
      /\ Startup[at] \notin Base
      /\ masked' = masked /\ at # 17
  BY <1>1, StartupOrder DEF Skip, Base, Skipped, Optional
<1>3. StartupInv'
  BY <1>1, <1>2, AdvanceKeeps DEF IInv
<1>4. NothingDangles'
  BY <1>2 DEF IInv, NothingDangles
<1>5. LeakInv' /\ SignalInv'
  BY DEF IInv, LeakInv, SignalInv, Skip, Advance
<1>6. phase' # "ended"
  BY DEF Skip, Advance
<1> QED BY <1>3, <1>4, <1>5, <1>6 DEF IInv

\* A failure, before there is a Compositor and after.
LEMMA FailingKeeps ==
  ASSUME IInv, phase \in {"startup", "flushing"}, Failing(Startup[at]),
         Startup[at] = "colorManager" => plan.colorManagement,
         masked => masked'
  PROVE  IInv'
<1>1. at \in 1 .. 28 /\ held \subseteq Before(at)
  BY DEF IInv, StartupInv
<1>2. NothingDangles'
  <2>1. CASE Startup[at] \notin Early \cup {"colorManager"}
    BY <2>1 DEF IInv, NothingDangles, Failing
  <2>2. CASE Startup[at] \in Early \cup {"colorManager"}
    <3>1. at <= 13
      BY <1>1, <2>2, StartupOrder DEF Early
    <3>2. \A r \in Before(at) : r \notin Early => Needs(r) \cap Early = {}
      BY <1>1, <3>1, StartupOrder, SMTT(60) DEF Before, Needs, Early
    <3>3. held' = held \ Early
      BY <2>2 DEF Failing
    <3> QED BY <1>1, <3>2, <3>3 DEF IInv, NothingDangles
  <2> QED BY <2>1, <2>2
<1>3. StartupInv'
  BY DEF StartupInv, Failing
<1>4. LeakInv'
  BY DEF LeakInv, Failing
<1>5. SignalInv'
  BY DEF IInv, SignalInv, Failing
<1> QED BY <1>2, <1>3, <1>4, <1>5 DEF IInv, Failing

LEMMA RefuseKeeps ==
  ASSUME IInv, phase = "startup", Refuse(Startup[at]) PROVE IInv'
<1>1. /\ Startup[at] = "colorManager" => plan.colorManagement
      /\ masked => masked'
      /\ Failing(Startup[at])
  BY DEF Refuse, Skipped
<1> QED BY <1>1, FailingKeeps

LEMMA ConfigurationKeeps ==
  ASSUME IInv, Configure \/ RefuseConfiguration PROVE IInv'
<1>1. phase = "startup" /\ Startup[at] = "configure" /\ at \in 1 .. 28
  BY DEF Configure, RefuseConfiguration, Here, IInv, StartupInv
<1>2. CASE RefuseConfiguration
  BY <1>1, <1>2, FailingKeeps DEF RefuseConfiguration
<1>3. CASE Configure
  <2>1. /\ Advance("configure") /\ held' = held /\ masked' = masked
        /\ leaked' = leaked /\ exit' = exit /\ workers' = workers
    BY <1>3 DEF Configure
  <2>2. at = 8
    BY <1>1, StartupOrder
  <2>3. StartupInv'
    BY <1>1, <2>1, <2>2, AdvanceKeeps DEF IInv, Base
  <2>4. NothingDangles' /\ leaked = {}
    BY <1>1, <2>1 DEF IInv, NothingDangles, LeakInv
  <2>5. phase' \in {"startup", "run"}
    BY <2>1 DEF Advance
  <2> QED BY <1>1, <2>1, <2>3, <2>4, <2>5 DEF IInv, LeakInv, SignalInv
<1> QED BY <1>2, <1>3

LEMMA LoadKeeps ==
  ASSUME IInv, LoadSimple \/ LoadDrm PROVE IInv'
<1>1. /\ phase = "startup" /\ Startup[at] = "backends"
      /\ UNCHANGED <<phase, at, plan, held, leaked, masked, exit>>
      /\ workers' = (workers # FALSE /\ masked)
  BY DEF LoadSimple, LoadDrm, Here, Loaded
<1>2. masked
  BY <1>1, StartupOrder DEF IInv, StartupInv
<1>3. SignalInv'
  <2>1. masked' /\ phase' = phase /\ exit' = exit
    BY <1>1, <1>2
  <2>2. exit # "killed"
    BY <1>1 DEF IInv, SignalInv
  <2>3. workers' \in {None, TRUE}
    <3>1. CASE workers = FALSE
      <4>1. workers = None
        BY <3>1 DEF IInv, SignalInv
      <4>2. workers' = FALSE
        BY <1>1, <3>1
      <4> QED BY <3>1, <4>1, <4>2
    <3>2. CASE workers # FALSE
      <4>1. workers' = TRUE
        BY <1>1, <1>2, <3>2
      <4> QED BY <4>1
    <3> QED BY <3>1, <3>2
  <2> QED BY <2>1, <2>2, <2>3 DEF SignalInv
<1>4. StartupInv' /\ LeakInv' /\ NothingDangles' /\ phase' # "ended"
  BY <1>1 DEF IInv, StartupInv, LeakInv, NothingDangles
<1> QED BY <1>3, <1>4 DEF IInv

LEMMA BackendsDoneKeeps ==
  ASSUME IInv, BackendsDone PROVE IInv'
<1>1. /\ phase = "startup" /\ Startup[at] = "backends" /\ at \in 1 .. 28
      /\ held' = held \cup {Startup[at]} /\ Advance("backends")
      /\ UNCHANGED <<plan, leaked, masked, workers, exit>>
  BY DEF BackendsDone, Here, IInv, StartupInv
<1>2. StartupInv'
  BY <1>1, AdvanceKeeps, StartupOrder DEF IInv
<1>3. NothingDangles'
  BY <1>1, NextOneStands DEF IInv
<1>4. phase' \in {"startup", "run"}
  BY <1>1 DEF Advance
<1> QED BY <1>1, <1>2, <1>3, <1>4 DEF IInv, LeakInv, SignalInv

LEMMA AutolaunchKeeps ==
  ASSUME IInv, Autolaunch PROVE IInv'
<1>1. /\ phase = "startup" /\ Startup[at] = "autolaunch" /\ at \in 1 .. 28
      /\ Advance("autolaunch") /\ UNCHANGED <<plan, held, leaked, masked, workers, exit>>
  BY DEF Autolaunch, Here, IInv, StartupInv
<1>2. StartupInv'
  BY <1>1, AdvanceKeeps, StartupOrder DEF IInv, Base
<1>3. NothingDangles'
  BY <1>1 DEF IInv, NothingDangles
<1>4. phase' \in {"startup", "run"}
  BY <1>1 DEF Advance
<1> QED BY <1>1, <1>2, <1>3, <1>4 DEF IInv, LeakInv, SignalInv

LEMMA StartFlushKeeps ==
  ASSUME IInv, StartFlush PROVE IInv'
<1>1. /\ phase = "startup" /\ Startup[at] = "flush" /\ at \in 1 .. 28
      /\ phase' = "flushing" /\ UNCHANGED <<at, plan, held, leaked, masked, workers, exit>>
  BY DEF StartFlush, Here, IInv, StartupInv
<1>2. at = 25
  BY <1>1, StartupOrder
<1> QED BY <1>1, <1>2
        DEF IInv, StartupInv, LeakInv, SignalInv, NothingDangles, Before

\* The flush is over: on with startup, or back out of it.
LEMMA FlushDoneKeeps ==
  ASSUME IInv, FlushDone PROVE IInv'
<1>1. phase = "flushing" /\ at = 25 /\ Startup[at] = "flush"
  BY StartupOrder DEF FlushDone, IInv, StartupInv
<1>2. CASE Failing("flush") /\ UNCHANGED masked
  BY <1>1, <1>2, FailingKeeps
<1>3. CASE Advance("flush") /\ UNCHANGED <<plan, held, leaked, masked, workers, exit>>
  <2>1. at' = 26 /\ phase' = "startup"
    BY <1>1, <1>3, StartupLength DEF Advance
  <2>2. Before(26) = Before(25) \cup {"flush"}
    BY <1>1, BeforeGrows
  <2>3. StartupInv'
    BY <1>1, <1>3, <2>1, <2>2 DEF IInv, StartupInv, Base
  <2> QED BY <1>1, <1>3, <2>1, <2>3 DEF IInv, LeakInv, SignalInv, NothingDangles
<1> QED BY <1>2, <1>3 DEF FlushDone

-------------------------------------------------------------------------------
(***************************************************************************)
(* The event loop and the drop.                                            *)
(***************************************************************************)
\* What the flush and the event loop do leaves all this alone.
LEMMA StutterKeeps ==
  ASSUME IInv, Flush \/ Plug \/ UNCHANGED vars PROVE IInv'
<1>1. UNCHANGED mainVars
  BY DEF Flush, Plug, vars
<1> QED BY <1>1
        DEF IInv, StartupInv, LeakInv, SignalInv, NothingDangles, Before, mainVars

LEMMA LeaveKeeps ==
  ASSUME IInv, HandleStop \/ WatchedClientExits PROVE IInv'
<1>1. /\ phase = "run" /\ phase' = "drop" /\ exit' = "success"
      /\ UNCHANGED <<plan, held, leaked, masked, workers>>
  BY DEF HandleStop, WatchedClientExits, Leave
<1>2. leaked = {}
  BY <1>1 DEF IInv, LeakInv
<1> QED BY <1>1, <1>2 DEF IInv, StartupInv, LeakInv, SignalInv, NothingDangles

LEMMA StopKeeps ==
  ASSUME IInv, StopArrives PROVE IInv'
<1>1. phase # "ended" /\ UNCHANGED <<at, plan, held, leaked, masked, workers>>
  BY DEF StopArrives
<1>2. CASE UNCHANGED <<phase, exit>>
  BY <1>1, <1>2
     DEF IInv, StartupInv, LeakInv, SignalInv, NothingDangles, Before
<1>3. CASE phase' = "ended" /\ exit' = "killed" /\ ~(masked /\ workers # FALSE)
  <2>1. workers = None
    <3>1. CASE ~masked
      BY <3>1 DEF IInv, SignalInv
    <3>2. CASE workers = FALSE
      BY <3>2 DEF IInv, SignalInv
    <3> QED BY <1>3, <3>1, <3>2
  <2> QED BY <1>1, <1>3, <2>1
          DEF IInv, StartupInv, LeakInv, SignalInv, NothingDangles
<1> QED BY <1>2, <1>3 DEF StopArrives

LEMMA ReleaseKeeps ==
  ASSUME IInv, NEW i \in DOMAIN Teardown, Release(i) PROVE IInv'
<1>1. /\ phase = "drop" /\ held' = held \ Teardown[i]
      /\ \A j \in 1 .. i - 1 : Teardown[j] \cap held = {}
      /\ UNCHANGED <<phase, at, plan, leaked, masked, workers, exit>>
  BY DEF Release
<1>2. NothingDangles'
  <2> SUFFICES ASSUME NEW r \in held', NEW n \in Needs(r) PROVE n \in held'
    BY DEF NothingDangles
  <2>1. r \in held /\ n \in held /\ r \notin Teardown[i]
    BY <1>1 DEF IInv, NothingDangles
  <2>2. ~\E j \in 1 .. i : r \in Teardown[j]
    BY <1>1, <2>1, TeardownOrder
  <2>3. n \notin Teardown[i]
    BY <2>2, TeardownRespectsNeeds
  <2> QED BY <1>1, <2>1, <2>3
<1> QED BY <1>1, <1>2 DEF IInv, StartupInv, LeakInv, SignalInv

LEMMA EndKeeps ==
  ASSUME IInv, End PROVE IInv'
BY DEF End, IInv, StartupInv, LeakInv, SignalInv, NothingDangles

-------------------------------------------------------------------------------
THEOREM InvariantHolds == Spec => []IInv
<1>1. Init => IInv
  BY InitEstablishes
<1>2. IInv /\ [Next]_vars => IInv'
  <2> SUFFICES ASSUME IInv, [Next]_vars PROVE IInv'
    OBVIOUS
  <2>1. CASE Proceed
    BY <2>1, AcquireKeeps, SkipKeeps, RefuseKeeps, LoadKeeps, BackendsDoneKeeps,
       StartFlushKeeps, FlushDoneKeeps, AutolaunchKeeps, ReleaseKeeps, EndKeeps
       DEF Proceed
  <2>2. CASE Configure \/ RefuseConfiguration
    BY <2>2, ConfigurationKeeps
  <2>3. CASE Flush \/ Plug \/ UNCHANGED vars
    BY <2>3, StutterKeeps
  <2>4. CASE HandleStop \/ WatchedClientExits
    BY <2>4, LeaveKeeps
  <2>5. CASE StopArrives
    BY <2>5, StopKeeps
  <2> QED BY <2>1, <2>2, <2>3, <2>4, <2>5 DEF Next
<1> QED BY <1>1, <1>2, PTL DEF Spec

\* Whatever the program is started with and whichever step fails, nothing that
\* is held points into what was given back; all is given back before the
\* program ends, but for the known leak of build(); and once a backend has
\* threads no stop signal kills the program.
THEOREM ResourcesAreSound == Spec => []ResourcesSound
<1>1. IInv => ResourcesSound
  BY DEF IInv, LeakInv, SignalInv, ResourcesSound, GivenBack, StopsGracefully
<1> QED BY <1>1, InvariantHolds, PTL

-------------------------------------------------------------------------------
(***************************************************************************)
(* The heads.  An invariant in parts: flags, attachments, the output list, *)
(* mirrors, and who is served.                                             *)
(***************************************************************************)
Fields == {"outputs", "order", "on", "known", "changed", "failed", "refused"}

OutputFields == {"kind", "size", "scale", "asked", "x", "mirrorOf", "resizeable", "hdcp"}

\* The policy is one that main has let through.
PolicySound ==
  /\ Len(policy.rules) \in Nat
  /\ DOMAIN policy.rules = 1 .. Len(policy.rules)
  /\ \A i \in DOMAIN policy.rules : policy.rules[i].mirrorOf # None => policy.rules[i].name = "vnc"
  /\ \A i \in DOMAIN policy.rules : policy.rules[i].cloneOf \in Group \cup {None}

ConnectorsInv ==
  /\ headList \in Seq(HeadName)
  /\ connected \subseteq Present
  /\ \A h \in Present : KindOf[h] = "vnc" => h \in connected

Flagged(s) ==
  /\ DOMAIN s = Fields
  /\ s.known \subseteq Present
  /\ s.changed \subseteq Present
  /\ s.refused \subseteq Present
  /\ s.failed \in BOOLEAN

\* Heads and outputs point at each other; the heads in `new` are not in the
\* registry yet.
Attached(s, new) ==
  /\ s.on \in [HeadName -> OutputName \cup {None}]
  /\ \A h \in HeadName : s.on[h] # None =>
       /\ h \in Present /\ h \in s.known \cup new
       /\ s.on[h] \in DOMAIN s.outputs
       /\ Simple(h) => s.on[h] = h
       /\ ~Simple(h) => s.on[h] \in Group
  /\ \A o \in DOMAIN s.outputs : \E h \in HeadName : s.on[h] = o

Listed(s) ==
  /\ DOMAIN s.outputs \subseteq OutputName
  /\ s.order \in Seq(OutputName)
  /\ ToSet(s.order) = DOMAIN s.outputs
  /\ \A i \in DOMAIN s.order : \A j \in DOMAIN s.order : s.order[i] = s.order[j] => i = j

\* A mirror is a remote head, of the one output that is not remote which its
\* rule names, and lies on it.
OnSource(s, o, src) ==
  /\ src \in DOMAIN s.outputs /\ s.outputs[src].kind # "vnc" /\ o \in MirrorOf(src)
  /\ s.outputs[o].x = s.outputs[src].x
  /\ \E by \in {s.outputs[o].asked, s.outputs[src].scale} :
       s.outputs[o].size = [i \in 1 .. 2 |-> s.outputs[src].size[i] \div by]
  /\ s.outputs[o].scale = s.outputs[src].scale
  /\ ~s.outputs[o].resizeable

Mirroring(s) ==
  \A o \in DOMAIN s.outputs :
    /\ DOMAIN s.outputs[o] = OutputFields
    /\ s.outputs[o].mirrorOf # None => s.outputs[o].kind = "vnc"
    /\ s.outputs[o].mirrorOf \notin {None, Dangling} => OnSource(s, o, s.outputs[o].mirrorOf)

\* The outputs in `fresh` are up, and have yet to be announced.
WaitsIn(s, h, fresh) ==
  \A o \in DOMAIN s.outputs \ fresh : s.outputs[o].kind = "vnc" \/ h \notin MirrorOf(o)
ExcusedIn(s, h, fresh) ==
  \/ h \in s.refused
  \/ Simple(h) /\ (h \in NonDesktop \/ IsOff(RuleFor(policy, h)))
  \/ Simple(h) /\ Deferred(h) /\ WaitsIn(s, h, fresh)
  \/ ~Simple(h) /\ DrmPlan(h) = {}
Served(s, h, fresh) == s.on[h] # None \/ ExcusedIn(s, h, fresh)

\* A head that no flush has yet to visit is served, or about to be.
Settled(s, about, fresh) ==
  \A h \in Present \ s.changed :
    IF h \in connected THEN Served(s, h, fresh) \/ h \in about
    ELSE s.on[h] # None => ~Simple(h) /\ DrmForceOn(policy, h)

\* A head that waits for its source is served whenever the source is up.
Due(s, fresh) == \A h \in Present : Deferred(h) => Served(s, h, fresh)

Good(s, about, new, fresh) ==
  /\ Flagged(s) /\ Attached(s, new) /\ Listed(s) /\ Mirroring(s)
  /\ Settled(s, about, fresh) /\ Due(s, fresh)

StagedHeads == UNION {staged[g] : g \in OutputName}
StagedInv ==
  /\ staged \in [OutputName -> SUBSET HeadName]
  /\ \A g \in OutputName : \A h \in staged[g] :
       /\ h \in Present /\ ~Simple(h) /\ on[h] = None /\ DrmWanted(h)
       /\ \E p \in DrmPlan(h) : p.output = g
  /\ flush = "no" => \A g \in OutputName : staged[g] = {}

FlushInv ==
  /\ flush \in {"no", "heads", "groups"}
  /\ todo \in Seq(HeadName) /\ ToSet(todo) \subseteq Present
  /\ flush = "heads" => changed \subseteq ToSet(todo)
  /\ flush = "groups" => changed = {}

HeadsInv ==
  /\ PolicySound /\ ConnectorsInv /\ FlushInv /\ StagedInv
  /\ Good(State, StagedHeads, {}, {})

PhaseInv ==
  /\ phase = "startup" => flush = "no"
  /\ phase = "startup" /\ at <= 25 => ~initFailed /\ DOMAIN outputs = {}
  /\ phase = "startup" /\ at < 20 => headList = <<>>
  /\ phase = "startup" /\ at > 25 => ~initFailed /\ changed = {}
  /\ phase = "flushing" /\ flush = "no" => changed = {}

Planned(p) == \E r \in Requests : ~IsError(PlanOf(r)) /\ p = PlanOf(r)
PlanInv ==
  /\ phase = "startup" /\ at <= 8 => request \in Requests /\ plan = None
  /\ plan # None => request = None /\ Planned(plan)
  /\ plan = None => request \in Requests /\ toLoad = <<>>
  /\ toLoad \in Seq(BackendNames \ {"rdp"})

-------------------------------------------------------------------------------
(***************************************************************************)
(* The first of a list.                                                    *)
(***************************************************************************)
LEMMA LeastExists ==
  ASSUME NEW T \in SUBSET Nat, T # {}
  PROVE  Least(T) \in T /\ \A m \in T : Least(T) <= m
<1> DEFINE R == {p \in Nat \X Nat : p[1] < p[2]}
<1>1. R = OpToRel(<, Nat)
  BY Zenon DEF OpToRel
<1>2. IsWellFoundedOn(R, Nat)
  BY <1>1, NatLessThanWellFounded
<1>3. PICK x \in T : \A y \in T : ~ (<<y, x>> \in R)
  <2> HIDE DEF R
  <2> QED BY <1>2, WFMin
<1>4. \A y \in T : ~ (y < x)
  BY <1>3
<1>5. x \in T /\ \A y \in T : x <= y
  BY <1>4
<1> QED BY <1>5 DEF Least

LEMMA FirstAtIs ==
  ASSUME NEW list, NEW places \in SUBSET Nat
  PROVE  /\ places = {} => FirstAt(list, places) = None
         /\ places # {} => \E i \in places : FirstAt(list, places) = list[i]
BY LeastExists DEF FirstAt

-------------------------------------------------------------------------------
(***************************************************************************)
(* What main lets through (Settings.tla).                                  *)
(***************************************************************************)
Errors == {Failed(reason) : reason \in Reasons}

LEMMA ErrorsAreErrors == \A e \in Errors : IsError(e) /\ e # None
<1> SUFFICES ASSUME NEW e \in Errors PROVE IsError(e) /\ e # None
  OBVIOUS
<1>1. PICK reason \in Reasons : e = Failed(reason)
  BY DEF Errors
<1>2. "error" \in DOMAIN [error |-> reason]
  OBVIOUS
<1> QED BY <1>1, <1>2, NoneIsNoError DEF IsError, Failed

LEMMA CheckIs ==
  ASSUME NEW bad \in BOOLEAN, NEW reason \in Reasons
  PROVE  /\ Check(bad, reason) \in Errors \cup {None}
         /\ Check(bad, reason) = None => ~bad
<1>1. Failed(reason) \in Errors
  BY DEF Errors
<1> QED BY <1>1, ErrorsAreErrors DEF Check

LEMMA FirstErrorIs ==
  ASSUME NEW n \in Nat, NEW checks, DOMAIN checks = 1 .. n,
         \A i \in 1 .. n : checks[i] \in Errors \cup {None}
  PROVE  /\ FirstError(checks) \in Errors \cup {None}
         /\ FirstError(checks) = None => \A i \in 1 .. n : checks[i] = None
<1> DEFINE places == {i \in DOMAIN checks : checks[i] # None}
<1>1. places \in SUBSET Nat
  OBVIOUS
<1>2. /\ places = {} => FirstError(checks) = None
      /\ places # {} => \E i \in places : FirstError(checks) = checks[i]
  <2> HIDE DEF places
  <2>1. FirstError(checks) = FirstAt(checks, places)
    BY DEF FirstError, places
  <2> QED BY <1>1, <2>1, FirstAtIs
<1>3. CASE places = {}
  BY <1>2, <1>3
<1>4. CASE places # {}
  BY <1>2, <1>4
<1> QED BY <1>3, <1>4

LEMMA Concatenated ==
  ASSUME NEW S, NEW a \in Seq(S), NEW b \in Seq(S)
  PROVE  /\ a \o b \in Seq(S) /\ Len(a \o b) = Len(a) + Len(b)
         /\ \A i \in 1 .. Len(a) : (a \o b)[i] = a[i]
         /\ \A i \in 1 .. Len(b) : (a \o b)[Len(a) + i] = b[i]
         /\ ToSet(a \o b) = ToSet(a) \cup ToSet(b)
<1>1. a \o b \in Seq(S) /\ Len(a \o b) = Len(a) + Len(b)
  OBVIOUS
<1>2. \A i \in 1 .. Len(a) : (a \o b)[i] = a[i]
  OBVIOUS
<1>3. \A i \in 1 .. Len(b) : (a \o b)[Len(a) + i] = b[i]
  OBVIOUS
<1>4. ToSet(a \o b) = ToSet(a) \cup ToSet(b)
  <2> DEFINE c == a \o b
  <2>1. /\ DOMAIN c = 1 .. Len(a) + Len(b)
        /\ DOMAIN a = 1 .. Len(a) /\ DOMAIN b = 1 .. Len(b)
        /\ Len(a) \in Nat /\ Len(b) \in Nat
    BY <1>1
  <2>2. \A i \in 1 .. Len(a) : c[i] = a[i]
    BY <1>2
  <2>3. \A i \in 1 .. Len(b) : c[Len(a) + i] = b[i]
    BY <1>3
  <2> HIDE DEF c
  <2>4. \A i \in 1 .. Len(a) + Len(b) :
          i \in 1 .. Len(a) \/ (i - Len(a) \in 1 .. Len(b) /\ c[i] = b[i - Len(a)])
    <3> SUFFICES ASSUME NEW i \in 1 .. Len(a) + Len(b), i \notin 1 .. Len(a)
                 PROVE  i - Len(a) \in 1 .. Len(b) /\ c[i] = b[i - Len(a)]
      OBVIOUS
    <3>1. i - Len(a) \in 1 .. Len(b) /\ Len(a) + (i - Len(a)) = i
      BY <2>1
    <3> QED BY <2>3, <3>1
  <2>5. \A i \in 1 .. Len(b) : Len(a) + i \in 1 .. Len(a) + Len(b)
    BY <2>1
  <2>6. \A i \in 1 .. Len(a) : i \in 1 .. Len(a) + Len(b)
    BY <2>1
  <2>7. ToSet(c) \subseteq ToSet(a) \cup ToSet(b)
    BY <2>1, <2>2, <2>4 DEF ToSet
  <2>8. ToSet(a) \subseteq ToSet(c)
    BY <2>1, <2>2, <2>6 DEF ToSet
  <2>9. ToSet(b) \subseteq ToSet(c)
    BY <2>1, <2>3, <2>5 DEF ToSet
  <2> QED BY <2>7, <2>8, <2>9 DEF c
<1> QED BY <1>1, <1>2, <1>3, <1>4

\* What the loaded backends must be for a section to do what it says.
Honoured(out, loaded, colorManagement) ==
  /\ ForDrm(out) => "drm" \in loaded
  /\ out.mirrorOf # None => "vnc" \in loaded /\ out.name = "vnc"
  /\ out.icc => colorManagement

LEMMA SectionsAreChecked ==
  ASSUME NEW settings, NEW loaded, NEW out
  PROVE  /\ SectionError(settings, loaded, out) \in Errors \cup {None}
         /\ SectionError(settings, loaded, out) = None
              => Honoured(out, loaded, settings.colorManagement)
<1> DEFINE bad4 == out.icc /\ ~settings.colorManagement
           c1 == Check(out.cloneOf # None /\ "drm" \notin loaded, "section")
           c2 == Check(out.mirrorOf # None /\ ("vnc" \notin loaded \/ out.name # "vnc"
                                    \/ out.mirrorOf = out.name), "section")
           c3 == Check((out.maxBpc # None \/ out.eotf # None \/ out.colorimetry # None
                          \/ out.characteristics # None) /\ "drm" \notin loaded, "section")
           c4 == Check(bad4, "section")
           checks == <<c1, c2, c3, c4>>
<1>1. "section" \in Reasons /\ bad4 \in BOOLEAN
  BY DEF Reasons
<1>2. c4 \in Errors \cup {None} /\ (c4 = None => ~bad4)
  <2> HIDE DEF bad4
  <2> QED BY <1>1, CheckIs
<1>3. c1 \in Errors \cup {None} /\ (c1 = None /\ out.cloneOf # None => "drm" \in loaded)
  BY <1>1, CheckIs
<1>4. /\ c2 \in Errors \cup {None}
      /\ c2 = None /\ out.mirrorOf # None => "vnc" \in loaded /\ out.name = "vnc"
  BY <1>1, CheckIs
<1>5. /\ c3 \in Errors \cup {None}
      /\ c3 = None /\ (out.maxBpc # None \/ out.eotf # None \/ out.colorimetry # None
                          \/ out.characteristics # None) => "drm" \in loaded
  BY <1>1, CheckIs
<1>6. SectionError(settings, loaded, out) = FirstError(checks)
  BY DEF SectionError
<1> HIDE DEF c1, c2, c3, c4
<1>7. /\ DOMAIN checks = 1 .. 4
      /\ checks[1] = c1 /\ checks[2] = c2 /\ checks[3] = c3 /\ checks[4] = c4
      /\ \A i \in 1 .. 4 : checks[i] \in Errors \cup {None}
  BY <1>2, <1>3, <1>4, <1>5
<1> HIDE DEF checks
<1>8. /\ FirstError(checks) \in Errors \cup {None}
      /\ FirstError(checks) = None => \A i \in 1 .. 4 : checks[i] = None
  BY <1>7, FirstErrorIs
<1>9. FirstError(checks) = None => c1 = None /\ c2 = None /\ c3 = None /\ c4 = None
  BY <1>7, <1>8
<1> QED BY <1>2, <1>3, <1>4, <1>5, <1>6, <1>8, <1>9 DEF Honoured, ForDrm

\* reject_unported.
LEMMA UnportedIsRejected ==
  ASSUME NEW cli, NEW settings, NEW n \in Nat, DOMAIN settings.file.output = 1 .. n
  PROVE  /\ RejectUnported(cli, settings) \in Errors \cup {None}
         /\ RejectUnported(cli, settings) = None =>
              /\ "rdp" \notin ToSet(settings.backends)
              /\ ~UnhandledOption(cli, ToSet(settings.backends))
              /\ \A i \in 1 .. n : Honoured(settings.file.output[i], ToSet(settings.backends),
                                           settings.colorManagement)
<1> DEFINE loaded == ToSet(settings.backends)
           output == settings.file.output
           first == <<Check(UnportedBackend(loaded, settings.file), "unsupported"),
                      Check(UnhandledOption(cli, loaded), "unhandled"),
                      Check(UnportedFeature(settings), "unsupported")>>
           sections == [i \in DOMAIN output |-> SectionError(settings, loaded, output[i])]
           last == <<Check(cli.shell \notin {None, "desktop", "desktop-shell.so"}, "shell")>>
           upper == first \o sections
           checks == upper \o last
<1>1. RejectUnported(cli, settings) = FirstError(checks)
  BY DEF RejectUnported
<1>2. /\ Check(UnportedBackend(loaded, settings.file), "unsupported") \in Errors \cup {None}
      /\ Check(UnportedBackend(loaded, settings.file), "unsupported") = None
           => "rdp" \notin loaded
  <2>1. UnportedBackend(loaded, settings.file) \in BOOLEAN
    BY DEF UnportedBackend
  <2>2. "rdp" \in loaded => UnportedBackend(loaded, settings.file)
    BY DEF UnportedBackend
  <2> HIDE DEF loaded
  <2> QED BY <2>1, <2>2, CheckIs DEF Reasons
<1>3. /\ Check(UnhandledOption(cli, loaded), "unhandled") \in Errors \cup {None}
      /\ Check(UnhandledOption(cli, loaded), "unhandled") = None => ~UnhandledOption(cli, loaded)
  <2>1. UnhandledOption(cli, loaded) \in BOOLEAN
    BY DEF UnhandledOption
  <2> HIDE DEF loaded
  <2> QED BY <2>1, CheckIs DEF Reasons
<1>4. Check(UnportedFeature(settings), "unsupported") \in Errors \cup {None}
  <2>1. UnportedFeature(settings) \in BOOLEAN
    BY DEF UnportedFeature
  <2> QED BY <2>1, CheckIs DEF Reasons
<1>5. last \in Seq(Errors \cup {None}) /\ Len(last) = 1
  <2>1. Check(cli.shell \notin {None, "desktop", "desktop-shell.so"}, "shell")
          \in Errors \cup {None}
    BY CheckIs DEF Reasons
  <2> QED BY <2>1
<1>6. first \in Seq(Errors \cup {None}) /\ Len(first) = 3
  <2> HIDE DEF loaded
  <2> QED BY <1>2, <1>3, <1>4
<1>7. sections \in Seq(Errors \cup {None}) /\ Len(sections) = n
      /\ \A i \in 1 .. n : sections[i] = SectionError(settings, loaded, output[i])
  <2> HIDE DEF loaded
  <2>1. sections = [i \in 1 .. n |-> SectionError(settings, loaded, output[i])]
    OBVIOUS
  <2>2. \A i \in 1 .. n : SectionError(settings, loaded, output[i]) \in Errors \cup {None}
    BY SectionsAreChecked
  <2> HIDE DEF sections
  <2> QED BY <2>1, <2>2
<1>8. /\ first[1] = Check(UnportedBackend(loaded, settings.file), "unsupported")
      /\ first[2] = Check(UnhandledOption(cli, loaded), "unhandled")
  OBVIOUS
<1> HIDE DEF first, sections, last
<1>9. checks \in Seq(Errors \cup {None}) /\ Len(checks) = n + 4
      /\ checks[1] = first[1] /\ checks[2] = first[2]
      /\ \A i \in 1 .. n : checks[3 + i] = sections[i]
  <2>1. /\ upper \in Seq(Errors \cup {None}) /\ Len(upper) = n + 3
        /\ upper[1] = first[1] /\ upper[2] = first[2]
        /\ \A i \in 1 .. n : upper[3 + i] = sections[i]
    <3>1. /\ upper \in Seq(Errors \cup {None}) /\ Len(upper) = Len(first) + Len(sections)
          /\ \A i \in 1 .. Len(first) : upper[i] = first[i]
          /\ \A i \in 1 .. Len(sections) : upper[Len(first) + i] = sections[i]
      <4>1. first \in Seq(Errors \cup {None}) /\ sections \in Seq(Errors \cup {None})
        BY <1>6, <1>7
      <4> QED BY ONLY <4>1, Concatenated
    <3> HIDE DEF upper
    <3> QED BY <1>6, <1>7, <3>1
  <2> HIDE DEF upper
  <2>2. /\ checks \in Seq(Errors \cup {None}) /\ Len(checks) = Len(upper) + Len(last)
        /\ \A i \in 1 .. Len(upper) : checks[i] = upper[i]
    <3>1. upper \in Seq(Errors \cup {None}) /\ last \in Seq(Errors \cup {None})
      BY <1>5, <2>1
    <3> HIDE DEF last
    <3> QED BY ONLY <3>1, Concatenated
  <2> HIDE DEF checks
  <2>3. /\ 1 \in 1 .. Len(upper) /\ 2 \in 1 .. Len(upper)
        /\ \A i \in 1 .. n : 3 + i \in 1 .. Len(upper)
    BY <2>1
  <2>4. Len(checks) = n + 4
    BY <1>5, <2>1, <2>2
  <2> QED BY <2>1, <2>2, <2>3, <2>4
<1> HIDE DEF checks, upper
<1>10. /\ FirstError(checks) \in Errors \cup {None}
       /\ FirstError(checks) = None => \A i \in 1 .. n + 4 : checks[i] = None
  <2>1. DOMAIN checks = 1 .. n + 4 /\ n + 4 \in Nat
        /\ \A i \in 1 .. n + 4 : checks[i] \in Errors \cup {None}
    BY <1>9
  <2> QED BY <2>1, FirstErrorIs
<1>11. ASSUME FirstError(checks) = None
       PROVE  /\ "rdp" \notin loaded /\ ~UnhandledOption(cli, loaded)
              /\ \A i \in 1 .. n : Honoured(output[i], loaded, settings.colorManagement)
  <2>1. checks[1] = None /\ checks[2] = None /\ \A i \in 1 .. n : checks[3 + i] = None
    BY <1>10, <1>11
  <2>2. "rdp" \notin loaded /\ ~UnhandledOption(cli, loaded)
    BY <1>2, <1>3, <1>8, <1>9, <2>1
  <2>3. \A i \in 1 .. n : SectionError(settings, loaded, output[i]) = None
    BY <1>7, <1>9, <2>1
  <2> HIDE DEF output, loaded
  <2>4. \A i \in 1 .. n : Honoured(output[i], loaded, settings.colorManagement)
    BY <2>3, SectionsAreChecked
  <2> QED BY <2>2, <2>4
<1> QED BY <1>1, <1>10, <1>11

\* build_color_setup: what a section asks of the colour manager, and of the file.
Coloured(out, file, colorManagement) ==
  /\ out.eotf \notin {None, "sdr"} \/ out.colorimetry \notin {None, "default"}
       => colorManagement
  /\ out.characteristics # None =>
       \E j \in DOMAIN file.characteristics :
          file.characteristics[j].name = out.characteristics

LEMMA CharacteristicsAreNamed ==
  ASSUME NEW file, NEW name
  PROVE  /\ CharacteristicsError(file, name) \in Errors \cup {None}
         /\ CharacteristicsError(file, name) = None =>
              \E j \in DOMAIN file.characteristics : file.characteristics[j].name = name
<1> DEFINE place == CHOOSE i \in DOMAIN file.characteristics :
                      /\ file.characteristics[i].name = name
                      /\ \A j \in 1 .. i - 1 : file.characteristics[j].name # name
           cc == file.characteristics[place]
           bad == cc.reserved \/ "part" \in cc.groups \/ ~cc.inRange
           named == \E j \in DOMAIN file.characteristics : file.characteristics[j].name = name
<1>1. Check(bad, "colour") \in Errors \cup {None}
  <2>1. bad \in BOOLEAN /\ "colour" \in Reasons
    BY DEF Reasons
  <2> HIDE DEF bad
  <2> QED BY <2>1, CheckIs
<1>2. Failed("colour") \in Errors
  BY DEF Errors, Reasons
<1>3. CharacteristicsError(file, name)
        = IF ~named THEN Failed("colour") ELSE Check(bad, "colour")
  BY Zenon DEF CharacteristicsError
<1> HIDE DEF bad, named
<1> QED BY <1>1, <1>2, <1>3, ErrorsAreErrors DEF named

LEMMA ColoursAreChecked ==
  ASSUME NEW settings, NEW out
  PROVE  /\ ColorError(settings, out) \in Errors \cup {None}
         /\ ColorError(settings, out) = None
              => Coloured(out, settings.file, settings.colorManagement)
<1> DEFINE bad3 == out.eotf \notin {None, "sdr"} /\ ~settings.colorManagement
           bad4 == out.colorimetry \notin {None, "default"} /\ ~settings.colorManagement
           c1 == Check(out.eotf \notin EotfModes \cup {None}, "colour")
           c2 == Check(out.colorimetry \notin ColorimetryModes \cup {None}, "colour")
           c3 == Check(bad3, "colour")
           c4 == Check(bad4, "colour")
           c5 == IF out.characteristics = None THEN None
                 ELSE CharacteristicsError(settings.file, out.characteristics)
           checks == <<c1, c2, c3, c4, c5>>
<1>1. "colour" \in Reasons /\ bad3 \in BOOLEAN /\ bad4 \in BOOLEAN
  BY DEF Reasons
<1>2. c1 \in Errors \cup {None} /\ c2 \in Errors \cup {None}
  BY <1>1, CheckIs
<1>3. /\ c3 \in Errors \cup {None} /\ (c3 = None => ~bad3)
      /\ c4 \in Errors \cup {None} /\ (c4 = None => ~bad4)
  <2> HIDE DEF bad3, bad4
  <2> QED BY <1>1, CheckIs
<1>4. /\ c5 \in Errors \cup {None}
      /\ c5 = None /\ out.characteristics # None =>
           \E j \in DOMAIN settings.file.characteristics :
              settings.file.characteristics[j].name = out.characteristics
  BY CharacteristicsAreNamed
<1>5. ColorError(settings, out) = FirstError(checks)
  BY DEF ColorError
<1> HIDE DEF c1, c2, c3, c4, c5
<1>6. /\ DOMAIN checks = 1 .. 5
      /\ checks[3] = c3 /\ checks[4] = c4 /\ checks[5] = c5
      /\ \A i \in 1 .. 5 : checks[i] \in Errors \cup {None}
  BY <1>2, <1>3, <1>4
<1> HIDE DEF checks
<1>7. /\ FirstError(checks) \in Errors \cup {None}
      /\ FirstError(checks) = None => \A i \in 1 .. 5 : checks[i] = None
  BY <1>6, FirstErrorIs
<1>8. FirstError(checks) = None => c3 = None /\ c4 = None /\ c5 = None
  BY <1>6, <1>7
<1> QED BY <1>3, <1>4, <1>5, <1>7, <1>8 DEF Coloured

LEMMA PolicyErrorIs ==
  ASSUME NEW cli, NEW settings, NEW n \in Nat, DOMAIN settings.file.output = 1 .. n
  PROVE  /\ PolicyError(cli, settings) \in Errors \cup {None}
         /\ PolicyError(cli, settings) = None =>
              \A i \in 1 .. n : Coloured(settings.file.output[i], settings.file,
                                         settings.colorManagement)
<1> DEFINE output == settings.file.output
           one(i) == <<Check(output[i].name = None, "section"), ColorError(settings, output[i]),
                       TransformError(output[i].transform)>>
           each == [i \in DOMAIN output |-> FirstError(one(i))]
           last == <<TransformError(cli.transform)>>
           checks == each \o last
<1>1. \A t : TransformError(t) \in Errors \cup {None}
  BY CheckIs DEF TransformError, Reasons
<1>2. \A i \in 1 .. n : /\ FirstError(one(i)) \in Errors \cup {None}
                        /\ FirstError(one(i)) = None
                             => Coloured(output[i], settings.file, settings.colorManagement)
  <2> SUFFICES ASSUME NEW i \in 1 .. n
               PROVE  /\ FirstError(one(i)) \in Errors \cup {None}
                      /\ FirstError(one(i)) = None
                           => Coloured(output[i], settings.file, settings.colorManagement)
    OBVIOUS
  <2> DEFINE c == one(i)
             out == output[i]
  <2>1. Check(out.name = None, "section") \in Errors \cup {None}
    BY CheckIs DEF Reasons
  <2>2. DOMAIN c = 1 .. 3 /\ c[2] = ColorError(settings, out)
        /\ \A j \in 1 .. 3 : c[j] \in Errors \cup {None}
    BY <1>1, <2>1, ColoursAreChecked
  <2> HIDE DEF c, out
  <2>3. /\ FirstError(c) \in Errors \cup {None}
        /\ FirstError(c) = None => c[2] = None
    <3>1. /\ FirstError(c) \in Errors \cup {None}
          /\ FirstError(c) = None => \A j \in 1 .. 3 : c[j] = None
      BY <2>2, FirstErrorIs
    <3> QED BY <3>1
  <2>4. FirstError(c) = None => Coloured(out, settings.file, settings.colorManagement)
    BY <2>2, <2>3, ColoursAreChecked
  <2> QED BY <2>3, <2>4 DEF c, out
<1>3. /\ each \in Seq(Errors \cup {None}) /\ Len(each) = n
      /\ \A i \in 1 .. n : each[i] = FirstError(one(i))
  <2> HIDE DEF one
  <2>1. each = [i \in 1 .. n |-> FirstError(one(i))]
    OBVIOUS
  <2> HIDE DEF each
  <2> QED BY <1>2, <2>1
<1>4. last \in Seq(Errors \cup {None}) /\ Len(last) = 1
  BY <1>1
<1>5. PolicyError(cli, settings) = FirstError(checks)
  BY DEF PolicyError
<1> HIDE DEF each, last, one
<1>6. /\ checks \in Seq(Errors \cup {None}) /\ Len(checks) = n + 1
      /\ \A i \in 1 .. n : checks[i] = each[i]
  <2>1. /\ checks \in Seq(Errors \cup {None}) /\ Len(checks) = Len(each) + Len(last)
        /\ \A i \in 1 .. Len(each) : checks[i] = each[i]
    BY <1>3, <1>4, Concatenated
  <2> HIDE DEF checks
  <2> QED BY <1>3, <1>4, <2>1
<1> HIDE DEF checks
<1>7. DOMAIN checks = 1 .. n + 1 /\ n + 1 \in Nat
      /\ \A i \in 1 .. n + 1 : checks[i] \in Errors \cup {None}
  BY <1>6
<1>8. /\ FirstError(checks) \in Errors \cup {None}
      /\ FirstError(checks) = None => \A i \in 1 .. n + 1 : checks[i] = None
  BY <1>7, FirstErrorIs
<1>9. ASSUME FirstError(checks) = None, NEW i \in 1 .. n
      PROVE  Coloured(output[i], settings.file, settings.colorManagement)
  <2>1. i \in 1 .. n + 1
    OBVIOUS
  <2>2. FirstError(one(i)) = None
    BY <1>3, <1>6, <1>8, <1>9, <2>1
  <2> QED BY <1>2, <2>2
<1> QED BY <1>5, <1>8, <1>9

\* build_input_config.
InputMakesSense(file) ==
  /\ file.accelProfile \in AccelProfiles \cup {None}
  /\ file.scrollMethod \in ScrollMethods \cup {None}
  /\ file.scrollButton # None => file.scrollMethod = "button"

LEMMA InputErrorIs ==
  ASSUME NEW file
  PROVE  /\ InputConfigError(file) \in Errors \cup {None}
         /\ InputConfigError(file) = None => InputMakesSense(file)
<1> DEFINE c1 == Check(file.accelProfile \notin AccelProfiles \cup {None}, "libinput")
           bad2 == file.accelSpeed # None /\ (file.accelSpeed < -1 \/ file.accelSpeed > 1)
           c2 == Check(bad2, "libinput")
           c3 == Check(file.scrollMethod \notin ScrollMethods \cup {None}, "libinput")
           c4 == Check(file.scrollButton = "junk", "libinput")
           c5 == Check(file.scrollButton # None /\ file.scrollMethod # "button", "libinput")
           checks == <<c1, c2, c3, c4, c5>>
<1>1. "libinput" \in Reasons
  BY DEF Reasons
<1>2. bad2 \in BOOLEAN
  OBVIOUS
<1>3. InputConfigError(file) = FirstError(checks)
  BY DEF InputConfigError
<1>4. c2 \in Errors \cup {None}
  <2> HIDE DEF bad2
  <2> QED BY <1>1, <1>2, CheckIs
<1>5. /\ c1 \in Errors \cup {None} /\ c3 \in Errors \cup {None}
      /\ c4 \in Errors \cup {None} /\ c5 \in Errors \cup {None}
  BY <1>1, CheckIs
<1>6. /\ c1 = None => file.accelProfile \in AccelProfiles \cup {None}
      /\ c3 = None => file.scrollMethod \in ScrollMethods \cup {None}
      /\ c5 = None => (file.scrollButton # None => file.scrollMethod = "button")
  BY <1>1, CheckIs
<1> HIDE DEF c1, c2, c3, c4, c5
<1>7. /\ DOMAIN checks = 1 .. 5 /\ checks[1] = c1 /\ checks[3] = c3 /\ checks[5] = c5
      /\ \A i \in 1 .. 5 : checks[i] \in Errors \cup {None}
  BY <1>4, <1>5
<1> HIDE DEF checks
<1>8. /\ FirstError(checks) \in Errors \cup {None}
      /\ FirstError(checks) = None => \A i \in 1 .. 5 : checks[i] = None
  BY <1>7, FirstErrorIs
<1>9. FirstError(checks) = None => c1 = None /\ c3 = None /\ c5 = None
  BY <1>7, <1>8
<1> QED BY <1>3, <1>6, <1>8, <1>9 DEF InputMakesSense

LEMMA ResolveErrorIs ==
  ASSUME NEW cli, NEW file, NEW names
  PROVE  /\ ResolveError(cli, file, names) \in Errors \cup {None}
         /\ ResolveError(cli, file, names) = None =>
              /\ \A i \in DOMAIN names : names[i] \in BackendNames
              /\ ~RendererConflict(cli, file)
<1> DEFINE bad2 == \E i \in DOMAIN names : names[i] \notin BackendNames
           bad5 == file.background = "junk"
           bad6 == \E v \in {cli.width, cli.height, cli.scale} : NotPositive(v)
           bad7 == \E i \in DOMAIN file.output : NotPositive(file.output[i].scale)
           c1 == Check(file.unsupported = {NotATable}, "config")
           c2 == Check(bad2, "backend")
           c3 == Check(RendererConflict(cli, file), "renderer")
           c4 == Check(RendererOf(cli, file) \notin {"auto", "gl", "pixman", "noop"}, "renderer")
           c5 == ColorStringError(file.background)
           c6 == Check(bad6, "geometry")
           c7 == Check(bad7, "geometry")
           checks == <<c1, c2, c3, c4, c5, c6, c7>>
<1>1. {"config", "backend", "renderer", "colour", "geometry"} \subseteq Reasons
  BY DEF Reasons
<1>2. bad6 \in BOOLEAN /\ bad7 \in BOOLEAN /\ RendererConflict(cli, file) \in BOOLEAN
  BY DEF RendererConflict
<1>3. ResolveError(cli, file, names) = FirstError(checks)
  BY DEF ResolveError
<1>4. c6 \in Errors \cup {None} /\ c7 \in Errors \cup {None} /\ c3 \in Errors \cup {None}
  <2> HIDE DEF bad6, bad7
  <2> QED BY <1>1, <1>2, CheckIs
<1>5. /\ c1 \in Errors \cup {None} /\ c2 \in Errors \cup {None} /\ c4 \in Errors \cup {None}
      /\ c5 \in Errors \cup {None}
  BY <1>1, CheckIs DEF ColorStringError
<1>6. (c2 = None => ~bad2) /\ (c3 = None => ~RendererConflict(cli, file))
  <2> HIDE DEF bad2
  <2>1. bad2 \in BOOLEAN
    BY DEF bad2
  <2> QED BY <1>1, <1>2, <2>1, CheckIs
<1> HIDE DEF c1, c2, c3, c4, c5, c6, c7
<1>7. /\ DOMAIN checks = 1 .. 7 /\ checks[2] = c2 /\ checks[3] = c3
      /\ \A i \in 1 .. 7 : checks[i] \in Errors \cup {None}
  BY <1>4, <1>5
<1> HIDE DEF checks, bad2
<1>8. /\ FirstError(checks) \in Errors \cup {None}
      /\ FirstError(checks) = None => \A i \in 1 .. 7 : checks[i] = None
  BY <1>7, FirstErrorIs
<1>9. FirstError(checks) = None => c2 = None /\ c3 = None
  <2>1. 2 \in 1 .. 7 /\ 3 \in 1 .. 7
    OBVIOUS
  <2> QED BY <1>7, <1>8, <2>1
<1> QED BY <1>3, <1>6, <1>8, <1>9 DEF bad2


-------------------------------------------------------------------------------
(***************************************************************************)
(* Each backend is loaded once.                                            *)
(***************************************************************************)
LEMMA IntervalInduction ==
  ASSUME NEW M \in Nat, NEW P, 0 \in P,
         \A n \in 0 .. M - 1 : n \in P => n + 1 \in P
  PROVE  \A n \in 0 .. M : n \in P
<1> DEFINE T == {n \in 0 .. M : n \notin P}
<1> SUFFICES ASSUME T # {} PROVE FALSE
  OBVIOUS
<1>1. T \in SUBSET Nat
  OBVIOUS
<1>2. PICK n \in T : \A m \in T : n <= m
  <2> HIDE DEF T
  <2> QED BY <1>1, LeastExists
<1>3. n - 1 \in 0 .. M - 1 /\ n - 1 \in P
  BY <1>2
<1> QED BY <1>2, <1>3

\* g runs from x0 by steps, each depending on where it is taken.
Iterates(g, n, X, x0, step) ==
  /\ g \in [0 .. n -> X]
  /\ g[0] = x0
  /\ \A m \in 1 .. n : g[m] = step[<<m, g[m - 1]>>]

Extended(g, n, v) == [m \in 0 .. n + 1 |-> IF m = n + 1 THEN v ELSE g[m]]

LEMMA IterationExists ==
  ASSUME NEW M \in Nat, NEW X, NEW x0 \in X, NEW step \in [(1 .. M) \X X -> X]
  PROVE  \E g : Iterates(g, M, X, x0, step)
<1> DEFINE P == {n \in 0 .. M : \E g : Iterates(g, n, X, x0, step)}
<1>1. 0 \in P
  <2>1. Iterates([m \in 0 .. 0 |-> x0], 0, X, x0, step)
    BY DEF Iterates
  <2> QED BY <2>1
<1>2. ASSUME NEW n \in 0 .. M - 1, n \in P PROVE n + 1 \in P
  <2>1. PICK g : Iterates(g, n, X, x0, step)
    BY <1>2
  <2> DEFINE v == step[<<n + 1, g[n]>>]
             h == Extended(g, n, v)
  <2>2. n \in Nat /\ g \in [0 .. n -> X] /\ v \in X
    BY <2>1 DEF Iterates
  <2>3. h \in [0 .. n + 1 -> X] /\ \A m \in 0 .. n : h[m] = g[m]
    <3> HIDE DEF v
    <3> QED BY <2>2 DEF Extended
  <2>4. h[n + 1] = v
    <3>1. n + 1 \in 0 .. n + 1
      OBVIOUS
    <3> HIDE DEF v
    <3> QED BY <3>1 DEF Extended
  <2>5. Iterates(h, n + 1, X, x0, step)
    <3> HIDE DEF h
    <3>1. h[0] = x0
      BY <2>1, <2>3 DEF Iterates
    <3>2. ASSUME NEW m \in 1 .. n + 1 PROVE h[m] = step[<<m, h[m - 1]>>]
      <4>1. CASE m \in 1 .. n
        BY <4>1, <2>1, <2>3 DEF Iterates
      <4>2. CASE m = n + 1
        <5>1. m - 1 = n /\ n \in 0 .. n
          BY <4>2
        <5> QED BY <5>1, <4>2, <2>3, <2>4
      <4> QED BY <4>1, <4>2
    <3> QED BY <3>1, <3>2, <2>3 DEF Iterates
  <2>6. n + 1 \in 0 .. M
    OBVIOUS
  <2> QED BY <2>5, <2>6
<1>3. M \in P
  <2> HIDE DEF P
  <2> QED BY <1>1, <1>2, IntervalInduction
<1> QED BY <1>3

LEMMA OnceIsAList ==
  ASSUME NEW S, NEW names \in Seq(S)
  PROVE  Once(names) \in Seq(S)
<1> DEFINE M == Len(names)
           X == Seq(S)
           next(seen, n) == IF Contains(seen, names[n]) THEN seen ELSE Append(seen, names[n])
           step == [p \in (1 .. M) \X X |-> next(p[2], p[1])]
           Eq(g) == g = [n \in 0 .. M |->
                           IF n = 0 THEN <<>>
                           ELSE IF Contains(g[n - 1], names[n]) THEN g[n - 1]
                           ELSE Append(g[n - 1], names[n])]
           f == CHOOSE g : Eq(g)
           P == {n \in 0 .. M : f[n] \in X}
<1>1. M \in Nat /\ <<>> \in X /\ \A n \in 1 .. M : names[n] \in S
  OBVIOUS
<1>2. \A seen \in X, n \in 1 .. M : next(seen, n) \in X
  <2> HIDE DEF M
  <2> QED BY <1>1
<1> HIDE DEF M, X, next
<1>3. step \in [(1 .. M) \X X -> X]
  BY <1>2
<1>4. PICK g : Iterates(g, M, X, <<>>, step)
  <2> HIDE DEF step
  <2> QED BY <1>1, <1>3, IterationExists
<1>5. g \in [0 .. M -> X] /\ g[0] = <<>>
  BY <1>4 DEF Iterates
<1>6. ASSUME NEW n \in 1 .. M PROVE g[n] = next(g[n - 1], n)
  <2>1. n - 1 \in 0 .. M
    BY <1>1
  <2>2. <<n, g[n - 1]>> \in (1 .. M) \X X /\ g[n] = step[<<n, g[n - 1]>>]
    <3> HIDE DEF step
    <3> QED BY <1>4, <1>5, <2>1 DEF Iterates
  <2> QED BY <2>2
<1> HIDE DEF step
<1>7. Eq(g)
  <2>1. \A n \in 0 .. M : n # 0 => n \in 1 .. M
    BY <1>1
  <2>2. \A n \in 0 .. M :
          g[n] = IF n = 0 THEN <<>>
                 ELSE IF Contains(g[n - 1], names[n]) THEN g[n - 1]
                 ELSE Append(g[n - 1], names[n])
    BY <1>5, <1>6, <2>1 DEF next
  <2>3. g = [n \in 0 .. M |-> g[n]]
    BY <1>5
  <2> QED BY <2>2, <2>3
<1>8. Eq(f)
  <2> HIDE DEF Eq
  <2> QED BY <1>7
<1> HIDE DEF f
<1>9. f[0] = <<>> /\ \A n \in 1 .. M : f[n] = next(f[n - 1], n)
  <2>1. 0 \in 0 .. M /\ \A n \in 1 .. M : n \in 0 .. M /\ n # 0
    BY <1>1
  <2> QED BY <2>1, <1>8 DEF next
<1> HIDE DEF Eq
<1>10. 0 \in P
  BY <1>1, <1>9
<1>11. ASSUME NEW n \in 0 .. M - 1, n \in P PROVE n + 1 \in P
  <2>1. n + 1 \in 1 .. M /\ n + 1 \in 0 .. M /\ n + 1 - 1 = n
    BY <1>1
  <2>2. PICK m \in 1 .. M : m = n + 1
    BY <2>1
  <2>3. m - 1 = n
    BY <2>2
  <2>4. f[m] = next(f[n], m) /\ f[n] \in X
    BY <1>9, <1>11, <2>2, <2>3
  <2> QED BY <1>2, <2>1, <2>2, <2>4
<1>12. M \in P
  <2> HIDE DEF P
  <2>1. M \in Nat /\ M \in 0 .. M
    BY <1>1
  <2>2. \A n \in 0 .. M - 1 : n \in P => n + 1 \in P
    BY <1>11
  <2>3. \A n \in 0 .. M : n \in P
    BY ONLY <1>10, <2>1, <2>2, IntervalInduction
  <2> QED BY <2>1, <2>3
<1>13. Once(names) = f[M]
  BY DEF Once, f, Eq, M
<1> QED BY <1>12, <1>13 DEF X

\* Where the parts of a plan come from: the command line and the file.
MadeOf(p, cli, file) ==
  /\ p.backends = Once(BackendList(cli, file))
  /\ p.renderer = RendererOf(cli, file)
  /\ p.port = OrElse(cli.port, SectionPort(p.backends, file))
  /\ p.colorManagement = file.colorManagement
  /\ p.outputCount = OrElse(cli.outputCount, 1)
  /\ p.policy.rules = [i \in DOMAIN file.output |-> RuleOf(file.output[i])]
  /\ p.policy.cli = [width |-> cli.width, height |-> cli.height, scale |-> cli.scale,
                     transform |-> cli.transform]

\* What the checks of main let through.
Accepted(p, cli, file) ==
  /\ p.backends \in Seq(BackendNames) /\ "rdp" \notin ToSet(p.backends)
  /\ ~RendererConflict(cli, file)
  /\ ~UnhandledOption(cli, ToSet(p.backends))
  /\ \A i \in DOMAIN file.output :
       /\ Honoured(file.output[i], ToSet(p.backends), p.colorManagement)
       /\ Coloured(file.output[i], file, p.colorManagement)
  /\ InputMakesSense(file)

\* A plan is made only when no check found anything.
LEMMA PlanIsChecked ==
  ASSUME NEW cli, NEW read, ~IsError(Plan(cli, read)),
         NEW n \in Nat, DOMAIN Overridden(read, cli.set).output = 1 .. n,
         NEW S, BackendList(cli, Overridden(read, cli.set)) \in Seq(S)
  PROVE  /\ MadeOf(Plan(cli, read), cli, Overridden(read, cli.set))
         /\ Accepted(Plan(cli, read), cli, Overridden(read, cli.set))
<1> DEFINE file == Overridden(read, cli.set)
           settings == Resolve(cli, read)
           names == BackendList(cli, file)
           resolveError == ResolveError(cli, file, names)
           checks == <<RejectUnported(cli, settings), PolicyError(cli, settings),
                       InputConfigError(settings.file), RequireOutputsError(settings)>>
<1>1. ~IsError(settings)
  BY DEF Plan
<1>2. resolveError = None
  <2>1. resolveError \in Errors \cup {None}
    BY ResolveErrorIs
  <2>2. resolveError # None => settings = resolveError
    BY DEF Resolve
  <2> HIDE DEF resolveError, settings
  <2> QED BY <1>1, <2>1, <2>2, ErrorsAreErrors
<1>3. /\ settings.file = file /\ settings.backends = Once(names)
      /\ settings.renderer = RendererOf(cli, file)
      /\ settings.port = OrElse(cli.port, SectionPort(Once(names), file))
      /\ settings.colorManagement = file.colorManagement
  BY <1>2 DEF Resolve
<1> HIDE DEF settings
<1>4. Once(names) \in Seq(BackendNames) /\ ~RendererConflict(cli, file)
  <2>1. /\ names \in Seq(S) /\ \A i \in DOMAIN names : names[i] \in BackendNames
        /\ ~RendererConflict(cli, file)
    BY <1>2, ResolveErrorIs
  <2> HIDE DEF names
  <2>2. /\ Len(names) \in Nat /\ DOMAIN names = 1 .. Len(names)
        /\ names = [i \in 1 .. Len(names) |-> names[i]]
    BY <2>1
  <2>3. names \in [1 .. Len(names) -> BackendNames]
    BY <2>1, <2>2
  <2>4. names \in Seq(BackendNames)
    BY <2>2, <2>3, SeqDef
  <2> QED BY <2>1, <2>4, OnceIsAList
<1>5. /\ RejectUnported(cli, settings) \in Errors \cup {None}
      /\ RejectUnported(cli, settings) = None =>
           /\ "rdp" \notin ToSet(settings.backends)
           /\ ~UnhandledOption(cli, ToSet(settings.backends))
           /\ \A i \in 1 .. n : Honoured(file.output[i], ToSet(settings.backends),
                                        settings.colorManagement)
  BY <1>3, UnportedIsRejected
<1>6. /\ PolicyError(cli, settings) \in Errors \cup {None}
      /\ PolicyError(cli, settings) = None =>
           \A i \in 1 .. n : Coloured(file.output[i], file, settings.colorManagement)
  BY <1>3, PolicyErrorIs
<1>7. RequireOutputsError(settings) \in Errors \cup {None}
  BY CheckIs DEF RequireOutputsError, Reasons
<1>8. /\ DOMAIN checks = 1 .. 4
      /\ checks[1] = RejectUnported(cli, settings)
      /\ checks[2] = PolicyError(cli, settings)
      /\ checks[3] = InputConfigError(settings.file)
      /\ \A i \in 1 .. 4 : checks[i] \in Errors \cup {None}
  BY <1>5, <1>6, <1>7, InputErrorIs
<1> HIDE DEF checks
<1>9. /\ FirstError(checks) \in Errors \cup {None}
      /\ FirstError(checks) = None => checks[1] = None /\ checks[2] = None /\ checks[3] = None
  <2>1. /\ FirstError(checks) \in Errors \cup {None}
        /\ FirstError(checks) = None => \A i \in 1 .. 4 : checks[i] = None
    BY <1>8, FirstErrorIs
  <2> QED BY <2>1
<1>10. FirstError(checks) = None
  <2>1. FirstError(checks) # None => Plan(cli, read) = FirstError(checks)
    BY <1>1 DEF Plan, checks, settings
  <2> QED BY <1>9, <2>1, ErrorsAreErrors
<1> DEFINE p == Plan(cli, read)
<1>11. /\ p.backends = settings.backends /\ p.renderer = settings.renderer
       /\ p.port = settings.port /\ p.colorManagement = settings.colorManagement
       /\ p.outputCount = OrElse(cli.outputCount, 1)
       /\ p.policy = BuildOutputPolicy(cli, settings)
  BY <1>1, <1>10 DEF Plan, checks, settings
<1> HIDE DEF p
<1>12. MadeOf(p, cli, file)
  <2>1. /\ p.policy.rules = [i \in DOMAIN file.output |-> RuleOf(file.output[i])]
        /\ p.policy.cli = [width |-> cli.width, height |-> cli.height, scale |-> cli.scale,
                           transform |-> cli.transform]
    BY <1>3, <1>11 DEF BuildOutputPolicy
  <2> HIDE DEF file, names
  <2> QED BY <1>3, <1>11, <2>1 DEF MadeOf, names
<1>13. Accepted(p, cli, file)
  <2>1. /\ RejectUnported(cli, settings) = None /\ PolicyError(cli, settings) = None
        /\ InputMakesSense(file)
    BY <1>3, <1>8, <1>9, <1>10, InputErrorIs
  <2>2. DOMAIN file.output = 1 .. n
    OBVIOUS
  <2> HIDE DEF file, names
  <2> QED BY <1>3, <1>4, <1>5, <1>6, <1>11, <2>1, <2>2 DEF Accepted
<1> QED BY <1>12, <1>13 DEF p

\* The policy of a plan, for whatever the program was started with.
LEMMA PlansAreSound ==
  ASSUME NEW p, Planned(p)
  PROVE  /\ p.backends \in Seq(BackendNames) /\ "rdp" \notin ToSet(p.backends)
         /\ p.outputCount \in Int
         /\ \A kind \in {"x11", "wayland"} :
              1 <= Len(DefaultNames[kind]) /\ p.outputCount <= Len(DefaultNames[kind])
         /\ Len(p.policy.rules) \in Nat
         /\ DOMAIN p.policy.rules = 1 .. Len(p.policy.rules)
         /\ \A i \in DOMAIN p.policy.rules :
              p.policy.rules[i].mirrorOf # None => p.policy.rules[i].name = "vnc"
         /\ \A i \in DOMAIN p.policy.rules : p.policy.rules[i].cloneOf \in Group \cup {None}
<1>1. PICK r \in Requests : ~IsError(PlanOf(r)) /\ p = PlanOf(r)
  BY DEF Planned
<1> DEFINE read == ConfigRead(r)
           sections == Overridden(read, r.cli.set).output
           n == Len(sections)
<1>2. ~IsError(read) /\ p = Plan(r.cli, read)
  BY <1>1 DEF PlanOf
<1>3. /\ n \in Nat /\ DOMAIN sections = 1 .. n
      /\ \A i \in DOMAIN sections : sections[i].cloneOf \in Group \cup {None}
      /\ BackendList(r.cli, Overridden(read, r.cli.set)) \in Seq(STRING)
  BY <1>2, RequestsAssumption
<1>4. /\ p.backends \in Seq(BackendNames) /\ "rdp" \notin ToSet(p.backends)
      /\ p.outputCount = OrElse(r.cli.outputCount, 1)
      /\ p.policy.rules = [i \in 1 .. n |-> RuleOf(sections[i])]
      /\ \A i \in 1 .. n : sections[i].mirrorOf # None => sections[i].name = "vnc"
  <2> DEFINE file == Overridden(read, r.cli.set)
  <2>1. MadeOf(p, r.cli, file) /\ Accepted(p, r.cli, file)
    BY <1>1, <1>2, <1>3, PlanIsChecked
  <2>2. DOMAIN file.output = 1 .. n
    BY <1>3
  <2> HIDE DEF file
  <2>3. file.output = sections
    BY DEF file
  <2> HIDE DEF n, sections
  <2> QED BY <2>1, <2>2, <2>3 DEF MadeOf, Accepted, Honoured
<1> HIDE DEF n, sections
<1>5. Len(p.policy.rules) = n /\ DOMAIN p.policy.rules = 1 .. n
  BY <1>3, <1>4
<1>6. \A i \in 1 .. n : p.policy.rules[i] = RuleOf(sections[i])
  BY <1>4
<1>7. \A i \in 1 .. n : /\ RuleOf(sections[i]).mirrorOf = sections[i].mirrorOf
                        /\ RuleOf(sections[i]).name = sections[i].name
                        /\ RuleOf(sections[i]).cloneOf = sections[i].cloneOf
  BY DEF RuleOf
<1>8. /\ p.outputCount \in Int
      /\ \A kind \in {"x11", "wayland"} :
           1 <= Len(DefaultNames[kind]) /\ p.outputCount <= Len(DefaultNames[kind])
  <2>1. \A kind \in {"x11", "wayland"} : 1 <= Len(DefaultNames[kind])
    BY BackendsAssumption
  <2>2. r.cli.outputCount # None =>
          /\ r.cli.outputCount \in Int
          /\ \A kind \in {"x11", "wayland"} : r.cli.outputCount <= Len(DefaultNames[kind])
    BY RequestsAssumption
  <2> QED BY <1>4, <2>1, <2>2 DEF OrElse
<1> QED BY <1>3, <1>4, <1>5, <1>6, <1>7, <1>8

-------------------------------------------------------------------------------
(***************************************************************************)
(* A plan is the one asked for.                                            *)
(***************************************************************************)
\* The plan of a request, its command line and its file.
Asked(r, p, file) ==
  /\ r \in Requests /\ p = PlanOf(r) /\ ~IsError(p)
  /\ file = Overridden(ConfigRead(r), r.cli.set)

LEMMA PlansAreMade ==
  ASSUME NEW r, NEW p, NEW file, Asked(r, p, file)
  PROVE  /\ MadeOf(p, r.cli, file) /\ Accepted(p, r.cli, file)
         /\ ~IsError(ConfigRead(r)) /\ p = Plan(r.cli, ConfigRead(r))
<1> DEFINE read == ConfigRead(r)
           n == Len(file.output)
<1>1. ~IsError(read) /\ p = Plan(r.cli, read)
  BY DEF PlanOf, Asked
<1>2. /\ n \in Nat /\ DOMAIN file.output = 1 .. n
      /\ BackendList(r.cli, file) \in Seq(STRING)
  BY <1>1, RequestsAssumption DEF Asked
<1> HIDE DEF n, read
<1>3. file = Overridden(read, r.cli.set)
  BY DEF Asked, read
<1> QED BY <1>1, <1>2, <1>3, PlanIsChecked DEF Asked, read

\* What a backend consumes, its loader reads; and each but DRM's reads a size.
LEMMA ConsumedIsRead ==
  ASSUME NEW f \in Options \cup {"scale", "transform", "port", "output-count"},
         f \notin Unconsumed, f \notin ReadByMain, f \notin Inert,
         NEW b \in BackendNames \ {"rdp"}, b \in Consumers(f)
  PROVE  f \in Reads(b)
BY DEF Options, Unconsumed, ReadByMain, Inert, BackendNames, Consumers, Reads

LEMMA SizesAreRead ==
  ASSUME NEW b \in BackendNames \ {"rdp", "drm"}
  PROVE  {"width", "height"} \subseteq Reads(b)
BY DEF BackendNames, Reads

LEMMA OptionsAreRead ==
  ASSUME NEW r, NEW p, NEW file, Asked(r, p, file)
  PROVE  Unread(r.cli, p) \subseteq Unheeded(p)
<1> SUFFICES ASSUME NEW f \in Given(r.cli), f \notin Unheeded(p), f \notin ReadByMain
             PROVE  \E b \in ToSet(p.backends) : f \in Reads(b)
  BY DEF Unread
<1>1. ToSet(p.backends) \subseteq BackendNames \ {"rdp"}
  <2>1. p.backends \in Seq(BackendNames) /\ "rdp" \notin ToSet(p.backends)
    BY PlansAreMade DEF Accepted
  <2> QED BY <2>1 DEF ToSet
<1>2. CASE f \in {"width", "height"}
  <2>1. PICK b \in ToSet(p.backends) : b # "drm"
    BY <1>2 DEF Unheeded
  <2> QED BY <1>1, <1>2, <2>1, SizesAreRead
<1>3. CASE f \notin {"width", "height"}
  <2>1. f \in Options \cup {"scale", "transform", "port", "output-count"}
    BY <1>3, RequestsAssumption DEF Given, Asked
  <2>2. f \notin Inert
    BY DEF Unheeded
  <2>3. f \notin Unconsumed /\ Consumers(f) \cap ToSet(p.backends) # {}
    BY PlansAreMade DEF Accepted, UnhandledOption
  <2>4. PICK b \in ToSet(p.backends) : b \in Consumers(f)
    BY <2>3
  <2> QED BY <1>1, <2>1, <2>2, <2>3, <2>4, ConsumedIsRead
<1> QED BY <1>2, <1>3

LEMMA GuardedKeysAreRead ==
  ASSUME NEW r, NEW p, NEW file, Asked(r, p, file)
  PROVE  GuardedKeysReach(file, p)
BY PlansAreMade DEF Accepted, Honoured, Coloured, GuardedKeysReach, ForColorManager

LEMMA OneIsAList == ASSUME NEW S, NEW x \in S PROVE <<x>> \in Seq(S)
OBVIOUS

\* With no override the file is as it was read.
LEMMA NothingOverridden == ASSUME NEW file PROVE Overridden(file, <<>>) = file
<1> DEFINE next(s, f) ==
             IF s = {} THEN file
             ELSE Override(f[s \ {Max(s)}], <<>>[Max(s)])
           Eq(f) == f = [s \in SUBSET {} |-> next(s, f)]
           iter == CHOOSE f : Eq(f)
<1>1. Overridden(file, <<>>) = iter[{}]
  BY DEF Overridden, FoldLeft, MapThenFoldSet
<1>2. Eq([s \in SUBSET {} |-> file])
  OBVIOUS
<1>3. Eq(iter)
  <2> HIDE DEF Eq
  <2> QED BY <1>2
<1> HIDE DEF iter
<1>4. iter[{}] = file
  BY <1>3
<1> QED BY <1>1, <1>4

LEMMA CommandLineWins ==
  ASSUME NEW r, NEW p, NEW file, Asked(r, p, file)
  PROVE  CommandLineDecides(r, p)
<1> DEFINE cli == [r.cli EXCEPT !.set = <<>>]
           alone == Plan(cli, EmptyFile)
<1> SUFFICES ASSUME ~IsError(alone)
             PROVE  /\ r.cli.backend # None => p.backends = alone.backends
                    /\ r.cli.renderer # None \/ r.cli.flags \cap {"use-gl", "use-pixman"} # {}
                         => p.renderer = alone.renderer
                    /\ r.cli.port # None => p.port = alone.port
                    /\ p.policy.cli = alone.policy.cli
  BY DEF CommandLineDecides
<1>1. /\ cli.set = <<>> /\ cli.backend = r.cli.backend /\ cli.renderer = r.cli.renderer
      /\ cli.flags = r.cli.flags /\ cli.port = r.cli.port
      /\ cli.width = r.cli.width /\ cli.height = r.cli.height
      /\ cli.scale = r.cli.scale /\ cli.transform = r.cli.transform
  <2>1. DOMAIN r.cli = DOMAIN EmptyCommandLine
    BY RequestsAssumption DEF Asked
  <2>2. {"set", "backend", "renderer", "flags", "port", "width", "height", "scale",
         "transform"} \subseteq DOMAIN r.cli
    BY <2>1 DEF EmptyCommandLine
  <2> QED BY <2>2
<1>2. /\ MadeOf(p, r.cli, file) /\ ~RendererConflict(r.cli, file)
      /\ BackendList(r.cli, file) \in Seq(STRING)
  <2>1. ~IsError(ConfigRead(r))
    BY PlansAreMade
  <2>2. BackendList(r.cli, file) \in Seq(STRING)
    BY <2>1, RequestsAssumption DEF Asked
  <2> QED BY <2>2, PlansAreMade DEF Accepted
<1> HIDE DEF cli
<1>3. /\ EmptyFile.output = <<>> /\ EmptyFile.backends = <<>> /\ EmptyFile.backend = None
      /\ Overridden(EmptyFile, cli.set) = EmptyFile
  <2>1. EmptyFile.output = <<>> /\ EmptyFile.backends = <<>> /\ EmptyFile.backend = None
    BY DEF EmptyFile
  <2> QED BY <1>1, <2>1, NothingOverridden
<1> DEFINE S == STRING \cup {"drm"}
<1>4. BackendList(cli, EmptyFile) \in Seq(S)
  <2>1. CASE cli.backend # None
    <3>1. BackendList(cli, EmptyFile) = BackendList(r.cli, file)
      BY <1>1, <2>1 DEF BackendList
    <3> QED BY <1>2, <3>1
  <2>2. CASE cli.backend = None
    <3>1. BackendList(cli, EmptyFile) = <<"drm">>
      BY <1>3, <2>2 DEF BackendList, OrElse
    <3>2. <<"drm">> \in Seq(S)
      BY OneIsAList
    <3> QED BY <3>1, <3>2
  <2> QED BY <2>1, <2>2
<1>5. MadeOf(alone, cli, EmptyFile) /\ ~RendererConflict(cli, EmptyFile)
  <2>1. DOMAIN EmptyFile.output = 1 .. 0
    BY <1>3
  <2> HIDE DEF alone
  <2> QED BY <1>3, <1>4, <2>1, PlanIsChecked DEF Accepted, alone
<1> HIDE DEF alone
<1>6. r.cli.backend # None => BackendList(r.cli, file) = BackendList(cli, EmptyFile)
  BY <1>1 DEF BackendList
<1>7. r.cli.renderer # None \/ r.cli.flags \cap {"use-gl", "use-pixman"} # {}
        => RendererOf(r.cli, file) = RendererOf(cli, EmptyFile)
  BY <1>1, <1>2, <1>5 DEF RendererOf, RendererConflict, UseGl, UsePixman
<1>8. r.cli.port # None => p.port = alone.port
  BY <1>1, <1>2, <1>5 DEF MadeOf, OrElse
<1> QED BY <1>1, <1>2, <1>5, <1>6, <1>7, <1>8 DEF MadeOf

\* The first section of a name is the rule of its head.
LEMMA FirstSectionRules ==
  ASSUME NEW r, NEW p, NEW file, Asked(r, p, file), NEW i \in DOMAIN file.output,
         \A j \in 1 .. i - 1 : file.output[j].name # file.output[i].name
  PROVE  /\ SectionsOf(p.policy.rules, file.output[i].name) # {}
         /\ Least(SectionsOf(p.policy.rules, file.output[i].name)) = i
         /\ i \in DOMAIN p.policy.rules
         /\ p.policy.rules[i] = RuleOf(file.output[i])
         /\ RuleFor(p.policy, file.output[i].name) = RuleOf(file.output[i])
<1> DEFINE rules == p.policy.rules
           name == file.output[i].name
           n == Len(file.output)
           places == SectionsOf(rules, name)
<1>1. n \in Nat /\ DOMAIN file.output = 1 .. n
  BY PlansAreMade, RequestsAssumption DEF Asked
<1>2. DOMAIN rules = 1 .. n /\ \A j \in 1 .. n : rules[j] = RuleOf(file.output[j])
  <2>1. MadeOf(p, r.cli, file)
    BY PlansAreMade
  <2>2. rules = [j \in DOMAIN file.output |-> RuleOf(file.output[j])]
    BY <2>1 DEF MadeOf
  <2> HIDE DEF n, rules
  <2> QED BY <1>1, <2>2
<1> HIDE DEF n, rules
<1>3. \A j \in 1 .. n : rules[j].name = file.output[j].name
  <2>1. \A out : RuleOf(out).name = out.name
    BY DEF RuleOf
  <2> QED BY <1>2, <2>1
<1>4. i \in 1 .. n /\ places = {j \in 1 .. n : file.output[j].name = name}
  BY <1>1, <1>2, <1>3 DEF SectionsOf
<1>5. i \in places /\ places \in SUBSET Nat /\ \A j \in places : i <= j
  <2>1. \A j \in 1 .. n : j < i => j \in 1 .. i - 1
    BY <1>1, <1>4
  <2>2. i \in places /\ places \in SUBSET Nat
    BY <1>1, <1>4
  <2> QED BY <1>1, <1>4, <2>1, <2>2
<1> HIDE DEF places
<1>6. Least(places) = i
  <2>1. Least(places) \in places /\ \A j \in places : Least(places) <= j
    BY <1>5 DEF Least
  <2> QED BY <1>5, <2>1
<1>7. FirstAt(rules, places) = rules[i] /\ places # {}
  BY <1>5, <1>6 DEF FirstAt
<1> QED BY <1>2, <1>4, <1>6, <1>7 DEF RuleFor, rules, places

\* A head without clone-of is under its own section.
LEMMA OwnSectionControls ==
  ASSUME NEW policy0, NEW name, NEW n \in Nat, DOMAIN policy0.rules = 1 .. n,
         Len(policy0.rules) = n,
         NEW i \in 1 .. n, SectionsOf(policy0.rules, name) # {},
         Least(SectionsOf(policy0.rules, name)) = i, policy0.rules[i].cloneOf = None
  PROVE  ControllingRule(policy0, name) = policy0.rules[i]
<1> DEFINE rules == policy0.rules
           SectionOf(m) == IF SectionsOf(rules, m) = {} THEN 0 ELSE Least(SectionsOf(rules, m))
           hop == [j \in 0 .. Len(rules) |->
                     IF j = 0 THEN 0
                     ELSE IF rules[j].cloneOf = None THEN j ELSE SectionOf(rules[j].cloneOf)]
           two == Twice(hop)
           four == Twice(two)
           last == Twice(four)[hop[SectionOf(name)]]
<1>1. SectionOf(name) = i
  OBVIOUS
<1>2. ControllingRule(policy0, name)
        = IF SectionOf(name) = 0 THEN None
          ELSE IF last = 0 THEN BadCloneOf
          ELSE IF rules[last].cloneOf # None THEN BadCloneOf
          ELSE rules[last]
  BY DEF ControllingRule
<1>3. i \in DOMAIN hop /\ hop[i] = i
  OBVIOUS
<1> HIDE DEF hop, SectionOf
<1>4. i \in DOMAIN two /\ two[i] = i
  BY <1>3 DEF Twice
<1> HIDE DEF two
<1>5. i \in DOMAIN four /\ four[i] = i
  BY <1>4 DEF Twice
<1> HIDE DEF four
<1>6. last = i
  BY <1>1, <1>3, <1>5 DEF Twice
<1> QED BY <1>1, <1>2, <1>6

LEMMA OffStaysOff ==
  ASSUME NEW r, NEW p, NEW file, Asked(r, p, file)
  PROVE  OffMeansOff(file, p)
<1> SUFFICES ASSUME NEW i \in DOMAIN file.output,
                    \/ file.output[i].off = TRUE
                    \/ file.output[i].mode # None /\ file.output[i].mode.text = "off",
                    \A j \in 1 .. i - 1 : file.output[j].name # file.output[i].name
             PROVE  LET out == file.output[i]
                    IN /\ DecideSized(p.policy, out.name, <<1, 1>>) = {}
                       /\ DecideVnc(p.policy, out.name, <<1, 1>>) = {}
                       /\ out.cloneOf = None => DecideDrm(p.policy, out.name, FALSE, FALSE) = {}
  BY Zenon DEF OffMeansOff
<1> DEFINE out == file.output[i]
           rule == RuleOf(out)
           n == Len(file.output)
<1>1. rule.off = TRUE /\ rule.cloneOf = out.cloneOf
  BY DEF RuleOf
<1>2. rule # None /\ rule # BadCloneOf
  <2>1. rule # None
    BY PlansAreMade, RequestsAssumption DEF Asked
  <2>2. "off" \in DOMAIN rule /\ "off" \notin DOMAIN BadCloneOf
    BY DEF RuleOf, BadCloneOf
  <2> HIDE DEF rule
  <2> QED BY <2>1, <2>2
<1>3. /\ SectionsOf(p.policy.rules, out.name) # {}
      /\ Least(SectionsOf(p.policy.rules, out.name)) = i
      /\ p.policy.rules[i] = rule /\ RuleFor(p.policy, out.name) = rule
  BY FirstSectionRules
<1>4. n \in Nat /\ i \in 1 .. n /\ DOMAIN p.policy.rules = 1 .. n /\ Len(p.policy.rules) = n
  <2>1. n \in Nat /\ DOMAIN file.output = 1 .. n
    BY PlansAreMade, RequestsAssumption DEF Asked
  <2>2. MadeOf(p, r.cli, file)
    BY PlansAreMade
  <2>3. p.policy.rules = [j \in DOMAIN file.output |-> RuleOf(file.output[j])]
    BY <2>2 DEF MadeOf
  <2> HIDE DEF n
  <2> QED BY <2>1, <2>3
<1> HIDE DEF out, rule, n
<1>5. IsOff(RuleFor(p.policy, out.name))
  BY <1>1, <1>2, <1>3 DEF IsOff
<1>6. DecideSized(p.policy, out.name, <<1, 1>>) = {}
  BY <1>5 DEF DecideSized
<1>7. DecideVnc(p.policy, out.name, <<1, 1>>) = {}
  BY <1>5 DEF DecideVnc, DecideRemote
<1>8. out.cloneOf = None => DecideDrm(p.policy, out.name, FALSE, FALSE) = {}
  <2> SUFFICES ASSUME out.cloneOf = None
               PROVE  DecideDrm(p.policy, out.name, FALSE, FALSE) = {}
    OBVIOUS
  <2>1. p.policy.rules[i] = rule /\ p.policy.rules[i].cloneOf = None
    BY <1>1, <1>3
  <2>2. ControllingRule(p.policy, out.name) = rule
    BY <1>3, <1>4, <2>1, OwnSectionControls
  <2> QED BY <1>1, <1>2, <2>2 DEF DecideDrm
<1> QED BY <1>6, <1>7, <1>8 DEF out

\* A device that can do everything is set up as [libinput] says.
LEMMA InputIsApplied ==
  ASSUME NEW file, file.input \subseteq InputNames, InputMakesSense(file)
  PROVE  NoInertInput(file)
<1> DEFINE can == {Capability(key) : key \in file.input} \cup AccelProfiles
                    \cup ScrollMethods \cup {"accel"}
<1>1. "accel" \in can /\ AccelProfiles \subseteq can /\ ScrollMethods \subseteq can
      /\ \A key \in file.input : Capability(key) \in can
  OBVIOUS
<1>2. None \notin can /\ None # "none"
  <2>1. \A key \in file.input : Capability(key) \in InputNames \cup {"tap"}
    BY DEF Capability
  <2>2. None \notin AccelProfiles \cup ScrollMethods \cup InputNames \cup {"tap", "accel"}
    BY NoneIsNoKey
  <2>3. "none" \in ScrollMethods
    BY DEF ScrollMethods
  <2> QED BY <2>1, <2>2, <2>3
<1> HIDE DEF can
<1>3. AccelApplied(file, can)
        = (IF file.accelProfile # None THEN {"accel-profile"} ELSE {})
          \cup (IF file.accelSpeed # None THEN {"accel-speed"} ELSE {})
  BY <1>1, <1>2 DEF AccelApplied, InputMakesSense
<1>4. ScrollApplied(file, can)
        = (IF file.scrollMethod # None THEN {"scroll-method"} ELSE {})
          \cup (IF file.scrollButton # None THEN {"scroll-button"} ELSE {})
  <2>1. CASE file.scrollMethod = None
    <3>1. None # "button"
      BY <1>1, <1>2 DEF ScrollMethods
    <3> QED BY <1>2, <2>1, <3>1 DEF ScrollApplied, InputMakesSense
  <2>2. CASE file.scrollMethod # None
    <3>1. file.scrollMethod \in can
      BY <1>1, <2>2 DEF InputMakesSense
    <3> QED BY <2>2, <3>1 DEF ScrollApplied, InputMakesSense
  <2> QED BY <2>1, <2>2
<1>5. {key \in file.input : Capability(key) \in can} = file.input
  BY <1>1
<1>6. Applied(file, can) = InputKeys(file)
  BY <1>3, <1>4, <1>5 DEF Applied, InputKeys
<1> QED BY <1>6 DEF NoInertInput, can

\* The first directory of the search has the last word on the file.
LEMMA FirstFileIsRead ==
  ASSUME NEW r, NEW p, NEW file, Asked(r, p, file),
         r.cli.config = "search", r.env.configHome # None, r.files[r.env.configHome] # None
  PROVE  p = Plan(r.cli, r.files[r.env.configHome])
<1> DEFINE d == r.env.configHome
           dirs == SearchDirs(r.env)
           toml == {e \in DOMAIN r.files : r.files[e] # None}
           hits == {i \in DOMAIN dirs : dirs[i] \in toml}
<1>1. d \in toml
  BY RequestsAssumption DEF Asked
<1>2. 1 \in DOMAIN dirs /\ dirs[1] = d /\ DOMAIN dirs \subseteq Nat \ {0}
  <2> DEFINE two == IF r.env.home = None \/ r.env.home = d THEN <<>> ELSE <<r.env.home>>
             three == IF r.env.configDirs = <<>> THEN <<"/etc/xdg">> ELSE r.env.configDirs
             S == STRING \cup {d, r.env.home, "/etc/xdg"}
  <2>1. <<d>> \in Seq(S) /\ two \in Seq(S)
    <3>1. d \in S /\ r.env.home \in S
      OBVIOUS
    <3> HIDE DEF S, d
    <3>2. <<d>> \in Seq(S) /\ <<r.env.home>> \in Seq(S)
      BY <3>1, OneIsAList
    <3> QED BY <3>2
  <2>2. three \in Seq(S)
    <3>1. r.env.configDirs \in Seq(STRING)
      BY RequestsAssumption DEF Asked
    <3>2. <<"/etc/xdg">> \in Seq(S)
      <4>1. "/etc/xdg" \in S
        OBVIOUS
      <4> HIDE DEF S
      <4> QED BY <4>1, OneIsAList
    <3>3. Seq(STRING) \subseteq Seq(S)
      OBVIOUS
    <3> QED BY <3>1, <3>2, <3>3
  <2>3. dirs = (<<d>> \o two) \o three
    BY DEF SearchDirs
  <2> HIDE DEF two, three, dirs, S, d
  <2>4. <<d>> \o two \in Seq(S) /\ Len(<<d>> \o two) >= 1 /\ (<<d>> \o two)[1] = d
    <3>1. Len(two) \in Nat
      BY <2>1
    <3> QED BY <2>1, <3>1
  <2> DEFINE front == <<d>> \o two
  <2> HIDE DEF front
  <2>5. /\ front \o three \in Seq(S) /\ Len(front \o three) = Len(front) + Len(three)
        /\ (front \o three)[1] = front[1]
    <3>1. front \in Seq(S) /\ Len(front) >= 1
      BY <2>4 DEF front
    <3>2. Len(front) \in Nat /\ 1 \in 1 .. Len(front)
      BY <3>1
    <3> QED BY <2>2, <3>1, <3>2, Concatenated
  <2>6. Len(front) >= 1 /\ front[1] = d /\ dirs = front \o three
    BY <2>3, <2>4 DEF front
  <2>7. Len(front) \in Nat /\ Len(three) \in Nat /\ DOMAIN dirs = 1 .. Len(dirs)
    BY <2>2, <2>4, <2>5, <2>6 DEF front
  <2> QED BY <2>5, <2>6, <2>7
<1> HIDE DEF dirs, d, toml
<1>3. 1 \in hits /\ hits \subseteq Nat \ {0}
  BY <1>1, <1>2
<1> DEFINE m == CHOOSE i \in hits : \A j \in hits : i <= j
<1>4. m = 1
  <2> HIDE DEF hits
  <2>1. \A i \in hits : 1 <= i
    BY <1>3
  <2>2. \E i \in hits : \A j \in hits : i <= j
    BY <1>3, <2>1
  <2>3. m \in hits /\ \A j \in hits : m <= j
    BY <2>2
  <2> HIDE DEF m
  <2> QED BY <1>3, <2>1, <2>3
<1>5. Discover(r.env, toml, r.inis).config = d
  <2>1. hits # {}
    BY <1>3
  <2>2. Discover(r.env, toml, r.inis).config = dirs[m - 1 + 1]
    BY <2>1 DEF Discover, dirs
  <2> HIDE DEF m
  <2> QED BY <1>2, <1>4, <2>2
<1>6. ConfigRead(r) = r.files[d]
  <2>1. "search" # "none"
    OBVIOUS
  <2> QED BY <1>5, <2>1 DEF ConfigRead, toml, d
<1> QED BY <1>6, PlansAreMade DEF d

LEMMA PlansFollow ==
  ASSUME NEW r \in Requests, ~IsError(PlanOf(r))
  PROVE  PlanFollows(r, PlanOf(r))
<1> DEFINE p == PlanOf(r)
           file == Overridden(ConfigRead(r), r.cli.set)
<1>1. Asked(r, p, file)
  BY DEF Asked
<1>2. file.input \subseteq InputNames /\ InputMakesSense(file)
  BY <1>1, PlansAreMade, RequestsAssumption DEF Asked, Accepted
<1> HIDE DEF p, file
<1>3. NoInertInput(file)
  BY <1>2, InputIsApplied
<1>4. /\ Unread(r.cli, p) \subseteq Unheeded(p) /\ GuardedKeysReach(file, p)
      /\ CommandLineDecides(r, p) /\ OffMeansOff(file, p)
  BY <1>1, OptionsAreRead, GuardedKeysAreRead, CommandLineWins, OffStaysOff
<1>5. LET d == r.env.configHome
      IN r.cli.config = "search" /\ d # None /\ r.files[d] # None
           => p = Plan(r.cli, r.files[d])
  BY <1>1, FirstFileIsRead
<1> QED BY <1>3, <1>4, <1>5, Zenon DEF PlanFollows, p, file

-------------------------------------------------------------------------------
(***************************************************************************)
(* What a sound policy decides.                                            *)
(***************************************************************************)
\* Only remote heads mirror, and at most one mirrors an output.
LEMMA MirrorsAreRemote ==
  ASSUME PolicySound, headList \in Seq(HeadName), NEW o \in OutputName
  PROVE  /\ MirrorOf(o) \subseteq Present /\ MirrorOf(o) \subseteq HeadName
         /\ \A h \in MirrorOf(o) : KindOf[h] = "vnc"
         /\ \A h \in MirrorOf(o) : \A g \in MirrorOf(o) : g = h
<1> DEFINE rules == policy.rules
           places == {i \in DOMAIN rules : rules[i].mirrorOf = o}
           rule == MirrorRuleForSource(policy, o)
<1>1. places \in SUBSET Nat
  BY DEF PolicySound
<1>2. /\ places = {} => rule = None
      /\ places # {} => \E i \in places : rule = rules[i]
  <2>1. rule = FirstAt(rules, places)
    BY DEF MirrorRuleForSource
  <2> HIDE DEF places, rule
  <2> QED BY <1>1, <2>1, FirstAtIs
<1>3. o # None
  BY NamesAssumption DEF OutputName
<1>4. rule # None => rule.name = "vnc"
  BY <1>2, <1>3 DEF PolicySound
<1>5. Present \subseteq HeadName
  BY DEF Present, ToSet
<1> HIDE DEF rule
<1>6. MirrorOf(o) = IF rule = None THEN {} ELSE {rule.name} \cap Present
  BY DEF MirrorOf, rule
<1> QED BY <1>4, <1>5, <1>6, NamesAssumption

\* A head that is left off is switched off by its section.
LEMMA LeftOffIsOff ==
  ASSUME NEW h \in HeadName, Simple(h), HeadSetupFor(h) = {}
  PROVE  IsOff(RuleFor(policy, h))
<1>1. KindOf[h] \in {"headless", "x11", "wayland", "vnc", "pipewire"}
  BY HeadsAssumption DEF Simple
<1>2. \A default : DecideSized(policy, h, default) = {} => IsOff(RuleFor(policy, h))
  BY DEF DecideSized
<1>3. \A default : DecideRemote(policy, h, default) = {} => IsOff(RuleFor(policy, h))
  BY DEF DecideRemote
<1>4. \A default : DecideVnc(policy, h, default) = {} => DecideRemote(policy, h, default) = {}
  BY DEF DecideVnc
<1> QED BY <1>1, <1>2, <1>3, <1>4 DEF HeadSetupFor, DecidePipewire

\* clone-of leads from the section of a DRM head to that of another.
LEMMA GroupsAreNamed ==
  ASSUME PolicySound, NEW h \in HeadName, ~Simple(h)
  PROVE  /\ \A p \in DrmPlan(h) : p.output \in Group
         /\ \A p \in DrmPlan(h) : \A q \in DrmPlan(h) : p = q
<1> DEFINE rules == policy.rules
           n == Len(rules)
           SectionOf(name) == IF SectionsOf(rules, name) = {} THEN 0
                              ELSE Least(SectionsOf(rules, name))
           hop == [i \in 0 .. n |->
                     IF i = 0 THEN 0
                     ELSE IF rules[i].cloneOf = None THEN i ELSE SectionOf(rules[i].cloneOf)]
           twice == Twice(hop)
           fourTimes == Twice(twice)
           eightTimes == Twice(fourTimes)
           last == eightTimes[hop[SectionOf(h)]]
           G == {0} \cup {i \in 1 .. n : rules[i].name \in Group}
           rule == ControllingRule(policy, h)
<1>1. n \in Nat /\ DOMAIN rules = 1 .. n
      /\ \A i \in 1 .. n : rules[i].cloneOf \in Group \cup {None}
  BY DEF PolicySound
<1>2. h \in Group
  BY NamesAssumption DEF Simple
<1>3. None \notin Group
  BY NamesAssumption
<1>4. ASSUME NEW name \in Group PROVE SectionOf(name) \in G
  <2> DEFINE places == SectionsOf(rules, name)
  <2>1. places \in SUBSET Nat /\ places = {i \in 1 .. n : rules[i].name = name}
    BY <1>1 DEF SectionsOf
  <2>2. places # {} => Least(places) \in places
    <3> HIDE DEF places
    <3> QED BY <2>1, LeastExists
  <2> QED BY <2>1, <2>2
<1>5. G \subseteq 0 .. n
  BY <1>1
<1> HIDE DEF SectionOf
<1>6. DOMAIN hop = 0 .. n /\ \A i \in G : hop[i] \in G
  <2> SUFFICES ASSUME NEW i \in G PROVE hop[i] \in G
    OBVIOUS
  <2>1. CASE i = 0
    BY <1>1, <2>1
  <2>2. CASE i # 0
    <3>1. i \in 1 .. n /\ i \in 0 .. n /\ rules[i].name \in Group
      BY <1>5, <2>2
    <3>2. CASE rules[i].cloneOf = None
      BY <3>1, <3>2, <2>2
    <3>3. CASE rules[i].cloneOf # None
      <4>1. rules[i].cloneOf \in Group
        BY <1>1, <3>1, <3>3
      <4>2. hop[i] = SectionOf(rules[i].cloneOf)
        BY <3>1, <3>3, <2>2
      <4> QED BY <1>4, <4>1, <4>2
    <3> QED BY <3>2, <3>3
  <2> QED BY <2>1, <2>2
<1> HIDE DEF hop, G
<1>7. \A f : DOMAIN f = 0 .. n /\ (\A i \in G : f[i] \in G)
        => DOMAIN Twice(f) = 0 .. n /\ (\A i \in G : Twice(f)[i] \in G)
  BY <1>5 DEF Twice
<1>8. DOMAIN twice = 0 .. n /\ \A i \in G : twice[i] \in G
  BY <1>6, <1>7
<1> HIDE DEF twice
<1>9. DOMAIN fourTimes = 0 .. n /\ \A i \in G : fourTimes[i] \in G
  BY <1>7, <1>8
<1> HIDE DEF fourTimes
<1>10. DOMAIN eightTimes = 0 .. n /\ \A i \in G : eightTimes[i] \in G
  BY <1>7, <1>9
<1> HIDE DEF eightTimes
<1>11. last \in G
  BY <1>2, <1>4, <1>6, <1>10
<1>12. rule = IF SectionOf(h) = 0 THEN None
              ELSE IF last = 0 THEN BadCloneOf
              ELSE IF rules[last].cloneOf # None THEN BadCloneOf
              ELSE rules[last]
  BY Zenon DEF ControllingRule, SectionOf, hop, twice, fourTimes, eightTimes
<1> HIDE DEF last, rule
<1>13. rule \notin {None, BadCloneOf} => rule.name \in Group
  BY <1>11, <1>12 DEF G
<1>14. DrmPlan(h) =
         IF rule \in {None, BadCloneOf}
         THEN {[output |-> h, setup |-> DrmSetup(None, policy.currentMode)]}
         ELSE IF rule.off \/ (h \in NonDesktop /\ rule.mode = None) THEN {}
         ELSE {[output |-> rule.name, setup |-> DrmSetup(rule, policy.currentMode)]}
  BY Zenon DEF DrmPlan, DecideDrm, rule
<1> QED BY <1>2, <1>13, <1>14

-------------------------------------------------------------------------------
(***************************************************************************)
(* What the steps of enabling and disabling do to a state that is Good.    *)
(***************************************************************************)
LEMMA PresentAreHeads ==
  ASSUME ConnectorsInv PROVE Present \subseteq HeadName
BY DEF ConnectorsInv, Present, ToSet

\* The flags of heads: nobody who was served is forgotten.
LEMMA Retouched ==
  ASSUME ConnectorsInv,
         NEW about, NEW new, NEW fresh, NEW s, Good(s, about, new, fresh),
         NEW later, NEW newer, NEW t, Flagged(t), about \subseteq later,
         t.outputs = s.outputs, t.order = s.order, t.on = s.on,
         \A h \in s.known \cup new : h \in t.known \cup newer,
         \A h \in s.refused : h \in t.refused \/ s.on[h] # None,
         \A h \in (Present \ t.changed) \cap s.changed :
           IF h \in connected THEN Served(t, h, fresh) \/ h \in later
           ELSE s.on[h] # None => ~Simple(h) /\ DrmForceOn(policy, h)
  PROVE  Good(t, later, newer, fresh)
<1>1. \A h : Served(s, h, fresh) => Served(t, h, fresh)
  BY DEF Served, ExcusedIn, WaitsIn
<1>2. Attached(t, newer)
  BY DEF Good, Attached
<1>3. Listed(t)
  BY DEF Good, Listed
<1>4. Mirroring(t)
  <2>1. \A o \in DOMAIN s.outputs : \A src : OnSource(s, o, src) => OnSource(t, o, src)
    BY DEF OnSource
  <2> QED BY <2>1 DEF Good, Mirroring
<1>5. Settled(t, later, fresh)
  BY <1>1 DEF Good, Settled
<1>6. Due(t, fresh)
  BY <1>1 DEF Good, Due
<1> QED BY <1>2, <1>3, <1>4, <1>5, <1>6 DEF Good

\* An output has been announced when its mirror has been seen to.
LEMMA AnnouncedIsSeenTo ==
  ASSUME NEW about, NEW new, NEW wide, NEW fresh, NEW o, NEW s, Good(s, about, new, wide),
         wide \subseteq fresh \cup {o},
         \/ s.outputs[o].kind = "vnc"
         \/ \A h \in MirrorOf(o) : Served(s, h, fresh)
  PROVE  Good(s, about, new, fresh)
<1>1. ASSUME NEW h, Served(s, h, wide) PROVE Served(s, h, fresh)
  <2>1. CASE h \in MirrorOf(o) /\ s.outputs[o].kind # "vnc"
    BY <2>1
  <2>2. CASE h \notin MirrorOf(o) \/ s.outputs[o].kind = "vnc"
    <3>1. WaitsIn(s, h, wide) => WaitsIn(s, h, fresh)
      BY <2>2 DEF WaitsIn
    <3> QED BY <1>1, <3>1 DEF Served, ExcusedIn
  <2> QED BY <2>1, <2>2
<1>2. Settled(s, about, fresh) /\ Due(s, fresh)
  BY <1>1 DEF Good, Settled, Due
<1> QED BY <1>2 DEF Good

\* An output comes up under some heads that had none.
Raised(s, t, o, heads, output) ==
  /\ Flagged(t)
  /\ t.outputs = Raise(s.outputs, o, output)
  /\ t.order = Append(s.order, o)
  /\ t.on = [h \in HeadName |-> IF h \in heads THEN o ELSE s.on[h]]
  /\ s.known \subseteq t.known
  /\ t.changed = s.changed
  /\ s.refused \subseteq t.refused \cup heads

LEMMA OutputsRaised ==
  ASSUME NEW s, NEW t, NEW o, NEW heads, NEW output, Raised(s, t, o, heads, output),
         o \notin DOMAIN s.outputs
  PROVE  /\ DOMAIN t.outputs = DOMAIN s.outputs \cup {o}
         /\ t.outputs[o] = output
         /\ \A p \in DOMAIN s.outputs : t.outputs[p] = s.outputs[p]
BY DEF Raised, Raise

LEMMA OrderGrows ==
  ASSUME NEW s, Listed(s), NEW o \in OutputName \ DOMAIN s.outputs, NEW t,
         t.order = Append(s.order, o), DOMAIN t.outputs = DOMAIN s.outputs \cup {o}
  PROVE  Listed(t)
<1> DEFINE n == Len(s.order)
<1>1. /\ s.order \in Seq(OutputName) /\ n \in Nat /\ DOMAIN s.order = 1 .. n
      /\ \A i \in 1 .. n : s.order[i] \in DOMAIN s.outputs
      /\ DOMAIN s.outputs = {s.order[i] : i \in 1 .. n}
  BY DEF Listed, ToSet
<1>2. /\ t.order \in Seq(OutputName) /\ DOMAIN t.order = 1 .. n + 1
      /\ \A i \in 1 .. n : t.order[i] = s.order[i]
      /\ t.order[n + 1] = o
  BY <1>1
<1> HIDE DEF n
<1>3. \A i \in 1 .. n + 1 : i \in 1 .. n \/ i = n + 1
  BY <1>1
<1>4. 1 .. n \subseteq 1 .. n + 1 /\ n + 1 \in 1 .. n + 1
  BY <1>1
<1>5. ToSet(t.order) = DOMAIN t.outputs
  <2>1. ToSet(t.order) = {t.order[i] : i \in 1 .. n + 1}
    BY <1>2 DEF ToSet
  <2>2. {t.order[i] : i \in 1 .. n + 1} = {s.order[i] : i \in 1 .. n} \cup {o}
    BY <1>2, <1>3, <1>4
  <2> QED BY <1>1, <2>1, <2>2
<1>6. \A i \in 1 .. n + 1 : \A j \in 1 .. n + 1 : t.order[i] = t.order[j] => i = j
  BY <1>1, <1>2, <1>3 DEF Listed
<1> QED BY <1>1, <1>2, <1>5, <1>6 DEF Listed

LEMMA RaisedIsGood ==
  ASSUME ConnectorsInv,
         NEW about, NEW new, NEW fresh, NEW s, Good(s, about, new, fresh),
         NEW o \in OutputName \ DOMAIN s.outputs, NEW output,
         DOMAIN output = OutputFields, NEW heads \in SUBSET Present, heads # {},
         \A h \in heads : s.on[h] = None,
         \A h \in heads : Simple(h) => o = h /\ h \in connected,
         \A h \in heads : ~Simple(h) => o \in Group,
         \A h \in heads : ~Simple(h) /\ h \notin connected => DrmForceOn(policy, h),
         NEW t, Raised(s, t, o, heads, output),
         \/ output.mirrorOf = None
         \/ output.kind = "vnc" /\ OnSource(t, o, output.mirrorOf)
  PROVE  Good(t, about, new \cup heads, fresh \cup {o})
<1>1. /\ DOMAIN t.outputs = DOMAIN s.outputs \cup {o}
      /\ t.outputs[o] = output
      /\ \A p \in DOMAIN s.outputs : t.outputs[p] = s.outputs[p]
  BY OutputsRaised
<1>2. /\ t.on = [h \in HeadName |-> IF h \in heads THEN o ELSE s.on[h]]
      /\ s.known \subseteq t.known /\ t.changed = s.changed
      /\ s.refused \subseteq t.refused \cup heads /\ Flagged(t)
  BY DEF Raised
<1>3. heads \subseteq HeadName
  BY PresentAreHeads
<1>4. o # None
  BY NamesAssumption DEF OutputName
<1>5. Attached(t, new \cup heads)
  <2>1. t.on \in [HeadName -> OutputName \cup {None}]
    BY <1>2 DEF Good, Attached
  <2>2. ASSUME NEW h \in HeadName, t.on[h] # None
        PROVE  /\ h \in Present /\ h \in t.known \cup new \cup heads
               /\ t.on[h] \in DOMAIN t.outputs
               /\ Simple(h) => t.on[h] = h
               /\ ~Simple(h) => t.on[h] \in Group
    BY <1>1, <1>2, <2>2 DEF Good, Attached
  <2>3. ASSUME NEW p \in DOMAIN t.outputs PROVE \E h \in HeadName : t.on[h] = p
    <3>1. CASE p = o
      BY <1>2, <1>3, <3>1
    <3>2. CASE p # o
      <4>1. PICK h \in HeadName : s.on[h] = p
        BY <1>1, <3>2 DEF Good, Attached
      <4>2. p # None
        BY <1>1, <3>2, NamesAssumption DEF Good, Listed, OutputName
      <4>3. t.on[h] = p
        BY <1>2, <4>1, <4>2
      <4> QED BY <4>3
    <3> QED BY <3>1, <3>2
  <2> QED BY <2>1, <2>2, <2>3 DEF Attached
<1>6. Listed(t)
  BY <1>1, OrderGrows DEF Good, Raised
<1>7. Mirroring(t)
  <2>1. ASSUME NEW p \in DOMAIN s.outputs
        PROVE  /\ DOMAIN t.outputs[p] = OutputFields
               /\ t.outputs[p].mirrorOf # None => t.outputs[p].kind = "vnc"
               /\ t.outputs[p].mirrorOf \notin {None, Dangling}
                    => OnSource(t, p, t.outputs[p].mirrorOf)
    <3>1. \A src : OnSource(s, p, src) => OnSource(t, p, src)
      <4> SUFFICES ASSUME NEW src, OnSource(s, p, src) PROVE OnSource(t, p, src)
        OBVIOUS
      <4>1. src \in DOMAIN s.outputs
        BY DEF OnSource
      <4>2. /\ src \in DOMAIN t.outputs
            /\ t.outputs[src] = s.outputs[src]
            /\ t.outputs[p] = s.outputs[p]
        BY <1>1, <4>1
      <4> QED BY <4>2 DEF OnSource
    <3>2. /\ DOMAIN s.outputs[p] = OutputFields
          /\ s.outputs[p].mirrorOf # None => s.outputs[p].kind = "vnc"
          /\ s.outputs[p].mirrorOf \notin {None, Dangling}
               => OnSource(s, p, s.outputs[p].mirrorOf)
      BY DEF Good, Mirroring
    <3> QED BY <1>1, <3>1, <3>2
  <2> QED BY <1>1, <2>1 DEF Mirroring
<1>8. ASSUME NEW h \in Present, Served(s, h, fresh) PROVE Served(t, h, fresh \cup {o})
  <2>1. h \in HeadName
    BY PresentAreHeads
  <2>2. CASE h \in heads
    BY <1>2, <1>4, <2>1, <2>2 DEF Served
  <2>3. CASE h \notin heads
    <3>1. t.on[h] = s.on[h] /\ (h \in s.refused => h \in t.refused)
      BY <1>2, <2>1, <2>3
    <3>2. WaitsIn(s, h, fresh) => WaitsIn(t, h, fresh \cup {o})
      BY <1>1 DEF WaitsIn
    <3> QED BY <1>8, <3>1, <3>2 DEF Served, ExcusedIn
  <2> QED BY <2>2, <2>3
<1>9. Settled(t, about, fresh \cup {o})
  <2> SUFFICES ASSUME NEW h \in Present \ t.changed
               PROVE  IF h \in connected THEN Served(t, h, fresh \cup {o}) \/ h \in about
                      ELSE t.on[h] # None => ~Simple(h) /\ DrmForceOn(policy, h)
    BY DEF Settled
  <2>1. h \in HeadName /\ h \in Present \ s.changed
    BY <1>2, PresentAreHeads
  <2>2. IF h \in connected THEN Served(s, h, fresh) \/ h \in about
        ELSE s.on[h] # None => ~Simple(h) /\ DrmForceOn(policy, h)
    BY <2>1 DEF Good, Settled
  <2>3. CASE h \in connected
    BY <1>8, <2>2, <2>3
  <2>4. CASE h \notin connected
    BY <1>2, <2>1, <2>2, <2>4
  <2> QED BY <2>3, <2>4
<1>10. Due(t, fresh \cup {o})
  BY <1>8 DEF Good, Due
<1> QED BY <1>2, <1>5, <1>6, <1>7, <1>9, <1>10 DEF Good

\* A head without an output leaves its own name free.
LEMMA OwnNameIsFree ==
  ASSUME NEW about, NEW new, NEW fresh, NEW s, Good(s, about, new, fresh),
         NEW h \in HeadName, Simple(h), s.on[h] = None
  PROVE  h \notin DOMAIN s.outputs
<1> SUFFICES ASSUME h \in DOMAIN s.outputs PROVE FALSE
  OBVIOUS
<1>1. PICK g \in HeadName : s.on[g] = h
  BY DEF Good, Attached
<1>2. h # None /\ h \notin Group
  BY NamesAssumption DEF Simple
<1>3. g = h
  BY <1>1, <1>2 DEF Good, Attached
<1> QED BY <1>1, <1>2, <1>3

LEMMA ConfiguredIs ==
  ASSUME NEW s, NEW h, NEW setup, NEW src
  PROVE  LET c == Configured(s, h, setup, src)
         IN /\ DOMAIN c = OutputFields
            /\ c.kind = KindOf[h] /\ c.asked = c.scale /\ c.mirrorOf = src
            /\ src # None => c.x = s.outputs[src].x /\ ~c.resizeable
BY DEF Configured, ApplyColor, OutputFields

LEMMA ModelineIs ==
  ASSUME NEW s, NEW src, NEW o, {"size", "scale"} \subseteq DOMAIN s.outputs[o]
  PROVE  LET m == MirrorModeline(s, src, o)
         IN /\ DOMAIN m = DOMAIN s.outputs[o]
            /\ m.size = [i \in 1 .. 2 |-> s.outputs[src].size[i] \div s.outputs[o].scale]
            /\ m.scale = s.outputs[src].scale
            /\ \A key \in DOMAIN m \ {"size", "scale"} : m[key] = s.outputs[o][key]
BY DEF MirrorModeline

\* enable_head refuses: the head is marked, and nothing else happens.
LEMMA RefusalIs ==
  ASSUME NEW s, Flagged(s), NEW h \in Present
  PROVE  LET t == Refusal(s, h)
         IN /\ Flagged(t) /\ t.refused = s.refused \cup {h}
            /\ t.outputs = s.outputs /\ t.order = s.order /\ t.on = s.on
            /\ t.known = s.known /\ t.changed = s.changed
BY DEF Refusal, Flagged, Fields

LEMMA EmittingIs ==
  ASSUME ConnectorsInv, NEW s, Flagged(s), NEW h \in Present, NEW output,
         s.on \in [HeadName -> OutputName \cup {None}]
  PROVE  LET t == Emitting(s, h, output)
         IN /\ Raised(s, t, h, {h}, output)
            /\ t.known = s.known /\ t.refused = s.refused
<1> DEFINE t == Emitting(s, h, output)
<1>1. /\ DOMAIN t = Fields
      /\ t.outputs = Raise(s.outputs, h, output) /\ t.order = Append(s.order, h)
      /\ t.on = [s.on EXCEPT ![h] = h] /\ t.known = s.known /\ t.changed = s.changed
      /\ t.failed = s.failed /\ t.refused = s.refused
  BY DEF Emitting, Flagged, Fields
<1>2. t.on = [g \in HeadName |-> IF g \in {h} THEN h ELSE s.on[g]]
  BY <1>1
<1> HIDE DEF t
<1>3. Flagged(t)
  BY <1>1 DEF Flagged
<1>4. Raised(s, t, h, {h}, output)
  BY <1>1, <1>2, <1>3 DEF Raised
<1> QED BY <1>1, <1>4 DEF t

\* What an announcement may do to the other heads: bring up one that is no
\* longer marked, and is none of DRM's.
Followed(s, t) ==
  /\ t.changed \subseteq s.changed
  /\ s.known \subseteq t.known
  /\ \A h \in HeadName : s.on[h] # None => t.on[h] = s.on[h]
  /\ \A h \in HeadName : s.on[h] = None /\ t.on[h] # None => h \notin t.changed
  /\ \A h \in HeadName : ~Simple(h) => t.on[h] = s.on[h]

LEMMA MirrorComesUp ==
  ASSUME PolicySound, ConnectorsInv,
         NEW about, NEW new, NEW o, NEW s, Good(s, about, new, {o}),
         o \in DOMAIN s.outputs, s.outputs[o].kind # "vnc",
         NEW h \in MirrorOf(o), s.on[h] = None, NEW setup \in HeadSetupFor(h)
  PROVE  LET t == [Emitting(s, h, Configured(s, h, setup, o)) EXCEPT
                     !.known = @ \cup {h}, !.refused = @ \ {h}]
             u == [[t EXCEPT !.outputs[h] = MirrorModeline(t, o, h)] EXCEPT
                     !.changed = @ \ {h}]
         IN Good(u, about, new, {}) /\ Followed(s, u)
<1> DEFINE c == Configured(s, h, setup, o)
           e == Emitting(s, h, c)
           t == [e EXCEPT !.known = @ \cup {h}, !.refused = @ \ {h}]
           m == MirrorModeline(t, o, h)
           v == [t EXCEPT !.outputs[h] = m]
           u == [v EXCEPT !.changed = @ \ {h}]
<1>1. o \in OutputName /\ o # None
  BY NamesAssumption DEF Good, Listed, OutputName
<1>2. /\ h \in Present /\ h \in HeadName /\ KindOf[h] = "vnc" /\ Simple(h) /\ h \in connected
      /\ \A g \in MirrorOf(o) : g = h
  BY <1>1, MirrorsAreRemote DEF ConnectorsInv, Simple
<1>3. h \notin DOMAIN s.outputs /\ h # o
  BY <1>2, OwnNameIsFree
<1>4. s.on \in [HeadName -> OutputName \cup {None}] /\ Flagged(s)
  BY DEF Good, Attached
<1>5. Raised(s, e, h, {h}, c) /\ e.known = s.known /\ e.refused = s.refused
  BY <1>2, <1>4, EmittingIs
<1>6. /\ DOMAIN c = OutputFields
      /\ c.kind = "vnc" /\ c.asked = c.scale /\ c.mirrorOf = o
      /\ c.x = s.outputs[o].x /\ ~c.resizeable
  BY <1>1, <1>2, ConfiguredIs
<1> HIDE DEF c, e
<1>7. /\ DOMAIN t = Fields /\ t.known = s.known \cup {h} /\ t.refused = s.refused \ {h}
      /\ t.outputs = Raise(s.outputs, h, c) /\ t.order = Append(s.order, h)
      /\ t.on = [g \in HeadName |-> IF g \in {h} THEN h ELSE s.on[g]]
      /\ t.changed = s.changed /\ t.failed = e.failed
  BY <1>5 DEF Raised, Flagged, Fields
<1> HIDE DEF t
<1>8. t.outputs[h] = c /\ t.outputs[o] = s.outputs[o] /\ h \in DOMAIN t.outputs
  BY <1>3, <1>7 DEF Raise
<1>9. /\ DOMAIN m = OutputFields
      /\ m.kind = "vnc" /\ m.mirrorOf = o /\ m.x = s.outputs[o].x /\ ~m.resizeable
      /\ m.scale = s.outputs[o].scale
      /\ m.size = [i \in 1 .. 2 |-> s.outputs[o].size[i] \div m.asked]
  <2>1. /\ DOMAIN m = DOMAIN c
        /\ m.size = [i \in 1 .. 2 |-> t.outputs[o].size[i] \div t.outputs[h].scale]
        /\ m.scale = t.outputs[o].scale
        /\ \A key \in DOMAIN m \ {"size", "scale"} : m[key] = c[key]
    BY <1>6, <1>8, ModelineIs DEF OutputFields
  <2>2. m.kind = c.kind /\ m.mirrorOf = c.mirrorOf /\ m.x = c.x
        /\ m.resizeable = c.resizeable /\ m.asked = c.asked
    BY <1>6, <2>1 DEF OutputFields
  <2>3. t.outputs[h].scale = m.asked /\ t.outputs[o] = s.outputs[o]
    BY <1>6, <1>8, <2>2
  <2> HIDE DEF m
  <2> QED BY <1>6, <2>1, <2>2, <2>3
<1> HIDE DEF m
<1>10. /\ DOMAIN v = Fields /\ v.outputs = [t.outputs EXCEPT ![h] = m]
       /\ v.order = t.order /\ v.on = t.on /\ v.known = t.known /\ v.refused = t.refused
       /\ v.changed = t.changed /\ v.failed = t.failed
  BY <1>7 DEF Fields
<1> HIDE DEF v
<1>11. Raised(s, v, h, {h}, m)
  <2>1. v.outputs = Raise(s.outputs, h, m)
    <3>1. DOMAIN t.outputs = DOMAIN s.outputs \cup {h}
          /\ \A p \in DOMAIN s.outputs : p # h => t.outputs[p] = s.outputs[p]
      BY <1>7 DEF Raise
    <3>2. v.outputs = [p \in DOMAIN s.outputs \cup {h} |-> IF p = h THEN m ELSE s.outputs[p]]
      BY <1>10, <3>1
    <3> QED BY <3>2 DEF Raise
  <2>2. Flagged(v)
    BY <1>2, <1>4, <1>5, <1>7, <1>10 DEF Flagged, Raised
  <2> QED BY <1>7, <1>10, <2>1, <2>2 DEF Raised
<1>12. OnSource(v, h, o)
  <2>1. v.outputs[h] = m /\ v.outputs[o] = s.outputs[o] /\ o \in DOMAIN v.outputs
    BY <1>3, <1>11, OutputsRaised
  <2> QED BY <1>9, <2>1 DEF OnSource
<1>13. Good(v, about, new \cup {h}, {o} \cup {h})
  BY <1>1, <1>2, <1>3, <1>9, <1>11, <1>12, RaisedIsGood DEF OutputName
<1>14. v.on[h] = h /\ h # None /\ v.outputs[h] = m
  BY <1>2, <1>3, <1>7, <1>10, <1>11, OutputsRaised, NamesAssumption
<1>15. Good(v, about, new \cup {h}, {o})
  BY <1>9, <1>13, <1>14, AnnouncedIsSeenTo
<1>16. Good(v, about, new \cup {h}, {})
  <2>1. \A g \in MirrorOf(o) : Served(v, g, {})
    BY <1>2, <1>14 DEF Served
  <2> QED BY <1>15, <2>1, AnnouncedIsSeenTo
<1>17. /\ DOMAIN u = Fields /\ u.outputs = v.outputs /\ u.order = v.order /\ u.on = v.on
       /\ u.known = v.known /\ u.refused = v.refused /\ u.failed = v.failed
       /\ u.changed = s.changed \ {h}
  BY <1>7, <1>10 DEF Fields
<1> HIDE DEF u
<1>18. Flagged(u)
  BY <1>4, <1>11, <1>17 DEF Flagged, Raised
<1>19. Good(u, about, new, {})
  <2>1. \A g \in v.known \cup (new \cup {h}) : g \in u.known \cup new
    BY <1>7, <1>10, <1>17
  <2>2. \A g \in (Present \ u.changed) \cap v.changed : g = h
    BY <1>7, <1>10, <1>17
  <2>3. Served(u, h, {})
    BY <1>14, <1>17 DEF Served
  <2>4. \A g \in (Present \ u.changed) \cap v.changed :
          IF g \in connected THEN Served(u, g, {}) \/ g \in about
          ELSE v.on[g] # None => ~Simple(g) /\ DrmForceOn(policy, g)
    BY <1>2, <2>2, <2>3
  <2>5. \A g \in v.refused : g \in u.refused \/ v.on[g] # None
    BY <1>17
  <2>6. about \subseteq about
    OBVIOUS
  <2> QED BY <1>16, <1>17, <1>18, <2>1, <2>4, <2>5, <2>6, Retouched
<1>20. Followed(s, u)
  BY <1>2, <1>7, <1>10, <1>17 DEF Followed
<1> QED BY <1>19, <1>20 DEF u, v, m, t, e, c

LEMMA AnnouncementKeeps ==
  ASSUME PolicySound, ConnectorsInv,
         NEW about, NEW new, NEW o, NEW s, Good(s, about, new, {o}),
         o \in DOMAIN s.outputs, NEW u \in MirrorOnOutputCreated(s, o)
  PROVE  Good(u, about, new, {}) /\ Followed(s, u)
<1> DEFINE due == {h \in MirrorOf(o) : /\ s.outputs[o].kind # "vnc"
                                      /\ ~EnabledIn(s, h) /\ HeadSetupFor(h) # {}}
<1>1. o \in OutputName
  BY DEF Good, Listed
<1>2. /\ MirrorOf(o) \subseteq Present /\ MirrorOf(o) \subseteq HeadName
      /\ \A h \in MirrorOf(o) : KindOf[h] = "vnc"
      /\ \A h \in MirrorOf(o) : \A g \in MirrorOf(o) : g = h
  BY <1>1, MirrorsAreRemote DEF ConnectorsInv
<1>3. \A h \in MirrorOf(o) : Simple(h) /\ h \in connected
  BY <1>2 DEF Simple, ConnectorsInv
<1>4. CASE due = {}
  <2>1. u = s
    BY <1>4 DEF MirrorOnOutputCreated
  <2>2. s.outputs[o].kind = "vnc" \/ \A h \in MirrorOf(o) : Served(s, h, {})
    <3> SUFFICES ASSUME s.outputs[o].kind # "vnc", NEW h \in MirrorOf(o)
                 PROVE  Served(s, h, {})
      OBVIOUS
    <3>1. EnabledIn(s, h) \/ HeadSetupFor(h) = {}
      BY <1>4
    <3>2. HeadSetupFor(h) = {} => IsOff(RuleFor(policy, h))
      BY <1>2, <1>3, LeftOffIsOff
    <3> QED BY <1>3, <3>1, <3>2 DEF Served, ExcusedIn, EnabledIn
  <2>3. Good(s, about, new, {})
    BY <2>2, AnnouncedIsSeenTo
  <2> QED BY <2>1, <2>3 DEF Followed
<1>5. CASE due # {}
  <2>1. PICK h \in due : u \in {[t EXCEPT !.changed = @ \ {h}] : t \in MirrorEnabled(s, h, o)}
    BY <1>5 DEF MirrorOnOutputCreated
  <2>2. /\ h \in MirrorOf(o) /\ s.outputs[o].kind # "vnc" /\ s.on[h] = None
        /\ h \in Present /\ Flagged(s)
    BY <1>2, <2>1 DEF EnabledIn, Good
  <2>3. PICK t \in MirrorEnabled(s, h, o) : u = [t EXCEPT !.changed = @ \ {h}]
    BY <2>1
  <2>4. CASE t = Refusal(s, h)
    <3>1. /\ Flagged(t) /\ t.refused = s.refused \cup {h}
          /\ t.outputs = s.outputs /\ t.order = s.order /\ t.on = s.on
          /\ t.known = s.known /\ t.changed = s.changed
      BY <2>2, <2>4, RefusalIs
    <3>2. /\ Flagged(u) /\ u.refused = s.refused \cup {h}
          /\ u.outputs = s.outputs /\ u.order = s.order /\ u.on = s.on
          /\ u.known = s.known /\ u.changed = s.changed \ {h}
      BY <2>3, <3>1 DEF Flagged, Fields
    <3>3. Served(u, h, {o}) /\ Served(u, h, {})
      BY <3>2 DEF Served, ExcusedIn
    <3>4. \A g \in (Present \ u.changed) \cap s.changed :
            IF g \in connected THEN Served(u, g, {o}) \/ g \in about
            ELSE s.on[g] # None => ~Simple(g) /\ DrmForceOn(policy, g)
      BY <1>3, <2>2, <3>2, <3>3
    <3>5. \A g \in s.known \cup new : g \in u.known \cup new
      BY <3>2
    <3>6. \A g \in s.refused : g \in u.refused \/ s.on[g] # None
      BY <3>2
    <3>7. Good(u, about, new, {o})
      BY <3>2, <3>4, <3>5, <3>6, Retouched
    <3>8. \A g \in MirrorOf(o) : Served(u, g, {})
      BY <1>2, <2>2, <3>3
    <3>9. Good(u, about, new, {})
      BY <3>7, <3>8, AnnouncedIsSeenTo
    <3> QED BY <3>2, <3>9 DEF Followed
  <2>5. CASE t # Refusal(s, h)
    <3> DEFINE v(setup) == [Emitting(s, h, Configured(s, h, setup, o)) EXCEPT
                              !.known = @ \cup {h}, !.refused = @ \ {h}]
    <3>1. t \in {[w EXCEPT !.outputs[h] = MirrorModeline(w, o, h)] :
                   w \in {v(setup) : setup \in HeadSetupFor(h)}}
      BY <2>5 DEF MirrorEnabled
    <3> HIDE DEF v
    <3>2. PICK setup \in HeadSetupFor(h) :
            t = [v(setup) EXCEPT !.outputs[h] = MirrorModeline(v(setup), o, h)]
      BY <3>1
    <3> QED BY <2>2, <2>3, <3>2, MirrorComesUp DEF v
  <2> QED BY <2>4, <2>5
<1> QED BY <1>4, <1>5

\* enable_head, visited and all.
LEMMA EnablingKeeps ==
  ASSUME PolicySound, ConnectorsInv,
         NEW about, NEW s, Good(s, about, {}, {}),
         NEW h \in Present, Simple(h), h \in connected, s.on[h] = None,
         NEW t \in HeadEnabled(s, h)
  PROVE  LET u == [t EXCEPT !.changed = @ \ {h}]
         IN Good(u, about, {}, {}) /\ Followed(s, u)
<1> DEFINE u == [t EXCEPT !.changed = @ \ {h}]
<1>1. /\ Flagged(s) /\ s.on \in [HeadName -> OutputName \cup {None}]
      /\ h \in HeadName /\ h \in OutputName /\ h # None /\ h \notin DOMAIN s.outputs
  BY PresentAreHeads, OwnNameIsFree, NamesAssumption DEF Good, Attached, OutputName
<1>2. CASE t = Refusal(s, h)
  <2>1. /\ Flagged(t) /\ t.refused = s.refused \cup {h}
        /\ t.outputs = s.outputs /\ t.order = s.order /\ t.on = s.on
        /\ t.known = s.known /\ t.changed = s.changed
    BY <1>1, <1>2, RefusalIs
  <2>2. /\ Flagged(u) /\ u.refused = s.refused \cup {h}
        /\ u.outputs = s.outputs /\ u.order = s.order /\ u.on = s.on
        /\ u.known = s.known /\ u.changed = s.changed \ {h}
    BY <2>1 DEF Flagged, Fields
  <2> HIDE DEF u
  <2>3. Served(u, h, {})
    BY <2>2 DEF Served, ExcusedIn
  <2>4. \A g \in (Present \ u.changed) \cap s.changed :
          IF g \in connected THEN Served(u, g, {}) \/ g \in about
          ELSE s.on[g] # None => ~Simple(g) /\ DrmForceOn(policy, g)
    BY <2>2, <2>3
  <2>5. \A g \in s.known \cup {} : g \in u.known \cup {}
    BY <2>2
  <2>6. \A g \in s.refused : g \in u.refused \/ s.on[g] # None
    BY <2>2
  <2>7. Good(u, about, {}, {})
    BY <2>2, <2>4, <2>5, <2>6, Retouched
  <2> QED BY <2>2, <2>7 DEF Followed, u
<1>3. CASE t # Refusal(s, h)
  <2> DEFINE e(setup) == Emitting(s, h, Configured(s, h, setup, None))
  <2>1. t \in {[r EXCEPT !.known = @ \cup {h}, !.refused = @ \ {h}] :
                 r \in Announced({e(setup) : setup \in HeadSetupFor(h)}, h)}
    BY <1>3 DEF HeadEnabled
  <2> HIDE DEF e
  <2>2. PICK r \in Announced({e(setup) : setup \in HeadSetupFor(h)}, h) :
          t = [r EXCEPT !.known = @ \cup {h}, !.refused = @ \ {h}]
    BY <2>1
  <2>3. PICK setup \in HeadSetupFor(h) : r \in MirrorOnOutputCreated(e(setup), h)
    BY <2>2 DEF Announced
  <2> DEFINE c == Configured(s, h, setup, None)
             f == e(setup)
  <2>4. Raised(s, f, h, {h}, c) /\ f.known = s.known
    BY <1>1, EmittingIs DEF e
  <2>5. c.mirrorOf = None /\ DOMAIN c = OutputFields
    BY ConfiguredIs
  <2> HIDE DEF c, f
  <2>6. Good(f, about, {} \cup {h}, {} \cup {h})
    BY <1>1, <2>4, <2>5, RaisedIsGood
  <2>7. h \in DOMAIN f.outputs /\ f.on[h] = h /\ f.changed = s.changed
        /\ \A g \in HeadName \ {h} : f.on[g] = s.on[g]
    BY <1>1, <2>4 DEF Raised, Raise
  <2>8. Good(r, about, {h}, {}) /\ Followed(f, r)
    BY <2>3, <2>6, <2>7, AnnouncementKeeps DEF f
  <2>9. /\ DOMAIN u = Fields /\ u.known = r.known \cup {h} /\ u.refused = r.refused \ {h}
        /\ u.changed = r.changed \ {h} /\ u.failed = r.failed
        /\ u.outputs = r.outputs /\ u.order = r.order /\ u.on = r.on
    BY <2>2, <2>8 DEF Good, Flagged, Fields
  <2> HIDE DEF u
  <2>10. Flagged(u)
    BY <2>8, <2>9 DEF Good, Flagged
  <2>11. u.on[h] = h /\ r.on[h] = h
    BY <1>1, <2>7, <2>8, <2>9 DEF Followed
  <2>12. Served(u, h, {})
    BY <1>1, <2>11 DEF Served
  <2>13. \A g \in (Present \ u.changed) \cap r.changed :
           IF g \in connected THEN Served(u, g, {}) \/ g \in about
           ELSE r.on[g] # None => ~Simple(g) /\ DrmForceOn(policy, g)
    BY <2>9, <2>12
  <2>14. \A g \in r.known \cup {h} : g \in u.known \cup {}
    BY <2>9
  <2>15. \A g \in r.refused : g \in u.refused \/ r.on[g] # None
    BY <1>1, <2>9, <2>11
  <2>16. Good(u, about, {}, {})
    BY <2>8, <2>9, <2>10, <2>13, <2>14, <2>15, Retouched
  <2>17. Followed(s, u)
    <3>1. u.changed \subseteq s.changed /\ s.known \subseteq u.known
      BY <2>4, <2>7, <2>8, <2>9 DEF Followed
    <3>2. ASSUME NEW g \in HeadName, s.on[g] # None PROVE u.on[g] = s.on[g]
      BY <2>7, <2>8, <2>9, <3>2 DEF Followed
    <3>3. ASSUME NEW g \in HeadName, s.on[g] = None, u.on[g] # None
          PROVE  g \notin u.changed
      BY <2>7, <2>8, <2>9, <3>3 DEF Followed
    <3>4. ASSUME NEW g \in HeadName, ~Simple(g) PROVE u.on[g] = s.on[g]
      BY <2>7, <2>8, <2>9, <3>4 DEF Followed
    <3> QED BY <3>1, <3>2, <3>3, <3>4 DEF Followed
  <2> QED BY <2>16, <2>17 DEF u
<1> QED BY <1>2, <1>3

-------------------------------------------------------------------------------
LEMMA RemovedAt ==
  ASSUME NEW S, NEW s \in Seq(S), NEW i \in 1 .. Len(s)
  PROVE  LET r == RemoveAt(s, i)
         IN /\ r \in Seq(S) /\ Len(r) = Len(s) - 1
            /\ \A j \in 1 .. Len(s) - 1 : r[j] = IF j < i THEN s[j] ELSE s[j + 1]
<1> DEFINE a == SubSeq(s, 1, i - 1)
           b == SubSeq(s, i + 1, Len(s))
           n == Len(s)
<1>1. n \in Nat /\ i \in 1 .. n
  OBVIOUS
<1>2. a \in Seq(S) /\ Len(a) = i - 1 /\ \A j \in 1 .. i - 1 : a[j] = s[j]
  OBVIOUS
<1>3. b \in Seq(S) /\ Len(b) = n - i /\ \A j \in 1 .. n - i : b[j] = s[i + j]
  OBVIOUS
<1> HIDE DEF a, b, n
<1>4. /\ a \o b \in Seq(S) /\ Len(a \o b) = n - 1
      /\ \A j \in 1 .. i - 1 : (a \o b)[j] = a[j]
      /\ \A j \in 1 .. n - i : (a \o b)[i - 1 + j] = b[j]
  <2>1. a \in Seq(S) /\ b \in Seq(S)
    BY <1>2, <1>3
  <2>2. a \o b \in Seq(S) /\ Len(a \o b) = Len(a) + Len(b)
    BY ONLY <2>1, Concatenated
  <2>3. \A j \in 1 .. Len(a) : (a \o b)[j] = a[j]
    BY ONLY <2>1, Concatenated
  <2>4. \A j \in 1 .. Len(b) : (a \o b)[Len(a) + j] = b[j]
    BY ONLY <2>1, Concatenated
  <2>5. (i - 1) + (n - i) = n - 1
    BY <1>1
  <2> DEFINE c == a \o b
  <2> HIDE DEF c
  <2>6. /\ c \in Seq(S) /\ Len(c) = n - 1
        /\ \A j \in 1 .. i - 1 : c[j] = a[j]
        /\ \A j \in 1 .. n - i : c[i - 1 + j] = b[j]
    BY <1>2, <1>3, <2>1, <2>2, <2>3, <2>4, <2>5 DEF c
  <2> QED BY <2>6 DEF c
<1>5. ASSUME NEW j \in 1 .. n - 1
      PROVE  (a \o b)[j] = IF j < i THEN s[j] ELSE s[j + 1]
  <2>1. CASE j < i
    BY <1>1, <1>2, <1>4, <2>1
  <2>2. CASE ~(j < i)
    <3> DEFINE k == j - (i - 1)
    <3>1. k \in 1 .. n - i /\ i - 1 + k = j /\ i + k = j + 1
      BY <1>1, <2>2
    <3> HIDE DEF k
    <3> QED BY <1>3, <1>4, <2>2, <3>1
  <2> QED BY <2>1, <2>2
<1> QED BY <1>4, <1>5 DEF RemoveAt, a, b, n

LEMMA OrderShrinks ==
  ASSUME NEW s, Listed(s), NEW o \in DOMAIN s.outputs, NEW t,
         t.order = RemoveAt(s.order, CHOOSE i \in DOMAIN s.order : s.order[i] = o),
         DOMAIN t.outputs = DOMAIN s.outputs \ {o}
  PROVE  Listed(t)
<1> DEFINE n == Len(s.order)
           spot == CHOOSE i \in DOMAIN s.order : s.order[i] = o
<1>1. /\ s.order \in Seq(OutputName) /\ n \in Nat /\ DOMAIN s.order = 1 .. n
      /\ DOMAIN s.outputs = {s.order[i] : i \in 1 .. n}
      /\ \A i \in 1 .. n : \A j \in 1 .. n : s.order[i] = s.order[j] => i = j
  BY DEF Listed, ToSet
<1>2. spot \in 1 .. n /\ s.order[spot] = o
  <2>1. \E i \in DOMAIN s.order : s.order[i] = o
    BY <1>1
  <2> QED BY <1>1, <2>1
<1>3. t.order = RemoveAt(s.order, spot)
  OBVIOUS
<1> HIDE DEF spot
<1>4. /\ t.order \in Seq(OutputName) /\ Len(t.order) = n - 1
      /\ \A j \in 1 .. n - 1 : t.order[j] = IF j < spot THEN s.order[j] ELSE s.order[j + 1]
  <2> DEFINE list == s.order
             r == RemoveAt(list, spot)
  <2>1. list \in Seq(OutputName) /\ spot \in 1 .. Len(list)
    BY <1>1, <1>2
  <2> HIDE DEF list
  <2>2. /\ r \in Seq(OutputName) /\ Len(r) = Len(list) - 1
        /\ \A j \in 1 .. Len(list) - 1 : r[j] = IF j < spot THEN list[j] ELSE list[j + 1]
    BY <2>1, RemovedAt
  <2> HIDE DEF r
  <2>3. t.order = r /\ list = s.order /\ Len(list) = n
    BY <1>3 DEF r, list
  <2> QED BY <2>2, <2>3
<1> HIDE DEF n
<1>5. DOMAIN t.order = 1 .. n - 1
  BY <1>4
<1>6. \A j \in 1 .. n - 1 : j \in 1 .. n /\ j + 1 \in 1 .. n
  BY <1>1
<1>7. ToSet(t.order) \subseteq DOMAIN s.outputs \ {o}
  <2> SUFFICES ASSUME NEW j \in 1 .. n - 1 PROVE t.order[j] \in DOMAIN s.outputs \ {o}
    BY <1>5 DEF ToSet
  <2>1. CASE j < spot
    <3>1. t.order[j] = s.order[j] /\ j # spot
      BY <1>2, <1>4, <2>1
    <3> QED BY <1>1, <1>2, <1>6, <3>1
  <2>2. CASE ~(j < spot)
    <3>1. t.order[j] = s.order[j + 1] /\ j + 1 # spot
      BY <1>1, <1>2, <1>4, <2>2
    <3> QED BY <1>1, <1>2, <1>6, <3>1
  <2> QED BY <2>1, <2>2
<1>8. DOMAIN s.outputs \ {o} \subseteq ToSet(t.order)
  <2> SUFFICES ASSUME NEW i \in 1 .. n, s.order[i] # o PROVE s.order[i] \in ToSet(t.order)
    BY <1>1
  <2>1. CASE i < spot
    <3>1. i \in 1 .. n - 1 /\ t.order[i] = s.order[i]
      BY <1>1, <1>2, <1>4, <2>1
    <3> QED BY <1>5, <3>1 DEF ToSet
  <2>2. CASE i > spot
    <3>1. i - 1 \in 1 .. n - 1 /\ ~(i - 1 < spot) /\ (i - 1) + 1 = i
      BY <1>1, <1>2, <2>2
    <3>2. t.order[i - 1] = s.order[i]
      BY <1>4, <3>1
    <3> QED BY <1>5, <3>1, <3>2 DEF ToSet
  <2>3. i # spot
    BY <1>2
  <2> QED BY <1>1, <1>2, <2>1, <2>2, <2>3
<1>9. ASSUME NEW i \in 1 .. n - 1, NEW j \in 1 .. n - 1, t.order[i] = t.order[j] PROVE i = j
  <2> DEFINE place(k) == IF k < spot THEN k ELSE k + 1
  <2>1. /\ place(i) \in 1 .. n /\ t.order[i] = s.order[place(i)]
        /\ place(j) \in 1 .. n /\ t.order[j] = s.order[place(j)]
    BY <1>4, <1>6
  <2>2. place(i) = place(j)
    <3> HIDE DEF place
    <3> QED BY <1>1, <1>9, <2>1
  <2> QED BY <1>1, <1>2, <2>2
<1> QED BY <1>4, <1>5, <1>7, <1>8, <1>9 DEF Listed

\* A head comes off its output, which goes with its last head.
OutputsLowered(s, o) ==
  [p \in DOMAIN s.outputs \ {o} |->
     IF s.outputs[p].mirrorOf = o
     THEN [s.outputs[p] EXCEPT !.mirrorOf = Dangling] ELSE s.outputs[p]]
Lowered(s, t, d) ==
  /\ DOMAIN t = Fields
  /\ t.on = [h \in HeadName |-> IF h = d THEN None ELSE s.on[h]]
  /\ t.known = s.known /\ t.refused = s.refused /\ t.failed = s.failed
  /\ t.changed = s.changed \ {d}
  /\ \/ /\ \E h \in HeadName \ {d} : s.on[h] = s.on[d]
        /\ t.outputs = s.outputs /\ t.order = s.order
     \/ /\ \A h \in HeadName \ {d} : s.on[h] # s.on[d]
        /\ t.outputs = OutputsLowered(s, s.on[d])
        /\ t.order = RemoveAt(s.order, CHOOSE i \in DOMAIN s.order : s.order[i] = s.on[d])

LEMMA LoweredIsGood ==
  ASSUME ConnectorsInv, NEW about, NEW s, Good(s, about, {}, {}),
         NEW d \in Present, d \notin connected, s.on[d] # None, NEW t, Lowered(s, t, d)
  PROVE  Good(t, about, {}, {})
<1> DEFINE o == s.on[d]
           gone == \A h \in HeadName \ {d} : s.on[h] # o
<1>1. d \in HeadName /\ o \in DOMAIN s.outputs
  BY PresentAreHeads DEF Good, Attached
<1>2. /\ t.on = [h \in HeadName |-> IF h = d THEN None ELSE s.on[h]]
      /\ t.known = s.known /\ t.refused = s.refused /\ t.failed = s.failed
      /\ t.changed = s.changed \ {d} /\ DOMAIN t = Fields
      /\ ~gone => t.outputs = s.outputs /\ t.order = s.order
      /\ gone => /\ t.outputs = OutputsLowered(s, o)
                 /\ t.order = RemoveAt(s.order, CHOOSE i \in DOMAIN s.order : s.order[i] = o)
  BY DEF Lowered
<1>3. /\ gone => DOMAIN t.outputs = DOMAIN s.outputs \ {o}
      /\ ~gone => DOMAIN t.outputs = DOMAIN s.outputs
      /\ DOMAIN t.outputs \subseteq DOMAIN s.outputs
  BY <1>2 DEF OutputsLowered
<1>4. ASSUME NEW p \in DOMAIN t.outputs
      PROVE  /\ \A key \in OutputFields \ {"mirrorOf"} : t.outputs[p][key] = s.outputs[p][key]
             /\ DOMAIN t.outputs[p] = OutputFields
             /\ \/ t.outputs[p].mirrorOf = s.outputs[p].mirrorOf
                \/ t.outputs[p].mirrorOf = Dangling /\ s.outputs[p].mirrorOf = o
             /\ gone => t.outputs[p].mirrorOf # o
  <2>1. p \in DOMAIN s.outputs /\ DOMAIN s.outputs[p] = OutputFields
    BY <1>3 DEF Good, Mirroring
  <2>2. CASE gone /\ s.outputs[p].mirrorOf = o
    <3>1. t.outputs[p] = [s.outputs[p] EXCEPT !.mirrorOf = Dangling]
      BY <1>2, <1>3, <2>1, <2>2 DEF OutputsLowered
    <3>2. o # Dangling
      BY <1>1, NamesAssumption DEF Good, Listed, OutputName
    <3> HIDE DEF gone, o
    <3> QED BY <2>1, <2>2, <3>1, <3>2 DEF OutputFields
  <2>3. CASE ~(gone /\ s.outputs[p].mirrorOf = o)
    <3> HIDE DEF gone, o
    <3>1. CASE gone
      <4>1. t.outputs = OutputsLowered(s, o) /\ s.outputs[p].mirrorOf # o
        BY <1>2, <2>3, <3>1
      <4>2. t.outputs[p] = s.outputs[p]
        BY <1>3, <2>1, <3>1, <4>1 DEF OutputsLowered
      <4> QED BY <2>1, <4>1, <4>2
    <3>2. CASE ~gone
      BY <1>2, <2>1, <3>2
    <3> QED BY <3>1, <3>2
  <2> QED BY <2>2, <2>3
<1>5. Flagged(t)
  BY <1>2 DEF Good, Flagged
<1>6. Attached(t, {})
  <2>1. t.on \in [HeadName -> OutputName \cup {None}]
    BY <1>2 DEF Good, Attached
  <2>2. ASSUME NEW h \in HeadName, t.on[h] # None
        PROVE  /\ h \in Present /\ h \in t.known \cup {}
               /\ t.on[h] \in DOMAIN t.outputs
               /\ Simple(h) => t.on[h] = h
               /\ ~Simple(h) => t.on[h] \in Group
    <3>1. h # d /\ t.on[h] = s.on[h]
      BY <1>2, <2>2
    <3>2. gone => s.on[h] # o
      BY <3>1
    <3> HIDE DEF gone, o
    <3> QED BY <1>2, <1>3, <2>2, <3>1, <3>2 DEF Good, Attached
  <2>3. ASSUME NEW p \in DOMAIN t.outputs PROVE \E h \in HeadName : t.on[h] = p
    <3>1. p \in DOMAIN s.outputs /\ (gone => p # o)
      BY <1>3
    <3>2. PICK h \in HeadName : s.on[h] = p
      BY <3>1 DEF Good, Attached
    <3>3. CASE h # d
      BY <1>2, <3>2, <3>3
    <3>4. CASE h = d
      <4>1. ~gone
        BY <3>1, <3>2, <3>4
      <4>2. PICK g \in HeadName \ {d} : s.on[g] = o
        BY <4>1
      <4> QED BY <1>2, <3>2, <3>4, <4>2
    <3> QED BY <3>3, <3>4
  <2> QED BY <2>1, <2>2, <2>3 DEF Attached
<1>7. Listed(t)
  <2>1. CASE gone
    <3> HIDE DEF o, gone
    <3> QED BY <1>1, <1>2, <1>3, <2>1, OrderShrinks DEF Good
  <2>2. CASE ~gone
    BY <1>2, <2>2 DEF Good, Listed
  <2> QED BY <2>1, <2>2
<1> HIDE DEF gone, o
<1>8. Mirroring(t)
  <2> SUFFICES ASSUME NEW p \in DOMAIN t.outputs
               PROVE  /\ DOMAIN t.outputs[p] = OutputFields
                      /\ t.outputs[p].mirrorOf # None => t.outputs[p].kind = "vnc"
                      /\ t.outputs[p].mirrorOf \notin {None, Dangling}
                           => OnSource(t, p, t.outputs[p].mirrorOf)
    BY DEF Mirroring
  <2>1. p \in DOMAIN s.outputs /\ o # None
    BY <1>1, <1>3, NamesAssumption DEF Good, Listed, OutputName
  <2>2. /\ s.outputs[p].mirrorOf # None => s.outputs[p].kind = "vnc"
        /\ s.outputs[p].mirrorOf \notin {None, Dangling}
             => OnSource(s, p, s.outputs[p].mirrorOf)
    BY <2>1 DEF Good, Mirroring
  <2>3. t.outputs[p].mirrorOf # None => t.outputs[p].kind = "vnc"
    BY <1>4, <2>1, <2>2 DEF OutputFields
  <2>4. ASSUME t.outputs[p].mirrorOf \notin {None, Dangling}
        PROVE  OnSource(t, p, t.outputs[p].mirrorOf)
    <3> DEFINE src == s.outputs[p].mirrorOf
    <3>1. t.outputs[p].mirrorOf = src /\ (gone => src # o)
      BY <1>4, <2>4
    <3>2. OnSource(s, p, src)
      BY <2>2, <2>4, <3>1
    <3> HIDE DEF src
    <3>3. src \in DOMAIN t.outputs
      BY <1>3, <3>1, <3>2 DEF OnSource
    <3>4. /\ t.outputs[src].kind = s.outputs[src].kind
          /\ t.outputs[src].x = s.outputs[src].x
          /\ t.outputs[src].size = s.outputs[src].size
          /\ t.outputs[src].scale = s.outputs[src].scale
      BY <1>4, <3>3 DEF OutputFields
    <3>5. /\ t.outputs[p].x = s.outputs[p].x
          /\ t.outputs[p].size = s.outputs[p].size
          /\ t.outputs[p].scale = s.outputs[p].scale
          /\ t.outputs[p].asked = s.outputs[p].asked
          /\ t.outputs[p].resizeable = s.outputs[p].resizeable
      BY <1>4 DEF OutputFields
    <3>6. OnSource(t, p, src)
      BY <3>2, <3>3, <3>4, <3>5 DEF OnSource
    <3> QED BY <3>1, <3>6
  <2> QED BY <1>4, <2>3, <2>4
<1>9. ASSUME NEW h \in Present, h # d, Served(s, h, {}) PROVE Served(t, h, {})
  <2>1. t.on[h] = s.on[h] /\ t.refused = s.refused
    BY <1>2, <1>9, PresentAreHeads
  <2>2. WaitsIn(s, h, {}) => WaitsIn(t, h, {})
    BY <1>3, <1>4 DEF WaitsIn, OutputFields
  <2> QED BY <1>9, <2>1, <2>2 DEF Served, ExcusedIn
<1>10. Settled(t, about, {})
  <2> SUFFICES ASSUME NEW h \in Present \ t.changed
               PROVE  IF h \in connected THEN Served(t, h, {}) \/ h \in about
                      ELSE t.on[h] # None => ~Simple(h) /\ DrmForceOn(policy, h)
    BY DEF Settled
  <2>1. CASE h = d
    BY <1>1, <1>2, <2>1
  <2>2. CASE h # d
    <3>1. h \in Present \ s.changed /\ t.on[h] = s.on[h]
      BY <1>2, <2>2, PresentAreHeads
    <3>2. IF h \in connected THEN Served(s, h, {}) \/ h \in about
          ELSE s.on[h] # None => ~Simple(h) /\ DrmForceOn(policy, h)
      BY <3>1 DEF Good, Settled
    <3> QED BY <1>9, <2>2, <3>1, <3>2
  <2> QED BY <2>1, <2>2
<1>11. Due(t, {})
  <2> SUFFICES ASSUME NEW h \in Present, Deferred(h) PROVE Served(t, h, {})
    BY DEF Due
  <2>1. h # d
    BY DEF ConnectorsInv, Deferred
  <2> QED BY <1>9, <2>1 DEF Good, Due
<1> QED BY <1>5, <1>6, <1>7, <1>8, <1>10, <1>11 DEF Good

-------------------------------------------------------------------------------
(***************************************************************************)
(* Groups.                                                                 *)
(***************************************************************************)
\* Heads that are served need no longer be about to be.
LEMMA NoLongerAbout ==
  ASSUME NEW about, NEW new, NEW fresh, NEW s, Good(s, about, new, fresh),
         NEW gone, \A h \in gone : Served(s, h, fresh),
         NEW later, about \subseteq later \cup gone
  PROVE  Good(s, later, new, fresh)
BY DEF Good, Settled

\* Heads that join an output that is up already.
LEMMA JoinedIsGood ==
  ASSUME ConnectorsInv, NEW about, NEW s, Good(s, about, {}, {}),
         NEW o \in DOMAIN s.outputs, o \in Group, NEW heads \in SUBSET Present,
         \A h \in heads : s.on[h] = None /\ ~Simple(h),
         \A h \in heads : h \notin connected => DrmForceOn(policy, h),
         NEW t, Flagged(t), t.outputs = s.outputs, t.order = s.order,
         t.on = [h \in HeadName |-> IF h \in heads THEN o ELSE s.on[h]],
         t.known = s.known \cup heads, t.changed = s.changed,
         t.refused = s.refused \ heads
  PROVE  Good(t, about, {}, {})
<1>1. o # None /\ o \in OutputName /\ heads \subseteq HeadName
  BY PresentAreHeads, NamesAssumption DEF OutputName
<1>2. \A h \in HeadName : s.on[h] # None => t.on[h] = s.on[h]
  OBVIOUS
<1>3. Attached(t, {})
  <2>1. t.on \in [HeadName -> OutputName \cup {None}]
    BY <1>1 DEF Good, Attached
  <2>2. ASSUME NEW h \in HeadName, t.on[h] # None
        PROVE  /\ h \in Present /\ h \in t.known \cup {}
               /\ t.on[h] \in DOMAIN t.outputs
               /\ Simple(h) => t.on[h] = h
               /\ ~Simple(h) => t.on[h] \in Group
    BY <1>1, <2>2 DEF Good, Attached
  <2>3. ASSUME NEW p \in DOMAIN t.outputs PROVE \E h \in HeadName : t.on[h] = p
    <3>1. PICK h \in HeadName : s.on[h] = p
      BY DEF Good, Attached
    <3>2. p # None
      BY NamesAssumption DEF Good, Listed, OutputName
    <3> QED BY <1>2, <3>1, <3>2
  <2> QED BY <2>1, <2>2, <2>3 DEF Attached
<1>4. Listed(t)
  BY DEF Good, Listed
<1>5. Mirroring(t)
  <2>1. \A p \in DOMAIN s.outputs : \A src : OnSource(s, p, src) => OnSource(t, p, src)
    BY DEF OnSource
  <2> QED BY <2>1 DEF Good, Mirroring
<1>6. ASSUME NEW h \in Present, Served(s, h, {}) PROVE Served(t, h, {})
  <2>1. CASE h \in heads
    BY <1>1, <2>1 DEF Served
  <2>2. CASE h \notin heads
    <3>1. h \in HeadName /\ t.on[h] = s.on[h] /\ (h \in s.refused => h \in t.refused)
      BY <2>2, PresentAreHeads
    <3>2. WaitsIn(s, h, {}) => WaitsIn(t, h, {})
      BY DEF WaitsIn
    <3> QED BY <1>6, <3>1, <3>2 DEF Served, ExcusedIn
  <2> QED BY <2>1, <2>2
<1>7. Settled(t, about, {})
  <2> SUFFICES ASSUME NEW h \in Present \ t.changed
               PROVE  IF h \in connected THEN Served(t, h, {}) \/ h \in about
                      ELSE t.on[h] # None => ~Simple(h) /\ DrmForceOn(policy, h)
    BY DEF Settled
  <2>1. IF h \in connected THEN Served(s, h, {}) \/ h \in about
        ELSE s.on[h] # None => ~Simple(h) /\ DrmForceOn(policy, h)
    BY DEF Good, Settled
  <2>2. CASE h \in connected
    BY <1>6, <2>1, <2>2
  <2>3. CASE h \notin connected
    BY <2>1, <2>3, PresentAreHeads
  <2> QED BY <2>2, <2>3
<1>8. Due(t, {})
  BY <1>6 DEF Good, Due
<1> QED BY <1>3, <1>4, <1>5, <1>7, <1>8 DEF Good

\* What process_all is given.
StagedOn(s, g) ==
  \A h \in staged[g] :
    /\ h \in Present /\ ~Simple(h) /\ s.on[h] = None /\ DrmWanted(h)
    /\ \E p \in DrmPlan(h) : p.output = g

LEMMA GroupComesUp ==
  ASSUME PolicySound, ConnectorsInv, NEW g \in OutputName, staged[g] # {},
         NEW about, NEW s, Good(s, about, {}, {}), StagedOn(s, g),
         NEW later, about \subseteq later \cup staged[g],
         NEW t \in GroupUp(s, g)
  PROVE  /\ Good(t, later, {}, {})
         /\ t.changed \subseteq s.changed
         /\ \A h \in HeadName \ staged[g] : ~Simple(h) => t.on[h] = s.on[h]
<1> DEFINE setup == (CHOOSE p \in DrmPlan(CHOOSE h \in staged[g] : TRUE) : TRUE).setup
           output == ApplyColor([kind |-> "drm", size |-> NativeSize, scale |-> setup.scale,
                            asked |-> setup.scale, x |-> LazyAlign(s), mirrorOf |-> None,
                            resizeable |-> FALSE, hdcp |-> FALSE], setup.hdcp)
           heads(u) == [u EXCEPT !.known = @ \cup staged[g], !.refused = @ \ staged[g],
                            !.on = [h \in HeadName |-> IF h \in staged[g] THEN g ELSE u.on[h]]]
           up == [s EXCEPT !.outputs = Raise(@, g, output), !.order = Append(@, g)]
<1>1. /\ staged[g] \subseteq Present /\ staged[g] \subseteq HeadName
      /\ \A h \in staged[g] : s.on[h] = None /\ ~Simple(h)
      /\ \A h \in staged[g] : h \notin connected => DrmForceOn(policy, h)
  BY PresentAreHeads DEF StagedOn, DrmWanted
<1>2. g \in Group /\ g # None
  BY <1>1, GroupsAreNamed, NamesAssumption DEF StagedOn
<1>3. Flagged(s)
  BY DEF Good
<1>4. t \in IF g \in DOMAIN s.outputs THEN {heads(s)} ELSE Announced({heads(up)}, g)
  BY Zenon DEF GroupUp
<1>5. CASE g \in DOMAIN s.outputs
  <2>1. t = heads(s)
    BY <1>4, <1>5
  <2>2. /\ DOMAIN t = Fields /\ t.outputs = s.outputs /\ t.order = s.order
        /\ t.on = [h \in HeadName |-> IF h \in staged[g] THEN g ELSE s.on[h]]
        /\ t.known = s.known \cup staged[g] /\ t.changed = s.changed
        /\ t.refused = s.refused \ staged[g] /\ t.failed = s.failed
    BY <1>3, <2>1 DEF Flagged, Fields
  <2>3. Flagged(t)
    BY <1>1, <1>3, <2>2 DEF Flagged
  <2>4. Good(t, about, {}, {})
    BY <1>1, <1>2, <1>5, <2>2, <2>3, JoinedIsGood
  <2>5. \A h \in staged[g] : Served(t, h, {})
    BY <1>1, <1>2, <2>2 DEF Served
  <2>6. Good(t, later, {}, {})
    BY <2>4, <2>5, NoLongerAbout
  <2> QED BY <2>2, <2>6
<1>6. CASE g \notin DOMAIN s.outputs
  <2> DEFINE f == heads(up)
  <2>1. t \in MirrorOnOutputCreated(f, g)
    BY <1>4, <1>6 DEF Announced
  <2>2. output.mirrorOf = None /\ DOMAIN output = OutputFields
    BY DEF ApplyColor, OutputFields
  <2> HIDE DEF output
  <2>3. /\ DOMAIN f = Fields /\ f.outputs = Raise(s.outputs, g, output)
        /\ f.order = Append(s.order, g)
        /\ f.on = [h \in HeadName |-> IF h \in staged[g] THEN g ELSE s.on[h]]
        /\ f.known = s.known \cup staged[g] /\ f.changed = s.changed
        /\ f.refused = s.refused \ staged[g] /\ f.failed = s.failed
    BY <1>3 DEF Flagged, Fields
  <2> HIDE DEF f
  <2>4. Flagged(f)
    BY <1>1, <1>3, <2>3 DEF Flagged
  <2>5. Raised(s, f, g, staged[g], output)
    BY <2>3, <2>4 DEF Raised
  <2>6. Good(f, about, {} \cup staged[g], {} \cup {g})
    BY <1>1, <1>2, <1>6, <2>2, <2>5, RaisedIsGood
  <2>7. Good(f, about, {}, {g})
    <3>1. \A h \in f.known \cup ({} \cup staged[g]) : h \in f.known \cup {}
      BY <2>3
    <3>2. Good(f, about, {}, {} \cup {g})
      BY <2>4, <2>6, <3>1, Retouched
    <3> QED BY <3>2
  <2>8. g \in DOMAIN f.outputs
    BY <2>3 DEF Raise
  <2>9. Good(t, about, {}, {}) /\ Followed(f, t)
    BY <2>1, <2>7, <2>8, AnnouncementKeeps
  <2>10. \A h \in staged[g] : Served(t, h, {})
    BY <1>1, <1>2, <2>3, <2>9 DEF Served, Followed
  <2>11. Good(t, later, {}, {})
    BY <2>9, <2>10, NoLongerAbout
  <2>12. \A h \in HeadName \ staged[g] : ~Simple(h) => t.on[h] = s.on[h]
    BY <2>3, <2>9 DEF Followed
  <2> QED BY <2>3, <2>9, <2>11, <2>12 DEF Followed
<1> QED BY <1>5, <1>6

\* libweston refuses a group.
LEMMA GroupIsRefused ==
  ASSUME ConnectorsInv, NEW g, NEW about, NEW s, Good(s, about, {}, {}), StagedOn(s, g),
         NEW later, about \subseteq later \cup staged[g],
         NEW t, DOMAIN t = Fields, t.outputs = s.outputs, t.order = s.order, t.on = s.on,
         t.known = s.known, t.changed = s.changed,
         t.refused = s.refused \cup staged[g], t.failed \in BOOLEAN
  PROVE  Good(t, later, {}, {})
<1>1. Flagged(s) /\ staged[g] \subseteq Present
  BY DEF Good, StagedOn
<1>2. Flagged(t)
  BY <1>1 DEF Flagged
<1>3. \A h \in s.known \cup {} : h \in t.known \cup {}
  OBVIOUS
<1>4. \A h \in s.refused : h \in t.refused \/ s.on[h] # None
  OBVIOUS
<1>5. Good(t, about, {}, {})
  BY <1>2, <1>3, <1>4, Retouched
<1>6. \A h \in staged[g] : Served(t, h, {})
  BY DEF Served, ExcusedIn
<1> QED BY <1>5, <1>6, NoLongerAbout

-------------------------------------------------------------------------------
(***************************************************************************)
(* The steps of a flush.                                                   *)
(***************************************************************************)
SameHeads == UNCHANGED <<policy, headList, connected>>

LEMMA SameDecisions ==
  ASSUME SameHeads
  PROVE  /\ Present' = Present /\ connected' = connected /\ policy' = policy
         /\ \A h : Deferred(h)' <=> Deferred(h)
         /\ \A h : DrmPlan(h)' = DrmPlan(h)
         /\ \A h : DrmWanted(h)' <=> DrmWanted(h)
         /\ \A o : MirrorOf(o)' = MirrorOf(o)
BY DEF SameHeads, Present, Deferred, DrmPlan, DrmWanted, MirrorOf

LEMMA Became ==
  ASSUME SameHeads, NEW s, Become(s), NEW about, Good(s, about, {}, {}),
         about \subseteq StagedHeads'
  PROVE  Good(State, StagedHeads, {}, {})'
<1>1. /\ outputs' = s.outputs /\ order' = s.order /\ on' = s.on /\ known' = s.known
      /\ changed' = s.changed /\ initFailed' = s.failed /\ refused' = s.refused
  BY DEF Become
<1>2. Flagged(State)'
  BY <1>1, SameDecisions DEF Good, Flagged, State, Fields
<1>3. Attached(State, {})'
  BY <1>1, SameDecisions DEF Good, Attached, State, OutputName, Simple
<1>4. Listed(State)'
  BY <1>1 DEF Good, Listed, State, OutputName
<1>5. Mirroring(State)'
  <2>1. Mirroring(s)
    BY DEF Good
  <2>2. \A o \in DOMAIN s.outputs : \A src : OnSource(s, o, src) => OnSource(State, o, src)'
    BY <1>1, SameDecisions DEF OnSource, State
  <2> QED BY <1>1, <2>1, <2>2 DEF Mirroring, State
<1>6. Settled(State, StagedHeads, {})'
  BY <1>1, SameDecisions DEF Good, Settled, Served, ExcusedIn, WaitsIn, State
<1>7. Due(State, {})'
  BY <1>1, SameDecisions DEF Good, Due, Served, ExcusedIn, WaitsIn, State
<1> QED BY <1>2, <1>3, <1>4, <1>5, <1>6, <1>7 DEF Good

LEMMA SamePolicy ==
  ASSUME SameHeads, PolicySound, ConnectorsInv
  PROVE  PolicySound' /\ ConnectorsInv'
BY SameDecisions DEF SameHeads, PolicySound, ConnectorsInv

LEMMA TailIs ==
  ASSUME NEW S, NEW list \in Seq(S), list # <<>>
  PROVE  /\ Tail(list) \in Seq(S)
         /\ ToSet(list) = {list[1]} \cup ToSet(Tail(list))
<1> DEFINE n == Len(list)
           rest == Tail(list)
<1>1. /\ rest \in Seq(S) /\ Len(rest) = n - 1 /\ n \in Nat /\ n >= 1
      /\ \A i \in 1 .. n - 1 : rest[i] = list[i + 1]
  OBVIOUS
<1>2. DOMAIN rest = 1 .. n - 1 /\ DOMAIN list = 1 .. n
  BY <1>1
<1> HIDE DEF rest, n
<1>3. \A i \in 1 .. n : i = 1 \/ (i - 1 \in 1 .. n - 1 /\ (i - 1) + 1 = i)
  BY <1>1
<1>4. \A i \in 1 .. n - 1 : i + 1 \in 1 .. n
  BY <1>1
<1>5. 1 \in 1 .. n
  BY <1>1
<1>6. ToSet(list) \subseteq {list[1]} \cup ToSet(rest)
  <2>1. ASSUME NEW i \in 1 .. n PROVE list[i] \in {list[1]} \cup ToSet(rest)
    <3>1. CASE i = 1
      BY <3>1
    <3>2. CASE i # 1
      <4>1. i - 1 \in DOMAIN rest /\ rest[i - 1] = list[i]
        BY <1>1, <1>2, <1>3, <3>2
      <4> QED BY <4>1 DEF ToSet
    <3> QED BY <3>1, <3>2
  <2> QED BY <1>2, <2>1 DEF ToSet
<1>7. {list[1]} \cup ToSet(rest) \subseteq ToSet(list)
  BY <1>1, <1>2, <1>4, <1>5 DEF ToSet
<1> QED BY <1>1, <1>6, <1>7 DEF rest

\* One head of a flush has been dealt with.
LEMMA VisitKeeps ==
  ASSUME HeadsInv, NEW h, Visiting(h), NEW t, Visited(h, t),
         [t EXCEPT !.changed = @ \ {h}].changed \subseteq changed,
         NEW about, Good([t EXCEPT !.changed = @ \ {h}], about, {}, {}),
         about \subseteq StagedHeads', StagedInv'
  PROVE  HeadsInv'
<1> DEFINE u == [t EXCEPT !.changed = @ \ {h}]
<1>1. /\ SameHeads /\ Become(u) /\ flush' = flush /\ todo' = Tail(todo)
  BY DEF Visited, SameHeads
<1>2. h \notin u.changed
  <2>1. DOMAIN u = Fields
    BY DEF Good, Flagged
  <2> QED BY <2>1 DEF Fields
<1>20. u.changed \subseteq changed
  OBVIOUS
<1>3. Good(u, about, {}, {})
  OBVIOUS
<1> HIDE DEF u
<1>4. Good(State, StagedHeads, {}, {})'
  BY <1>1, <1>3, Became
<1>5. /\ todo' \in Seq(HeadName) /\ ToSet(todo) = {h} \cup ToSet(todo')
      /\ flush = "heads"
  BY <1>1, TailIs DEF HeadsInv, FlushInv, Visiting
<1>6. changed' \subseteq changed \ {h}
  BY <1>1, <1>2, <1>20 DEF Become
<1>7. FlushInv'
  BY <1>1, <1>5, <1>6, SameDecisions DEF HeadsInv, FlushInv
<1>8. PolicySound' /\ ConnectorsInv'
  BY <1>1, SamePolicy DEF HeadsInv
<1> QED BY <1>4, <1>7, <1>8 DEF HeadsInv

\* A head that is not changed by its visit but for its flag.
LEMMA PassingKeeps ==
  ASSUME ConnectorsInv, NEW about, NEW s, Good(s, about, {}, {}),
         NEW h \in Present, NEW later, about \subseteq later,
         IF h \in connected THEN Served(s, h, {}) \/ h \in later
         ELSE s.on[h] # None => ~Simple(h) /\ DrmForceOn(policy, h),
         NEW more \in SUBSET Present, NEW t, DOMAIN t = Fields,
         t.outputs = s.outputs, t.order = s.order, t.on = s.on,
         t.known = s.known \cup more, t.changed = s.changed, t.failed = s.failed,
         t.refused = s.refused
  PROVE  Good([t EXCEPT !.changed = @ \ {h}], later, {}, {})
<1> DEFINE u == [t EXCEPT !.changed = @ \ {h}]
<1>1. /\ DOMAIN u = Fields
      /\ u.outputs = s.outputs /\ u.order = s.order /\ u.on = s.on
      /\ u.known = s.known \cup more /\ u.changed = s.changed \ {h} /\ u.failed = s.failed
      /\ u.refused = s.refused
  BY DEF Fields
<1> HIDE DEF u
<1>2. Flagged(u)
  BY <1>1 DEF Good, Flagged
<1>3. \A g \in s.known \cup {} : g \in u.known \cup {}
  BY <1>1
<1>4. \A g \in s.refused : g \in u.refused \/ s.on[g] # None
  BY <1>1
<1>5. Served(s, h, {}) => Served(u, h, {})
  BY <1>1 DEF Served, ExcusedIn, WaitsIn
<1>6. \A g \in (Present \ u.changed) \cap s.changed :
        IF g \in connected THEN Served(u, g, {}) \/ g \in later
        ELSE s.on[g] # None => ~Simple(g) /\ DrmForceOn(policy, g)
  BY <1>1, <1>5
<1> HIDE DEF Good, Flagged
<1>7. Good(u, later, {}, {})
  BY <1>1, <1>2, <1>3, <1>4, <1>6, Retouched
<1> QED BY <1>7 DEF u

LEMMA StateIs ==
  /\ DOMAIN State = Fields
  /\ State.outputs = outputs /\ State.order = order /\ State.on = on
  /\ State.known = known /\ State.changed = changed /\ State.failed = initFailed
  /\ State.refused = refused
BY DEF State, Fields

\* The heads staged stay without an output.
LEMMA StagedStays ==
  ASSUME HeadsInv, SameHeads, UNCHANGED <<staged, flush>>,
         \A h \in HeadName : ~Simple(h) /\ on[h] = None => on'[h] = None
  PROVE  StagedInv' /\ StagedHeads' = StagedHeads
<1>1. StagedHeads' = StagedHeads
  BY DEF StagedHeads, OutputName
<1>2. \A g \in OutputName : staged[g] \subseteq HeadName
  BY DEF HeadsInv, StagedInv
<1>3. ASSUME NEW g \in OutputName, NEW h \in staged[g]
      PROVE  /\ h \in Present' /\ ~Simple(h) /\ on'[h] = None /\ DrmWanted(h)'
             /\ \E p \in DrmPlan(h)' : p.output = g
  <2>1. /\ h \in Present /\ ~Simple(h) /\ on[h] = None /\ DrmWanted(h)
        /\ \E p \in DrmPlan(h) : p.output = g
    BY DEF HeadsInv, StagedInv
  <2> QED BY <1>2, <2>1, SameDecisions
<1>4. StagedInv'
  BY <1>3 DEF HeadsInv, StagedInv, OutputName, Simple
<1> QED BY <1>1, <1>4

\* No head comes up in a flush and stays marked.
Unsurprised ==
  \A h \in HeadName : on[h] = None /\ on'[h] # None /\ flush' = "heads" => h \notin changed'

LEMMA VisitedIsPresent ==
  ASSUME HeadsInv, NEW h, Visiting(h)
  PROVE  h \in Present /\ h \in HeadName
<1>1. h \in ToSet(todo)
  BY TailIs DEF HeadsInv, FlushInv, Visiting
<1> QED BY <1>1, PresentAreHeads DEF HeadsInv, FlushInv

LEMMA EnableHeadKeeps ==
  ASSUME HeadsInv, NEW h \in HeadName, EnableHead(h)
  PROVE  HeadsInv' /\ Unsurprised
<1> PICK t \in HeadEnabled(State, h) : Visited(h, t)
  BY DEF EnableHead
<1> DEFINE u == [t EXCEPT !.changed = @ \ {h}]
<1>1. Visiting(h) /\ Simple(h) /\ h \in connected /\ on[h] = None /\ h \in Present
  BY VisitedIsPresent DEF EnableHead, WantsEnable, IsEnabled, EnabledIn, State
<1>2. Good(State, StagedHeads, {}, {}) /\ PolicySound /\ ConnectorsInv
  BY DEF HeadsInv
<1>3. Good(u, StagedHeads, {}, {}) /\ Followed(State, u)
  BY <1>1, <1>2, StateIs, EnablingKeeps
<1>4. SameHeads /\ UNCHANGED <<staged, flush>> /\ on' = u.on /\ changed' = u.changed
  BY DEF EnableHead, Visited, Become, SameHeads
<1> HIDE DEF u
<1>5. Unsurprised
  BY <1>3, <1>4, StateIs DEF Unsurprised, Followed
<1>6. \A g \in HeadName : ~Simple(g) /\ on[g] = None => on'[g] = None
  BY <1>3, <1>4, StateIs DEF Followed
<1>7. StagedInv' /\ StagedHeads \subseteq StagedHeads'
  BY <1>4, <1>6, StagedStays
<1>8. u.changed \subseteq changed
  BY <1>3, StateIs DEF Followed
<1>9. HeadsInv'
  BY <1>1, <1>3, <1>7, <1>8, VisitKeeps DEF u
<1> QED BY <1>5, <1>9

\* Visits that leave every output and every head but the visited alone.
LEMMA PassKeeps ==
  ASSUME HeadsInv, NEW h, Visiting(h), NEW more \in SUBSET Present,
         Visited(h, [State EXCEPT !.known = @ \cup more]), StagedInv',
         StagedHeads \subseteq StagedHeads',
         IF h \in connected THEN Served(State, h, {}) \/ h \in StagedHeads'
         ELSE on[h] # None => ~Simple(h) /\ DrmForceOn(policy, h)
  PROVE  HeadsInv' /\ on' = on
<1> DEFINE t == [State EXCEPT !.known = @ \cup more]
           u == [t EXCEPT !.changed = @ \ {h}]
           later == StagedHeads'
<1>1. /\ DOMAIN t = Fields /\ t.outputs = State.outputs /\ t.order = State.order
      /\ t.on = State.on /\ t.known = State.known \cup more /\ t.changed = State.changed
      /\ t.failed = State.failed /\ t.refused = State.refused
  BY StateIs DEF Fields
<1>2. h \in Present /\ ConnectorsInv /\ Good(State, StagedHeads, {}, {})
  BY VisitedIsPresent DEF HeadsInv
<1>3. Visited(h, t)
  OBVIOUS
<1>4. StagedHeads \subseteq later
  OBVIOUS
<1>5. IF h \in connected THEN Served(State, h, {}) \/ h \in later
      ELSE State.on[h] # None => ~Simple(h) /\ DrmForceOn(policy, h)
  BY StateIs
<1> HIDE DEF t, later
<1>6. Good(u, later, {}, {})
  BY <1>1, <1>2, <1>4, <1>5, PassingKeeps
<1>7. u.changed = changed \ {h} /\ u.on = on
  BY <1>1, StateIs DEF Fields
<1>8. HeadsInv'
  BY <1>3, <1>6, <1>7, VisitKeeps DEF later
<1>9. on' = u.on
  BY <1>3 DEF Visited, Become
<1> QED BY <1>7, <1>8, <1>9

\* Passing by leaves the registry as it is.
LEMMA NothingMore == State = [State EXCEPT !.known = @ \cup {}]
BY DEF State

LEMMA LeaveHeadOffKeeps ==
  ASSUME HeadsInv, NEW h \in HeadName, LeaveHeadOff(h)
  PROVE  HeadsInv' /\ on' = on
<1>1. /\ Visiting(h) /\ Simple(h) /\ h \in Present
      /\ IsOff(RuleFor(policy, h))
  BY VisitedIsPresent, LeftOffIsOff DEF LeaveHeadOff
<1>2. /\ Visited(h, [State EXCEPT !.known = @ \cup {h}]) /\ on[h] = None
      /\ SameHeads /\ UNCHANGED <<staged, flush>>
  BY DEF LeaveHeadOff, Visited, SameHeads, WantsEnable, IsEnabled, EnabledIn, State
<1>3. on' = on
  BY <1>2 DEF Visited, Become, State
<1>4. StagedInv' /\ StagedHeads' = StagedHeads
  BY <1>2, <1>3, StagedStays
<1>5. Served(State, h, {})
  BY <1>1 DEF Served, ExcusedIn
<1> QED BY <1>1, <1>2, <1>4, <1>5, PassKeeps

LEMMA PassHeadKeeps ==
  ASSUME HeadsInv, NEW h \in HeadName, PassHead(h) \/ PassDrmHead(h)
  PROVE  HeadsInv' /\ on' = on
<1>1. /\ Visiting(h) /\ h \in Present /\ ConnectorsInv
      /\ Good(State, StagedHeads, {}, {})
  BY VisitedIsPresent DEF PassHead, PassDrmHead, HeadsInv
<1>2. /\ Visited(h, State) /\ SameHeads /\ UNCHANGED <<staged, flush>>
  BY DEF PassHead, PassDrmHead, Visited, SameHeads
<1>3. on' = on
  BY <1>2 DEF Visited, Become, State
<1>4. StagedInv' /\ StagedHeads' = StagedHeads
  BY <1>2, <1>3, StagedStays
<1>5. IF h \in connected THEN Served(State, h, {})
      ELSE on[h] # None => ~Simple(h) /\ DrmForceOn(policy, h)
  <2>1. CASE PassHead(h)
    <3>1. Simple(h) /\ IF WantsEnable(h) THEN Deferred(h) ELSE h \in connected \/ ~IsEnabled(h)
      BY <2>1 DEF PassHead
    <3>2. WantsEnable(h) <=> h \in connected /\ on[h] = None /\ h \notin NonDesktop
      BY StateIs DEF WantsEnable, IsEnabled, EnabledIn
    <3>3. IsEnabled(h) <=> on[h] # None
      BY StateIs DEF IsEnabled, EnabledIn
    <3>4. Deferred(h) => Served(State, h, {})
      BY <1>1 DEF Good, Due
    <3>5. on[h] # None \/ h \in NonDesktop => Served(State, h, {})
      BY <3>1, StateIs DEF Served, ExcusedIn
    <3> QED BY <3>1, <3>2, <3>3, <3>4, <3>5
  <2>2. CASE PassDrmHead(h)
    BY <2>2, StateIs DEF PassDrmHead, DrmWanted, Served, IsEnabled, EnabledIn
  <2> QED BY <2>1, <2>2
<1>6. Visited(h, [State EXCEPT !.known = @ \cup {}])
  BY <1>2, NothingMore
<1> QED BY <1>1, <1>4, <1>5, <1>6, PassKeeps

LEMMA PrepareDrmHeadKeeps ==
  ASSUME HeadsInv, NEW h \in HeadName, PrepareDrmHead(h)
  PROVE  HeadsInv' /\ on' = on
<1>1. /\ Visiting(h) /\ ~Simple(h) /\ DrmWanted(h) /\ on[h] = None /\ h \in Present
      /\ staged' = [g \in OutputName |-> IF \E p \in DrmPlan(h) : p.output = g
                                        THEN staged[g] \cup {h} ELSE staged[g]]
      /\ Visited(h, State)
  BY VisitedIsPresent DEF PrepareDrmHead, IsEnabled, EnabledIn, State
<1>2. on' = on /\ SameHeads /\ flush' = flush
  BY <1>1 DEF Visited, Become, State, SameHeads
<1>3. StagedInv /\ PolicySound /\ flush = "heads"
  BY <1>1 DEF HeadsInv, Visiting
<1>4. StagedInv'
  <2>1. staged' \in [OutputName -> SUBSET HeadName]
    BY <1>1, <1>3 DEF StagedInv
  <2>2. ASSUME NEW g \in OutputName, NEW d \in staged'[g]
        PROVE  /\ d \in Present' /\ ~Simple(d) /\ on'[d] = None /\ DrmWanted(d)'
               /\ \E p \in DrmPlan(d)' : p.output = g
    <3>1. /\ d \in Present /\ ~Simple(d) /\ on[d] = None /\ DrmWanted(d)
          /\ \E p \in DrmPlan(d) : p.output = g
      <4>1. CASE d \in staged[g]
        BY <1>3, <4>1 DEF StagedInv
      <4>2. CASE d \notin staged[g]
        BY <1>1, <2>2, <4>2
      <4> QED BY <4>1, <4>2
    <3> QED BY <1>2, <3>1, SameDecisions
  <2> QED BY <1>2, <1>3, <2>1, <2>2 DEF StagedInv, OutputName, Simple
<1>5. StagedHeads \subseteq StagedHeads'
  BY <1>1 DEF StagedHeads, OutputName
<1>6. Served(State, h, {}) \/ h \in StagedHeads'
  <2>1. CASE DrmPlan(h) = {}
    BY <1>1, <2>1 DEF Served, ExcusedIn
  <2>2. CASE DrmPlan(h) # {}
    <3>1. PICK p \in DrmPlan(h) : p.output \in OutputName
      BY <1>1, <1>3, <2>2, GroupsAreNamed DEF OutputName
    <3>2. h \in staged'[p.output]
      BY <1>1, <3>1
    <3> QED BY <3>1, <3>2 DEF StagedHeads, OutputName
  <2> QED BY <2>1, <2>2
<1>7. Visited(h, [State EXCEPT !.known = @ \cup {}])
  BY <1>1, NothingMore
<1>8. HeadsInv'
  BY <1>1, <1>4, <1>5, <1>6, <1>7, PassKeeps
<1> QED BY <1>2, <1>8

\* The output of a head that was unplugged.
LEMMA LoweringKeeps ==
  ASSUME HeadsInv, NEW h, Visiting(h), h \notin connected, on[h] # None,
         NEW t, Visited(h, t), Lowered(State, [t EXCEPT !.changed = @ \ {h}], h),
         UNCHANGED staged
  PROVE  HeadsInv' /\ Unsurprised
<1> DEFINE u == [t EXCEPT !.changed = @ \ {h}]
<1>1. h \in Present /\ ConnectorsInv /\ Good(State, StagedHeads, {}, {})
  BY VisitedIsPresent DEF HeadsInv
<1>2. Lowered(State, u, h)
  OBVIOUS
<1>3. /\ SameHeads /\ UNCHANGED <<staged, flush>> /\ on' = u.on
  BY DEF Visited, Become, SameHeads
<1> HIDE DEF u
<1>4. Good(u, StagedHeads, {}, {})
  BY <1>1, <1>2, StateIs, LoweredIsGood
<1>5. u.on = [g \in HeadName |-> IF g = h THEN None ELSE on[g]] /\ u.changed \subseteq changed
  BY <1>2, StateIs DEF Lowered
<1>6. \A g \in HeadName : on[g] = None => on'[g] = None
  BY <1>3, <1>5
<1>7. StagedInv' /\ StagedHeads \subseteq StagedHeads'
  BY <1>3, <1>6, StagedStays
<1>8. HeadsInv'
  BY <1>4, <1>5, <1>7, VisitKeeps DEF u
<1> QED BY <1>6, <1>8 DEF Unsurprised

LEMMA DisableHeadKeeps ==
  ASSUME HeadsInv, NEW h \in HeadName, DisableHead(h)
  PROVE  HeadsInv' /\ Unsurprised
<1> DEFINE t == OutputDestroyed(State, on[h])
           u == [t EXCEPT !.changed = @ \ {h}]
<1>1. /\ Visiting(h) /\ Simple(h) /\ h \notin connected /\ on[h] # None
      /\ Visited(h, t) /\ UNCHANGED staged
  BY DEF DisableHead, IsEnabled, EnabledIn, State
<1>2. on[h] = h /\ \A g \in HeadName \ {h} : on[g] # h
  <2>1. Attached(State, {})
    BY DEF HeadsInv, Good
  <2>2. h \notin Group /\ h # None
    BY <1>1, NamesAssumption DEF Simple
  <2> QED BY <1>1, <2>1, <2>2, StateIs DEF Attached
<1>3. /\ DOMAIN t = Fields
      /\ t.outputs = OutputsLowered(State, on[h])
      /\ t.order = RemoveAt(order, CHOOSE i \in DOMAIN order : order[i] = on[h])
      /\ t.on = [g \in HeadName |-> IF on[g] = on[h] THEN None ELSE on[g]]
      /\ t.known = known /\ t.changed = changed /\ t.failed = initFailed
      /\ t.refused = refused
  BY DEF OutputDestroyed, OutputsLowered, State, Fields
<1> HIDE DEF t
<1>4. /\ DOMAIN u = Fields
      /\ u.outputs = OutputsLowered(State, on[h])
      /\ u.order = RemoveAt(order, CHOOSE i \in DOMAIN order : order[i] = on[h])
      /\ u.on = [g \in HeadName |-> IF on[g] = on[h] THEN None ELSE on[g]]
      /\ u.known = known /\ u.changed = changed \ {h} /\ u.failed = initFailed
      /\ u.refused = refused
  BY <1>3 DEF Fields
<1>5. [g \in HeadName |-> IF on[g] = on[h] THEN None ELSE on[g]]
        = [g \in HeadName |-> IF g = h THEN None ELSE on[g]]
  BY <1>2
<1> HIDE DEF u
<1>6. Lowered(State, u, h)
  BY <1>2, <1>4, <1>5, StateIs DEF Lowered
<1> QED BY <1>1, <1>6, LoweringKeeps DEF u

LEMMA DisableDrmHeadKeeps ==
  ASSUME HeadsInv, NEW h \in HeadName, DisableDrmHead(h)
  PROVE  HeadsInv' /\ Unsurprised
<1> DEFINE s == [State EXCEPT !.on[h] = None]
           o == on[h]
           t == IF HeadsOn(s, o) = {} THEN OutputDestroyed(s, o) ELSE s
           u == [t EXCEPT !.changed = @ \ {h}]
<1>1. /\ Visiting(h) /\ ~DrmWanted(h) /\ o # None /\ UNCHANGED staged
      /\ Visited(h, t)
  BY DEF DisableDrmHead, IsEnabled, EnabledIn, State
<1>2. h \notin connected
  BY <1>1 DEF DrmWanted
<1>3. on \in [HeadName -> OutputName \cup {None}]
  BY StateIs DEF HeadsInv, Good, Attached
<1>4. /\ DOMAIN s = Fields /\ s.outputs = outputs /\ s.order = order
      /\ s.on = [g \in HeadName |-> IF g = h THEN None ELSE on[g]]
      /\ s.known = known /\ s.changed = changed /\ s.failed = initFailed
      /\ s.refused = refused
  BY <1>3 DEF State, Fields
<1> HIDE DEF s, o
<1>5. HeadsOn(s, o) = {} <=> \A g \in HeadName \ {h} : on[g] # o
  BY <1>1, <1>4 DEF HeadsOn
<1>6. CASE HeadsOn(s, o) = {}
  <2>1. t = OutputDestroyed(s, o)
    BY <1>6
  <2> HIDE DEF t
  <2>2. /\ DOMAIN t = Fields
        /\ t.outputs = OutputsLowered(State, o)
        /\ t.order = RemoveAt(order, CHOOSE i \in DOMAIN order : order[i] = o)
        /\ t.on = [g \in HeadName |-> IF s.on[g] = o THEN None ELSE s.on[g]]
        /\ t.known = known /\ t.changed = changed /\ t.failed = initFailed
        /\ t.refused = refused
    BY <1>4, <2>1, StateIs DEF OutputDestroyed, OutputsLowered, Fields
  <2>3. \A g \in HeadName : s.on[g] # o
    BY <1>6 DEF HeadsOn
  <2>4. t.on = [g \in HeadName |-> IF g = h THEN None ELSE on[g]]
    BY <1>4, <2>2, <2>3
  <2>5. /\ DOMAIN u = Fields
        /\ u.outputs = OutputsLowered(State, o)
        /\ u.order = RemoveAt(order, CHOOSE i \in DOMAIN order : order[i] = o)
        /\ u.on = [g \in HeadName |-> IF g = h THEN None ELSE on[g]]
        /\ u.known = known /\ u.changed = changed \ {h} /\ u.failed = initFailed
        /\ u.refused = refused
    BY <2>2, <2>4 DEF Fields
  <2> HIDE DEF u
  <2>6. Lowered(State, u, h)
    BY <1>5, <1>6, <2>5, StateIs DEF Lowered, o
  <2> QED BY <1>1, <1>2, <2>6, LoweringKeeps DEF u, o
<1>7. CASE HeadsOn(s, o) # {}
  <2>1. t = s
    BY <1>7
  <2> HIDE DEF t
  <2>2. /\ DOMAIN u = Fields /\ u.outputs = outputs /\ u.order = order
        /\ u.on = [g \in HeadName |-> IF g = h THEN None ELSE on[g]]
        /\ u.known = known /\ u.changed = changed \ {h} /\ u.failed = initFailed
        /\ u.refused = refused
    BY <1>4, <2>1 DEF Fields
  <2> HIDE DEF u
  <2>3. Lowered(State, u, h)
    BY <1>5, <1>7, <2>2, StateIs DEF Lowered, o
  <2> QED BY <1>1, <1>2, <2>3, LoweringKeeps DEF u, o
<1> QED BY <1>6, <1>7

\* Steps that move the flush along and nothing else.
LEMMA FlushMovesOn ==
  ASSUME HeadsInv, SameHeads, UNCHANGED <<changed, on, outputs, order, known, staged,
                                          initFailed, refused>>,
         FlushInv', flush' = "no" => \A g \in OutputName : staged[g] = {}
  PROVE  HeadsInv'
<1>1. Become(State)
  BY StateIs DEF Become
<1>2. StagedHeads' = StagedHeads
  BY DEF StagedHeads, OutputName
<1>3. Good(State, StagedHeads, {}, {})
  BY DEF HeadsInv
<1>4. Good(State, StagedHeads, {}, {})'
  BY <1>1, <1>2, <1>3, Became
<1>5. ASSUME NEW g \in OutputName, NEW h \in staged[g]
      PROVE  /\ h \in Present' /\ ~Simple(h) /\ on'[h] = None /\ DrmWanted(h)'
             /\ \E p \in DrmPlan(h)' : p.output = g
  BY SameDecisions DEF HeadsInv, StagedInv
<1>6. StagedInv'
  BY <1>5 DEF HeadsInv, StagedInv, OutputName, Simple
<1>7. PolicySound' /\ ConnectorsInv'
  BY SamePolicy DEF HeadsInv
<1> QED BY <1>4, <1>6, <1>7 DEF HeadsInv

LEMMA HeadsChangedKeeps ==
  ASSUME HeadsInv, HeadsChanged
  PROVE  HeadsInv' /\ on' = on
<1>1. SameHeads /\ flush' = "heads" /\ todo' = headList /\ changed' = changed
  BY DEF HeadsChanged, SameHeads
<1>2. headList \in Seq(HeadName) /\ changed \subseteq Present
  BY StateIs DEF HeadsInv, ConnectorsInv, Good, Flagged
<1>3. FlushInv'
  BY <1>1, <1>2, SameDecisions DEF FlushInv, Present
<1> QED BY <1>1, <1>3, FlushMovesOn DEF HeadsChanged

LEMMA HeadsVisitedKeeps ==
  ASSUME HeadsInv, HeadsVisited
  PROVE  HeadsInv' /\ on' = on
<1>1. /\ SameHeads /\ flush = "heads" /\ todo = <<>> /\ UNCHANGED <<todo, changed>>
      /\ flush' = IF \A h \in Present : Simple(h) THEN "no" ELSE "groups"
  BY DEF HeadsVisited, SameHeads
<1>2. changed = {}
  BY <1>1 DEF HeadsInv, FlushInv, ToSet
<1>3. FlushInv'
  BY <1>1, <1>2, SameDecisions DEF HeadsInv, FlushInv
<1>4. flush' = "no" => \A g \in OutputName : staged[g] = {}
  BY <1>1 DEF HeadsInv, StagedInv
<1> QED BY <1>1, <1>3, <1>4, FlushMovesOn DEF HeadsVisited

LEMMA GroupsProcessedKeeps ==
  ASSUME HeadsInv, GroupsProcessed
  PROVE  HeadsInv' /\ on' = on
<1>1. SameHeads /\ flush' = "no" /\ UNCHANGED <<todo, changed>>
  BY DEF GroupsProcessed, SameHeads
<1>2. FlushInv'
  BY <1>1, SameDecisions DEF HeadsInv, FlushInv
<1> QED BY <1>1, <1>2, FlushMovesOn DEF GroupsProcessed

LEMMA ProcessGroupKeeps ==
  ASSUME HeadsInv, NEW g \in OutputName, ProcessGroup(g)
  PROVE  HeadsInv' /\ Unsurprised
<1> PICK t \in GroupUp(State, g)
               \cup {[State EXCEPT !.refused = @ \cup staged[g], !.failed = f] :
                       f \in {initFailed, TRUE}} : Become(t)
  BY DEF ProcessGroup
<1>1. /\ SameHeads /\ flush = "groups" /\ staged[g] # {} /\ UNCHANGED <<flush, todo>>
      /\ staged' = [staged EXCEPT ![g] = {}]
  BY DEF ProcessGroup, SameHeads
<1>2. /\ PolicySound /\ ConnectorsInv /\ StagedInv /\ FlushInv
      /\ Good(State, StagedHeads, {}, {})
  BY DEF HeadsInv
<1>3. changed = {} /\ initFailed \in BOOLEAN
  BY <1>1, <1>2, StateIs DEF FlushInv, Good, Flagged
<1>4. StagedOn(State, g)
  BY <1>2, StateIs DEF StagedInv, StagedOn
<1>5. /\ staged' \in [OutputName -> SUBSET HeadName]
      /\ staged'[g] = {}
      /\ \A o \in OutputName : o # g => staged'[o] = staged[o]
  BY <1>1, <1>2 DEF StagedInv
<1>6. StagedHeads \subseteq StagedHeads' \cup staged[g]
  BY <1>5 DEF StagedHeads, OutputName
<1> DEFINE later == StagedHeads'
<1>7. /\ Good(t, later, {}, {}) /\ t.changed \subseteq changed
      /\ \A h \in HeadName \ staged[g] : ~Simple(h) => t.on[h] = on[h]
  <2> HIDE DEF later
  <2>1. StagedHeads \subseteq later \cup staged[g]
    BY <1>6 DEF later
  <2>2. CASE t \in GroupUp(State, g)
    BY <1>1, <1>2, <1>4, <2>1, <2>2, StateIs, GroupComesUp
  <2>3. CASE t \notin GroupUp(State, g)
    <3>1. PICK f \in BOOLEAN : t = [State EXCEPT !.refused = @ \cup staged[g], !.failed = f]
      BY <1>3, <2>3
    <3>2. /\ DOMAIN t = Fields /\ t.outputs = State.outputs /\ t.order = State.order
          /\ t.on = State.on /\ t.known = State.known /\ t.changed = State.changed
          /\ t.refused = State.refused \cup staged[g] /\ t.failed = f
      BY <3>1 DEF State, Fields
    <3>3. Good(t, later, {}, {})
      BY <1>2, <1>4, <2>1, <3>2, GroupIsRefused
    <3> QED BY <3>2, <3>3, StateIs
  <2> QED BY <2>2, <2>3
<1> HIDE DEF later
<1>8. Good(State, StagedHeads, {}, {})'
  BY <1>1, <1>7, Became DEF later
<1>9. changed' = {} /\ on' = t.on
  BY <1>3, <1>7 DEF Become
<1>10. ASSUME NEW o \in OutputName, NEW h \in staged'[o]
       PROVE  /\ h \in Present' /\ ~Simple(h) /\ on'[h] = None /\ DrmWanted(h)'
              /\ \E p \in DrmPlan(h)' : p.output = o
  <2>1. o # g /\ h \in staged[o] /\ h \in HeadName
    BY <1>2, <1>5, <1>10 DEF StagedInv
  <2>2. /\ h \in Present /\ ~Simple(h) /\ on[h] = None /\ DrmWanted(h)
        /\ \E p \in DrmPlan(h) : p.output = o
    BY <1>2, <2>1 DEF StagedInv
  <2>3. h \notin staged[g]
    <3>1. h \in staged[g] => \E p \in DrmPlan(h) : p.output = g
      BY <1>2 DEF StagedInv
    <3> QED BY <1>2, <2>1, <2>2, <3>1, GroupsAreNamed
  <2>4. on'[h] = on[h]
    BY <1>7, <1>9, <2>1, <2>2, <2>3
  <2> QED BY <1>1, <2>2, <2>4, SameDecisions
<1>11. StagedInv'
  BY <1>1, <1>5, <1>10 DEF StagedInv, OutputName, Simple
<1>12. FlushInv'
  BY <1>1, <1>2, <1>9, SameDecisions DEF FlushInv
<1>13. PolicySound' /\ ConnectorsInv'
  BY <1>1, <1>2, SamePolicy
<1> QED BY <1>1, <1>8, <1>11, <1>12, <1>13 DEF HeadsInv, Unsurprised

LEMMA FlushStepKeeps ==
  ASSUME HeadsInv, FlushStep PROVE HeadsInv' /\ Unsurprised
<1>1. ASSUME NEW h \in HeadName, EnableHead(h) PROVE HeadsInv' /\ Unsurprised
  BY <1>1, EnableHeadKeeps
<1>2. ASSUME NEW h \in HeadName, LeaveHeadOff(h) PROVE HeadsInv' /\ on' = on
  BY <1>2, LeaveHeadOffKeeps
<1>3. ASSUME NEW h \in HeadName, DisableHead(h) PROVE HeadsInv' /\ Unsurprised
  BY <1>3, DisableHeadKeeps
<1>4. ASSUME NEW h \in HeadName, PassHead(h) \/ PassDrmHead(h) PROVE HeadsInv' /\ on' = on
  BY <1>4, PassHeadKeeps
<1>5. ASSUME NEW h \in HeadName, PrepareDrmHead(h) PROVE HeadsInv' /\ on' = on
  BY <1>5, PrepareDrmHeadKeeps
<1>6. ASSUME NEW h \in HeadName, DisableDrmHead(h) PROVE HeadsInv' /\ Unsurprised
  BY <1>6, DisableDrmHeadKeeps
<1>7. ASSUME HeadsVisited \/ GroupsProcessed PROVE HeadsInv' /\ on' = on
  BY <1>7, HeadsVisitedKeeps, GroupsProcessedKeeps
<1>8. ASSUME NEW g \in OutputName, ProcessGroup(g) PROVE HeadsInv' /\ Unsurprised
  BY <1>8, ProcessGroupKeeps
<1>9. on' = on => Unsurprised
  BY DEF Unsurprised
<1> QED BY <1>1, <1>2, <1>3, <1>4, <1>5, <1>6, <1>7, <1>8, <1>9 DEF FlushStep

-------------------------------------------------------------------------------
(***************************************************************************)
(* Between flushes.                                                        *)
(***************************************************************************)
LEMMA NothingStaged ==
  ASSUME HeadsInv, flush = "no" PROVE StagedHeads = {}
BY DEF HeadsInv, StagedInv, StagedHeads

LEMMA PluggedKeeps ==
  ASSUME HeadsInv, NEW h \in HeadName, Plugged(h)
  PROVE  HeadsInv' /\ on' = on
<1>1. /\ flush = "no" /\ h \in Present /\ h \in Pluggable
      /\ connected' = IF h \in connected THEN connected \ {h} ELSE connected \cup {h}
      /\ changed' = changed \cup {h}
      /\ UNCHANGED <<policy, headList, on, outputs, order, known, staged, flush, todo,
                     initFailed, refused>>
  BY DEF Plugged
<1>2. /\ Present' = Present
      /\ \A g : Deferred(g)' <=> Deferred(g)
      /\ \A g : DrmPlan(g)' = DrmPlan(g)
      /\ \A o : MirrorOf(o)' = MirrorOf(o)
  BY <1>1 DEF Present, Deferred, DrmPlan, MirrorOf
<1>3. KindOf[h] # "vnc"
  BY <1>1, NamesAssumption
<1>4. ConnectorsInv'
  BY <1>1, <1>2, <1>3 DEF HeadsInv, ConnectorsInv
<1>5. PolicySound'
  BY <1>1 DEF HeadsInv, PolicySound
<1>6. FlushInv'
  BY <1>1, <1>2 DEF HeadsInv, FlushInv
<1>7. StagedInv'
  BY <1>1 DEF HeadsInv, StagedInv, OutputName
<1>8. Good(State, {}, {}, {})
  BY <1>1, NothingStaged DEF HeadsInv
<1>9. Flagged(State)' /\ Listed(State)'
  BY <1>1, <1>2, <1>8 DEF Good, Flagged, Listed, State, Fields, OutputName
<1>10. Attached(State, {})'
  BY <1>1, <1>2, <1>8 DEF Good, Attached, State, OutputName, Simple
<1>11. Mirroring(State)'
  <2>1. Mirroring(State)
    BY <1>8 DEF Good
  <2>2. \A o \in DOMAIN outputs : \A src : OnSource(State, o, src) => OnSource(State, o, src)'
    BY <1>1, <1>2 DEF OnSource, State
  <2> QED BY <1>1, <2>1, <2>2 DEF Mirroring, State
<1>12. ASSUME NEW g PROVE Served(State, g, {})' <=> Served(State, g, {})
  BY <1>1, <1>2 DEF Served, ExcusedIn, WaitsIn, State, Simple
<1>13. Settled(State, StagedHeads, {})'
  <2>1. Settled(State, {}, {})
    BY <1>8 DEF Good
  <2>2. \A g \in Present' \ changed' :
          IF g \in connected' THEN Served(State, g, {})
          ELSE on[g] # None => ~Simple(g) /\ DrmForceOn(policy, g)
    BY <1>1, <1>2, <2>1, StateIs DEF Settled
  <2>3. \A g \in Present' \ changed' :
          IF g \in connected' THEN Served(State, g, {})'
          ELSE on'[g] # None => ~Simple(g) /\ DrmForceOn(policy', g)
    BY <1>1, <1>12, <2>2
  <2> QED BY <2>3 DEF Settled, State, Simple
<1>14. Due(State, {})'
  BY <1>2, <1>8, <1>12 DEF Good, Due
<1>15. Good(State, StagedHeads, {}, {})'
  BY <1>9, <1>10, <1>11, <1>13, <1>14 DEF Good
<1> QED BY <1>1, <1>4, <1>5, <1>6, <1>7, <1>15 DEF HeadsInv

\* The heads and outputs change, between flushes.
LEMMA QuietlyBecame ==
  ASSUME HeadsInv, SameHeads, UNCHANGED <<staged, flush, todo>>, flush = "no",
         NEW t, Become(t), Good(t, {}, {}, {})
  PROVE  HeadsInv'
<1>1. Good(State, StagedHeads, {}, {})'
  BY Became
<1>2. StagedInv'
  BY DEF HeadsInv, StagedInv, OutputName
<1>3. FlushInv'
  BY SameDecisions DEF HeadsInv, FlushInv
<1>4. PolicySound' /\ ConnectorsInv'
  BY SamePolicy DEF HeadsInv
<1> QED BY <1>1, <1>2, <1>3, <1>4 DEF HeadsInv

LEMMA MonitorChangedKeeps ==
  ASSUME HeadsInv, NEW h \in HeadName, MonitorChanged(h)
  PROVE  HeadsInv' /\ on' = on
<1> DEFINE t == [State EXCEPT !.changed = @ \cup {h}]
<1>1. /\ SameHeads /\ UNCHANGED <<staged, flush, todo, on>> /\ flush = "no"
      /\ h \in connected /\ changed' = changed \cup {h}
      /\ UNCHANGED <<outputs, order, known, initFailed, refused>>
  BY DEF MonitorChanged, SameHeads
<1>2. /\ DOMAIN t = Fields /\ t.outputs = outputs /\ t.order = order /\ t.on = on
      /\ t.known = known /\ t.changed = changed \cup {h} /\ t.failed = initFailed
      /\ t.refused = refused
  BY DEF State, Fields
<1> HIDE DEF t
<1>3. Become(t)
  BY <1>1, <1>2 DEF Become
<1>4. Good(State, {}, {}, {}) /\ ConnectorsInv
  BY <1>1, NothingStaged DEF HeadsInv
<1>5. Flagged(t)
  BY <1>1, <1>2, <1>4, StateIs DEF Good, Flagged, ConnectorsInv
<1>6. Good(t, {}, {}, {})
  <2>1. \A g \in State.known \cup {} : g \in t.known \cup {}
    BY <1>2, StateIs
  <2>2. \A g \in State.refused : g \in t.refused \/ State.on[g] # None
    BY <1>2, StateIs
  <2>3. (Present \ t.changed) \cap State.changed = {}
    BY <1>2, StateIs
  <2> QED BY <1>2, <1>4, <1>5, <2>1, <2>2, <2>3, StateIs, Retouched
<1> QED BY <1>1, <1>3, <1>6, QuietlyBecame

\* Outputs that change shape, none of them coming or going.
LEMMA ReshapedIsGood ==
  ASSUME NEW s, Good(s, {}, {}, {}), NEW t, Flagged(t), t.on = s.on, t.order = s.order,
         t.known = s.known, t.changed = s.changed, t.refused = s.refused,
         DOMAIN t.outputs = DOMAIN s.outputs,
         \A p \in DOMAIN s.outputs : t.outputs[p].kind = s.outputs[p].kind,
         Mirroring(t)
  PROVE  Good(t, {}, {}, {})
<1>1. Attached(t, {})
  BY DEF Good, Attached
<1>2. Listed(t)
  BY DEF Good, Listed
<1>3. \A h : Served(s, h, {}) => Served(t, h, {})
  BY DEF Served, ExcusedIn, WaitsIn
<1>4. Settled(t, {}, {})
  BY <1>3 DEF Good, Settled
<1>5. Due(t, {})
  BY <1>3 DEF Good, Due
<1> QED BY <1>1, <1>2, <1>4, <1>5 DEF Good

\* The one mirror of an output is found by its rule.
LEMMA MirrorIsFound ==
  ASSUME PolicySound, ConnectorsInv, NEW s, Good(s, {}, {}, {}),
         NEW o \in OutputName, NEW p \in DOMAIN s.outputs, p \in MirrorOf(o)
  PROVE  s.on[p] = p
<1>1. p \in HeadName /\ KindOf[p] = "vnc"
  BY MirrorsAreRemote DEF ConnectorsInv
<1>2. PICK g \in HeadName : s.on[g] = p
  BY DEF Good, Attached
<1>3. p # None /\ p \notin Group
  BY <1>1, NamesAssumption
<1>4. g = p
  BY <1>2, <1>3 DEF Good, Attached
<1> QED BY <1>2, <1>4

LEMMA ResizeIsGood ==
  ASSUME PolicySound, ConnectorsInv, NEW s, Good(s, {}, {}, {}),
         NEW o \in DOMAIN s.outputs, s.outputs[o].kind # "vnc", NEW size,
         NEW t \in MirrorOnOutputResized([s EXCEPT !.outputs[o].size = size], o)
  PROVE  Good(t, {}, {}, {}) /\ t.on = s.on /\ t.changed = s.changed
<1> DEFINE w == [s EXCEPT !.outputs[o].size = size]
           followers == {w.on[h] : h \in MirrorOf(o)} \ {None}
           line(r) == MirrorModeline(w, o, r)
           followed(r) == [w EXCEPT !.outputs[r] =
                             [MirrorModeline(w, o, r) EXCEPT !.x = w.outputs[o].x]]
<1>1. /\ Flagged(s) /\ Listed(s) /\ o \in OutputName
      /\ \A p \in DOMAIN s.outputs : DOMAIN s.outputs[p] = OutputFields
      /\ \A p \in DOMAIN s.outputs : s.outputs[p].mirrorOf # None => s.outputs[p].kind = "vnc"
      /\ \A p \in DOMAIN s.outputs : s.outputs[p].mirrorOf \notin {None, Dangling}
           => OnSource(s, p, s.outputs[p].mirrorOf)
  BY DEF Good, Listed, Mirroring
<1>2. o \notin {None, Dangling}
  BY <1>1, NamesAssumption DEF OutputName
<1>3. /\ DOMAIN w = Fields /\ w.outputs = [s.outputs EXCEPT ![o].size = size]
      /\ w.order = s.order /\ w.on = s.on /\ w.known = s.known /\ w.changed = s.changed
      /\ w.failed = s.failed /\ w.refused = s.refused
  BY <1>1 DEF Flagged, Fields
<1> HIDE DEF w
<1>4. /\ DOMAIN w.outputs = DOMAIN s.outputs
      /\ \A p \in DOMAIN s.outputs : p # o => w.outputs[p] = s.outputs[p]
      /\ DOMAIN w.outputs[o] = OutputFields
      /\ w.outputs[o].kind = s.outputs[o].kind /\ w.outputs[o].mirrorOf = s.outputs[o].mirrorOf
      /\ w.outputs[o].x = s.outputs[o].x /\ w.outputs[o].scale = s.outputs[o].scale
  BY <1>1, <1>3 DEF OutputFields
<1>5. Flagged(w)
  BY <1>1, <1>3 DEF Flagged
<1>6. s.outputs[o].mirrorOf = None
  BY <1>1
<1>7. \A p \in DOMAIN s.outputs : s.outputs[p].mirrorOf = o => p \in MirrorOf(o) /\ p \in followers
  <2> SUFFICES ASSUME NEW p \in DOMAIN s.outputs, s.outputs[p].mirrorOf = o
               PROVE  p \in MirrorOf(o) /\ p \in followers
    OBVIOUS
  <2>1. p \in MirrorOf(o)
    BY <1>1, <1>2 DEF OnSource
  <2>2. s.on[p] = p
    BY <1>1, <2>1, MirrorIsFound
  <2>3. p # None
    BY <1>1, NamesAssumption DEF Listed, OutputName
  <2> QED BY <1>3, <2>1, <2>2, <2>3
<1>8. \A p \in followers : \A q \in followers : p = q
  BY <1>1, MirrorsAreRemote DEF ConnectorsInv
\* The window is resized; its mirror, if it has one, follows.
<1>9. ASSUME NEW v, Flagged(v), v.on = s.on, v.order = s.order, v.known = s.known,
             v.changed = s.changed, v.refused = s.refused, NEW only,
             DOMAIN v.outputs = DOMAIN s.outputs,
             \A p \in DOMAIN s.outputs : p # only => v.outputs[p] = w.outputs[p],
             only # o, v.outputs[o] = w.outputs[o],
             \A p \in DOMAIN s.outputs : s.outputs[p].mirrorOf = o => p = only,
             only \in DOMAIN s.outputs =>
               /\ s.outputs[only].kind = "vnc"
               /\ v.outputs[only].kind = "vnc"
               /\ DOMAIN v.outputs[only] = OutputFields
               /\ v.outputs[only].mirrorOf \in {o, Dangling}
               /\ v.outputs[only].mirrorOf = o => OnSource(v, only, o)
      PROVE  Good(v, {}, {}, {})
  <2>1. \A p \in DOMAIN s.outputs : v.outputs[p].kind = s.outputs[p].kind
    BY <1>4, <1>9
  <2>2. ASSUME NEW p \in DOMAIN v.outputs
        PROVE  /\ DOMAIN v.outputs[p] = OutputFields
               /\ v.outputs[p].mirrorOf # None => v.outputs[p].kind = "vnc"
               /\ v.outputs[p].mirrorOf \notin {None, Dangling}
                    => OnSource(v, p, v.outputs[p].mirrorOf)
    <3>1. CASE p = only
      BY <1>9, <3>1
    <3>2. CASE p = o
      BY <1>4, <1>6, <1>9, <3>2
    <3>3. CASE p # only /\ p # o
      <4>1. v.outputs[p] = s.outputs[p] /\ p \in DOMAIN s.outputs
        BY <1>4, <1>9, <3>3
      <4>2. ASSUME s.outputs[p].mirrorOf \notin {None, Dangling}
            PROVE  OnSource(v, p, s.outputs[p].mirrorOf)
        <5> DEFINE src == s.outputs[p].mirrorOf
        <5>1. OnSource(s, p, src)
          BY <1>1, <4>1, <4>2
        <5>2. src # o
          BY <1>9, <3>3, <4>1
        <5> HIDE DEF src
        <5>3. src \in DOMAIN s.outputs /\ s.outputs[src].kind # "vnc"
          BY <5>1 DEF OnSource
        <5>4. v.outputs[src] = s.outputs[src]
          BY <1>4, <1>9, <5>2, <5>3
        <5>5. OnSource(v, p, src)
          BY <1>9, <4>1, <5>1, <5>3, <5>4 DEF OnSource
        <5> QED BY <5>5 DEF src
      <4> QED BY <1>1, <4>1, <4>2
    <3> QED BY <3>1, <3>2, <3>3
  <2>3. Mirroring(v)
    BY <2>2 DEF Mirroring
  <2> QED BY <1>9, <2>1, <2>3, ReshapedIsGood
<1>10. t \in {w : r \in {p \in followers : w.outputs[p].mirrorOf # o}}
            \cup {followed(r) : r \in {p \in followers : w.outputs[p].mirrorOf \in {o, Dangling}}}
            \cup (IF followers = {} THEN {w} ELSE {})
  BY Zenon DEF MirrorOnOutputResized, w
<1>11. CASE t = w /\ \A p \in followers : w.outputs[p].mirrorOf # o
  <2>1. \A p \in DOMAIN s.outputs : s.outputs[p].mirrorOf # o
    BY <1>4, <1>6, <1>7, <1>11
  <2>2. Mirroring(w)
    <3> SUFFICES ASSUME NEW p \in DOMAIN w.outputs
                 PROVE  /\ DOMAIN w.outputs[p] = OutputFields
                        /\ w.outputs[p].mirrorOf # None => w.outputs[p].kind = "vnc"
                        /\ w.outputs[p].mirrorOf \notin {None, Dangling}
                             => OnSource(w, p, w.outputs[p].mirrorOf)
      BY DEF Mirroring
    <3>1. CASE p = o
      BY <1>4, <1>6, <3>1
    <3>2. CASE p # o
      <4>1. w.outputs[p] = s.outputs[p] /\ p \in DOMAIN s.outputs
        BY <1>4, <3>2
      <4>2. ASSUME s.outputs[p].mirrorOf \notin {None, Dangling}
            PROVE  OnSource(w, p, s.outputs[p].mirrorOf)
        <5> DEFINE src == s.outputs[p].mirrorOf
        <5>1. OnSource(s, p, src) /\ src # o
          BY <1>1, <2>1, <4>1, <4>2
        <5> HIDE DEF src
        <5>2. src \in DOMAIN s.outputs
          BY <5>1 DEF OnSource
        <5>3. w.outputs[src] = s.outputs[src]
          BY <1>4, <5>1, <5>2
        <5>4. OnSource(w, p, src)
          BY <1>4, <4>1, <5>1, <5>3 DEF OnSource
        <5> QED BY <5>4 DEF src
      <4> QED BY <1>1, <4>1, <4>2
    <3> QED BY <3>1, <3>2
  <2>3. \A p \in DOMAIN s.outputs : w.outputs[p].kind = s.outputs[p].kind
    BY <1>4
  <2>4. Good(w, {}, {}, {})
    BY <1>3, <1>4, <1>5, <2>2, <2>3, ReshapedIsGood
  <2> QED BY <1>3, <1>11, <2>4
<1>12. CASE \E r \in followers : w.outputs[r].mirrorOf \in {o, Dangling} /\ t = followed(r)
  <2>1. PICK r \in followers : w.outputs[r].mirrorOf \in {o, Dangling} /\ t = followed(r)
    BY <1>12
  <2>2. r \in DOMAIN s.outputs /\ r \in MirrorOf(o)
    <3>1. PICK h \in MirrorOf(o) : r = s.on[h] /\ r # None
      BY <1>3
    <3>2. h \in HeadName /\ KindOf[h] = "vnc"
      BY <1>1, <3>1, MirrorsAreRemote DEF ConnectorsInv
    <3>3. r = h /\ r \in DOMAIN s.outputs
      BY <3>1, <3>2 DEF Good, Attached, Simple
    <3> QED BY <3>1, <3>3
  <2>3. r # o
    BY <1>2, <1>4, <1>6, <2>1, NamesAssumption
  <2>4. w.outputs[r] = s.outputs[r] /\ s.outputs[r].kind = "vnc"
    BY <1>1, <1>2, <1>4, <2>1, <2>2, <2>3, NamesAssumption
  <2> DEFINE m == [MirrorModeline(w, o, r) EXCEPT !.x = w.outputs[o].x]
             mm == MirrorModeline(w, o, r)
  <2>5. /\ DOMAIN mm = OutputFields
        /\ mm.size = [i \in 1 .. 2 |-> w.outputs[o].size[i] \div w.outputs[r].scale]
        /\ mm.scale = w.outputs[o].scale
        /\ mm.kind = "vnc" /\ mm.mirrorOf = s.outputs[r].mirrorOf
        /\ mm.resizeable = s.outputs[r].resizeable
    <3> HIDE DEF mm
    <3>1. DOMAIN w.outputs[r] = OutputFields
      BY <1>1, <2>2, <2>4
    <3>2. {"size", "scale"} \subseteq DOMAIN w.outputs[r]
      BY <3>1 DEF OutputFields
    <3>3. /\ DOMAIN mm = DOMAIN w.outputs[r]
          /\ mm.size = [i \in 1 .. 2 |-> w.outputs[o].size[i] \div w.outputs[r].scale]
          /\ mm.scale = w.outputs[o].scale
          /\ \A key \in DOMAIN mm \ {"size", "scale"} : mm[key] = w.outputs[r][key]
      BY <3>2, ModelineIs DEF mm
    <3> QED BY <2>4, <3>1, <3>3 DEF OutputFields
  <2> HIDE DEF mm
  <2>6. m = [mm EXCEPT !.x = w.outputs[o].x]
    BY DEF mm
  <2> HIDE DEF m
  <2>7. /\ DOMAIN m = OutputFields
        /\ m.size = [i \in 1 .. 2 |-> w.outputs[o].size[i] \div w.outputs[r].scale]
        /\ m.scale = w.outputs[o].scale /\ m.x = w.outputs[o].x
        /\ m.kind = "vnc" /\ m.mirrorOf = s.outputs[r].mirrorOf
        /\ m.resizeable = s.outputs[r].resizeable
    BY <2>5, <2>6 DEF OutputFields
  <2>8. t = [w EXCEPT !.outputs[r] = m]
    BY <2>1 DEF m
  <2>9. /\ DOMAIN t = Fields /\ t.outputs = [w.outputs EXCEPT ![r] = m]
        /\ t.order = w.order /\ t.on = w.on /\ t.known = w.known /\ t.changed = w.changed
        /\ t.failed = w.failed /\ t.refused = w.refused
    BY <1>3, <2>8 DEF Fields
  <2>10. /\ DOMAIN t.outputs = DOMAIN s.outputs /\ t.outputs[r] = m
         /\ \A p \in DOMAIN s.outputs : p # r => t.outputs[p] = w.outputs[p]
         /\ t.outputs[o] = w.outputs[o]
    BY <1>4, <2>2, <2>3, <2>9
  <2>11. Flagged(t)
    BY <1>5, <2>9 DEF Flagged
  <2>12. m.mirrorOf = o => OnSource(t, r, o)
    <3> SUFFICES ASSUME m.mirrorOf = o PROVE OnSource(t, r, o)
      OBVIOUS
    <3>1. OnSource(s, r, o)
      BY <1>1, <1>2, <2>2, <2>7
    <3>2. s.outputs[r].scale = s.outputs[o].scale /\ ~s.outputs[r].resizeable
      BY <3>1 DEF OnSource
    <3>3. /\ t.outputs[r].size = [i \in 1 .. 2 |-> t.outputs[o].size[i] \div t.outputs[o].scale]
          /\ t.outputs[r].scale = t.outputs[o].scale /\ t.outputs[r].x = t.outputs[o].x
      <4>1. /\ w.outputs[r].scale = w.outputs[o].scale
            /\ t.outputs[o] = w.outputs[o] /\ t.outputs[r] = m
        BY <1>4, <2>4, <2>10, <3>2
      <4> QED BY <2>7, <4>1
    <3>4. ~t.outputs[r].resizeable
      BY <2>7, <2>10, <3>2
    <3>5. t.outputs[o].kind # "vnc" /\ o \in DOMAIN t.outputs
      BY <1>4, <2>10
    <3> QED BY <2>2, <3>3, <3>4, <3>5 DEF OnSource
  <2>13. \A p \in DOMAIN s.outputs : s.outputs[p].mirrorOf = o => p = r
    BY <1>7, <1>8, <2>1
  <2>14. m.mirrorOf \in {o, Dangling}
    BY <2>1, <2>4, <2>7
  <2>15. Good(t, {}, {}, {})
    BY <1>3, <1>9, <2>2, <2>3, <2>4, <2>7, <2>9, <2>10, <2>11, <2>12, <2>13, <2>14
  <2> QED BY <1>3, <2>9, <2>15
<1>13. \/ t = w /\ \A p \in followers : w.outputs[p].mirrorOf # o
       \/ \E r \in followers : w.outputs[r].mirrorOf \in {o, Dangling} /\ t = followed(r)
  <2> HIDE DEF followed, followers
  <2>1. CASE \E r \in followers : t = w /\ w.outputs[r].mirrorOf # o
    BY <1>8, <2>1
  <2>2. CASE followers = {} /\ t = w
    BY <2>2
  <2> QED BY <1>10, <2>1, <2>2
<1> QED BY <1>11, <1>12, <1>13

LEMMA ResizedKeeps ==
  ASSUME HeadsInv, NEW o \in OutputName, NEW size, Resized(o, size)
  PROVE  HeadsInv' /\ on' = on
<1> PICK t \in MirrorOnOutputResized([State EXCEPT !.outputs[o].size = size], o) : Become(t)
  BY DEF Resized
<1>1. /\ SameHeads /\ flush = "no" /\ UNCHANGED <<staged, flush, todo>>
      /\ o \in DOMAIN outputs /\ outputs[o].kind # "vnc"
  BY DEF Resized, SameHeads
<1>2. PolicySound /\ ConnectorsInv /\ Good(State, {}, {}, {})
  BY <1>1, NothingStaged DEF HeadsInv
<1>3. Good(t, {}, {}, {}) /\ t.on = on
  BY <1>1, <1>2, StateIs, ResizeIsGood
<1> QED BY <1>1, <1>3, QuietlyBecame DEF Become

LEMMA HotplugKeeps ==
  ASSUME HeadsInv, Hotplug PROVE HeadsInv' /\ on' = on
<1>1. ASSUME NEW h \in HeadName, Plugged(h) PROVE HeadsInv' /\ on' = on
  BY <1>1, PluggedKeeps
<1>2. ASSUME NEW h \in HeadName, MonitorChanged(h) PROVE HeadsInv' /\ on' = on
  BY <1>2, MonitorChangedKeeps
<1>3. ASSUME NEW o \in OutputName, NEW size \in ResizedTo, Resized(o, size)
      PROVE  HeadsInv' /\ on' = on
  BY <1>3, ResizedKeeps
<1> QED BY <1>1, <1>2, <1>3, HeadsChangedKeeps DEF Hotplug, HeadsChangedDue

-------------------------------------------------------------------------------
(***************************************************************************)
(* Loading backends.                                                       *)
(***************************************************************************)
\* The heads of a windowed backend are heads: there are names for them all.
LEMMA WindowedAreHeads ==
  ASSUME NEW kind \in {"x11", "wayland"}, NEW numberOn \in BOOLEAN,
         plan.outputCount \in Int, 1 <= Len(DefaultNames[kind]),
         plan.outputCount <= Len(DefaultNames[kind])
  PROVE  WindowedHeads(kind, numberOn) \in Seq(HeadName)
<1> DEFINE count == IF plan.outputCount < 1 THEN 1 ELSE plan.outputCount
           name(i) == policy.rules[i].name
           sections == {i \in DOMAIN policy.rules : name(i) \in Prefixed /\ KindOf[name(i)] = kind}
           nth(n) == {i \in sections : Cardinality({j \in sections : j <= i}) = n}
           without(n) == {m \in 1 .. n : nth(m) = {}}
           unnamed(n) == Cardinality(without(n))
           head(n) == IF nth(n) # {} THEN name(CHOOSE i \in nth(n) : TRUE)
                      ELSE DefaultNames[kind][IF numberOn THEN n ELSE unnamed(n)]
           heads == [n \in 1 .. count |-> head(n)]
<1>1. /\ DefaultNames[kind] \in Seq(HeadName) /\ Len(DefaultNames[kind]) \in Nat
      /\ count \in Nat /\ count <= Len(DefaultNames[kind])
      /\ Prefixed \subseteq HeadName
  BY BackendsAssumption
<1>2. WindowedHeads(kind, numberOn) = heads
  BY Zenon DEF WindowedHeads
<1> HIDE DEF count
<1>3. ASSUME NEW n \in 1 .. count PROVE head(n) \in HeadName
  <2>1. CASE nth(n) # {}
    <3> DEFINE i == CHOOSE i \in nth(n) : TRUE
    <3>1. i \in nth(n)
      BY <2>1
    <3>2. i \in sections
      BY <3>1
    <3>3. name(i) \in Prefixed
      BY <3>2
    <3> HIDE DEF nth, sections
    <3> QED BY <1>1, <2>1, <3>3
  <2>2. CASE nth(n) = {}
    <3>1. n \in without(n) /\ without(n) \in SUBSET (1 .. n)
      BY <2>2
    <3> HIDE DEF nth
    <3>2. unnamed(n) \in 1 .. n
      <4> DEFINE few == without(n)
      <4>1. n \in few /\ few \in SUBSET (1 .. n) /\ n \in Nat
        BY <1>1, <3>1
      <4> HIDE DEF few
      <4>2. IsFiniteSet(1 .. n) /\ Cardinality(1 .. n) = n
        BY <4>1, FS_Interval
      <4>3. IsFiniteSet(few) /\ Cardinality(few) <= n
        BY <4>1, <4>2, FS_Subset
      <4>4. Cardinality(few) \in Nat /\ Cardinality(few) # 0
        BY <4>1, <4>3, FS_CardinalityType, FS_EmptySet
      <4> QED BY <4>1, <4>3, <4>4 DEF few
    <3> HIDE DEF without
    <3> DEFINE k == IF numberOn THEN n ELSE unnamed(n)
    <3>3. k \in 1 .. Len(DefaultNames[kind])
      BY <1>1, <3>2
    <3> HIDE DEF k
    <3>4. DefaultNames[kind][k] \in HeadName
      BY <1>1, <3>3
    <3> QED BY <2>2, <3>4 DEF k
  <2> QED BY <2>1, <2>2
<1> HIDE DEF head
<1>4. heads \in [1 .. count -> HeadName]
  BY <1>3
<1>5. heads \in Seq(HeadName)
  <2> HIDE DEF heads
  <2> QED BY <1>1, <1>4, SeqDef
<1> QED BY <1>2, <1>5

LEMMA HeadsOfAreHeads ==
  ASSUME PlanInv, plan # None, NEW backend \in BackendNames \ {"rdp", "drm"}
  PROVE  HeadsOf(backend) \in Seq(HeadName)
<1>1. PICK r \in Requests : ~IsError(PlanOf(r)) /\ plan = PlanOf(r)
  BY DEF PlanInv, Planned
<1>2. /\ plan.outputCount \in Int
      /\ \A kind \in {"x11", "wayland"} :
           /\ 1 <= Len(DefaultNames[kind])
           /\ plan.outputCount <= Len(DefaultNames[kind])
  BY <1>1, PlansAreSound DEF Planned
<1>3. /\ WindowedHeads("x11", TRUE) \in Seq(HeadName)
      /\ WindowedHeads("wayland", FALSE) \in Seq(HeadName)
  BY <1>2, WindowedAreHeads
<1>4. /\ <<"headless">> \in Seq(HeadName) /\ <<"vnc">> \in Seq(HeadName)
      /\ <<"pipewire">> \in Seq(HeadName) /\ <<>> \in Seq(HeadName)
  BY BackendsAssumption
<1>5. backend \in {"headless", "x11", "wayland", "vnc", "pipewire"}
  BY DEF BackendNames
<1>6. \A flag : (IF flag THEN <<>> ELSE <<"headless">>) \in Seq(HeadName)
  BY <1>4
<1>7. HeadsOf(backend) \in {<<>>, <<"headless">>, <<"vnc">>, <<"pipewire">>,
                            WindowedHeads("x11", TRUE), WindowedHeads("wayland", FALSE)}
  BY <1>5 DEF HeadsOf
<1> QED BY <1>3, <1>4, <1>7

\* Nothing is up while backends load.
LEMMA LoadedKeeps ==
  ASSUME HeadsInv, flush = "no", DOMAIN outputs = {}, NEW heads \in Seq(HeadName),
         NEW unplugged \in SUBSET Pluggable, Loaded(heads, unplugged)
  PROVE  HeadsInv' /\ on' = on
<1>1. /\ headList' = headList \o heads
      /\ changed' = changed \cup ToSet(heads)
      /\ connected' = connected \cup (ToSet(heads) \ unplugged)
      /\ UNCHANGED <<policy, on, outputs, order, known, staged, flush, todo, initFailed, refused>>
  BY DEF Loaded
<1>2. /\ ConnectorsInv /\ PolicySound /\ StagedInv /\ FlushInv
      /\ Good(State, {}, {}, {})
  BY NothingStaged DEF HeadsInv
<1>3. headList \in Seq(HeadName) /\ ToSet(headList) = Present
  BY <1>2 DEF ConnectorsInv, Present
<1>4. /\ headList \o heads \in Seq(HeadName)
      /\ ToSet(headList \o heads) = Present \cup ToSet(heads)
  BY <1>3, Concatenated
<1>5. headList' \in Seq(HeadName) /\ Present' = Present \cup ToSet(heads)
  BY <1>1, <1>4 DEF Present
<1>6. ConnectorsInv'
  <2>1. \A h \in unplugged : KindOf[h] # "vnc"
    BY NamesAssumption
  <2> QED BY <1>1, <1>2, <1>5, <2>1 DEF ConnectorsInv
<1>7. PolicySound'
  BY <1>1, <1>2 DEF PolicySound
<1>8. FlushInv'
  BY <1>1, <1>2, <1>5 DEF FlushInv
<1>9. StagedInv'
  BY <1>1, <1>2 DEF StagedInv, OutputName
<1>10. \A h \in HeadName : on[h] = None
  BY <1>2, StateIs DEF Good, Attached
<1>11. Flagged(State)' /\ Listed(State)'
  BY <1>1, <1>2, <1>5 DEF Good, Flagged, Listed, State, Fields, OutputName
<1>12. Attached(State, {})'
  BY <1>1, <1>2, <1>10 DEF Good, Attached, State, OutputName
<1>13. Mirroring(State)'
  BY <1>1 DEF Mirroring, State
<1>14. ASSUME NEW h, ExcusedIn(State, h, {}) PROVE ExcusedIn(State, h, {})'
  <2>1. /\ (h \in refused => h \in refused')
        /\ (IsOff(RuleFor(policy, h)) => IsOff(RuleFor(policy', h)))
        /\ Deferred(h) => Deferred(h)'
        /\ DrmPlan(h) = DrmPlan(h)'
    BY <1>1 DEF Deferred, DrmPlan
  <2>2. WaitsIn(State, h, {})'
    BY <1>1 DEF WaitsIn, State
  <2> QED BY <1>14, <2>1, <2>2 DEF ExcusedIn, State, Simple
<1>15. Settled(State, StagedHeads, {})'
  <2>1. Settled(State, {}, {})
    BY <1>2 DEF Good
  <2> SUFFICES ASSUME NEW h \in Present' \ changed'
               PROVE  IF h \in connected' THEN Served(State, h, {})'
                      ELSE on'[h] # None => ~Simple(h) /\ DrmForceOn(policy', h)
    BY DEF Settled, State, Simple
  <2>2. h \in Present \ changed /\ (h \in connected' => h \in connected) /\ h \in HeadName
    BY <1>1, <1>2, <1>5, PresentAreHeads
  <2>3. h \in connected => Served(State, h, {})
    BY <2>1, <2>2, StateIs DEF Settled
  <2>4. Served(State, h, {}) => ExcusedIn(State, h, {})
    BY <1>10, <2>2, StateIs DEF Served
  <2> QED BY <1>1, <1>10, <1>14, <2>2, <2>3, <2>4 DEF Served
<1>16. Due(State, {})'
  <2>1. ASSUME NEW h \in Present', Deferred(h)' PROVE ExcusedIn(State, h, {})'
    <3>1. WaitsIn(State, h, {})'
      BY <1>1 DEF WaitsIn, State
    <3>2. KindOf[h] = "vnc"
      BY <2>1 DEF Deferred
    <3> QED BY <2>1, <3>1, <3>2 DEF ExcusedIn, Simple
  <2> QED BY <2>1 DEF Due, Served
<1>17. Good(State, StagedHeads, {}, {})'
  BY <1>11, <1>12, <1>13, <1>15, <1>16 DEF Good
<1> QED BY <1>1, <1>6, <1>7, <1>8, <1>9, <1>17 DEF HeadsInv

-------------------------------------------------------------------------------
(***************************************************************************)
(* A compositor without heads.                                             *)
(***************************************************************************)
Bare ==
  /\ PolicySound /\ headList = <<>> /\ connected = {} /\ changed = {} /\ known = {}
  /\ refused = {} /\ order = <<>> /\ DOMAIN outputs = {}
  /\ on \in [HeadName -> {None}] /\ staged \in [OutputName -> {{}}]
  /\ flush = "no" /\ todo = <<>> /\ initFailed = FALSE

LEMMA BareIsSound == Bare => HeadsInv
<1> SUFFICES ASSUME Bare PROVE HeadsInv
  OBVIOUS
<1>1. Present = {} /\ ToSet(<<>>) = {}
  BY DEF Bare, Present, ToSet
<1>2. StagedHeads = {}
  BY DEF Bare, StagedHeads
<1>3. ConnectorsInv /\ FlushInv /\ StagedInv
  BY <1>1 DEF Bare, ConnectorsInv, FlushInv, StagedInv
<1>4. Flagged(State)
  BY StateIs, <1>1 DEF Bare, Flagged
<1>5. Attached(State, {}) /\ Mirroring(State)
  BY StateIs DEF Bare, Attached, Mirroring
<1>6. Listed(State)
  BY <1>1, StateIs DEF Bare, Listed
<1>7. Settled(State, {}, {}) /\ Due(State, {})
  BY <1>1 DEF Settled, Due
<1> QED BY <1>2, <1>3, <1>4, <1>5, <1>6, <1>7 DEF HeadsInv, Good, Bare

LEMMA BareStaysSound == Bare' => HeadsInv'
BY BareIsSound, PTL

LEMMA NoHeadsIsBare == NoHeads => Bare'
BY DEF NoHeads, Bare, PolicySound, OutputName

-------------------------------------------------------------------------------
(***************************************************************************)
(* The heads in the life of the program.                                   *)
(***************************************************************************)
MainInv ==
  /\ phase \in {"startup", "flushing", "run", "drop", "ended"}
  /\ at \in 1 .. 29
  /\ held \subseteq Resource /\ leaked \subseteq Resource
  /\ masked \in BOOLEAN /\ stop \in BOOLEAN
  /\ exit \in {None, "success", "failure", "killed"}

FrontInv == IInv /\ MainInv /\ HeadsInv /\ PhaseInv /\ PlanInv

LEMMA SameHeadsStaySound ==
  ASSUME HeadsInv, UNCHANGED headVars PROVE HeadsInv' /\ on' = on
<1>1. SameHeads /\ UNCHANGED <<changed, on, outputs, order, known, staged, flush, todo,
                                 initFailed, refused>>
  BY DEF headVars, SameHeads
<1>2. FlushInv'
  BY <1>1, SameDecisions DEF HeadsInv, FlushInv
<1>3. flush' = "no" => \A g \in OutputName : staged[g] = {}
  BY <1>1 DEF HeadsInv, StagedInv
<1> QED BY <1>1, <1>2, <1>3, FlushMovesOn

\* Steps of startup that leave heads and plan alone.
LEMMA AdvancingKeepsPhase ==
  ASSUME FrontInv, phase = "startup", at # 25, NEW step, Advance(step),
         UNCHANGED <<headVars, request, plan, toLoad>>
  PROVE  PhaseInv' /\ PlanInv'
<1>1. /\ at \in 1 .. 28 /\ at' = at + 1 /\ phase' \in {"startup", "run"}
      /\ UNCHANGED <<flush, initFailed, outputs, headList, changed, request, plan, toLoad>>
  BY DEF FrontInv, IInv, StartupInv, Advance, headVars
<1>2. PhaseInv'
  BY <1>1 DEF FrontInv, PhaseInv
<1>3. at' <= 8 => at <= 8
  BY <1>1
<1>4. PlanInv'
  BY <1>1, <1>3 DEF FrontInv, PlanInv, Planned
<1> QED BY <1>2, <1>4

\* Steps that leave startup, or were never in it.
LEMMA OtherPhasesKeep ==
  ASSUME FrontInv, phase' \notin {"startup", "flushing"}, UNCHANGED <<request, plan, toLoad>>
  PROVE  PhaseInv' /\ PlanInv'
BY DEF FrontInv, PhaseInv, PlanInv, Planned

LEMMA StepsAreResources ==
  ASSUME NEW n \in 1 .. 28, Startup[n] \notin Transient PROVE Startup[n] \in Resource
<1>1. Startup[n] \in Step
  BY StartupLength DEF Step, ToSet, Startup
<1> QED BY <1>1 DEF Resource

LEMMA AcquireKeepsAll ==
  ASSUME FrontInv, phase = "startup", Acquire(Startup[at]) PROVE FrontInv' /\ on' = on
<1>1. at \in 1 .. 28 /\ at # 25
  BY StartupOrder DEF FrontInv, IInv, StartupInv, Acquire, Special
<1>2. MainInv'
  <2>1. /\ Advance(Startup[at])
        /\ held' = IF Startup[at] \in Transient THEN held ELSE held \cup {Startup[at]}
        /\ masked' = (masked \/ Startup[at] = "signals")
        /\ UNCHANGED <<leaked, stop, exit>>
    BY DEF Acquire
  <2>2. masked' \in BOOLEAN
    BY <2>1 DEF FrontInv, MainInv
  <2>3. held' \subseteq Resource
    BY <1>1, <2>1, StepsAreResources DEF FrontInv, MainInv
  <2> QED BY <1>1, <2>1, <2>2, <2>3, StartupLength DEF FrontInv, MainInv, Advance
<1>3. HeadsInv' /\ on' = on
  BY SameHeadsStaySound DEF FrontInv, Acquire
<1>4. PhaseInv' /\ PlanInv'
  BY <1>1, AdvancingKeepsPhase DEF Acquire
<1> QED BY <1>2, <1>3, <1>4, AcquireKeeps DEF FrontInv

LEMMA SkipKeepsAll ==
  ASSUME FrontInv, phase = "startup", Skip(Startup[at]) PROVE FrontInv' /\ on' = on
<1>1. at \in 1 .. 28 /\ at # 25
  BY StartupOrder DEF FrontInv, IInv, StartupInv, Skip, Skipped, Optional
<1>2. MainInv'
  BY <1>1, StartupLength DEF FrontInv, MainInv, Skip, Advance
<1>3. HeadsInv' /\ on' = on
  BY SameHeadsStaySound DEF FrontInv, Skip
<1>4. PhaseInv' /\ PlanInv'
  BY <1>1, AdvancingKeepsPhase DEF Skip
<1> QED BY <1>2, <1>3, <1>4, SkipKeeps DEF FrontInv

\* A failure hands all it held to the drop, or leaks it.
LEMMA FailingKeepsAll ==
  ASSUME FrontInv, NEW step, Failing(step), masked' \in BOOLEAN
  PROVE  MainInv' /\ HeadsInv' /\ on' = on /\ PhaseInv' /\ PlanInv'
<1>1. MainInv'
  BY DEF FrontInv, MainInv, Failing
<1>2. HeadsInv' /\ on' = on
  BY SameHeadsStaySound DEF FrontInv, Failing
<1>3. PhaseInv' /\ PlanInv'
  BY OtherPhasesKeep DEF Failing
<1> QED BY <1>1, <1>2, <1>3

LEMMA RefuseKeepsAll ==
  ASSUME FrontInv, phase = "startup", Refuse(Startup[at]) PROVE FrontInv' /\ on' = on
<1>1. Failing(Startup[at])
  BY DEF Refuse
<1>2. masked' \in BOOLEAN
  <2>1. masked' \in {masked, masked \/ Startup[at] = "signals"} /\ masked \in BOOLEAN
    BY DEF Refuse, FrontInv, MainInv
  <2> QED BY <2>1
<1> QED BY <1>1, <1>2, FailingKeepsAll, RefuseKeeps DEF FrontInv

LEMMA LoadKeepsAll ==
  ASSUME FrontInv, LoadSimple \/ LoadDrm PROVE FrontInv' /\ on' = on
<1>1. /\ phase = "startup" /\ Startup[at] = "backends" /\ toLoad # <<>>
      /\ UNCHANGED <<phase, at, request, plan, held, leaked, masked, stop, exit>>
      /\ UNCHANGED <<flush, initFailed, outputs>>
      /\ toLoad' = Tail(toLoad)
  BY DEF LoadSimple, LoadDrm, Here, Loaded
<1>2. at = 20
  <2>1. at \in 1 .. 28
    BY <1>1 DEF FrontInv, IInv, StartupInv
  <2>2. Startup[at] = Startup[20]
    BY <1>1, StartupOrder
  <2> QED BY <2>1, <2>2, StepsDiffer
<1>3. flush = "no" /\ DOMAIN outputs = {} /\ ~initFailed
  BY <1>1, <1>2 DEF FrontInv, PhaseInv
<1>4. toLoad \in Seq(BackendNames \ {"rdp"}) /\ plan # None
  BY <1>1 DEF FrontInv, PlanInv
<1>5. toLoad' \in Seq(BackendNames \ {"rdp"}) /\ toLoad[1] \in BackendNames \ {"rdp"}
  BY <1>1, <1>4
<1>6. HeadsInv' /\ on' = on
  <2>1. CASE LoadSimple
    <3>1. Loaded(HeadsOf(toLoad[1]), {}) /\ toLoad[1] \in BackendNames \ {"rdp", "drm"}
      BY <1>5, <2>1 DEF LoadSimple
    <3>2. HeadsOf(toLoad[1]) \in Seq(HeadName)
      BY <1>4, <3>1, HeadsOfAreHeads DEF FrontInv
    <3> QED BY <1>3, <3>1, <3>2, LoadedKeeps DEF FrontInv
  <2>2. CASE LoadDrm
    <3>1. PICK unplugged \in SUBSET Pluggable : Loaded(Connectors, unplugged)
      BY <2>2 DEF LoadDrm
    <3> QED BY <1>3, <3>1, BackendsAssumption, LoadedKeeps DEF FrontInv
  <2> QED BY <2>1, <2>2
<1>7. PhaseInv' /\ MainInv'
  BY <1>1, <1>2, <1>3 DEF FrontInv, PhaseInv, MainInv
<1>8. PlanInv'
  BY <1>1, <1>2, <1>4, <1>5 DEF FrontInv, PlanInv, Planned
<1> QED BY <1>6, <1>7, <1>8, LoadKeeps DEF FrontInv

LEMMA BackendsDoneKeepsAll ==
  ASSUME FrontInv, BackendsDone PROVE FrontInv' /\ on' = on
<1>1. /\ phase = "startup" /\ Startup[at] = "backends" /\ Advance("backends")
      /\ held' = held \cup {"backends"}
      /\ UNCHANGED <<headVars, request, plan, toLoad, leaked, masked, stop, exit>>
  BY DEF BackendsDone, Here
<1>2. at = 20
  BY <1>1, StartupOrder DEF FrontInv, IInv, StartupInv
<1>3. "backends" \in Resource
  BY <1>1, <1>2, StepsAreResources DEF Transient
<1>4. MainInv'
  BY <1>1, <1>2, <1>3, StartupLength DEF FrontInv, MainInv, Advance
<1>5. HeadsInv' /\ on' = on
  BY <1>1, SameHeadsStaySound DEF FrontInv
<1>6. PhaseInv' /\ PlanInv'
  BY <1>1, <1>2, AdvancingKeepsPhase
<1> QED BY <1>4, <1>5, <1>6, BackendsDoneKeeps DEF FrontInv

LEMMA AutolaunchKeepsAll ==
  ASSUME FrontInv, Autolaunch PROVE FrontInv' /\ on' = on
<1>1. /\ phase = "startup" /\ Startup[at] = "autolaunch" /\ Advance("autolaunch")
      /\ UNCHANGED <<headVars, request, plan, toLoad, held, leaked, masked, stop, exit>>
  BY DEF Autolaunch, Here
<1>2. at \in 1 .. 28 /\ at # 25
  BY <1>1, StartupOrder DEF FrontInv, IInv, StartupInv
<1>3. MainInv'
  BY <1>1, <1>2, StartupLength DEF FrontInv, MainInv, Advance
<1>4. HeadsInv' /\ on' = on
  BY <1>1, SameHeadsStaySound DEF FrontInv
<1>5. PhaseInv' /\ PlanInv'
  BY <1>1, <1>2, AdvancingKeepsPhase
<1> QED BY <1>3, <1>4, <1>5, AutolaunchKeeps DEF FrontInv

LEMMA StartFlushKeepsAll ==
  ASSUME FrontInv, StartFlush PROVE FrontInv' /\ on' = on
<1>1. /\ phase = "startup" /\ Startup[at] = "flush" /\ HeadsChanged /\ phase' = "flushing"
      /\ UNCHANGED <<at, request, plan, toLoad, held, leaked, masked, stop, exit>>
  BY DEF StartFlush, Here
<1>2. HeadsInv' /\ on' = on
  BY <1>1, HeadsChangedKeeps DEF FrontInv
<1>3. flush' = "heads"
  BY <1>1 DEF HeadsChanged
<1>4. MainInv' /\ PhaseInv' /\ PlanInv'
  BY <1>1, <1>3 DEF FrontInv, MainInv, PhaseInv, PlanInv, Planned
<1> QED BY <1>2, <1>4, StartFlushKeeps DEF FrontInv

LEMMA FlushDoneKeepsAll ==
  ASSUME FrontInv, FlushDone PROVE FrontInv' /\ on' = on
<1>1. phase = "flushing" /\ flush = "no" /\ at = 25
  BY DEF FlushDone, FrontInv, IInv, StartupInv
<1>2. CASE initFailed
  <2>1. Failing("flush") /\ masked' \in BOOLEAN
    BY <1>2 DEF FlushDone, FrontInv, MainInv
  <2> QED BY <2>1, FailingKeepsAll, FlushDoneKeeps DEF FrontInv
<1>3. CASE ~initFailed
  <2>1. /\ at' = 26 /\ phase' = "startup"
        /\ UNCHANGED <<headVars, request, plan, toLoad, held, leaked, masked, stop, exit>>
    BY <1>1, <1>3, StartupLength DEF FlushDone, Advance
  <2>2. HeadsInv' /\ on' = on
    BY <2>1, SameHeadsStaySound DEF FrontInv
  <2>3. UNCHANGED <<flush, initFailed, outputs, headList, changed>>
    BY <2>1 DEF headVars
  <2>4. MainInv' /\ PhaseInv' /\ PlanInv'
    BY <1>1, <1>3, <2>1, <2>3 DEF FrontInv, MainInv, PhaseInv, PlanInv, Planned
  <2> QED BY <2>2, <2>4, FlushDoneKeeps DEF FrontInv
<1> QED BY <1>2, <1>3

\* The policy takes effect before there are any heads.
LEMMA ConfigurationKeepsAll ==
  ASSUME FrontInv, Configure \/ RefuseConfiguration PROVE FrontInv' /\ on' = on
<1>1. CASE RefuseConfiguration
  <2>1. Failing("configure") /\ masked' \in BOOLEAN
    BY <1>1 DEF RefuseConfiguration, FrontInv, MainInv
  <2> QED BY <1>1, <2>1, FailingKeepsAll, ConfigurationKeeps DEF FrontInv
<1>2. CASE Configure
  <2>1. /\ phase = "startup" /\ Startup[at] = "configure"
        /\ ~IsError(PlanOf(request)) /\ plan' = PlanOf(request)
        /\ policy' = plan'.policy /\ toLoad' = plan'.backends /\ request' = None
        /\ Advance("configure")
        /\ UNCHANGED <<headList, connected, changed, on, outputs, order, known, staged,
                       flush, todo, initFailed, refused>>
        /\ UNCHANGED <<held, leaked, masked, stop, exit>>
    BY <1>2 DEF Configure, Here
  <2>2. at = 8 /\ at' = 9 /\ phase' = "startup"
    BY <2>1, StartupOrder, StartupLength DEF FrontInv, IInv, StartupInv, Advance
  <2>3. request \in Requests
    BY <2>1, <2>2 DEF FrontInv, PlanInv
  <2>4. Planned(plan')
    BY <2>1, <2>3 DEF Planned
  <2>5. plan' # None
    BY <2>1, <2>3, RequestsAssumption
  <2>6. /\ toLoad' \in Seq(BackendNames) /\ "rdp" \notin ToSet(toLoad')
        /\ PolicySound'
    <3> DEFINE p == plan'
    <3>1. Planned(p) /\ policy' = p.policy /\ toLoad' = p.backends
      BY <2>1, <2>4
    <3> HIDE DEF p
    <3>2. /\ p.backends \in Seq(BackendNames) /\ "rdp" \notin ToSet(p.backends)
          /\ Len(p.policy.rules) \in Nat
          /\ DOMAIN p.policy.rules = 1 .. Len(p.policy.rules)
          /\ \A i \in DOMAIN p.policy.rules :
               p.policy.rules[i].mirrorOf # None => p.policy.rules[i].name = "vnc"
          /\ \A i \in DOMAIN p.policy.rules : p.policy.rules[i].cloneOf \in Group \cup {None}
      BY <3>1, PlansAreSound
    <3> QED BY <3>1, <3>2 DEF PolicySound
  <2>7. toLoad' \in Seq(BackendNames \ {"rdp"})
    <3> DEFINE list == toLoad'
    <3>1. list \in Seq(BackendNames) /\ "rdp" \notin ToSet(list)
      BY <2>6
    <3> HIDE DEF list
    <3>2. /\ Len(list) \in Nat /\ DOMAIN list = 1 .. Len(list)
          /\ list = [i \in 1 .. Len(list) |-> list[i]]
          /\ \A i \in 1 .. Len(list) : list[i] \in BackendNames
      BY <3>1
    <3>3. \A i \in 1 .. Len(list) : list[i] # "rdp"
      BY <3>1, <3>2 DEF ToSet
    <3>4. list \in [1 .. Len(list) -> BackendNames \ {"rdp"}]
      BY <3>2, <3>3
    <3>5. list \in Seq(BackendNames \ {"rdp"})
      BY <3>2, <3>4, SeqDef
    <3> QED BY <3>5 DEF list
  <2>8. headList = <<>> /\ flush = "no" /\ DOMAIN outputs = {} /\ ~initFailed
    BY <2>1, <2>2 DEF FrontInv, PhaseInv
  <2>9. HeadsInv'
    <3>1. Present = {}
      BY <2>8 DEF Present, ToSet
    <3>2. connected = {} /\ changed = {} /\ known = {} /\ refused = {}
      BY <3>1, StateIs DEF FrontInv, HeadsInv, ConnectorsInv, Good, Flagged
    <3>3. order = <<>>
      <4>1. order \in Seq(OutputName) /\ ToSet(order) = {}
        BY <2>8, StateIs DEF FrontInv, HeadsInv, Good, Listed
      <4>2. Len(order) \in Nat /\ (Len(order) # 0 => 1 \in DOMAIN order)
        BY <4>1
      <4>3. Len(order) = 0
        BY <4>1, <4>2 DEF ToSet
      <4> QED BY <4>1, <4>3
    <3>4. on \in [HeadName -> {None}]
      BY <2>8, StateIs DEF FrontInv, HeadsInv, Good, Attached
    <3>5. staged \in [OutputName -> {{}}]
      BY <2>8 DEF FrontInv, HeadsInv, StagedInv
    <3>6. todo = <<>>
      <4>1. todo \in Seq(HeadName) /\ ToSet(todo) = {}
        BY <3>1 DEF FrontInv, HeadsInv, FlushInv
      <4>2. Len(todo) \in Nat /\ (Len(todo) # 0 => 1 \in DOMAIN todo)
        BY <4>1
      <4>3. Len(todo) = 0
        BY <4>1, <4>2 DEF ToSet
      <4> QED BY <4>1, <4>3
    <3>7. initFailed = FALSE
      BY <2>8, StateIs DEF FrontInv, HeadsInv, Good, Flagged
    <3>8. Bare'
      BY <2>1, <2>6, <2>8, <3>2, <3>3, <3>4, <3>5, <3>6, <3>7 DEF Bare, OutputName
    <3> QED BY <3>8, BareStaysSound
  <2>10. MainInv'
    BY <2>1, <2>2 DEF FrontInv, MainInv
  <2>11. PhaseInv'
    BY <2>1, <2>2, <2>8 DEF PhaseInv
  <2>12. PlanInv'
    BY <2>1, <2>2, <2>4, <2>5, <2>7 DEF PlanInv, Planned
  <2> QED BY <1>2, <2>1, <2>9, <2>10, <2>11, <2>12, ConfigurationKeeps DEF FrontInv
<1> QED BY <1>1, <1>2

\* A flush that ends has visited every head that was marked.
LEMMA FlushKeepsAll ==
  ASSUME FrontInv, Flush PROVE FrontInv' /\ Unsurprised
<1>1. /\ phase \in {"flushing", "run"} /\ FlushStep
      /\ UNCHANGED <<phase, at, request, plan, toLoad, held, leaked, masked, stop, exit>>
  BY DEF Flush, mainVars
<1>2. HeadsInv' /\ Unsurprised
  BY <1>1, FlushStepKeeps DEF FrontInv
<1>3. flush # "no"
  BY <1>1 DEF FlushStep, EnableHead, LeaveHeadOff, DisableHead, PassHead, PrepareDrmHead,
              DisableDrmHead, PassDrmHead, Visiting, HeadsVisited, ProcessGroup,
              GroupsProcessed
<1>4. flush' = "no" => changed' = {}
  <2>1. CASE HeadsVisited
    BY <2>1 DEF HeadsVisited, FrontInv, HeadsInv, FlushInv, ToSet
  <2>2. CASE GroupsProcessed
    BY <2>2 DEF GroupsProcessed, FrontInv, HeadsInv, FlushInv
  <2>3. CASE ~HeadsVisited /\ ~GroupsProcessed
    <3>1. flush' = flush
      BY <1>1, <2>3 DEF FlushStep, EnableHead, LeaveHeadOff, DisableHead, PassHead,
                        PrepareDrmHead, DisableDrmHead, PassDrmHead, Visited, ProcessGroup
    <3> QED BY <1>3, <3>1
  <2> QED BY <2>1, <2>2, <2>3
<1>5. MainInv' /\ PhaseInv' /\ PlanInv'
  BY <1>1, <1>4 DEF FrontInv, MainInv, PhaseInv, PlanInv, Planned
<1> QED BY <1>2, <1>5, StutterKeeps DEF FrontInv

LEMMA PlugKeepsAll ==
  ASSUME FrontInv, Plug PROVE FrontInv' /\ on' = on
<1>1. /\ phase = "run" /\ Hotplug
      /\ UNCHANGED <<phase, at, request, plan, toLoad, held, leaked, masked, stop, exit>>
  BY DEF Plug, mainVars
<1>2. HeadsInv' /\ on' = on
  BY <1>1, HotplugKeeps DEF FrontInv
<1>3. PhaseInv' /\ PlanInv'
  BY <1>1, OtherPhasesKeep
<1>4. MainInv'
  BY <1>1 DEF FrontInv, MainInv
<1> QED BY <1>2, <1>3, <1>4, StutterKeeps DEF FrontInv

LEMMA ReleaseKeepsAll ==
  ASSUME FrontInv, NEW i \in DOMAIN Teardown, Release(i) PROVE FrontInv' /\ Unsurprised
<1>1. /\ phase = "drop" /\ held' = held \ Teardown[i]
      /\ IF "compositor" \in Teardown[i] THEN NoHeads ELSE UNCHANGED headVars
      /\ UNCHANGED <<phase, at, request, plan, toLoad, leaked, masked, stop, exit>>
  BY DEF Release
<1>2. HeadsInv' /\ Unsurprised
  <2>1. CASE NoHeads
    BY <2>1, NoHeadsIsBare, BareStaysSound DEF NoHeads, Unsurprised
  <2>2. CASE UNCHANGED headVars
    BY <2>2, SameHeadsStaySound DEF FrontInv, Unsurprised
  <2> QED BY <1>1, <2>1, <2>2
<1>3. PhaseInv' /\ PlanInv'
  BY <1>1, OtherPhasesKeep
<1>4. MainInv'
  BY <1>1 DEF FrontInv, MainInv
<1> QED BY <1>2, <1>3, <1>4, ReleaseKeeps DEF FrontInv

\* The ends of the program.
LEMMA EndingsKeepAll ==
  ASSUME FrontInv, End \/ HandleStop \/ WatchedClientExits PROVE FrontInv' /\ on' = on
<1>1. /\ phase' \in {"drop", "ended"} /\ exit' \in {exit, "success"}
      /\ stop' \in {stop, FALSE}
      /\ UNCHANGED <<headVars, at, request, plan, toLoad, held, leaked, masked>>
  BY DEF End, HandleStop, WatchedClientExits, Leave
<1>2. HeadsInv' /\ on' = on
  BY <1>1, SameHeadsStaySound DEF FrontInv
<1>3. PhaseInv' /\ PlanInv'
  BY <1>1, OtherPhasesKeep
<1>4. MainInv'
  BY <1>1 DEF FrontInv, MainInv
<1> QED BY <1>2, <1>3, <1>4, EndKeeps, LeaveKeeps DEF FrontInv

LEMMA StopKeepsAll ==
  ASSUME FrontInv, StopArrives PROVE FrontInv' /\ on' = on
<1>1. /\ \/ stop' = TRUE /\ UNCHANGED <<phase, exit>>
         \/ phase' = "ended" /\ exit' = "killed" /\ stop' = stop
      /\ UNCHANGED <<headVars, at, request, plan, toLoad, held, leaked, masked>>
  BY DEF StopArrives
<1>2. HeadsInv' /\ on' = on
  BY <1>1, SameHeadsStaySound DEF FrontInv
<1>3. PhaseInv' /\ PlanInv'
  BY <1>1 DEF FrontInv, PhaseInv, PlanInv, Planned, headVars
<1>4. MainInv'
  BY <1>1 DEF FrontInv, MainInv
<1> QED BY <1>2, <1>3, <1>4, StopKeeps DEF FrontInv

LEMMA StutterKeepsAll ==
  ASSUME FrontInv, UNCHANGED vars PROVE FrontInv' /\ on' = on
<1>1. /\ UNCHANGED headVars
      /\ UNCHANGED <<phase, at, request, plan, toLoad, held, leaked, masked, stop, exit>>
  BY DEF vars, mainVars
<1>2. HeadsInv' /\ on' = on
  BY <1>1, SameHeadsStaySound DEF FrontInv
<1>3. MainInv' /\ PhaseInv' /\ PlanInv'
  BY <1>1 DEF FrontInv, MainInv, PhaseInv, PlanInv, Planned, headVars
<1> QED BY <1>2, <1>3, StutterKeeps DEF FrontInv

LEMMA InitEstablishesAll == Init => FrontInv
<1> SUFFICES ASSUME Init PROVE FrontInv
  OBVIOUS
<1>1. Bare
  BY DEF Init, Bare, PolicySound, OutputName
<1>2. HeadsInv
  BY <1>1, BareIsSound
<1>3. PhaseInv
  BY <1>1 DEF Init, Bare, PhaseInv
<1>5. MainInv
  <2>1. 1 \in 1 .. 29
    OBVIOUS
  <2> QED BY <2>1 DEF Init, MainInv
<1>4. PlanInv
  BY DEF Init, PlanInv
<1> QED BY <1>2, <1>3, <1>5, <1>4, InitEstablishes DEF FrontInv

LEMMA NextKeepsAll ==
  ASSUME FrontInv, [Next]_vars PROVE FrontInv' /\ Unsurprised
<1>1. on' = on => Unsurprised
  BY DEF Unsurprised
<1>2. CASE Proceed
  BY <1>1, <1>2, AcquireKeepsAll, SkipKeepsAll, RefuseKeepsAll, LoadKeepsAll,
     BackendsDoneKeepsAll, StartFlushKeepsAll, FlushDoneKeepsAll, AutolaunchKeepsAll,
     ReleaseKeepsAll, EndingsKeepAll DEF Proceed
<1>3. CASE Configure \/ RefuseConfiguration
  BY <1>1, <1>3, ConfigurationKeepsAll
<1>4. CASE Flush
  BY <1>4, FlushKeepsAll
<1>5. CASE Plug
  BY <1>1, <1>5, PlugKeepsAll
<1>6. CASE HandleStop \/ WatchedClientExits
  BY <1>1, <1>6, EndingsKeepAll
<1>7. CASE StopArrives
  BY <1>1, <1>7, StopKeepsAll
<1>8. CASE UNCHANGED vars
  BY <1>1, <1>8, StutterKeepsAll
<1> QED BY <1>2, <1>3, <1>4, <1>5, <1>6, <1>7, <1>8 DEF Next

-------------------------------------------------------------------------------
\* Heads and outputs stay sound in every run of the program, whatever it is
\* started with, whatever is plugged, resized or refused, and wherever a flush,
\* a nested enable or a group stands when it is looked at.
THEOREM FrontHolds == Spec => []FrontInv
<1>1. Init => FrontInv
  BY InitEstablishesAll
<1>2. FrontInv /\ [Next]_vars => FrontInv'
  BY NextKeepsAll
<1> QED BY <1>1, <1>2, PTL DEF Spec

\* The variables hold what their comments say, what a flush works on is there,
\* and nothing of the heads outlives the compositor.
THEOREM TypeCorrect == Spec => []TypeOK
<1>1. FrontInv => TypeOK
  <2> SUFFICES ASSUME FrontInv PROVE TypeOK
    OBVIOUS
  <2>1. request = None <=> plan # None
    BY RequestsAssumption DEF FrontInv, PlanInv
  <2>2. Present \subseteq HeadName /\ connected \subseteq Present
    BY PresentAreHeads DEF FrontInv, HeadsInv, ConnectorsInv
  <2>3. Flagged(State) /\ Attached(State, {}) /\ Listed(State)
    BY DEF FrontInv, HeadsInv, Good
  <2>4. /\ changed \subseteq Present /\ known \subseteq Present /\ refused \subseteq Present
        /\ initFailed \in BOOLEAN
    BY <2>3, StateIs DEF Flagged
  <2>5. on \in [HeadName -> OutputName \cup {None}]
    BY <2>3, StateIs DEF Attached
  <2>6. order \in Seq(OutputName) /\ DOMAIN outputs \subseteq OutputName
    BY <2>3, StateIs DEF Listed
  <2>7. staged \in [OutputName -> SUBSET HeadName]
    BY DEF FrontInv, HeadsInv, StagedInv
  <2>8. flush \in {"no", "heads", "groups"} /\ ToSet(todo) \subseteq Present
    BY DEF FrontInv, HeadsInv, FlushInv
  <2>9. workers \in {None, TRUE, FALSE}
    BY DEF FrontInv, IInv, SignalInv
  <2>10. /\ phase \in {"startup", "flushing", "run", "drop", "ended"}
         /\ at \in 1 .. Len(Startup) + 1
         /\ held \subseteq Resource /\ leaked \subseteq Resource
         /\ masked \in BOOLEAN /\ stop \in BOOLEAN
         /\ exit \in {None, "success", "failure", "killed"}
    BY StartupLength DEF FrontInv, MainInv
  <2> QED BY <2>1, <2>2, <2>4, <2>5, <2>6, <2>7, <2>8, <2>9, <2>10 DEF TypeOK
<1> QED BY <1>1, FrontHolds, PTL

\* Heads and outputs point at each other and are announced; after a flush no
\* connected head is without an output but those refused, left off or waiting;
\* a mirror lies on its source; and the socket comes after the outputs.
THEOREM HeadsAreSound == Spec => []HeadsSound
<1>1. FrontInv => HeadsSound
  <2> SUFFICES ASSUME FrontInv PROVE HeadsSound
    OBVIOUS
  <2>1. /\ HeadsInv /\ Attached(State, {}) /\ Listed(State) /\ Mirroring(State)
        /\ Settled(State, StagedHeads, {})
    BY DEF FrontInv, HeadsInv, Good
  <2>2. AttachedBothWays
    BY <2>1, StateIs DEF Attached, Listed, AttachedBothWays, HeadsOn
  <2>3. NoHeadForgotten
    <3> SUFFICES ASSUME flush = "no", NEW h \in Present \ changed
                 PROVE  IF h \in connected THEN IsEnabled(h) \/ Excused(h)
                        ELSE IsEnabled(h) => ~Simple(h) /\ DrmForceOn(policy, h)
      BY DEF NoHeadForgotten
    <3>1. IsEnabled(h) <=> on[h] # None
      BY StateIs DEF IsEnabled, EnabledIn
    <3>2. Settled(State, {}, {})
      BY <2>1, NothingStaged
    <3>3. IF h \in connected THEN Served(State, h, {})
          ELSE on[h] # None => ~Simple(h) /\ DrmForceOn(policy, h)
      BY <3>2, StateIs DEF Settled
    <3>4. Served(State, h, {}) => on[h] # None \/ Excused(h)
      <4>1. WaitsIn(State, h, {}) => \A o \in DOMAIN outputs :
              outputs[o].kind = "vnc" \/ h \notin MirrorOf(o)
        BY StateIs DEF WaitsIn
      <4> QED BY <4>1, StateIs DEF Served, ExcusedIn, Excused
    <3> QED BY <3>1, <3>3, <3>4
  <2>4. MirrorOnSource
    BY <2>1, StateIs DEF Mirroring, OnSource, MirrorOnSource
  <2>5. SocketMeansReady
    <3> SUFFICES ASSUME "socket" \in held, phase = "startup"
                 PROVE  changed = {} /\ flush = "no" /\ ~initFailed
      BY DEF SocketMeansReady
    <3>1. at \in 1 .. 28 /\ "socket" \in Before(at)
      BY DEF FrontInv, IInv, StartupInv
    <3>2. PICK i \in 1 .. at - 1 : Startup[i] = "socket"
      BY <3>1 DEF Before
    <3>3. i = 26
      BY <3>1, <3>2, StartupOrder, StepsDiffer
    <3> QED BY <3>1, <3>2, <3>3 DEF FrontInv, PhaseInv
  <2> QED BY <2>2, <2>3, <2>4, <2>5 DEF HeadsSound
<1> QED BY <1>1, FrontHolds, PTL

\* No step of any flush brings up a head and leaves it marked as changed.
THEOREM NoChangeIsSpurious == Spec => NoSpuriousChange
<1>1. FrontInv /\ [Next]_vars =>
        [\A h \in HeadName :
           ~IsEnabled(h) /\ IsEnabled(h)' /\ flush' = "heads" => h \notin changed']_headVars
  <2> SUFFICES ASSUME FrontInv, [Next]_vars, NEW h \in HeadName,
                      ~IsEnabled(h), IsEnabled(h)', flush' = "heads"
               PROVE  h \notin changed'
    OBVIOUS
  <2>1. on[h] = None /\ on'[h] # None
    BY DEF IsEnabled, EnabledIn, State
  <2> QED BY <2>1, NextKeepsAll DEF Unsurprised
<1> QED BY <1>1, FrontHolds, PTL DEF Spec, NoSpuriousChange

LEMMA OnlyConfigurePlans ==
  ASSUME [Next]_vars, ~Configure PROVE plan' = plan
<1>1. ASSUME NEW step, Acquire(step) \/ Skip(step) \/ Refuse(step) PROVE plan' = plan
  BY <1>1 DEF Acquire, Skip, Refuse, Failing
<1>2. CASE LoadSimple \/ LoadDrm \/ BackendsDone \/ StartFlush \/ FlushDone \/ Autolaunch
  BY <1>2 DEF LoadSimple, LoadDrm, Loaded, BackendsDone, StartFlush, FlushDone, Failing,
              Autolaunch
<1>3. CASE End \/ \E i \in DOMAIN Teardown : Release(i)
  BY <1>3 DEF End, Release
<1>4. CASE RefuseConfiguration \/ HandleStop \/ WatchedClientExits \/ StopArrives
  BY <1>4 DEF RefuseConfiguration, Failing, HandleStop, Leave, WatchedClientExits, StopArrives
<1>5. CASE Flush \/ Plug \/ UNCHANGED vars
  BY <1>5 DEF Flush, Plug, vars, mainVars
<1> QED BY <1>1, <1>2, <1>3, <1>4, <1>5 DEF Next, Proceed

\* Whatever of Requests the program is started with: a plan that main makes reads
\* every option given but --idle-time, and a size with DRM alone; has loaded what
\* each guarded key of [[output]] needs; follows the command line before the file
\* and the first file of the search; leaves off what is switched off; and lets no
\* key of [libinput] cancel another.
THEOREM PlansAreFollowed == Spec => SettingsFollow
<1>1. FrontInv /\ [Next]_vars => [plan = None /\ plan' # None => PlanFollows(request, plan')]_vars
  <2> SUFFICES ASSUME FrontInv, [Next]_vars, plan = None, plan' # None
               PROVE  PlanFollows(request, plan')
    OBVIOUS
  <2>1. Configure
    BY OnlyConfigurePlans
  <2>2. ~IsError(PlanOf(request)) /\ plan' = PlanOf(request)
    BY <2>1 DEF Configure
  <2>3. request \in Requests
    BY DEF FrontInv, PlanInv
  <2> QED BY <2>2, <2>3, PlansFollow
<1> QED BY <1>1, FrontHolds, PTL DEF Spec, SettingsFollow

===============================================================================
