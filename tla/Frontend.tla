-------------------------------- MODULE Frontend --------------------------------
(***************************************************************************)
(* The life of the program (crates/westonite/src/main.rs, and build, run   *)
(* and Drop of crates/weston/src/compositor.rs, LogContext of log.rs):     *)
(* acquire, in order, a log, a configuration, a compositor and what hangs  *)
(* on it; run; give everything back.  Every step may fail, and a signal    *)
(* may ask the program to stop at any moment.  Settings.tla turns the      *)
(* command line and the file into a plan; Heads.tla brings outputs up,     *)
(* first in the flush of build(), then whenever connectors change.         *)
(*                                                                         *)
(* Startup is a sequence of named steps, and a step that acquires a        *)
(* resource gives it its name.  Teardown is a sequence of sets: what goes  *)
(* together, in the order it goes.  weston_compositor_destroy takes the    *)
(* backends, the colour manager, the bindings and what the shell           *)
(* registered; wl_display_destroy the socket.  SIGTERM, SIGUSR2 and SIGINT *)
(* are one signal here.                                                    *)
(***************************************************************************)
EXTENDS Heads, Settings

CONSTANTS
  Requests,      \* what the program may be started with
  DefaultNames,  \* default head names of each windowed backend, from 0
  Prefixed,      \* head names that carry their backend's prefix
  Connectors     \* heads of the DRM backend

ASSUME NoneAssumption == None \notin {"success", "killed"}

VARIABLES
  phase,    \* "startup", "flushing", "run", "drop" or "ended"
  at,       \* startup: the next step, as an index into Startup
  request,  \* command line and files, until they are read
  plan,     \* what was made of them
  toLoad,   \* backends not loaded yet
  held,     \* resources held, by the name of their step
  leaked,   \* resources nobody will give back
  masked,   \* the stop signals are blocked on the main thread
  workers,  \* the threads of the backends: None, or whether they block them
  stop,     \* a stop signal is pending
  exit      \* None, "success", "failure" or "killed"

mainVars == <<phase, at, request, plan, toLoad, held, leaked, masked, workers, stop, exit>>
vars == <<headVars, mainVars>>

-------------------------------------------------------------------------------
\* Faulty variant: the signals are blocked once the backends have threads.
StartupLateMask ==
  <<"logCtx", "logScope", "logFile", "logger", "recorder", "handlers",
    "environment", "configure", "ctx", "display", "compositor", "keyboard",
    "colorManager", "protoScope", "protologger", "debugListener",
    "headsChanged", "mirrorListeners", "backends", "signals", "backendsLoaded",
    "dumpBinding", "shell", "screenshooter", "flush", "socket", "xwayland", "autolaunch">>

Startup ==
  <<"logCtx", "logScope", "logFile", "logger", "recorder", "handlers",
    "environment", "configure", "ctx", "display", "compositor", "keyboard",
    "colorManager", "protoScope", "protologger", "debugListener", "signals",
    "headsChanged", "mirrorListeners", "backends", "backendsLoaded",
    "dumpBinding", "shell", "screenshooter", "flush", "socket", "xwayland", "autolaunch">>
Step == ToSet(Startup)

\* Checks and calls that leave nothing to give back.
Transient == {"environment", "configure", "keyboard", "backendsLoaded", "flush", "autolaunch"}
Resource == Step \ Transient

\* Steps that may come out empty-handed and are passed over.
Optional == {"logger", "recorder", "protoScope", "protologger"}
Infallible == {"handlers", "headsChanged", "mirrorListeners", "debugListener",
               "dumpBinding", "screenshooter"} \cup Optional

\* What build() gives back by hand, before there is a Compositor to drop.
Early == {"ctx", "display", "compositor", "keyboard"}

Teardown ==
  <<{"xwayland"}, {"headsChanged"}, {"mirrorListeners", "debugListener", "screenshooter"},
    {"protologger"}, {"protoScope"}, {"signals"},
    {"compositor", "backends", "colorManager", "dumpBinding", "shell"}, {"ctx"},
    {"display", "socket"},
    {"handlers"}, {"logScope"}, {"logger"}, {"recorder"}, {"logCtx"}, {"logFile"}>>

-------------------------------------------------------------------------------
(***************************************************************************)
(* Startup.                                                                *)
(***************************************************************************)
Here(step) == phase = "startup" /\ Startup[at] = step

\* Steps this run skips.
Skipped(step) ==
  \/ step = "recorder" /\ "flight-rec-off" \in request.cli.flags
  \/ step = "colorManager" /\ ~plan.colorManagement
  \/ step = "protologger" /\ "protoScope" \notin held
  \/ step = "debugListener" /\ "debug" \notin plan.flags
  \/ step = "dumpBinding" /\ "recorder" \notin held
  \/ step = "xwayland" /\ ~plan.xwayland
  \/ step = "autolaunch" /\ ~plan.autolaunch

\* The steps with an action of their own.
Special == {"configure", "backends", "flush", "autolaunch"}

Advance(step) ==
  /\ at' = at + 1
  /\ phase' = IF at = Len(Startup) THEN "run" ELSE "startup"

Acquire(step) ==
  /\ Here(step) /\ step \notin Special /\ ~Skipped(step)
  /\ step = "ctx" => plan.backends # <<>>
  /\ held' = IF step \in Transient THEN held ELSE held \cup {step}
  /\ masked' = (masked \/ step = "signals")
  /\ Advance(step)
  /\ UNCHANGED <<headVars, request, plan, toLoad, leaked, workers, stop, exit>>

Skip(step) ==
  /\ Here(step) /\ (Skipped(step) \/ step \in Optional)
  /\ Advance(step)
  /\ UNCHANGED <<headVars, request, plan, toLoad, held, leaked, masked, workers, stop, exit>>

\* The error is logged, and what was acquired goes.  Before there is a
\* Compositor the path gives back by hand; that of the colour manager does not.
Failing(step) ==
  /\ exit' = "failure" /\ phase' = "drop"
  /\ held' = IF step \in Early \cup {"colorManager"} THEN held \ Early ELSE held
  /\ leaked' = IF step = "colorManager" THEN held \cap Early ELSE {}
  /\ UNCHANGED <<headVars, at, request, plan, toLoad, workers, stop>>

\* Context creation fails for want of backends alone; of the three sources,
\* any may have been installed, and blocked its signal.
Refuse(step) ==
  /\ Here(step) /\ ~Skipped(step)
  /\ step \notin Infallible \cup {"configure", "flush"}
  /\ step = "ctx" => plan.backends = <<>>
  /\ Failing(step)
  /\ masked' \in {masked, masked \/ step = "signals"}

\* The file to read: none, the one named, or the first one found.
ConfigRead(r) ==
  IF r.cli.config = "none" THEN EmptyFile
  ELSE LET found == IF r.cli.config # "search" THEN r.cli.config
                    ELSE Discover(r.env, {d \in DOMAIN r.files : r.files[d] # None},
                                  r.inis).config
       IN IF found = None THEN EmptyFile
          ELSE IF r.files[found] = None THEN Failed("config") ELSE r.files[found]

PlanOf(r) ==
  LET file == ConfigRead(r) IN IF IsError(file) THEN file ELSE Plan(r.cli, file)

\* Heads have the names that their backends give them.
ASSUME BackendsAssumption ==
  /\ {"headless", "vnc", "pipewire"} \cup Prefixed \subseteq HeadName
  /\ Connectors \in Seq(HeadName)
  /\ \A kind \in {"x11", "wayland"} :
       DefaultNames[kind] \in Seq(HeadName) /\ DefaultNames[kind] # <<>>

\* The parsers give lists, numbers and the options and keys they know (all of
\* clap's but --version, which starts nothing), clone-of names a section of a DRM
\* head, there are default names for as many heads as are asked for, and what is in
\* the directories that the environment names is known.
ASSUME RequestsAssumption ==
  /\ None \notin Requests
  /\ \A r \in Requests : /\ DOMAIN r.cli = DOMAIN EmptyCommandLine
                        /\ r.cli.flags \subseteq Options
                        /\ r.env.configHome \in DOMAIN r.files \cup {None}
                        /\ r.env.configDirs \in Seq(STRING)
  /\ \A r \in Requests : r.cli.outputCount # None =>
       /\ r.cli.outputCount \in Int
       /\ \A kind \in {"x11", "wayland"} : r.cli.outputCount <= Len(DefaultNames[kind])
  /\ \A r \in Requests : ~IsError(ConfigRead(r)) =>
       LET file == Overridden(ConfigRead(r), r.cli.set)
           sections == file.output
       IN /\ BackendList(r.cli, file) \in Seq(STRING)
          /\ file.input \subseteq InputNames
          /\ Len(sections) \in Nat /\ DOMAIN sections = 1 .. Len(sections)
          /\ \A i \in DOMAIN sections : /\ sections[i].cloneOf \in Group \cup {None}
                                       /\ RuleOf(sections[i]) # None
  /\ \A r \in Requests : ~IsError(PlanOf(r)) => PlanOf(r) # None

Configure ==
  /\ Here("configure")
  /\ ~IsError(PlanOf(request))
  /\ plan' = PlanOf(request)
  /\ policy' = plan'.policy /\ toLoad' = plan'.backends
  /\ request' = None
  /\ Advance("configure")
  /\ UNCHANGED <<headList, connected, changed, on, outputs, order, known, staged, flush,
                 todo, initFailed, refused>>
  /\ UNCHANGED <<held, leaked, masked, workers, stop, exit>>

RefuseConfiguration ==
  /\ Here("configure")
  /\ IsError(PlanOf(request))
  /\ Failing("configure")
  /\ UNCHANGED masked

\* create_windowed_heads: sections that carry the prefix, up to the count,
\* then default names, numbered on (x11) or from zero (wayland).
WindowedHeads(kind, numberOn) ==
  LET count == IF plan.outputCount < 1 THEN 1 ELSE plan.outputCount
      name(i) == policy.rules[i].name
      sections == {i \in DOMAIN policy.rules : name(i) \in Prefixed /\ KindOf[name(i)] = kind}
      nth(n) == {i \in sections : Cardinality({j \in sections : j <= i}) = n}
      unnamed(n) == Cardinality({m \in 1 .. n : nth(m) = {}})
  IN [n \in 1 .. count |->
        IF nth(n) # {} THEN name(CHOOSE i \in nth(n) : TRUE)
        ELSE DefaultNames[kind][IF numberOn THEN n ELSE unnamed(n)]]

HeadsOf(backend) ==
  CASE backend = "headless" -> IF "no-outputs" \in plan.flags THEN <<>> ELSE <<"headless">>
    [] backend = "x11"      -> WindowedHeads("x11", TRUE)
    [] backend = "wayland"  -> IF "sprawl" \in plan.flags THEN <<>>
                               ELSE WindowedHeads("wayland", FALSE)
    [] backend = "vnc"      -> <<"vnc">>
    [] backend = "pipewire" -> <<"pipewire">>

\* The next backend is up, with these heads, some of them unplugged; the threads
\* it spawned inherit the mask of the main thread.
Loaded(heads, unplugged) ==
  /\ headList' = headList \o heads
  /\ changed' = changed \cup ToSet(heads)
  /\ connected' = connected \cup (ToSet(heads) \ unplugged)
  /\ toLoad' = Tail(toLoad)
  /\ workers' = (workers # FALSE /\ masked)
  /\ UNCHANGED <<policy, on, outputs, order, known, staged, flush, todo, initFailed, refused>>
  /\ UNCHANGED <<phase, at, request, plan, held, leaked, masked, stop, exit>>

LoadSimple ==
  /\ Here("backends") /\ toLoad # <<>> /\ toLoad[1] # "drm"
  /\ Loaded(HeadsOf(toLoad[1]), {})

LoadDrm ==
  /\ Here("backends") /\ toLoad # <<>> /\ toLoad[1] = "drm"
  /\ \E unplugged \in SUBSET Pluggable : Loaded(Connectors, unplugged)

BackendsDone ==
  /\ Here("backends") /\ toLoad = <<>>
  /\ held' = held \cup {"backends"}
  /\ Advance("backends")
  /\ UNCHANGED <<headVars, request, plan, toLoad, leaked, masked, workers, stop, exit>>

StartFlush ==
  /\ Here("flush") /\ HeadsChanged
  /\ phase' = "flushing"
  /\ UNCHANGED <<at, request, plan, toLoad, held, leaked, masked, workers, stop, exit>>

Flush ==
  /\ phase \in {"flushing", "run"} /\ FlushStep
  /\ UNCHANGED mainVars

\* An output that did not come up is a startup failure.
FlushDone ==
  /\ phase = "flushing" /\ flush = "no"
  /\ IF initFailed
     THEN Failing("flush") /\ UNCHANGED masked
     ELSE /\ Advance("flush")
          /\ UNCHANGED <<headVars, request, plan, toLoad, held, leaked, masked, workers,
                         stop, exit>>

Autolaunch ==
  /\ Here("autolaunch") /\ plan.autolaunch
  /\ Advance("autolaunch")
  /\ UNCHANGED <<headVars, request, plan, toLoad, held, leaked, masked, workers, stop, exit>>

-------------------------------------------------------------------------------
(***************************************************************************)
(* The event loop.                                                         *)
(***************************************************************************)
Plug ==
  /\ phase = "run" /\ Hotplug
  /\ UNCHANGED mainVars

\* The loop ends, with the code the program returns.
Leave ==
  /\ phase' = "drop" /\ exit' = "success"
  /\ UNCHANGED <<headVars, at, request, plan, toLoad, held, leaked, masked, workers>>

\* Faulty variant: the signal is read, and the loop goes on.
HandleStopRunsOn ==
  /\ phase = "run" /\ flush = "no" /\ stop
  /\ stop' = FALSE
  /\ UNCHANGED <<headVars, phase, at, request, plan, toLoad, held, leaked, masked,
                 workers, exit>>

HandleStop ==
  /\ phase = "run" /\ flush = "no" /\ stop
  /\ Leave /\ stop' = FALSE

WatchedClientExits ==
  /\ phase = "run" /\ flush = "no" /\ plan.watch
  /\ Leave /\ UNCHANGED stop

\* A thread that does not block the signal takes it, and the program dies.
StopArrives ==
  /\ phase # "ended" /\ ~stop
  /\ IF masked /\ workers # FALSE
     THEN stop' = TRUE /\ UNCHANGED <<phase, exit>>
     ELSE phase' = "ended" /\ exit' = "killed" /\ UNCHANGED stop
  /\ UNCHANGED <<headVars, at, request, plan, toLoad, held, leaked, masked, workers>>

-------------------------------------------------------------------------------
(***************************************************************************)
(* Drop of Compositor, then of LogContext.                                 *)
(***************************************************************************)
\* Faulty variant: the registry keeps the heads.
NoHeadsButKnown ==
  /\ policy' = [rules |-> <<>>, cli |-> NoCli, currentMode |-> FALSE]
  /\ headList' = <<>> /\ connected' = {} /\ changed' = {} /\ order' = <<>>
  /\ on' = [h \in HeadName |-> None] /\ outputs' = [o \in {} |-> None]
  /\ known' = known /\ staged' = [o \in OutputName |-> {}]
  /\ flush' = "no" /\ todo' = <<>> /\ initFailed' = FALSE /\ refused' = {}

\* The heads and outputs of the compositor go with it.
NoHeads ==
  /\ policy' = [rules |-> <<>>, cli |-> NoCli, currentMode |-> FALSE]
  /\ headList' = <<>> /\ connected' = {} /\ changed' = {} /\ order' = <<>>
  /\ on' = [h \in HeadName |-> None] /\ outputs' = [o \in {} |-> None]
  /\ known' = {} /\ staged' = [o \in OutputName |-> {}]
  /\ flush' = "no" /\ todo' = <<>> /\ initFailed' = FALSE /\ refused' = {}

Release(i) ==
  /\ phase = "drop"
  /\ Teardown[i] \cap held # {}
  /\ \A j \in 1 .. i - 1 : Teardown[j] \cap held = {}
  /\ held' = held \ Teardown[i]
  /\ IF "compositor" \in Teardown[i] THEN NoHeads ELSE UNCHANGED headVars
  /\ UNCHANGED <<phase, at, request, plan, toLoad, leaked, masked, workers, stop, exit>>

End ==
  /\ phase = "drop" /\ held = {}
  /\ phase' = "ended"
  /\ UNCHANGED <<headVars, at, request, plan, toLoad, held, leaked, masked, workers, stop, exit>>

-------------------------------------------------------------------------------
Init ==
  /\ phase = "startup" /\ at = 1 /\ request \in Requests /\ plan = None /\ toLoad = <<>>
  /\ held = {} /\ leaked = {} /\ masked = FALSE /\ workers = None
  /\ stop = FALSE /\ exit = None
  /\ policy = [rules |-> <<>>, cli |-> NoCli, currentMode |-> FALSE]
  /\ headList = <<>> /\ connected = {} /\ changed = {} /\ order = <<>>
  /\ on = [h \in HeadName |-> None] /\ outputs = [o \in {} |-> None]
  /\ known = {} /\ staged = [o \in OutputName |-> {}]
  /\ flush = "no" /\ todo = <<>> /\ initFailed = FALSE /\ refused = {}

\* What the program does of itself, the flush and the configuration apart.
Proceed ==
  \/ phase = "startup" /\ Acquire(Startup[at])
  \/ phase = "startup" /\ Skip(Startup[at])
  \/ phase = "startup" /\ Refuse(Startup[at])
  \/ LoadSimple
  \/ LoadDrm
  \/ BackendsDone
  \/ StartFlush
  \/ FlushDone
  \/ Autolaunch
  \/ \E i \in DOMAIN Teardown : Release(i)
  \/ End

Next ==
  \/ Proceed
  \/ Configure
  \/ RefuseConfiguration
  \/ Flush
  \/ Plug
  \/ HandleStop
  \/ WatchedClientExits
  \/ StopArrives

\* Every call returns, a flush, which is one call, too; nothing is asked of the
\* reading of the configuration, before which no signal is held back.  A round
\* of the event loop serves every source that is ready, so a pending signal is
\* served however busy the connectors are.
Fairness == []<>(flush = "no") /\ WF_vars(Proceed) /\ SF_vars(HandleStop)

Spec == Init /\ [][Next]_vars /\ Fairness

-------------------------------------------------------------------------------
(***************************************************************************)
(* Properties.                                                             *)
(***************************************************************************)
\* The variables hold what their comments say; what the flush works on is there,
\* and nothing of the heads outlives the compositor.
TypeOK ==
  /\ phase \in {"startup", "flushing", "run", "drop", "ended"}
  /\ at \in 1 .. Len(Startup) + 1
  /\ request = None <=> plan # None
  /\ held \subseteq Resource /\ leaked \subseteq Resource
  /\ masked \in BOOLEAN /\ workers \in {None, TRUE, FALSE} /\ stop \in BOOLEAN
  /\ exit \in {None, "success", "failure", "killed"}
  /\ Present \subseteq HeadName /\ connected \subseteq Present /\ changed \subseteq Present
  /\ known \subseteq Present /\ refused \subseteq Present
  /\ on \in [HeadName -> OutputName \cup {None}]
  /\ order \in Seq(OutputName) /\ DOMAIN outputs \subseteq OutputName
  /\ staged \in [OutputName -> SUBSET HeadName]
  /\ flush \in {"no", "heads", "groups"} /\ ToSet(todo) \subseteq Present
  /\ initFailed \in BOOLEAN

\* What a resource points into, and must therefore not outlive.
Needs(r) ==
  CASE r \in {"logScope", "recorder", "protoScope"} -> {"logCtx"}
    [] r = "logger" -> {"logCtx", "logFile"}
    [] r = "handlers" -> {"logScope"}
    [] r = "compositor" -> {"display", "logCtx", "ctx"}
    [] r \in {"backends", "colorManager", "xwayland"} -> {"compositor", "logScope"}
    [] r = "dumpBinding" -> {"compositor", "recorder"}
    [] r \in {"shell", "screenshooter", "headsChanged", "mirrorListeners", "debugListener"}
         -> {"compositor", "ctx"}
    [] r = "protologger" -> {"display", "protoScope"}
    [] r \in {"signals", "socket"} -> {"display"}
    [] OTHER -> {}

\* Nothing held points into something given back, on any path out of any
\* step, and whatever was acquired is given back before the program ends,
\* but for what build() leaks when the colour manager does not load.
NothingDangles == \A r \in held : Needs(r) \subseteq held
GivenBack ==
  /\ phase = "ended" /\ exit # "killed" => held = {}
  /\ leaked # {} => exit # "success" /\ plan.colorManagement

\* Once a backend has threads of its own a stop signal never kills the program.
StopsGracefully == exit = "killed" => workers = None

ResourcesSound == NothingDangles /\ GivenBack /\ StopsGracefully

\* The socket exists only when the outputs the plan wants are up: a client, or a
\* test, that finds it may rely on them (the flush of build before the socket).
SocketMeansReady ==
  "socket" \in held /\ phase = "startup" => changed = {} /\ flush = "no" /\ ~initFailed

HeadsSound == AttachedBothWays /\ NoHeadForgotten /\ MirrorOnSource /\ SocketMeansReady

\* What each loader of main.rs hands over, and each configurator reads.
Reads(backend) ==
  CASE backend = "headless" -> {"no-outputs", "refresh-rate", "width", "height", "scale",
                                "transform"}
    [] backend = "x11" -> {"fullscreen", "no-input", "output-count", "width", "height",
                           "scale", "transform"}
    [] backend = "wayland" -> {"display", "fullscreen", "sprawl", "output-count", "width",
                               "height", "scale", "transform"}
    [] backend = "vnc" -> {"address", "port", "vnc-tls-cert", "vnc-tls-key",
                           "disable-transport-layer-security", "width", "height"}
    [] backend = "pipewire" -> {"width", "height"}
    [] backend = "drm" -> {"seat", "drm-device", "additional-devices", "current-mode",
                           "continue-without-input"}

\* Read whatever is loaded; the renderer goes to every backend.
ReadByMain ==
  {"socket", "log", "logger-scopes", "flight-rec-scopes", "flight-rec-off",
   "wait-for-debugger", "debug", "xwayland", "use-gl", "use-pixman"}

\* Accepted for parity with the C frontend and read by nothing (cli.rs: "inert
\* since T3; accepted for parity").
Inert == {"idle-time"}

Unread(cli, p) ==
  Given(cli) \ (ReadByMain \cup UNION {Reads(b) : b \in ToSet(p.backends)})

\* What may be given and is read by nothing the plan loads: the inert option,
\* and a size if no backend but DRM is there to read it.
Unheeded(p) ==
  Inert \cup (IF ToSet(p.backends) \subseteq {"drm"} THEN {"width", "height"} ELSE {})

\* The keys of [[output]] that main guards.  Each of them, in whatever section,
\* finds loaded what reads it: the DRM configure, the mirrors of the VNC head,
\* the colour manager; and the characteristics it names exist.
ForDrm(out) ==
  \/ out.cloneOf # None \/ out.maxBpc # None \/ out.characteristics # None
  \/ out.eotf # None \/ out.colorimetry # None
ForColorManager(out) ==
  out.icc \/ out.eotf \notin {None, "sdr"} \/ out.colorimetry \notin {None, "default"}
GuardedKeysReach(file, p) ==
  \A i \in DOMAIN file.output :
    LET out == file.output[i]
    IN /\ ForDrm(out) => "drm" \in ToSet(p.backends)
       /\ out.mirrorOf # None => "vnc" \in ToSet(p.backends) /\ out.name = "vnc"
       /\ ForColorManager(out) => p.colorManagement
       /\ out.characteristics # None =>
            \E j \in DOMAIN file.characteristics :
               file.characteristics[j].name = out.characteristics

\* What the command line says, it says whatever the file says.
CommandLineDecides(r, p) ==
  LET alone == Plan([r.cli EXCEPT !.set = <<>>], EmptyFile)
  IN ~IsError(alone) =>
       /\ r.cli.backend # None => p.backends = alone.backends
       /\ r.cli.renderer # None \/ r.cli.flags \cap {"use-gl", "use-pixman"} # {}
            => p.renderer = alone.renderer
       /\ r.cli.port # None => p.port = alone.port
       /\ p.policy.cli = alone.policy.cli

\* A key of [libinput] that is accepted does something, on a device that can do
\* it, where the section is read: with DRM; elsewhere it is accepted and inert
\* (build_input_config, libinput.rs).
InputKeys(file) ==
  file.input
  \cup (IF file.accelProfile # None THEN {"accel-profile"} ELSE {})
  \cup (IF file.accelSpeed # None THEN {"accel-speed"} ELSE {})
  \cup (IF file.scrollMethod # None THEN {"scroll-method"} ELSE {})
  \cup (IF file.scrollButton # None THEN {"scroll-button"} ELSE {})
NoInertInput(file) ==
  Applied(file, {Capability(key) : key \in file.input} \cup AccelProfiles
                  \cup ScrollMethods \cup {"accel"}) = InputKeys(file)

\* The first section of a name leaves its head off, in either spelling.
OffMeansOff(file, p) ==
  \A i \in DOMAIN file.output :
    LET out == file.output[i]
    IN /\ out.off = TRUE \/ (out.mode # None /\ out.mode.text = "off")
       /\ \A j \in 1 .. i - 1 : file.output[j].name # out.name
       => /\ DecideSized(p.policy, out.name, <<1, 1>>) = {}
          /\ DecideVnc(p.policy, out.name, <<1, 1>>) = {}
          /\ out.cloneOf = None => DecideDrm(p.policy, out.name, FALSE, FALSE) = {}

\* When a plan is made, it is the one asked for (reject_unported and
\* build_output_policy, against what the loaders read): every option given is read
\* by something the plan loads, but for --idle-time, and for a size with DRM alone;
\* every guarded key of an [[output]] section finds what it is for (of the other
\* keys, and of sections for heads that never appear, nothing is said: the code
\* accepts them); the command line has the last word over the file; the file is the
\* first of the search; an output switched off stays off; and no key of [libinput]
\* is cancelled by another, on the backend that reads the section.
PlanFollows(r, p) ==
  LET file == Overridden(ConfigRead(r), r.cli.set)
  IN /\ Unread(r.cli, p) \subseteq Unheeded(p)
     /\ GuardedKeysReach(file, p) /\ CommandLineDecides(r, p) /\ OffMeansOff(file, p)
     /\ NoInertInput(file)
     /\ LET d == r.env.configHome
        IN r.cli.config = "search" /\ d # None /\ r.files[d] # None
             => p = Plan(r.cli, r.files[d])
SettingsFollow == [][plan = None /\ plan' # None => PlanFollows(request, plan')]_vars

\* "a flag whose consuming backend is not loaded is a startup error, not a
\* silent no-op" (crates/westonite/src/main.rs, reject_unported).  The option that
\* is documented to be inert has no such backend.
NoSilentFlag ==
  [][plan = None /\ plan' # None => Unread(request.cli, plan') \subseteq Inert]_vars

\* A pending stop signal ends the program, from within startup or however busy
\* the event loop (on_term_signal, run).
TerminationEnds == stop ~> phase = "ended"

===============================================================================
