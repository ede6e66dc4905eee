------------------------------- MODULE Settings --------------------------------
(***************************************************************************)
(* From a command line and a configuration file to what the compositor is  *)
(* built with (crates/westonite-config/src/resolve.rs and overrides.rs,    *)
(* crates/westonite/src/main.rs): discovery of the file, -o overrides,     *)
(* precedence, the options nothing would consume, the translation of the   *)
(* [[output]] sections into the rules of OutputPolicy.tla, and what        *)
(* [libinput] does to a device (crates/weston/src/libinput.rs).            *)
(*                                                                         *)
(* A stage that fails returns a value with an `error`; the texts of        *)
(* messages are left out.  Parsing is clap's and serde's: a command line   *)
(* is a record with None or an empty set for what was not given, a file a  *)
(* record of the keys that decide something.  Values that are only handed  *)
(* on (paths, seats, addresses) are present or not.                        *)
(***************************************************************************)
EXTENDS OutputPolicy, SequencesExt

Failed(reason) == [error |-> reason]
IsError(value) == "error" \in DOMAIN value

Reasons == {"config", "backend", "renderer", "colour", "geometry", "section",
            "unsupported", "unhandled", "shell", "transform", "libinput",
            "require-outputs"}
ASSUME NoneIsNoError == None \notin {Failed(reason) : reason \in Reasons}

\* The first error of a sequence of checks, or None.
FirstError(checks) == FirstAt(checks, {i \in DOMAIN checks : checks[i] # None})
Check(bad, reason) == IF bad THEN Failed(reason) ELSE None

BackendNames == {"drm", "headless", "x11", "wayland", "rdp", "vnc", "pipewire"}

-------------------------------------------------------------------------------
(***************************************************************************)
(* Sources of settings.                                                    *)
(***************************************************************************)
EmptyCommandLine ==
  [config |-> "search", set |-> <<>>, backend |-> None, renderer |-> None,
   width |-> None, height |-> None, scale |-> None, transform |-> None,
   outputCount |-> None, port |-> None, modules |-> None, shell |-> None,
   flags |-> {}, autolaunch |-> FALSE]

\* The options that are set or not: switches, and values that are handed on.
\* "flight-rec-off" is --flight-rec-scopes with an empty list.  With --version
\* main prints and returns before anything else.
Options ==
  {"socket", "log", "logger-scopes", "flight-rec-scopes", "flight-rec-off",
   "wait-for-debugger", "idle-time", "debug", "xwayland", "seat", "drm-device", "additional-devices", "current-mode", "continue-without-input",
   "no-outputs", "refresh-rate", "use-gl", "use-pixman", "fullscreen", "no-input",
   "sprawl", "display", "address", "vnc-tls-cert", "vnc-tls-key",
   "disable-transport-layer-security", "rdp-tls-cert", "rdp-tls-key",
   "external-listener-fd", "no-resizeable", "rdp4-key", "env-socket",
   "no-remotefx-codec", "force-no-compression"}

EmptySection ==
  [name |-> None, off |-> None, mode |-> None, scale |-> None, transform |-> None,
   resizeable |-> None, maxBpc |-> None, forceOn |-> FALSE, cloneOf |-> None,
   mirrorOf |-> None, icc |-> FALSE, eotf |-> None, colorimetry |-> None,
   characteristics |-> None, hdcp |-> None]

\* The keys of [libinput] that take any value.
InputNames ==
  {"enable-tap", "tap-and-drag", "tap-and-drag-lock", "disable-while-typing",
   "natural-scroll", "left-handed", "middle-button-emulation", "rotation"}

\* The keys of [core], then of the other single sections: [shell], [libinput],
\* [autolaunch], [rdp], [vnc].  `input` names the keys of [libinput] that take any
\* value, `unsupported` are keys and sections that are only refused.
EmptyFile ==
  [backends |-> <<>>, backend |-> None, renderer |-> None, useGl |-> FALSE,
   usePixman |-> FALSE, xwayland |-> FALSE, colorManagement |-> FALSE,
   modules |-> FALSE, requireOutputs |-> None,
   background |-> None, input |-> {}, accelProfile |-> None, accelSpeed |-> None,
   scrollMethod |-> None, scrollButton |-> None, autolaunch |-> FALSE, watch |-> FALSE,
   rdpPort |-> None, vncPort |-> None, unsupported |-> {},
   output |-> <<>>, characteristics |-> <<>>]

\* The directories searched, in order, each once.
SearchDirs(env) ==
  (IF env.configHome = None THEN <<>> ELSE <<env.configHome>>)
  \o (IF env.home = None \/ env.home = env.configHome THEN <<>> ELSE <<env.home>>)
  \o (IF env.configDirs = <<>> THEN <<"/etc/xdg">> ELSE env.configDirs)

\* discover: the directory of the file, and that of a legacy ini passed on the
\* way; `toml` and `ini` are the directories that have one.
Discover(env, toml, ini) ==
  LET dirs == SearchDirs(env)
      hits == {i \in DOMAIN dirs : dirs[i] \in toml}
      stop == IF hits = {} THEN Len(dirs) ELSE (CHOOSE i \in hits : \A j \in hits : i <= j) - 1
      old == {i \in 1 .. stop : dirs[i] \in ini}
  IN [config |-> IF hits = {} THEN None ELSE dirs[stop + 1],
      legacy |-> IF old = {} THEN None ELSE dirs[CHOOSE i \in old : \A j \in old : i <= j]]

-------------------------------------------------------------------------------
(***************************************************************************)
(* -o overrides (overrides.rs, apply).  [key, value] sets a key of a       *)
(* section; [index, key, value] one of an [[output]] section, before which *)
(* missing sections appear without a name; an [[output]] path without an   *)
(* index replaces the array by a table, which is no list of sections.      *)
(***************************************************************************)
NotATable == "not-a-table"

Padded(sections, index) ==
  sections \o [i \in 1 .. (IF index > Len(sections) THEN index - Len(sections) ELSE 0)
                 |-> EmptySection]

Override(file, spec) ==
  IF file.unsupported = {NotATable} THEN file
  ELSE IF "index" \in DOMAIN spec
  THEN [file EXCEPT !.output = [Padded(@, spec.index) EXCEPT ![spec.index][spec.key] = spec.value]]
  ELSE IF spec.key = "output" THEN [file EXCEPT !.unsupported = {NotATable}]
  ELSE [file EXCEPT ![spec.key] = spec.value]

Overridden(file, specs) == FoldLeft(Override, file, specs)

-------------------------------------------------------------------------------
(***************************************************************************)
(* resolve_from.                                                           *)
(***************************************************************************)
\* --backend, then the list of the file, then its single name, then drm.
BackendList(cli, file) ==
  IF cli.backend # None THEN cli.backend
  ELSE IF file.backends # <<>> THEN file.backends
  ELSE OrElse(file.backend, <<"drm">>)

Once(names) ==
  LET upto[n \in 0 .. Len(names)] ==
        IF n = 0 THEN <<>>
        ELSE IF Contains(upto[n - 1], names[n]) THEN upto[n - 1]
        ELSE Append(upto[n - 1], names[n])
  IN upto[Len(names)]

UseGl(cli, file) == "use-gl" \in cli.flags \/ file.useGl
UsePixman(cli, file) == "use-pixman" \in cli.flags \/ file.usePixman
RendererConflict(cli, file) ==
  \/ UseGl(cli, file) /\ UsePixman(cli, file)
  \/ /\ cli.renderer # None \/ file.renderer # None
     /\ UseGl(cli, file) \/ UsePixman(cli, file)

RendererOf(cli, file) ==
  IF cli.renderer # None THEN cli.renderer
  ELSE IF UseGl(cli, file) THEN "gl"
  ELSE IF UsePixman(cli, file) THEN "pixman"
  ELSE OrElse(file.renderer, "auto")

\* parse_color.
ColorStringError(s) == Check(s = "junk", "colour")

NotPositive(v) == v # None /\ v <= 0

ResolveError(cli, file, names) ==
  FirstError(<<
    Check(file.unsupported = {NotATable}, "config"),
    Check(\E i \in DOMAIN names : names[i] \notin BackendNames, "backend"),
    Check(RendererConflict(cli, file), "renderer"),
    Check(RendererOf(cli, file) \notin {"auto", "gl", "pixman", "noop"}, "renderer"),
    ColorStringError(file.background),
    Check(\E v \in {cli.width, cli.height, cli.scale} : NotPositive(v), "geometry"),
    Check(\E i \in DOMAIN file.output : NotPositive(file.output[i].scale), "geometry")>>)

SectionPort(backends, file) ==
  IF Contains(backends, "vnc") THEN file.vncPort
  ELSE IF Contains(backends, "rdp") THEN file.rdpPort ELSE None

\* `read` is the file that was found, or EmptyFile.
Resolve(cli, read) ==
  LET file == Overridden(read, cli.set)
      backends == Once(BackendList(cli, file))
      error == ResolveError(cli, file, BackendList(cli, file))
  IN IF error # None THEN error
     ELSE [backends |-> backends,
           renderer |-> RendererOf(cli, file),
           xwayland |-> "xwayland" \in cli.flags \/ file.xwayland,
           modules |-> OrElse(cli.modules, file.modules),
           colorManagement |-> file.colorManagement,
           port |-> OrElse(cli.port, SectionPort(backends, file)),
           autolaunch |-> cli.autolaunch \/ file.autolaunch,
           autolaunchWatch |-> file.watch \/ cli.autolaunch,
           file |-> file]

-------------------------------------------------------------------------------
(***************************************************************************)
(* reject_unported: what nothing that is loaded would consume.             *)
(***************************************************************************)
\* Faulty variant: --scale is taken to be in every table, as --width is.
ConsumersScaleAnywhere(flag) ==
  CASE flag = "scale" -> BackendNames
    [] OTHER -> {"drm", "headless", "x11", "wayland", "vnc"}

\* The backends that consume a flag; what has no row in the table is let pass.
Consumers(flag) ==
  CASE flag \in {"seat", "drm-device", "additional-devices", "current-mode",
                 "continue-without-input"} -> {"drm"}
    [] flag = "scale" -> {"headless", "x11", "wayland"}
    [] flag \in {"transform", "no-outputs", "refresh-rate", "use-gl"} -> {"headless"}
    [] flag = "use-pixman" -> {"headless", "x11", "wayland"}
    [] flag \in {"fullscreen", "output-count"} -> {"x11", "wayland"}
    [] flag = "no-input" -> {"x11"}
    [] flag \in {"sprawl", "display"} -> {"wayland"}
    [] flag \in {"port", "address", "vnc-tls-cert", "vnc-tls-key",
                 "disable-transport-layer-security"} -> {"vnc"}
    [] OTHER -> BackendNames

Unconsumed == {"rdp-tls-cert", "rdp-tls-key", "external-listener-fd",
               "no-resizeable", "rdp4-key", "env-socket", "no-remotefx-codec",
               "force-no-compression"}

Given(cli) ==
  cli.flags
  \cup {k \in {"width", "height", "scale", "transform", "port"} : cli[k] # None}
  \cup (IF cli.outputCount = None THEN {} ELSE {"output-count"})

\* A section with a key the loaded backends could not honour, whether or not a
\* head of its name ever shows up.
SectionError(settings, loaded, out) ==
  FirstError(<<
    Check(out.cloneOf # None /\ "drm" \notin loaded, "section"),
    Check(out.mirrorOf # None /\ ("vnc" \notin loaded \/ out.name # "vnc"
                                    \/ out.mirrorOf = out.name), "section"),
    Check((out.maxBpc # None \/ out.eotf # None \/ out.colorimetry # None
             \/ out.characteristics # None) /\ "drm" \notin loaded, "section"),
    Check(out.icc /\ ~settings.colorManagement, "section")>>)

UnportedBackend(loaded, file) ==
  \/ "rdp" \in loaded
  \/ file.unsupported \cap {"remote-output", "pipewire-output"} # {}

UnhandledOption(cli, loaded) ==
  \/ \E f \in Given(cli) : Consumers(f) \cap loaded = {}
  \/ Given(cli) \cap Unconsumed # {}

UnportedFeature(settings) ==
  \/ settings.file.unsupported \cap {"touchscreen-calibrator", "calibration-helper",
                                    "enable_tap"} # {}
  \/ settings.modules

RejectUnported(cli, settings) ==
  LET loaded == ToSet(settings.backends)
      output == settings.file.output
  IN FirstError(
       <<Check(UnportedBackend(loaded, settings.file), "unsupported"),
         Check(UnhandledOption(cli, loaded), "unhandled"),
         Check(UnportedFeature(settings), "unsupported")>>
       \o [i \in DOMAIN output |-> SectionError(settings, loaded, output[i])]
       \o <<Check(cli.shell \notin {None, "desktop", "desktop-shell.so"}, "shell")>>)

-------------------------------------------------------------------------------
(***************************************************************************)
(* [libinput], colours and [[output]] rules.                               *)
(***************************************************************************)
AccelProfiles == {"flat", "adaptive"}
ScrollMethods == {"two-finger", "edge", "button", "none"}

InputConfigError(file) ==
  FirstError(<<
    Check(file.accelProfile \notin AccelProfiles \cup {None}, "libinput"),
    Check(file.accelSpeed # None /\ (file.accelSpeed < -1 \/ file.accelSpeed > 1), "libinput"),
    Check(file.scrollMethod \notin ScrollMethods \cup {None}, "libinput"),
    Check(file.scrollButton = "junk", "libinput"),
    Check(file.scrollButton # None /\ file.scrollMethod # "button", "libinput")>>)

ASSUME NoneIsNoKey ==
  None \notin AccelProfiles \cup ScrollMethods \cup InputNames \cup {"tap", "accel"}

\* The capability of a device that a key asks for.
Capability(key) ==
  IF key \in {"enable-tap", "tap-and-drag", "tap-and-drag-lock"} THEN "tap" ELSE key

AccelApplied(file, can) ==
  IF "accel" \notin can THEN {}
  ELSE (IF file.accelProfile \in can THEN {"accel-profile"} ELSE {})
       \cup (IF file.accelSpeed # None THEN {"accel-speed"} ELSE {})

\* The button is looked at under its own method only.
ScrollApplied(file, can) ==
  IF file.scrollMethod \notin can \cup {"none"} THEN {}
  ELSE {"scroll-method"}
       \cup (IF file.scrollMethod = "button" /\ file.scrollButton # None
             THEN {"scroll-button"} ELSE {})

\* tramp_configure_device: the keys that are set on a device that can do `can`,
\* capabilities, profiles and methods.
Applied(file, can) ==
  {key \in file.input : Capability(key) \in can}
  \cup AccelApplied(file, can) \cup ScrollApplied(file, can)

\* One [[color-characteristics]] section: each group of keys is given whole or
\* not at all.  `groups` names what was given of each: "none", "part" or "all".
CharacteristicsError(file, name) ==
  IF ~\E i \in DOMAIN file.characteristics : file.characteristics[i].name = name
  THEN Failed("colour")
  ELSE LET i == CHOOSE i \in DOMAIN file.characteristics :
                  /\ file.characteristics[i].name = name
                  /\ \A j \in 1 .. i - 1 : file.characteristics[j].name # name
           cc == file.characteristics[i]
       IN Check(cc.reserved \/ "part" \in cc.groups \/ ~cc.inRange, "colour")

\* EotfMode::parse and ColorimetryMode::parse.
EotfModes == {"sdr", "hdr-gamma", "st2084", "hlg"}
ColorimetryModes ==
  {"default", "bt2020cycc", "bt2020ycc", "bt2020rgb", "p3d65", "p3dci", "ictcp"}

ColorError(settings, out) ==
  FirstError(<<
    Check(out.eotf \notin EotfModes \cup {None}, "colour"),
    Check(out.colorimetry \notin ColorimetryModes \cup {None}, "colour"),
    Check(out.eotf \notin {None, "sdr"} /\ ~settings.colorManagement, "colour"),
    Check(out.colorimetry \notin {None, "default"} /\ ~settings.colorManagement, "colour"),
    IF out.characteristics = None THEN None
    ELSE CharacteristicsError(settings.file, out.characteristics)>>)

TransformError(t) == Check(t = "junk", "transform")

\* A mode is [text |-> "off", "preferred", "current" or "junk"], or a size.
RuleOf(out) ==
  [name |-> out.name,
   off |-> out.off = TRUE \/ (out.mode # None /\ out.mode.text = "off"),
   size |-> IF out.mode # None /\ out.mode.text = "size" THEN out.mode.size ELSE None,
   scale |-> out.scale, transform |-> out.transform, resizeable |-> out.resizeable,
   mode |-> IF out.mode = None THEN None ELSE out.mode.text, maxBpc |-> out.maxBpc,
   forceOn |-> out.forceOn, cloneOf |-> out.cloneOf, mirrorOf |-> out.mirrorOf,
   hdcp |-> OrElse(out.hdcp, TRUE)]

PolicyError(cli, settings) ==
  LET output == settings.file.output
  IN FirstError(
       [i \in DOMAIN output |->
          FirstError(<<Check(output[i].name = None, "section"), ColorError(settings, output[i]),
                       TransformError(output[i].transform)>>)]
       \o <<TransformError(cli.transform)>>)

BuildOutputPolicy(cli, settings) ==
  [rules |-> [i \in DOMAIN settings.file.output |-> RuleOf(settings.file.output[i])],
   cli |-> [width |-> cli.width, height |-> cli.height, scale |-> cli.scale,
            transform |-> cli.transform],
   currentMode |-> "current-mode" \in cli.flags /\ Contains(settings.backends, "drm")]

RequireOutputsError(settings) ==
  Check(settings.file.requireOutputs \notin {None, "any", "all", "none"}, "require-outputs")

\* main, from the command line to the builder.
Plan(cli, read) ==
  LET settings == Resolve(cli, read)
  IN IF IsError(settings) THEN settings
     ELSE LET error == FirstError(<<RejectUnported(cli, settings), PolicyError(cli, settings),
                                    InputConfigError(settings.file),
                                    RequireOutputsError(settings)>>)
          IN IF error # None THEN error
             ELSE [backends |-> settings.backends, renderer |-> settings.renderer,
                   xwayland |-> settings.xwayland, port |-> settings.port,
                   colorManagement |-> settings.colorManagement,
                   outputCount |-> OrElse(cli.outputCount, 1), flags |-> cli.flags,
                   autolaunch |-> settings.autolaunch,
                   watch |-> settings.autolaunch /\ settings.autolaunchWatch,
                   policy |-> BuildOutputPolicy(cli, settings)]

===============================================================================
