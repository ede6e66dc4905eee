------------------------------ MODULE MCFrontend ------------------------------
(***************************************************************************)
(* Frontend.tla started with families of command lines and files, each     *)
(* varying what may interact.  `Small` is the instance of every run: one   *)
(* window of X11, two of Wayland, a remote head, two DRM connectors.       *)
(***************************************************************************)
EXTENDS Frontend

MCHeads == {"headless", "X1", "screen0", "screen1", "WL1", "wayland0", "wayland1",
            "vnc", "pipewire", "A", "B"}
MCKindOf ==
  [h \in MCHeads |->
     CASE h \in {"X1", "screen0", "screen1"} -> "x11"
       [] h \in {"WL1", "wayland0", "wayland1"} -> "wayland"
       [] h \in {"A", "B"} -> "drm"
       [] OTHER -> h]
MCDefaultNames == [x11 |-> <<"screen0", "screen1">>, wayland |-> <<"wayland0", "wayland1">>]
MCConnectors == <<"A", "B">>
MCNativeSize == <<1920, 1080>>
MCResizedTo == {<<1024, 600>>, <<800, 400>>}

-------------------------------------------------------------------------------
Flags == {"seat", "current-mode", "no-outputs", "use-gl", "use-pixman", "fullscreen",
          "no-input", "sprawl", "address", "rdp-tls-cert", "idle-time"}
Lists == {<<b>> : b \in BackendNames} \cup {<<>>, <<"headless", "vnc">>, <<"vnc", "x11">>}
MCHome == [configHome |-> None, home |-> "home", configDirs |-> <<>>]

With(cli, file) ==
  [cli |-> cli, env |-> MCHome, inis |-> {},
   files |-> [d \in {"config", "home", "/etc/xdg", "named"} |->
                IF d = "home" THEN file ELSE None]]
Cli(list) == [EmptyCommandLine EXCEPT !.backend = list]
Section(name) == [EmptySection EXCEPT !.name = name]
Sections(list, sections) == With(Cli(list), [EmptyFile EXCEPT !.output = sections])

OneFlag == {With([Cli(l) EXCEPT !.flags = {f}], EmptyFile) : l \in Lists, f \in Flags}

OneValue ==
  {With(c, EmptyFile) : c \in
     UNION {{[Cli(l) EXCEPT !.width = 800], [Cli(l) EXCEPT !.height = 0],
             [Cli(l) EXCEPT !.scale = 2], [Cli(l) EXCEPT !.scale = -1],
             [Cli(l) EXCEPT !.transform = "90"], [Cli(l) EXCEPT !.transform = "junk"],
             [Cli(l) EXCEPT !.port = 5900], [Cli(l) EXCEPT !.outputCount = 2],
             [Cli(l) EXCEPT !.outputCount = 0], [Cli(l) EXCEPT !.shell = "ivi"]} :
              l \in Lists \ {<<>>, <<"vnc", "x11">>}}}

Renderers ==
  {With([Cli(<<"headless">>) EXCEPT !.renderer = r, !.flags = f],
        [EmptyFile EXCEPT !.renderer = fr, !.useGl = g, !.usePixman = p]) :
     r \in {None, "gl", "junk"}, f \in SUBSET {"use-gl", "use-pixman"},
     fr \in {None, "noop"}, g \in BOOLEAN, p \in BOOLEAN}

Sources ==
  {With([Cli(l) EXCEPT !.port = p],
        [EmptyFile EXCEPT !.backends = bs, !.backend = b, !.vncPort = 1]) :
     l \in {None, <<"pipewire">>, <<"vnc">>}, bs \in {<<>>, <<"vnc", "vnc">>},
     b \in {None, <<"wayland">>, <<"junk">>}, p \in {None, 2}}

Keys(n) ==
  {[Section(n) EXCEPT !.off = TRUE], [Section(n) EXCEPT !.mode = [text |-> "off"]],
   [Section(n) EXCEPT !.mirrorOf = "screen0"], [Section(n) EXCEPT !.cloneOf = "B"],
   [Section(n) EXCEPT !.maxBpc = 8], [Section(n) EXCEPT !.eotf = "sdr"],
   [Section(n) EXCEPT !.colorimetry = "default"], [Section(n) EXCEPT !.colorimetry = "ictcp"],
   [Section(n) EXCEPT !.icc = TRUE], [Section(n) EXCEPT !.scale = 0]}
OneKey ==
  {Sections(l, <<s>>) : l \in {<<"headless">>, <<"vnc">>}, s \in Keys("vnc")}
  \cup {Sections(<<"drm">>, <<s>>) : s \in Keys("A")}

Searches ==
  LET headless == [EmptyFile EXCEPT !.backend = <<"headless">>, !.xwayland = TRUE]
      vnc == [EmptyFile EXCEPT !.backend = <<"vnc">>]
  IN {[cli |-> [EmptyCommandLine EXCEPT !.config = c, !.backend = <<"headless">>],
       env |-> [MCHome EXCEPT !.configHome = h, !.configDirs = ds], inis |-> i,
       files |-> [config |-> f1, home |-> f2, named |-> None] @@ ("/etc/xdg" :> vnc)] :
         c \in {"search", "none", "named", "home"}, h \in {None, "config"},
         ds \in {<<>>, <<"home", "/etc/xdg">>}, i \in {{}, {"config"}},
         f1 \in {None, headless}, f2 \in {None, vnc}}

Overrides ==
  {With([EmptyCommandLine EXCEPT !.set = specs],
        [EmptyFile EXCEPT !.backend = <<"x11">>, !.output = <<Section("X1")>>]) :
     specs \in {<<[key |-> "backend", value |-> <<"headless">>]>>,
                <<[key |-> "output", value |-> None]>>,
                <<[key |-> "off", value |-> TRUE, index |-> 1]>>,
                <<[key |-> "scale", value |-> 2, index |-> 2]>>,
                <<[key |-> "scale", value |-> 2, index |-> 1],
                  [key |-> "xwayland", value |-> TRUE]>>}}

Refusals ==
  {With(Cli(<<"headless">>), f) : f \in
     {[EmptyFile EXCEPT !.background = "junk"]} \cup
     {[EmptyFile EXCEPT !.unsupported = {u}] : u \in {"remote-output", "enable_tap"}} \cup
     {[EmptyFile EXCEPT !.modules = TRUE], [EmptyFile EXCEPT !.requireOutputs = "junk"],
      [EmptyFile EXCEPT !.accelSpeed = 2], [EmptyFile EXCEPT !.accelProfile = "junk"],
      [EmptyFile EXCEPT !.input = {"left-handed", "enable-tap"}, !.accelSpeed = 1]} \cup
     {[EmptyFile EXCEPT !.accelProfile = p, !.scrollMethod = m, !.scrollButton = b] :
        p \in {None, "flat"}, m \in {None, "none", "edge", "button", "junk"},
        b \in {None, "right", "junk"}} \cup
     {[EmptyFile EXCEPT !.output = <<EmptySection>>]}} \cup
  {With([Cli(<<"headless">>) EXCEPT !.modules = FALSE], [EmptyFile EXCEPT !.modules = TRUE])} \cup
  {With(Cli(<<"drm">>), [EmptyFile EXCEPT !.colorManagement = cm,
          !.output = <<[Section("A") EXCEPT !.eotf = e, !.colorimetry = m,
                                            !.characteristics = "c"]>>,
          !.characteristics = <<[name |-> "c", reserved |-> FALSE, groups |-> {g}, inRange |-> TRUE]>>]) :
     cm \in BOOLEAN, e \in {None, "sdr", "st2084", "junk"},
     m \in {None, "default", "p3d65", "junk"}, g \in {"all", "part"}} \cup
  {Sections(<<"drm">>, <<[Section("A") EXCEPT !.characteristics = "c"]>>)}

Services ==
  {With([Cli(<<"headless">>) EXCEPT !.flags = fl, !.autolaunch = a],
        [EmptyFile EXCEPT !.colorManagement = "debug" \in fl, !.autolaunch = fa, !.watch = w]) :
     fl \in {{}, {"xwayland"}, {"debug"}, {"debug", "xwayland", "flight-rec-off"}},
     a \in BOOLEAN, fa \in BOOLEAN, w \in BOOLEAN}

\* Policies that bring up, clone, mirror, force or leave off heads.
Mirror(src) == [Section("vnc") EXCEPT !.mirrorOf = src]
Clone == [Section("B") EXCEPT !.cloneOf = "A"]
Layouts ==
  {Sections(<<"vnc", "x11">>, s) : s \in
     {<<Mirror("X1"), Section("X1")>>, <<Mirror("X1"), [Section("X1") EXCEPT !.scale = 2]>>,
      <<[Mirror("X1") EXCEPT !.scale = 2], Section("X1")>>,
      <<[Mirror("X1") EXCEPT !.off = TRUE], Section("X1")>>,
      <<Mirror("X1"), [Section("X1") EXCEPT !.off = TRUE]>>}} \cup
  {Sections(<<"x11", "vnc">>, <<Mirror("X1"), Section("X1")>>)} \cup
  {Sections(<<"drm", "vnc">>, s) : s \in
     {<<Mirror("A")>>, <<Mirror("A"), Clone, [Section("A") EXCEPT !.scale = 2]>>}} \cup
  {Sections(<<"drm">>, s) : s \in
     {<<Clone, [Section("A") EXCEPT !.off = TRUE]>>, <<[Section("B") EXCEPT !.forceOn = TRUE]>>,
      <<Clone, [Section("A") EXCEPT !.cloneOf = "B"]>>}} \cup
  {With([Cli(<<b>>) EXCEPT !.outputCount = 2],
        [EmptyFile EXCEPT !.output = <<Section("X1"), Section("WL1")>>]) :
     b \in {"x11", "wayland"}}

MCRequests ==
  UNION {OneFlag, OneValue, Renderers, Sources, OneKey, Searches, Overrides, Refusals,
         Services, Layouts}

===============================================================================
