--------------------------------- MODULE Heads ---------------------------------
(***************************************************************************)
(* Heads and their outputs (crates/weston/src/compositor.rs): the flush of *)
(* heads_changed enables, disables or leaves alone every head as the       *)
(* policy says (OutputPolicy.tla), a remote head with mirror-of waits for  *)
(* its source, and is enabled from inside the output_created emission of   *)
(* that source, and follows it when it is resized.                         *)
(*                                                                         *)
(* A flush runs to its end within one call from the event loop, or from    *)
(* build(); the actions below are its steps, one head each, and the        *)
(* environment moves between flushes.  libweston may refuse to create,     *)
(* configure or enable any output.  DRM heads are staged here and brought  *)
(* up by process_all, whose inside is Layoutput.tla: to this module it is  *)
(* one step, in which each group comes up or not.                          *)
(*                                                                         *)
(* Outputs are named after their head or DRM section, and carry what the   *)
(* code reads back: `size` is the native mode.  How a backend makes a mode *)
(* of a size, and that weston_output_mode_set_native sets the scale as     *)
(* well as the mode, is libweston's contract.  A rotated output is as wide *)
(* as any other here.                                                      *)
(***************************************************************************)
EXTENDS OutputPolicy, SequencesExt

CONSTANTS
  HeadName,      \* heads, by name
  KindOf,        \* the kind of backend each comes from
  NonDesktop,    \* headsets and the like
  Pluggable,     \* heads whose connector may come and go
  Group,         \* names of DRM outputs
  NativeSize,    \* the size of a DRM mode
  ResizedTo,     \* sizes a window may be given
  FarRight       \* bound: how far right outputs are placed by replugging

Dangling == "dangling"   \* mirror_of, once its output is gone

ASSUME HeadsAssumption ==
  /\ NonDesktop \subseteq HeadName /\ Pluggable \subseteq HeadName
  /\ KindOf \in [HeadName -> {"headless", "x11", "wayland", "vnc", "pipewire", "drm"}]

\* A DRM output is named after a DRM head or a section made for one, never after
\* the head of another backend; the remote head of VNC is always connected.
ASSUME NamesAssumption ==
  /\ \A h \in HeadName : KindOf[h] = "drm" <=> h \in Group
  /\ "vnc" \in HeadName => KindOf["vnc"] = "vnc"
  /\ \A h \in Pluggable : KindOf[h] # "vnc"
  /\ {None, Dangling} \cap (HeadName \cup Group) = {} /\ None # Dangling

VARIABLES
  policy,      \* OutputPolicy, with --current-mode as currentMode
  headList,    \* weston_compositor's heads, in creation order
  connected, changed,  \* flags of the heads
  on,          \* the output each head is attached to
  outputs,     \* the enabled outputs, by name
  order,       \* weston_compositor's output_list
  known,       \* heads in the registry
  staged,      \* heads staged on each DRM group
  flush,       \* "no", "heads" (being visited) or "groups" (process_all)
  todo,        \* the rest of the flush's snapshot
  initFailed,
  refused      \* history: heads libweston refused when last asked

headVars == <<policy, headList, connected, changed, on, outputs, order, known,
              staged, flush, todo, initFailed, refused>>

OutputName == HeadName \cup Group
Present == ToSet(headList)

\* What an enable reads and changes, as a value: enables nest.
State == [outputs |-> outputs, order |-> order, on |-> on, known |-> known,
          changed |-> changed, failed |-> initFailed, refused |-> refused]
Become(s) ==
  /\ outputs' = s.outputs /\ order' = s.order /\ on' = s.on /\ known' = s.known
  /\ changed' = s.changed /\ initFailed' = s.failed /\ refused' = s.refused

EnabledIn(s, h) == s.on[h] # None
IsEnabled(h) == EnabledIn(State, h)
HeadsOn(s, o) == {h \in HeadName : s.on[h] = o}

-------------------------------------------------------------------------------
(***************************************************************************)
(* Enabling one head.                                                      *)
(***************************************************************************)
HeadSetupFor(h) ==
  CASE KindOf[h] = "headless" -> DecideSized(policy, h, <<1024, 640>>)
    [] KindOf[h] = "x11"      -> DecideSized(policy, h, <<1024, 600>>)
    [] KindOf[h] = "wayland"  -> DecideSized(policy, h, <<1024, 640>>)
    [] KindOf[h] = "vnc"      -> DecideVnc(policy, h, <<640, 480>>)
    [] KindOf[h] = "pipewire" -> DecidePipewire(policy, h, <<640, 480>>)
    [] OTHER -> {}

\* Right of the output enabled last, at its width in global coordinates.
LazyAlign(s) ==
  IF s.order = <<>> THEN 0
  ELSE LET peer == s.outputs[Last(s.order)] IN peer.x + peer.size[1] \div peer.scale

\* Mode and scale of a mirror, from those of its source.  The branch for a source
\* without any mode, which sets init_failed, is left out: the source is enabled,
\* and an enabled output has a current mode.
MirrorModeline(s, src, o) ==
  LET source == s.outputs[src]
      scale == s.outputs[o].scale
  IN [s.outputs[o] EXCEPT !.size = [i \in 1 .. 2 |-> source.size[i] \div scale],
                          !.scale = source.scale]

\* A windowed backend scales the size it is given, a remote one does not.
NativeOf(h, setup) ==
  [i \in 1 .. 2 |-> setup.size[i] * (IF KindOf[h] \in {"vnc", "pipewire"} THEN 1
                                     ELSE setup.scale)]

\* What of its colours an output keeps here; a profile that does not load is one
\* of the ways to be refused.
ApplyColor(output, color) == [output EXCEPT !.hdcp = color]

\* The output of a head as its configurator leaves it, not yet enabled.
Configured(s, h, setup, src) ==
  ApplyColor(
    [kind |-> KindOf[h], size |-> NativeOf(h, setup), scale |-> setup.scale,
     asked |-> setup.scale,
     x |-> IF src = None THEN LazyAlign(s) ELSE s.outputs[src].x,
     mirrorOf |-> src,
     resizeable |-> "resizeable" \in DOMAIN setup /\ setup.resizeable /\ src = None,
     hdcp |-> FALSE],
    DecideColor(policy, h))

\* One more output.
Raise(up, o, output) == [p \in DOMAIN up \cup {o} |-> IF p = o THEN output ELSE up[p]]

\* weston_output_enable, up to the emission of output_created.
Emitting(s, h, output) ==
  [s EXCEPT !.outputs = Raise(@, h, output), !.order = Append(@, h), !.on[h] = h]

\* create, configure or enable failed: the output is gone again.
Refusal(s, h) == [s EXCEPT !.failed = TRUE, !.refused = @ \cup {h}]

\* enable_head for a mirror: its own output_created finds a remote output and
\* returns.
MirrorEnabled(s, h, src) ==
  LET up == {[Emitting(s, h, Configured(s, h, setup, src)) EXCEPT
                !.known = @ \cup {h}, !.refused = @ \ {h}] : setup \in HeadSetupFor(h)}
  IN {Refusal(s, h)} \cup {[t EXCEPT !.outputs[h] = MirrorModeline(t, src, h)] : t \in up}

\* The head that is to mirror o, if any.
MirrorOf(o) ==
  LET rule == MirrorRuleForSource(policy, o)
  IN IF rule = None THEN {} ELSE {rule.name} \cap Present

\* Faulty variant: the mirror stays marked as changed, and is visited again.
MirrorOnOutputCreatedStillChanged(s, o) ==
  LET due == {h \in MirrorOf(o) : /\ s.outputs[o].kind # "vnc"
                                 /\ ~EnabledIn(s, h) /\ HeadSetupFor(h) # {}}
  IN IF due = {} THEN {s}
     ELSE UNION {MirrorEnabled(s, h, o) : h \in due}

\* mirror_on_output_created: the states it may leave, o being announced.  A
\* remote output is no source, and off = true wins over mirror-of.
MirrorOnOutputCreated(s, o) ==
  LET due == {h \in MirrorOf(o) : /\ s.outputs[o].kind # "vnc"
                                 /\ ~EnabledIn(s, h) /\ HeadSetupFor(h) # {}}
  IN IF due = {} THEN {s}
     ELSE UNION {{[t EXCEPT !.changed = @ \ {h}] :
                    t \in MirrorEnabled(s, h, o)} : h \in due}

\* What an announcement of o may make of each of these states.
Announced(states, o) == UNION {MirrorOnOutputCreated(s, o) : s \in states}

\* Faulty variant: the output is up before anyone listens for it.
HeadEnabledUnannounced(s, h) ==
  {Refusal(s, h)} \cup
  {[t EXCEPT !.known = @ \cup {h}, !.refused = @ \ {h}] :
     t \in {Emitting(s, h, Configured(s, h, setup, None)) : setup \in HeadSetupFor(h)}}

\* enable_head for any other head.
HeadEnabled(s, h) ==
  {Refusal(s, h)} \cup
  {[t EXCEPT !.known = @ \cup {h}, !.refused = @ \ {h}] :
     t \in Announced({Emitting(s, h, Configured(s, h, setup, None)) :
                         setup \in HeadSetupFor(h)}, h)}

\* weston_output_destroy: its heads come off; pointers to it dangle.
OutputDestroyed(s, o) ==
  [s EXCEPT
     !.outputs = [p \in DOMAIN @ \ {o} |->
        IF s.outputs[p].mirrorOf = o
        THEN [s.outputs[p] EXCEPT !.mirrorOf = Dangling] ELSE s.outputs[p]],
     !.order = RemoveAt(@, CHOOSE i \in DOMAIN @ : @[i] = o),
     !.on = [h \in HeadName |-> IF s.on[h] = o THEN None ELSE s.on[h]]]

-------------------------------------------------------------------------------
(***************************************************************************)
(* heads_changed.  Visiting resets the flag of the head.                   *)
(***************************************************************************)
HeadsChanged ==
  /\ flush = "no"
  /\ flush' = "heads" /\ todo' = headList
  /\ UNCHANGED <<policy, headList, connected, changed, on, outputs, order, known,
                 staged, initFailed, refused>>

Visiting(h) == flush = "heads" /\ todo # <<>> /\ todo[1] = h
Visited(h, s) ==
  /\ Become([s EXCEPT !.changed = @ \ {h}])
  /\ todo' = Tail(todo)
  /\ UNCHANGED <<policy, headList, connected, flush>>

Simple(h) == KindOf[h] # "drm"
WantsEnable(h) == h \in connected /\ ~IsEnabled(h) /\ h \notin NonDesktop
Deferred(h) == KindOf[h] = "vnc" /\ HasMirrorOf(policy, h)

EnableHead(h) ==
  /\ Visiting(h) /\ Simple(h) /\ WantsEnable(h) /\ ~Deferred(h)
  /\ HeadSetupFor(h) # {}
  /\ \E s \in HeadEnabled(State, h) : Visited(h, s)
  /\ UNCHANGED staged

\* Switched off by its section: registered, so that it is logged once.
LeaveHeadOff(h) ==
  /\ Visiting(h) /\ Simple(h) /\ WantsEnable(h) /\ ~Deferred(h)
  /\ HeadSetupFor(h) = {}
  /\ Visited(h, [State EXCEPT !.known = @ \cup {h}])
  /\ UNCHANGED staged

DisableHead(h) ==
  /\ Visiting(h) /\ Simple(h) /\ h \notin connected /\ IsEnabled(h)
  /\ Visited(h, OutputDestroyed(State, on[h]))
  /\ UNCHANGED staged

\* Deferred, nothing to do, or a monitor change that is logged and ignored.
PassHead(h) ==
  /\ Visiting(h) /\ Simple(h)
  /\ IF WantsEnable(h) THEN Deferred(h) ELSE h \in connected \/ ~IsEnabled(h)
  /\ Visited(h, State)
  /\ UNCHANGED staged

DrmWanted(h) == h \in connected \/ DrmForceOn(policy, h)
DrmPlan(h) == DecideDrm(policy, h, h \in NonDesktop, policy.currentMode)

\* drm_prepare_enable; a head that is left off is not staged.
PrepareDrmHead(h) ==
  /\ Visiting(h) /\ ~Simple(h) /\ DrmWanted(h) /\ ~IsEnabled(h)
  /\ staged' = [g \in OutputName |-> IF \E p \in DrmPlan(h) : p.output = g
                                    THEN staged[g] \cup {h} ELSE staged[g]]
  /\ Visited(h, State)

\* drm_head_disable: the output goes with its last head.
DisableDrmHead(h) ==
  /\ Visiting(h) /\ ~Simple(h) /\ ~DrmWanted(h) /\ IsEnabled(h)
  /\ LET detached == [State EXCEPT !.on[h] = None]
     IN Visited(h, IF HeadsOn(detached, on[h]) = {}
                   THEN OutputDestroyed(detached, on[h]) ELSE detached)
  /\ UNCHANGED staged

PassDrmHead(h) ==
  /\ Visiting(h) /\ ~Simple(h) /\ (DrmWanted(h) <=> IsEnabled(h))
  /\ Visited(h, State)
  /\ UNCHANGED staged

HeadsVisited ==
  /\ flush = "heads" /\ todo = <<>>
  /\ flush' = IF \A h \in Present : Simple(h) THEN "no" ELSE "groups"
  /\ UNCHANGED <<policy, headList, connected, changed, on, outputs, order, known,
                 staged, todo, initFailed, refused>>

\* A group comes up with all its heads, or they are refused and the verdict on
\* startup may be a failure.  A new output is announced, a mirror may follow.
GroupUp(s, g) ==
  LET setup == (CHOOSE p \in DrmPlan(CHOOSE h \in staged[g] : TRUE) : TRUE).setup
      heads(t) == [t EXCEPT !.known = @ \cup staged[g], !.refused = @ \ staged[g],
                            !.on = [h \in HeadName |-> IF h \in staged[g] THEN g ELSE t.on[h]]]
      output == ApplyColor([kind |-> "drm", size |-> NativeSize, scale |-> setup.scale,
                            asked |-> setup.scale, x |-> LazyAlign(s), mirrorOf |-> None,
                            resizeable |-> FALSE, hdcp |-> FALSE], setup.hdcp)
  IN IF g \in DOMAIN s.outputs THEN {heads(s)}
     ELSE Announced({heads([s EXCEPT !.outputs = Raise(@, g, output),
                                     !.order = Append(@, g)])}, g)

ProcessGroup(g) ==
  /\ flush = "groups" /\ staged[g] # {}
  /\ \E s \in GroupUp(State, g)
              \cup {[State EXCEPT !.refused = @ \cup staged[g], !.failed = f] :
                      f \in {initFailed, TRUE}} : Become(s)
  /\ staged' = [staged EXCEPT ![g] = {}]
  /\ UNCHANGED <<policy, headList, connected, flush, todo>>

GroupsProcessed ==
  /\ flush = "groups" /\ \A g \in OutputName : staged[g] = {}
  /\ flush' = "no"
  /\ UNCHANGED <<policy, headList, connected, changed, on, outputs, order, known,
                 staged, todo, initFailed, refused>>

FlushStep ==
  \/ \E h \in HeadName : EnableHead(h)
  \/ \E h \in HeadName : LeaveHeadOff(h)
  \/ \E h \in HeadName : DisableHead(h)
  \/ \E h \in HeadName : PassHead(h)
  \/ \E h \in HeadName : PrepareDrmHead(h)
  \/ \E h \in HeadName : DisableDrmHead(h)
  \/ \E h \in HeadName : PassDrmHead(h)
  \/ HeadsVisited
  \/ \E g \in OutputName : ProcessGroup(g)
  \/ GroupsProcessed

-------------------------------------------------------------------------------
(***************************************************************************)
(* Between flushes.                                                        *)
(***************************************************************************)
\* The backend reports a connector; the head is marked changed.
Plugged(h) ==
  /\ flush = "no" /\ h \in Present \cap Pluggable
  /\ \A o \in ToSet(order) : outputs[o].x < FarRight
  /\ connected' = IF h \in connected THEN connected \ {h} ELSE connected \cup {h}
  /\ changed' = changed \cup {h}
  /\ UNCHANGED <<policy, headList, on, outputs, order, known, staged, flush, todo,
                 initFailed, refused>>

\* Another monitor on a connected head.
MonitorChanged(h) ==
  /\ flush = "no" /\ h \in connected \cap Pluggable /\ h \notin changed
  /\ changed' = changed \cup {h}
  /\ UNCHANGED <<policy, headList, connected, on, outputs, order, known, staged, flush,
                 todo, initFailed, refused>>

\* mirror_on_output_resized: the mirror is found by its rule, and must point
\* at the output; a dangling pointer may, when the address came back.
MirrorOnOutputResized(s, o) ==
  LET followers == {s.on[h] : h \in MirrorOf(o)} \ {None}
      followed(r) == [s EXCEPT !.outputs[r] =
                        [MirrorModeline(s, o, r) EXCEPT !.x = s.outputs[o].x]]
  IN {s : r \in {p \in followers : s.outputs[p].mirrorOf # o}}
     \cup {followed(r) : r \in {p \in followers : s.outputs[p].mirrorOf \in {o, Dangling}}}
     \cup (IF followers = {} THEN {s} ELSE {})

\* The window of an output is resized.
Resized(o, size) ==
  /\ flush = "no" /\ o \in DOMAIN outputs /\ outputs[o].size # size
  /\ outputs[o].kind \in {"x11", "wayland"}
  /\ \E s \in MirrorOnOutputResized([State EXCEPT !.outputs[o].size = size], o) :
       Become(s)
  /\ UNCHANGED <<policy, headList, connected, staged, flush, todo>>

\* libweston runs the listeners of heads_changed from an idle callback.
HeadsChangedDue == changed # {} /\ HeadsChanged

Hotplug ==
  \/ \E h \in HeadName : Plugged(h)
  \/ \E h \in HeadName : MonitorChanged(h)
  \/ \E o \in OutputName, size \in ResizedTo : Resized(o, size)
  \/ HeadsChangedDue

-------------------------------------------------------------------------------
(***************************************************************************)
(* Properties.                                                             *)
(***************************************************************************)
\* A head is attached to an enabled output or to none, no output stands without
\* a head, the output list holds each output and no other, and every attached
\* head is in the registry, so that its destruction will be noticed.
AttachedBothWays ==
  /\ \A h \in HeadName : on[h] # None => h \in Present /\ on[h] \in DOMAIN outputs
  /\ \A o \in DOMAIN outputs : HeadsOn(State, o) # {}
  /\ DOMAIN outputs = ToSet(order)
  /\ \A h \in HeadName : on[h] # None => h \in known

Excused(h) ==
  \/ h \in refused
  \/ IF Simple(h)
     THEN \/ h \in NonDesktop \/ IsOff(RuleFor(policy, h))
          \/ /\ Deferred(h)
             /\ \A o \in DOMAIN outputs :
                  outputs[o].kind = "vnc" \/ h \notin MirrorOf(o)
     ELSE DrmPlan(h) = {}

\* When a flush has ended, every connected head has an output, but for those
\* libweston refused, those the policy leaves off, and a mirror whose source
\* is not up; and no head that was unplugged still has one.
NoHeadForgotten ==
  flush = "no" => \A h \in Present \ changed :
    IF h \in connected THEN IsEnabled(h) \/ Excused(h)
    ELSE IsEnabled(h) => ~Simple(h) /\ DrmForceOn(policy, h)

\* A mirror that was enabled within the flush that has yet to visit it is not
\* taken for a head whose monitor changed (the reset in mirror_on_output_created).
NoSpuriousChange ==
  [][\A h \in HeadName :
       ~IsEnabled(h) /\ IsEnabled(h)' /\ flush' = "heads" => h \notin changed']_headVars

\* A mirror lies on its source, in size as in place, through every resize, as
\* long as the source it was made for lives.
MirrorOnSource ==
  \A o \in DOMAIN outputs :
    LET src == outputs[o].mirrorOf
    IN src \notin {None, Dangling} =>
         /\ src \in DOMAIN outputs
         /\ outputs[o].x = outputs[src].x
         /\ \E by \in {outputs[o].asked, outputs[src].scale} :
              outputs[o].size = [i \in 1 .. 2 |-> outputs[src].size[i] \div by]
         /\ outputs[o].scale = outputs[src].scale
         /\ ~outputs[o].resizeable

===============================================================================
