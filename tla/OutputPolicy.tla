----------------------------- MODULE OutputPolicy ------------------------------
(***************************************************************************)
(* What a head is to become (crates/weston/src/output_policy.rs): the      *)
(* [[output]] sections, as typed rules, and the command line decide the    *)
(* size, the scale and the mode of a head's output, which section controls *)
(* a DRM head, and which remote head mirrors which output.  These are pure *)
(* functions of the policy; Heads.tla applies them.                        *)
(*                                                                         *)
(* A decision is a set: of the one setup, or empty for a head that is left *)
(* off.  The pass-through strings (gbm-format, content-type, seat,         *)
(* icc-profile) and the colour modes, which are handed on unread, are left *)
(* out.                                                                    *)
(***************************************************************************)
EXTENDS Integers, Sequences, FiniteSets

CONSTANT None

OrElse(a, b) == IF a # None THEN a ELSE b

\* A rule with no key but its name.
BareRule(name) ==
  [name |-> name, off |-> FALSE, size |-> None, scale |-> None,
   transform |-> None, resizeable |-> None, mode |-> None, maxBpc |-> None,
   forceOn |-> FALSE, cloneOf |-> None, mirrorOf |-> None, hdcp |-> TRUE]

NoCli == [width |-> None, height |-> None, scale |-> None, transform |-> None]

-------------------------------------------------------------------------------
\* The first of the entries at some places of a list, or None.
Least(at) == CHOOSE i \in at : \A j \in at : i <= j
FirstAt(list, at) == IF at = {} THEN None ELSE list[Least(at)]

SectionsOf(rules, name) == {i \in DOMAIN rules : rules[i].name = name}
RuleFor(policy, name) == FirstAt(policy.rules, SectionsOf(policy.rules, name))
IsOff(rule) == rule # None /\ rule.off
Key(rule, key) == IF rule = None THEN None ELSE rule[key]

\* Default, then section, then command line.
Layered(default, section, cli) == OrElse(cli, OrElse(section, default))

Width(policy, rule, default) ==
  Layered(default[1], IF Key(rule, "size") = None THEN None ELSE rule.size[1],
          policy.cli.width)
Height(policy, rule, default) ==
  Layered(default[2], IF Key(rule, "size") = None THEN None ELSE rule.size[2],
          policy.cli.height)

-------------------------------------------------------------------------------
(***************************************************************************)
(* The decision for one head, per kind of backend.                         *)
(***************************************************************************)
DecideSized(policy, name, default) ==
  LET rule == RuleFor(policy, name)
  IN IF IsOff(rule) THEN {}
     ELSE {[size |-> <<Width(policy, rule, default), Height(policy, rule, default)>>,
            scale |-> Layered(1, Key(rule, "scale"), policy.cli.scale),
            transform |-> Layered("normal", Key(rule, "transform"), policy.cli.transform)]}

\* The scale comes from the section alone, and the transform is not read.
DecideRemote(policy, name, default) ==
  LET rule == RuleFor(policy, name)
  IN IF IsOff(rule) THEN {}
     ELSE {[size |-> <<Width(policy, rule, default), Height(policy, rule, default)>>,
            scale |-> Layered(1, Key(rule, "scale"), None),
            transform |-> "normal"]}

DecidePipewire(policy, name, default) == DecideRemote(policy, name, default)

DecideVnc(policy, name, default) ==
  {[size |-> setup.size, scale |-> setup.scale, transform |-> setup.transform,
    resizeable |-> Layered(TRUE, Key(RuleFor(policy, name), "resizeable"), None)] :
     setup \in DecideRemote(policy, name, default)}

\* ColorSetup, of which only allow_hdcp is kept; a head without a section gets
\* ColorSetup::default(), where the flag is false.
DecideColor(policy, name) ==
  LET rule == RuleFor(policy, name) IN IF rule = None THEN FALSE ELSE rule.hdcp

HasMirrorOf(policy, name) ==
  \E i \in DOMAIN policy.rules :
     policy.rules[i].name = name /\ policy.rules[i].mirrorOf # None

MirrorRuleForSource(policy, source) ==
  FirstAt(policy.rules, {i \in DOMAIN policy.rules : policy.rules[i].mirrorOf = source})

-------------------------------------------------------------------------------
(***************************************************************************)
(* DRM: clone-of hands a head over to another section, at most MaxClones   *)
(* sections deep.                                                          *)
(***************************************************************************)
BadCloneOf == [error |-> "clone-of"]
Twice(f) == [i \in DOMAIN f |-> f[f[i]]]

\* The rule that controls a head, None when it has no section, or BadCloneOf:
\* nine hops lead to the tenth section, and 0 is a section that is missing.
ControllingRule(policy, name) ==
  LET rules == policy.rules
      SectionOf(n) == IF SectionsOf(rules, n) = {} THEN 0 ELSE Least(SectionsOf(rules, n))
      hop == [i \in 0 .. Len(rules) |->
                IF i = 0 THEN 0
                ELSE IF rules[i].cloneOf = None THEN i ELSE SectionOf(rules[i].cloneOf)]
      last == Twice(Twice(Twice(hop)))[hop[SectionOf(name)]]
  IN IF SectionOf(name) = 0 THEN None
     ELSE IF last = 0 THEN BadCloneOf
     ELSE IF rules[last].cloneOf # None THEN BadCloneOf
     ELSE rules[last]

DrmSetup(rule, currentMode) ==
  LET mode == IF currentMode THEN "current"
              ELSE IF Key(rule, "mode") = None THEN "preferred" ELSE rule.mode
  IN [mode |-> mode,
      maxBpc |-> OrElse(Key(rule, "maxBpc"), IF mode = "current" THEN 0 ELSE 16),
      scale |-> OrElse(Key(rule, "scale"), 1),
      transform |-> Key(rule, "transform"),
      hdcp |-> IF rule = None THEN FALSE ELSE rule.hdcp]

\* The output a DRM head joins, and how it is set up.
DecideDrm(policy, name, nonDesktop, currentMode) ==
  LET rule == ControllingRule(policy, name)
  IN IF rule \in {None, BadCloneOf}
     THEN {[output |-> name, setup |-> DrmSetup(None, currentMode)]}
     ELSE IF rule.off \/ (nonDesktop /\ rule.mode = None) THEN {}
     ELSE {[output |-> rule.name, setup |-> DrmSetup(rule, currentMode)]}

DrmForceOn(policy, name) ==
  LET rule == ControllingRule(policy, name)
  IN rule \notin {None, BadCloneOf} /\ rule.forceOn

===============================================================================
