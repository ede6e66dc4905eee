------------------------------- MODULE Layoutput -------------------------------
(***************************************************************************)
(* Layout outputs (crates/weston/src/layoutput.rs): the DRM heads of one   *)
(* name are driven as clones of one output.  Each flush of heads_changed   *)
(* (compositor.rs) stages the connected heads that are not enabled and     *)
(* disables the others, then brings up group after group: attach to the    *)
(* outputs the group has, or create one, attach, and enable with undo.     *)
(*                                                                         *)
(* A flush is one call from the event loop, so hotplug happens between     *)
(* flushes; libweston may refuse any attach, mode set or enable.  Output   *)
(* names and settings are left out, and so are the heads the policy turns  *)
(* off, which are never staged.                                            *)
(***************************************************************************)
EXTENDS Integers, Sequences, FiniteSets

CONSTANTS
  Connector,
  Solo,     \* heads with a name of their own; the others are clones
  Shared,   \* the name of the clones
  Output,   \* weston_outputs and the entries that stand for them
  None,
  MaxCloneHeads

ASSUME LayoutputAssumption ==
  /\ Solo \subseteq Connector /\ Shared \notin Connector
  /\ None \notin Connector \cup Output
  /\ MaxCloneHeads \in Nat /\ MaxCloneHeads > 1
  /\ IsFiniteSet(Connector)

VARIABLES
  \* libweston
  head,      \* "absent", "disconnected" or "connected" (or forced on)
  output,    \* "none", "pending" (created) or "enabled"
  attached,  \* the output of each head
  \* the frontend
  layoutputs,  \* the groups there are
  outputs,     \* LayoutputOutput entries of each group
  cell,        \* the entries whose pointer was not cleared
  add,         \* heads staged on each group; None where one was consumed
  require,     \* [core] require-outputs: "any", "all" or "none"
  initFailed,
  stage,       \* "boot", "up", or "aborted" by init_failed
  flush        \* the running flush, and what it has left to do

libweston == <<head, output, attached>>
groups == <<layoutputs, outputs, cell, add>>
startup == <<require, initFailed, stage>>
vars == <<libweston, groups, startup, flush>>

-------------------------------------------------------------------------------
Group == Solo \cup {Shared}
GroupOf(h) == IF h \in Solo THEN h ELSE Shared

Idle == [at |-> "idle"]
IsEnabled(h) == attached[h] # None /\ output[attached[h]] = "enabled"
HeadsOf(o) == {h \in Connector : attached[h] = o}
Freed(o) == output[o] = "none" /\ \A g \in Group : o \notin outputs[g]
Elements(s) == {s[i] : i \in DOMAIN s} \ {None}

\* weston_output_destroy: the heads come off, and the destroy listener clears
\* the entry.
Destroyed(o) ==
  /\ output' = [output EXCEPT ![o] = "none"]
  /\ attached' = [h \in Connector |-> IF attached[h] = o THEN None ELSE attached[h]]
  /\ cell' = cell \ {o}

-------------------------------------------------------------------------------
(***************************************************************************)
(* Hotplug, between flushes.                                               *)
(***************************************************************************)

Between == flush = Idle /\ stage # "aborted"

Plugged(h) == \E state \in {"disconnected", "connected"} :
  /\ Between /\ stage = "up" /\ head[h] # state
  /\ head' = [head EXCEPT ![h] = state]
  /\ UNCHANGED <<output, attached, groups, startup, flush>>

\* A connector goes.  The listener of register_head forgets the head and does
\* nothing about its output.
HeadDestroyed(h) ==
  /\ Between /\ stage = "up" /\ head[h] # "absent"
  /\ head' = [head EXCEPT ![h] = "absent"]
  /\ attached' = [attached EXCEPT ![h] = None]
  /\ UNCHANGED <<output, groups, startup, flush>>

\* The backend destroys an output behind the back of its group.
OutputDestroyed(o) ==
  /\ Between /\ output[o] # "none"
  /\ Destroyed(o)
  /\ UNCHANGED <<head, layoutputs, outputs, add, startup, flush>>

-------------------------------------------------------------------------------
(***************************************************************************)
(* A flush: the heads.                                                     *)
(***************************************************************************)

\* Without a DRM head the groups are not processed, and nothing is required.
NoHeads ==
  /\ Between /\ stage = "boot" /\ \A h \in Connector : head[h] = "absent"
  /\ stage' = "up"
  /\ UNCHANGED <<libweston, groups, require, initFailed, flush>>

HeadsChanged ==
  /\ Between /\ \E h \in Connector : head[h] # "absent"
  /\ flush' = [at |-> "heads", todo |-> {h \in Connector : head[h] # "absent"}]
  /\ UNCHANGED <<libweston, groups, startup>>

Visit(h) ==
  /\ flush.at = "heads" /\ h \in flush.todo
  /\ flush' = [flush EXCEPT !.todo = @ \ {h}]
  /\ UNCHANGED startup

\* add_head: a full group drops the head silently.
AddHead(h) ==
  LET g == GroupOf(h) IN
  /\ Visit(h)
  /\ head[h] = "connected" /\ ~IsEnabled(h)
  /\ layoutputs' = layoutputs \cup {g}
  /\ add' = IF Len(add[g]) + 1 >= MaxCloneHeads THEN add
            ELSE [add EXCEPT ![g] = Append(@, h)]
  /\ UNCHANGED <<libweston, outputs, cell>>

\* drm_head_disable, and head_detached: the output goes with its last head.
DisableHead(h) ==
  LET o == attached[h] IN
  /\ Visit(h)
  /\ head[h] = "disconnected" /\ IsEnabled(h)
  /\ IF HeadsOf(o) = {h} /\ o \in cell
     THEN /\ Destroyed(o)
          /\ outputs' = [g \in Group |-> outputs[g] \ {o}]
     ELSE /\ attached' = [attached EXCEPT ![h] = None]
          /\ UNCHANGED <<output, outputs, cell>>
  /\ UNCHANGED <<head, layoutputs, add>>

LeaveHead(h) ==
  /\ Visit(h)
  /\ (head[h] = "connected") = IsEnabled(h)
  /\ UNCHANGED <<libweston, groups>>

-------------------------------------------------------------------------------
(***************************************************************************)
(* A flush: the groups (process_all, process_one).                         *)
(***************************************************************************)

NextGroup(todo, failed) == [at |-> "groups", todo |-> todo, failed |-> failed]

HeadsVisited ==
  /\ flush.at = "heads" /\ flush.todo = {}
  /\ flush' = NextGroup({g \in layoutputs : add[g] # <<>>}, 0)
  /\ UNCHANGED <<libweston, groups, startup>>

Process(g) ==
  /\ flush.at = "groups" /\ g \in flush.todo
  /\ flush' = [at |-> "existing", group |-> g, walk |-> outputs[g],
               todo |-> flush.todo \ {g}, failed |-> flush.failed]
  /\ UNCHANGED <<libweston, groups, startup>>

GroupDone == flush' = NextGroup(flush.todo, flush.failed)

GroupFails ==
  /\ flush' = NextGroup(flush.todo, flush.failed + 1)
  /\ add' = [add EXCEPT ![flush.group] = <<>>]

\* try_attach from the second head on; those in `refused` stay off.
Attachable(s) == Elements(SubSeq(s, 2, Len(s)))
Refusals(s) == {r \in SUBSET Attachable(s) :
                  \A h \in Attachable(s) : attached[h] # None => h \in r}
\* The places of the refused heads: one sequence, in the order of the loop.
Places(s, r) ==
  LET at == {i \in 2 .. Len(s) : s[i] \in r}
  IN {p \in [1 .. Cardinality(at) -> at] :
        /\ at = {p[n] : n \in DOMAIN p}
        /\ \A m, n \in DOMAIN p : m < n => p[m] < p[n]}
\* Faulty variant: the list of the refused heads has holes, too.
RefusedWithHoles(s, p) ==
  [i \in DOMAIN s |-> IF \E n \in DOMAIN p : p[n] = i THEN s[i] ELSE None]
Refused(s, p) == [n \in DOMAIN p |-> s[p[n]]]
Kept(s, r) == [i \in DOMAIN s |-> IF i > 1 /\ s[i] \in r THEN None ELSE s[i]]
AttachedTo(o, s, r) ==
  [h \in Connector |-> IF h \in Attachable(s) \ r THEN o ELSE attached[h]]

\* remove_output: the entry of an output that died.
Reap(o) ==
  /\ flush.at = "existing" /\ o \in flush.walk \ cell
  /\ outputs' = [outputs EXCEPT ![flush.group] = @ \ {o}]
  /\ flush' = [flush EXCEPT !.walk = @ \ {o}]
  /\ UNCHANGED <<libweston, layoutputs, cell, add, startup>>

AttachExisting(o) ==
  LET g == flush.group IN
  /\ flush.at = "existing" /\ o \in flush.walk \cap cell
  /\ \E r \in Refusals(add[g]) : \E p \in Places(add[g], r) :
       /\ attached' = AttachedTo(o, add[g], r)
       /\ add' = [add EXCEPT ![g] = Refused(add[g], p)]
       /\ IF r = {} THEN GroupDone ELSE flush' = [flush EXCEPT !.walk = @ \ {o}]
  /\ UNCHANGED <<head, output, layoutputs, outputs, cell, startup>>

ExistingTried ==
  /\ flush.at = "existing" /\ flush.walk = {}
  /\ flush' = [at |-> "create", group |-> flush.group,
               todo |-> flush.todo, failed |-> flush.failed]
  /\ UNCHANGED <<libweston, groups, startup>>

\* The loop is over when no head is left.
AllAttached ==
  /\ flush.at = "create" /\ add[flush.group] = <<>>
  /\ GroupDone
  /\ UNCHANGED <<libweston, groups, startup>>

\* "Independent-CRTC clone mode is not implemented", or libweston refused.
CreateFails ==
  /\ flush.at = "create" /\ add[flush.group] # <<>>
  /\ GroupFails
  /\ UNCHANGED <<libweston, layoutputs, outputs, cell, startup>>

\* create_output_with_head, then try_attach.
Create(o) ==
  LET g == flush.group
      s == add[g]
  IN
  /\ flush.at = "create" /\ s # <<>>
  /\ outputs[g] = {}
  /\ attached[s[1]] = None /\ Freed(o)
  /\ output' = [output EXCEPT ![o] = "pending"]
  /\ outputs' = [outputs EXCEPT ![g] = {o}]
  /\ cell' = cell \cup {o}
  /\ \E r \in Refusals(s) : \E p \in Places(s, r) :
       /\ attached' = [AttachedTo(o, s, r) EXCEPT ![s[1]] = o]
       /\ flush' = [at |-> "configure", group |-> g, output |-> o,
                    undo |-> Kept(s, r), lost |-> Refused(s, p),
                    todo |-> flush.todo, failed |-> flush.failed]
  /\ UNCHANGED <<head, layoutputs, add, startup>>

Configured ==
  /\ flush.at = "configure"
  /\ flush' = [flush EXCEPT !.at = "enable"]
  /\ UNCHANGED <<libweston, groups, startup>>

\* Faulty variant: the output that did not come up is kept.
AbandonKeeps ==
  /\ GroupFails
  /\ UNCHANGED <<output, attached, outputs, cell>>

\* destroy_output, and process_one fails.
Abandon ==
  /\ Destroyed(flush.output)
  /\ outputs' = [outputs EXCEPT ![flush.group] = @ \ {flush.output}]
  /\ GroupFails

ConfigureFails ==
  /\ flush.at = "configure"
  /\ Abandon
  /\ UNCHANGED <<head, layoutputs, startup>>

Left == {i \in DOMAIN flush.undo : flush.undo[i] # None}
Last == CHOOSE i \in Left : \A j \in Left : j <= i

\* weston_output_enable, which wants a head; the heads that lost are staged
\* for the next round.
Enabled ==
  /\ flush.at = "enable" /\ HeadsOf(flush.output) # {}
  /\ output' = [output EXCEPT ![flush.output] = "enabled"]
  /\ add' = [add EXCEPT ![flush.group] = flush.lost]
  /\ flush' = [at |-> "create", group |-> flush.group,
               todo |-> flush.todo, failed |-> flush.failed]
  /\ UNCHANGED <<head, attached, layoutputs, outputs, cell, startup>>

\* Faulty variant: the head that is given back is not remembered.
UndoForgets ==
  /\ flush.at = "enable" /\ Left # {}
  /\ attached' = [attached EXCEPT ![flush.undo[Last]] = None]
  /\ flush' = [flush EXCEPT !.undo = SubSeq(@, 1, Last - 1)]
  /\ UNCHANGED <<head, output, groups, startup>>

\* Faulty variant: the slot of the head that is given back is not cleared.
UndoAgain ==
  /\ flush.at = "enable" /\ Left # {}
  /\ attached' = [attached EXCEPT ![flush.undo[Last]] = None]
  /\ UNCHANGED <<head, output, groups, startup, flush>>

\* The enable failed: the last head is given back.
Undo ==
  /\ flush.at = "enable" /\ Left # {}
  /\ attached' = [attached EXCEPT ![flush.undo[Last]] = None]
  /\ flush' = [flush EXCEPT !.undo = SubSeq(@, 1, Last - 1),
                            !.lost = Append(@, flush.undo[Last])]
  /\ UNCHANGED <<head, output, groups, startup>>

\* The enable failed and nothing is left to give back.
NothingLeft ==
  /\ flush.at = "enable" /\ Left = {}
  /\ Abandon
  /\ UNCHANGED <<head, layoutputs, startup>>

\* Faulty variant: a group counts as found when one head of it was staged.
VerdictLenient(failed) == require = "none" \/ layoutputs # {}

\* The verdict of process_all.
Verdict(failed) ==
  CASE require = "all"  -> failed = 0
    [] require = "any"  -> failed # Cardinality(layoutputs)
    [] require = "none" -> TRUE

\* build() looks at init_failed once, after the first flush.
GroupsProcessed ==
  /\ flush.at = "groups" /\ flush.todo = {}
  /\ initFailed' = (initFailed \/ ~Verdict(flush.failed))
  /\ stage' = IF stage # "boot" THEN stage ELSE IF initFailed' THEN "aborted" ELSE "up"
  /\ flush' = Idle
  /\ UNCHANGED <<libweston, groups, require>>

-------------------------------------------------------------------------------
Init ==
  /\ head \in [Connector -> {"absent", "disconnected", "connected"}]
  /\ output = [o \in Output |-> "none"]
  /\ attached = [h \in Connector |-> None]
  /\ layoutputs = {}
  /\ outputs = [g \in Group |-> {}]
  /\ cell = {}
  /\ add = [g \in Group |-> <<>>]
  /\ require \in {"any", "all", "none"}
  /\ initFailed = FALSE
  /\ stage = "boot"
  /\ flush = Idle

Next ==
  \/ \E h \in Connector :
       Plugged(h) \/ HeadDestroyed(h) \/ AddHead(h) \/ DisableHead(h) \/ LeaveHead(h)
  \/ \E o \in Output : OutputDestroyed(o) \/ Reap(o) \/ AttachExisting(o) \/ Create(o)
  \/ \E g \in Group : Process(g)
  \/ NoHeads \/ HeadsChanged \/ HeadsVisited \/ ExistingTried \/ AllAttached \/ CreateFails
  \/ Configured \/ ConfigureFails \/ Enabled \/ Undo \/ NothingLeft
  \/ GroupsProcessed

Spec == Init /\ [][Next]_vars

\* A flush is a function call: it returns.
FairSpec == Spec /\ WF_vars(flush # Idle /\ Next)

-------------------------------------------------------------------------------
(***************************************************************************)
(* Properties                                                              *)
(***************************************************************************)

TypeOK ==
  /\ head \in [Connector -> {"absent", "disconnected", "connected"}]
  /\ output \in [Output -> {"none", "pending", "enabled"}]
  /\ attached \in [Connector -> Output \cup {None}]
  /\ layoutputs \subseteq Group
  /\ outputs \in [Group -> SUBSET Output]
  /\ cell \subseteq Output
  /\ add \in [Group -> Seq(Connector)]
  /\ require \in {"any", "all", "none"} /\ initFailed \in BOOLEAN
  /\ stage \in {"boot", "up", "aborted"}

\* The staged head pointers do not outlive their flush, in which the heads are
\* known to be alive.  A group has one output at most, and when a flush finds it again it is
\* enabled or known to be dead (the assertion of process_one, layoutput.rs:245);
\* an output that died never keeps its group from creating another.
NothingStaged == flush = Idle => \A g \in Group : add[g] = <<>>
GroupsSound ==
  /\ NothingStaged
  /\ \A g \in Group : Cardinality(outputs[g]) <= 1
  /\ flush.at \in {"idle", "heads", "groups", "existing"} =>
       \A g \in Group : \A o \in outputs[g] \cap cell : output[o] = "enabled"
  /\ flush.at \in {"create", "configure", "enable"} => outputs[flush.group] \subseteq cell

\* Every head is on an output of its own group that the group knows to be
\* alive, every output belongs to a group, and a flush leaves none half made:
\* undo, failure and hotplug leak no output.
OutputsOwned ==
  /\ \A h \in Connector : attached[h] # None => attached[h] \in outputs[GroupOf(h)] \cap cell
  /\ \A o \in Output : output[o] # "none" => o \in cell /\ \E g \in Group : o \in outputs[g]
  /\ flush = Idle => \A o \in Output : output[o] # "pending"

GroupsOwnTheirs == GroupsSound /\ OutputsOwned

\* A head given back by the undo is still accounted for when its group is done:
\* it stays staged, or the group is counted as failed.
LostIsCounted ==
  [][\A g \in Group : \A h \in Elements(add[g]) :
       flush.at \in {"create", "configure", "enable"} /\ h \notin Elements(add'[g])
         => attached'[h] # None \/ flush'.failed > flush.failed]_vars

\* With require-outputs=any a compositor that has heads only comes up with an
\* output, with all only with every connected head enabled, unless the group
\* had more clones than the cap lets in.
Clones(h) == {c \in Connector : GroupOf(c) = GroupOf(h) /\ head[c] = "connected"}
StartsAsRequired ==
  [][stage = "boot" /\ stage' = "up" =>
       /\ require = "any" /\ (\E h \in Connector : head[h] # "absent")
            => \E h \in Connector : IsEnabled(h)
       /\ require = "all" =>
            \A h \in Connector :
              head[h] = "connected" /\ Cardinality(Clones(h)) < MaxCloneHeads => IsEnabled(h)]_vars

\* The undo loop ends.
FlushEnds == flush # Idle ~> flush = Idle

-------------------------------------------------------------------------------
\* A claim of the documents that the code does not keep.

\* "Heads that lost are pushed to the next round rather than dropped"
\* (layoutput.rs:25).
NoHeadDropped ==
  [][\A g \in Group : \A h \in Elements(add[g]) :
       h \notin Elements(add'[g])
         => attached'[h] # None \/ flush'.failed > flush.failed]_vars

===============================================================================
