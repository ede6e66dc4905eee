# westonite in TLA+

Models, model checks and proofs for *westonite*, the Rust port of the Weston 14
compositor frontend and desktop shell (`src/crates/`). The C program it
replaces is vendored beside it (`src/frontend`, `src/desktop-shell`) as the
oracle of its tests; it was read to tell an inherited quirk from a slip, and is
not modelled.

The program runs on one thread. What is hard about it is not parallelism but
*re-entrancy and lifetime*: libweston calls into Rust from an event loop and
from under Rust's own calls, destroys objects Rust holds ids of, frees nothing
Rust gave it, and reports deaths through several channels in no promised order.

- [1 The system](#1-the-system) — inventory
- [2 Modules](#2-modules) — what models what
- [3 Runs](#3-runs) — what is checked, bounds, fairness
- [4 Proofs](#4-proofs)
- [5 Findings](#5-findings)
- [6 Limits](#6-limits)
- [7 Plan](#7-plan)

## 1 The system

Paths are relative to `src/crates/`; `PROJECT.json` lists every component with
its sources, every definition with the lines it translates, and every hazard at
the line where it bites.

| component | state | operations | interacts with | what makes it correct |
|---|---|---|---|---|
| id registries (`weston/registry.rs`, `ids.rs`) | slots `[ptr, generation]`, free list | insert, invalidate_ptr, resolve, id_of, live_ids | everything that names a C object across a callback | an id of a dead object never resolves again; an object has one id |
| dispatch core (`ctx.rs`, `listener.rs`, `shell_init.rs` attach, `Compositor::drop`) | depth counter, draining and in-sync flags, event queue, the shell in its slot, listener boxes, pending drops, graveyard | with_depth, dispatch_sync, enqueue, drain, retire_listener, defer_drop, teardown | called by every trampoline, calls the shell | the shell is never re-entered; deferred events run at the outermost edge and are not lost; no box is freed under its own frame |
| desktop shell policy (`westonite-shell/src/lib.rs`) | surfaces with parent, children, focus count; seats with focused surface; the focus the wrapper tracks (`TRACK_COUNTS`) | surface added/removed/committed, set_parent, activate, seat created/gone, session, hunt for the next focus, shutdown | events from dispatch, calls to `host.rs`/`desktop.rs` | the family links agree, every focused surface's death is seen, counts cover the focus, a focus that dies is replaced |
| grabs (`grab.rs`) | boxes handed to libweston, `active_grabs`, retired boxes, per-surface grab flags | start (move, resize, touch move), busy cursor, supersession, cancel, end, ping timeout, pong | libweston's current grab per device, the shell's request handlers | libweston never dispatches to a freed box; flags are undone; a pong ends busy grabs and nothing else |
| seat listeners (`shell_init.rs` register_seat) | four listeners per seat record, on the lists of the seat and of its pointer | caps update, pointer creation, pointer focus, destroy | grabs, dispatch | no listener stays on a freed signal list, none is on two lists, a pointer that can be used is followed |
| outputs and curtains (`shell_init.rs`, `curtain.rs`, `layer.rs`) | curtains per output, the destroy listener of each output, layers | output created/moved/resized/destroyed, teardown | dispatch | a curtain covers its output once the queue is handled, and dies before its view's layer |
| layout outputs (`layoutput.rs`, DRM part of `heads_changed`) | groups: outputs, staged heads; `init_failed` | stage, attach, create, configure, enable with undo, reap, disable, verdict | libweston outputs and heads, startup | no output leaks, no head is lost, startup verdict fits what came up |
| heads, simple outputs, mirroring (`compositor.rs`, `output_policy.rs`) | registered heads and outputs, mirror pointers | heads_changed, enable, disable, mirror enable and resize | layout outputs, policy, startup | a connected head is enabled once or has an excuse, a mirror lies on its source |
| startup and end (`compositor.rs` build/run/Drop, `westonite/src/main.rs`, `log.rs`) | resources acquired so far, signal mask, exit | build steps, each with an error path; the event loop; drops | all | an error path frees what was acquired, nothing dangles, a stop signal always ends the program through the loop |
| settings (`westonite-config`, `main.rs`) | none: a function from command line and files to a plan | discovery, overrides, precedence, refusals, output rules | startup, policy | the command line has the last word; an option, or a guarded key of `[[output]]`, whose consumer is not loaded is refused |
| child processes (`westonite-spawn`, `compositor.rs` on_sigchld, `main.rs` autolaunch) | recorded pids | fork, reap, SIGTERM | xwayland, screenshooter | every child is reaped and its exit reaches its owner |
| xwayland (`xwayland.rs`) | pid, readiness watch, WM socket | spawn_xserver, display_fd, exit, respawn | xwayland.so, SIGCHLD | the watch and socket are those of the current server |
| screenshooter (`screenshooter.rs`) | client slot, destroy listener, pid | Super+S, client destroyed, exit | SIGCHLD | one screenshot at a time, slot freed when it ends |
| libinput settings (`libinput.rs`) | none | configure a device | startup | a key that is accepted does something, on a device that can do it |
| plugin entry, FFI bindings | none | straight-line set-up | — | — |

**How components interact.** A C callback enters through a trampoline, which
raises the depth, runs wrapper code and perhaps the shell (sync tier), and
posts events (deferred tier). The shell calls back into libweston through
`host.rs`, which may emit signals that enter the wrapper again. When the depth
returns to zero the queue is drained and retired boxes are freed. Ids cross
this boundary, raw pointers do not, except in the staged heads of a flush and
in the grab boxes libweston holds.

**What is hard.** Re-entrancy (dispatch, grabs), reuse of addresses, slots and
pids (registry, grabs, children), objects that die between an event's posting
and its handling (shell), the shutdown from inside a callback (dispatch), three
channels for one death (children), partial failure with undo (layout outputs,
startup), enables that nest in the emission of another enable (mirrors).
There is no persistence and there are no threads: crash recovery and data races
do not arise.

## 2 Modules

An action is one handler, with everything it calls that changes state; nested
calls that may interleave with others are steps of their own. Definitions named
`...Keeps`, `...Twice` and the like, each under a comment "Faulty variant", are
slips the code could have contained: substituting one must violate the property
that guards against it.

| module | models | note |
|---|---|---|
| `Registry` | abstract | ids are never reused: a map from live ids to objects |
| `SlotTable` | `registry.rs` | the table with its LIFO free list, generations modulo `GenMod`; refines `Registry` below the first wrap |
| `ShellEvents` | abstract | one event at a time, in order, none lost, Shutdown last |
| `Dispatch` | `ctx.rs`, `listener.rs`, attach, `Compositor::drop` | the stack of activations; refines `ShellEvents` |
| `Shell` | `westonite-shell/src/lib.rs`, `track_surface` | on top of the guarantees of the two above |
| `Grabs` | `grab.rs` | nested libweston calls composed as operators over a record of state |
| `Children` | `xwayland.rs`, `screenshooter.rs`, `on_sigchld`, autolaunch | kernel, event loop and owners |
| `Layoutput` | `layoutput.rs`, DRM `heads_changed` | a flush step by step, hotplug between flushes |
| `Wiring` | `register_seat`, `register_output_shell`, `curtain.rs`, `layer.rs`, the destroy chain of the shell | libwayland signal lists as link counts |
| `OutputPolicy` | `output_policy.rs` | pure operators, used by `Heads` and `Settings` |
| `Heads` | simple outputs, mirrors and the flush of `heads_changed` | no `Spec` of its own; `Frontend` runs it |
| `Settings` | `resolve.rs`, `overrides.rs`, `libinput.rs`, `reject_unported` and the policy builder of `main.rs` | pure operators; an error is a value |
| `Frontend` | `main`, `build()`, `run()`, `Drop` of the compositor and of the log | composes `Heads` and `Settings` |
| `MCSlotTable`, `MCShell`, `MCFrontend` | — | symmetry sets, constraints and families of inputs of the TLC instances; the other modules are checked as they stand |
| `*Proofs` | — | the theorems of `SlotTable`, `Dispatch`, `Shell`, `Grabs`, `Children`, `Layoutput`, `Wiring`, `Frontend` |

**SlotTable.** `slots` and `free` are the two fields of the Rust struct.
`Insert` is split as in the code, recycling the top of the free list or pushing
a slot; `InvalidatePtr` finds the first slot holding the pointer, clears it,
bumps the generation skipping 0 and pushes the slot. `staled` and
`invalidations` are history variables: every id that ever died, and how often
one did.

**Dispatch.** A frame records which kind of activation is on the stack, which
box it executes with, and how far it is. `depth`, `draining` and `in_sync` are
the code's flags, *not* derived from the stack: that they agree with it is part
of the invariant. `Callback` is a trampoline entered from C, `Outbound` a call
into libweston, `ReturnOutermost` the return that starts the drain,
`DispatchSync`/`DispatchSyncDeferred` the branches of `dispatch_sync`,
`Retire` the deferred drop, `Teardown` the compositor-destroy handler with its
own box on the stack. The shell itself is left open: while it runs it may call,
post and retire anything. What a shell handler does with an event is `Shell`.

**Shell.** C calls while a callback is open (`open`), deferred events after
`Return`, as `Dispatch` allows. Objects stand for their ids because ids are
never reused (`SlotTable`). Loops over seats that call into libweston between
iterations are steps: `job` is the handler and `todo` what it has left, visited
in any order, since the code iterates over a hash map. `tracked` is the
reference-counted tracking table and `queue` the deferred events.

**Grabs.** libweston keeps one current grab per device, tells no grab that it
was superseded, and calls the focus callback of the one that becomes current,
which may end it or start a busy grab. These nested calls are operators from a
record of the state to another (`Now`, `EndBusy`, `SetBusy`, ...), so an action
is one callback with all that nests in it. The loops over devices of a ping
timeout and over grabs of a pong are steps, in any order.

**Children.** A process is used once, a pid is returned to the kernel when its
process is reaped and may then be given to the next. A death is seen as SIGCHLD
(`OnSigchld`, a `waitpid` loop), as end-of-file on the readiness pipe
(`DisplayEnd`) and as a closed connection (`ClientDestroyed`), in any order. A read of the pipe
may fail, and the watch is then given up (`DisplayReadFails`).
`server` and `wm` are what xwayland.so believes; the other variables are the
fields of `XwaylandState`, `ScreenshooterState` and `CtxInner`.

**Layoutput.** `head`, `output`, `attached` are libweston's; `outputs`, `cell`
and `add` are the fields of a group, `cell` being the entries whose pointer the
destroy listener has not cleared. `flush` is the program counter of
`heads_changed`/`process_all`/`process_one`/`try_enable`, with their locals.
libweston may refuse any attach, mode or enable. Detaching a head is taken to
leave its output as it is, which is what both frontends rely on when they count
the heads of an output after detaching one.

**Wiring.** libwayland notices neither a listener that is added twice nor one
that stays on a freed list; `links` therefore counts, per seat and listener, on
how many lists it is. A pointer struct outlives the capability (`idle`) and dies
inside the release of its seat (`releasing`), between two signals. Outputs have
one dimension: a curtain fits when position and width do. `resized` is the
deferred `OutputResized`, `bare` an output whose last curtain could not be made.
The stages of the destruction (`curtains`, `desktop`, `layers`, `context`,
`down`) are the listeners of the compositor's destroy signal, in their order.

**Heads.** An enable is a value-to-value operator over `State`, since enabling
an output emits `output_created` from inside, where the listener of mirrors
enables another head. `outputs` holds the enabled outputs and no other; what the
policy decides of a head is a set, of one setup or, for a head left off, none.
libweston may refuse to create, configure or enable each of them; `refused` is
history. DRM heads are staged and brought up by one step,
`ProcessGroup`, whose inside is `Layoutput`.

**Settings and Frontend.** `PlanOf` is everything between `main`'s first line
and the compositor builder. `Startup` is the literal order of acquisitions,
`Teardown` the order of the drops; `Acquire`, `Skip` and `Refuse` walk the
first, `Release` the second. `Early` is what `build()` gives back by hand before
there is a value whose `Drop` does it. `masked` and `workers` hold the signal
mask and the one inherited by the threads a backend starts: a thread that does
not block the signal takes it and the program dies. `Applied` is what `[libinput]`
turns on for a device, given what the device can do: a key that depends on
another one is inert without it.

What is *given* on a command line is any of `Options`, all that clap knows except
`--version`, or one of the options with a value of their own; `--shell` is
accepted only when it names the built-in shell. Not all of it has to be read:
`SettingsFollow` says that all of it is but for `Unheeded`, which is `--idle-time`
("inert since T3; accepted for parity", `cli.rs:177`) and, with no backend but
DRM, `--width` and `--height` (a finding). Of an `[[output]]` section it speaks of
the keys that `main.rs` guards: clone-of, mirror-of, max-bpc, eotf-mode,
colorimetry-mode, color-characteristics and icc-profile, which need DRM, the VNC
head, or the colour manager. Accepted and inert, and so not in its scope, are a
section for a head that never appears (its keys are still checked), the other
keys of a section on a backend that does not read them, `[libinput]` without DRM
(`libinput.rs:23`), the sections of backends that are not loaded, and the keys of
the file that nothing reads (`[core] idle-time`, `require-input` and `shell`,
`[shell] client`, `[keyboard] numlock-on`, `[[output]] position` and its
`pixman-shadow`).

## 3 Runs

`CHECK_DEADLOCK FALSE` appears only where the system may really stop, and the
configuration says where. TLC with two workers; states are distinct states.

| run | instance | question | states |
|---|---|---|---|
| SlotTable | 3 addresses, generations mod 6, 3 slots, 15 deaths | Is the table sound, also when generations wrap, do stale ids stay dead until they do, and is no id reused before? | 10 k |
| Dispatch | depth 4, 2 events, object, seat and destroy listener, fair | No re-entry, deferred at the edge, quiet loop, no box freed in use; does the core deliver what `ShellEvents` promises; does every posted event leave the queue? | 4 k |
| Shell | 2 windows, one with a subsurface, and 2 seats; or 3 windows and 1 seat | Family links, focus and tracking under every order of deaths and deferred events; a lost focus is replaced | 568 k |
| Grabs | 2 windows of one client, one with a subsurface, 1 pointer, 1 touch screen, 4 boxes | Usable current grabs, flags that are undone, the busy cursor, and the pong that spares others | 575 k |
| Children | 3 processes on 2 pids, fair | Exits, watches and sockets reach and belong to the right owner, every child is reaped, no dead pipe is polled for ever | 67 k |
| Layoutput | 3 clones and another head, 2 outputs, cap 3, every `require-outputs`, fair | No leak, no lost head, startup only with what is required; a flush ends | 317 k |
| Wiring | 2 seats, 2 outputs, 2 positions, 2 widths | Are the listeners and the curtains sound under capability changes, releases, moves, resizes and the shutdown, in any order? | 200 k |
| Frontend | 631 command lines and files; 11 heads of 6 backends, 2 of them hot-pluggable, fair | What is started is what was asked for, with the exceptions of `Unheeded`; failures give back what was acquired; heads come up or have an excuse; mirrors follow; a stop signal ends the program | 470 k |

Four further runs, `ShellActivation`, `ChildrenLateWm`, `LayoutputLateHead` and
`FrontendSilentFlag`, with expectation *violation*, each show one disagreement
between the code and its documents ([Findings](#5-findings)).

**Bounds.** `GenMod` stands for 2^32: with 6 and up to 15 deaths a slot dies
more often than there are generations, so recycling across a wrap occurs; stale
ids and the refinement are claimed up to the last death before a wrap can be
(`BelowWrap`). In `Dispatch`, depth 4 suffices for a callback under a call
under a handler under a drain; all its safety properties are also proved for
every depth. `MaxHops` stands for 64: both are far beyond the longest acyclic
family of the instance, and in a cycle of length 1, 2 or 3 the 5 steps of the
instance end on the same window as the 65 of the code. Four grab boxes let a
busy grab, the grab that supersedes it and one more per device coexist; boxes
of superseded grabs are never freed by the code while their grab is not ended,
so the pool runs out and the instance stops. Three processes on two pids make a
pid be reused while another child is alive. In `Layoutput` a dead entry holds
its output's address, and each of the two groups has one output; with 16, the
cap of a group is out of reach of four heads, so it is lowered to 3, of which
two are staged (the loop counts the creation head in), and the third clone
finds the group full.

In `Wiring` two positions and two widths let a curtain be wrong in either, and
two seats and outputs let one go while the other's handler runs. `Frontend` is
started with families of inputs, each varying what may interact (one flag with
every backend list, every place a file may be found, the mirrors of every kind
of source, ...), rather than with all of them at once, since `Settings` reads
most keys independently; the families are the definitions of `MCFrontend`.
`FarRight` (2000) stops the replugging of an output before its position grows
without bound. Duplicate section names of windowed outputs and more than one
pipewire output are in no family.

**Symmetry** is used in `SlotTable` and `Shell` only, on addresses and on
windows and seats that no constant distinguishes.

**Fairness.** `Dispatch`: weak fairness of the drain and teardown; strong
fairness, per stack depth, of returning from a callback, a sync delivery and a
handler. The loops that call back are over finite snapshots, so an activation
that is resumed again and again returns; strong fairness is needed since the
return is disabled while a nested activation runs. `Children`: weak fairness of
each event source and of `Drop`: the Wayland event loop is level-triggered and
serves all ready sources, and `run()` returns once terminated. Exits are *not*
fair: a child may run for ever. `Layoutput`: weak fairness of a flush in
progress, which is one function call; `FlushEnds` then says that its loops end.
`Frontend`: a flush returns (`[]<>(flush = "no")`, which `Layoutput` shows for
its DRM part and which holds for the rest since each step shortens `todo`),
weak fairness of the other steps of the program, which are calls that return,
and strong fairness of serving the stop signal: a round of the event loop serves
every ready source, so connectors that keep changing cannot starve it. Reading
the configuration is not assumed to end, and clients are not assumed to exit.

## 4 Proofs

`tlapm` checks eight modules, for every value of the constants under the
assumptions named in the modules (`SlotTableAssumption`: at least two
generations; `DispatchAssumption`: the destroy listener is a one-shot box and
no seat's; `ChildrenAssumption`: `None` is neither a process nor a pid;
`WiringAssumption`: the bounds are naturals, a width positive;
`NoneAssumption`: `None` is no exit code; `GrabsAssumption`: windows, devices
and boxes are told apart from `None` and `Default`, pointers from touch screens;
`ShellAssumption`: windows and their surfaces are told apart from `None`;
`LayoutputAssumption`: there are finitely many connectors, and the cap on clones
is above one, as the code's 16 is: with a cap of one the first head of a group
would be dropped; those of `Frontend` are below). TLC evaluates each of them on
its instance.

**SlotTableProofs.** `TypeCorrect`, `TableConsistent` (the free list is exactly
the dead slots without repetition, generation 0 is never minted, one id per
object: `Consistent`), `StaleIdsDead` and `TableImplementsRegistry`
(`RegistryUntilWrap`: each step before the first wrap is a step of `Registry`).
The free list being exact is what makes a recycled slot dead; for stale ids the
invariant adds that an id that died from a slot has a smaller generation than
the slot now has, which is true as long as fewer than `GenMod - 1` deaths
occurred. The theorem says so: past the wrap an id *can* come back, and the
properties are guarded by `invalidations`.

**DispatchProofs.** `IInv` in `Dispatch` joins the safety properties with
`StackShape` (which kinds of frame can lie on which), `Bookkeeping` (`depth`
counts the frames that run under `with_depth`, less the one that drains; the
flags hold exactly when a frame is in that phase), `QuietBase` and `Lifecycle`.
Without `Bookkeeping` no property is inductive: the code decides by the
counter, the properties speak about the stack. `BoxesOutliveTheirFrames` needs
that a retired box is only freed at depth zero and that the teardown parks
all boxes but those of seats, none of which can be on the stack then.
`EventsDelivered` is the refinement to `ShellEvents`, step by step, for any
number of events, boxes and nested activations.

**ShellProofs.** `IInv` joins the properties with what their proofs lack.
`Linked` states the family links by positions, with lists free of repetition;
`FamilyLinked` follows from it, and it survives the edits of lists (`Only` drops
windows from a list and keeps the order of the rest). `WorldSound`: the shell
manages the live windows until its shutdown, shows none it does not manage, and
is left nothing to do after it. `QueueSound`: every event that waits reports the
end of something that has ended for good. `JobSound`: a loop over seats visits
seats that still need it; in a hunt for a new focus each of them holds the
surface that died. Without it `FocusWatched` is not inductive, since a seat may
hold a dead surface only as long as the loop still comes to it.
`FocusIsAlwaysReplaced` is an action property of the same invariant. Families of
any size and shape are covered, circles included, in which a walk (`Walk`, a
bounded number of hops) ends somewhere in the circle: what is used of it is that
it ends at a window the shell manages.

**LayoutputProofs.** The invariant follows the locals of a flush. `StagedSound`:
heads are staged on their own group, and after the visits exactly the groups to
be processed have any. `OutputsSound`: entries, outputs and heads agree, and the
one output that is not enabled is the one being tried. `UndoSound`: while an
output is tried, each head staged for it is attached or remembered, and what the
undo has left to give back is attached to nothing else; `NoneIsLost` rests on
it, and on `SplitStaged`: `try_attach` splits the staged heads into the first,
the attached and the refused. `BootSound` is why the verdict on startup can be
trusted: until an output is enabled, `failed` is the number of the groups the
first flush is done with (`Finished`), and while it is zero every connected head
is enabled or still under way (`UnderWay`). The properties `GroupsOwnTheirs`,
`LostIsCounted` and `StartsAsRequired` speak of none of this and are not
inductive.

**GrabsProofs.** The calls nested in a callback are operators on a record, so the
invariant is one too: `Good(g, V, R)` says that `g` is sound inside a callback
(`Static`), that every device has a usable grab or none (`Usable`), and that the
flags of the windows in `V` and `R` have holders. Each operator has a lemma that
takes a good record to a good one, with `V` and `R` shrunk by the window whose
flag has no holder for the moment: between `Place` and `Ungrabbed` of a busy
grab, or before the grab of a resize starts. `GrabsUsable` alone is not
inductive. What it lacks is why supersession, which libweston tells nobody of,
loses no holder: a grab's window keeps the focus of its device while it lives,
so whatever supersedes the grab is of the same window, and re-flags it. Two free
boxes suffice for any callback (`Roomy`): the grab it starts, and the busy grab
its end may start. `LoopInv` is about the loops of a ping timeout and a pong,
which visit a copy of the seats or boxes they found: nothing runs between two
visits, so the pointers left to visit stay plugged, the windows live and the
boxes busy. From it follow the two action properties: a pong ends busy grabs
alone (`PongsSpareOthers`), and a timeout shows the busy cursor wherever it must
(`BusyIsShown`).

**ChildrenProofs.** `IInv` in `Children` adds to the invariants that pids of
unreaped processes differ, that the module's server is unreaped, that a watch
goes with the WM socket of the same server, and that the slot of the
screenshooter is exactly the connected client. `ExitsRelayed` is then: the
recorded pid is that of the module's server, at all times.

**WiringProofs.** `IInv` says what the listeners of a record are *exactly*:
two on the seat, those of the pointer as its capability is (`SeatInv`), records
only while the shell listens (`RecInv`), a curtain at the position of its output
with the width it had when the queue was last handled (`OutputInv`), and what
exists at each stage of the destruction (`StageInv`). The properties are weaker:
that no link dangles follows only because the guard comes off in the handler of
the pointer's own destruction, before the seat is released.

**FrontendProofs**, the resources. The sequences are literal, so `StartupOrder` and
`TeardownOrder` state them element by element, and `NeedsComeFirst` and
`TeardownRespectsNeeds` compare them with what each resource points into. The
invariant (`IInv`) says that a startup at step *n* holds a part of `Before(n)` that
contains its unconditional resources (`Base`); the conditional ones are looked
at before what needs them is acquired. `FailingKeeps` is the lemma for every
error path, by hand or by `Drop`. `ResourcesAreSound` then holds whatever
`Settings` makes of the input and whatever `Heads` does.

**FrontendProofs**, the heads: `TypeCorrect`, `HeadsAreSound`, `NoChangeIsSpurious`,
for any number of heads of any backends, any policy `main` lets through, and any
choice of what libweston refuses. Enables nest, so `Good(s, about, new, fresh)`
is a predicate of a *state as a value*: `s` is sound but for the heads `about` to
be served (staged, or being visited), the heads `new` that are attached and not
in the registry yet, and the outputs that are up and not announced (`fresh`). An
output that comes up makes the last two non-empty (`Raised`), the emission of
`output_created` makes them empty again (`Announcement`), and `Lowered` and
`Retouched` are the lemmas for an output that goes and one that is changed in
place. `HeadsSound` is not inductive; what it lacks is

- why the nested enable finds its mirror: a head that waits for its source is
  served whenever the source is up (`Due`), and outputs that are mirrored are
  never remote (`Mirroring`), so that the nesting ends after one level;
- what a flush has yet to do: every head marked as changed is in the rest of its
  snapshot (`FlushInv`), and staged heads are of the group their plan names
  (`StagedInv`);
- that the policy has no mirror but of a VNC head and no clone but of a DRM
  section (`PolicySound`). It is `reject_unported` that sees to the first, and
  `PlanIsChecked` proves it of `Settings`, check by check, as it proves that what
  a plan loads is a list of known backends without RDP;
- when things happen: no head before the backends are loaded, no output before
  the flush, nothing left to flush after it (`PhaseInv`). `SocketMeansReady`
  follows from this.

`NoChangeIsSpurious` comes out of the same lemmas: each also says of the states
before and after that a head which came up in between is unmarked (`Followed`,
`Unsurprised`).

**FrontendProofs**, the settings: `PlansAreFollowed` says of every request what
`SettingsFollow` says of those the run tries. `PlanIsChecked` is its core: if
`Plan` returns no error, no check found one, so the plan has passed all of them
(`Accepted`) and its parts come from where `MadeOf` says. Then one lemma per part:
what a backend consumes its loader reads (`ConsumedIsRead`: two tables of the
code, option by option), and any backend but DRM reads a size (`SizesAreRead`);
a guarded key passed a check of `reject_unported` or `build_color_setup` that
names what it needs (`Honoured`, `Coloured`); a plan agrees with the one the
command line alone would get, where it has a say (`CommandLineWins`: a renderer
flag cannot be outdone by the file because that is a conflict and no plan is
made); the first section of a name is the rule of its head (`FirstSectionRules`) and, without clone-of, controls
it over any number of hops (`OwnSectionControls`); a configured key survives
`Applied` (`InputIsApplied`); the first directory of the search wins
(`FirstFileIsRead`). `OnlyConfigurePlans` carries this to the steps.

What these proofs assume of the constants, and why the code justifies it:
`HeadsAssumption` and `NamesAssumption`: every head has a backend; the names of
DRM outputs are not those of heads of other backends (connector names against
`headless`, `X..`, `WL..`, `vnc`, `pipewire`), the head called `vnc` is the VNC
backend's, which is always connected; `None` and `Dangling` name nothing.
`NoneIsNoError`, `NoneIsNoKey`: `None` is no error value and no key.
`BackendsAssumption`: the heads a backend may make are heads; `RequestsAssumption`: the parsers give a list of
names, a list of sections, a number for `--output-count`, and no option or
`[libinput]` key but the known ones. Clap and serde refuse those they do not
know; the ones they know and nothing reads, as `--idle-time`, are in `Options`
like the rest, and `--version` is left out because it starts nothing; `clone-of` is
a DRM name; there are as many default names as outputs asked for (the code makes
them up from a counter); and it is known of the directories that the environment
names whether they have a file. That `None` is neither a request, a rule nor a
plan tells variables and values apart from unset ones.

The refinements and the invariants were checked by TLC before they were proved.
Every invariant and every action property of a passing run is a theorem. Only
model-checked are the liveness properties (`EventsLeaveQueue`,
`ChildrenAreReaped`, `DeadWatchEnds`, `FlushEnds`, `TerminationEnds`), which rest on
fairness.

## 5 Findings

Each is a `violation` run with a counterexample of a few steps; `PROJECT.json`
quotes the document and the line.

| run | what the code does | what the document says |
|---|---|---|
| ShellActivation | a focused window that is given a parent does not activate the root of its new family until the next focus change; a seat that goes, or a focused child that is removed, leaves its root activated | any transitive child focused ⇒ activated |
| ChildrenLateWm | a server reaped before its readiness line is read is given a window manager | one that exited before being ready is not finished |
| LayoutputLateHead | a head that arrives at a group that has an output is dropped silently: the loop skips index 0, which is no creation head there | it can attach; losers go to the next round |
| FrontendSilentFlag | `--width` and `--height` with only the DRM backend are accepted and read by nothing | a flag whose backend is not loaded is a startup error, not a silent no-op |

The C frontend shares `LayoutputLateHead`. More that the models show, or that
was met while modelling, without a run:

- A busy grab started on a subsurface ends at its first focus callback
  (`grab.rs:359`, against "hovering a subsurface also shows the busy cursor",
  `westonite-shell/src/lib.rs:128`).
- A second Super+S overwrites the recorded pid of a screenshooter that lost its
  client but still runs, whose exit is then not logged (`screenshooter.rs:217`,
  against the comment at 214).
- One refused clone makes `process_one` report its group as failed although its
  output is up, so that with `require-outputs=any` and one group the compositor
  does not start (`layoutput.rs:276`, against "degrade rather than abort" at
  31). The C frontend does the same.
- The head-destroy listener leaves the output of the last head
  (`compositor.rs:2494`, against `docs/callback-inventory.md:56`).

- `build()` leaks context, display and compositor when the colour manager does
  not load (`compositor.rs:545`); `GivenBack` excepts exactly this path.
- After a resize a mirror whose scale differs from its source's is sized with
  the scale it took over (`compositor.rs`, `apply_mirror_modeline`), against
  "the mirror sits exactly over its source"; `MirrorOnSource` allows both. A
  mirror whose source died keeps a dangling pointer that may match a later
  output at the same address.
- `--use-pixman` with only DRM is refused as unhandled, although the C loader
  consumes it (`src/frontend/main.c:3397`).
- `require-input` is read from the file and by nothing after that
  (`resolve.rs:106`, against `westonite.toml.example:26`); the doc comment of
  `load_drm` says `configure_device` stays null, which the code sets.
- A head without a section has HDCP disallowed, one with a section that does
  not mention it allowed (`output_policy.rs:458`, "default true").
- `-o output.key=value` without an index replaces the array of sections.

## 6 Limits

Not modelled, and why: parsing of TOML and of arguments (serde, clap); the
values given to input devices (only which settings reach which device is
modelled); formatting of logs; bindings
and shim (generated, stateless; without them the map covers a little more than
half of the Rust code); the C oracle; geometry of windows (placement, moves,
resizes), which the properties do not tell apart; rotation of outputs; the
settings `configure()` applies to DRM outputs; output windows the user closes,
where the backend destroys an output by itself; the panic path, at which release
builds abort; a mirror source without any mode (an enabled output has one);
argument and descriptor set-up of a fork. SIGTERM, SIGINT and SIGUSR2 are one
signal. Two hazards no property covers are listed in
`PROJECT.json` with a note.

What libweston does is external. It is modelled from how the code uses it,
nondeterministically where the code does not rely on an outcome: which
callbacks a call triggers, which requests it refuses, when it destroys an
object. `Dispatch` lets any callback occur under any call; `Shell` and `Grabs`
let those occur that the code's comments and the C frontend name.

The prover in use cannot do liveness or `ENABLED`, nor cite the library's
induction theorems, whose parameter is an operator. What the proofs need of the
recursive functions of `Shell` is shown without them: a least counterexample,
which exists because the naturals are well-founded, is refuted.

## 7 Plan

Done so far: every component that keeps state has a module. Next:

1. `Layoutput` composed into `Heads` by a refinement: `ProcessGroup` as the
   abstract step of a flush.
2. Output windows that the user closes, and several pipewire outputs.
