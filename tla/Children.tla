------------------------------- MODULE Children -------------------------------
(***************************************************************************)
(* The child processes of the compositor: the autolaunched client, the     *)
(* Xwayland server (crates/weston/src/xwayland.rs) and the screenshooter   *)
(* (screenshooter.rs), reaped by one SIGCHLD handler (compositor.rs).      *)
(*                                                                         *)
(* The event loop runs one callback at a time, but in no promised order: a *)
(* death is seen as SIGCHLD, as the end of the readiness pipe and as a     *)
(* closed Wayland connection, whichever is dispatched first.  The handlers *)
(* touch no shell state, so the drain after them is left out (Dispatch).   *)
(*                                                                         *)
(* A process is used once; its pid returns to the kernel when it is        *)
(* reaped.  Failures before the fork change nothing and are left out.      *)
(***************************************************************************)
EXTENDS Integers, FiniteSets

CONSTANTS
  Proc,     \* processes; bounds the number of forks
  Pid,
  None,
  Watch     \* [autolaunch] watch: the compositor ends with that client

ASSUME ChildrenAssumption ==
  None \notin Proc \cup Pid /\ Watch \in BOOLEAN

VARIABLES
  \* the kernel
  life,       \* "unborn", "running", "zombie" or "reaped"
  role,       \* what each process was forked as
  pid,
  sigchld,    \* SIGCHLD is pending on the signalfd
  wrote,      \* lines on the readiness pipe: 0, 1 digits only, 2 complete
  seen,       \* what of it the compositor has read
  connected,  \* screenshooters whose wl_client is alive
  \* xwayland.so
  server,     \* the process whose wl_client spawn_xserver returned; the
              \* module listens for X connections when there is none
  wm,         \* the process whose WM socket the module was given
  \* the frontend
  sources,    \* readiness pipes the event loop polls
  watch,      \* XwaylandState.display_fd_source
  wmFd,       \* XwaylandState.wm_fd, by the process at its other end
  xpid,       \* XwaylandState.pid
  shot,       \* ScreenshooterState.client
  shotPid,    \* ScreenshooterState.pid
  autolaunch, \* CtxInner.autolaunch
  stage       \* "boot", "running", "terminated" or "gone"

kernel == <<life, role, pid, sigchld, wrote, seen>>
module == <<server, wm>>
xwayland == <<sources, watch, wmFd, xpid>>
screenshooter == <<connected, shot, shotPid>>
vars == <<kernel, module, xwayland, screenshooter, autolaunch, stage>>

-------------------------------------------------------------------------------
Unreaped == {p \in Proc : life[p] \in {"running", "zombie"}}
FreePid == Pid \ {pid[p] : p \in Unreaped}
Unborn == {p \in Proc : life[p] = "unborn"}

\* wl_display_run dispatches until the end of the iteration that terminated it.
Dispatching == stage \in {"running", "terminated"}

Fork(p, r, n) ==
  /\ Unborn # {} /\ p = CHOOSE q \in Unborn : TRUE
  /\ n \in FreePid
  /\ life' = [life EXCEPT ![p] = "running"]
  /\ role' = [role EXCEPT ![p] = r]
  /\ pid' = [pid EXCEPT ![p] = n]
  /\ UNCHANGED <<sigchld, wrote, seen>>

\* start_autolaunch, between build() and run().
Autolaunch(p, n) ==
  /\ stage = "boot"
  /\ Fork(p, "autolaunch", n)
  /\ autolaunch' = n
  /\ stage' = "running"
  /\ UNCHANGED <<module, xwayland, screenshooter>>

RunWithoutAutolaunch ==
  /\ stage = "boot"
  /\ stage' = "running"
  /\ UNCHANGED <<kernel, module, xwayland, screenshooter, autolaunch>>

-------------------------------------------------------------------------------
(***************************************************************************)
(* Xwayland.                                                               *)
(***************************************************************************)

\* Faulty variant: the slot is overwritten, the source of a server that died
\* unready stays on the loop.
RewatchedOver(p) ==
  /\ watch' \in {p, None}
  /\ sources' = IF p = None THEN sources \ {watch}
                ELSE sources \cup ({watch'} \ {None})

\* close_display_watch, then the watch on the pipe of a new server, if any.
\* The new source is null when it could not be added.
Rewatched(p) ==
  /\ watch' \in {p, None}
  /\ sources' = (sources \ {watch}) \cup ({watch'} \ {None})

CloseWatch == Rewatched(None)

SpawnUnrecorded(p, n) ==
  /\ Dispatching /\ server = None
  /\ Fork(p, "xserver", n)
  /\ server' = p
  /\ wmFd' = p
  /\ Rewatched(p)
  /\ UNCHANGED <<wm, xpid, screenshooter, autolaunch, stage>>

\* spawn_xserver: an X client connected while the module listens.
SpawnXserver(p, n) ==
  /\ Dispatching /\ server = None
  /\ Fork(p, "xserver", n)
  /\ server' = p
  /\ xpid' = n
  /\ wmFd' = p
  /\ Rewatched(p)
  /\ UNCHANGED <<wm, screenshooter, autolaunch, stage>>

\* The server was started but has no wl_client: nothing is recorded.
SpawnXserverFails(p, n) ==
  /\ Dispatching /\ server = None
  /\ Fork(p, "xserver", n)
  /\ UNCHANGED <<module, xwayland, screenshooter, autolaunch, stage>>

\* The server writes its display number, then the end of the line.
ServerWrites(p) ==
  /\ role[p] = "xserver" /\ life[p] = "running" /\ wrote[p] < 2
  /\ stage # "gone"
  /\ wrote' = [wrote EXCEPT ![p] = @ + 1]
  /\ UNCHANGED <<life, role, pid, sigchld, seen, module, xwayland,
                 screenshooter, autolaunch, stage>>

\* handle_display_fd on a complete line: the WM socket goes to the module.
DisplayReady(p) ==
  /\ p \in sources /\ Dispatching
  /\ seen[p] < wrote[p] /\ wrote[p] = 2
  /\ seen' = [seen EXCEPT ![p] = wrote[p]]
  /\ wm' = IF wmFd = None THEN wm ELSE wmFd
  /\ wmFd' = None
  /\ CloseWatch
  /\ UNCHANGED <<life, role, pid, sigchld, wrote, server, xpid,
                 screenshooter, autolaunch, stage>>

\* Faulty variant: read again although nothing more was written.
DisplayRetryAgain(p) ==
  /\ p \in sources /\ Dispatching
  /\ wrote[p] # 2
  /\ seen' = [seen EXCEPT ![p] = @ + 1]
  /\ UNCHANGED <<life, role, pid, sigchld, wrote, module, xwayland,
                 screenshooter, autolaunch, stage>>

\* Half a line: keep reading.
DisplayRetry(p) ==
  /\ p \in sources /\ Dispatching
  /\ seen[p] < wrote[p] /\ wrote[p] # 2
  /\ seen' = [seen EXCEPT ![p] = wrote[p]]
  /\ UNCHANGED <<life, role, pid, sigchld, wrote, module, xwayland,
                 screenshooter, autolaunch, stage>>

\* Faulty variant: the end of the pipe is taken for half a line.
DisplayEndRetried(p) ==
  /\ p \in sources /\ Dispatching
  /\ seen[p] = wrote[p] /\ life[p] # "running"
  /\ UNCHANGED vars

\* The end of the pipe: the server died before it was ready.
DisplayEnd(p) ==
  /\ p \in sources /\ Dispatching
  /\ seen[p] = wrote[p] /\ life[p] # "running"
  /\ CloseWatch
  /\ UNCHANGED <<kernel, module, wmFd, xpid, screenshooter,
                 autolaunch, stage>>

\* The read fails: it is logged, and the watch goes although the server may live
\* on, without a WM.  (At the end of the pipe a failure does what the end does.)
DisplayReadFails(p) ==
  /\ p \in sources /\ Dispatching
  /\ seen[p] < wrote[p]
  /\ CloseWatch
  /\ UNCHANGED <<kernel, module, wmFd, xpid, screenshooter, autolaunch, stage>>

DisplayFd(p) ==
  DisplayReady(p) \/ DisplayRetry(p) \/ DisplayReadFails(p) \/ DisplayEnd(p)

-------------------------------------------------------------------------------
(***************************************************************************)
(* The screenshooter.                                                      *)
(***************************************************************************)

\* Super+S.  The client is started, has a wl_client or not, and one pid is
\* kept.
ScreenshooterBinding(p, n) == \E succeeds \in BOOLEAN :
  /\ Dispatching /\ shot = None
  /\ Fork(p, "screenshooter", n)
  /\ shotPid' = n
  /\ connected' = IF succeeds THEN connected \cup {p} ELSE connected
  /\ shot' = IF succeeds THEN p ELSE None
  /\ UNCHANGED <<module, xwayland, autolaunch, stage>>

\* A connection is closed, by either side: the wl_client is destroyed, and the
\* one-shot client_destroy frees the slot.
ClientDestroyed(p) ==
  /\ Dispatching /\ p \in connected
  /\ connected' = connected \ {p}
  /\ shot' = None
  /\ UNCHANGED <<kernel, module, xwayland, shotPid, autolaunch, stage>>

-------------------------------------------------------------------------------
(***************************************************************************)
(* Exits.                                                                  *)
(***************************************************************************)

Exit(p) ==
  /\ life[p] = "running" /\ stage # "gone"
  /\ life' = [life EXCEPT ![p] = "zombie"]
  /\ sigchld' = TRUE
  /\ UNCHANGED <<role, pid, wrote, seen, module, xwayland,
                 screenshooter, autolaunch, stage>>

\* What the kernel forgets of a process that is reaped.
Reap(dead) ==
  /\ sigchld' = FALSE
  /\ life' = [p \in Proc |-> IF p \in dead THEN "reaped" ELSE life[p]]
  /\ role' = [p \in Proc |-> IF p \in dead THEN None ELSE role[p]]
  /\ pid' = [p \in Proc |-> IF p \in dead THEN None ELSE pid[p]]
  /\ UNCHANGED <<wrote, seen>>

\* Which of the pids just reaped each owner takes, the first that matches.
AutolaunchExited(pids) == autolaunch \in pids
XserverExited(pids) == xpid \in pids \ {autolaunch}
ScreenshooterExited(pids) == shotPid \in pids \ {autolaunch, xpid}

SlotAfterExit(pids) == shot

\* Faulty variants: the pid of the server is kept; only one child is reaped.
OnSigchldKeepsPid ==
  LET zombies == {p \in Proc : life[p] = "zombie"}
      pids == {pid[p] : p \in zombies}
  IN
  /\ Dispatching /\ sigchld
  /\ Reap(zombies)
  /\ autolaunch' = IF AutolaunchExited(pids) THEN None ELSE autolaunch
  /\ stage' = IF AutolaunchExited(pids) /\ Watch THEN "terminated" ELSE stage
  /\ server' = IF XserverExited(pids) THEN None ELSE server
  /\ wm' = IF XserverExited(pids) THEN None ELSE wm
  /\ shotPid' = IF ScreenshooterExited(pids) THEN None ELSE shotPid
  /\ shot' = SlotAfterExit(pids)
  /\ UNCHANGED <<connected, xwayland>>

OnSigchldOnce == \E z \in Proc :
  LET pids == {pid[z]} IN
  /\ Dispatching /\ sigchld /\ life[z] = "zombie"
  /\ Reap({z})
  /\ autolaunch' = IF AutolaunchExited(pids) THEN None ELSE autolaunch
  /\ stage' = IF AutolaunchExited(pids) /\ Watch THEN "terminated" ELSE stage
  /\ xpid' = IF XserverExited(pids) THEN None ELSE xpid
  /\ server' = IF XserverExited(pids) THEN None ELSE server
  /\ wm' = IF XserverExited(pids) THEN None ELSE wm
  /\ shotPid' = IF ScreenshooterExited(pids) THEN None ELSE shotPid
  /\ shot' = SlotAfterExit(pids)
  /\ UNCHANGED <<connected, sources, watch, wmFd>>

\* on_sigchld: every zombie is reaped and handed to its owner.  The exit of
\* the X server is relayed to the module (xserver_exited), which takes the WM
\* down and listens again; its WM socket and readiness watch stay.
OnSigchld ==
  LET zombies == {p \in Proc : life[p] = "zombie"}
      pids == {pid[p] : p \in zombies}
  IN
  /\ Dispatching /\ sigchld
  /\ Reap(zombies)
  /\ autolaunch' = IF AutolaunchExited(pids) THEN None ELSE autolaunch
  /\ stage' = IF AutolaunchExited(pids) /\ Watch THEN "terminated" ELSE stage
  /\ xpid' = IF XserverExited(pids) THEN None ELSE xpid
  /\ server' = IF XserverExited(pids) THEN None ELSE server
  /\ wm' = IF XserverExited(pids) THEN None ELSE wm
  /\ shotPid' = IF ScreenshooterExited(pids) THEN None ELSE shotPid
  /\ shot' = SlotAfterExit(pids)
  /\ UNCHANGED <<connected, sources, watch, wmFd>>

\* on_term_signal.
OnTermSignal ==
  /\ Dispatching
  /\ stage' = "terminated"
  /\ UNCHANGED <<kernel, module, xwayland, screenshooter, autolaunch>>

\* Compositor::drop: the teardown of the server (xserver_exited, whose module
\* dies with the compositor) and of the screenshooter, the signal sources, and
\* with the display every wl_client.
Drop ==
  /\ stage = "terminated"
  /\ stage' = "gone"
  /\ CloseWatch
  /\ wmFd' = None /\ xpid' = None
  /\ server' = None /\ wm' = None
  /\ shot' = None /\ shotPid' = None
  /\ connected' = {}
  /\ UNCHANGED <<kernel, autolaunch>>

-------------------------------------------------------------------------------
Init ==
  /\ life = [p \in Proc |-> "unborn"]
  /\ role = [p \in Proc |-> None]
  /\ pid = [p \in Proc |-> None]
  /\ sigchld = FALSE
  /\ wrote = [p \in Proc |-> 0] /\ seen = [p \in Proc |-> 0]
  /\ connected = {}
  /\ server = None /\ wm = None
  /\ sources = {} /\ watch = None /\ wmFd = None /\ xpid = None
  /\ shot = None /\ shotPid = None
  /\ autolaunch = None
  /\ stage = "boot"

Next ==
  \/ \E p \in Proc, n \in Pid :
       \/ Autolaunch(p, n) \/ SpawnXserver(p, n) \/ SpawnXserverFails(p, n)
       \/ ScreenshooterBinding(p, n)
  \/ \E p \in Proc :
       \/ ServerWrites(p)
       \/ DisplayReady(p) \/ DisplayRetry(p) \/ DisplayReadFails(p) \/ DisplayEnd(p)
       \/ ClientDestroyed(p) \/ Exit(p)
  \/ RunWithoutAutolaunch \/ OnSigchld \/ OnTermSignal \/ Drop

Spec == Init /\ [][Next]_vars

\* The event loop is level-triggered and serves every ready source; run()
\* returns once it was terminated.
Fairness ==
  /\ WF_vars(OnSigchld) /\ WF_vars(Drop)
  /\ \A p \in Proc : WF_vars(DisplayFd(p))

FairSpec == Spec /\ Fairness

-------------------------------------------------------------------------------
(***************************************************************************)
(* Properties                                                              *)
(***************************************************************************)

TypeOK ==
  /\ life \in [Proc -> {"unborn", "running", "zombie", "reaped"}]
  /\ role \in [Proc -> {None, "autolaunch", "xserver", "screenshooter"}]
  /\ pid \in [Proc -> Pid \cup {None}]
  /\ sigchld \in BOOLEAN
  /\ wrote \in [Proc -> 0 .. 2] /\ seen \in [Proc -> 0 .. 2]
  /\ connected \subseteq Proc /\ sources \subseteq Proc
  /\ {server, wm, watch, wmFd, shot} \subseteq Proc \cup {None}
  /\ {xpid, shotPid, autolaunch} \subseteq Pid \cup {None}
  /\ stage \in {"boot", "running", "terminated", "gone"}

\* A recorded pid is that of an unreaped child of its owner, so an exit is
\* never charged to another child, although the kernel reuses pids.
Owns(n, r) == n # None => \E p \in Unreaped : pid[p] = n /\ role[p] = r
PidsAreOurs ==
  /\ Owns(autolaunch, "autolaunch") /\ Owns(xpid, "xserver") /\ Owns(shotPid, "screenshooter")

\* While the module holds a server, that server's exit will be relayed to it:
\* it never waits for one nobody remembers, and is told of no exit twice.
ExitIsRelayed ==
  xpid = IF server = None THEN None ELSE pid[server]

\* The loop polls the readiness pipe the frontend remembers and no other, and
\* that of no older server than the module's (xwayland.rs:285: "an orphaned
\* source outliving the pipe it watches is owned by nobody").
WatchIsCurrent ==
  /\ sources = {watch} \ {None}
  /\ watch # None /\ server # None => watch = server

\* The module is only ever given the WM socket of a server that said it is
\* ready.
WmIsReady == wm # None => wrote[wm] = 2

\* One screenshot at a time (screenshooter.rs:174: "Don't start a screenshot
\* whilst we already have one in progress").
OneScreenshot ==
  Cardinality(connected) <= 1

\* Every child that is remembered as alive is the one that was started for it.
ChildrenOurs == PidsAreOurs /\ OneScreenshot

\* A readiness watch and a WM socket belong to the server that runs.
XwaylandPaired == WatchIsCurrent /\ WmIsReady

\* Every exit is noticed: children are reaped as long as the compositor runs.
ChildrenAreReaped == \A p \in Proc :
  life[p] = "zombie" /\ Dispatching ~> life[p] = "reaped" \/ stage = "gone"

\* A dead server's watch goes away instead of spinning (xwayland.rs:359).
DeadWatchEnds == \A p \in Proc :
  p \in sources /\ life[p] # "running" ~> p \notin sources

-------------------------------------------------------------------------------
(***************************************************************************)
(* What makes the properties inductive.                                    *)
(***************************************************************************)

PidsDistinct ==
  /\ \A p \in Unreaped : pid[p] \in Pid
  /\ \A p, q \in Unreaped : pid[p] = pid[q] => p = q

ServerUnreaped ==
  server # None => server \in Unreaped /\ role[server] = "xserver"

\* The parked WM socket and the readiness watch are those of one server.
SocketPaired == watch # None => wmFd = watch

SlotExact == connected = {shot} \ {None}

IInv == /\ TypeOK
        /\ PidsDistinct
        /\ ServerUnreaped
        /\ PidsAreOurs
        /\ ExitIsRelayed
        /\ WatchIsCurrent
        /\ SocketPaired
        /\ WmIsReady
        /\ SlotExact

-------------------------------------------------------------------------------
\* A claim of the documents that the code does not keep.

\* "xwayland exited before being ready, don't finish initialization, the
\* process watcher will cleanup" (xwayland.rs:336): no WM for a server whose
\* exit the module was told of.
NoWmAfterExit == wm # None => server = wm

===============================================================================
