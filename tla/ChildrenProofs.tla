---------------------------- MODULE ChildrenProofs ----------------------------
(***************************************************************************)
(* Proofs about the child processes: the invariants of Children hold for   *)
(* any number of processes and pids.                                       *)
(***************************************************************************)
EXTENDS Children, FiniteSetTheorems, TLAPS

\* A process is forked once, with a pid no unreaped process has, and the
\* records of the others stay.
LEMMA ForkFacts ==
  ASSUME NEW p, NEW r, NEW n \in Pid, Fork(p, r, n), TypeOK, PidsDistinct,
         r \in {"autolaunch", "xserver", "screenshooter"}
  PROVE  /\ p \in Proc /\ life[p] = "unborn"
         /\ Unreaped' = Unreaped \cup {p}
         /\ pid'[p] = n /\ role'[p] = r
         /\ \A q \in Unreaped : q # p /\ pid'[q] = pid[q] /\ role'[q] = role[q]
                                /\ pid[q] # n
         /\ PidsDistinct'
         /\ life' \in [Proc -> {"unborn", "running", "zombie", "reaped"}]
         /\ role' \in [Proc -> {None, "autolaunch", "xserver", "screenshooter"}]
         /\ pid' \in [Proc -> Pid \cup {None}]
         /\ sigchld' = sigchld /\ wrote' = wrote /\ seen' = seen
<1>1. p \in Unborn
  BY DEF Fork
<1>2. p \in Proc /\ life[p] = "unborn"
  BY <1>1 DEF Unborn
<1>3. /\ life' = [life EXCEPT ![p] = "running"]
      /\ role' = [role EXCEPT ![p] = r]
      /\ pid' = [pid EXCEPT ![p] = n]
  BY DEF Fork
<1>4. Unreaped' = Unreaped \cup {p}
  BY <1>2, <1>3 DEF Unreaped, TypeOK
<1>5. /\ pid'[p] = n /\ role'[p] = r
      /\ \A q \in Unreaped : q # p /\ pid'[q] = pid[q] /\ role'[q] = role[q]
  BY <1>2, <1>3 DEF Unreaped, TypeOK
<1>6. \A q \in Unreaped : pid[q] # n
  BY DEF Fork, FreePid
<1>7. PidsDistinct'
  BY <1>4, <1>5, <1>6 DEF PidsDistinct
<1> QED
  BY <1>2, <1>3, <1>4, <1>5, <1>6, <1>7 DEF TypeOK, Fork

LEMMA InitInvariant == Init => IInv
<1> SUFFICES ASSUME Init PROVE IInv
  OBVIOUS
<1>1. TypeOK
  <2>1. /\ life \in [Proc -> {"unborn", "running", "zombie", "reaped"}]
        /\ role \in [Proc -> {None, "autolaunch", "xserver", "screenshooter"}]
        /\ pid \in [Proc -> Pid \cup {None}]
        /\ wrote \in [Proc -> 0 .. 2] /\ seen \in [Proc -> 0 .. 2]
    BY DEF Init
  <2> QED
    BY <2>1 DEF Init, TypeOK
<1>2. Unreaped = {}
  BY DEF Init, Unreaped
<1>3. PidsDistinct /\ ServerUnreaped /\ PidsAreOurs /\ ExitIsRelayed
  BY <1>2 DEF Init, PidsDistinct, ServerUnreaped, PidsAreOurs, Owns, ExitIsRelayed
<1>4. WatchIsCurrent /\ SocketPaired /\ WmIsReady /\ SlotExact
  BY DEF Init, WatchIsCurrent, SocketPaired, WmIsReady, SlotExact
<1> QED
  BY <1>1, <1>3, <1>4 DEF IInv

\* Forks without a server: the recorded pids keep their owners.
LEMMA AutolaunchPreserves ==
  ASSUME IInv, NEW p \in Proc, NEW n \in Pid, Autolaunch(p, n)
  PROVE  IInv'
<1> USE DEF IInv
<1>1. Fork(p, "autolaunch", n)
  BY DEF Autolaunch
<1>2. PidsDistinct'
  BY <1>1, ForkFacts
<1>3. TypeOK'
  BY <1>1, ForkFacts DEF Autolaunch, TypeOK, module, xwayland, screenshooter
<1>4. ServerUnreaped' /\ ExitIsRelayed'
  BY <1>1, ForkFacts
     DEF Autolaunch, ServerUnreaped, ExitIsRelayed, module, xwayland
<1>5. PidsAreOurs'
  BY <1>1, ForkFacts
     DEF Autolaunch, PidsAreOurs, Owns, xwayland, screenshooter
<1>6. WatchIsCurrent' /\ SocketPaired' /\ WmIsReady' /\ SlotExact'
  BY <1>1, ForkFacts
     DEF Autolaunch, WatchIsCurrent, SocketPaired, WmIsReady, SlotExact,
         module, xwayland, screenshooter
<1> QED
  BY <1>2, <1>3, <1>4, <1>5, <1>6

LEMMA SpawnPreserves ==
  ASSUME IInv, NEW p \in Proc, NEW n \in Pid,
         SpawnXserver(p, n) \/ SpawnXserverFails(p, n)
  PROVE  IInv'
<1> USE DEF IInv
<1>1. Fork(p, "xserver", n) /\ server = None
  BY DEF SpawnXserver, SpawnXserverFails
<1>2. PidsDistinct'
  BY <1>1, ForkFacts
<1>3. CASE SpawnXserverFails(p, n)
  <2>1. TypeOK'
    BY <1>1, <1>3, ForkFacts
       DEF SpawnXserverFails, TypeOK, module, xwayland, screenshooter
  <2>2. ServerUnreaped' /\ ExitIsRelayed'
    BY <1>1, <1>3 DEF SpawnXserverFails, ServerUnreaped, ExitIsRelayed, module, xwayland
  <2>3. PidsAreOurs'
    BY <1>1, <1>3, ForkFacts
       DEF SpawnXserverFails, PidsAreOurs, Owns, xwayland, screenshooter
  <2>4. WatchIsCurrent' /\ SocketPaired' /\ WmIsReady' /\ SlotExact'
    BY <1>1, <1>3, ForkFacts
       DEF SpawnXserverFails, WatchIsCurrent, SocketPaired, WmIsReady, SlotExact,
           module, xwayland, screenshooter
  <2> QED
    BY <1>2, <2>1, <2>2, <2>3, <2>4
<1>4. CASE SpawnXserver(p, n)
  <2>1. p # None /\ n # None
    BY ChildrenAssumption
  <2>2. sources' = {watch'} \ {None} /\ watch' \in {p, None}
    BY <1>4 DEF SpawnXserver, Rewatched, WatchIsCurrent
  <2>3. TypeOK'
    BY <1>1, <1>4, <2>2, ForkFacts DEF SpawnXserver, TypeOK, screenshooter
  <2>4. ServerUnreaped' /\ ExitIsRelayed'
    BY <1>1, <1>4, <2>1, ForkFacts
       DEF SpawnXserver, ServerUnreaped, ExitIsRelayed
  <2>5. PidsAreOurs'
    BY <1>1, <1>4, ForkFacts
       DEF SpawnXserver, PidsAreOurs, Owns, screenshooter
  <2>6. WatchIsCurrent' /\ SocketPaired'
    BY <1>4, <2>2 DEF SpawnXserver, WatchIsCurrent, SocketPaired
  <2>7. WmIsReady' /\ SlotExact'
    BY <1>1, <1>4, ForkFacts DEF SpawnXserver, WmIsReady, SlotExact, screenshooter
  <2> QED
    BY <1>2, <2>3, <2>4, <2>5, <2>6, <2>7
<1> QED
  BY <1>3, <1>4

LEMMA BindingPreserves ==
  ASSUME IInv, NEW p \in Proc, NEW n \in Pid, ScreenshooterBinding(p, n)
  PROVE  IInv'
<1> USE DEF IInv
<1>1. Fork(p, "screenshooter", n) /\ shot = None
  BY DEF ScreenshooterBinding
<1>2. PICK succeeds \in BOOLEAN :
        /\ shotPid' = n
        /\ connected' = IF succeeds THEN connected \cup {p} ELSE connected
        /\ shot' = IF succeeds THEN p ELSE None
        /\ UNCHANGED <<module, xwayland, autolaunch, stage>>
  BY DEF ScreenshooterBinding
<1>3. PidsDistinct'
  BY <1>1, ForkFacts
<1>4. TypeOK'
  BY <1>1, <1>2, ForkFacts DEF TypeOK, module, xwayland
<1>5. ServerUnreaped' /\ ExitIsRelayed'
  BY <1>1, <1>2, ForkFacts DEF ServerUnreaped, ExitIsRelayed, module, xwayland
<1>6. PidsAreOurs'
  BY <1>1, <1>2, ForkFacts DEF PidsAreOurs, Owns, xwayland
<1>7. WatchIsCurrent' /\ SocketPaired' /\ WmIsReady'
  BY <1>1, <1>2, ForkFacts DEF WatchIsCurrent, SocketPaired, WmIsReady, module, xwayland
<1>8. SlotExact'
  <2>1. connected = {} /\ p # None
    BY <1>1, ChildrenAssumption DEF SlotExact
  <2> QED
    BY <1>2, <2>1 DEF SlotExact
<1> QED
  BY <1>3, <1>4, <1>5, <1>6, <1>7, <1>8

\* Every owner is told of its own exits and of no other.
LEMMA SigchldPreserves ==
  ASSUME IInv, OnSigchld
  PROVE  IInv'
<1> USE DEF IInv
<1> DEFINE Z == {p \in Proc : life[p] = "zombie"}
           N == {pid[p] : p \in Z}
<1>1. /\ Reap(Z)
      /\ autolaunch' = IF AutolaunchExited(N) THEN None ELSE autolaunch
      /\ stage' = IF AutolaunchExited(N) /\ Watch THEN "terminated" ELSE stage
      /\ xpid' = IF XserverExited(N) THEN None ELSE xpid
      /\ server' = IF XserverExited(N) THEN None ELSE server
      /\ wm' = IF XserverExited(N) THEN None ELSE wm
      /\ shotPid' = IF ScreenshooterExited(N) THEN None ELSE shotPid
      /\ shot' = shot
      /\ UNCHANGED <<connected, sources, watch, wmFd>>
  BY DEF OnSigchld, SlotAfterExit
<1>2. /\ sigchld' = FALSE /\ wrote' = wrote /\ seen' = seen
      /\ life' = [p \in Proc |-> IF p \in Z THEN "reaped" ELSE life[p]]
      /\ role' = [p \in Proc |-> IF p \in Z THEN None ELSE role[p]]
      /\ pid' = [p \in Proc |-> IF p \in Z THEN None ELSE pid[p]]
  BY <1>1 DEF Reap
<1>3. Unreaped' = Unreaped \ Z
  BY <1>2 DEF Unreaped, TypeOK
<1>4. \A q \in Unreaped \ Z : pid'[q] = pid[q] /\ role'[q] = role[q]
  BY <1>2 DEF Unreaped
<1>5. Z \subseteq Unreaped
  BY DEF Unreaped
<1>6. \A q \in Unreaped : pid[q] \in N <=> q \in Z
  BY <1>5 DEF PidsDistinct
<1>7. \A q \in Unreaped :
        /\ role[q] # "autolaunch" => pid[q] # autolaunch
        /\ role[q] # "xserver" => pid[q] # xpid
  BY ChildrenAssumption DEF PidsAreOurs, Owns, PidsDistinct
<1> HIDE DEF Z, N
<1>8. PidsDistinct'
  BY <1>3, <1>4 DEF PidsDistinct
<1>9. TypeOK'
  <2>1. /\ life' \in [Proc -> {"unborn", "running", "zombie", "reaped"}]
        /\ role' \in [Proc -> {None, "autolaunch", "xserver", "screenshooter"}]
        /\ pid' \in [Proc -> Pid \cup {None}]
        /\ sigchld' \in BOOLEAN
    BY <1>2 DEF TypeOK
  <2> QED
    BY <1>1, <1>2, <2>1 DEF TypeOK
<1>10. XserverExited(N) <=> server # None /\ server \in Z
  <2>1. CASE server = None
    <3>1. xpid = None
      BY <2>1 DEF ExitIsRelayed
    <3>2. None \notin N
      BY <1>5, ChildrenAssumption DEF N, PidsDistinct
    <3> QED
      BY <2>1, <3>1, <3>2 DEF XserverExited
  <2>2. CASE server # None
    BY <1>6, <1>7, <2>2 DEF ExitIsRelayed, ServerUnreaped, XserverExited
  <2> QED
    BY <2>1, <2>2
<1>11. ServerUnreaped' /\ ExitIsRelayed'
  <2>1. CASE XserverExited(N)
    BY <1>1, <2>1 DEF ServerUnreaped, ExitIsRelayed
  <2>2. CASE ~XserverExited(N)
    BY <1>1, <1>3, <1>4, <1>10, <2>2 DEF ServerUnreaped, ExitIsRelayed
  <2> QED
    BY <2>1, <2>2
<1>12. PidsAreOurs'
  <2>1. Owns(autolaunch, "autolaunch")'
    BY <1>1, <1>3, <1>4, <1>6 DEF PidsAreOurs, Owns, AutolaunchExited
  <2>2. Owns(xpid, "xserver")'
    BY <1>1, <1>3, <1>4, <1>6, <1>7 DEF PidsAreOurs, Owns, XserverExited
  <2>3. Owns(shotPid, "screenshooter")'
    BY <1>1, <1>3, <1>4, <1>6, <1>7 DEF PidsAreOurs, Owns, ScreenshooterExited
  <2> QED
    BY <2>1, <2>2, <2>3 DEF PidsAreOurs
<1>13. WatchIsCurrent' /\ SocketPaired' /\ WmIsReady' /\ SlotExact'
  BY <1>1, <1>2 DEF WatchIsCurrent, SocketPaired, WmIsReady, SlotExact
<1> QED
  BY <1>8, <1>9, <1>11, <1>12, <1>13

\* The steps that fork and reap nothing.
LEMMA OtherStepsPreserve ==
  ASSUME IInv,
         \/ \E p \in Proc :
              \/ ServerWrites(p) \/ DisplayReady(p) \/ DisplayRetry(p) \/ DisplayReadFails(p)
              \/ DisplayEnd(p) \/ ClientDestroyed(p) \/ Exit(p)
         \/ RunWithoutAutolaunch \/ OnTermSignal \/ Drop
         \/ UNCHANGED vars
  PROVE  IInv'
<1> USE DEF IInv
<1>1. ASSUME NEW p \in Proc, ServerWrites(p)
      PROVE  IInv'
  <2>1. wrote' \in [Proc -> 0 .. 2] /\ \A q \in Proc : wrote[q] = 2 => wrote'[q] = 2
    BY <1>1 DEF ServerWrites, TypeOK
  <2>2. UNCHANGED <<life, role, pid, sigchld, seen, module, xwayland, screenshooter,
                    autolaunch, stage>>
    BY <1>1 DEF ServerWrites
  <2> QED
    BY <2>1, <2>2
       DEF TypeOK, PidsDistinct, ServerUnreaped, PidsAreOurs, Owns, ExitIsRelayed,
           WatchIsCurrent, SocketPaired, WmIsReady, SlotExact, Unreaped,
           module, xwayland, screenshooter
<1>2. ASSUME NEW p \in Proc, DisplayReady(p) \/ DisplayRetry(p) \/ DisplayEnd(p)
                                   \/ DisplayReadFails(p)
      PROVE  IInv'
  <2>1. UNCHANGED <<life, role, pid, sigchld, wrote, server, xpid, screenshooter,
                    autolaunch, stage>>
    BY <1>2 DEF DisplayReady, DisplayRetry, DisplayReadFails, DisplayEnd, kernel, module, xwayland
  <2>2. seen' \in [Proc -> 0 .. 2]
    BY <1>2 DEF DisplayReady, DisplayRetry, DisplayReadFails, DisplayEnd, kernel, TypeOK
  <2>3. \/ watch' = None /\ sources' = {}
        \/ UNCHANGED <<sources, watch, wmFd>>
    BY <1>2 DEF DisplayReady, DisplayRetry, DisplayReadFails, DisplayEnd, CloseWatch, Rewatched,
                WatchIsCurrent, xwayland
  <2>4. wmFd' \in {None, wmFd}
    BY <1>2 DEF DisplayReady, DisplayRetry, DisplayReadFails, DisplayEnd, xwayland
  <2>5. wm' \in Proc \cup {None} /\ WmIsReady'
    <3>1. CASE DisplayReady(p)
      BY <2>1, <3>1
         DEF DisplayReady, WatchIsCurrent, SocketPaired, WmIsReady, TypeOK
    <3>2. CASE DisplayRetry(p) \/ DisplayReadFails(p) \/ DisplayEnd(p)
      BY <2>1, <3>2 DEF DisplayRetry, DisplayReadFails, DisplayEnd, WmIsReady, TypeOK, module
    <3> QED
      BY <1>2, <3>1, <3>2
  <2>6. TypeOK'
    BY <2>1, <2>2, <2>3, <2>4, <2>5 DEF TypeOK, screenshooter
  <2>7. PidsDistinct' /\ ServerUnreaped' /\ PidsAreOurs' /\ ExitIsRelayed' /\ SlotExact'
    BY <2>1 DEF PidsDistinct, ServerUnreaped, PidsAreOurs, Owns, ExitIsRelayed,
                SlotExact, Unreaped, screenshooter
  <2>8. WatchIsCurrent' /\ SocketPaired'
    BY <2>1, <2>3 DEF WatchIsCurrent, SocketPaired
  <2> QED
    BY <2>5, <2>6, <2>7, <2>8
<1>3. ASSUME NEW p \in Proc, ClientDestroyed(p)
      PROVE  IInv'
  <2>1. connected' = {} /\ shot' = None
    BY <1>3 DEF ClientDestroyed, SlotExact
  <2> QED
    BY <1>3, <2>1
       DEF ClientDestroyed, TypeOK, PidsDistinct, ServerUnreaped, PidsAreOurs, Owns,
           ExitIsRelayed, WatchIsCurrent, SocketPaired, WmIsReady, SlotExact,
           Unreaped, kernel, module, xwayland
<1>4. ASSUME NEW p \in Proc, Exit(p)
      PROVE  IInv'
  <2>1. /\ life' \in [Proc -> {"unborn", "running", "zombie", "reaped"}]
        /\ sigchld' \in BOOLEAN
        /\ Unreaped' = Unreaped
    BY <1>4 DEF Exit, TypeOK, Unreaped
  <2>2. UNCHANGED <<role, pid, wrote, seen, module, xwayland, screenshooter,
                    autolaunch, stage>>
    BY <1>4 DEF Exit
  <2> QED
    BY <2>1, <2>2
       DEF TypeOK, PidsDistinct, ServerUnreaped, PidsAreOurs, Owns, ExitIsRelayed,
           WatchIsCurrent, SocketPaired, WmIsReady, SlotExact,
           module, xwayland, screenshooter
<1>5. CASE RunWithoutAutolaunch \/ OnTermSignal \/ UNCHANGED vars
  BY <1>5 DEF RunWithoutAutolaunch, OnTermSignal, vars, TypeOK, PidsDistinct,
              ServerUnreaped, PidsAreOurs, Owns, ExitIsRelayed, WatchIsCurrent,
              SocketPaired, WmIsReady, SlotExact, Unreaped,
              kernel, module, xwayland, screenshooter
<1>6. CASE Drop
  <2>1. watch' = None /\ sources' = {}
    BY <1>6 DEF Drop, CloseWatch, Rewatched, WatchIsCurrent
  <2> QED
    BY <1>6, <2>1 DEF Drop, TypeOK, PidsDistinct, ServerUnreaped, PidsAreOurs, Owns,
              ExitIsRelayed, WatchIsCurrent, SocketPaired, WmIsReady, SlotExact,
              Unreaped, kernel
<1> QED
  BY <1>1, <1>2, <1>3, <1>4, <1>5, <1>6

LEMMA NextPreserves == IInv /\ [Next]_vars => IInv'
<1> SUFFICES ASSUME IInv, [Next]_vars PROVE IInv'
  OBVIOUS
<1> QED
  BY AutolaunchPreserves, SpawnPreserves, BindingPreserves, SigchldPreserves,
     OtherStepsPreserve DEF Next

LEMMA Invariance == Spec => []IInv
BY InitInvariant, NextPreserves, PTL DEF Spec

\* The state of the frontend, the module and the kernel is well-formed.
THEOREM TypeCorrect == Spec => []TypeOK
<1>1. IInv => TypeOK
  BY DEF IInv
<1> QED
  BY <1>1, Invariance, PTL

\* The slot of the screenshot client names the one client that is connected.
LEMMA ScreenshotSlot == IInv => OneScreenshot
<1>1. SUFFICES ASSUME IInv PROVE OneScreenshot
  OBVIOUS
<1>2. CASE shot = None
  <2>1. connected = {}
    BY <1>1, <1>2 DEF IInv, SlotExact
  <2> QED
    BY <2>1, FS_EmptySet DEF OneScreenshot
<1>3. CASE shot # None
  <2>1. connected = {shot}
    BY <1>1, <1>3 DEF IInv, SlotExact
  <2> QED
    <3>1. Cardinality({shot}) = 1
      BY FS_Singleton
    <3> QED
      BY <2>1, <3>1 DEF OneScreenshot
<1> QED
  BY <1>2, <1>3

\* However pids are reused and in whatever order deaths are seen, an exit is
\* charged to the child that exited (handle_child_exit), and there is at most
\* one screenshot client at a time.
THEOREM ExitsChargedRight == Spec => []ChildrenOurs
<1>1. IInv => ChildrenOurs
  <2>1. IInv => PidsAreOurs
    BY DEF IInv
  <2> QED
    BY <2>1, ScreenshotSlot DEF ChildrenOurs
<1> QED
  BY <1>1, Invariance, PTL

\* The module never waits for a server whose exit will not be relayed.
THEOREM ExitsRelayed == Spec => []ExitIsRelayed
<1>1. IInv => ExitIsRelayed
  BY DEF IInv
<1> QED
  BY <1>1, Invariance, PTL

\* The readiness watch survives neither its slot nor its server's successor,
\* and a WM socket is only handed over for a server that said it is ready.
THEOREM XwaylandIsPaired == Spec => []XwaylandPaired
<1>1. IInv => XwaylandPaired
  <2>1. IInv => WatchIsCurrent /\ WmIsReady
    BY DEF IInv
  <2> QED
    BY <2>1 DEF XwaylandPaired
<1> QED
  BY <1>1, Invariance, PTL

===============================================================================
