-------------------------------- MODULE MCShell --------------------------------
(***************************************************************************)
(* TLC instances of Shell.                                                 *)
(***************************************************************************)
EXTENDS Shell, TLC

Born(status) == {x \in DOMAIN status : status[x] # "unborn"}

Plain == Window \ WithSub
Companion == CHOOSE w \in Plain : TRUE

\* Two seats with the windows that have a subsurface and one plain window, and
\* up to two deferred events; or one seat with all the plain windows, and one.
SmallInstance ==
  \/ Born(window) \subseteq WithSub \cup {Companion} /\ Len(queue) <= 2
  \/ /\ Born(window) \subseteq Plain /\ Cardinality(Born(seat)) <= 1
     /\ Len(queue) <= 1

Symmetry == Permutations(Plain \ {Companion}) \cup Permutations(Seat)

===============================================================================
