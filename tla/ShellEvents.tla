------------------------------ MODULE ShellEvents ------------------------------
(***************************************************************************)
(* What the wrapper promises the desktop shell about event delivery        *)
(* (crates/weston/src/ctx.rs): the shell handles one event at a time,      *)
(* deferred events reach it in the order they were posted and none is lost *)
(* between its installation and the shutdown, and Shutdown is the last     *)
(* event it ever handles.                                                  *)
(***************************************************************************)
EXTENDS Sequences

CONSTANT Event

VARIABLES
  pending,    \* the deferred events, oldest first
  busy,       \* the shell is handling an event
  installed,  \* there is a shell to deliver to
  closing,    \* the teardown began: posts are refused, pending ones dropped
  last        \* Shutdown was delivered, or there is nobody left to tell

shellVars == <<pending, busy, installed, closing, last>>

ShellInit ==
  /\ pending = <<>>
  /\ busy = FALSE
  /\ installed = FALSE
  /\ closing = FALSE
  /\ last = FALSE

Install ==
  /\ ~installed /\ ~last
  /\ installed' = TRUE
  /\ UNCHANGED <<pending, busy, closing, last>>

Post(e) ==
  /\ ~closing
  /\ pending' = Append(pending, e)
  /\ UNCHANGED <<busy, installed, closing, last>>

\* The only ways an event is lost.
Drop ==
  /\ closing \/ ~installed
  /\ pending # <<>>
  /\ pending' = Tail(pending)
  /\ UNCHANGED <<busy, installed, closing, last>>

CanDeliver == installed /\ ~busy /\ ~closing /\ ~last

DeliverNow ==
  /\ CanDeliver
  /\ busy' = TRUE
  /\ UNCHANGED <<pending, installed, closing, last>>

DeliverPending ==
  /\ CanDeliver
  /\ pending # <<>>
  /\ pending' = Tail(pending)
  /\ busy' = TRUE
  /\ UNCHANGED <<installed, closing, last>>

Finish ==
  /\ busy
  /\ busy' = FALSE
  /\ UNCHANGED <<pending, installed, closing, last>>

Close ==
  /\ ~busy
  /\ closing' = TRUE
  /\ UNCHANGED <<pending, busy, installed, last>>

DeliverShutdown ==
  /\ installed /\ ~busy /\ ~last
  /\ busy' = TRUE
  /\ last' = TRUE
  /\ UNCHANGED <<pending, installed, closing>>

\* Nothing is left of the wrapper; an installed shell has seen Shutdown.
Gone ==
  /\ ~busy
  /\ installed => last
  /\ pending' = <<>>
  /\ installed' = FALSE
  /\ closing' = TRUE
  /\ last' = TRUE
  /\ UNCHANGED busy

ShellNext ==
  \/ Install \/ \E e \in Event : Post(e)
  \/ Drop \/ DeliverNow \/ DeliverPending \/ Finish
  \/ Close \/ DeliverShutdown \/ Gone

ShellSpec == ShellInit /\ [][ShellNext]_shellVars

===============================================================================
