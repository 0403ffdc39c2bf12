------------------------------ MODULE MCRunner ------------------------------
(***************************************************************************)
(* The runner for run runner_queue: either the instance of the cfg, three  *)
(* events and calls whose ids are their own, or one with an event less,    *)
(* two calls a turn and ids that come again.                               *)
(***************************************************************************)
EXTENDS Runner

VARIABLE repeating   (* which of the two this behaviour is of *)

Repeating == INSTANCE Runner WITH
  Event <- Event \ {CHOOSE e \in Event \ Priority : TRUE}, MaxCalls <- 2, IdsRepeat <- TRUE

QueueInit == Init /\ repeating \in BOOLEAN

QueueNext ==
  /\ \/ ~repeating /\ Next
     \/ repeating /\ Repeating!Next
  /\ UNCHANGED repeating

QueueSpec == QueueInit /\ [][QueueNext]_<<vars, repeating>>

=============================================================================
