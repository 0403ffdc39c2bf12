----------------------------- MODULE TaskBoard ------------------------------
(***************************************************************************)
(* What delegation promises to those who read the task table: how the      *)
(* status of a task may change, and which workers may run together         *)
(* (docs/architecture.md: "executes queued workers with a concurrency      *)
(* bound and a single-writer lease").  Delegation implements this module.  *)
(***************************************************************************)
EXTENDS Naturals, FiniteSets

CONSTANTS Task, Writers, MaxConcurrent

VARIABLES
  status,  (* the status column of each task, "none" before it is spawned *)
  busy     (* the tasks that have a worker in this process                *)

Working == {"running", "needs_input"}
Ended   == {"completed", "failed", "cancelled", "interrupted"}

(* At most one of the workers may write files, and there are not too many. *)
LeaseHolds(workers) ==
  /\ \A t, u \in workers \cap Writers : t = u
  /\ Cardinality(workers) <= MaxConcurrent

BoardInit == status = [t \in Task |-> "none"] /\ busy = {}

(* The life of a task.  Only the worker of a task ends it as completed, a   *)
(* task without a worker is never reported as being worked on, and an ended *)
(* task stays as it ended.                                                  *)
Accepted(t)    == status[t] = "none" /\ status'[t] = "queued"
Started(t)     == status[t] \in {"none", "queued"} /\ status'[t] = "running" /\ t \in busy'
Dropped(t)     == status[t] = "queued" /\ status'[t] \in {"cancelled", "failed"}
Asked(t)       == status[t] \in Working /\ status'[t] \in Working /\ t \in busy
Finished(t)    == status[t] \in Working /\ status'[t] \in {"completed", "failed", "cancelled"} /\ t \in busy
Interrupted(t) == status[t] \in Working /\ status'[t] = "interrupted" /\ t \notin busy

BoardNext ==
  /\ \A t \in Task : \/ status'[t] = status[t]
                     \/ Accepted(t) \/ Started(t) \/ Dropped(t)
                     \/ Asked(t) \/ Finished(t) \/ Interrupted(t)
  /\ \A t \in busy' \ busy : Started(t)
  /\ LeaseHolds(busy')

BoardSpec == BoardInit /\ [][BoardNext]_<<status, busy>>

=============================================================================
