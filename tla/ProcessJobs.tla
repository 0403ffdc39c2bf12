---------------------------- MODULE ProcessJobs ----------------------------
(***************************************************************************)
(* A background command: the row of the job in the agent's database and    *)
(* the functions that watch it (niri-runtime/process-jobs.ts), the calls   *)
(* that carry its orders to the tool host (harness-server/http-client.ts)  *)
(* and the shell session that runs it there (harness-client-node/shell.ts, *)
(* host.ts).  Jobs share nothing but the database, so one is enough.       *)
(*                                                                         *)
(* A call may be refused, its answer may be lost, the caller may give up   *)
(* while the host still works on it; the agent and the host may crash and  *)
(* start again.  Output is left out: what matters is who knows that the    *)
(* command runs, and who learns how it ended.                              *)
(***************************************************************************)
EXTENDS Naturals

CONSTANT MaxFaults      \* bound: crashes and calls that go wrong

JobsAssumption == MaxFaults \in Nat

VARIABLES
    jobRow,     \* the job in table process_jobs
    runtime,    \* the module variable runtime, and whether the process lives
    jobTimer,   \* timers has the job
    inflight,   \* the poll in inflight: "no", "poll" or "terminate"
    ending,     \* terminationInflight: "no", "waits" (for the poll), "polls"
    starter,    \* startProcessJob: "no" or "calls"
    orders,     \* the calls on their way or at the host
    shell,      \* the session object of the host
    alive,      \* the command's process exists
    faults      \* how many faults there have been

agentVars == <<jobRow, runtime, jobTimer, inflight, ending, starter>>
hostVars == <<shell, alive>>
jobVars == <<jobRow, runtime, jobTimer, inflight, ending, starter, orders, shell, alive,
          faults>>

Active == {"starting", "running", "cancelling"}
Ended == {"completed", "failed", "cancelled", "lost", "interrupted"}
Job == [status : {"none"} \cup Active \cup Ended, session : BOOLEAN,
        asked : BOOLEAN, told : BOOLEAN]
Shell == [status : {"none", "running", "exited", "terminated", "failed"},
          held : BOOLEAN, asked : BOOLEAN, clean : BOOLEAN]
Answers == {"running", "exited", "terminated", "unknown", "error"}
Call == [action : {"start", "poll", "terminate"},
         by : {"start", "poll", "nobody"},
         at : {"sent", "host", "back"},
         says : {"nothing"} \cup Answers, asked : BOOLEAN, clean : BOOLEAN]

NoShell == [status |-> "none", held |-> FALSE, asked |-> FALSE, clean |-> FALSE]

JobsInit ==
    /\ jobRow = [status |-> "none", session |-> FALSE, asked |-> FALSE, told |-> FALSE]
    /\ runtime = "up" /\ jobTimer = FALSE /\ inflight = "no"
    /\ ending = "no" /\ starter = "no"
    /\ orders = {} /\ shell = NoShell /\ alive = FALSE /\ faults = 0

JobsTypeOK ==
    /\ jobRow \in Job
    /\ runtime \in {"up", "stopping", "null", "down"}
    /\ jobTimer \in BOOLEAN
    /\ inflight \in {"no", "poll", "terminate"}
    /\ ending \in {"no", "waits", "polls"}
    /\ starter \in {"no", "calls"}
    /\ orders \subseteq Call
    /\ shell \in Shell /\ alive \in BOOLEAN
    /\ faults \in 0..MaxFaults

-----------------------------------------------------------------------------
(* The agent: process-jobs.ts *)

IsSet == runtime \in {"up", "stopping"}

Invocation(action, by) ==
    [action |-> action, by |-> by, at |-> "sent", says |-> "nothing",
     asked |-> FALSE, clean |-> FALSE]

(* dispatchCompletion: the event is handed to the runner, which always takes it. *)
DispatchCompletion(job) == [job EXCEPT !.told = @ \/ IsSet]

Finalize(job, status, asked) ==
    IF job.status \in Active
    THEN DispatchCompletion([job EXCEPT !.status = status, !.asked = asked])
    ELSE job

ShellTerminal(c) ==
    CASE c.says = "terminated" -> "cancelled"
      [] c.says = "exited" /\ c.clean -> "completed"
      [] OTHER -> "failed"

(* As if a poll that fails were not repeated.                               *)
AfterPoll_GivesUp(c) ==
    [row |-> IF c.says = "unknown" THEN Finalize(jobRow, "lost", FALSE)
             ELSE IF c.says \in {"exited", "terminated"} THEN Finalize(jobRow, ShellTerminal(c), c.asked) ELSE jobRow,
     again |-> c.says = "running" /\ jobRow.status \in Active]

(* The end of a poll, with what it leaves in the row and whether it asks    *)
(* for another one (schedule does nothing without a runtime).               *)
AfterPoll(c) ==
    CASE c.says = "unknown" -> [row |-> Finalize(jobRow, "lost", FALSE), again |-> FALSE]
      [] c.says = "error" -> [row |-> jobRow, again |-> TRUE]
      [] c.says = "running" /\ jobRow.status \notin Active -> [row |-> jobRow, again |-> FALSE]
      [] c.says = "running" /\ jobRow.status \in Active ->
            LET asked == jobRow.asked \/ c.asked
            IN  [row |-> [jobRow EXCEPT !.asked = asked],
                 again |-> ~asked \/ inflight = "terminate"]
      [] OTHER -> [row |-> Finalize(jobRow, ShellTerminal(c), c.asked), again |-> FALSE]

Schedule(wanted) == jobTimer' = (jobTimer \/ (wanted /\ IsSet))

(* pollOne(id, "terminate") for a job r, with rest on the wire: behind the  *)
(* poll in flight, if there is one.                                         *)
PollOneTerminate(r, rest) ==
    \/ /\ ending # "no"
       /\ orders' = rest /\ UNCHANGED <<inflight, ending>>
    \/ /\ ending = "no" /\ inflight # "no"
       /\ ending' = "waits" /\ orders' = rest /\ UNCHANGED inflight
    \/ /\ ending = "no" /\ inflight = "no"
       /\ IF r.status \in Active /\ r.session
          THEN /\ inflight' = "terminate" /\ ending' = "polls"
               /\ orders' = rest \cup {Invocation("terminate", "poll")}
          ELSE orders' = rest /\ UNCHANGED <<inflight, ending>>

StartProcessJob ==
    /\ runtime = "up" /\ jobRow.status = "none"
    /\ jobRow' = [jobRow EXCEPT !.status = "starting"]
    /\ starter' = "calls"
    /\ orders' = orders \cup {Invocation("start", "start")}
    /\ UNCHANGED <<runtime, jobTimer, inflight, ending, hostVars>>

(* The answer to the start: a session that runs, one that has ended within  *)
(* the grace, or an error.  A job that has ended meanwhile was interrupted, *)
(* and StopEnds clears runtime in the same step: the code that would        *)
(* terminate such a session is never reached, and the command runs on.      *)
StartReturns(c) ==
    /\ c.by = "start" /\ c.at = "back"
    /\ \/ /\ c.says = "running"
          /\ LET asked == jobRow.asked \/ c.asked
                 r == [jobRow EXCEPT !.session = TRUE, !.asked = asked,
                         !.status = IF @ # "starting" THEN @
                                    ELSE IF jobRow.asked THEN "cancelling" ELSE "running"]
             IN  /\ jobRow' = r
                 /\ \/ /\ r.status \in Active /\ asked
                       /\ PollOneTerminate(r, orders \ {c})
                       /\ starter' = "no" /\ UNCHANGED jobTimer
                    \/ /\ r.status \in Active /\ ~asked
                       /\ Schedule(TRUE) /\ orders' = orders \ {c}
                       /\ starter' = "no" /\ UNCHANGED <<inflight, ending>>
                    \/ /\ r.status \notin Active
                       /\ starter' = "no" /\ orders' = orders \ {c}
                       /\ UNCHANGED <<jobTimer, inflight, ending>>
       \/ /\ c.says \in {"exited", "terminated"}
          /\ jobRow' = Finalize([jobRow EXCEPT !.session = TRUE], ShellTerminal(c), c.asked)
          /\ starter' = "no" /\ orders' = orders \ {c}
          /\ UNCHANGED <<jobTimer, inflight, ending>>
       \/ /\ c.says = "error"
          /\ jobRow' = IF jobRow.status = "starting"
                    THEN DispatchCompletion([jobRow EXCEPT !.status = "failed"]) ELSE jobRow
          /\ starter' = "no" /\ orders' = orders \ {c}
          /\ UNCHANGED <<jobTimer, inflight, ending>>
    /\ UNCHANGED <<runtime, hostVars>>

(* A timer polls, unless a poll is in flight; without a runtime the poll    *)
(* fails and schedules nothing.                                             *)
TimerFires ==
    /\ jobTimer /\ jobTimer' = FALSE
    /\ IF inflight = "no" /\ jobRow.status \in Active /\ jobRow.session /\ IsSet
       THEN inflight' = "poll" /\ orders' = orders \cup {Invocation("poll", "poll")}
       ELSE UNCHANGED <<inflight, orders>>
    /\ UNCHANGED <<jobRow, runtime, ending, starter, hostVars>>

(* A poll returns; a termination that waited for it follows at once, unless *)
(* the job has ended (without a runtime that call fails and does nothing).  *)
PollReturns(c) ==
    /\ c.by = "poll" /\ c.at = "back"
    /\ jobRow' = AfterPoll(c).row
    /\ Schedule(AfterPoll(c).again)
    /\ IF ending = "waits" /\ jobRow'.status \in Active /\ IsSet
       THEN /\ inflight' = "terminate" /\ ending' = "polls"
            /\ orders' = (orders \ {c}) \cup {Invocation("terminate", "poll")}
       ELSE /\ inflight' = "no" /\ ending' = "no"
            /\ orders' = orders \ {c}
    /\ UNCHANGED <<runtime, starter, hostVars>>

Cancelled == [jobRow EXCEPT !.status = "cancelling", !.asked = TRUE]

CancelProcessJob ==
    /\ IsSet /\ jobRow.status \in Active
    /\ jobRow' = Cancelled
    /\ PollOneTerminate(jobRow', orders)
    /\ UNCHANGED <<runtime, jobTimer, starter, hostVars>>

(* Shutdown: an active job is cancelled; what has not ended then is marked. *)
StopProcessJobs ==
    /\ runtime = "up" /\ runtime' = "stopping"
    /\ jobTimer' = FALSE
    /\ IF jobRow.status \in Active
       THEN jobRow' = Cancelled /\ PollOneTerminate(jobRow', orders)
       ELSE UNCHANGED <<jobRow, inflight, ending, orders>>
    /\ UNCHANGED <<starter, hostVars>>

StopEnds ==
    /\ runtime = "stopping" /\ ending = "no"
    /\ jobRow' = IF jobRow.status \in Active THEN [jobRow EXCEPT !.status = "interrupted"] ELSE jobRow
    /\ runtime' = "null"
    /\ UNCHANGED <<jobTimer, inflight, ending, starter, orders, hostVars>>

(* The process ends, at the end of its shutdown or in a crash.              *)
Exit ==
    /\ runtime # "down" /\ runtime' = "down"
    /\ jobTimer' = FALSE /\ inflight' = "no" /\ ending' = "no" /\ starter' = "no"
    /\ orders' = {[c EXCEPT !.by = "nobody"] : c \in {c \in orders : c.at # "back"}}
    /\ UNCHANGED <<jobRow, hostVars>>

(* The next boot reconciles: attached says that the client's workspace is   *)
(* known already and is the job's.                                          *)
InitProcessJobs(attached) ==
    /\ runtime = "down" /\ runtime' = "up"
    /\ LET resumes == attached /\ jobRow.session
       IN  /\ jobTimer' = (jobRow.status \in Active /\ resumes)
           /\ jobRow' = CASE jobRow.status = "none" -> jobRow
                       [] jobRow.status \in Active /\ resumes -> jobRow
                       [] jobRow.status \in Active /\ ~resumes -> [jobRow EXCEPT !.status = "lost", !.told = TRUE]
                       [] OTHER -> [jobRow EXCEPT !.told = TRUE]
    /\ UNCHANGED <<inflight, ending, starter, orders, hostVars>>

-----------------------------------------------------------------------------
(* The host: host.ts and shell.ts.  A handler keeps the session object it   *)
(* waits for, also when another one has taken it out of the map.            *)

Sessioned(c) ==
    CASE c.action = "start" ->
            [status |-> "running", held |-> TRUE, asked |-> FALSE, clean |-> FALSE]
      [] c.action = "terminate" /\ shell.status = "running" -> [shell EXCEPT !.asked = TRUE]
      [] OTHER -> shell

Arrives(c) ==
    /\ c.at = "sent"
    /\ IF c.action # "start" /\ ~shell.held
       THEN /\ orders' = (orders \ {c}) \cup {[c EXCEPT !.at = "back", !.says = "unknown"]}
            /\ UNCHANGED hostVars
       ELSE /\ shell' = Sessioned(c)
            /\ alive' = (alive \/ c.action = "start")
            /\ orders' = (orders \ {c}) \cup {[c EXCEPT !.at = "host"]}
    /\ UNCHANGED agentVars

(* The wait for the session ends, because it has ended or time is up: the   *)
(* result is taken, and a session that has ended leaves the map, unless it  *)
(* failed (the handler then throws before).                                 *)
TakeSessionResult(c) ==
    /\ c.at = "host"
    /\ shell' = [shell EXCEPT !.held = @ /\ shell.status \in {"running", "failed"}]
    /\ orders' = (orders \ {c}) \cup
         {[c EXCEPT !.at = "back", !.asked = shell.asked, !.clean = shell.clean,
             !.says = IF shell.status = "failed" THEN "error" ELSE shell.status]}
    /\ UNCHANGED <<alive, agentVars>>

(* The command ends, by itself or by a signal.                              *)
Closes(clean) ==
    /\ alive /\ alive' = FALSE
    /\ clean => ~shell.asked
    /\ shell' = IF shell.status # "running" THEN shell
                ELSE [shell EXCEPT !.clean = clean,
                        !.status = IF shell.asked THEN "terminated" ELSE "exited"]
    /\ UNCHANGED <<orders, agentVars>>

(* Its output exceeds the limit: the session fails and its group is killed. *)
FailSession ==
    /\ alive /\ shell.status = "running"
    /\ shell' = [shell EXCEPT !.status = "failed"]
    /\ UNCHANGED <<alive, orders, agentVars>>

(* The host goes away with its sessions and the calls it works on; the      *)
(* command, in a process group of its own, may live on.                     *)
HostRestarts(survives) ==
    /\ shell' = NoShell
    /\ alive' = (alive /\ survives)
    /\ orders' = {c \in orders : c.at # "host"} \cup
         {[c EXCEPT !.at = "back", !.says = "error"] :
            c \in {c \in orders : c.at = "host" /\ c.by # "nobody"}}
    /\ UNCHANGED agentVars

(* A caller that is refused, loses the answer or gives up after timeoutMs   *)
(* sees an error; a call it gave up goes on at the host.                    *)
CallFails(c) ==
    /\ c.by # "nobody"
    /\ \E rest \in {{}, {[c EXCEPT !.by = "nobody"]}} :
         /\ c.at # "sent" => rest # {}
         /\ orders' = (orders \ {c}) \cup
              {[c EXCEPT !.at = "back", !.says = "error", !.asked = FALSE, !.clean = FALSE]}
              \cup {r \in rest : r.at # "back"}
    /\ UNCHANGED <<agentVars, hostVars>>

(* Nobody waits for the answer, or the call is lost on its way.             *)
Dropped(c) ==
    /\ c.by = "nobody" /\ c.at \in {"sent", "back"}
    /\ orders' = orders \ {c}
    /\ UNCHANGED <<agentVars, hostVars>>

-----------------------------------------------------------------------------
Step ==
    \/ StartProcessJob
    \/ \E c \in orders : StartReturns(c) \/ PollReturns(c)
    \/ TimerFires
    \/ CancelProcessJob
    \/ StopProcessJobs
    \/ StopEnds
    \/ runtime = "null" /\ Exit
    \/ \E attached \in BOOLEAN : InitProcessJobs(attached)
    \/ \E c \in orders : Arrives(c) \/ TakeSessionResult(c) \/ Dropped(c)
    \/ \E clean \in BOOLEAN : Closes(clean)
    \/ FailSession

Fault ==
    \/ runtime # "null" /\ Exit
    \/ \E survives \in BOOLEAN : HostRestarts(survives)
    \/ \E c \in orders : CallFails(c)

JobsNext ==
    \/ Step /\ UNCHANGED faults
    \/ faults < MaxFaults /\ faults' = faults + 1 /\ Fault

JobsSpec == JobsInit /\ [][JobsNext]_jobVars

-----------------------------------------------------------------------------
(* An active job nobody asked to end is looked after: its start is being    *)
(* answered, or a poll or a termination is due or on its way.  schedule     *)
(* silently does nothing without a runtime, and every failure, overtaking   *)
(* or restart has to leave somebody who asks again.                         *)
JobWatched ==
    runtime = "up" /\ jobRow.status \in Active /\ ~jobRow.asked
        => \/ jobRow.session /\ (jobTimer \/ inflight # "no" \/ ending # "no")
           \/ ~jobRow.session /\ starter = "calls"

(* What the table says of an end is so: a job completed or cancelled has no *)
(* command left that runs, one cancelled was asked to end, the agent is     *)
(* told of ends only, and of every end of a job while the runtime is up.    *)
EndsAreTruthful ==
    /\ jobRow.status \in {"completed", "cancelled"} => ~alive
    /\ jobRow.status = "cancelled" => jobRow.asked
    /\ jobRow.told => jobRow.status \in Ended
    /\ jobRow.status \in Ended /\ runtime = "up" => jobRow.told
=============================================================================
