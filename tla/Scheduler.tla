------------------------------ MODULE Scheduler ------------------------------
(***************************************************************************)
(* Reminders the agent sets itself (niri-runtime/scheduler.ts): rows of the *)
(* table schedules, looked at when the process starts and at every tick of  *)
(* a timer, handed to the runner and marked or moved on.  What becomes of a *)
(* reminder behind that hand-over is module Runner's matter.                *)
(***************************************************************************)
EXTENDS Integers, Sequences, FiniteSets

CONSTANTS Schedules,
          Delay,       \* when a schedule is due, after its creation
          Every,       \* repeat_every_ms, 0 for null
          Limit,       \* rows one look takes
          LastTime     \* bound: the clock

SchedulerAssumption ==
    /\ Delay \in [Schedules -> Nat] /\ Every \in [Schedules -> Nat]
    /\ Limit \in Nat \ {0} /\ LastTime \in Nat

VARIABLES entry,       \* the rows of schedules
          process,     \* "booting", "up", "stopping" while isShuttingDown says so,
                       \* "leaving" for the rest of a shutdown, "down"
          timer,       \* of startScheduler: "none", "set" or "cleared"
          now,
          reminded     \* what the runner was given: for which fire_at, and when
schedulerVars == <<entry, process, timer, now, reminded>>

SchedulerInit ==
        /\ entry = [s \in Schedules |-> [status |-> "none", at |-> 0]]
        /\ process = "booting" /\ timer = "none" /\ now = 0
        /\ reminded = [s \in Schedules |-> << >>]

CreateSchedule(s) ==
    /\ process \in {"booting", "up"} /\ entry[s].status = "none"
    /\ entry' = [entry EXCEPT ![s] = [status |-> "pending", at |-> now + Delay[s]]]
    /\ UNCHANGED <<process, timer, now, reminded>>
CancelSchedule(s) ==
    /\ process \in {"booting", "up"} /\ entry[s].status = "pending"
    /\ entry' = [entry EXCEPT ![s].status = "cancelled"]
    /\ UNCHANGED <<process, timer, now, reminded>>

(* defaultDispatch leaves a reminder alone while the runner shuts down: it  *)
(* would be dropped there.                                                  *)
Consumes_Always == TRUE
Consumes == process # "stopping"
Dispatched(s) == IF process = "stopping" THEN reminded[s]
                 ELSE Append(reminded[s], [for |-> entry[s].at, on |-> now])

(* fireSchedule: a reminder that repeats moves to its next time from now.   *)
NextTime(s) == CHOOSE t \in now + 1 .. now + Every[s] : (t - entry[s].at) % Every[s] = 0
Fired(s) == IF Every[s] = 0 THEN [entry[s] EXCEPT !.status = "fired"]
            ELSE [entry[s] EXCEPT !.at = NextTime(s)]

(* fireDueSchedules takes the rows that are due longest.                    *)
Due == {s \in Schedules : entry[s].status = "pending" /\ entry[s].at <= now}
FireDue == \E due \in {d \in SUBSET Due :
                          /\ Cardinality(d) = IF Cardinality(Due) < Limit THEN Cardinality(Due) ELSE Limit
                          /\ \A s \in d, t \in Due \ d : entry[s].at <= entry[t].at} :
    /\ reminded' = [s \in Schedules |-> IF s \in due /\ Consumes THEN Dispatched(s) ELSE reminded[s]]
    /\ entry' = [s \in Schedules |-> IF s \in due /\ Consumes THEN Fired(s) ELSE entry[s]]
    /\ UNCHANGED now

TimerTick == /\ timer = "set" /\ Due # {} /\ FireDue
        /\ UNCHANGED <<process, timer>>

(* The scheduler starts last, behind awaits; the server that listens by     *)
(* then takes requests to shut down, which find no timer to stop.  The      *)
(* runner refuses reminders only in a session, until that is saved.         *)
StartScheduler == /\ timer = "none" /\ process \notin {"up", "down"}
                  /\ timer' = "set" /\ FireDue
                  /\ process' = IF process = "booting" THEN "up" ELSE process
BeginShutdown == /\ process \in {"booting", "up"} /\ process' \in {"stopping", "leaving"}
                 /\ timer' = IF timer = "set" THEN "cleared" ELSE timer
                 /\ UNCHANGED <<entry, now, reminded>>
SessionSaved == /\ process = "stopping" /\ process' = "leaving"
                /\ UNCHANGED <<entry, timer, now, reminded>>
Ends == /\ process # "down" /\ process' = "down" /\ timer' = "none"
        /\ UNCHANGED <<entry, now, reminded>>
Boot == /\ process = "down" /\ process' = "booting"
        /\ UNCHANGED <<entry, timer, now, reminded>>
TimePasses == /\ now < LastTime /\ now' = now + 1
              /\ UNCHANGED <<entry, process, timer, reminded>>

SchedulerNext ==
        \/ \E s \in Schedules : CreateSchedule(s) \/ CancelSchedule(s)
        \/ TimerTick \/ StartScheduler \/ BeginShutdown \/ SessionSaved \/ Ends \/ Boot
        \/ TimePasses
SchedulerSpec == SchedulerInit /\ [][SchedulerNext]_schedulerVars

---------------------------------------------------------------------------
SchedulerTypeOK ==
    /\ \A s \in Schedules : /\ entry[s].status \in {"none", "pending", "fired", "cancelled"}
                            /\ entry[s].at \in Nat
    /\ process \in {"booting", "up", "stopping", "leaving", "down"}
    /\ timer \in {"none", "set", "cleared"} /\ now \in 0 .. LastTime
    /\ reminded \in [Schedules -> Seq([for : Nat, on : 0 .. LastTime])]

(* No reminder is eaten, by a shutdown or a time without a process: one     *)
(* that is spent has reached the runner, once, and not before its time; one *)
(* that repeats comes once for a downtime, however many times it missed,    *)
(* and keeps its rhythm.                                                    *)
RemindersKept ==
    \A s \in Schedules :
      /\ entry[s].status = "fired" => Len(reminded[s]) = 1
      /\ entry[s].status = "pending" /\ Every[s] = 0 => reminded[s] = << >>
      /\ \A i \in DOMAIN reminded[s] :
           LET r == reminded[s][i]
               after == IF i = Len(reminded[s]) THEN entry[s].at ELSE reminded[s][i + 1].for
           IN  /\ r.for <= r.on
               /\ Every[s] > 0 => /\ after \in r.on + 1 .. r.on + Every[s]
                                  /\ (after - r.for) % Every[s] = 0
=============================================================================
