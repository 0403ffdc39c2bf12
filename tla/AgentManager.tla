---------------------------- MODULE AgentManager ----------------------------
(***************************************************************************)
(* One managed agent of the niri server: the row of its configuration      *)
(* (apps/server/src/control/config-store.ts), the reconciliation of the    *)
(* running worker with that row (apps/server/src/agent-manager.ts), the    *)
(* supervisors it creates (apps/server/src/supervisor.ts) and the worker   *)
(* processes they spawn.                                                   *)
(*                                                                         *)
(* One step is the code between two awaits of the server, an HTTP request  *)
(* to it, a timer, or a step of a worker process.  Continuations that wait *)
(* for nothing but the microtask queue (Due) run before anything else.     *)
(*                                                                         *)
(* Abstracted: what the settings say (a configuration is a cold and a hot  *)
(* part), names, ports other than the one port of the worker, iroh tunnels *)
(* and remote agents.  A stored configuration always resolves: validate    *)
(* has tried it, and a secret that is missing is left out.                 *)
(***************************************************************************)
EXTENDS Naturals, FiniteSets

CONSTANTS
  Sup,            (* identities of supervisors                                *)
  Proc,           (* identities of worker processes                           *)
  Cold, Hot,      (* values of the cold and of the hot part of a configuration *)
  none,           (* no supervisor, no process                                *)
  MaxRevision,    (* last revision of the configuration (model bound)         *)
  MaxRequests,    (* most requests without an edit (model bound)              *)
  MaxCrashes,     (* most worker crashes (model bound)                        *)
  MaxRetries      (* most retry timers pending at once (model bound)          *)

ASSUME AgentManagerAssumption ==
  /\ none \notin Sup \cup Proc
  /\ Cold # {} /\ Hot # {}
  /\ MaxRevision \in Nat \ {0} /\ MaxRequests \in Nat
  /\ MaxCrashes \in Nat /\ MaxRetries \in Nat

VARIABLES
  row,         (* the agent's row of agent_configs                            *)
  manager,     (* drain and reconcile: where they stand and what they hold    *)
  retries,     (* size of retryTimers                                         *)
  stops,       (* the processes that calls of stop() wait for                 *)
  current,     (* supervisors.get(id)                                         *)
  registered,  (* the agent has a row in the table requests are routed by     *)
  sup,         (* the fields of each supervisor and its spawn in progress     *)
  proc,        (* the worker processes                                        *)
  requests, crashes  (* how many so far                                       *)

counters == <<requests, crashes>>
vars == <<row, manager, retries, stops, current, registered, sup, proc, counters>>

-----------------------------------------------------------------------------
(* Vocabulary *)

Revision == 1..MaxRevision
Config   == [cold : Cold, hot : Hot]
States   == {"draft", "pending", "applying", "active", "failed"}

(* A supervisor: the revision of its agent, the environment it spawns with, *)
(* its fields, and the await its spawn stands at with the process it boots. *)
Supervisor ==
  [rev : 0..MaxRevision, env : Config, envRev : 0..MaxRevision,
   stopping : BOOLEAN, timer : BOOLEAN, healthyOnce : BOOLEAN, child : Proc \cup {none},
   spawning : {"no", "mkdir", "health", "failing"}, boot : Proc \cup {none}]

(* The row, and what drain and reconcile hold while they wait: the revision *)
(* and configuration they read, and the supervisor and process then.        *)
Row == [enabled : BOOLEAN, revision : Revision, state : States, config : Config]
Reconciliation ==
  [step : {"idle", "head", "readiness", "applying", "applied", "replacing", "stopping"},
   again : BOOLEAN, attempted : 0..MaxRevision, rev : 0..MaxRevision,
   config : Config, awaits : Proc \cup {none}, owner : Sup \cup {none}]

(* A worker process: whether it has a SIGTERM, its NIRI_CONFIG_REVISION.    *)
Process == [life : {"gone", "booting", "serving"}, termed : BOOLEAN, rev : 0..MaxRevision]

(* The configuration the server starts with, whichever it is.               *)
FirstConfig == CHOOSE c \in Config : TRUE
Nobody      == [rev |-> 0, env |-> FirstConfig, envRev |-> 0, stopping |-> TRUE, timer |-> FALSE,
                healthyOnce |-> FALSE, child |-> none, spawning |-> "no", boot |-> none]
GoneProcess == [life |-> "gone", termed |-> FALSE, rev |-> 0]

(* The collector takes a stopped supervisor without a child or a spawn.     *)
Collected(s) == IF s.stopping /\ s.child = none /\ s.spawning = "no" THEN Nobody ELSE s

Gone(p)  == p # none => proc[p].life = "gone"
Free(p)  == /\ proc[p].life = "gone" /\ p \notin stops /\ p # manager.awaits
            /\ \A s \in Sup : p \notin {sup[s].child, sup[s].boot}
Serving  == {p \in Proc : proc[p].life = "serving"}
ChildOf(s) == IF s = none THEN none ELSE sup[s].child

Init ==
  /\ row \in Row /\ row.revision = 1 /\ row.config = FirstConfig
  /\ row.enabled \/ row.state = "draft"
  /\ manager = [step |-> IF row.enabled THEN "head" ELSE "idle", again |-> row.enabled,
                attempted |-> 0, rev |-> 0, config |-> FirstConfig, awaits |-> none, owner |-> none]
  /\ retries = 0 /\ stops = {} /\ current = none /\ registered = FALSE
  /\ sup = [s \in Sup |-> Nobody] /\ proc = [p \in Proc |-> GoneProcess]
  /\ requests = 0 /\ crashes = 0

-----------------------------------------------------------------------------
(* Steps of the microtask queue come first. *)

Due ==
  \/ manager.step = "head"
  \/ manager.step \in {"replacing", "stopping"} /\ Gone(manager.awaits)
  \/ \E p \in stops : Gone(p)

(* Operators named X_... are faulty variants of X, each a bug that one of   *)
(* the properties below has to notice; the specification never uses them.   *)
Scheduled_UnlessRunning(m) == IF m.step = "idle" THEN [m EXCEPT !.again = TRUE, !.step = "head"] ELSE m

(* schedule: a new generation, and a drain unless one runs.                 *)
Scheduled(m) == [m EXCEPT !.again = TRUE, !.step = IF @ = "idle" THEN "head" ELSE @]

(* The end of reconcile: drain goes on while the generation has changed.    *)
Finished(m) == [m EXCEPT !.step = IF m.again THEN "head" ELSE "idle",
                         !.rev = 0, !.config = FirstConfig, !.awaits = none, !.owner = none]

(* current(id, generation, revision): nothing was asked for meanwhile.      *)
UpToDate(rev) == ~manager.again /\ row.enabled /\ row.revision = rev

(* supervisor.stop() up to its wait.                                        *)
StoppedSupervisor(s) == Collected([s EXCEPT !.stopping = TRUE, !.timer = FALSE, !.child = none])

(* child.kill("SIGTERM")                                                    *)
Signalled(p) == IF p = none THEN proc ELSE [proc EXCEPT ![p].termed = (proc[p].life # "gone")]

(* stopProcess up to its wait: the supervisor leaves the table and its      *)
(* child is told to end.                                                    *)
StopProcess ==
  /\ current' = none
  /\ sup' = IF current = none THEN sup ELSE [sup EXCEPT ![current] = StoppedSupervisor(@)]
  /\ proc' = Signalled(ChildOf(current))

(* lifecycle: the verdict on a revision counts while it is the desired one. *)
Marked(state, rev) == IF row.revision = rev THEN [row EXCEPT !.state = state] ELSE row

-----------------------------------------------------------------------------
(* Requests *)

(* PATCH, rollback, seed or a new webhook: a new revision is desired.       *)
Update(config) ==
  /\ ~Due /\ row.revision < MaxRevision
  /\ row' = [row EXCEPT !.revision = @ + 1, !.state = "pending", !.config = config]
  /\ manager' = Scheduled(manager)
  /\ UNCHANGED <<retries, stops, current, registered, sup, proc, counters>>

Request == ~Due /\ requests < MaxRequests /\ requests' = requests + 1 /\ UNCHANGED crashes

(* A request repeated with its idempotency key changes no row.              *)
Replay ==
  /\ Request
  /\ manager' = Scheduled(manager)
  /\ UNCHANGED <<row, retries, stops, current, registered, sup, proc>>

(* start and restart *)
Start ==
  /\ Request
  /\ row' = [row EXCEPT !.enabled = TRUE, !.state = "pending"]
  /\ manager' = Scheduled([manager EXCEPT !.attempted = 0])
  /\ UNCHANGED <<retries, stops, current, registered, sup, proc>>

(* stop up to the wait of its stopLive, which it does not wait for itself.  *)
Stop ==
  /\ Request
  /\ row' = [row EXCEPT !.enabled = FALSE, !.state = "draft"]
  /\ manager' = Scheduled([manager EXCEPT !.attempted = 0])
  /\ stops' = stops \cup {ChildOf(current)}
  /\ StopProcess
  /\ UNCHANGED <<retries, registered>>

(* stopLive of stop() after the process is gone.                            *)
StopReturns(p) ==
  /\ p \in stops /\ Gone(p)
  /\ stops' = stops \ {p} /\ registered' = FALSE
  /\ UNCHANGED <<row, manager, retries, current, sup, proc, counters>>

-----------------------------------------------------------------------------
(* Reconciliation *)

(* replaceLocal up to its wait.                                             *)
Replace(m) ==
  /\ manager' = [m EXCEPT !.step = "replacing", !.awaits = ChildOf(current)]
  /\ StopProcess

(* Applied without a worker's help, by the worker, or by a new worker.      *)
Attempt(m) ==
  LET held == [m EXCEPT !.attempted = row.revision, !.rev = row.revision, !.config = row.config]
      s    == sup[m.owner]
      same == m.owner # none /\ s.child # none /\ s.env.cold = row.config.cold
  IN \/ /\ same /\ s.env.hot = row.config.hot
        /\ row' = [row EXCEPT !.state = "active"] /\ manager' = Finished(held)
        /\ UNCHANGED <<current, sup, proc>>
     \/ /\ same /\ s.env.hot # row.config.hot
        /\ row' = [row EXCEPT !.state = "applying"]
        /\ manager' = [held EXCEPT !.step = "applying"]
        /\ UNCHANGED <<current, sup, proc>>
     \/ /\ ~same
        /\ row' = [row EXCEPT !.state = "applying"] /\ Replace(held)

(* drain and the first part of reconcile.                                   *)
Reconcile ==
  LET m == [manager EXCEPT !.again = FALSE] IN
  /\ manager.step = "head"
  /\ \/ /\ ~row.enabled
        /\ manager' = [m EXCEPT !.step = "stopping", !.awaits = ChildOf(current)]
        /\ StopProcess /\ UNCHANGED row
     \/ /\ row.enabled /\ manager.attempted = row.revision
        /\ manager' = Finished(m) /\ UNCHANGED <<row, current, sup, proc>>
     \/ /\ row.enabled /\ manager.attempted # row.revision /\ ChildOf(current) # none
        /\ manager' = [m EXCEPT !.step = "readiness", !.owner = current,
                                !.awaits = ChildOf(current), !.rev = row.revision]
        /\ UNCHANGED <<row, current, sup, proc>>
     \/ /\ row.enabled /\ manager.attempted # row.revision /\ ChildOf(current) = none
        /\ Attempt(m)
  /\ UNCHANGED <<retries, stops, registered, counters>>

(* The worker on the port says that it is idle.                             *)
ReadyReturns ==
  /\ ~Due /\ manager.step = "readiness" /\ Serving # {}
  /\ IF UpToDate(manager.rev) THEN Attempt(manager)
     ELSE manager' = Finished(manager) /\ UNCHANGED <<row, current, sup, proc>>
  /\ UNCHANGED <<retries, stops, registered, counters>>

(* It was busy for 30 s, or the child is not the one the wait began with.   *)
ReadyFails ==
  /\ ~Due /\ manager.step = "readiness"
  /\ LET retry == ~manager.again /\ row.enabled IN
     /\ retry => retries < MaxRetries
     /\ retries' = IF retry THEN retries + 1 ELSE retries
  /\ manager' = Finished(manager)
  /\ UNCHANGED <<row, stops, current, registered, sup, proc, counters>>

RetryFires_Again ==
  /\ ~Due
  /\ retries' = retries - 1 /\ manager' = Scheduled(manager)
  /\ UNCHANGED <<row, stops, current, registered, sup, proc, counters>>

(* The timer leaves retryTimers and asks for a reconciliation.              *)
RetryFires ==
  /\ ~Due /\ retries > 0
  /\ retries' = retries - 1 /\ manager' = Scheduled(manager)
  /\ UNCHANGED <<row, stops, current, registered, sup, proc, counters>>

(* POST /config/apply reaches whichever worker has the port.                *)
WorkerApplies(p) ==
  /\ manager.step = "applying" /\ p \in Serving
  /\ proc' = [proc EXCEPT ![p].rev = manager.rev]
  /\ manager' = [manager EXCEPT !.step = "applied"]
  /\ UNCHANGED <<row, retries, stops, current, registered, sup, counters>>

(* Its answer names the settings applied, and the supervisor remembers      *)
(* those; the revision is active if none is missing.  If a newer one is     *)
(* desired the verdict is an error, which falls through to a replacement.   *)
ApplyReturns ==
  /\ ~Due /\ manager.step = "applied"
  /\ LET s == manager.owner
         Knowing(config) ==
           IF sup[s] = Nobody THEN sup
           ELSE [sup EXCEPT ![s].env = config, ![s].envRev = manager.rev]
     IN \/ /\ row.revision = manager.rev /\ manager' = Finished(manager)
           /\ \/ row' = Marked("active", manager.rev) /\ sup' = Knowing(manager.config)
              \/ row' = Marked("failed", manager.rev) /\ sup' = Knowing(sup[s].env)
           /\ UNCHANGED <<current, proc>>
        \/ row.revision # manager.rev /\ Replace(manager) /\ UNCHANGED row
  /\ UNCHANGED <<retries, stops, registered, counters>>

(* 409 because it is busy again, 500, a timeout or no connection.           *)
ApplyFails ==
  /\ ~Due /\ manager.step \in {"applying", "applied"}
  /\ Replace(manager)
  /\ UNCHANGED <<row, retries, stops, registered, counters>>

(* The rest of replaceLocal: a new supervisor, if it is still wanted.       *)
ReplaceContinues ==
  /\ manager.step = "replacing" /\ Gone(manager.awaits)
  /\ registered' = FALSE
  /\ IF UpToDate(manager.rev)
     THEN \E s \in Sup :
            /\ sup[s] = Nobody
            /\ sup' = [sup EXCEPT ![s] = [Nobody EXCEPT !.rev = manager.rev, !.env = manager.config,
                         !.envRev = manager.rev, !.stopping = FALSE, !.spawning = "mkdir"]]
            /\ current' = s
     ELSE UNCHANGED <<sup, current>>
  /\ manager' = Finished(manager)
  /\ UNCHANGED <<row, retries, stops, proc, counters>>

StopLiveReturns ==
  /\ manager.step = "stopping" /\ Gone(manager.awaits)
  /\ registered' = FALSE /\ manager' = Finished(manager)
  /\ UNCHANGED <<row, retries, stops, current, sup, proc, counters>>

-----------------------------------------------------------------------------
(* Supervisors *)

Concerned_AnySupervisor(s) == row.revision = sup[s].rev

(* onStartFailure, onExit and onReady look at the table and the row again.  *)
Concerned(s) == current = s /\ row.enabled /\ row.revision = sup[s].rev

(* The home directory exists: spawn, whatever has happened meanwhile.       *)
Spawn(s) ==
  /\ ~Due /\ sup[s].spawning = "mkdir"
  /\ \E p \in Proc :
       /\ Free(p)
       /\ proc' = [proc EXCEPT ![p] = [life |-> "booting", termed |-> FALSE, rev |-> sup[s].envRev]]
       /\ sup' = [sup EXCEPT ![s].child = p, ![s].boot = p, ![s].spawning = "health"]
  /\ UNCHANGED <<row, manager, retries, stops, current, registered, counters>>

(* GET /health is answered by this process, with this revision.             *)
HealthOk(s) ==
  /\ ~Due /\ sup[s].spawning = "health"
  /\ sup[s].boot \in Serving /\ proc[sup[s].boot].rev = sup[s].rev
  /\ LET kept   == sup[s].child = sup[s].boot
         booted == [sup[s] EXCEPT !.spawning = "no", !.boot = none, !.healthyOnce = @ \/ kept]
         ready  == kept /\ Concerned(s)
     IN /\ sup' = [sup EXCEPT ![s] = Collected(booted)]
        /\ registered' = (registered \/ ready)
        /\ row' = IF ready THEN Marked("active", sup[s].rev) ELSE row
  /\ UNCHANGED <<manager, retries, stops, current, proc, counters>>

SpawnThrows_Retries(s, after) ==
  /\ sup' = [sup EXCEPT ![s] = Collected([after EXCEPT !.spawning = "no", !.boot = none,
                 !.timer = @ \/ ~after.stopping])]
  /\ row' = IF ~after.healthyOnce /\ Concerned(s) THEN [row EXCEPT !.state = "failed"] ELSE row

(* spawnAndWaitForHealth throws: the first time the revision has failed,    *)
(* after that it is tried again.                                            *)
SpawnThrows(s, after) ==
  /\ sup' = [sup EXCEPT ![s] = Collected([after EXCEPT !.spawning = "no", !.boot = none,
                 !.timer = @ \/ (after.healthyOnce /\ ~after.stopping)])]
  /\ row' = IF ~after.healthyOnce /\ Concerned(s) THEN [row EXCEPT !.state = "failed"] ELSE row

(* The process has exited, or was not healthy for 30 s and is told to end.  *)
HealthFails(s) ==
  /\ ~Due /\ sup[s].spawning = "health"
  /\ LET p     == sup[s].boot
         after == [sup[s] EXCEPT !.child = IF @ = p THEN none ELSE @]
     IN IF Gone(p) THEN SpawnThrows(s, after) /\ UNCHANGED proc
        ELSE /\ sup' = [sup EXCEPT ![s] = [after EXCEPT !.spawning = "failing"]]
             /\ proc' = Signalled(p) /\ UNCHANGED row
  /\ UNCHANGED <<manager, retries, stops, current, registered, counters>>

(* It has exited, or 5 s are over; or the home directory cannot be made.    *)
FailingReturns(s) ==
  /\ ~Due /\ sup[s].spawning \in {"mkdir", "failing"}
  /\ SpawnThrows(s, sup[s])
  /\ UNCHANGED <<manager, retries, stops, current, registered, proc, counters>>

(* The restart timer; a second or more after the exit it was set by, when   *)
(* the health check of the process that exited and a POST it answered are   *)
(* over as well.                                                            *)
RestartFires(s) ==
  /\ ~Due /\ sup[s].timer /\ sup[s].spawning = "no" /\ manager.step # "applied"
  /\ sup' = [sup EXCEPT ![s].timer = FALSE, ![s].spawning = "mkdir"]
  /\ UNCHANGED <<row, manager, retries, stops, current, registered, proc, counters>>

-----------------------------------------------------------------------------
(* Worker processes *)

(* handleExit: a worker that has once been healthy is started again.        *)
Exited(s) ==
  Collected([s EXCEPT !.child = none, !.timer = @ \/ (s.healthyOnce /\ ~s.stopping)])

(* A process exits; handleExit of the supervisor that holds it.             *)
Exit(p) ==
  /\ proc' = [proc EXCEPT ![p] = GoneProcess]
  /\ IF \E s \in Sup : sup[s].child = p
     THEN LET s == CHOOSE s \in Sup : sup[s].child = p
          IN /\ sup' = [sup EXCEPT ![s] = Exited(@)]
             /\ registered' = FALSE
             /\ row' = IF Concerned(s) THEN [row EXCEPT !.state = "failed"] ELSE row
     ELSE UNCHANGED <<sup, registered, row>>
  /\ UNCHANGED <<manager, retries, stops, current, requests>>

(* The port is free; a process with a SIGTERM that does not listen yet has  *)
(* no handler for it and is gone before another one has booted.             *)
Listen(p) ==
  /\ proc[p].life = "booting" /\ ~proc[p].termed /\ Serving = {}
  /\ \A q \in Proc : proc[q].termed => proc[q].life # "booting"
  /\ proc' = [proc EXCEPT ![p].life = "serving"]
  /\ UNCHANGED <<row, manager, retries, stops, current, registered, sup, counters>>

(* The port is taken, and listening throws.                                 *)
PortTaken(p) ==
  /\ ~Due /\ proc[p].life = "booting" /\ Serving # {}
  /\ Exit(p) /\ UNCHANGED crashes

(* A SIGTERM ends the process in time, or a SIGKILL later; until then it    *)
(* keeps the port.                                                          *)
Terminated(p) ==
  /\ ~Due /\ proc[p].life # "gone" /\ proc[p].termed
  /\ Exit(p) /\ UNCHANGED crashes

Crash(p) ==
  /\ ~Due /\ proc[p].life # "gone" /\ ~proc[p].termed /\ crashes < MaxCrashes
  /\ Exit(p) /\ crashes' = crashes + 1

-----------------------------------------------------------------------------
Requesting == (\E c \in Config : Update(c)) \/ Replay \/ Start \/ Stop

ManagerStep ==
  \/ Reconcile \/ ApplyReturns \/ ReplaceContinues \/ StopLiveReturns
  \/ RetryFires \/ \E p \in Proc \cup {none} : StopReturns(p)

WaitEnds == ReadyReturns \/ ReadyFails
PostEnds == ApplyFails \/ \E p \in Proc : WorkerApplies(p)

SupervisorStep(s) == Spawn(s) \/ HealthOk(s) \/ HealthFails(s) \/ FailingReturns(s) \/ RestartFires(s)
ProcessStep(p)    == Listen(p) \/ PortTaken(p) \/ Terminated(p)

Next ==
  \/ Requesting \/ ManagerStep \/ WaitEnds \/ PostEnds
  \/ \E s \in Sup : SupervisorStep(s)
  \/ \E p \in Proc : ProcessStep(p) \/ Crash(p)

Spec == Init /\ [][Next]_vars

(* The server runs its continuations and timers, processes boot and obey    *)
(* signals; a worker that is started again and again is not too slow every  *)
(* time, nor without a home directory, and one that is asked again and      *)
(* again is idle some time.                                                 *)
Fairness ==
  /\ WF_vars(ManagerStep) /\ WF_vars(WaitEnds) /\ WF_vars(PostEnds) /\ SF_vars(ReadyReturns)
  /\ \A s \in Sup : SF_vars(SupervisorStep(s)) /\ SF_vars(Spawn(s)) /\ SF_vars(HealthOk(s))
  /\ \A p \in Proc : SF_vars(ProcessStep(p)) /\ SF_vars(Listen(p))

FairSpec == Spec /\ Fairness

-----------------------------------------------------------------------------
(* Properties *)

(* The fields have the types the code gives them.                           *)
TypeOK ==
  /\ row \in Row /\ manager \in Reconciliation
  /\ retries \in 0..MaxRetries /\ stops \subseteq Proc \cup {none}
  /\ current \in Sup \cup {none} /\ registered \in BOOLEAN
  /\ sup \in [Sup -> Supervisor] /\ proc \in [Proc -> Process]
  /\ requests \in 0..MaxRequests /\ crashes \in 0..MaxCrashes

(* Requests are routed to the live worker of the current supervisor, one    *)
(* that has been healthy, except while somebody waits for that worker to    *)
(* end: "a stopped/replaced worker must never resurrect an older            *)
(* registration" (onReady), and every way a worker can end takes its        *)
(* registration away.                                                       *)
RoutedToLiveWorker ==
  registered => \/ /\ ChildOf(current) \in Serving /\ sup[current].healthyOnce
                \/ stops # {} \/ manager.step \in {"replacing", "stopping"}

(* However edits, starts, failed waits and a running reconciliation         *)
(* interleave, an enabled agent with a pending configuration has somebody   *)
(* on the way to it, a drain or a retry timer: no request is lost between   *)
(* the end of one reconciliation and the start of the next (schedule).      *)
PendingIsTakenUp ==
  row.enabled /\ row.state = "pending" => manager.step # "idle" \/ retries > 0

(* A revision that failed becomes active without a new request only if it   *)
(* has once been healthy: "failed first boot does not retry"                *)
(* (agent-manager.integration.test.ts).                                     *)
FailedBootStaysFailed ==
  [][row.state = "failed" /\ row'.state = "active" => \E s \in Sup : sup[s].healthyOnce]_vars

(* A revision that is being applied is somebody's business, a supervisor's  *)
(* or the manager's, also when a request is repeated the way                *)
(* docs/runtime-configuration.md asks for: "A timeout is not proof a write  *)
(* failed: retry with the same request id and payload".                     *)
ApplyingHasWorker ==
  row.enabled /\ row.state = "applying" => current # none \/ manager.step # "idle"

(* A worker that crashes after it was healthy is brought back: "a           *)
(* post-health crash recovers" (agent-manager.integration.test.ts), also    *)
(* when the agent is active with a revision that needed no new worker.      *)
CrashRecovers ==
  (row.state = "active" /\ current # none /\ sup[current].timer) ~>
    (registered \/ row.state # "active")
=============================================================================
