----------------------------- MODULE Delegation -----------------------------
(***************************************************************************)
(* Delegated tasks: the manager (delegation/manager.ts), its tables        *)
(* (delegation/store.ts) and the worker loop (delegation/subagent.ts) of   *)
(* packages/niri-runtime/src.                                              *)
(*                                                                         *)
(* One step is the code between two awaits of a worker (variable pc), a    *)
(* call of the delegate tool, a Discord message, or a step of the process. *)
(* Tables survive a restart, everything else does not.                     *)
(*                                                                         *)
(* Abstracted: the text of messages (only who sent each is kept), tokens,  *)
(* the Discord mirror (its awaits end, successful or not), and what a tool *)
(* call does.  active.cancelled is always set with cancelRequested and so  *)
(* is not kept apart from it.                                              *)
(***************************************************************************)
EXTENDS Naturals, Sequences, FiniteSets

CONSTANTS
  Task,           (* the tasks that may be spawned                            *)
  Writers,        (* those whose profile may write or edit files              *)
  Retired,        (* those whose profile is gone after the first restart      *)
  MaxConcurrent,  (* delegationConfig.maxConcurrent                           *)
  MaxTurns,       (* profile.maxTurns                                         *)
  PageLimit,      (* the limit readInbox and waitForInput list messages with  *)
  MaxMessages,    (* most messages in each mailbox before the last (model bound) *)
  MaxRestarts     (* most process restarts in a behaviour (model bound)       *)

ASSUME DelegationAssumption ==
  /\ IsFiniteSet(Task)
  /\ Writers \subseteq Task /\ Retired \subseteq Task
  /\ MaxConcurrent \in Nat \ {0} /\ MaxTurns \in Nat \ {0} /\ PageLimit \in Nat \ {0}
  /\ MaxMessages \in [Task -> Nat] /\ MaxRestarts \in Nat

VARIABLES
  status,           (* delegated_tasks.status, "none" before the insert       *)
  born,             (* delegated_tasks.created_at                             *)
  cancelRequested,  (* delegated_tasks.cancel_requested                       *)
  messages,         (* delegated_task_messages: the sender of each, by seq    *)
  initialized,      (* initialized                                            *)
  stopping,         (* stopping                                               *)
  active,           (* the keys of activeTasks                                *)
  waiters,          (* the tasks with a waiter in inputWaiters                *)
  pc,               (* the await the worker of a task stands at               *)
  turn,             (* turns the worker has begun                             *)
  lastInboxSeq,     (* lastInboxSeq of the worker                             *)
  expired,          (* the deadline of the worker has passed                  *)
  outcome,          (* how runDelegatedSubagent ended                         *)
  restarts          (* number of process restarts so far                      *)

tableVars  == <<status, born, cancelRequested, messages>>
workerVars == <<pc, turn, lastInboxSeq, expired, outcome>>
vars == <<tableVars, initialized, stopping, active, waiters, workerVars, restarts>>

-----------------------------------------------------------------------------
(* Vocabulary *)

Working  == {"running", "needs_input"}
Ended    == {"completed", "failed", "cancelled", "interrupted"}
Statuses == {"none", "queued"} \cup Working \cup Ended

(* The awaits of a worker: the import before its first turn, the model, a   *)
(* tool, the mirror after each kind of message, an answer, the termination  *)
(* of its shells, the mirror after its end.                                 *)
TurnPcs == {"completing", "tool", "told", "asked", "toldResult", "toldFinal", "waiting"}
Pcs     == {"off", "starting", "closing", "reporting"} \cup TurnPcs

Configured(t) == t \notin Retired \/ restarts = 0

Init ==
  /\ status = [t \in Task |-> "none"] /\ born = [t \in Task |-> 0]
  /\ cancelRequested = [t \in Task |-> FALSE]
  /\ messages = [t \in Task |-> <<>>]
  /\ initialized = FALSE /\ stopping = FALSE
  /\ active = {} /\ waiters = {}
  /\ pc = [t \in Task |-> "off"] /\ turn = [t \in Task |-> 0]
  /\ lastInboxSeq = [t \in Task |-> 1] /\ expired = [t \in Task |-> FALSE]
  /\ outcome = [t \in Task |-> "none"]
  /\ restarts = 0

-----------------------------------------------------------------------------
(* The queue *)

(* Operators named X_... are faulty variants of X, each a bug that one of   *)
(* the properties below has to notice; the specification never uses them.   *)
Older_NewestFirst(T, t, created) == {u \in T : created[u] > created[t]}

(* listQueuedDelegatedTasks: the tasks of T that come before t.             *)
Older(T, t, created) == {u \in T : created[u] < created[t]}

Fits_ForgetsLease(t, workers) == Cardinality(workers) < MaxConcurrent

(* nextRunnableTask: may t start next to the workers of a set?              *)
Fits(t, workers) ==
  /\ Cardinality(workers) < MaxConcurrent
  /\ t \in Writers => workers \cap Writers = {}

(* pumpQueue after a change of the tables (now, created), of activeTasks    *)
(* and of the workers: from the oldest on, each queued task that fits next  *)
(* to those running or started before it gets a worker, and one whose       *)
(* profile is gone fails if the walk reaches it with a slot to fill.        *)
Pump(enabled, now, created, workers, at) ==
  LET queue == {t \in Task : enabled /\ now[t] = "queued"}
      Before(S, t) == workers \cup Older(S, t, created)
  IN \E S \in SUBSET queue :
       /\ \A t \in queue : t \in S <=> Configured(t) /\ Fits(t, Before(S, t))
       /\ active' = workers \cup S
       /\ pc' = [t \in Task |-> IF t \in S THEN "starting" ELSE at[t]]
       /\ status' = [t \in Task |->
            IF t \in S THEN "running"
            ELSE IF t \in queue /\ ~Configured(t) /\ Cardinality(Before(S, t)) < MaxConcurrent
                 THEN "failed" ELSE now[t]]

-----------------------------------------------------------------------------
(* Mailboxes *)

Collaborator == "collaborator"  (* niri or a person on Discord *)
Worker       == "worker"
System       == "system"

Appended(t, sender) == [messages EXCEPT ![t] = Append(@, sender)]

(* listDelegatedTaskMessages: one page of those after seq.                  *)
Listed(t, seq) == {i \in seq + 1 .. seq + PageLimit : i \in DOMAIN messages[t]}

(* What a worker that has read up to seq gets of it: not its own messages.  *)
Inbox(t, seq) == {i \in Listed(t, seq) : messages[t][i] # Worker}

(* hasCollaboratorInputAfter *)
HasInput(t, seq) == \E i \in Inbox(t, seq) : messages[t][i] = Collaborator

(* readInbox and injectInbox: lastInboxSeq after reading.                   *)
ReadUpTo(t, seq) ==
  IF Inbox(t, seq) = {} THEN seq
  ELSE CHOOSE i \in Inbox(t, seq) : \A j \in Inbox(t, seq) : j <= i

-----------------------------------------------------------------------------
(* The worker: runDelegatedSubagent *)

MustStop_TimeoutOnly(t) == expired[t]

(* remainingTaskMs throws.                                                  *)
MustStop(t) == cancelRequested[t] \/ expired[t]

At(t, place) == pc' = [pc EXCEPT ![t] = place]
Read(t, seq) == lastInboxSeq' = [lastInboxSeq EXCEPT ![t] = seq]

(* The worker function ends; its shells are terminated before it returns.   *)
End(t, how) ==
  /\ At(t, "closing")
  /\ outcome' = [outcome EXCEPT ![t] = how]
  /\ UNCHANGED <<status, messages, turn, lastInboxSeq>>

(* updateDelegatedTask, of the status                                       *)
Updated(t, how) == [status EXCEPT ![t] = how]

(* publishWorkerMessage up to its mirror await; a question sets the status. *)
Publish(t, place) ==
  /\ messages' = Appended(t, Worker)
  /\ status' = IF place = "asked" THEN Updated(t, "needs_input") ELSE status
  /\ At(t, place)
  /\ UNCHANGED <<turn, outcome>>

NextTurn_OneMore(t, seq) ==
  \/ /\ MustStop(t)
     /\ End(t, "error")
  \/ /\ ~MustStop(t) /\ turn[t] <= MaxTurns
     /\ turn' = [turn EXCEPT ![t] = @ + 1]
     /\ Read(t, ReadUpTo(t, seq))
     /\ At(t, "completing")
     /\ UNCHANGED <<status, messages, outcome>>

(* The head of the turn loop, or what follows it after the last turn.       *)
NextTurn(t, seq) ==
  \/ /\ MustStop(t)
     /\ End(t, "error")
  \/ /\ ~MustStop(t) /\ turn[t] < MaxTurns
     /\ turn' = [turn EXCEPT ![t] = @ + 1]
     /\ Read(t, ReadUpTo(t, seq))
     /\ At(t, "completing")
     /\ UNCHANGED <<status, messages, outcome>>
  \/ /\ ~MustStop(t) /\ turn[t] = MaxTurns
     /\ Publish(t, "toldFinal")
     /\ Read(t, seq)

(* The next tool call of the turn, or the next turn.  Calls the worker may  *)
(* not make and malformed ones are answered at once and change nothing.     *)
NextCall(t, seq) ==
  \/ NextTurn(t, seq)
  \/ /\ ~MustStop(t)
     /\ At(t, "tool")
     /\ Read(t, seq)
     /\ UNCHANGED <<status, messages, turn, outcome>>
  \/ /\ ~MustStop(t)
     /\ \E place \in {"told", "asked", "toldResult"} :
          /\ place # "toldResult" => Len(messages[t]) < MaxMessages[t]
          /\ Publish(t, place)
     /\ Read(t, seq)

WorkerUnchanged == UNCHANGED <<born, cancelRequested, initialized, stopping, active, expired, restarts>>

WorkerStarts(t) ==
  /\ pc[t] = "starting"
  /\ NextTurn(t, lastInboxSeq[t])
  /\ WorkerUnchanged /\ UNCHANGED waiters

(* The completion arrives, or throws: refused, aborted by the cancellation  *)
(* or by the deadline.  A message without tool calls is the result.         *)
CompletionReturns(t) ==
  /\ pc[t] = "completing"
  /\ \/ End(t, "error")
     \/ NextCall(t, lastInboxSeq[t])
     \/ /\ ~MustStop(t)
        /\ Publish(t, "toldFinal")
        /\ UNCHANGED lastInboxSeq
  /\ WorkerUnchanged /\ UNCHANGED waiters

ToolReturns(t) ==
  /\ pc[t] \in {"tool", "told"}
  /\ NextCall(t, lastInboxSeq[t])
  /\ WorkerUnchanged /\ UNCHANGED waiters

(* The rest of a result: the one of task_message is subject to a last look  *)
(* at the deadline, the last text of the worker is not.                     *)
ResultTold(t) ==
  /\ pc[t] \in {"toldResult", "toldFinal"}
  /\ End(t, IF pc[t] = "toldResult" /\ MustStop(t) THEN "error" ELSE "result")
  /\ WorkerUnchanged /\ UNCHANGED waiters

(* Back in the turn that waited: the worker reads its answers.              *)
Answered(t) == NextCall(t, ReadUpTo(t, lastInboxSeq[t]))

WaitForInput_WithoutLooking(t) ==
  /\ ~MustStop(t)
  /\ waiters' = waiters \cup {t}
  /\ At(t, "waiting")
  /\ UNCHANGED <<status, messages, turn, lastInboxSeq, outcome>>

(* waitForInput after a question: it returns at once if there is input the  *)
(* worker has not read, and registers a waiter otherwise.                   *)
WaitForInput(t) ==
  \/ /\ MustStop(t)
     /\ End(t, "error")
     /\ UNCHANGED waiters
  \/ /\ ~MustStop(t) /\ HasInput(t, lastInboxSeq[t])
     /\ Answered(t)
     /\ UNCHANGED waiters
  \/ /\ ~MustStop(t) /\ ~HasInput(t, lastInboxSeq[t])
     /\ waiters' = waiters \cup {t}
     /\ At(t, "waiting")
     /\ UNCHANGED <<status, messages, turn, lastInboxSeq, outcome>>

QuestionTold(t) ==
  /\ pc[t] = "asked"
  /\ WaitForInput(t)
  /\ WorkerUnchanged

(* The waiter was woken; throws if the task was cancelled or ran out.       *)
WaitReturns(t) ==
  /\ pc[t] = "waiting" /\ t \notin waiters
  /\ Answered(t)
  /\ WorkerUnchanged /\ UNCHANGED waiters

DeadlinePasses_WithoutTimer(t) ==
  /\ pc[t] \in TurnPcs /\ ~expired[t]
  /\ expired' = [expired EXCEPT ![t] = TRUE]
  /\ UNCHANGED <<tableVars, initialized, stopping, active, waiters, pc, turn, lastInboxSeq, outcome, restarts>>

(* The deadline passes; the timer of a wait goes off with it.               *)
DeadlinePasses(t) ==
  /\ pc[t] \in TurnPcs /\ ~expired[t]
  /\ expired' = [expired EXCEPT ![t] = TRUE]
  /\ waiters' = waiters \ {t}
  /\ UNCHANGED <<tableVars, initialized, stopping, active, pc, turn, lastInboxSeq, outcome, restarts>>

(* runTask after runDelegatedSubagent: the end of the task is recorded, and *)
(* a failure leaves a system message.                                       *)
Settle(t) ==
  /\ pc[t] = "closing"
  /\ status' = Updated(t, IF cancelRequested[t] THEN "cancelled"
                          ELSE IF outcome[t] = "result" THEN "completed" ELSE "failed")
  /\ messages' = IF outcome[t] = "result" THEN messages ELSE Appended(t, System)
  /\ At(t, "reporting")
  /\ WorkerUnchanged /\ UNCHANGED <<waiters, turn, lastInboxSeq, outcome>>

(* The locals of a worker that is gone.                                     *)
Forgotten(t) ==
  /\ turn' = [turn EXCEPT ![t] = 0] /\ lastInboxSeq' = [lastInboxSeq EXCEPT ![t] = 1]
  /\ expired' = [expired EXCEPT ![t] = FALSE] /\ outcome' = [outcome EXCEPT ![t] = "none"]

Finish_LeavesQueue(t) ==
  /\ pc[t] = "reporting"
  /\ active' = active \ {t}
  /\ At(t, "off") /\ Forgotten(t)
  /\ UNCHANGED <<tableVars, initialized, stopping, waiters, restarts>>

(* The finally of runTask: the slot is given to the queue.                  *)
Finish(t) ==
  /\ pc[t] = "reporting"
  /\ Pump(initialized /\ ~stopping, status, born, active \ {t}, [pc EXCEPT ![t] = "off"])
  /\ waiters' = waiters \ {t}
  /\ Forgotten(t)
  /\ UNCHANGED <<born, cancelRequested, messages, initialized, stopping, restarts>>

-----------------------------------------------------------------------------
(* The delegate tool and Discord *)

Others == <<initialized, stopping, turn, lastInboxSeq, expired, outcome, restarts>>

(* createDelegatedTask: the row is the newest.                              *)
Created(t) == [born EXCEPT ![t] = 1 + Cardinality({u \in Task : status[u] # "none"})]

(* spawnDelegatedTask: the objective is message 1.                          *)
Spawn(t) ==
  /\ initialized /\ status[t] = "none" /\ Configured(t)
  /\ born' = Created(t)
  /\ messages' = Appended(t, Collaborator)
  /\ Pump(~stopping, Updated(t, "queued"), born', active, pc)
  /\ UNCHANGED <<cancelRequested, waiters, Others>>

Speak_WithoutWaking(t) ==
  /\ messages' = Appended(t, Collaborator)
  /\ status' = [status EXCEPT ![t] = IF @ = "needs_input" THEN "running" ELSE @]
  /\ UNCHANGED waiters

(* What sending, feedback and Discord have in common: the message is kept,  *)
(* a task that waits for input is running again, and its worker is woken.   *)
Speak(t) ==
  /\ messages' = Appended(t, Collaborator)
  /\ status' = [status EXCEPT ![t] = IF @ = "needs_input" THEN "running" ELSE @]
  /\ waiters' = IF status[t] \in Ended THEN waiters ELSE waiters \ {t}

(* A message to a task that has not ended: sendDelegatedTaskMessage, the    *)
(* feedback of niri, or a person in the thread of the task.                 *)
Instruct(t) ==
  /\ initialized /\ status[t] \in {"queued"} \cup Working
  /\ Len(messages[t]) < MaxMessages[t]
  /\ Speak(t)
  /\ UNCHANGED <<born, cancelRequested, active, pc, Others>>

(* One to an ended task, which sendDelegatedTaskMessage refuses.            *)
FollowUp(t) ==
  /\ initialized /\ status[t] \in Ended
  /\ Len(messages[t]) < MaxMessages[t]
  /\ Speak(t)
  /\ UNCHANGED <<born, cancelRequested, active, pc, Others>>

(* cancelDelegatedTask: a task that has a worker is ended by its worker.    *)
Cancel(t) ==
  /\ initialized /\ status[t] \in {"queued"} \cup Working
  /\ status' = IF t \in active THEN status ELSE Updated(t, "cancelled")
  /\ cancelRequested' = [cancelRequested EXCEPT ![t] = TRUE]
  /\ messages' = Appended(t, Collaborator)
  /\ waiters' = waiters \ {t}
  /\ Len(messages[t]) <= MaxMessages[t]
  /\ UNCHANGED <<born, active, pc, Others>>

-----------------------------------------------------------------------------
(* The process *)

Interruptible_RunningOnly == {"running"}

(* interruptActiveDelegatedTasks *)
Interruptible == Working

(* initDelegation, before anything else of the process can reach a task.    *)
InitDelegation ==
  /\ ~initialized
  /\ initialized' = TRUE
  /\ Pump(~stopping, [t \in Task |-> IF status[t] \in Interruptible THEN "interrupted" ELSE status[t]],
          born, active, pc)
  /\ UNCHANGED <<born, cancelRequested, messages, stopping, waiters, turn, lastInboxSeq, expired,
                 outcome, restarts>>

(* stopDelegation at the start of gracefulShutdown.                         *)
StopDelegation ==
  /\ initialized /\ ~stopping
  /\ stopping' = TRUE
  /\ cancelRequested' = [t \in Task |-> cancelRequested[t] \/ t \in active]
  /\ waiters' = waiters \ active
  /\ UNCHANGED <<status, born, messages, initialized, active, workerVars, restarts>>

(* The process exits, orderly or not, and another one starts.               *)
Restart ==
  /\ restarts < MaxRestarts
  /\ restarts' = restarts + 1
  /\ initialized' = FALSE /\ stopping' = FALSE
  /\ active' = {} /\ waiters' = {}
  /\ pc' = [t \in Task |-> "off"] /\ turn' = [t \in Task |-> 0]
  /\ lastInboxSeq' = [t \in Task |-> 1] /\ expired' = [t \in Task |-> FALSE]
  /\ outcome' = [t \in Task |-> "none"]
  /\ UNCHANGED tableVars

-----------------------------------------------------------------------------

WorkerStep(t) ==
  \/ WorkerStarts(t) \/ CompletionReturns(t) \/ ToolReturns(t) \/ ResultTold(t)
  \/ QuestionTold(t) \/ WaitReturns(t) \/ Settle(t) \/ Finish(t)

Next ==
  \/ \E t \in Task : \/ WorkerStep(t) \/ DeadlinePasses(t)
                     \/ Spawn(t) \/ Instruct(t) \/ FollowUp(t) \/ Cancel(t)
  \/ InitDelegation \/ StopDelegation \/ Restart

Spec == Init /\ [][Next]_vars

(* Every await of a worker ends (an answer may never come, but the deadline *)
(* does), and a process that starts calls initDelegation.  Nothing is       *)
(* assumed of niri, of people, of the shutdown or of restarts.              *)
FairSpec ==
  /\ Spec /\ WF_vars(InitDelegation)
  /\ \A t \in Task : WF_vars(WorkerStep(t)) /\ WF_vars(DeadlinePasses(t))

-----------------------------------------------------------------------------
(* Properties *)

TypeOK ==
  /\ status \in [Task -> Statuses] /\ born \in [Task -> Nat]
  /\ cancelRequested \in [Task -> BOOLEAN]
  /\ messages \in [Task -> Seq({Collaborator, Worker, System})]
  /\ initialized \in BOOLEAN /\ stopping \in BOOLEAN
  /\ active \subseteq Task /\ waiters \subseteq active
  /\ pc \in [Task -> Pcs] /\ turn \in [Task -> 0..MaxTurns]
  /\ lastInboxSeq \in [Task -> Nat] /\ expired \in [Task -> BOOLEAN]
  /\ outcome \in [Task -> {"none", "result", "error"}]
  /\ restarts \in 0..MaxRestarts

(* The table of tasks changes as its readers may rely on, and the lease for *)
(* writers and the concurrency bound hold, through questions, answers,      *)
(* cancellations, deadlines, shutdowns and restarts.                        *)
Board == INSTANCE TaskBoard WITH busy <- active
KeepsTaskContract == Board!BoardSpec

(* The statuses running and needs_input are those of tasks that do have a   *)
(* worker: no task of an earlier process, and none that a race of its end   *)
(* with an answer or a cancellation revived, looks alive for ever.          *)
NothingPhantom ==
  initialized => \A t \in Task : status[t] \in Working <=> t \in active /\ pc[t] # "reporting"

(* A worker that is paused for input has read all there was: whatever was   *)
(* sent while it asked, or a cancellation, woke it or kept it from pausing. *)
NoAnswerMissed ==
  \A t \in waiters :
    /\ pc[t] = "waiting" /\ ~MustStop(t)
    /\ \A i \in DOMAIN messages[t] : i > lastInboxSeq[t] => messages[t][i] # Collaborator

(* No queued task is left waiting while it could run: every slot and the    *)
(* lease are handed on by whoever gives them back.                          *)
NoIdleSlot ==
  initialized /\ ~stopping =>
    \A t \in Task : status[t] = "queued" => ~Fits(t, active)

(* An older task is overtaken only by a reader, and only while the lease is *)
(* taken.                                                                   *)
FirstComeFirstServed ==
  [][\A t, u \in Task :
       status[t] = "queued" /\ status'[t] = "queued" /\ born[t] < born'[u] /\ u \in active' \ active
       => t \in Writers /\ u \notin Writers /\ active' \cap Writers # {}]_vars

(* "cancellation or deadline expiry is applied immediately after they       *)
(* return": once a task is to stop, the await its worker stands at is the   *)
(* last of its work; it begins no turn, asks nothing and calls no tool.     *)
NoWorkAfterCancel ==
  [][\A t \in Task : (cancelRequested[t] \/ expired[t]) /\ pc'[t] # pc[t]
                     => pc'[t] \in {"closing", "reporting", "off"}]_vars

(* Every task that is spawned ends, be its questions answered or not; only  *)
(* a process that is stopping leaves the queue to the next one.             *)
EveryTaskEnds ==
  \A t \in Task : status[t] \in {"queued"} \cup Working
                   ~> status[t] \in Ended \/ (stopping /\ status[t] = "queued")

(* "if you ask a question with task_message, you will pause until a         *)
(* collaborator answers": a worker whose question stands open is paused.    *)
PausedWhileAsking ==
  \A t \in active :
    status[t] = "needs_input" /\ ~cancelRequested[t] /\ ~expired[t] => pc[t] \in {"asked", "waiting"}

=============================================================================
