-------------------------- MODULE DelegationProofs --------------------------
(***************************************************************************)
(* Theorems about Delegation, for every set of tasks, every lease, bound,  *)
(* turn limit, page and mailbox size, and every number of restarts.        *)
(*                                                                         *)
(* The manager keeps the same fact three times: in the status column, in   *)
(* activeTasks and in the await a worker stands at.  Workers says how the  *)
(* three agree between two awaits; with TypeOK, Queue (the order of the    *)
(* queue, which pumpQueue needs) and Lease it is the inductive invariant.  *)
(***************************************************************************)
EXTENDS Delegation, FiniteSetTheorems, WellFoundedInduction, TLAPS

Spawned == {t \in Task : status[t] # "none"}

(* created_at orders the tasks that were spawned.                           *)
Queue ==
  /\ \A t \in Spawned : born[t] <= Cardinality(Spawned)
  /\ \A t, u \in Spawned : born[t] = born[u] => t = u

Lease == Board!LeaseHolds(active)

Agrees(t) ==
  /\ t \in active <=> pc[t] # "off"
  /\ t \in active /\ pc[t] # "reporting" => status[t] \in Working
  /\ t \in active /\ pc[t] = "reporting" => status[t] \in {"completed", "failed", "cancelled"}
  /\ t \in waiters => pc[t] = "waiting"
  /\ initialized /\ status[t] \in Working => t \in active
  /\ pc[t] = "off" => ~expired[t]
  /\ status[t] \in {"none", "queued"} => ~cancelRequested[t]

Workers ==
  /\ ~initialized => active = {}
  /\ \A t \in Task : Agrees(t)

IInv == TypeOK /\ Queue /\ Lease /\ Workers

USE DelegationAssumption
USE DEF DelegationAssumption, Working, Ended, Statuses, TurnPcs, Pcs, Collaborator, Worker, System,
        tableVars, workerVars

-----------------------------------------------------------------------------
(* Arithmetic *)

(* TaskBoard counts as Delegation does.                                     *)
LEMMA SameCardinality == ASSUME NEW S PROVE Board!Cardinality(S) = Cardinality(S)
BY DEF Board!Cardinality, Cardinality

(* A bounded set of numbers has a greatest one.                             *)
LEMMA GreatestExists ==
  ASSUME NEW T \in SUBSET Nat, T # {}, NEW b \in Nat, \A x \in T : x <= b
  PROVE  \E m \in T : \A x \in T : x <= m
<1> DEFINE D == {b - x : x \in T}
<1>1. D \subseteq Nat /\ D # {}
  <2>1. \A x \in T : b - x \in Nat
    OBVIOUS
  <2>2. PICK x \in T : TRUE
    OBVIOUS
  <2> QED
    BY <2>1, <2>2
<1>2. PICK d \in D : \A y \in D : ~ (<<y, d>> \in OpToRel(<, Nat))
  BY <1>1, NatLessThanWellFounded, WFMin
<1>3. PICK m \in T : d = b - m
  OBVIOUS
<1>4. ASSUME NEW x \in T PROVE x <= m
  <2>1. b - x \in D /\ b - x \in Nat /\ d \in Nat
    BY <1>1
  <2>2. ~ (b - x < d)
    BY <1>2, <2>1 DEF OpToRel
  <2> QED
    BY <2>2, <1>3
<1> QED
  BY <1>4

LEMMA ReadUpToType ==
  ASSUME TypeOK, NEW t \in Task, NEW seq \in Nat
  PROVE  ReadUpTo(t, seq) \in Nat
<1>1. Inbox(t, seq) \in SUBSET Nat /\ \A i \in Inbox(t, seq) : i <= seq + PageLimit
  BY DEF Inbox, Listed
<1>2. CASE Inbox(t, seq) = {}
  BY <1>2 DEF ReadUpTo
<1>3. CASE Inbox(t, seq) # {}
  <2>1. \E i \in Inbox(t, seq) : \A j \in Inbox(t, seq) : j <= i
    BY <1>1, <1>3, seq + PageLimit \in Nat, GreatestExists
  <2> QED
    BY <1>1, <1>3, <2>1 DEF ReadUpTo
<1> QED
  BY <1>2, <1>3

-----------------------------------------------------------------------------
(* What the walk over the queue leaves behind *)

Pumped(now, workers, at) ==
  \E S \in SUBSET {t \in Task : now[t] = "queued"} :
    /\ active' = workers \cup S
    /\ pc' = [t \in Task |-> IF t \in S THEN "starting" ELSE at[t]]
    /\ status' \in [Task -> Statuses]
    /\ \A t \in S : status'[t] = "running"
    /\ \A t \in Task \ S : status'[t] = now[t] \/ (now[t] = "queued" /\ ~Configured(t) /\ status'[t] = "failed")

LEMMA PumpEffect ==
  ASSUME NEW enabled \in BOOLEAN, NEW now \in [Task -> Statuses], NEW created \in [Task -> Nat],
         NEW workers \in SUBSET Task, NEW at \in [Task -> Pcs],
         Pump(enabled, now, created, workers, at)
  PROVE  Pumped(now, workers, at)
BY DEF Pump, Pumped

(* The lease and the bound survive the walk, if creation times are distinct *)
(* and bounded.                                                             *)
LEMMA PumpKeepsLease ==
  ASSUME NEW enabled \in BOOLEAN, NEW now \in [Task -> Statuses], NEW created \in [Task -> Nat],
         NEW workers \in SUBSET Task, NEW at \in [Task -> Pcs], NEW b \in Nat,
         \A t \in Task : now[t] = "queued" => created[t] <= b,
         \A t, u \in Task : now[t] = "queued" /\ now[u] = "queued" /\ created[t] = created[u] => t = u,
         Board!LeaseHolds(workers),
         Pump(enabled, now, created, workers, at)
  PROVE  Lease'
<1> DEFINE queue == {t \in Task : enabled /\ now[t] = "queued"}
<1>1. PICK S \in SUBSET queue :
        /\ \A t \in queue : t \in S <=> Configured(t) /\ Fits(t, workers \cup Older(S, t, created))
        /\ active' = workers \cup S
  BY DEF Pump
<1>2. ASSUME NEW t \in active' \cap Writers, NEW u \in active' \cap Writers PROVE t = u
  <2>1. \A x \in S : x \in Writers => (workers \cup Older(S, x, created)) \cap Writers = {}
    BY <1>1 DEF Fits
  <2>2. CASE t \in workers /\ u \in workers
    BY <2>2 DEF Board!LeaseHolds
  <2>3. CASE t \in S /\ u \in workers
    BY <2>1, <2>3
  <2>4. CASE t \in workers /\ u \in S
    BY <2>1, <2>4
  <2>5. CASE t \in S /\ u \in S
    <3>1. ~(created[t] < created[u]) /\ ~(created[u] < created[t])
      BY <2>1, <2>5 DEF Older
    <3>2. t \in Task /\ u \in Task /\ now[t] = "queued" /\ now[u] = "queued"
      BY <2>5
    <3> QED
      BY <3>1, <3>2, created[t] \in Nat, created[u] \in Nat
  <2> QED
    BY <1>1, <2>2, <2>3, <2>4, <2>5
<1>3. Cardinality(active') <= MaxConcurrent
  <2>1. CASE S = {}
    BY <1>1, <2>1, SameCardinality DEF Board!LeaseHolds
  <2>2. CASE S # {}
    <3> DEFINE T == {created[t] : t \in S}
    <3>1. T \in SUBSET Nat /\ T # {} /\ \A x \in T : x <= b
      BY <2>2
    <3>2. PICK m \in T : \A x \in T : x <= m
      BY <3>1, GreatestExists
    <3>3. PICK t \in S : created[t] = m
      BY <3>2
    <3>4. S = Older(S, t, created) \cup {t}
      <4>1. ASSUME NEW u \in S PROVE u = t \/ created[u] < created[t]
        <5>1. created[u] <= created[t] /\ created[u] \in Nat /\ created[t] \in Nat
          BY <3>2, <3>3
        <5> QED
          BY <5>1
      <4> QED
        BY <4>1 DEF Older
    <3>5. Cardinality(workers \cup Older(S, t, created)) < MaxConcurrent
      BY <1>1, <3>3 DEF Fits
    <3>6. IsFiniteSet(workers \cup Older(S, t, created))
      BY FS_Subset, workers \cup Older(S, t, created) \in SUBSET Task DEF Older
    <3>7. active' = (workers \cup Older(S, t, created)) \cup {t}
      BY <1>1, <3>4
    <3>8. Cardinality(workers \cup Older(S, t, created)) \in Nat
      BY <3>6, FS_CardinalityType
    <3> DEFINE W == workers \cup Older(S, t, created)
    <3>9. Cardinality(active') \in {Cardinality(W), Cardinality(W) + 1}
      <4> HIDE DEF W
      <4>1. Cardinality(W \cup {t}) = IF t \in W THEN Cardinality(W) ELSE Cardinality(W) + 1
        BY <3>6, FS_AddElement DEF W
      <4> QED
        BY <3>7, <4>1 DEF W
    <3> HIDE DEF W
    <3>10. Cardinality(W) < MaxConcurrent /\ Cardinality(W) \in Nat
      BY <3>5, <3>8 DEF W
    <3> QED
      BY <3>9, <3>10
  <2> QED
    BY <2>1, <2>2
<1> QED
  BY <1>2, <1>3, SameCardinality DEF Lease, Board!LeaseHolds

-----------------------------------------------------------------------------
(* What a step of a worker may do to its task *)

(* Only the worker of t reads.                                              *)
Reads(t) ==
  /\ lastInboxSeq' \in [Task -> Nat]
  /\ \A u \in Task \ {t} : lastInboxSeq'[u] = lastInboxSeq[u]

Moved(t) ==
  \E p \in (TurnPcs \ {"waiting"}) \cup {"closing"} :
    /\ pc' = [pc EXCEPT ![t] = p]
    /\ MustStop(t) => p = "closing"
    /\ status' = status \/ status' = [status EXCEPT ![t] = "needs_input"]
    /\ messages' = messages \/ messages' = Appended(t, Worker)
    /\ p \in {"completing", "tool", "told", "asked"}
         => messages' = messages \/ Len(messages[t]) < MaxMessages[t]
    /\ turn' \in [Task -> 0..MaxTurns]
    /\ Reads(t)
    /\ outcome' \in [Task -> {"none", "result", "error"}]

LEMMA EndMoves ==
  ASSUME TypeOK, NEW t \in Task, NEW how \in {"result", "error"}, End(t, how)
  PROVE  Moved(t)
BY DEF End, At, Moved, Reads, TypeOK

LEMMA PublishMoves ==
  ASSUME TypeOK, NEW t \in Task, ~MustStop(t),
         NEW place \in {"told", "asked", "toldResult", "toldFinal"},
         place \in {"told", "asked"} => Len(messages[t]) < MaxMessages[t],
         Publish(t, place), Reads(t)
  PROVE  Moved(t)
<1>1. turn' \in [Task -> 0..MaxTurns] /\ outcome' \in [Task -> {"none", "result", "error"}]
  BY DEF Publish, Updated, TypeOK
<1> QED
  BY <1>1 DEF Publish, Updated, At, Moved

LEMMA NextTurnMoves ==
  ASSUME TypeOK, NEW t \in Task, NEW seq \in Nat, NextTurn(t, seq)
  PROVE  Moved(t)
<1>1. CASE MustStop(t) /\ End(t, "error")
  BY <1>1, EndMoves
<1>2. CASE /\ ~MustStop(t) /\ turn[t] < MaxTurns
           /\ turn' = [turn EXCEPT ![t] = @ + 1]
           /\ Read(t, ReadUpTo(t, seq))
           /\ At(t, "completing")
           /\ UNCHANGED <<status, messages, outcome>>
  <2>1. Reads(t)
    BY <1>2, ReadUpToType DEF Read, Reads, TypeOK
  <2>2. turn' \in [Task -> 0..MaxTurns]
    BY <1>2 DEF TypeOK
  <2>3. outcome' \in [Task -> {"none", "result", "error"}]
    BY <1>2 DEF TypeOK
  <2> QED
    BY <1>2, <2>1, <2>2, <2>3 DEF At, Moved
<1>3. CASE ~MustStop(t) /\ Publish(t, "toldFinal") /\ Read(t, seq)
  <2>1. Reads(t)
    BY <1>3 DEF Read, Reads, TypeOK
  <2> QED
    BY <1>3, <2>1, PublishMoves
<1> QED
  BY <1>1, <1>2, <1>3 DEF NextTurn

LEMMA NextCallMoves ==
  ASSUME TypeOK, NEW t \in Task, NEW seq \in Nat, NextCall(t, seq)
  PROVE  Moved(t)
<1>1. CASE NextTurn(t, seq)
  BY <1>1, NextTurnMoves
<1>2. CASE /\ ~MustStop(t) /\ At(t, "tool") /\ Read(t, seq)
           /\ UNCHANGED <<status, messages, turn, outcome>>
  <2>1. /\ Reads(t) /\ turn' \in [Task -> 0..MaxTurns]
        /\ outcome' \in [Task -> {"none", "result", "error"}]
    BY <1>2 DEF Read, Reads, TypeOK
  <2> QED
    BY <1>2, <2>1 DEF At, Moved
<1>3. ASSUME ~MustStop(t), Read(t, seq), NEW place \in {"told", "asked", "toldResult"},
             place # "toldResult" => Len(messages[t]) < MaxMessages[t],
             Publish(t, place)
      PROVE  Moved(t)
  <2>1. Reads(t)
    BY <1>3 DEF Read, Reads, TypeOK
  <2> QED
    BY <1>3, <2>1, PublishMoves
<1> QED
  BY <1>1, <1>2, <1>3 DEF NextCall

LEMMA AnsweredMoves ==
  ASSUME TypeOK, NEW t \in Task, Answered(t)
  PROVE  Moved(t)
<1>1. lastInboxSeq[t] \in Nat
  BY DEF TypeOK
<1> QED
  BY <1>1, ReadUpToType, NextCallMoves DEF Answered

(* Every worker step up to the end of the worker function moves the worker, *)
(* or registers a waiter that has nothing to read.                          *)
Paused(t) ==
  /\ pc[t] = "asked" /\ ~MustStop(t) /\ ~HasInput(t, lastInboxSeq[t])
  /\ waiters' = waiters \cup {t}
  /\ pc' = [pc EXCEPT ![t] = "waiting"]
  /\ UNCHANGED <<status, messages, turn, lastInboxSeq, outcome>>

Turns(t) ==
  \/ WorkerStarts(t) \/ CompletionReturns(t) \/ ToolReturns(t) \/ ResultTold(t)
  \/ QuestionTold(t) \/ WaitReturns(t)

LEMMA TurnsMove ==
  ASSUME TypeOK, Workers, NEW t \in Task, Turns(t)
  PROVE  /\ pc[t] \in TurnPcs \cup {"starting"} /\ t \notin waiters
         /\ WorkerUnchanged
         /\ \/ Moved(t) /\ waiters' = waiters
            \/ Paused(t)
<1>0. lastInboxSeq[t] \in Nat /\ (t \in waiters => pc[t] = "waiting")
  BY DEF TypeOK, Workers, Agrees
<1>1. CASE WorkerStarts(t)
  BY <1>0, <1>1, NextTurnMoves DEF WorkerStarts
<1>2. CASE CompletionReturns(t)
  <2>1. CASE End(t, "error")
    BY <1>0, <1>2, <2>1, EndMoves DEF CompletionReturns
  <2>2. CASE NextCall(t, lastInboxSeq[t])
    BY <1>0, <1>2, <2>2, NextCallMoves DEF CompletionReturns
  <2>3. CASE ~MustStop(t) /\ Publish(t, "toldFinal") /\ UNCHANGED lastInboxSeq
    <3>1. Reads(t)
      BY <2>3 DEF Reads, TypeOK
    <3> QED
      BY <1>0, <1>2, <2>3, <3>1, PublishMoves DEF CompletionReturns
  <2> QED
    BY <1>2, <2>1, <2>2, <2>3 DEF CompletionReturns
<1>3. CASE ToolReturns(t)
  BY <1>0, <1>3, NextCallMoves DEF ToolReturns
<1>4. CASE ResultTold(t)
  <2>1. Moved(t)
    BY <1>4, EndMoves DEF ResultTold
  <2> QED
    BY <1>0, <1>4, <2>1 DEF ResultTold
<1>5. CASE QuestionTold(t)
  <2>1. CASE End(t, "error") /\ UNCHANGED waiters
    BY <1>0, <1>5, <2>1, EndMoves DEF QuestionTold
  <2>2. CASE Answered(t) /\ UNCHANGED waiters
    BY <1>0, <1>5, <2>2, AnsweredMoves DEF QuestionTold
  <2>3. CASE /\ ~MustStop(t) /\ ~HasInput(t, lastInboxSeq[t])
             /\ waiters' = waiters \cup {t} /\ At(t, "waiting")
             /\ UNCHANGED <<status, messages, turn, lastInboxSeq, outcome>>
    BY <1>0, <1>5, <2>3 DEF QuestionTold, Paused, At
  <2> QED
    BY <1>5, <2>1, <2>2, <2>3 DEF QuestionTold, WaitForInput
<1>6. CASE WaitReturns(t)
  BY <1>0, <1>6, AnsweredMoves DEF WaitReturns
<1> QED
  BY <1>1, <1>2, <1>3, <1>4, <1>5, <1>6 DEF Turns

-----------------------------------------------------------------------------
(* Every step keeps the inductive invariant *)

LEMMA QueueKept ==
  ASSUME Queue, born' = born,
         \A t \in Task : status'[t] = "none" <=> status[t] = "none"
  PROVE  Queue'
<1>1. Spawned' = Spawned
  BY DEF Spawned
<1> QED
  BY <1>1 DEF Queue

LEMMA AppendedType ==
  ASSUME TypeOK, NEW t \in Task, NEW sender \in {Collaborator, Worker, System}
  PROVE  Appended(t, sender) \in [Task -> Seq({Collaborator, Worker, System})]
BY DEF TypeOK, Appended

LEMMA MovedKeepsInvariant ==
  ASSUME IInv, NEW t \in Task, pc[t] \in TurnPcs \cup {"starting"}, t \notin waiters,
         Moved(t), waiters' = waiters, WorkerUnchanged
  PROVE  IInv'
<1> USE DEF WorkerUnchanged
<1>1. PICK p \in (TurnPcs \ {"waiting"}) \cup {"closing"} :
        /\ pc' = [pc EXCEPT ![t] = p]
        /\ status' = status \/ status' = [status EXCEPT ![t] = "needs_input"]
        /\ messages' = messages \/ messages' = Appended(t, Worker)
        /\ turn' \in [Task -> 0..MaxTurns]
        /\ lastInboxSeq' \in [Task -> Nat]
        /\ outcome' \in [Task -> {"none", "result", "error"}]
  BY DEF Moved, Reads
<1>2. t \in active /\ status[t] \in Working
  BY DEF IInv, Workers, Agrees
<1>3. TypeOK'
  <2>1. messages' \in [Task -> Seq({Collaborator, Worker, System})]
    BY <1>1, AppendedType DEF IInv, TypeOK
  <2>2. pc' \in [Task -> Pcs]
    BY <1>1 DEF IInv, TypeOK
  <2>3. status' \in [Task -> Statuses]
    BY <1>1 DEF IInv, TypeOK
  <2> QED
    BY <1>1, <2>1, <2>2, <2>3 DEF IInv, TypeOK
<1>4. Queue'
  BY <1>1, <1>2, QueueKept DEF IInv, TypeOK
<1>5. Lease'
  BY DEF IInv, Lease
<1>6. Workers'
  BY <1>1, <1>2 DEF IInv, TypeOK, Workers, Agrees
<1> QED
  BY <1>3, <1>4, <1>5, <1>6 DEF IInv

LEMMA TurnsKeepInvariant ==
  ASSUME IInv, NEW t \in Task, Turns(t)
  PROVE  IInv'
<1>1. /\ pc[t] \in TurnPcs \cup {"starting"} /\ t \notin waiters /\ WorkerUnchanged
      /\ (Moved(t) /\ waiters' = waiters) \/ Paused(t)
  BY TurnsMove DEF IInv
<1>2. CASE Paused(t)
  <2>1. t \in active
    BY <1>1 DEF IInv, Workers, Agrees
  <2>2. TypeOK'
    BY <1>1, <1>2, <2>1 DEF IInv, TypeOK, Paused, WorkerUnchanged
  <2>3. Queue'
    BY <1>1, <1>2, QueueKept DEF IInv, Paused, WorkerUnchanged
  <2>4. Lease'
    BY <1>1 DEF IInv, Lease, WorkerUnchanged
  <2>5. Workers'
    BY <1>1, <1>2, <2>1 DEF IInv, TypeOK, Workers, Agrees, Paused, WorkerUnchanged
  <2> QED
    BY <2>2, <2>3, <2>4, <2>5 DEF IInv
<1> QED
  BY <1>1, <1>2, MovedKeepsInvariant

LEMMA DeadlineKeepsInvariant ==
  ASSUME IInv, NEW t \in Task, DeadlinePasses(t)
  PROVE  IInv'
<1>1. TypeOK'
  BY DEF IInv, TypeOK, DeadlinePasses
<1>2. Queue'
  BY QueueKept DEF IInv, DeadlinePasses
<1>3. Lease'
  BY DEF IInv, Lease, DeadlinePasses
<1>4. Workers'
  BY DEF IInv, TypeOK, Workers, Agrees, DeadlinePasses
<1> QED
  BY <1>1, <1>2, <1>3, <1>4 DEF IInv

LEMMA SettleKeepsInvariant ==
  ASSUME IInv, NEW t \in Task, Settle(t)
  PROVE  IInv'
<1> USE DEF Settle, Updated, At, WorkerUnchanged
<1>1. t \in active /\ status[t] \in Working
  BY DEF IInv, Workers, Agrees
<1>2. TypeOK'
  <2>1. messages' \in [Task -> Seq({Collaborator, Worker, System})]
    BY AppendedType DEF IInv, TypeOK
  <2> QED
    BY <2>1 DEF IInv, TypeOK
<1>3. Queue'
  BY <1>1, QueueKept DEF IInv, TypeOK
<1>4. Lease'
  BY DEF IInv, Lease
<1>5. Workers'
  BY <1>1 DEF IInv, TypeOK, Workers, Agrees
<1> QED
  BY <1>2, <1>3, <1>4, <1>5 DEF IInv

(* Fewer workers need no more of the lease.                                 *)
LEMMA LeaseShrinks ==
  ASSUME Lease, TypeOK, NEW workers \in SUBSET active
  PROVE  Board!LeaseHolds(workers)
<1>1. IsFiniteSet(active)
  BY FS_Subset DEF TypeOK
<1>2. Cardinality(workers) <= Cardinality(active) /\ IsFiniteSet(workers)
  BY <1>1, FS_Subset
<1>3. Cardinality(workers) \in Nat /\ Cardinality(active) \in Nat
  BY <1>1, <1>2, FS_CardinalityType
<1>4. Cardinality(active) <= MaxConcurrent
  BY SameCardinality DEF Lease, Board!LeaseHolds
<1>5. Cardinality(workers) <= MaxConcurrent
  BY <1>2, <1>3, <1>4
<1> QED
  BY <1>5, SameCardinality DEF Lease, Board!LeaseHolds

LEMMA FinishKeepsInvariant ==
  ASSUME IInv, NEW t \in Task, Finish(t)
  PROVE  IInv'
<1> DEFINE on == initialized /\ ~stopping
           at == [pc EXCEPT ![t] = "off"]
<1>1. /\ on \in BOOLEAN /\ status \in [Task -> Statuses] /\ born \in [Task -> Nat]
      /\ active \ {t} \in SUBSET Task /\ at \in [Task -> Pcs]
      /\ Pump(on, status, born, active \ {t}, at)
  BY DEF IInv, TypeOK, Finish
<1>2. PICK S \in SUBSET {u \in Task : status[u] = "queued"} :
        /\ active' = (active \ {t}) \cup S
        /\ pc' = [u \in Task |-> IF u \in S THEN "starting" ELSE at[u]]
        /\ status' \in [Task -> Statuses]
        /\ \A u \in S : status'[u] = "running"
        /\ \A u \in Task \ S : status'[u] = status[u] \/ (status[u] = "queued" /\ status'[u] = "failed")
  <2>1. Pumped(status, active \ {t}, at)
    <3> HIDE DEF on, at
    <3> QED
      BY <1>1, PumpEffect
  <2> HIDE DEF at
  <2> QED
    BY <2>1 DEF Pumped
<1>3. t \in active /\ status[t] \in Ended /\ S \cap active = {}
  BY DEF IInv, Workers, Agrees, Finish
<1>4. TypeOK'
  <2>1. pc' \in [Task -> Pcs]
    BY <1>1, <1>2
  <2>2. waiters' \subseteq active' /\ active' \subseteq Task
    BY <1>2 DEF IInv, TypeOK, Finish
  <2>3. /\ turn' \in [Task -> 0..MaxTurns] /\ lastInboxSeq' \in [Task -> Nat]
        /\ expired' \in [Task -> BOOLEAN] /\ outcome' \in [Task -> {"none", "result", "error"}]
    BY DEF IInv, TypeOK, Finish, Forgotten
  <2>4. UNCHANGED <<born, cancelRequested, messages, initialized, stopping, restarts>>
    BY DEF Finish
  <2> QED
    BY <1>2, <2>1, <2>2, <2>3, <2>4 DEF IInv, TypeOK
<1>5. Queue'
  BY <1>2, QueueKept DEF IInv, TypeOK, Finish
<1>6. Lease'
  <2>1. Board!LeaseHolds(active \ {t})
    BY LeaseShrinks DEF IInv
  <2>2. IsFiniteSet(Spawned) /\ Cardinality(Spawned) \in Nat
    BY FS_Subset, FS_CardinalityType, Spawned \in SUBSET Task DEF Spawned
  <2>3. /\ \A u \in Task : status[u] = "queued" => born[u] <= Cardinality(Spawned)
        /\ \A u, v \in Task : status[u] = "queued" /\ status[v] = "queued" /\ born[u] = born[v] => u = v
    BY DEF IInv, Queue, Spawned
  <2> HIDE DEF on, at
  <2> QED
    BY <1>1, <2>1, <2>2, <2>3, PumpKeepsLease
<1>7. Workers'
  <2>1. initialized \/ active = {}
    BY DEF IInv, Workers
  <2>2. ASSUME NEW u \in Task PROVE Agrees(u)'
    <3>1. CASE u \in S
      BY <1>2, <1>3, <3>1 DEF IInv, TypeOK, Workers, Agrees, Finish, Forgotten
    <3>2. CASE u \notin S
      BY <1>2, <1>3, <3>2 DEF IInv, TypeOK, Workers, Agrees, Finish, Forgotten
    <3> QED
      BY <3>1, <3>2
  <2>3. ~initialized' => active' = {}
    BY <1>3, <2>1 DEF Finish
  <2> QED
    BY <2>2, <2>3 DEF Workers
<1> QED
  BY <1>4, <1>5, <1>6, <1>7 DEF IInv

LEMMA SpawnKeepsInvariant ==
  ASSUME IInv, NEW t \in Task, Spawn(t)
  PROVE  IInv'
<1> DEFINE on == ~stopping
           now == [status EXCEPT ![t] = "queued"]
           n == Cardinality(Spawned)
<1>1. /\ on \in BOOLEAN /\ now \in [Task -> Statuses] /\ active \in SUBSET Task /\ pc \in [Task -> Pcs]
      /\ Pump(on, now, born', active, pc)
  BY DEF IInv, TypeOK, Spawn, Created, Updated
<1>2. /\ IsFiniteSet(Spawned) /\ n \in Nat /\ Cardinality(Spawned \cup {t}) = n + 1
      /\ born' = [born EXCEPT ![t] = 1 + n]
  <2>1. IsFiniteSet(Spawned) /\ t \notin Spawned
    BY FS_Subset, Spawned \in SUBSET Task DEF Spawned, Spawn, Created, Updated
  <2>2. n \in Nat /\ Cardinality(Spawned \cup {t}) = n + 1
    BY <2>1, FS_CardinalityType, FS_AddElement
  <2> QED
    BY <2>1, <2>2 DEF Spawn, Created, Updated, Spawned
<1>3. born' \in [Task -> Nat]
  BY <1>2 DEF IInv, TypeOK
<1>4. /\ \A u \in Spawned \cup {t} : born'[u] <= n + 1
      /\ \A u, v \in Spawned \cup {t} : born'[u] = born'[v] => u = v
  <2>1. \A u \in Spawned : born'[u] = born[u] /\ born[u] \in Nat /\ born[u] <= n
    BY <1>2 DEF IInv, TypeOK, Queue, Spawned, Spawn, Created, Updated
  <2>2. born'[t] = n + 1
    BY <1>2 DEF IInv, TypeOK
  <2> HIDE DEF n
  <2> QED
    BY <1>2, <2>1, <2>2 DEF IInv, Queue
<1>5. PICK S \in SUBSET {u \in Task : now[u] = "queued"} :
        /\ active' = active \cup S
        /\ pc' = [u \in Task |-> IF u \in S THEN "starting" ELSE pc[u]]
        /\ status' \in [Task -> Statuses]
        /\ \A u \in S : status'[u] = "running"
        /\ \A u \in Task \ S : status'[u] = now[u] \/ (now[u] = "queued" /\ status'[u] = "failed")
  <2>1. Pumped(now, active, pc)
    <3> HIDE DEF now, on
    <3> QED
      BY <1>1, <1>3, PumpEffect
  <2> HIDE DEF now
  <2> QED
    BY <2>1 DEF Pumped
<1>6. \A u \in Task : now[u] = "queued" => u \in Spawned \cup {t}
  BY DEF IInv, TypeOK, Spawned
<1>7. t \notin active /\ S \cap active = {} /\ pc[t] = "off" /\ initialized
  BY DEF IInv, TypeOK, Workers, Agrees, Spawn, Created, Updated
<1>8. TypeOK'
  <2>1. pc' \in [Task -> Pcs]
    BY <1>1, <1>5
  <2>2. waiters' \subseteq active' /\ active' \subseteq Task
    BY <1>5 DEF IInv, TypeOK, Spawn, Created, Updated
  <2>3. messages' \in [Task -> Seq({Collaborator, Worker, System})]
    BY AppendedType DEF IInv, Spawn, Created, Updated
  <2>4. UNCHANGED <<cancelRequested, Others>>
    BY DEF Spawn, Created, Updated
  <2> QED
    BY <1>3, <1>5, <2>1, <2>2, <2>3, <2>4 DEF IInv, TypeOK, Others
<1>9. Queue'
  <2>1. Spawned' = Spawned \cup {t}
    <3>1. ASSUME NEW u \in Task PROVE status'[u] # "none" <=> status[u] # "none" \/ u = t
      <4>1. now[u] = IF u = t THEN "queued" ELSE status[u]
        BY DEF IInv, TypeOK
      <4>2. status'[u] = now[u] \/ (now[u] = "queued" /\ status'[u] \in {"running", "failed"})
        BY <1>5
      <4> QED
        BY <4>1, <4>2
    <3> QED
      BY <3>1 DEF Spawned
  <2> HIDE DEF n
  <2> QED
    BY <1>2, <1>4, <2>1 DEF Queue
<1>10. Lease'
  <2> DEFINE b == n + 1
  <2>1. /\ b \in Nat
        /\ \A u \in Task : now[u] = "queued" => born'[u] <= b
        /\ \A u, v \in Task : now[u] = "queued" /\ now[v] = "queued" /\ born'[u] = born'[v] => u = v
    BY <1>2, <1>4, <1>6
  <2> HIDE DEF b, now, on
  <2> QED
    BY <1>1, <1>3, <2>1, PumpKeepsLease DEF IInv, Lease
<1>11. Workers'
  <2>1. ASSUME NEW u \in Task PROVE Agrees(u)'
    <3>1. CASE u \in S
      BY <1>5, <1>7, <3>1 DEF IInv, TypeOK, Workers, Agrees, Spawn, Created, Updated, Others
    <3>2. CASE u \notin S
      BY <1>5, <1>7, <3>2 DEF IInv, TypeOK, Workers, Agrees, Spawn, Created, Updated, Others
    <3> QED
      BY <3>1, <3>2
  <2> QED
    BY <1>7, <2>1 DEF Workers, Spawn, Created, Updated, Others
<1> QED
  BY <1>8, <1>9, <1>10, <1>11 DEF IInv

LEMMA SpeakKeepsInvariant ==
  ASSUME IInv, NEW t \in Task, status[t] # "none", Speak(t),
         UNCHANGED <<born, cancelRequested, active, pc, Others>>
  PROVE  IInv'
<1> USE DEF Speak, Others
<1>1. TypeOK'
  <2>1. messages' \in [Task -> Seq({Collaborator, Worker, System})]
    BY AppendedType DEF IInv
  <2> QED
    BY <2>1 DEF IInv, TypeOK
<1>2. Queue'
  BY QueueKept DEF IInv, TypeOK
<1>3. Lease'
  BY DEF IInv, Lease
<1>4. Workers'
  BY DEF IInv, TypeOK, Workers, Agrees
<1> QED
  BY <1>1, <1>2, <1>3, <1>4 DEF IInv

LEMMA CancelKeepsInvariant ==
  ASSUME IInv, NEW t \in Task, Cancel(t)
  PROVE  IInv'
<1> USE DEF Cancel, Updated, Others
<1>1. TypeOK'
  <2>1. messages' \in [Task -> Seq({Collaborator, Worker, System})]
    BY AppendedType DEF IInv
  <2> QED
    BY <2>1 DEF IInv, TypeOK
<1>2. Queue'
  BY QueueKept DEF IInv, TypeOK
<1>3. Lease'
  BY DEF IInv, Lease
<1>4. Workers'
  BY DEF IInv, TypeOK, Workers, Agrees
<1> QED
  BY <1>1, <1>2, <1>3, <1>4 DEF IInv

LEMMA InitDelegationKeepsInvariant ==
  ASSUME IInv, InitDelegation
  PROVE  IInv'
<1> DEFINE on == ~stopping
           now == [u \in Task |-> IF status[u] \in Interruptible THEN "interrupted" ELSE status[u]]
<1>1. /\ on \in BOOLEAN /\ now \in [Task -> Statuses] /\ born \in [Task -> Nat]
      /\ active \in SUBSET Task /\ pc \in [Task -> Pcs]
      /\ Pump(on, now, born, active, pc)
  BY DEF IInv, TypeOK, InitDelegation
<1>2. PICK S \in SUBSET {u \in Task : now[u] = "queued"} :
        /\ active' = active \cup S
        /\ pc' = [u \in Task |-> IF u \in S THEN "starting" ELSE pc[u]]
        /\ status' \in [Task -> Statuses]
        /\ \A u \in S : status'[u] = "running"
        /\ \A u \in Task \ S : status'[u] = now[u] \/ (now[u] = "queued" /\ status'[u] = "failed")
  <2>1. Pumped(now, active, pc)
    <3> HIDE DEF now, on
    <3> QED
      BY <1>1, PumpEffect
  <2> HIDE DEF now
  <2> QED
    BY <2>1 DEF Pumped
<1>3. active = {}
  BY DEF IInv, Workers, InitDelegation
<1>4. TypeOK'
  <2>1. pc' \in [Task -> Pcs]
    BY <1>1, <1>2
  <2>2. waiters' \subseteq active' /\ active' \subseteq Task
    BY <1>2 DEF IInv, TypeOK, InitDelegation
  <2>3. UNCHANGED <<born, cancelRequested, messages, stopping, turn, lastInboxSeq, expired, outcome, restarts>>
        /\ initialized' \in BOOLEAN
    BY DEF InitDelegation
  <2> QED
    BY <1>2, <2>1, <2>2, <2>3 DEF IInv, TypeOK
<1>5. Queue'
  <2>1. \A u \in Task : status'[u] = "none" <=> status[u] = "none"
    BY <1>2 DEF IInv, TypeOK, Interruptible
  <2> QED
    BY <2>1, QueueKept DEF IInv, InitDelegation
<1>6. Lease'
  <2>1. IsFiniteSet(Spawned) /\ Cardinality(Spawned) \in Nat
    BY FS_Subset, FS_CardinalityType, Spawned \in SUBSET Task DEF Spawned
  <2>2. \A u \in Task : now[u] = "queued" => u \in Spawned
    BY DEF Spawned
  <2>3. /\ \A u \in Task : now[u] = "queued" => born[u] <= Cardinality(Spawned)
        /\ \A u, v \in Task : now[u] = "queued" /\ now[v] = "queued" /\ born[u] = born[v] => u = v
    BY <2>2 DEF IInv, Queue
  <2> HIDE DEF now, on
  <2> QED
    BY <1>1, <2>1, <2>3, PumpKeepsLease DEF IInv, Lease
<1>7. Workers'
  <2>1. ASSUME NEW u \in Task PROVE Agrees(u)'
    <3>1. CASE u \in S
      BY <1>2, <1>3, <3>1 DEF IInv, TypeOK, Workers, Agrees, InitDelegation, Interruptible
    <3>2. CASE u \notin S
      BY <1>2, <1>3, <3>2 DEF IInv, TypeOK, Workers, Agrees, InitDelegation, Interruptible
    <3> QED
      BY <3>1, <3>2
  <2> QED
    BY <2>1 DEF Workers, InitDelegation
<1> QED
  BY <1>4, <1>5, <1>6, <1>7 DEF IInv

LEMMA StopKeepsInvariant ==
  ASSUME IInv, StopDelegation
  PROVE  IInv'
<1> USE DEF StopDelegation
<1>1. TypeOK'
  BY DEF IInv, TypeOK
<1>2. Queue'
  BY QueueKept DEF IInv
<1>3. Lease'
  BY DEF IInv, Lease
<1>4. Workers'
  BY DEF IInv, TypeOK, Workers, Agrees
<1> QED
  BY <1>1, <1>2, <1>3, <1>4 DEF IInv

LEMMA RestartKeepsInvariant ==
  ASSUME IInv, Restart
  PROVE  IInv'
<1> USE DEF Restart
<1>1. TypeOK'
  <2>1. /\ pc' \in [Task -> Pcs] /\ turn' \in [Task -> 0..MaxTurns] /\ lastInboxSeq' \in [Task -> Nat]
        /\ expired' \in [Task -> BOOLEAN] /\ outcome' \in [Task -> {"none", "result", "error"}]
    OBVIOUS
  <2>2. restarts' \in 0..MaxRestarts
    BY DEF IInv, TypeOK
  <2>3. status' = status /\ born' = born /\ cancelRequested' = cancelRequested /\ messages' = messages
    OBVIOUS
  <2>4. initialized' = FALSE /\ stopping' = FALSE /\ active' = {} /\ waiters' = {}
    OBVIOUS
  <2> HIDE DEF Restart
  <2> QED
    BY <2>1, <2>2, <2>3, <2>4 DEF IInv, TypeOK
<1>2. Queue'
  BY QueueKept DEF IInv
<1>3. Lease'
  <2>1. Board!LeaseHolds({})
    BY LeaseShrinks DEF IInv
  <2> QED
    BY <2>1 DEF Lease, Board!LeaseHolds
<1>4. Workers'
  BY DEF IInv, TypeOK, Workers, Agrees
<1> QED
  BY <1>1, <1>2, <1>3, <1>4 DEF IInv

LEMMA InitImpliesInvariant == Init => IInv
<1> SUFFICES ASSUME Init PROVE IInv
  OBVIOUS
<1>1. TypeOK
  <2>1. messages \in [Task -> Seq({Collaborator, Worker, System})]
    <3>1. <<>> \in Seq({Collaborator, Worker, System})
      OBVIOUS
    <3> QED
      BY <3>1 DEF Init
  <2>2. /\ status \in [Task -> Statuses] /\ born \in [Task -> Nat] /\ cancelRequested \in [Task -> BOOLEAN]
        /\ pc \in [Task -> Pcs] /\ turn \in [Task -> 0..MaxTurns] /\ lastInboxSeq \in [Task -> Nat]
        /\ expired \in [Task -> BOOLEAN] /\ outcome \in [Task -> {"none", "result", "error"}]
    BY DEF Init
  <2>3. restarts \in 0..MaxRestarts
    BY DEF Init
  <2> QED
    BY <2>1, <2>2, <2>3 DEF Init, TypeOK
<1>2. Queue
  BY DEF Init, Queue, Spawned
<1>3. Lease
  BY FS_EmptySet, SameCardinality DEF Init, Lease, Board!LeaseHolds
<1>4. Workers
  BY DEF Init, Workers, Agrees
<1> QED
  BY <1>1, <1>2, <1>3, <1>4 DEF IInv

LEMMA NextKeepsInvariant == IInv /\ [Next]_vars => IInv'
<1> SUFFICES ASSUME IInv, [Next]_vars PROVE IInv'
  OBVIOUS
<1>1. ASSUME NEW t \in Task, WorkerStep(t) PROVE IInv'
  BY <1>1, TurnsKeepInvariant, SettleKeepsInvariant, FinishKeepsInvariant DEF WorkerStep, Turns
<1>2. ASSUME NEW t \in Task, DeadlinePasses(t) PROVE IInv'
  BY <1>2, DeadlineKeepsInvariant
<1>3. ASSUME NEW t \in Task, Spawn(t) PROVE IInv'
  BY <1>3, SpawnKeepsInvariant
<1>4. ASSUME NEW t \in Task, Instruct(t) PROVE IInv'
  BY <1>4, SpeakKeepsInvariant DEF Instruct
<1>5. ASSUME NEW t \in Task, FollowUp(t) PROVE IInv'
  BY <1>5, SpeakKeepsInvariant DEF FollowUp
<1>6. ASSUME NEW t \in Task, Cancel(t) PROVE IInv'
  BY <1>6, CancelKeepsInvariant
<1>7. CASE InitDelegation
  BY <1>7, InitDelegationKeepsInvariant
<1>8. CASE StopDelegation
  BY <1>8, StopKeepsInvariant
<1>9. CASE Restart
  BY <1>9, RestartKeepsInvariant
<1>10. CASE UNCHANGED vars
  BY <1>10 DEF vars, IInv, TypeOK, Queue, Spawned, Lease, Workers, Agrees, Board!LeaseHolds
<1> QED
  BY <1>1, <1>2, <1>3, <1>4, <1>5, <1>6, <1>7, <1>8, <1>9, <1>10 DEF Next

(* The invariant all theorems below rest on: the status column,             *)
(* activeTasks and the workers agree, and the lease is kept.                *)
THEOREM InductiveInvariant == Spec => []IInv
<1>1. Init => IInv
  BY InitImpliesInvariant
<1>2. IInv /\ [Next]_vars => IInv'
  BY NextKeepsInvariant
<1> QED
  BY <1>1, <1>2, PTL DEF Spec

(* Every variable keeps its type; a waiter in inputWaiters belongs to a     *)
(* task in activeTasks.                                                     *)
THEOREM TypeCorrect == Spec => []TypeOK
BY InductiveInvariant, PTL DEF IInv

(* A task is running or needs_input exactly while a worker is at work on    *)
(* it, through questions, answers, cancellations, deadlines, shutdowns and  *)
(* restarts: interruptActiveDelegatedTasks leaves none over, and neither    *)
(* the end of a worker nor a late answer makes one.                         *)
THEOREM NoPhantom == Spec => []NothingPhantom
<1>1. IInv => NothingPhantom
  BY DEF IInv, Workers, Agrees, NothingPhantom
<1> QED
  BY <1>1, InductiveInvariant, PTL

-----------------------------------------------------------------------------
(* A worker that must stop only stops *)

StopsOnly(t) ==
  (cancelRequested[t] \/ expired[t]) /\ pc'[t] # pc[t] => pc'[t] \in {"closing", "reporting", "off"}

LEMMA StepStopsOnly ==
  ASSUME IInv, [Next]_vars, NEW u \in Task
  PROVE  StopsOnly(u)
<1> USE DEF StopsOnly
<1>0. pc[u] = "off" /\ status[u] \in {"none", "queued"} => ~cancelRequested[u] /\ ~expired[u]
  BY DEF IInv, Workers, Agrees
<1>1. ASSUME NEW t \in Task, Turns(t) PROVE StopsOnly(u)
  <2>1. WorkerUnchanged /\ (Moved(t) \/ Paused(t))
    BY <1>1, TurnsMove DEF IInv
  <2>2. CASE Moved(t)
    BY <2>2 DEF Moved, MustStop, IInv, TypeOK
  <2>3. CASE Paused(t)
    BY <2>3 DEF Paused, MustStop, IInv, TypeOK
  <2> QED
    BY <2>1, <2>2, <2>3
<1>2. ASSUME NEW t \in Task, Settle(t) PROVE StopsOnly(u)
  BY <1>2 DEF Settle, Updated, At, IInv, TypeOK
<1>3. ASSUME NEW t \in Task, Finish(t) PROVE StopsOnly(u)
  <2>1. Pumped(status, active \ {t}, [pc EXCEPT ![t] = "off"])
    BY <1>3, PumpEffect DEF Finish, IInv, TypeOK
  <2>2. status[u] = "queued" => pc[u] = "off"
    BY DEF IInv, Workers, Agrees
  <2> QED
    BY <1>0, <2>1, <2>2 DEF Pumped, IInv, TypeOK
<1>4. ASSUME NEW t \in Task, Spawn(t) PROVE StopsOnly(u)
  <2>1. born' \in [Task -> Nat]
    <3>1. Cardinality(Spawned) \in Nat
      BY FS_Subset, FS_CardinalityType, Spawned \in SUBSET Task DEF Spawned
    <3> QED
      BY <1>4, <3>1 DEF Spawn, Created, Updated, Spawned, IInv, TypeOK
  <2>2. Pumped([status EXCEPT ![t] = "queued"], active, pc)
    BY <1>4, <2>1, PumpEffect DEF Spawn, Created, Updated, IInv, TypeOK
  <2>3. status[u] = "queued" \/ u = t => pc[u] = "off" /\ status[u] \in {"none", "queued"}
    BY <1>4 DEF Spawn, Created, Updated, IInv, Workers, Agrees
  <2> QED
    BY <1>0, <2>2, <2>3 DEF Pumped, IInv, TypeOK
<1>5. CASE InitDelegation
  <2> DEFINE now == [x \in Task |-> IF status[x] \in Interruptible THEN "interrupted" ELSE status[x]]
  <2>1. Pumped(now, active, pc)
    BY <1>5, PumpEffect DEF InitDelegation, IInv, TypeOK
  <2>2. now[u] = "queued" => pc[u] = "off" /\ status[u] = "queued"
    BY DEF IInv, Workers, Agrees
  <2> HIDE DEF now
  <2>3. now[u] = "queued" \/ pc'[u] = pc[u]
    BY <2>1 DEF Pumped, IInv, TypeOK
  <2> QED
    BY <1>0, <2>2, <2>3
<1>6. CASE Restart
  BY <1>6 DEF Restart
<1>7. CASE UNCHANGED pc
  BY <1>7
<1> QED
  BY <1>1, <1>2, <1>3, <1>4, <1>5, <1>6, <1>7
  DEF Next, WorkerStep, Turns, DeadlinePasses, Instruct, FollowUp, Cancel, Updated, StopDelegation, vars

(* Once a task is cancelled or out of time, its worker begins no turn, asks *)
(* nothing and calls no tool (remainingTaskMs between all of its awaits).   *)
THEOREM StopsWhenCancelled == Spec => NoWorkAfterCancel
<1>1. IInv /\ [Next]_vars => [\A t \in Task : (cancelRequested[t] \/ expired[t]) /\ pc'[t] # pc[t]
                                    => pc'[t] \in {"closing", "reporting", "off"}]_vars
  BY StepStopsOnly DEF StopsOnly
<1> QED
  BY <1>1, InductiveInvariant, PTL DEF Spec, NoWorkAfterCancel

-----------------------------------------------------------------------------
(* A worker that is paused has read every answer of its page *)

(* A worker is paused with nothing to read and nothing to stop it.          *)
Letters(t) == t \in waiters => ~MustStop(t) /\ ~HasInput(t, lastInboxSeq[t])

Mail == \A t \in Task : Letters(t)

LEMMA LettersKept ==
  ASSUME NEW u \in Task, Letters(u),
         u \in waiters' => /\ u \in waiters /\ messages'[u] = messages[u]
                           /\ lastInboxSeq'[u] = lastInboxSeq[u]
                           /\ cancelRequested'[u] = cancelRequested[u] /\ expired'[u] = expired[u]
  PROVE  Letters(u)'
BY DEF Letters, MustStop, HasInput, Inbox, Listed

LEMMA OthersMailKept ==
  ASSUME TypeOK, NEW t \in Task, NEW sender \in {Collaborator, Worker, System},
         NEW u \in Task \ {t}
  PROVE  Appended(t, sender)[u] = messages[u]
BY DEF Appended, TypeOK

LEMMA TurnsKeepMail ==
  ASSUME IInv, Mail, NEW t \in Task, Turns(t)
  PROVE  Mail'
<1>1. /\ t \notin waiters /\ WorkerUnchanged
      /\ (Moved(t) /\ waiters' = waiters) \/ Paused(t)
  BY TurnsMove DEF IInv
<1>2. ASSUME Moved(t), waiters' = waiters, NEW u \in Task PROVE Letters(u)'
  <2>1. /\ messages' = messages \/ messages' = Appended(t, Worker)
        /\ \A v \in Task \ {t} : lastInboxSeq'[v] = lastInboxSeq[v]
    BY <1>2 DEF Moved, Reads
  <2>2. CASE u # t
    <3>1. messages'[u] = messages[u]
      BY <2>1, <2>2, OthersMailKept DEF IInv
    <3> QED
      BY <1>1, <1>2, <2>1, <2>2, <3>1, LettersKept DEF Mail, WorkerUnchanged
  <2>3. CASE u = t
    BY <1>1, <1>2, <2>3 DEF Letters
  <2> QED
    BY <2>2, <2>3
<1>3. ASSUME Paused(t), NEW u \in Task PROVE Letters(u)'
  <2>1. CASE u # t
    BY <1>1, <1>3, <2>1, LettersKept DEF Mail, Paused, WorkerUnchanged
  <2>2. CASE u = t
    <3>1. ~HasInput(t, lastInboxSeq[t])' /\ ~MustStop(t)'
      BY <1>1, <1>3 DEF Paused, HasInput, Inbox, Listed, MustStop, WorkerUnchanged
    <3> QED
      BY <2>2, <3>1 DEF Letters
  <2> QED
    BY <2>1, <2>2
<1> QED
  BY <1>1, <1>2, <1>3 DEF Mail

(* One more message in the mailbox of a task whose worker is not paused.    *)
LEMMA LettersGrow ==
  ASSUME TypeOK, Mail, NEW t \in Task, NEW sender \in {Collaborator, Worker, System},
         messages' = Appended(t, sender), waiters' \subseteq waiters \ {t},
         UNCHANGED <<lastInboxSeq, expired>>,
         \A u \in Task \ {t} : cancelRequested'[u] = cancelRequested[u]
  PROVE  Mail'
<1>1. ASSUME NEW u \in Task \ {t} PROVE Letters(u)'
  BY <1>1, OthersMailKept, LettersKept DEF Mail
<1>2. Letters(t)'
  BY DEF Letters
<1> QED
  BY <1>1, <1>2 DEF Mail

LEMMA NextKeepsMail == IInv /\ Mail /\ [Next]_vars => Mail'
<1> SUFFICES ASSUME IInv, Mail, [Next]_vars PROVE Mail'
  OBVIOUS
<1>0. \A u \in Task : /\ Letters(u)
                      /\ u \in waiters => u \in active /\ pc[u] = "waiting" /\ status[u] \in Working
  BY DEF Mail, IInv, TypeOK, Workers, Agrees
<1>1. ASSUME NEW t \in Task, Turns(t) PROVE Mail'
  BY <1>1, TurnsKeepMail
<1>2. ASSUME NEW t \in Task, Settle(t) PROVE Mail'
  <2>1. t \notin waiters /\ UNCHANGED <<waiters, lastInboxSeq, expired, cancelRequested>>
    BY <1>0, <1>2 DEF Settle, WorkerUnchanged
  <2>2. CASE messages' = messages
    <3>1. ASSUME NEW u \in Task PROVE Letters(u)'
      BY <1>0, <2>1, <2>2, LettersKept
    <3> QED
      BY <3>1 DEF Mail
  <2>3. CASE messages' = Appended(t, System)
    BY <2>1, <2>3, LettersGrow DEF IInv
  <2> QED
    BY <1>2, <2>2, <2>3 DEF Settle
<1>3. ASSUME NEW t \in Task, Finish(t) PROVE Mail'
  <2>1. ASSUME NEW u \in Task PROVE Letters(u)'
    BY <1>0, <1>3, LettersKept DEF Finish, Forgotten, IInv, TypeOK
  <2> QED
    BY <2>1 DEF Mail
<1>4. ASSUME NEW t \in Task, Spawn(t) PROVE Mail'
  <2>1. /\ t \notin waiters /\ messages' = Appended(t, Collaborator)
        /\ UNCHANGED <<waiters, lastInboxSeq, expired, cancelRequested>>
    BY <1>0, <1>4 DEF Spawn, Created, Others
  <2> QED
    BY <2>1, LettersGrow DEF IInv
<1>5. ASSUME NEW t \in Task, Speak(t), UNCHANGED <<cancelRequested, Others>> PROVE Mail'
  <2>1. waiters' \subseteq waiters \ {t}
    BY <1>0, <1>5 DEF Speak
  <2> QED
    BY <1>5, <2>1, LettersGrow DEF Speak, Others, IInv
<1>6. ASSUME NEW t \in Task, Cancel(t) PROVE Mail'
  <2>1. \A u \in Task \ {t} : cancelRequested'[u] = cancelRequested[u]
    BY <1>6 DEF Cancel, IInv, TypeOK
  <2> QED
    BY <1>6, <2>1, LettersGrow DEF Cancel, Others, IInv
<1>7. ASSUME NEW t \in Task, DeadlinePasses(t) PROVE Mail'
  <2>1. ASSUME NEW u \in Task PROVE Letters(u)'
    BY <1>0, <1>7, LettersKept DEF DeadlinePasses, IInv, TypeOK
  <2> QED
    BY <2>1 DEF Mail
<1>8. CASE InitDelegation
  <2>1. ASSUME NEW u \in Task PROVE Letters(u)'
    BY <1>0, <1>8, LettersKept DEF InitDelegation
  <2> QED
    BY <2>1 DEF Mail
<1>9. CASE StopDelegation
  <2>1. ASSUME NEW u \in Task PROVE Letters(u)'
    BY <1>0, <1>9, LettersKept DEF StopDelegation
  <2> QED
    BY <2>1 DEF Mail
<1>10. CASE Restart
  <2>1. ASSUME NEW u \in Task PROVE Letters(u)'
    BY <1>0, <1>10, LettersKept DEF Restart
  <2> QED
    BY <2>1 DEF Mail
<1>11. CASE UNCHANGED vars
  <2>1. ASSUME NEW u \in Task PROVE Letters(u)'
    BY <1>0, <1>11, LettersKept DEF vars
  <2> QED
    BY <2>1 DEF Mail
<1> QED
  BY <1>1, <1>2, <1>3, <1>4, <1>5, <1>6, <1>7, <1>8, <1>9, <1>10, <1>11
  DEF Next, WorkerStep, Turns, Instruct, FollowUp

(* What a paused worker has not read of its collaborators is behind a full  *)
(* page of newer messages, its own among them.                              *)
MissedOnlyBehindAPage ==
  \A t \in waiters :
    /\ pc[t] = "waiting" /\ ~MustStop(t)
    /\ \A i \in DOMAIN messages[t] :
         i > lastInboxSeq[t] /\ messages[t][i] = Collaborator => i > lastInboxSeq[t] + PageLimit

NoPageIsFull == \A t \in waiters : Len(messages[t]) <= lastInboxSeq[t] + PageLimit

(* A worker that waitForInput has paused has read every answer but those    *)
(* that a full page of readInbox keeps from it, whatever the limits, and    *)
(* however answers, cancellations, the deadline and the shutdown fall       *)
(* between its question and its pause; so that none is missed in any state  *)
(* in which no page is full.                                                *)
THEOREM NoMissedAnswer ==
  Spec => [](MissedOnlyBehindAPage /\ (NoPageIsFull => NoAnswerMissed))
<1>1. Init => Mail
  <2> SUFFICES ASSUME Init, NEW t \in Task PROVE Letters(t)
    BY DEF Mail
  <2> QED
    BY DEF Init, Letters
<1>2. IInv /\ Mail => MissedOnlyBehindAPage
  <2> SUFFICES ASSUME IInv, Mail, NEW t \in waiters
               PROVE  /\ pc[t] = "waiting" /\ ~MustStop(t)
                      /\ \A i \in DOMAIN messages[t] :
                           i > lastInboxSeq[t] /\ messages[t][i] = Collaborator
                             => i > lastInboxSeq[t] + PageLimit
    BY DEF MissedOnlyBehindAPage
  <2>1. t \in Task /\ pc[t] = "waiting" /\ ~MustStop(t) /\ ~HasInput(t, lastInboxSeq[t])
    BY DEF IInv, TypeOK, Workers, Agrees, Mail, Letters
  <2>2. messages[t] \in Seq({Collaborator, Worker, System}) /\ lastInboxSeq[t] \in Nat
    BY <2>1 DEF IInv, TypeOK
  <2>3. ASSUME NEW i \in DOMAIN messages[t], i > lastInboxSeq[t], messages[t][i] = Collaborator,
               ~(i > lastInboxSeq[t] + PageLimit)
        PROVE  FALSE
    <3>1. i \in lastInboxSeq[t] + 1 .. lastInboxSeq[t] + PageLimit
      BY <2>2, <2>3
    <3>2. i \in Inbox(t, lastInboxSeq[t])
      BY <2>3, <3>1 DEF Inbox, Listed
    <3> QED
      BY <2>1, <2>3, <3>2 DEF HasInput
  <2> QED
    BY <2>1, <2>3
<1>3. IInv /\ MissedOnlyBehindAPage => (NoPageIsFull => NoAnswerMissed)
  <2> SUFFICES ASSUME IInv, MissedOnlyBehindAPage, NoPageIsFull, NEW t \in waiters,
                      NEW i \in DOMAIN messages[t], i > lastInboxSeq[t]
               PROVE  messages[t][i] # Collaborator
    BY DEF NoAnswerMissed, MissedOnlyBehindAPage
  <2>1. messages[t] \in Seq({Collaborator, Worker, System}) /\ lastInboxSeq[t] \in Nat
    BY DEF IInv, TypeOK
  <2>2. i <= lastInboxSeq[t] + PageLimit
    BY <2>1 DEF NoPageIsFull
  <2> QED
    BY <2>1, <2>2 DEF MissedOnlyBehindAPage
<1>4. IInv /\ Mail /\ [Next]_vars => Mail'
  BY NextKeepsMail
<1> QED
  BY <1>1, <1>2, <1>3, <1>4, InductiveInvariant, PTL DEF Spec

-----------------------------------------------------------------------------
(* The manager implements TaskBoard *)

Changes(t) ==
  \/ status'[t] = status[t]
  \/ Board!Accepted(t) \/ Board!Started(t) \/ Board!Dropped(t)
  \/ Board!Asked(t) \/ Board!Finished(t) \/ Board!Interrupted(t)

LEMMA BoardStep ==
  ASSUME Lease', \A t \in Task : Changes(t), \A t \in active' \ active : Board!Started(t)
  PROVE  Board!BoardNext
BY DEF Changes, Lease, Board!BoardNext

(* What the walk over the queue does is to start and to drop.               *)
LEMMA PumpStep ==
  ASSUME IInv, NEW now \in [Task -> Statuses], NEW workers \in SUBSET active, NEW at, NEW u \in Task,
         Pumped(now, workers, at),
         now[u] = "queued" => status[u] = "queued" \/ (status[u] = "none" /\ Configured(u)),
         now[u] # "queued" => now[u] = status[u] \/ (status[u] \in Working /\ now[u] = "interrupted" /\ u \notin active)
  PROVE  Changes(u) /\ (u \in active' \ active => Board!Started(u))
<1> USE DEF Board!Working, Board!Accepted, Board!Started, Board!Dropped, Board!Interrupted, Changes
<1>1. PICK S \in SUBSET {t \in Task : now[t] = "queued"} :
        /\ active' = workers \cup S
        /\ \A t \in S : status'[t] = "running"
        /\ \A t \in Task \ S :
             status'[t] = now[t] \/ (now[t] = "queued" /\ ~Configured(t) /\ status'[t] = "failed")
  BY DEF Pumped
<1>2. CASE u \in S
  BY <1>1, <1>2
<1>3. CASE u \notin S
  BY <1>1, <1>3
<1> QED
  BY <1>2, <1>3

LEMMA ImplementsStep ==
  ASSUME IInv, IInv', [Next]_vars
  PROVE  [Board!BoardNext]_<<status, active>>
<1>0. Lease'
  BY DEF IInv
<1>1. ASSUME NEW t \in Task, Turns(t) PROVE Board!BoardNext
  <2>1. /\ WorkerUnchanged /\ pc[t] \in TurnPcs \cup {"starting"}
        /\ status' = status \/ status' = [status EXCEPT ![t] = "needs_input"]
    BY <1>1, TurnsMove DEF IInv, Moved, Paused
  <2>2. t \in active /\ status[t] \in Working /\ active' = active
    BY <2>1 DEF IInv, Workers, Agrees, WorkerUnchanged
  <2>3. ASSUME NEW u \in Task PROVE Changes(u)
    <3>0. DOMAIN status = Task
      BY DEF IInv, TypeOK
    <3> HIDE DEF IInv
    <3>1. status'[u] = status[u] \/ (u = t /\ status'[u] = "needs_input")
      <4>1. CASE status' = status
        BY ONLY <4>1
      <4>2. CASE status' = [status EXCEPT ![t] = "needs_input"]
        BY ONLY <4>2, <3>0, u \in Task, t \in Task
      <4> QED
        BY <2>1, <4>1, <4>2
    <3> QED
      BY <2>2, <3>1 DEF Changes, Board!Asked, Board!Working
  <2> QED
    BY <1>0, <2>2, <2>3, BoardStep
<1>2. ASSUME NEW t \in Task, Settle(t) PROVE Board!BoardNext
  <2>1. t \in active /\ status[t] \in Working /\ active' = active
    BY <1>2 DEF IInv, Workers, Agrees, Settle, Updated, WorkerUnchanged
  <2>2. \A u \in Task : Changes(u)
    BY <1>2, <2>1 DEF IInv, TypeOK, Settle, Updated, Changes, Board!Finished, Board!Working
  <2> QED
    BY <1>0, <2>1, <2>2, BoardStep
<1>3. ASSUME NEW t \in Task, Finish(t) PROVE Board!BoardNext
  <2>1. Pumped(status, active \ {t}, [pc EXCEPT ![t] = "off"]) /\ status \in [Task -> Statuses]
    BY <1>3, PumpEffect DEF Finish, IInv, TypeOK
  <2>2. \A u \in Task : Changes(u) /\ (u \in active' \ active => Board!Started(u))
    BY <2>1, PumpStep
  <2> QED
    BY <1>0, <2>2, BoardStep DEF IInv, TypeOK
<1>4. ASSUME NEW t \in Task, Spawn(t) PROVE Board!BoardNext
  <2> DEFINE now == [status EXCEPT ![t] = "queued"]
  <2>1. born' \in [Task -> Nat]
    BY DEF IInv, TypeOK
  <2>2. Pumped(now, active, pc) /\ now \in [Task -> Statuses]
    BY <1>4, <2>1, PumpEffect DEF Spawn, Created, Updated, IInv, TypeOK
  <2>3. ASSUME NEW u \in Task
        PROVE  /\ now[u] = "queued" => status[u] = "queued" \/ (status[u] = "none" /\ Configured(u))
               /\ now[u] # "queued" => now[u] = status[u]
    BY <1>4 DEF Spawn, Created, Updated, IInv, TypeOK
  <2> HIDE DEF now
  <2>4. \A u \in Task : Changes(u) /\ (u \in active' \ active => Board!Started(u))
    BY <2>2, <2>3, PumpStep
  <2> QED
    BY <1>0, <2>4, BoardStep DEF IInv, TypeOK
<1>5. ASSUME NEW t \in Task, initialized, Speak(t), active' = active PROVE Board!BoardNext
  <2>1. \A u \in Task : Changes(u)
    BY <1>5 DEF IInv, TypeOK, Workers, Agrees, Speak, Changes, Board!Asked, Board!Working
  <2> QED
    BY <1>0, <1>5, <2>1, BoardStep
<1>6. ASSUME NEW t \in Task, Cancel(t) PROVE Board!BoardNext
  <2>1. \A u \in Task : Changes(u)
    BY <1>6 DEF IInv, TypeOK, Workers, Agrees, Cancel, Updated, Changes, Board!Dropped
  <2> QED
    BY <1>0, <1>6, <2>1, BoardStep DEF Cancel, Updated
<1>7. ASSUME InitDelegation PROVE Board!BoardNext
  <2> DEFINE now == [x \in Task |-> IF status[x] \in Interruptible THEN "interrupted" ELSE status[x]]
  <2>1. Pumped(now, active, pc) /\ now \in [Task -> Statuses]
    BY <1>7, PumpEffect DEF InitDelegation, IInv, TypeOK
  <2>2. ASSUME NEW u \in Task
        PROVE  /\ now[u] = "queued" => status[u] = "queued"
               /\ now[u] # "queued" => now[u] = status[u] \/ (status[u] \in Working /\ now[u] = "interrupted" /\ u \notin active)
    BY <1>7 DEF InitDelegation, Interruptible, IInv, TypeOK, Workers
  <2> HIDE DEF now
  <2>3. \A u \in Task : Changes(u) /\ (u \in active' \ active => Board!Started(u))
    BY <2>1, <2>2, PumpStep
  <2> QED
    BY <1>0, <2>3, BoardStep DEF IInv, TypeOK
<1>8. ASSUME Restart PROVE Board!BoardNext
  <2>1. (\A u \in Task : Changes(u)) /\ active' \ active = {}
    BY <1>8 DEF Restart, Changes
  <2> QED
    BY <1>0, <2>1, BoardStep
<1>9. CASE UNCHANGED <<status, active>>
  BY <1>9
<1> QED
  BY <1>1, <1>2, <1>3, <1>4, <1>5, <1>6, <1>7, <1>8, <1>9
  DEF Next, WorkerStep, Turns, DeadlinePasses, Instruct, FollowUp, StopDelegation, vars

(* Every behaviour of the manager is one of TaskBoard: the statuses, the    *)
(* lease and the bound are kept for any number of tasks and slots.          *)
THEOREM ImplementsTaskBoard == Spec => KeepsTaskContract
<1>1. Init => Board!BoardInit
  BY DEF Init, Board!BoardInit
<1>2. IInv /\ IInv' /\ [Next]_vars => [Board!BoardNext]_<<status, active>>
  BY ImplementsStep
<1> QED
  BY <1>1, <1>2, InductiveInvariant, PTL DEF Spec, KeepsTaskContract, Board!BoardSpec

-----------------------------------------------------------------------------
(* Who gets a slot *)

LEMMA MoreWorkersFitLess ==
  ASSUME NEW T \in SUBSET Task, NEW U \in SUBSET T
  PROVE  /\ Cardinality(U) \in Nat /\ Cardinality(T) \in Nat /\ Cardinality(U) <= Cardinality(T)
         /\ \A t \in Task : Fits(t, T) => Fits(t, U)
<1>1. IsFiniteSet(T)
  BY FS_Subset
<1>2. IsFiniteSet(U) /\ Cardinality(U) <= Cardinality(T)
  BY <1>1, FS_Subset
<1>3. Cardinality(U) \in Nat /\ Cardinality(T) \in Nat
  BY <1>1, <1>2, FS_CardinalityType
<1> QED BY <1>2, <1>3 DEF Fits

(* The walk passes a queued task over only if it does not fit next to the   *)
(* older ones, and a younger one starts before it only as a reader.         *)
LEMMA PumpServes ==
  ASSUME NEW now \in [Task -> Statuses], NEW created \in [Task -> Nat],
         NEW workers \in SUBSET Task, NEW at \in [Task -> Pcs], NEW enabled,
         Pump(enabled, now, created, workers, at)
  PROVE  /\ \A t \in Task : status'[t] = "queued" => now[t] = "queued"
         /\ enabled => \A t \in Task : status'[t] = "queued" => ~Fits(t, active')
         /\ \A t, u \in Task :
              status'[t] = "queued" /\ created[t] < created[u] /\ u \in active' \ workers
              => t \in Writers /\ u \notin Writers /\ active' \cap Writers # {}
<1> DEFINE queue == {t \in Task : enabled /\ now[t] = "queued"}
           Before(S, t) == workers \cup Older(S, t, created)
<1>1. PICK S \in SUBSET queue :
        /\ \A t \in queue : t \in S <=> Configured(t) /\ Fits(t, Before(S, t))
        /\ active' = workers \cup S
        /\ status' = [t \in Task |->
             IF t \in S THEN "running"
             ELSE IF t \in queue /\ ~Configured(t) /\ Cardinality(Before(S, t)) < MaxConcurrent
                  THEN "failed" ELSE now[t]]
  BY DEF Pump
<1>2. \A t \in Task : /\ Before(S, t) \subseteq active' /\ Before(S, t) \subseteq Task
                      /\ active' \subseteq Task
  BY <1>1 DEF Older
<1>3. ASSUME NEW t \in Task, status'[t] = "queued"
      PROVE  /\ now[t] = "queued" /\ t \notin S
             /\ enabled => \/ ~Fits(t, Before(S, t)) /\ Configured(t)
                           \/ ~(Cardinality(Before(S, t)) < MaxConcurrent)
  BY <1>1, <1>3
<1>4. ASSUME NEW t \in Task, status'[t] = "queued", enabled PROVE ~Fits(t, active')
  <2>1. Before(S, t) \in SUBSET active' /\ active' \in SUBSET Task
    BY <1>2
  <2> HIDE DEF Before
  <2>2. Fits(t, active') => Fits(t, Before(S, t))
    BY <2>1, MoreWorkersFitLess
  <2> QED BY <1>3, <1>4, <2>2 DEF Fits
<1>5. ASSUME NEW t \in Task, NEW u \in Task, status'[t] = "queued", created[t] < created[u],
             u \in active' \ workers
      PROVE  t \in Writers /\ u \notin Writers /\ active' \cap Writers # {}
  <2>1. u \in S /\ u \in queue /\ enabled
    BY <1>1, <1>5
  <2>2. Before(S, t) \subseteq Before(S, u)
    <3>1. \A v \in S : v \in Task /\ created[v] \in Nat
      BY <1>1
    <3>2. \A v \in S : created[v] < created[t] => created[v] < created[u]
      BY <1>5, <3>1
    <3> QED BY <3>2 DEF Older
  <2>3. Fits(u, Before(S, u))
    BY <1>1, <2>1
  <2>4. Before(S, u) \in SUBSET Task /\ Before(S, t) \in SUBSET Before(S, u)
    BY <1>2, <2>2
  <2> HIDE DEF Before
  <2>5. Cardinality(Before(S, t)) < MaxConcurrent
    BY <2>3, <2>4, MoreWorkersFitLess DEF Fits
  <2>6. ~Fits(t, Before(S, t))
    BY <1>3, <1>5, <2>1, <2>5
  <2>7. t \in Writers /\ Before(S, t) \cap Writers # {}
    BY <2>5, <2>6 DEF Fits
  <2>8. u \notin Writers
    BY <2>2, <2>3, <2>7 DEF Fits
  <2> QED BY <1>2, <2>7, <2>8
<1> QED BY <1>3, <1>4, <1>5

LEMMA SpawnBears ==
  ASSUME TypeOK, NEW t \in Task, Spawn(t)
  PROVE  born' \in [Task -> Nat] /\ [status EXCEPT ![t] = "queued"] \in [Task -> Statuses]
<1>1. Spawned \in SUBSET Task /\ Cardinality(Spawned) \in Nat
  BY FS_Subset, FS_CardinalityType DEF Spawned
<1> QED BY <1>1 DEF Spawn, Created, Updated, Spawned, TypeOK

(* Besides the walk no step queues a task or takes a worker off the list.   *)
LEMMA SlotsKept ==
  ASSUME TypeOK, Next,
         ~ \E t \in Task : Spawn(t) \/ Finish(t),
         ~ (InitDelegation \/ Restart)
  PROVE  /\ active' = active /\ initialized' = initialized /\ (stopping => stopping')
         /\ \A t \in Task : status'[t] = "queued" => status[t] = "queued"
<1>1. ASSUME NEW t \in Task,
             WorkerStarts(t) \/ CompletionReturns(t) \/ ToolReturns(t) \/ ResultTold(t)
             \/ QuestionTold(t) \/ WaitReturns(t)
      PROVE  /\ UNCHANGED <<active, initialized, stopping>>
             /\ \A u \in Task : status'[u] = "queued" => status[u] = "queued"
  <2>1. UNCHANGED <<active, initialized, stopping>>
    BY <1>1 DEF WorkerStarts, CompletionReturns, ToolReturns, ResultTold, QuestionTold, WaitReturns,
       WorkerUnchanged
  <2>2. status' = status \/ status' = [status EXCEPT ![t] = "needs_input"]
    BY <1>1 DEF WorkerStarts, CompletionReturns, ToolReturns, ResultTold, QuestionTold, WaitReturns,
       WaitForInput, Answered, NextCall, NextTurn, Publish, Updated, End
  <2> QED BY <2>1, <2>2 DEF TypeOK
<1>2. ASSUME NEW t \in Task, Settle(t) \/ DeadlinePasses(t) \/ Instruct(t) \/ FollowUp(t) \/ Cancel(t)
      PROVE  /\ UNCHANGED <<active, initialized, stopping>>
             /\ \A u \in Task : status'[u] = "queued" => status[u] = "queued"
  BY <1>2 DEF Settle, Updated, DeadlinePasses, Instruct, FollowUp, Cancel, Updated, Speak, WorkerUnchanged, Others, TypeOK
<1>3. CASE StopDelegation
  BY <1>3 DEF StopDelegation
<1> QED BY <1>1, <1>2, <1>3 DEF Next, WorkerStep

(* Every slot and the lease are handed on by whoever gives them back:       *)
(* spawnDelegatedTask, the finally of runTask and initDelegation pump, and  *)
(* nothing else makes room (delegation/manager.ts).                         *)
THEOREM NoSlotIdles == Spec => []NoIdleSlot
<1>1. Init => NoIdleSlot
  BY DEF Init, NoIdleSlot
<1>2. TypeOK /\ NoIdleSlot /\ [Next]_vars => NoIdleSlot'
  <2> SUFFICES ASSUME TypeOK, NoIdleSlot, [Next]_vars, initialized', ~stopping'
               PROVE  \A t \in Task : status'[t] = "queued" => ~Fits(t, active')
    BY DEF NoIdleSlot, Fits
  <2>1. ASSUME NEW t \in Task, Spawn(t) \/ Finish(t)
        PROVE  \A u \in Task : status'[u] = "queued" => ~Fits(u, active')
    <3>1. CASE Spawn(t)
      <4>1. Pump(TRUE, [status EXCEPT ![t] = "queued"], born', active, pc)
        BY <3>1 DEF Spawn, Created, Updated, Others
      <4>2. born' \in [Task -> Nat] /\ [status EXCEPT ![t] = "queued"] \in [Task -> Statuses]
        BY <3>1, SpawnBears
      <4> QED BY <4>1, <4>2, PumpServes DEF TypeOK
    <3>2. CASE Finish(t)
      <4>1. Pump(TRUE, status, born, active \ {t}, [pc EXCEPT ![t] = "off"])
        BY <3>2 DEF Finish
      <4>2. [pc EXCEPT ![t] = "off"] \in [Task -> Pcs]
        BY DEF TypeOK
      <4> QED BY <4>1, <4>2, PumpServes DEF TypeOK
    <3> QED BY <2>1, <3>1, <3>2
  <2>2. CASE InitDelegation
    <3> DEFINE now == [t \in Task |-> IF status[t] \in Interruptible THEN "interrupted" ELSE status[t]]
    <3>1. Pump(TRUE, now, born, active, pc)
      BY <2>2 DEF InitDelegation
    <3>2. now \in [Task -> Statuses]
      BY DEF TypeOK
    <3> HIDE DEF now
    <3> QED BY <3>1, <3>2, PumpServes DEF TypeOK
  <2>3. CASE Restart
    BY <2>3 DEF Restart
  <2>4. CASE Next /\ ~(\E t \in Task : Spawn(t) \/ Finish(t)) /\ ~(InitDelegation \/ Restart)
    BY <2>4, SlotsKept DEF NoIdleSlot
  <2>5. CASE UNCHANGED vars
    BY <2>5 DEF vars, NoIdleSlot
  <2> QED BY <2>1, <2>2, <2>3, <2>4, <2>5
<1> QED BY TypeCorrect, <1>1, <1>2, PTL DEF Spec

(* pumpQueue lets a younger task start before an older one that stays       *)
(* queued only if the younger is a reader and the older a writer that the   *)
(* lease keeps out.                                                         *)
THEOREM OldestFirst == Spec => FirstComeFirstServed
<1>1. TypeOK /\ [Next]_vars
        => [\A t, u \in Task :
              status[t] = "queued" /\ status'[t] = "queued" /\ born[t] < born'[u] /\ u \in active' \ active
              => t \in Writers /\ u \notin Writers /\ active' \cap Writers # {}]_vars
  <2> SUFFICES ASSUME TypeOK, Next, NEW t \in Task, NEW u \in Task,
                      status[t] = "queued", status'[t] = "queued", born[t] < born'[u],
                      u \in active' \ active
               PROVE  t \in Writers /\ u \notin Writers /\ active' \cap Writers # {}
    BY DEF vars
  <2>1. ASSUME NEW v \in Task, Spawn(v)
        PROVE  t \in Writers /\ u \notin Writers /\ active' \cap Writers # {}
    <3>1. Pump(~stopping, [status EXCEPT ![v] = "queued"], born', active, pc) /\ status[v] = "none"
      BY <2>1 DEF Spawn, Created, Updated
    <3>2. born' \in [Task -> Nat] /\ [status EXCEPT ![v] = "queued"] \in [Task -> Statuses]
      BY <2>1, SpawnBears
    <3>3. born'[t] = born[t]
      BY <2>1, <3>1 DEF Spawn, Created, Updated, TypeOK
    <3> QED BY <3>1, <3>2, <3>3, PumpServes DEF TypeOK
  <2>2. ASSUME NEW v \in Task, Finish(v)
        PROVE  t \in Writers /\ u \notin Writers /\ active' \cap Writers # {}
    <3>1. Pump(initialized /\ ~stopping, status, born, active \ {v}, [pc EXCEPT ![v] = "off"])
          /\ born' = born
      BY <2>2 DEF Finish
    <3>2. [pc EXCEPT ![v] = "off"] \in [Task -> Pcs] /\ u \in active' \ (active \ {v})
      BY DEF TypeOK
    <3> QED BY <3>1, <3>2, PumpServes DEF TypeOK
  <2>3. CASE InitDelegation
    <3> DEFINE now == [w \in Task |-> IF status[w] \in Interruptible THEN "interrupted" ELSE status[w]]
    <3>1. Pump(~stopping, now, born, active, pc) /\ born' = born
      BY <2>3 DEF InitDelegation
    <3>2. now \in [Task -> Statuses]
      BY DEF TypeOK
    <3> HIDE DEF now
    <3> QED BY <3>1, <3>2, PumpServes DEF TypeOK
  <2>4. CASE Restart
    BY <2>4 DEF Restart
  <2>5. CASE ~(\E v \in Task : Spawn(v) \/ Finish(v)) /\ ~(InitDelegation \/ Restart)
    BY <2>5, SlotsKept
  <2> QED BY <2>1, <2>2, <2>3, <2>4, <2>5
<1> QED BY TypeCorrect, <1>1, PTL DEF Spec, FirstComeFirstServed

=============================================================================
