------------------------- MODULE AgentManagerProofs -------------------------
(***************************************************************************)
(* Theorems about AgentManager, for every set of supervisors, processes    *)
(* and settings and every bound.                                           *)
(*                                                                         *)
(* Three facts make the invariant inductive: how the child of a supervisor *)
(* follows its spawn and its timer (Kept), what the worker that requests   *)
(* are routed to looks like (Routed), and what a reconciliation that       *)
(* nobody has asked to run again may rely on (Generations).  A second      *)
(* invariant on top of it (Boots) relates a failed revision to whatever    *)
(* could still report a success of it.                                     *)
(***************************************************************************)
EXTENDS AgentManager, TLAPS

(* A supervisor whose timer is set has no child, and so has one that is     *)
(* about to spawn or has given up on a process.                             *)
Kept(s) ==
  /\ s.timer => s.child = none
  /\ s.spawning = "mkdir" => ~s.timer /\ s.child = none
  /\ s.spawning = "health" => s.child \in {none, s.boot}
  /\ s.spawning = "failing" => s.child = none

Ending == stops # {} \/ manager.step \in {"replacing", "stopping"}

Served(s) == sup[s].child \in Serving /\ sup[s].healthyOnce /\ sup[s].spawning = "no"

Routed == registered => Ending \/ (current # none /\ Served(current))

Generations ==
  /\ manager.attempted <= row.revision
  /\ row.state = "pending" => manager.attempted # row.revision
  /\ manager.step = "head" => manager.again
  /\ manager.step \in {"applying", "applied"} => manager.owner \in Sup
  /\ manager.step \in {"readiness", "applying", "applied", "replacing"} /\ ~manager.again
       => manager.rev = row.revision
  /\ manager.step \in {"applying", "applied", "replacing"} /\ ~manager.again => row.state # "pending"
  /\ manager.step = "stopping" /\ ~manager.again => ~row.enabled

IInv == TypeOK /\ (\A s \in Sup : Kept(sup[s])) /\ Routed /\ Generations /\ PendingIsTakenUp

USE AgentManagerAssumption
USE DEF AgentManagerAssumption, Revision, States, counters

-----------------------------------------------------------------------------
(* The pieces *)

LEMMA SomeConfiguration == FirstConfig \in Config
<1>1. PICK c \in Cold, h \in Hot : TRUE
  OBVIOUS
<1>2. [cold |-> c, hot |-> h] \in Config
  BY <1>1 DEF Config
<1> QED
  BY <1>2 DEF FirstConfig

LEMMA NobodyIsKept == Nobody \in Supervisor /\ Kept(Nobody)
BY SomeConfiguration DEF Nobody, Supervisor, Kept

LEMMA Finishing ==
  ASSUME NEW m \in Reconciliation
  PROVE  /\ Finished(m) \in Reconciliation
         /\ Finished(m).step = IF m.again THEN "head" ELSE "idle"
         /\ Finished(m).again = m.again /\ Finished(m).attempted = m.attempted
<1>1. FirstConfig \in Config /\ 0 \in 0..MaxRevision
  BY SomeConfiguration
<1>2. (IF m.again THEN "head" ELSE "idle") \in {"idle", "head"}
  OBVIOUS
<1>3. Finished(m) \in Reconciliation
  BY <1>1, <1>2 DEF Reconciliation, Finished
<1> QED
  BY <1>3 DEF Reconciliation, Finished

LEMMA Scheduling ==
  ASSUME NEW m \in Reconciliation
  PROVE  /\ Scheduled(m) \in Reconciliation
         /\ Scheduled(m).again
         /\ Scheduled(m).step = IF m.step = "idle" THEN "head" ELSE m.step
         /\ Scheduled(m).attempted = m.attempted /\ Scheduled(m).owner = m.owner
BY DEF Reconciliation, Scheduled

LEMMA Collecting ==
  ASSUME NEW s \in Supervisor
  PROVE  /\ Collected(s) \in Supervisor
         /\ Kept(s) => Kept(Collected(s))
         /\ s.child # none \/ ~s.stopping => Collected(s) = s
BY NobodyIsKept DEF Collected

LEMMA Exiting ==
  ASSUME NEW s \in Supervisor, Kept(s), s.child # none
  PROVE  Exited(s) \in Supervisor /\ Kept(Exited(s))
<1> DEFINE t == [s EXCEPT !.child = none, !.timer = @ \/ (s.healthyOnce /\ ~s.stopping)]
<1>1. t \in Supervisor
  BY DEF Supervisor
<1>2. Kept(t)
  BY DEF Supervisor, Kept
<1> HIDE DEF t
<1>3. Collected(t) \in Supervisor /\ Kept(Collected(t))
  BY <1>1, <1>2, Collecting
<1> QED
  BY <1>3 DEF t, Exited

LEMMA StoppingOne ==
  ASSUME NEW s \in Supervisor, Kept(s)
  PROVE  StoppedSupervisor(s) \in Supervisor /\ Kept(StoppedSupervisor(s))
<1> DEFINE t == [s EXCEPT !.stopping = TRUE, !.timer = FALSE, !.child = none]
<1>1. t \in Supervisor
  BY DEF Supervisor
<1>2. Kept(t)
  BY DEF Supervisor, Kept
<1> HIDE DEF t
<1>3. Collected(t) \in Supervisor /\ Kept(Collected(t))
  BY <1>1, <1>2, Collecting
<1> QED
  BY <1>3 DEF t, StoppedSupervisor

LEMMA Signalling ==
  ASSUME proc \in [Proc -> Process], NEW p \in Proc \cup {none}
  PROVE  Signalled(p) \in [Proc -> Process]
BY DEF Signalled, Process

LEMMA Rewriting ==
  ASSUME NEW r \in Row, NEW e \in BOOLEAN, NEW state \in States
  PROVE  LET n == [r EXCEPT !.enabled = e, !.state = state]
         IN /\ n \in Row /\ n.revision = r.revision /\ r.revision \in Nat \ {0}
            /\ n.enabled = e /\ n.state = state
<1>1. r.revision \in Nat \ {0}
  BY DEF Row
<1> QED
  BY <1>1 DEF Row

LEMMA Marking ==
  ASSUME row \in Row, NEW state \in States, NEW rev
  PROVE  Marked(state, rev) \in Row
BY DEF Marked, Row

LEMMA TypedNext ==
  ASSUME row' \in Row, manager' \in Reconciliation, retries' \in 0..MaxRetries,
         stops' \subseteq Proc \cup {none}, current' \in Sup \cup {none}, registered' \in BOOLEAN,
         sup' \in [Sup -> Supervisor], proc' \in [Proc -> Process],
         requests' \in 0..MaxRequests, crashes' \in 0..MaxCrashes
  PROVE  TypeOK'
BY DEF TypeOK

(* Taking the current supervisor out of the table.                          *)
LEMMA StoppingTheCurrent ==
  ASSUME TypeOK, \A s \in Sup : Kept(sup[s]), StopProcess
  PROVE  /\ current' \in Sup \cup {none}
         /\ sup' \in [Sup -> Supervisor] /\ \A s \in Sup : Kept(sup'[s])
         /\ proc' \in [Proc -> Process]
<1>1. CASE current = none
  <2>1. ChildOf(current) \in Proc \cup {none}
    BY <1>1 DEF ChildOf
  <2>2. sup' = sup /\ proc' = Signalled(ChildOf(current)) /\ current' = none
    BY <1>1 DEF StopProcess
  <2> QED
    BY <2>1, <2>2, Signalling DEF TypeOK
<1>2. CASE current # none
  <2>1. current \in Sup /\ sup[current] \in Supervisor
    BY <1>2 DEF TypeOK
  <2>2. ChildOf(current) \in Proc \cup {none}
    BY <1>2, <2>1 DEF ChildOf, Supervisor
  <2>3. /\ sup' = [sup EXCEPT ![current] = StoppedSupervisor(sup[current])]
        /\ proc' = Signalled(ChildOf(current)) /\ current' = none
    BY <1>2 DEF StopProcess
  <2>4. StoppedSupervisor(sup[current]) \in Supervisor /\ Kept(StoppedSupervisor(sup[current]))
    BY <2>1, StoppingOne
  <2> QED
    BY <2>1, <2>2, <2>3, <2>4, Signalling DEF TypeOK
<1> QED
  BY <1>1, <1>2

-----------------------------------------------------------------------------
(* Requests *)

LEMMA Initially == Init => IInv
<1> SUFFICES ASSUME Init PROVE IInv
  OBVIOUS
<1>1. TypeOK
  <2>1. manager \in Reconciliation
    <3>1. row.enabled \in BOOLEAN /\ 0 \in 0..MaxRevision
      BY DEF Init, Row
    <3>2. (IF row.enabled THEN "head" ELSE "idle") \in {"idle", "head"}
      OBVIOUS
    <3> QED
      BY <3>1, <3>2, SomeConfiguration DEF Init, Reconciliation
  <2>2. row \in Row
    BY DEF Init
  <2>3. sup \in [Sup -> Supervisor] /\ proc \in [Proc -> Process]
    BY NobodyIsKept DEF Init, GoneProcess, Process
  <2>4. registered \in BOOLEAN
    BY DEF Init
  <2>5. /\ retries \in 0..MaxRetries /\ stops \subseteq Proc \cup {none}
        /\ current \in Sup \cup {none}
        /\ requests \in 0..MaxRequests /\ crashes \in 0..MaxCrashes
    <3>1. retries = 0 /\ stops = {} /\ current = none /\ requests = 0 /\ crashes = 0
      BY Zenon DEF Init
    <3> QED
      BY <3>1
  <2> QED
    BY <2>1, <2>2, <2>3, <2>4, <2>5 DEF TypeOK
<1>2. \A s \in Sup : Kept(sup[s])
  BY NobodyIsKept DEF Init
<1>3. Routed /\ Generations /\ PendingIsTakenUp
  BY SomeConfiguration DEF Init, Routed, Generations, PendingIsTakenUp
<1> QED
  BY <1>1, <1>2, <1>3 DEF IInv

(* A request that only touches the row and asks for a reconciliation.       *)
LEMMA Asking ==
  ASSUME IInv, NEW m \in Reconciliation, m.step = manager.step, m.again = manager.again,
         m.owner = manager.owner, m.rev = manager.rev, m.attempted <= manager.attempted,
         manager' = Scheduled(m), row' \in Row, row'.revision >= row.revision,
         row'.state = "pending" => m.attempted # row'.revision,
         retries' \in 0..MaxRetries, requests' \in 0..MaxRequests,
         UNCHANGED <<stops, current, registered, sup, proc, crashes>>
  PROVE  IInv'
<1>1. /\ manager' \in Reconciliation /\ manager'.again
      /\ manager'.step = IF manager.step = "idle" THEN "head" ELSE manager.step
      /\ manager'.attempted = m.attempted /\ manager'.owner = manager.owner
  BY Scheduling
<1>2. TypeOK'
  BY <1>1 DEF IInv, TypeOK
<1>3. (\A s \in Sup : Kept(sup[s]))'
  BY DEF IInv
<1>4. Routed'
  BY <1>1 DEF IInv, Routed, Ending, Served, Serving
<1>5. Generations'
  BY <1>1 DEF IInv, Generations, TypeOK, Reconciliation, Row
<1>6. PendingIsTakenUp'
  BY <1>1 DEF PendingIsTakenUp
<1> QED
  BY <1>2, <1>3, <1>4, <1>5, <1>6 DEF IInv

LEMMA UpdateStep == ASSUME IInv, NEW c \in Config, Update(c) PROVE IInv'
<1>1. manager \in Reconciliation /\ row \in Row /\ retries \in 0..MaxRetries /\ requests \in 0..MaxRequests
  BY DEF IInv, TypeOK
<1>2. row' \in Row /\ row'.revision = row.revision + 1 /\ row.revision \in Nat
  <2>1. row.revision \in Nat /\ row.revision + 1 \in Revision /\ "pending" \in States
    BY <1>1 DEF Update, Row
  <2> QED
    BY <1>1, <2>1 DEF Update, Row
<1>3. manager.attempted <= row.revision /\ manager.attempted \in Nat
  BY <1>1 DEF IInv, Generations, Reconciliation
<1> QED
  BY <1>1, <1>2, <1>3, Asking DEF Update

LEMMA ReplayStep == ASSUME IInv, Replay PROVE IInv'
<1>1. manager \in Reconciliation /\ row \in Row /\ retries \in 0..MaxRetries /\ requests' \in 0..MaxRequests
  BY DEF IInv, TypeOK, Replay, Request
<1>2. row.revision \in Nat /\ manager.attempted \in Nat
  BY <1>1 DEF Reconciliation, Row
<1>3. row.state = "pending" => manager.attempted # row.revision
  BY DEF IInv, Generations
<1> QED
  BY <1>1, <1>2, <1>3, Asking DEF Replay, Request

LEMMA StartStep == ASSUME IInv, Start PROVE IInv'
<1> DEFINE m == [manager EXCEPT !.attempted = 0]
<1>1. manager \in Reconciliation /\ row \in Row /\ retries \in 0..MaxRetries /\ requests' \in 0..MaxRequests
  BY DEF IInv, TypeOK, Start, Request
<1>2. row' \in Row /\ row'.revision = row.revision /\ row.revision \in Nat \ {0}
  BY <1>1, Rewriting DEF Start
<1>3. /\ m \in Reconciliation /\ m.step = manager.step /\ m.again = manager.again
      /\ m.owner = manager.owner /\ m.rev = manager.rev /\ m.attempted = 0
      /\ manager.attempted \in Nat
  BY <1>1 DEF Reconciliation
<1>4. manager' = Scheduled(m)
  BY DEF Start
<1> HIDE DEF m
<1>5. UNCHANGED <<retries, stops, current, registered, sup, proc, crashes>>
  BY DEF Start, Request
<1>6. /\ m.attempted <= manager.attempted /\ row'.revision >= row.revision
      /\ m.attempted # row'.revision /\ retries' \in 0..MaxRetries
  BY <1>1, <1>2, <1>3, <1>5
<1> QED
  BY <1>1, <1>2, <1>3, <1>4, <1>5, <1>6, Asking

LEMMA RetryFiresStep == ASSUME IInv, RetryFires PROVE IInv'
<1>1. manager \in Reconciliation /\ row \in Row /\ retries' \in 0..MaxRetries /\ requests \in 0..MaxRequests
  BY DEF IInv, TypeOK, RetryFires
<1>2. row.revision \in Nat /\ manager.attempted \in Nat
  BY <1>1 DEF Reconciliation, Row
<1>3. row.state = "pending" => manager.attempted # row.revision
  BY DEF IInv, Generations
<1> QED
  BY <1>1, <1>2, <1>3, Asking DEF RetryFires

LEMMA StopStep == ASSUME IInv, Stop PROVE IInv'
<1> DEFINE m == [manager EXCEPT !.attempted = 0]
<1>1. manager \in Reconciliation /\ row \in Row
  BY DEF IInv, TypeOK
<1>2. /\ row' \in Row /\ row'.revision = row.revision /\ row.revision \in Nat \ {0}
      /\ ~row'.enabled /\ row'.state = "draft"
  BY <1>1, Rewriting DEF Stop
<1>3. m \in Reconciliation /\ m.step = manager.step /\ m.owner = manager.owner /\ m.attempted = 0
  BY <1>1 DEF Reconciliation
<1>4. manager' = Scheduled(m)
  BY DEF Stop
<1> HIDE DEF m
<1>5. /\ manager' \in Reconciliation /\ manager'.again /\ manager'.attempted = 0
      /\ manager'.step = (IF manager.step = "idle" THEN "head" ELSE manager.step)
      /\ manager'.owner = manager.owner
  BY <1>3, <1>4, Scheduling
<1>6. /\ current' \in Sup \cup {none} /\ sup' \in [Sup -> Supervisor]
      /\ proc' \in [Proc -> Process] /\ \A s \in Sup : Kept(sup'[s])
  BY StoppingTheCurrent DEF IInv, Stop
<1>7. ChildOf(current) \in Proc \cup {none}
  BY DEF IInv, TypeOK, ChildOf, Supervisor
<1>8. stops' \subseteq Proc \cup {none} /\ stops' # {}
  BY <1>7 DEF Stop, IInv, TypeOK
<1>9. TypeOK'
  <2>1. /\ retries' \in 0..MaxRetries /\ crashes' \in 0..MaxCrashes
        /\ requests' \in 0..MaxRequests
    BY DEF Stop, Request, IInv, TypeOK
  <2>2. registered' \in BOOLEAN
    BY DEF Stop, IInv, TypeOK
  <2>3. row' \in Row /\ manager' \in Reconciliation /\ stops' \subseteq Proc \cup {none}
    BY <1>2, <1>5, <1>8
  <2> QED
    BY <2>3, <1>6, <2>1, <2>2, TypedNext
<1>10. Routed' /\ PendingIsTakenUp'
  BY <1>2, <1>8 DEF Routed, Ending, PendingIsTakenUp
<1>11. Generations'
  BY <1>2, <1>5 DEF IInv, Generations
<1> QED
  BY <1>6, <1>9, <1>10, <1>11 DEF IInv

LEMMA StopReturnsStep == ASSUME IInv, NEW p \in Proc \cup {none}, StopReturns(p) PROVE IInv'
<1>1. TypeOK'
  BY DEF IInv, TypeOK, StopReturns
<1>2. (\A s \in Sup : Kept(sup[s]))' /\ Routed' /\ Generations' /\ PendingIsTakenUp'
  BY DEF IInv, StopReturns, Routed, Generations, PendingIsTakenUp
<1> QED
  BY <1>1, <1>2 DEF IInv

-----------------------------------------------------------------------------
(* Reconciliation *)

(* A step of the manager that leaves supervisors and processes alone.       *)
LEMMA Managing ==
  ASSUME IInv, manager' \in Reconciliation, row' \in Row, retries' \in 0..MaxRetries,
         registered' \in BOOLEAN, registered' => registered /\ ~(manager.step \in {"replacing", "stopping"}),
         Generations', PendingIsTakenUp',
         UNCHANGED <<stops, current, sup, proc, counters>>
  PROVE  IInv'
<1>1. TypeOK'
  BY TypedNext DEF IInv, TypeOK
<1>2. (\A s \in Sup : Kept(sup[s]))'
  BY DEF IInv
<1>3. Routed'
  BY DEF IInv, Routed, Ending, Served, Serving
<1> QED
  BY <1>1, <1>2, <1>3 DEF IInv

(* A step that makes the manager wait for the end of the current worker.    *)
LEMMA Ousting ==
  ASSUME IInv, StopProcess, manager' \in Reconciliation, row' \in Row,
         manager'.step \in {"replacing", "stopping"}, Generations',
         UNCHANGED <<retries, stops, registered, counters>>
  PROVE  IInv'
<1>1. /\ current' \in Sup \cup {none} /\ sup' \in [Sup -> Supervisor]
      /\ proc' \in [Proc -> Process] /\ \A s \in Sup : Kept(sup'[s])
  BY StoppingTheCurrent DEF IInv
<1>2. TypeOK'
  BY <1>1, TypedNext DEF IInv, TypeOK
<1>3. Routed' /\ PendingIsTakenUp'
  BY DEF Routed, Ending, PendingIsTakenUp
<1> QED
  BY <1>1, <1>2, <1>3 DEF IInv

LEMMA Holding ==
  ASSUME NEW m \in Reconciliation, row \in Row
  PROVE  LET held == [m EXCEPT !.attempted = row.revision, !.rev = row.revision, !.config = row.config]
         IN /\ held \in Reconciliation /\ held.again = m.again /\ held.owner = m.owner
            /\ held.attempted = row.revision /\ held.rev = row.revision /\ row.revision \in Nat
<1>1. row.revision \in 0..MaxRevision /\ row.revision \in Nat /\ row.config \in Config
  BY DEF Row
<1> QED
  BY <1>1 DEF Reconciliation

LEMMA Restating ==
  ASSUME row \in Row, NEW state \in States
  PROVE  LET n == [row EXCEPT !.state = state]
         IN /\ n \in Row /\ n.revision = row.revision /\ n.revision \in Nat
            /\ n.enabled = row.enabled /\ n.state = state
<1>1. row.revision \in Nat
  BY DEF Row
<1> QED
  BY <1>1 DEF Row

(* replaceLocal, once the generation that it begins in is consistent.       *)
LEMMA Replacing ==
  ASSUME IInv, NEW m \in Reconciliation, Replace(m), row' \in Row,
         UNCHANGED <<retries, stops, registered, counters>>,
         m.attempted <= row'.revision,
         row'.state = "pending" => m.attempted # row'.revision,
         ~m.again => m.rev = row'.revision /\ row'.state # "pending"
  PROVE  IInv'
<1>1. ChildOf(current) \in Proc \cup {none}
  BY DEF IInv, TypeOK, ChildOf, Supervisor
<1>2. /\ manager' \in Reconciliation /\ manager'.step = "replacing" /\ manager'.again = m.again
      /\ manager'.attempted = m.attempted /\ manager'.rev = m.rev
  BY <1>1 DEF Replace, Reconciliation
<1>3. Generations'
  BY <1>2 DEF Generations
<1> QED
  BY <1>2, <1>3, Ousting DEF Replace

LEMMA Attempting ==
  ASSUME IInv, NEW m \in Reconciliation, Attempt(m), row.enabled, ~m.again,
         manager.step \in {"head", "readiness"},
         UNCHANGED <<retries, stops, registered, counters>>
  PROVE  IInv'
<1> DEFINE held == [m EXCEPT !.attempted = row.revision, !.rev = row.revision, !.config = row.config]
           s    == sup[m.owner]
           same == m.owner # none /\ s.child # none /\ s.env.cold = row.config.cold
<1>1. row \in Row /\ retries \in 0..MaxRetries /\ registered \in BOOLEAN
  BY DEF IInv, TypeOK
<1>2. /\ held \in Reconciliation /\ ~held.again /\ held.owner = m.owner
      /\ held.attempted = row.revision /\ held.rev = row.revision /\ row.revision \in Nat
  BY <1>1, Holding
<1>3. CASE /\ same /\ s.env.hot = row.config.hot
           /\ row' = [row EXCEPT !.state = "active"] /\ manager' = Finished(held)
           /\ UNCHANGED <<current, sup, proc>>
  <2>1. row' \in Row /\ row'.revision = row.revision /\ row'.state = "active"
    BY <1>1, <1>3, Restating
  <2>2. /\ manager' \in Reconciliation /\ manager'.step = "idle" /\ ~manager'.again
        /\ manager'.attempted = row.revision
    BY <1>2, <1>3, Finishing
  <2>3. Generations' /\ PendingIsTakenUp'
    BY <1>2, <2>1, <2>2 DEF Generations, PendingIsTakenUp
  <2> QED
    BY <1>1, <1>3, <2>1, <2>2, <2>3, Managing
<1>4. CASE /\ same /\ s.env.hot # row.config.hot
           /\ row' = [row EXCEPT !.state = "applying"]
           /\ manager' = [held EXCEPT !.step = "applying"]
           /\ UNCHANGED <<current, sup, proc>>
  <2>1. row' \in Row /\ row'.revision = row.revision /\ row'.state = "applying"
    BY <1>1, <1>4, Restating
  <2>2. m.owner \in Sup
    BY <1>4 DEF Reconciliation
  <2> HIDE DEF held
  <2>3. /\ manager' \in Reconciliation /\ manager'.step = "applying" /\ ~manager'.again
        /\ manager'.attempted = row.revision /\ manager'.rev = row.revision /\ manager'.owner = m.owner
    BY <1>2, <1>4 DEF Reconciliation
  <2>4. Generations' /\ PendingIsTakenUp'
    BY <1>2, <2>1, <2>2, <2>3 DEF Generations, PendingIsTakenUp
  <2> QED
    BY <1>1, <1>4, <2>1, <2>3, <2>4, Managing
<1>5. CASE row' = [row EXCEPT !.state = "applying"] /\ Replace(held)
  <2>1. row' \in Row /\ row'.revision = row.revision /\ row'.state = "applying"
    BY <1>1, <1>5, Restating
  <2> HIDE DEF held
  <2> QED
    BY <1>2, <1>5, <2>1, Replacing
<1> QED
  BY <1>3, <1>4, <1>5 DEF Attempt

LEMMA ReconcileStep == ASSUME IInv, Reconcile PROVE IInv'
<1> DEFINE m == [manager EXCEPT !.again = FALSE]
<1>1. /\ manager \in Reconciliation /\ row \in Row /\ manager.step = "head"
      /\ retries \in 0..MaxRetries /\ registered \in BOOLEAN
      /\ ChildOf(current) \in Proc \cup {none} /\ current \in Sup \cup {none}
      /\ UNCHANGED <<retries, stops, registered, counters>>
  BY DEF IInv, TypeOK, Reconcile, ChildOf, Supervisor
<1>2. /\ m \in Reconciliation /\ ~m.again /\ m.attempted = manager.attempted
      /\ m.step = "head" /\ m.owner = manager.owner
  BY <1>1 DEF Reconciliation
<1>3. /\ row.revision \in Nat /\ row.revision \in 0..MaxRevision /\ manager.attempted \in Nat
      /\ manager.attempted <= row.revision
      /\ row.state = "pending" => manager.attempted # row.revision
  BY <1>1 DEF IInv, Generations, Row, Reconciliation
<1>4. CASE ~row.enabled /\ StopProcess /\ row' = row
           /\ manager' = [m EXCEPT !.step = "stopping", !.awaits = ChildOf(current)]
  <2> HIDE DEF m
  <2>1. /\ manager' \in Reconciliation /\ manager'.step = "stopping"
        /\ manager'.attempted = manager.attempted
    BY <1>1, <1>2, <1>4 DEF Reconciliation
  <2>2. Generations'
    BY <1>3, <1>4, <2>1 DEF Generations
  <2> QED
    BY <1>1, <1>4, <2>1, <2>2, Ousting
<1>5. CASE /\ row.enabled /\ manager.attempted = row.revision
           /\ manager' = Finished(m) /\ UNCHANGED <<row, current, sup, proc>>
  <2> HIDE DEF m
  <2>1. /\ manager' \in Reconciliation /\ manager'.step = "idle" /\ manager'.attempted = manager.attempted
    BY <1>2, <1>5, Finishing
  <2>2. Generations' /\ PendingIsTakenUp'
    BY <1>3, <1>5, <2>1 DEF Generations, PendingIsTakenUp
  <2> QED
    BY <1>1, <1>5, <2>1, <2>2, Managing
<1>6. CASE /\ row.enabled /\ manager.attempted # row.revision /\ ChildOf(current) # none
           /\ manager' = [m EXCEPT !.step = "readiness", !.owner = current,
                                   !.awaits = ChildOf(current), !.rev = row.revision]
           /\ UNCHANGED <<row, current, sup, proc>>
  <2> HIDE DEF m
  <2>1. manager' \in Reconciliation
    BY <1>1, <1>2, <1>3, <1>6 DEF Reconciliation
  <2>2. /\ manager'.step = "readiness" /\ manager'.rev = row.revision
        /\ manager'.attempted = manager.attempted
    BY <1>1, <1>2, <1>3, <1>6 DEF Reconciliation
  <2>3. Generations' /\ PendingIsTakenUp'
    BY <1>3, <1>6, <2>2 DEF Generations, PendingIsTakenUp
  <2> QED
    BY <1>1, <1>6, <2>1, <2>2, <2>3, Managing
<1>7. CASE row.enabled /\ Attempt(m)
  <2> HIDE DEF m
  <2> QED
    BY <1>1, <1>2, <1>7, Attempting
<1> QED
  BY <1>4, <1>5, <1>6, <1>7 DEF Reconcile

(* The end of a reconciliation.                                             *)
LEMMA FinishingStep ==
  ASSUME IInv, manager' = Finished(manager), row' \in Row, row'.revision = row.revision,
         retries' \in 0..MaxRetries, registered' \in BOOLEAN,
         registered' => registered /\ ~(manager.step \in {"replacing", "stopping"}),
         row'.state = "pending" => manager.attempted # row'.revision,
         row'.enabled /\ row'.state = "pending" /\ ~manager.again => retries' > 0,
         UNCHANGED <<stops, current, sup, proc, counters>>
  PROVE  IInv'
<1>1. manager \in Reconciliation /\ manager.attempted <= row.revision
  BY DEF IInv, TypeOK, Generations
<1>2. /\ manager' \in Reconciliation /\ manager'.again = manager.again
      /\ manager'.step = (IF manager.again THEN "head" ELSE "idle")
      /\ manager'.attempted = manager.attempted
  BY <1>1, Finishing
<1>3. Generations'
  BY <1>1, <1>2 DEF Generations
<1>4. PendingIsTakenUp'
  BY <1>2 DEF PendingIsTakenUp
<1> QED
  BY <1>2, <1>3, <1>4, Managing

LEMMA ReadyReturnsStep == ASSUME IInv, ReadyReturns PROVE IInv'
<1>1. /\ manager \in Reconciliation /\ row \in Row /\ manager.step = "readiness"
      /\ retries \in 0..MaxRetries /\ registered \in BOOLEAN
      /\ UNCHANGED <<retries, stops, registered, counters>>
  BY DEF IInv, TypeOK, ReadyReturns
<1>2. CASE UpToDate(manager.rev) /\ Attempt(manager)
  BY <1>1, <1>2, Attempting DEF UpToDate
<1>3. CASE ~UpToDate(manager.rev) /\ manager' = Finished(manager) /\ UNCHANGED <<row, current, sup, proc>>
  <2>1. row.state = "pending" => manager.attempted # row.revision
    BY DEF IInv, Generations
  <2>2. ~(row.enabled /\ ~manager.again)
    BY <1>1, <1>3 DEF IInv, Generations, UpToDate
  <2> QED
    BY <1>1, <1>3, <2>1, <2>2, FinishingStep
<1> QED
  BY <1>2, <1>3 DEF ReadyReturns

LEMMA ReadyFailsStep == ASSUME IInv, ReadyFails PROVE IInv'
<1>1. /\ row \in Row /\ registered \in BOOLEAN /\ manager' = Finished(manager)
      /\ manager.step = "readiness"
      /\ UNCHANGED <<row, stops, current, registered, sup, proc, counters>>
  BY DEF IInv, TypeOK, ReadyFails
<1>2. retries' \in 0..MaxRetries /\ (~manager.again /\ row.enabled => retries' > 0)
  BY DEF IInv, TypeOK, ReadyFails
<1>3. row.state = "pending" => manager.attempted # row.revision
  BY DEF IInv, Generations
<1> QED
  BY <1>1, <1>2, <1>3, FinishingStep

LEMMA StopLiveReturnsStep == ASSUME IInv, StopLiveReturns PROVE IInv'
<1>1. /\ row \in Row /\ retries \in 0..MaxRetries /\ ~registered' /\ registered' \in BOOLEAN
      /\ manager' = Finished(manager)
      /\ UNCHANGED <<row, retries, stops, current, sup, proc, counters>>
  BY DEF IInv, TypeOK, StopLiveReturns
<1>2. row.state = "pending" => manager.attempted # row.revision
  BY DEF IInv, Generations
<1>3. ~manager.again => ~row.enabled
  BY DEF IInv, Generations, StopLiveReturns
<1> QED
  BY <1>1, <1>2, <1>3, FinishingStep

LEMMA WorkerAppliesStep == ASSUME IInv, NEW p \in Proc, WorkerApplies(p) PROVE IInv'
<1>1. /\ manager \in Reconciliation /\ manager.step = "applying" /\ manager.rev \in 0..MaxRevision
      /\ proc \in [Proc -> Process]
      /\ UNCHANGED <<row, retries, stops, current, registered, sup, counters>>
  BY DEF IInv, TypeOK, WorkerApplies, Reconciliation
<1>2. /\ manager' \in Reconciliation /\ manager'.step = "applied" /\ manager'.again = manager.again
      /\ manager'.rev = manager.rev /\ manager'.owner = manager.owner
      /\ manager'.attempted = manager.attempted
  BY <1>1 DEF WorkerApplies, Reconciliation
<1>3. proc' = [proc EXCEPT ![p].rev = manager.rev]
  BY DEF WorkerApplies
<1>4. proc' \in [Proc -> Process] /\ \A q \in Proc : proc'[q].life = proc[q].life
  BY <1>1, <1>3 DEF Process
<1>5. TypeOK'
  <2>1. /\ row' \in Row /\ retries' \in 0..MaxRetries /\ stops' \subseteq Proc \cup {none}
        /\ current' \in Sup \cup {none} /\ sup' \in [Sup -> Supervisor]
        /\ requests' \in 0..MaxRequests /\ crashes' \in 0..MaxCrashes
    BY <1>1 DEF IInv, TypeOK
  <2>2. registered' \in BOOLEAN
    BY <1>1 DEF IInv, TypeOK
  <2> QED
    BY <1>2, <1>4, <2>1, <2>2, TypedNext
<1>6. (\A s \in Sup : Kept(sup[s]))'
  BY <1>1 DEF IInv
<1>7. Routed'
  BY <1>1, <1>2, <1>4 DEF IInv, Routed, Ending, Served, Serving
<1>8. Generations' /\ PendingIsTakenUp'
  BY <1>1, <1>2 DEF IInv, Generations, PendingIsTakenUp
<1> QED
  BY <1>5, <1>6, <1>7, <1>8 DEF IInv

LEMMA ApplyFailsStep == ASSUME IInv, ApplyFails PROVE IInv'
<1>1. /\ manager \in Reconciliation /\ row \in Row /\ Replace(manager)
      /\ UNCHANGED <<row, retries, stops, registered, counters>>
  BY DEF IInv, TypeOK, ApplyFails
<1>2. /\ manager.attempted <= row.revision
      /\ row.state = "pending" => manager.attempted # row.revision
      /\ ~manager.again => manager.rev = row.revision /\ row.state # "pending"
  BY DEF IInv, Generations, ApplyFails
<1> QED
  BY <1>1, <1>2, Replacing

LEMMA ApplyReturnsStep == ASSUME IInv, ApplyReturns PROVE IInv'
<1>1. /\ manager \in Reconciliation /\ row \in Row /\ manager.step = "applied"
      /\ manager.owner \in Sup /\ retries \in 0..MaxRetries
      /\ UNCHANGED <<retries, stops, registered, counters>>
  BY DEF IInv, TypeOK, Generations, ApplyReturns
<1>2. /\ manager.attempted <= row.revision
      /\ row.state = "pending" => manager.attempted # row.revision
      /\ ~manager.again => manager.rev = row.revision /\ row.state # "pending"
  BY <1>1 DEF IInv, Generations
<1>3. CASE row.revision # manager.rev /\ Replace(manager) /\ UNCHANGED row
  BY <1>1, <1>2, <1>3, Replacing
<1>4. ASSUME NEW state \in {"active", "failed"}, NEW config \in Config,
             row.revision = manager.rev, manager' = Finished(manager),
             row' = Marked(state, manager.rev), UNCHANGED <<current, proc>>,
             sup' = IF sup[manager.owner] = Nobody THEN sup
                    ELSE [sup EXCEPT ![manager.owner].env = config, ![manager.owner].envRev = manager.rev]
      PROVE  IInv'
  <2>1. /\ row' \in Row /\ row'.revision = row.revision /\ row'.state = state
        /\ row'.enabled = row.enabled
    BY <1>1, <1>4, Restating DEF Marked
  <2>2. /\ manager' \in Reconciliation /\ manager'.again = manager.again
        /\ manager'.step = (IF manager.again THEN "head" ELSE "idle")
        /\ manager'.attempted = manager.attempted
    BY <1>1, <1>4, Finishing
  <2>3. manager.rev \in 0..MaxRevision /\ sup \in [Sup -> Supervisor]
    BY <1>1 DEF Reconciliation, IInv, TypeOK
  <2>4. /\ sup' \in [Sup -> Supervisor]
        /\ \A s \in Sup : /\ sup'[s].child = sup[s].child /\ sup'[s].timer = sup[s].timer
                          /\ sup'[s].spawning = sup[s].spawning /\ sup'[s].boot = sup[s].boot
                          /\ sup'[s].healthyOnce = sup[s].healthyOnce
    BY <1>1, <1>4, <2>3 DEF Supervisor
  <2>5. (\A s \in Sup : Kept(sup[s]))'
    BY <2>4 DEF IInv, Kept
  <2>6. TypeOK'
    <3>1. /\ retries' \in 0..MaxRetries /\ stops' \subseteq Proc \cup {none}
          /\ current' \in Sup \cup {none} /\ proc' \in [Proc -> Process]
          /\ requests' \in 0..MaxRequests /\ crashes' \in 0..MaxCrashes
      BY <1>1, <1>4 DEF IInv, TypeOK
    <3>2. registered' \in BOOLEAN
      BY <1>1 DEF IInv, TypeOK
    <3> QED
      BY <2>1, <2>2, <2>4, <3>1, <3>2, TypedNext
  <2>7. Routed'
    <3>1. registered /\ stops = {} => current # none /\ Served(current)
      BY <1>1 DEF IInv, Routed, Ending
    <3>2. current \in Sup \cup {none}
      BY DEF IInv, TypeOK
    <3> QED
      BY <1>1, <1>4, <2>4, <3>1, <3>2 DEF Routed, Ending, Served, Serving
  <2>8. Generations' /\ PendingIsTakenUp'
    BY <1>2, <1>4, <2>1, <2>2 DEF Generations, PendingIsTakenUp
  <2> QED
    BY <2>5, <2>6, <2>7, <2>8 DEF IInv
<1>5. manager.config \in Config /\ sup[manager.owner].env \in Config
  BY <1>1 DEF Reconciliation, IInv, TypeOK, Supervisor
<1> QED
  BY <1>3, <1>4, <1>5 DEF ApplyReturns

LEMMA ReplaceContinuesStep == ASSUME IInv, ReplaceContinues PROVE IInv'
<1>1. /\ manager \in Reconciliation /\ row \in Row /\ manager.step = "replacing" /\ ~registered'
      /\ manager' = Finished(manager) /\ UNCHANGED <<row, retries, stops, proc, counters>>
      /\ manager.rev \in 0..MaxRevision /\ manager.config \in Config
  BY DEF IInv, TypeOK, ReplaceContinues, Reconciliation
<1>2. /\ manager.attempted <= row.revision
      /\ row.state = "pending" => manager.attempted # row.revision
      /\ ~manager.again => row.state # "pending"
  BY <1>1 DEF IInv, Generations
<1>3. /\ manager' \in Reconciliation /\ manager'.again = manager.again
      /\ manager'.step = (IF manager.again THEN "head" ELSE "idle")
      /\ manager'.attempted = manager.attempted
  BY <1>1, Finishing
<1>4. Generations' /\ PendingIsTakenUp' /\ Routed'
  BY <1>1, <1>2, <1>3 DEF Generations, PendingIsTakenUp, Routed
<1> DEFINE n == [Nobody EXCEPT !.rev = manager.rev, !.env = manager.config,
                   !.envRev = manager.rev, !.stopping = FALSE, !.spawning = "mkdir"]
<1>5. n \in Supervisor /\ Kept(n)
  BY <1>1, NobodyIsKept DEF Nobody, Supervisor, Kept
<1>6. /\ current' \in Sup \cup {none} /\ sup' \in [Sup -> Supervisor]
      /\ \A s \in Sup : Kept(sup'[s])
  <2>1. \/ UNCHANGED <<sup, current>>
        \/ \E s \in Sup : sup' = [sup EXCEPT ![s] = n] /\ current' = s
    BY DEF ReplaceContinues
  <2> HIDE DEF n
  <2> QED
    BY <1>5, <2>1 DEF IInv, TypeOK
<1>7. TypeOK'
  <2>1. /\ retries' \in 0..MaxRetries /\ stops' \subseteq Proc \cup {none} /\ proc' \in [Proc -> Process]
        /\ row' \in Row /\ requests' \in 0..MaxRequests /\ crashes' \in 0..MaxCrashes
    BY <1>1 DEF IInv, TypeOK
  <2>2. registered' \in BOOLEAN
    BY DEF ReplaceContinues
  <2> QED
    BY <1>3, <1>6, <2>1, <2>2, TypedNext
<1> QED
  BY <1>4, <1>6, <1>7 DEF IInv

-----------------------------------------------------------------------------
(* Supervisors and their processes *)

(* A step of a supervisor that does not have a worker in service.           *)
LEMMA SupervisorMoves ==
  ASSUME IInv, NEW s \in Sup, ~Served(s),
         NEW n \in Supervisor, Kept(n), sup' = [sup EXCEPT ![s] = n],
         row' \in Row, row'.revision = row.revision, row'.enabled = row.enabled,
         row' = row \/ row'.state # "pending",
         proc' \in [Proc -> Process],
         \A q \in Proc : proc[q].life = "serving" => proc'[q].life = "serving",
         registered' \in BOOLEAN,
         registered' => \/ registered
                        \/ current = s /\ n.child \in Serving' /\ n.healthyOnce /\ n.spawning = "no",
         UNCHANGED <<manager, retries, stops, current, counters>>
  PROVE  IInv'
<1>1. TypeOK'
  <2>1. /\ manager' \in Reconciliation /\ retries' \in 0..MaxRetries /\ stops' \subseteq Proc \cup {none}
        /\ current' \in Sup \cup {none} /\ requests' \in 0..MaxRequests /\ crashes' \in 0..MaxCrashes
        /\ sup' \in [Sup -> Supervisor]
    BY DEF IInv, TypeOK
  <2> QED
    BY <2>1, TypedNext
<1>2. (\A t \in Sup : Kept(sup[t]))'
  BY DEF IInv, TypeOK
<1>3. Routed'
  <2>1. current \in Sup \cup {none} /\ sup \in [Sup -> Supervisor]
    BY DEF IInv, TypeOK
  <2>2. Ending' = Ending
    BY DEF Ending
  <2>3. ASSUME registered, ~Ending PROVE current # none /\ Served(current)'
    BY <2>1, <2>3 DEF IInv, Routed, Served, Serving
  <2>4. ASSUME current = s, n.child \in Serving', n.healthyOnce, n.spawning = "no"
        PROVE  current # none /\ Served(current)'
    BY <2>1, <2>4 DEF Served
  <2> QED
    BY <2>2, <2>3, <2>4 DEF Routed
<1>4. Generations' /\ PendingIsTakenUp'
  BY DEF IInv, Generations, PendingIsTakenUp
<1> QED
  BY <1>1, <1>2, <1>3, <1>4 DEF IInv

LEMMA Throwing ==
  ASSUME IInv, NEW s \in Sup, ~Served(s), NEW after \in Supervisor, after.child = none,
         SpawnThrows(s, after),
         UNCHANGED <<manager, retries, stops, current, registered, proc, counters>>
  PROVE  IInv'
<1> DEFINE t == [after EXCEPT !.spawning = "no", !.boot = none,
                   !.timer = @ \/ (after.healthyOnce /\ ~after.stopping)]
<1>1. t \in Supervisor
  BY DEF Supervisor
<1>2. Kept(t)
  BY DEF Supervisor, Kept
<1>3. sup' = [sup EXCEPT ![s] = Collected(t)]
  BY DEF SpawnThrows
<1> HIDE DEF t
<1> DEFINE n == Collected(t)
<1>4. n \in Supervisor /\ Kept(n)
  BY <1>1, <1>2, Collecting
<1>5. row \in Row /\ proc \in [Proc -> Process]
  BY DEF IInv, TypeOK
<1>6. registered' \in BOOLEAN /\ registered' = registered
  BY DEF IInv, TypeOK
<1>7. /\ row' \in Row /\ row'.revision = row.revision /\ row'.enabled = row.enabled
      /\ row' = row \/ row'.state # "pending"
  BY <1>5, Restating DEF SpawnThrows
<1>8. /\ UNCHANGED <<manager, retries, stops, current, proc, counters>>
      /\ \A q \in Proc : proc[q].life = "serving" => proc'[q].life = "serving"
  OBVIOUS
<1>9. sup' = [sup EXCEPT ![s] = n]
  BY <1>3
<1>10. IInv /\ s \in Sup /\ ~Served(s)
  OBVIOUS
<1>11. proc' \in [Proc -> Process]
  BY <1>5, <1>8
<1> HIDE DEF n
<1> QED
  BY ONLY <1>4, <1>6, <1>7, <1>8, <1>9, <1>10, <1>11, SupervisorMoves

LEMMA SpawnStep == ASSUME IInv, NEW s \in Sup, Spawn(s) PROVE IInv'
<1>1. PICK p \in Proc :
         /\ Free(p)
         /\ proc' = [proc EXCEPT ![p] = [life |-> "booting", termed |-> FALSE, rev |-> sup[s].envRev]]
         /\ sup' = [sup EXCEPT ![s].child = p, ![s].boot = p, ![s].spawning = "health"]
  BY DEF Spawn
<1>2. /\ sup[s] \in Supervisor /\ Kept(sup[s]) /\ sup[s].spawning = "mkdir"
      /\ sup \in [Sup -> Supervisor] /\ proc \in [Proc -> Process] /\ row \in Row
      /\ UNCHANGED <<row, manager, retries, stops, current, counters>>
  BY DEF IInv, TypeOK, Spawn
<1> DEFINE n == [sup[s] EXCEPT !.child = p, !.boot = p, !.spawning = "health"]
<1>3. n \in Supervisor
  BY <1>2 DEF Supervisor
<1>4. Kept(n)
  BY <1>2 DEF Supervisor, Kept
<1>5. sup' = [sup EXCEPT ![s] = n]
  BY <1>1, <1>2
<1>6. /\ proc' \in [Proc -> Process]
      /\ \A q \in Proc : proc[q].life = "serving" => proc'[q].life = "serving"
  BY <1>1, <1>2 DEF Free, Process, Supervisor
<1>7. registered' \in BOOLEAN /\ registered' = registered
  BY DEF IInv, TypeOK, Spawn
<1>8. ~Served(s)
  BY <1>2 DEF Served
<1> HIDE DEF n
<1> QED
  BY <1>2, <1>3, <1>4, <1>5, <1>6, <1>7, <1>8, SupervisorMoves

LEMMA HealthOkStep == ASSUME IInv, NEW s \in Sup, HealthOk(s) PROVE IInv'
<1> DEFINE kept   == sup[s].child = sup[s].boot
           booted == [sup[s] EXCEPT !.spawning = "no", !.boot = none, !.healthyOnce = @ \/ kept]
           ready  == kept /\ Concerned(s)
<1>1. /\ sup[s] \in Supervisor /\ Kept(sup[s]) /\ sup[s].spawning = "health"
      /\ sup[s].boot \in Serving /\ proc \in [Proc -> Process] /\ row \in Row
      /\ UNCHANGED <<manager, retries, stops, current, proc, counters>>
  BY DEF IInv, TypeOK, HealthOk
<1>2. booted \in Supervisor
  BY <1>1 DEF Supervisor
<1>3. Kept(booted)
  BY <1>1 DEF Supervisor, Kept
<1>4. /\ booted.child = sup[s].child /\ booted.spawning = "no"
      /\ kept => booted.healthyOnce
  BY <1>1 DEF Supervisor
<1>5. sup' = [sup EXCEPT ![s] = Collected(booted)]
  BY DEF HealthOk
<1>6. /\ row' \in Row /\ row'.revision = row.revision /\ row'.enabled = row.enabled
      /\ row' = row \/ row'.state # "pending"
  BY <1>1, Restating DEF HealthOk, Marked
<1>7. registered' \in BOOLEAN /\ registered' = (registered \/ ready)
  BY DEF IInv, TypeOK, HealthOk
<1>8. ~Served(s)
  BY <1>1 DEF Served
<1>9. ready => current = s /\ booted.child \in Serving'
  BY <1>1, <1>4 DEF Concerned, Serving
<1>10. ready => booted.healthyOnce /\ booted.child # none
  BY <1>4, <1>9 DEF Serving
<1> HIDE DEF booted
<1>11. Collected(booted) \in Supervisor /\ Kept(Collected(booted))
  BY <1>2, <1>3, Collecting
<1>12. ready => Collected(booted) = booted
  BY <1>2, <1>10, Collecting
<1>13. registered' => \/ registered
                      \/ /\ current = s /\ Collected(booted).child \in Serving'
                         /\ Collected(booted).healthyOnce /\ Collected(booted).spawning = "no"
  BY <1>4, <1>7, <1>9, <1>10, <1>12
<1>14. \A q \in Proc : proc[q].life = "serving" => proc'[q].life = "serving"
  BY <1>1
<1> QED
  BY <1>1, <1>5, <1>6, <1>7, <1>8, <1>11, <1>13, <1>14, SupervisorMoves

LEMMA HealthFailsStep == ASSUME IInv, NEW s \in Sup, HealthFails(s) PROVE IInv'
<1> DEFINE p     == sup[s].boot
           after == [sup[s] EXCEPT !.child = IF @ = p THEN none ELSE @]
           n     == [after EXCEPT !.spawning = "failing"]
<1>1. /\ sup[s] \in Supervisor /\ Kept(sup[s]) /\ sup[s].spawning = "health"
      /\ p \in Proc \cup {none} /\ proc \in [Proc -> Process] /\ row \in Row
      /\ UNCHANGED <<manager, retries, stops, current, counters>>
  BY DEF IInv, TypeOK, HealthFails, Supervisor
<1>2. after \in Supervisor /\ after.child = none
  BY <1>1 DEF Supervisor, Kept
<1>3. n \in Supervisor
  BY <1>2 DEF Supervisor
<1>4. Kept(n)
  BY <1>2 DEF Supervisor, Kept
<1>5. ~Served(s)
  BY <1>1 DEF Served
<1>6. registered' \in BOOLEAN /\ registered' = registered
  BY DEF IInv, TypeOK, HealthFails
<1>7. CASE SpawnThrows(s, after) /\ UNCHANGED proc
  <2> HIDE DEF after
  <2> QED
    BY <1>1, <1>2, <1>5, <1>6, <1>7, Throwing
<1>8. CASE sup' = [sup EXCEPT ![s] = n] /\ proc' = Signalled(p) /\ UNCHANGED row
  <2>1. \A q \in Proc : proc'[q].life = proc[q].life
    BY <1>1, <1>8 DEF Signalled, Process
  <2>2. proc' \in [Proc -> Process]
    BY <1>1, <1>8, Signalling
  <2> HIDE DEF n
  <2> QED
    BY <1>1, <1>3, <1>4, <1>5, <1>6, <1>8, <2>1, <2>2, SupervisorMoves
<1> QED
  BY <1>7, <1>8 DEF HealthFails

LEMMA FailingReturnsStep == ASSUME IInv, NEW s \in Sup, FailingReturns(s) PROVE IInv'
<1>1. /\ sup[s] \in Supervisor /\ sup[s].child = none /\ ~Served(s) /\ SpawnThrows(s, sup[s])
  BY DEF IInv, TypeOK, FailingReturns, Kept, Served
<1>2. UNCHANGED <<manager, retries, stops, current, registered, proc, counters>>
  BY DEF FailingReturns
<1> QED
  BY <1>1, <1>2, Throwing

LEMMA RestartFiresStep == ASSUME IInv, NEW s \in Sup, RestartFires(s) PROVE IInv'
<1>1. /\ sup[s] \in Supervisor /\ Kept(sup[s]) /\ sup[s].timer /\ sup[s].spawning = "no"
      /\ sup \in [Sup -> Supervisor] /\ proc \in [Proc -> Process] /\ row \in Row
      /\ UNCHANGED <<row, manager, retries, stops, current, proc, counters>>
  BY DEF IInv, TypeOK, RestartFires
<1> DEFINE n == [sup[s] EXCEPT !.timer = FALSE, !.spawning = "mkdir"]
<1>2. n \in Supervisor
  BY <1>1 DEF Supervisor
<1>3. Kept(n)
  BY <1>1 DEF Supervisor, Kept
<1>4. sup' = [sup EXCEPT ![s] = n]
  BY <1>1 DEF RestartFires
<1>5. ~Served(s)
  BY <1>1 DEF Kept, Served, Serving
<1>6. registered' \in BOOLEAN /\ registered' = registered
  BY DEF IInv, TypeOK, RestartFires
<1> HIDE DEF n
<1> QED
  BY <1>1, <1>2, <1>3, <1>4, <1>5, <1>6, SupervisorMoves

LEMMA ExitStep ==
  ASSUME IInv, NEW p \in Proc, Exit(p), crashes' \in 0..MaxCrashes
  PROVE  IInv'
<1>1. /\ sup \in [Sup -> Supervisor] /\ proc \in [Proc -> Process] /\ row \in Row
      /\ current \in Sup \cup {none}
      /\ UNCHANGED <<manager, retries, stops, current, requests>>
  BY DEF IInv, TypeOK, Exit
<1>2. proc' = [proc EXCEPT ![p] = GoneProcess] /\ GoneProcess \in Process
  BY DEF Exit, GoneProcess, Process
<1>3. proc' \in [Proc -> Process] /\ \A q \in Proc : q # p => proc'[q] = proc[q]
  BY <1>1, <1>2
<1>4. /\ manager' \in Reconciliation /\ retries' \in 0..MaxRetries /\ stops' \subseteq Proc \cup {none}
      /\ current' \in Sup \cup {none} /\ requests' \in 0..MaxRequests
  BY <1>1 DEF IInv, TypeOK
<1>5. CASE \E s \in Sup : sup[s].child = p
  <2> DEFINE s == CHOOSE t \in Sup : sup[t].child = p
  <2>1. s \in Sup /\ sup[s].child = p /\ sup[s] \in Supervisor /\ Kept(sup[s])
    BY <1>1, <1>5 DEF IInv
  <2>2. /\ sup' = [sup EXCEPT ![s] = Exited(sup[s])] /\ registered' = FALSE
        /\ row' = IF Concerned(s) THEN [row EXCEPT !.state = "failed"] ELSE row
    BY <1>5, Zenon DEF Exit
  <2> HIDE DEF s
  <2>3. Exited(sup[s]) \in Supervisor /\ Kept(Exited(sup[s]))
    BY <2>1, Exiting
  <2>4. sup' \in [Sup -> Supervisor] /\ \A t \in Sup : Kept(sup'[t])
    BY <1>1, <2>1, <2>2, <2>3 DEF IInv
  <2>5. /\ row' \in Row /\ row'.revision = row.revision /\ row'.enabled = row.enabled
        /\ row' = row \/ row'.state # "pending"
    BY <1>1, <2>2, Restating
  <2>6. registered' \in BOOLEAN /\ Routed'
    BY <2>2 DEF Routed
  <2>7. TypeOK'
    BY <1>3, <1>4, <2>4, <2>5, <2>6, TypedNext
  <2>8. Generations' /\ PendingIsTakenUp'
    BY <1>1, <2>5 DEF IInv, Generations, PendingIsTakenUp
  <2> QED
    BY <2>4, <2>6, <2>7, <2>8 DEF IInv
<1>6. CASE ~\E s \in Sup : sup[s].child = p
  <2>1. UNCHANGED <<sup, registered, row>>
    BY <1>6 DEF Exit
  <2>2. registered' \in BOOLEAN
    BY <2>1 DEF IInv, TypeOK
  <2>3. TypeOK'
    BY <1>1, <1>3, <1>4, <2>1, <2>2, TypedNext
  <2>4. (\A s \in Sup : Kept(sup[s]))' /\ Generations' /\ PendingIsTakenUp'
    BY <1>1, <2>1 DEF IInv, Generations, PendingIsTakenUp
  <2>5. Routed'
    BY <1>1, <1>3, <1>6, <2>1 DEF IInv, Routed, Ending, Served, Serving
  <2> QED
    BY <2>3, <2>4, <2>5 DEF IInv
<1> QED
  BY <1>5, <1>6

LEMMA ListenStep == ASSUME IInv, NEW p \in Proc, Listen(p) PROVE IInv'
<1>1. /\ proc \in [Proc -> Process] /\ proc' = [proc EXCEPT ![p].life = "serving"]
      /\ UNCHANGED <<row, manager, retries, stops, current, registered, sup, counters>>
  BY DEF IInv, TypeOK, Listen
<1>2. /\ proc' \in [Proc -> Process]
      /\ \A q \in Proc : proc[q].life = "serving" => proc'[q].life = "serving"
  BY <1>1 DEF Process
<1>3. TypeOK'
  <2>1. /\ row' \in Row /\ manager' \in Reconciliation /\ retries' \in 0..MaxRetries
        /\ stops' \subseteq Proc \cup {none} /\ current' \in Sup \cup {none}
        /\ sup' \in [Sup -> Supervisor] /\ requests' \in 0..MaxRequests /\ crashes' \in 0..MaxCrashes
    BY <1>1 DEF IInv, TypeOK
  <2>2. registered' \in BOOLEAN
    BY <1>1 DEF IInv, TypeOK
  <2> QED
    BY <1>2, <2>1, <2>2, TypedNext
<1>4. (\A s \in Sup : Kept(sup[s]))' /\ Generations' /\ PendingIsTakenUp'
  BY <1>1 DEF IInv, Generations, PendingIsTakenUp
<1>5. Routed'
  BY <1>1, <1>2 DEF IInv, Routed, Ending, Served, Serving
<1> QED
  BY <1>3, <1>4, <1>5 DEF IInv

-----------------------------------------------------------------------------
(* The theorems *)

LEMMA Step == IInv /\ [Next]_vars => IInv'
<1> SUFFICES ASSUME IInv, [Next]_vars PROVE IInv'
  OBVIOUS
<1>1. CASE Requesting
  BY <1>1, UpdateStep, ReplayStep, StartStep, StopStep DEF Requesting
<1>2. CASE ManagerStep
  BY <1>2, ReconcileStep, ApplyReturnsStep, ReplaceContinuesStep, StopLiveReturnsStep,
     RetryFiresStep, StopReturnsStep DEF ManagerStep
<1>3. CASE WaitEnds
  BY <1>3, ReadyReturnsStep, ReadyFailsStep DEF WaitEnds
<1>4. CASE PostEnds
  BY <1>4, ApplyFailsStep, WorkerAppliesStep DEF PostEnds
<1>5. ASSUME NEW s \in Sup, SupervisorStep(s) PROVE IInv'
  BY <1>5, SpawnStep, HealthOkStep, HealthFailsStep, FailingReturnsStep, RestartFiresStep
  DEF SupervisorStep
<1>6. ASSUME NEW p \in Proc, ProcessStep(p) PROVE IInv'
  <2>1. CASE Listen(p)
    BY <2>1, ListenStep
  <2>2. CASE PortTaken(p) \/ Terminated(p)
    <3>1. Exit(p) /\ crashes' \in 0..MaxCrashes
      BY <2>2 DEF PortTaken, Terminated, IInv, TypeOK
    <3> QED
      BY <3>1, ExitStep
  <2> QED
    BY <1>6, <2>1, <2>2 DEF ProcessStep
<1>7. ASSUME NEW p \in Proc, Crash(p) PROVE IInv'
  <2>1. Exit(p) /\ crashes' \in 0..MaxCrashes
    BY <1>7 DEF Crash, IInv, TypeOK
  <2> QED
    BY <2>1, ExitStep
<1>8. CASE UNCHANGED vars
  BY <1>8 DEF IInv, TypeOK, Routed, Ending, Served, Serving, Generations, PendingIsTakenUp, vars
<1> QED
  BY <1>1, <1>2, <1>3, <1>4, <1>5, <1>6, <1>7, <1>8 DEF Next

(* In every state the row, the manager, the supervisors and the worker      *)
(* processes of agent-manager.ts and supervisor.ts have the types the code  *)
(* gives them.                                                              *)
THEOREM TypeCorrect == Spec => []TypeOK
<1>1. IInv => TypeOK
  BY DEF IInv
<1> QED
  BY <1>1, Initially, Step, PTL DEF Spec

(* Requests are routed to a live worker that has been healthy, the current  *)
(* supervisor's, unless somebody waits for that worker to end: onReady,     *)
(* onExit and stopLive register and unregister in step with the processes,  *)
(* whatever requests, timers and exits interleave.                          *)
THEOREM RoutedOnlyToLive == Spec => []RoutedToLiveWorker
<1>1. IInv => RoutedToLiveWorker
  BY DEF IInv, Routed, Ending, Served, RoutedToLiveWorker, ChildOf
<1> QED
  BY <1>1, Initially, Step, PTL DEF Spec

(* schedule and drain lose no wake-up: an enabled agent whose configuration *)
(* is pending has a drain running or a retry timer set.                     *)
THEOREM NoLostRequest == Spec => []PendingIsTakenUp
<1>1. IInv => PendingIsTakenUp
  BY DEF IInv
<1> QED
  BY <1>1, Initially, Step, PTL DEF Spec

-----------------------------------------------------------------------------
(* A boot that failed *)

(* Whose supervisor a reconciliation holds.                                 *)
Owned ==
  /\ current # none => ~sup[current].stopping
  /\ manager.step \in {"idle", "head"} => manager.owner = none
  /\ manager.step \in {"readiness", "applying", "applied"}
       => manager.owner \in Sup /\ current \in {none, manager.owner}
  /\ manager.step = "replacing" => current = none

(* A supervisor of the desired revision has its settings.                   *)
Revisions ==
  /\ \A s \in Sup : /\ sup[s].rev <= row.revision
                    /\ sup[s].rev = row.revision => sup[s].env = row.config
                    /\ sup[s].timer => sup[s].healthyOnce
  /\ manager.step \in {"applying", "applied", "replacing"}
       => /\ manager.rev <= row.revision
          /\ manager.rev = row.revision => manager.config = row.config
  /\ manager.step \in {"applying", "applied"} => \A s \in Sup : sup[s].rev <= manager.rev

(* Nothing is under way to make a failed revision active again, unless its  *)
(* worker was healthy once.                                                 *)
Failures ==
  /\ manager.step \in {"applying", "applied", "replacing"} => row.state # "failed"
  /\ manager.step \in {"applying", "applied"} /\ manager.rev = row.revision /\ current # none
       => sup[current].env.hot # row.config.hot
  /\ manager.step = "readiness" /\ current = none => row.state # "failed"
  /\ row.state = "failed" /\ row.enabled /\ current # none /\ sup[current].env = row.config
       => sup[current].healthyOnce \/ (sup[current].child = none /\ sup[current].spawning # "mkdir")

Boots == Owned /\ Revisions /\ Failures

LEMMA BootsInitially == Init => Boots
<1> SUFFICES ASSUME Init PROVE Boots
  OBVIOUS
<1>1. row \in Row /\ row.revision = 1 /\ current = none
  BY DEF Init
<1>2. manager.step \in {"idle", "head"} /\ manager.owner = none
  BY DEF Init
<1>3. \A s \in Sup : sup[s].rev = 0 /\ ~sup[s].timer
  BY DEF Init, Nobody
<1> QED
  BY <1>1, <1>2, <1>3 DEF Boots, Owned, Revisions, Failures

LEMMA BootsKnown ==
  ASSUME IInv
  PROVE  /\ row \in Row /\ row.revision \in Nat \ {0} /\ manager \in Reconciliation /\ manager.rev \in Nat
         /\ current \in Sup \cup {none} /\ none \notin Sup
         /\ sup \in [Sup -> Supervisor] /\ proc \in [Proc -> Process]
         /\ \A s \in Sup : sup[s].rev \in Nat /\ Kept(sup[s])
<1>1. row \in Row /\ manager \in Reconciliation /\ sup \in [Sup -> Supervisor]
  BY DEF IInv, TypeOK
<1>2. row.revision \in Nat \ {0}
  BY <1>1 DEF Row
<1>3. manager.rev \in Nat
  BY <1>1 DEF Reconciliation
<1>4. \A s \in Sup : sup[s].rev \in Nat
  BY <1>1 DEF Supervisor
<1> QED
  BY <1>1, <1>2, <1>3, <1>4 DEF IInv, TypeOK

(* A reconciliation that is over holds nothing.                             *)
LEMMA BootsIdle ==
  ASSUME IInv, Boots, manager'.step \in {"idle", "head"}, manager'.owner = none,
         UNCHANGED <<row, current, sup>>
  PROVE  Boots'
BY DEF Boots, Owned, Revisions, Failures

LEMMA FinishedHolds ==
  ASSUME NEW m \in Reconciliation
  PROVE  Finished(m).step \in {"idle", "head"} /\ Finished(m).owner = none
<1>1. (IF m.again THEN "head" ELSE "idle") \in {"idle", "head"}
  OBVIOUS
<1> QED
  BY <1>1 DEF Finished, Reconciliation

LEMMA ScheduledHolds ==
  ASSUME NEW m \in Reconciliation
  PROVE  /\ Scheduled(m).step = IF m.step = "idle" THEN "head" ELSE m.step
         /\ Scheduled(m).owner = m.owner /\ Scheduled(m).rev = m.rev /\ Scheduled(m).config = m.config
BY DEF Scheduled, Reconciliation

(* A request changes the row, and asks.                                     *)
LEMMA BootsAsked ==
  ASSUME IInv, Boots, NEW m \in Reconciliation, m.step = manager.step, m.owner = manager.owner,
         m.rev = manager.rev, m.config = manager.config, manager' = Scheduled(m),
         row'.revision \in Nat,
         \/ row' = row
         \/ (row'.state # "failed" /\ row'.revision > row.revision)
         \/ (row'.state # "failed" /\ row'.revision = row.revision /\ row'.config = row.config),
         UNCHANGED <<current, sup>>
  PROVE  Boots'
<1>1. /\ manager'.step = IF manager.step = "idle" THEN "head" ELSE manager.step
      /\ manager'.owner = manager.owner /\ manager'.rev = manager.rev /\ manager'.config = manager.config
  BY ScheduledHolds
<1>2. Owned'
  BY <1>1 DEF Boots, Owned
<1>3. Revisions'
  BY <1>1, BootsKnown DEF Boots, Revisions
<1>4. Failures'
  BY <1>1, BootsKnown DEF Boots, Failures, Revisions
<1> QED
  BY <1>2, <1>3, <1>4 DEF Boots

(* Taking the current supervisor out of the table.                          *)
LEMMA BootsOusted ==
  ASSUME IInv, Boots, StopProcess
  PROVE  /\ current' = none
         /\ \A s \in Sup : \/ sup'[s].rev = 0 /\ ~sup'[s].timer
                           \/ /\ sup'[s].rev = sup[s].rev /\ sup'[s].env = sup[s].env
                              /\ sup'[s].timer => sup[s].timer /\ sup'[s].healthyOnce = sup[s].healthyOnce
<1>1. current' = none
  BY DEF StopProcess
<1>2. CASE current = none
  BY <1>1, <1>2 DEF StopProcess
<1>3. CASE current # none
  <2> DEFINE c == sup[current]
             t == [c EXCEPT !.stopping = TRUE, !.timer = FALSE, !.child = none]
  <2>1. current \in Sup /\ c \in Supervisor /\ sup \in [Sup -> Supervisor]
    BY <1>3, BootsKnown
  <2>2. sup' = [sup EXCEPT ![current] = Collected(t)]
    BY <1>3 DEF StopProcess, StoppedSupervisor
  <2>3. t.rev = c.rev /\ t.env = c.env /\ t.timer = FALSE
    BY <2>1 DEF Supervisor
  <2>4. Nobody.rev = 0 /\ Nobody.timer = FALSE
    BY DEF Nobody
  <2> HIDE DEF t
  <2>5. Collected(t) \in {t, Nobody}
    BY DEF Collected
  <2>6. \A s \in Sup : sup'[s] = IF s = current THEN Collected(t) ELSE sup[s]
    BY <2>1, <2>2
  <2>7. Collected(t).timer = FALSE /\ (Collected(t).rev = 0 \/ (Collected(t).rev = c.rev /\ Collected(t).env = c.env))
    BY <2>3, <2>4, <2>5
  <2> QED
    BY <1>1, <2>6, <2>7
<1> QED
  BY <1>2, <1>3

(* The settings a step of the manager reads are those of the row.           *)
LEMMA BootsReplacing ==
  ASSUME IInv, Boots, StopProcess,
         manager'.step \in {"replacing", "stopping"},
         manager'.step = "replacing" =>
           /\ row'.state # "failed" /\ manager'.rev <= row.revision
           /\ manager'.rev = row.revision => manager'.config = row.config,
         row'.revision = row.revision, row'.config = row.config
  PROVE  Boots'
<1>1. /\ current' = none
      /\ \A s \in Sup : /\ sup'[s].rev <= row.revision
                        /\ sup'[s].rev = row.revision => sup'[s].env = row.config
                        /\ sup'[s].timer => sup'[s].healthyOnce
  BY BootsOusted, BootsKnown DEF Boots, Revisions
<1>2. Owned'
  BY <1>1 DEF Owned
<1>3. Revisions'
  BY <1>1 DEF Revisions
<1>4. Failures'
  BY <1>1 DEF Failures
<1> QED
  BY <1>2, <1>3, <1>4 DEF Boots

LEMMA BootsRequested == ASSUME IInv, Boots, Requesting PROVE Boots'
<1>1. manager \in Reconciliation /\ row \in Row /\ row.revision \in Nat \ {0}
  BY BootsKnown
<1>2. ASSUME NEW c \in Config, Update(c) PROVE Boots'
  <2>1. row'.revision = row.revision + 1 /\ row'.state = "pending"
    BY <1>1, <1>2 DEF Update, Row
  <2>2. manager' = Scheduled(manager) /\ UNCHANGED <<current, sup>>
    BY <1>2 DEF Update
  <2> QED
    BY <1>1, <2>1, <2>2, BootsAsked
<1>3. CASE Replay
  BY <1>1, <1>3, BootsAsked DEF Replay
<1>4. CASE Start
  <2> DEFINE m == [manager EXCEPT !.attempted = 0]
  <2>1. /\ m \in Reconciliation /\ m.step = manager.step /\ m.owner = manager.owner
        /\ m.rev = manager.rev /\ m.config = manager.config
    BY <1>1 DEF Reconciliation
  <2>2. row'.revision = row.revision /\ row'.state = "pending" /\ row'.config = row.config
    BY <1>1, <1>4 DEF Start, Row
  <2>3. manager' = Scheduled(m) /\ UNCHANGED <<current, sup>>
    BY <1>4 DEF Start
  <2> HIDE DEF m
  <2> QED
    BY <1>1, <2>1, <2>2, <2>3, BootsAsked
<1>5. CASE Stop
  <2> DEFINE m == [manager EXCEPT !.attempted = 0]
  <2>1. /\ m \in Reconciliation /\ m.step = manager.step /\ m.owner = manager.owner
        /\ m.rev = manager.rev /\ m.config = manager.config
    BY <1>1 DEF Reconciliation
  <2>2. row'.revision = row.revision /\ row'.state = "draft" /\ row'.config = row.config
    BY <1>1, <1>5 DEF Stop, Row
  <2>3. manager' = Scheduled(m) /\ StopProcess
    BY <1>5 DEF Stop
  <2> HIDE DEF m
  <2>4. /\ manager'.step = IF manager.step = "idle" THEN "head" ELSE manager.step
        /\ manager'.owner = manager.owner /\ manager'.rev = manager.rev /\ manager'.config = manager.config
    BY <2>1, <2>3, ScheduledHolds
  <2>5. /\ current' = none
        /\ \A s \in Sup : \/ sup'[s].rev = 0 /\ ~sup'[s].timer
                          \/ /\ sup'[s].rev = sup[s].rev /\ sup'[s].env = sup[s].env
                             /\ sup'[s].timer => sup[s].timer /\ sup'[s].healthyOnce = sup[s].healthyOnce
    BY <2>3, BootsOusted
  <2>6. Owned'
    BY <2>4, <2>5 DEF Boots, Owned
  <2>7. Revisions'
    BY <1>1, <2>2, <2>4, <2>5, BootsKnown DEF Boots, Revisions
  <2>8. Failures'
    BY <2>2, <2>5 DEF Failures
  <2> QED
    BY <2>6, <2>7, <2>8 DEF Boots
<1> QED
  BY <1>2, <1>3, <1>4, <1>5 DEF Requesting

LEMMA BootsReplaced ==
  ASSUME IInv, Boots, NEW m \in Reconciliation, Replace(m), m.rev <= row.revision,
         m.rev = row.revision => m.config = row.config,
         row'.state # "failed", row'.revision = row.revision, row'.config = row.config
  PROVE  Boots'
<1>1. manager' = [m EXCEPT !.step = "replacing", !.awaits = ChildOf(current)] /\ StopProcess
  BY DEF Replace
<1>2. manager'.step = "replacing" /\ manager'.rev = m.rev /\ manager'.config = m.config
  BY <1>1 DEF Reconciliation
<1> QED
  BY <1>1, <1>2, BootsReplacing

LEMMA BootsAttempted ==
  ASSUME IInv, Boots, NEW m \in Reconciliation, Attempt(m),
         m.owner \in Sup => current \in {none, m.owner}
  PROVE  Boots'
<1> DEFINE held == [m EXCEPT !.attempted = row.revision, !.rev = row.revision, !.config = row.config]
           s    == sup[m.owner]
<1>1. row \in Row /\ row.revision \in Revision /\ row.config \in Config
  BY BootsKnown DEF Row
<1>2. /\ held \in Reconciliation /\ held.rev = row.revision /\ held.config = row.config
      /\ held.owner = m.owner /\ m.owner \in Sup \cup {none}
  <2>1. held \in Reconciliation /\ held.rev = row.revision /\ held.owner = m.owner
    BY <1>1, Holding
  <2>2. held.config = row.config /\ m.owner \in Sup \cup {none}
    BY DEF Reconciliation
  <2> QED
    BY <2>1, <2>2
<1>3. row.revision \in Nat \ {0} /\ none \notin Sup /\ \A t \in Sup : sup[t].rev \in Nat
  BY BootsKnown
<1>4. CASE row' = [row EXCEPT !.state = "active"] /\ manager' = Finished(held) /\ UNCHANGED <<current, sup, proc>>
  <2>1. row'.state = "active" /\ row'.revision = row.revision /\ row'.config = row.config
    BY <1>1, <1>4 DEF Row
  <2>2. manager'.step \in {"idle", "head"} /\ manager'.owner = none
    BY <1>2, <1>4, FinishedHolds
  <2> QED
    BY <1>4, <2>1, <2>2 DEF Boots, Owned, Revisions, Failures
<1>5. CASE /\ m.owner # none /\ s.env.hot # row.config.hot
           /\ row' = [row EXCEPT !.state = "applying"] /\ manager' = [held EXCEPT !.step = "applying"]
           /\ UNCHANGED <<current, sup, proc>>
  <2>1. row'.state = "applying" /\ row'.revision = row.revision /\ row'.config = row.config
    BY <1>1, <1>5 DEF Row
  <2>2. /\ manager'.step = "applying" /\ manager'.owner = m.owner
        /\ manager'.rev = row.revision /\ manager'.config = row.config
    BY <1>2, <1>5 DEF Reconciliation
  <2>3. Owned'
    BY <1>2, <1>5, <2>2 DEF Boots, Owned
  <2>4. Revisions'
    BY <1>3, <1>5, <2>1, <2>2 DEF Boots, Revisions
  <2>5. Failures'
    BY <1>2, <1>5, <2>1, <2>2 DEF Failures
  <2> QED
    BY <2>3, <2>4, <2>5 DEF Boots
<1>6. CASE row' = [row EXCEPT !.state = "applying"] /\ Replace(held)
  <2>1. row'.state = "applying" /\ row'.revision = row.revision /\ row'.config = row.config
    BY <1>1, <1>6 DEF Row
  <2> HIDE DEF held
  <2> QED
    BY <1>2, <1>3, <1>6, <2>1, BootsReplaced
<1> QED
  BY <1>4, <1>5, <1>6 DEF Attempt

LEMMA BootsReconciled == ASSUME IInv, Boots, Reconcile PROVE Boots'
<1> DEFINE m == [manager EXCEPT !.again = FALSE]
<1>1. manager \in Reconciliation /\ manager.step = "head" /\ manager.owner = none
  BY BootsKnown DEF Reconcile, Boots, Owned
<1>2. /\ m \in Reconciliation /\ m.step = "head" /\ m.owner = none
  BY <1>1 DEF Reconciliation
<1>3. CASE manager' = [m EXCEPT !.step = "stopping", !.awaits = ChildOf(current)] /\ StopProcess /\ UNCHANGED row
  <2>1. manager'.step = "stopping"
    BY <1>2, <1>3 DEF Reconciliation
  <2> QED
    BY <1>3, <2>1, BootsReplacing
<1>4. CASE manager' = Finished(m) /\ UNCHANGED <<row, current, sup, proc>>
  BY <1>2, <1>4, FinishedHolds, BootsIdle
<1>5. CASE /\ row.enabled /\ manager.attempted # row.revision /\ ChildOf(current) # none
           /\ manager' = [m EXCEPT !.step = "readiness", !.owner = current,
                                   !.awaits = ChildOf(current), !.rev = row.revision]
           /\ UNCHANGED <<row, current, sup, proc>>
  <2>1. current \in Sup
    BY <1>5, BootsKnown DEF ChildOf
  <2>2. manager'.step = "readiness" /\ manager'.owner = current
    BY <1>2, <1>5 DEF Reconciliation
  <2> QED
    BY <1>5, <2>1, <2>2, BootsKnown DEF Boots, Owned, Revisions, Failures
<1>6. CASE Attempt(m)
  <2> HIDE DEF m
  <2> QED
    BY <1>2, <1>6, BootsKnown, BootsAttempted
<1> QED
  BY <1>3, <1>4, <1>5, <1>6 DEF Reconcile

LEMMA BootsReady == ASSUME IInv, Boots, WaitEnds PROVE Boots'
<1>1. manager \in Reconciliation /\ manager.step = "readiness" /\ current \in {none, manager.owner}
  BY BootsKnown DEF WaitEnds, ReadyReturns, ReadyFails, Boots, Owned
<1>2. CASE manager' = Finished(manager) /\ UNCHANGED <<row, current, sup>>
  BY <1>1, <1>2, FinishedHolds, BootsIdle
<1>3. CASE Attempt(manager)
  BY <1>1, <1>3, BootsAttempted
<1> QED
  BY <1>2, <1>3 DEF WaitEnds, ReadyReturns, ReadyFails

LEMMA BootsPosted == ASSUME IInv, Boots, PostEnds PROVE Boots'
<1>1. manager \in Reconciliation /\ manager.step \in {"applying", "applied"}
  BY BootsKnown DEF PostEnds, ApplyFails, WorkerApplies
<1>2. CASE ApplyFails
  <2>1. manager.rev <= row.revision /\ row.state # "failed"
    BY <1>1 DEF Boots, Revisions, Failures
  <2>2. manager.rev = row.revision => manager.config = row.config
    BY <1>1 DEF Boots, Revisions
  <2> QED
    BY <1>1, <1>2, <2>1, <2>2, BootsReplaced DEF ApplyFails
<1>3. ASSUME NEW p \in Proc, WorkerApplies(p) PROVE Boots'
  <2>1. /\ manager.step = "applying" /\ manager'.step = "applied" /\ manager'.owner = manager.owner
        /\ manager'.rev = manager.rev /\ manager'.config = manager.config
        /\ UNCHANGED <<row, current, sup>>
    BY <1>1, <1>3 DEF WorkerApplies, Reconciliation
  <2> QED
    BY <2>1 DEF Boots, Owned, Revisions, Failures
<1> QED
  BY <1>2, <1>3 DEF PostEnds

LEMMA BootsAnswered == ASSUME IInv, Boots, ApplyReturns PROVE Boots'
<1> DEFINE s == manager.owner
<1>1. /\ manager \in Reconciliation /\ manager.step = "applied" /\ s \in Sup
      /\ sup \in [Sup -> Supervisor] /\ row \in Row
  BY BootsKnown DEF ApplyReturns, IInv, Generations
<1>2. manager.rev <= row.revision /\ (manager.rev = row.revision => manager.config = row.config)
  BY <1>1 DEF Boots, Revisions
<1>3. CASE row.revision # manager.rev /\ Replace(manager) /\ UNCHANGED row
  <2>1. row.state # "failed"
    BY <1>1 DEF Boots, Failures
  <2> QED
    BY <1>1, <1>2, <1>3, <2>1, BootsReplaced
<1>4. ASSUME NEW config, NEW state \in {"active", "failed"},
             state = "active" => config = manager.config,
             state = "failed" => config = sup[s].env,
             row.revision = manager.rev, manager' = Finished(manager), row' = Marked(state, manager.rev),
             sup' = IF sup[s] = Nobody THEN sup
                    ELSE [sup EXCEPT ![s].env = config, ![s].envRev = manager.rev],
             UNCHANGED current
      PROVE  Boots'
  <2>1. row'.revision = row.revision /\ row'.config = row.config /\ row'.state = state
    BY <1>1, <1>4 DEF Marked, Row
  <2>2. manager'.step \in {"idle", "head"} /\ manager'.owner = none
    BY <1>1, <1>4, FinishedHolds
  <2>3. \A t \in Sup :
          /\ sup'[t].rev = sup[t].rev /\ sup'[t].timer = sup[t].timer
          /\ sup'[t].healthyOnce = sup[t].healthyOnce /\ sup'[t].stopping = sup[t].stopping
          /\ sup'[t].env = sup[t].env \/ (t = s /\ sup'[t].env = config)
    BY <1>1, <1>4 DEF Supervisor
  <2>4. Owned'
    BY <1>4, <2>2, <2>3, BootsKnown DEF Boots, Owned
  <2>5. Revisions'
    <3>1. config \in {manager.config, sup[s].env}
      BY <1>4
    <3>2. \A t \in Sup : sup'[t].rev = row.revision => sup'[t].env = row.config
      <4>1. manager.config = row.config /\ \A t \in Sup : sup[t].rev = row.revision => sup[t].env = row.config
        BY <1>2, <1>4 DEF Boots, Revisions
      <4> QED
        BY <2>3, <3>1, <4>1
    <3>3. \A t \in Sup : sup'[t].rev <= row.revision /\ (sup'[t].timer => sup'[t].healthyOnce)
      BY <2>3 DEF Boots, Revisions
    <3> QED
      BY <2>1, <2>2, <3>2, <3>3 DEF Revisions
  <2>6. Failures'
    <3>1. state = "failed" => \A t \in Sup : sup'[t].env = sup[t].env
      BY <1>4, <2>3
    <3>2. current # none => sup[current].env.hot # row.config.hot
      BY <1>1, <1>4 DEF Boots, Failures
    <3> QED
      BY <1>4, <2>1, <2>2, <3>1, <3>2, BootsKnown DEF Failures
  <2> QED
    BY <2>4, <2>5, <2>6 DEF Boots
<1> QED
  BY <1>3, <1>4 DEF ApplyReturns

LEMMA BootsContinued == ASSUME IInv, Boots, ReplaceContinues PROVE Boots'
<1>1. /\ manager \in Reconciliation /\ manager.step = "replacing" /\ current = none
      /\ row.state # "failed" /\ sup \in [Sup -> Supervisor]
      /\ manager.rev = row.revision => manager.config = row.config
  BY BootsKnown DEF ReplaceContinues, Boots, Owned, Revisions, Failures
<1>2. manager'.step \in {"idle", "head"} /\ manager'.owner = none /\ row' = row
  BY <1>1, FinishedHolds DEF ReplaceContinues
<1>3. CASE UNCHANGED <<sup, current>>
  BY <1>2, <1>3, BootsIdle
<1>4. ASSUME UpToDate(manager.rev), NEW s \in Sup,
             sup' = [sup EXCEPT ![s] = [Nobody EXCEPT !.rev = manager.rev, !.env = manager.config,
                       !.envRev = manager.rev, !.stopping = FALSE, !.spawning = "mkdir"]],
             current' = s
      PROVE  Boots'
  <2> DEFINE n == [Nobody EXCEPT !.rev = manager.rev, !.env = manager.config,
                     !.envRev = manager.rev, !.stopping = FALSE, !.spawning = "mkdir"]
  <2>1. n.rev = manager.rev /\ n.env = manager.config /\ ~n.stopping /\ ~n.timer
    BY DEF Nobody
  <2>2. row.revision = manager.rev
    BY <1>4 DEF UpToDate
  <2>3. sup' = [sup EXCEPT ![s] = n]
    BY <1>4
  <2> HIDE DEF n
  <2>4. \A t \in Sup : sup'[t] = IF t = s THEN n ELSE sup[t]
    BY <1>1, <2>3
  <2>5. Owned'
    BY <1>2, <1>4, <2>1, <2>4 DEF Owned
  <2>6. Revisions'
    BY <1>1, <1>2, <2>1, <2>2, <2>4, BootsKnown DEF Boots, Revisions
  <2>7. Failures'
    BY <1>1, <1>2 DEF Failures
  <2> QED
    BY <2>5, <2>6, <2>7 DEF Boots
<1> QED
  BY <1>3, <1>4 DEF ReplaceContinues

LEMMA BootsManaged == ASSUME IInv, Boots, ManagerStep PROVE Boots'
<1>1. CASE StopLiveReturns
  BY <1>1, BootsKnown, FinishedHolds, BootsIdle DEF StopLiveReturns
<1>2. CASE RetryFires
  BY <1>2, BootsKnown, BootsAsked DEF RetryFires
<1>3. CASE \E p \in Proc \cup {none} : StopReturns(p)
  BY <1>3 DEF StopReturns, Boots, Owned, Revisions, Failures
<1> QED
  BY <1>1, <1>2, <1>3, BootsReconciled, BootsAnswered, BootsContinued DEF ManagerStep

-----------------------------------------------------------------------------
(* What a supervisor does *)

(* Its settings stay, and a verdict that its revision failed stands only    *)
(* for one that never was healthy and does not boot any more.               *)
LEMMA BootsMoved ==
  ASSUME IInv, Boots, NEW s \in Sup, NEW n \in Supervisor, sup' = [sup EXCEPT ![s] = n],
         s = current => n.rev = sup[s].rev /\ n.env = sup[s].env /\ ~n.stopping,
         n.rev = 0 \/ (n.rev = sup[s].rev /\ n.env = sup[s].env),
         n.timer => n.healthyOnce,
         \/ row' = row
         \/ row' = [row EXCEPT !.state = "active"]
         \/ row' = [row EXCEPT !.state = "failed"] /\ Concerned(s),
         row'.state = "failed" /\ row.enabled /\ s = current /\ sup[s].env = row.config
           => n.healthyOnce \/ (n.child = none /\ n.spawning # "mkdir"),
         UNCHANGED <<manager, current>>
  PROVE  Boots'
<1>1. /\ row'.revision = row.revision /\ row'.config = row.config /\ row'.enabled = row.enabled
      /\ row'.state = row.state \/ row'.state = "active" \/ (row'.state = "failed" /\ Concerned(s))
  BY BootsKnown DEF Row
<1>2. \A t \in Sup : sup'[t] = IF t = s THEN n ELSE sup[t]
  BY BootsKnown
<1>3. Owned'
  BY <1>2, BootsKnown DEF Boots, Owned
<1>4. Revisions'
  BY <1>1, <1>2, BootsKnown DEF Boots, Revisions
<1>5. Failures'
  <2>1. Concerned(s) => current = s /\ row.enabled /\ sup[s].rev = row.revision /\ sup[s].env = row.config
    BY DEF Concerned, Boots, Revisions
  <2>2. Concerned(s) => manager.step \notin {"applying", "applied", "replacing"}
    <3> SUFFICES ASSUME Concerned(s), manager.step \in {"applying", "applied", "replacing"} PROVE FALSE
      OBVIOUS
    <3>1. current = s /\ current # none
      BY <2>1, BootsKnown
    <3>2. manager.step \in {"applying", "applied"}
      BY <3>1 DEF Boots, Owned
    <3>3. manager.rev = row.revision
      BY <2>1, <3>2, BootsKnown DEF Boots, Revisions
    <3> QED
      BY <2>1, <3>1, <3>2, <3>3 DEF Boots, Failures
  <2>3. manager.step \in {"applying", "applied", "replacing"} => row'.state # "failed"
    BY <1>1, <2>2 DEF Boots, Failures
  <2>4. manager.step \in {"applying", "applied"} /\ manager.rev = row.revision /\ current # none
          => sup'[current].env.hot # row.config.hot
    BY <1>2, BootsKnown DEF Boots, Failures
  <2>5. manager.step = "readiness" /\ current = none => row'.state # "failed"
    BY <1>1, <2>1, BootsKnown DEF Boots, Failures
  <2>6. row'.state = "failed" /\ row.enabled /\ current # none /\ sup'[current].env = row.config
          => sup'[current].healthyOnce \/ (sup'[current].child = none /\ sup'[current].spawning # "mkdir")
    <3>1. CASE s = current
      BY <1>2, <3>1
    <3>2. CASE s # current
      <4>1. ~Concerned(s)
        BY <3>2, <2>1
      <4> QED
        BY <1>1, <1>2, <3>2, <4>1, BootsKnown DEF Boots, Failures
    <3> QED
      BY <3>1, <3>2
  <2> QED
    BY <1>1, <2>3, <2>4, <2>5, <2>6 DEF Failures
<1> QED
  BY <1>3, <1>4, <1>5 DEF Boots

(* The collector takes none that is in the table.                           *)
LEMMA BootsCollected ==
  ASSUME Boots, NEW s \in Sup, NEW t \in Supervisor, t.stopping = sup[s].stopping,
         t.rev = sup[s].rev, t.env = sup[s].env, t.timer => t.healthyOnce, none \notin Sup
  PROVE  LET n == Collected(t) IN
         /\ n \in Supervisor
         /\ s = current => n = t /\ ~n.stopping
         /\ n.rev = 0 \/ (n.rev = sup[s].rev /\ n.env = sup[s].env)
         /\ n.timer => n.healthyOnce
<1>1. Nobody.rev = 0 /\ ~Nobody.timer
  BY DEF Nobody
<1>2. Collected(t) \in Supervisor /\ (~t.stopping => Collected(t) = t) /\ Collected(t) \in {t, Nobody}
  BY Collecting DEF Collected
<1>3. s = current => ~t.stopping
  BY DEF Boots, Owned
<1> QED
  BY <1>1, <1>2, <1>3

LEMMA BootsThrown ==
  ASSUME IInv, Boots, NEW s \in Sup, NEW after \in Supervisor, SpawnThrows(s, after),
         after.rev = sup[s].rev, after.env = sup[s].env, after.stopping = sup[s].stopping,
         after.timer => after.healthyOnce, after.child = none,
         UNCHANGED <<manager, current>>
  PROVE  Boots'
<1> DEFINE t == [after EXCEPT !.spawning = "no", !.boot = none,
                   !.timer = @ \/ (after.healthyOnce /\ ~after.stopping)]
           n == Collected(t)
<1>1. /\ t \in Supervisor /\ t.rev = sup[s].rev /\ t.env = sup[s].env /\ t.stopping = sup[s].stopping
      /\ (t.timer => t.healthyOnce) /\ t.child = none /\ t.spawning = "no"
  BY DEF Supervisor
<1>2. sup' = [sup EXCEPT ![s] = Collected(t)]
  BY DEF SpawnThrows
<1>3. row' = row \/ (row' = [row EXCEPT !.state = "failed"] /\ Concerned(s))
  BY DEF SpawnThrows
<1> HIDE DEF t
<1>4. /\ n \in Supervisor /\ (s = current => n = t /\ ~n.stopping)
      /\ n.rev = 0 \/ (n.rev = sup[s].rev /\ n.env = sup[s].env)
      /\ n.timer => n.healthyOnce
  BY <1>1, BootsKnown, BootsCollected
<1> HIDE DEF n
<1>5. sup' = [sup EXCEPT ![s] = n]
  BY <1>2 DEF n
<1> QED
  BY <1>1, <1>3, <1>4, <1>5, BootsMoved

LEMMA BootsSupervised == ASSUME IInv, Boots, NEW s \in Sup, SupervisorStep(s) PROVE Boots'
<1>1. /\ sup[s] \in Supervisor /\ Kept(sup[s]) /\ (sup[s].timer => sup[s].healthyOnce)
      /\ s = current => ~sup[s].stopping
      /\ row.state = "failed" /\ row.enabled /\ s = current /\ sup[s].env = row.config
           => sup[s].healthyOnce \/ (sup[s].child = none /\ sup[s].spawning # "mkdir")
  BY BootsKnown DEF Boots, Owned, Revisions, Failures
<1>2. CASE Spawn(s)
  <2>1. PICK p \in Proc : sup' = [sup EXCEPT ![s].child = p, ![s].boot = p, ![s].spawning = "health"]
    BY <1>2 DEF Spawn
  <2> DEFINE n == [sup[s] EXCEPT !.child = p, !.boot = p, !.spawning = "health"]
  <2>2. /\ n \in Supervisor /\ n.rev = sup[s].rev /\ n.env = sup[s].env /\ n.stopping = sup[s].stopping
        /\ n.timer = sup[s].timer /\ n.healthyOnce = sup[s].healthyOnce
    BY <1>1 DEF Supervisor
  <2>3. sup' = [sup EXCEPT ![s] = n]
    BY <2>1, BootsKnown
  <2>4. sup[s].spawning = "mkdir" /\ UNCHANGED <<row, manager, current>>
    BY <1>2 DEF Spawn
  <2> HIDE DEF n
  <2> QED
    BY <1>1, <2>2, <2>3, <2>4, BootsMoved
<1>3. CASE HealthOk(s)
  <2> DEFINE t == [sup[s] EXCEPT !.spawning = "no", !.boot = none,
                     !.healthyOnce = @ \/ (sup[s].child = sup[s].boot)]
             n == Collected(t)
  <2>1. /\ t \in Supervisor /\ t.rev = sup[s].rev /\ t.env = sup[s].env /\ t.stopping = sup[s].stopping
        /\ t.timer = sup[s].timer /\ (sup[s].healthyOnce => t.healthyOnce)
        /\ t.child = sup[s].child /\ t.spawning = "no"
    BY <1>1 DEF Supervisor
  <2>2. sup' = [sup EXCEPT ![s] = Collected(t)] /\ UNCHANGED <<manager, current>>
    BY <1>3 DEF HealthOk
  <2>3. row' = row \/ row' = [row EXCEPT !.state = "active"]
    BY <1>3 DEF HealthOk, Marked
  <2> HIDE DEF t
  <2>4. /\ n \in Supervisor /\ (s = current => n = t /\ ~n.stopping)
        /\ n.rev = 0 \/ (n.rev = sup[s].rev /\ n.env = sup[s].env)
        /\ n.timer => n.healthyOnce
    BY <1>1, <2>1, BootsKnown, BootsCollected
  <2> HIDE DEF n
  <2>5. sup' = [sup EXCEPT ![s] = n]
    BY <2>2 DEF n
  <2>6. row' = [row EXCEPT !.state = "active"] => row'.state # "failed"
    BY BootsKnown DEF Row
  <2>7. s = current => n.rev = sup[s].rev /\ n.env = sup[s].env /\ ~n.stopping
    BY <2>1, <2>4
  <2>8. row'.state = "failed" /\ row.enabled /\ s = current /\ sup[s].env = row.config
          => n.healthyOnce \/ (n.child = none /\ n.spawning # "mkdir")
    BY <1>1, <2>1, <2>3, <2>4, <2>6
  <2> QED
    BY <2>2, <2>3, <2>4, <2>5, <2>7, <2>8, BootsMoved
<1>4. CASE HealthFails(s)
  <2> DEFINE after == [sup[s] EXCEPT !.child = IF @ = sup[s].boot THEN none ELSE @]
             n     == [after EXCEPT !.spawning = "failing"]
  <2>1. /\ after \in Supervisor /\ after.rev = sup[s].rev /\ after.env = sup[s].env
        /\ after.stopping = sup[s].stopping /\ after.timer = sup[s].timer
        /\ after.healthyOnce = sup[s].healthyOnce /\ after.child = none
    BY <1>1, <1>4 DEF HealthFails, Supervisor, Kept
  <2>2. /\ n \in Supervisor /\ n.rev = sup[s].rev /\ n.env = sup[s].env /\ n.stopping = sup[s].stopping
        /\ n.timer = sup[s].timer /\ n.healthyOnce = sup[s].healthyOnce
        /\ n.child = none /\ n.spawning = "failing"
    BY <2>1 DEF Supervisor
  <2>3. UNCHANGED <<manager, current>>
    BY <1>4 DEF HealthFails
  <2>4. CASE SpawnThrows(s, after)
    <3> HIDE DEF after
    <3> QED
      BY <1>1, <2>1, <2>3, <2>4, BootsThrown
  <2>5. CASE sup' = [sup EXCEPT ![s] = n] /\ row' = row
    <3> HIDE DEF n
    <3> QED
      BY <1>1, <2>2, <2>3, <2>5, BootsMoved
  <2> QED
    BY <1>4, <2>4, <2>5 DEF HealthFails
<1>5. CASE FailingReturns(s)
  <2>1. SpawnThrows(s, sup[s]) /\ sup[s].child = none /\ UNCHANGED <<manager, current>>
    BY <1>1, <1>5 DEF FailingReturns, Kept
  <2> QED
    BY <1>1, <2>1, BootsThrown
<1>6. CASE RestartFires(s)
  <2> DEFINE n == [sup[s] EXCEPT !.timer = FALSE, !.spawning = "mkdir"]
  <2>1. /\ n \in Supervisor /\ n.rev = sup[s].rev /\ n.env = sup[s].env /\ n.stopping = sup[s].stopping
        /\ ~n.timer /\ n.healthyOnce = sup[s].healthyOnce
    BY <1>1 DEF Supervisor
  <2>2. sup' = [sup EXCEPT ![s] = n] /\ sup[s].timer /\ UNCHANGED <<row, manager, current>>
    BY <1>6, BootsKnown DEF RestartFires
  <2> HIDE DEF n
  <2> QED
    BY <1>1, <2>1, <2>2, BootsMoved
<1> QED
  BY <1>2, <1>3, <1>4, <1>5, <1>6 DEF SupervisorStep

LEMMA BootsExited == ASSUME IInv, Boots, NEW p \in Proc, Exit(p) PROVE Boots'
<1>1. UNCHANGED <<manager, current>>
  BY DEF Exit
<1>2. CASE \E s \in Sup : sup[s].child = p
  <2> DEFINE s == CHOOSE t \in Sup : sup[t].child = p
  <2>1. /\ s \in Sup /\ sup[s].child = p /\ p # none /\ sup[s] \in Supervisor /\ Kept(sup[s])
        /\ sup[s].timer => sup[s].healthyOnce
    BY <1>2, BootsKnown DEF Boots, Revisions
  <2>2. /\ sup' = [sup EXCEPT ![s] = Exited(sup[s])]
        /\ row' = IF Concerned(s) THEN [row EXCEPT !.state = "failed"] ELSE row
    BY <1>2, Zenon DEF Exit
  <2> HIDE DEF s
  <2> DEFINE t == [sup[s] EXCEPT !.child = none,
                     !.timer = @ \/ (sup[s].healthyOnce /\ ~sup[s].stopping)]
             n == Collected(t)
  <2>3. /\ t \in Supervisor /\ t.rev = sup[s].rev /\ t.env = sup[s].env /\ t.stopping = sup[s].stopping
        /\ (t.timer => t.healthyOnce) /\ t.child = none /\ t.spawning # "mkdir"
    BY <2>1 DEF Supervisor, Kept
  <2>4. sup' = [sup EXCEPT ![s] = Collected(t)]
    BY <2>2 DEF Exited
  <2> HIDE DEF t
  <2>5. /\ n \in Supervisor /\ (s = current => n = t /\ ~n.stopping)
        /\ n.rev = 0 \/ (n.rev = sup[s].rev /\ n.env = sup[s].env)
        /\ n.timer => n.healthyOnce
    BY <2>1, <2>3, BootsKnown, BootsCollected
  <2> HIDE DEF n
  <2>6. sup' = [sup EXCEPT ![s] = n]
    BY <2>4 DEF n
  <2>7. s = current => n.rev = sup[s].rev /\ n.env = sup[s].env /\ ~n.stopping
    BY <2>3, <2>5
  <2>8. s = current => n.healthyOnce \/ (n.child = none /\ n.spawning # "mkdir")
    BY <2>3, <2>5
  <2>9. row' = row \/ (row' = [row EXCEPT !.state = "failed"] /\ Concerned(s))
    BY <2>2
  <2> QED
    BY <1>1, <2>1, <2>5, <2>6, <2>7, <2>8, <2>9, BootsMoved
<1>3. CASE ~\E s \in Sup : sup[s].child = p
  BY <1>1, <1>3 DEF Exit, Boots, Owned, Revisions, Failures
<1> QED
  BY <1>2, <1>3

LEMMA BootsStep == IInv /\ Boots /\ [Next]_vars => Boots'
<1> SUFFICES ASSUME IInv, Boots, [Next]_vars PROVE Boots'
  OBVIOUS
<1>1. ASSUME NEW p \in Proc, ProcessStep(p) \/ Crash(p) PROVE Boots'
  <2>1. CASE Listen(p)
    BY <2>1 DEF Listen, Boots, Owned, Revisions, Failures
  <2> QED
    BY <1>1, <2>1, BootsExited DEF ProcessStep, PortTaken, Terminated, Crash
<1>2. CASE UNCHANGED vars
  BY <1>2 DEF vars, Boots, Owned, Revisions, Failures
<1> QED
  BY <1>1, <1>2, BootsRequested, BootsManaged, BootsReady, BootsPosted, BootsSupervised DEF Next

(* Who makes a failed revision active.                                      *)
LEMMA Reattempted ==
  ASSUME IInv, Boots, row.state = "failed", row'.state = "active", row.enabled,
         NEW m \in Reconciliation, Attempt(m),
         m.owner # none => m.owner = manager.owner /\ manager.step = "readiness"
  PROVE  \E s \in Sup : sup[s].healthyOnce
<1>1. row' = [row EXCEPT !.state = "applying"] => row'.state = "applying"
  BY BootsKnown DEF Row
<1>2. /\ m.owner # none /\ sup[m.owner].child # none
      /\ sup[m.owner].env.cold = row.config.cold /\ sup[m.owner].env.hot = row.config.hot
  BY <1>1 DEF Attempt
<1>3. m.owner \in Sup /\ current = m.owner
  BY <1>2 DEF Boots, Owned, Failures
<1>4. sup[m.owner].env = row.config
  <2>1. sup[m.owner].env \in Config /\ row.config \in Config
    BY <1>3, BootsKnown DEF Supervisor, Row
  <2> QED
    BY <1>2, <2>1 DEF Config
<1> QED
  BY <1>2, <1>3, <1>4, BootsKnown DEF Boots, Failures

LEMMA Reactivated ==
  ASSUME IInv, Boots, Next, row.state = "failed", row'.state = "active"
  PROVE  \E s \in Sup : sup[s].healthyOnce
<1>1. row \in Row /\ manager \in Reconciliation /\ row' # row
  BY BootsKnown
<1>2. ~Requesting
  BY <1>1 DEF Requesting, Update, Replay, Start, Stop, Row
<1>3. CASE Reconcile
  <2> DEFINE m == [manager EXCEPT !.again = FALSE]
  <2>1. m \in Reconciliation /\ m.owner = none
    BY <1>1, <1>3 DEF Reconcile, Reconciliation, Boots, Owned
  <2>2. Attempt(m) /\ row.enabled
    BY <1>1, <1>3 DEF Reconcile
  <2> HIDE DEF m
  <2> QED
    BY <2>1, <2>2, Reattempted
<1>4. CASE ReadyReturns
  <2>1. Attempt(manager) /\ row.enabled /\ manager.step = "readiness"
    BY <1>1, <1>4 DEF ReadyReturns, UpToDate
  <2> QED
    BY <1>1, <2>1, Reattempted
<1>5. ~ApplyReturns
  BY <1>1 DEF ApplyReturns, Boots, Failures
<1>6. ASSUME NEW s \in Sup, HealthOk(s) PROVE \E t \in Sup : sup[t].healthyOnce
  <2>1. sup[s].boot \in Proc /\ sup[s].child = sup[s].boot /\ Concerned(s)
    BY <1>1, <1>6 DEF HealthOk, Serving
  <2>2. sup[s].env = row.config /\ current = s /\ row.enabled
    BY <2>1 DEF Concerned, Boots, Revisions
  <2> QED
    BY <2>1, <2>2, BootsKnown DEF Boots, Failures
<1>7. ASSUME NEW s \in Sup, Spawn(s) \/ HealthFails(s) \/ FailingReturns(s) \/ RestartFires(s) PROVE FALSE
  BY <1>1, <1>7 DEF Spawn, HealthFails, FailingReturns, RestartFires, SpawnThrows, Row
<1>8. ASSUME NEW p \in Proc, Exit(p) \/ Listen(p) PROVE FALSE
  BY <1>1, <1>8 DEF Exit, Listen, Row
<1> QED
  BY <1>1, <1>2, <1>3, <1>4, <1>5, <1>6, <1>7, <1>8
  DEF Next, ManagerStep, WaitEnds, PostEnds, SupervisorStep, ProcessStep, PortTaken, Terminated, Crash,
      ReplaceContinues, StopLiveReturns, RetryFires, StopReturns, ReadyFails, ApplyFails, WorkerApplies

(* A revision that failed becomes active without a new request only if a    *)
(* worker has once been healthy: drain, applyConfig, onReady and the        *)
(* restart timer of supervisor.ts never turn a first boot that failed into  *)
(* a success, whatever requests, answers, timers and exits interleave.      *)
THEOREM FailedBootsStay == Spec => FailedBootStaysFailed
<1>1. Init => IInv /\ Boots
  BY Initially, BootsInitially
<1>2. IInv /\ Boots /\ [Next]_vars => (IInv /\ Boots)'
  BY Step, BootsStep
<1>3. IInv /\ Boots /\ [Next]_vars
      => [row.state = "failed" /\ row'.state = "active" => \E s \in Sup : sup[s].healthyOnce]_vars
  BY Reactivated
<1> QED
  BY <1>1, <1>2, <1>3, PTL DEF Spec, FailedBootStaysFailed
=============================================================================
