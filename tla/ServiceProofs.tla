----------------------------- MODULE ServiceProofs -----------------------------
(***************************************************************************)
(* What is proved of the services around a call and a reminder:            *)
(* HostCalls, for every number of calls back, whatever the deadline and    *)
(* the time limit are; Scheduler, for every set of schedules, delays and   *)
(* intervals, and every number of shutdowns and downtimes; HostRpcIngress, *)
(* for every limit and length of a body and every set of workers; Tunnel,  *)
(* for whatever the two applications write, with one replacement of the    *)
(* connection under them; ProcessJobs, for every number of crashes and of  *)
(* calls that go wrong; and of HostWork, all but the scheduler together.   *)
(*                                                                         *)
(* A call back is begun once: until the worker takes it up nothing was     *)
(* done for it, afterwards it cannot arrive again, and the cell has been   *)
(* told something of it before it is over (CallsFit).  A grant lasts as    *)
(* long as its tool call waits, unless the deadline has passed             *)
(* (GrantLasts).                                                           *)
(*                                                                         *)
(* A reminder that repeats keeps its rhythm because one of the times       *)
(* within an interval from now always continues it (Rhythm).               *)
(*                                                                         *)
(* A request is forwarded only when its body was read to its end, within   *)
(* the limit, and only the worker it was forwarded to ever carries it out  *)
(* (CallFollows); the refusal of one that is too long comes when all of it *)
(* was read (BodyFits), so that no reset takes the answer away (ReplyFits).*)
(*                                                                         *)
(* On a line of the tunnel, what is under way and what waits behind it     *)
(* follow the chunks that were received: none is missing, and the end      *)
(* comes behind the last, unless sending failed (Heard, LineFits).  A      *)
(* pump that stopped has settled, and its socket is gone or was told       *)
(* (PumpFits); which pumps there are depends on the stage of the stream,   *)
(* which lives on the connection it was opened on (StagesFit).             *)
(*                                                                         *)
(* A background job is watched because of what its row says of the session *)
(* (RowFits): only a job with a session is polled or has a timer, only one *)
(* without waits for its start.  That an end in the table is true rests on *)
(* the one start there ever is: while it has not reached the host nothing  *)
(* ran and nobody was told of an end (StartFirst, StartOnce), and what a   *)
(* call says of an end stays so, because nothing starts the command again  *)
(* (OrderFits).                                                            *)
(***************************************************************************)
EXTENDS HostWork, Scheduler, SequenceTheorems, FiniteSetTheorems, TLAPS

-----------------------------------------------------------------------------
(* HostCalls                                                                 *)

Places == {"none", "sent", "served", "over"}
Outcomes == {"none", "running", "done", "cut"}

HTypes ==
    /\ hostClock \in Nat /\ hostClock <= MaxClock
    /\ outer \in {"none", "pending", "answered", "failed"}
    /\ cell \in {"none", "running", "ended", "expired"} /\ lease \in {"none", "live", "gone"}
    /\ worker \in {"issuer", "successor", "nobody"}
    /\ call \in [Calls -> [at : Places, since : Nat]]
    /\ \A c \in Calls : call[c].since <= hostClock
    /\ operation \in [Calls -> Outcomes]
    /\ cellTold \in [Calls -> {"nothing"} \cup Results]

CallFits(c) ==
    /\ call[c].at \in {"none", "sent"} => operation[c] = "none"
    /\ call[c].at = "served" => operation[c] = "running" /\ hostClock <= CallDeadline
    /\ call[c].at = "over" => cellTold[c] # "nothing"
    /\ cellTold[c] = "unauthorized" => call[c].at = "over" /\ operation[c] = "none"
    /\ cellTold[c] \in {"ok", "error"} => operation[c] = "done"
CallsFit == \A c \in Calls : CallFits(c)

GrantLasts ==
    /\ lease = "live" => outer = "pending" /\ worker = "issuer"
    /\ outer = "pending" => lease = "live" \/ Expired

CallsInv == HTypes /\ CallsFit /\ GrantLasts

-----------------------------------------------------------------------------
LEMMA CallsInitially ==
    ASSUME HostCallsAssumption, HostCallsInit
    PROVE  CallsInv
BY DEF HostCallsAssumption, HostCallsInit, NoCall, CallsInv, HTypes, Places, Outcomes, CallsFit,
       CallFits, GrantLasts

(* A step of the tool call changes no call back; the clock and the grant    *)
(* are not its concern here.                                                *)
LEMMA ToolCallMoves ==
    ASSUME CallsInv, GrantLasts', UNCHANGED <<hostClock, worker, call, operation, cellTold>>,
           outer' \in {"none", "pending", "answered", "failed"},
           cell' \in {"none", "running", "ended", "expired"}, lease' \in {"none", "live", "gone"}
    PROVE  CallsInv'
BY DEF CallsInv, HTypes, CallsFit, CallFits

(* A step of one call: what it makes of that call fits.                     *)
LEMMA CallMoves ==
    ASSUME CallsInv, NEW c \in Calls, HTypes', CallFits(c)', GrantLasts', hostClock' = hostClock,
           \A d \in Calls \ {c} :
              call'[d] = call[d] /\ cellTold'[d] = cellTold[d] /\ operation'[d] = operation[d]
    PROVE  CallsInv'
<1>1. SUFFICES ASSUME NEW d \in Calls, d # c  PROVE CallFits(d)'
  BY DEF CallsInv, CallsFit
<1>2. CallFits(d)  BY DEF CallsInv, CallsFit
<1> QED  BY <1>1, <1>2 DEF CallFits

-----------------------------------------------------------------------------
LEMMA OuterStep ==
    ASSUME CallsInv, Execute \/ ToolCallAnswered \/ Fails \/ HostExecutes \/ CellEnds \/ Counts
    PROVE  CallsInv'
<1>1. CASE Execute
  BY <1>1, ToolCallMoves DEF Execute, CallsInv, HTypes, GrantLasts, Expired
<1>2. CASE ToolCallAnswered
  BY <1>2, ToolCallMoves DEF ToolCallAnswered, Returns, CallsInv, HTypes, GrantLasts, Expired
<1>3. CASE Fails
  BY <1>3, ToolCallMoves DEF Fails, Returns, CallsInv, HTypes, GrantLasts, Expired
<1>4. CASE HostExecutes
  BY <1>4, ToolCallMoves DEF HostExecutes, CallsInv, HTypes, GrantLasts, Expired
<1>5. CASE CellEnds
  BY <1>5, ToolCallMoves DEF CellEnds, CallsInv, HTypes, GrantLasts, Expired
<1>6. CASE Counts
  BY <1>6, ToolCallMoves DEF Counts, LeaseCount, CallsInv, HTypes, GrantLasts, Expired
<1> QED  BY <1>1, <1>2, <1>3, <1>4, <1>5, <1>6

LEMMA CallStep ==
    ASSUME CallsInv, HostCallsAssumption, NEW c \in Calls,
           HostCall(c) \/ GivesUp(c) \/ Vanishes(c) \/ Refuses(c) \/ Starts(c) \/ ServiceEnds(c)
             \/ DeadlineEnds(c)
    PROVE  CallsInv'
<1>1. /\ hostClock \in Nat /\ hostClock <= MaxClock /\ CallDeadline \in Nat /\ lease \in {"none", "live", "gone"}
      /\ call \in [Calls -> [at : Places, since : Nat]] /\ \A d \in Calls : call[d].since <= hostClock
      /\ operation \in [Calls -> Outcomes] /\ cellTold \in [Calls -> {"nothing"} \cup Results]
  BY DEF CallsInv, HTypes, HostCallsAssumption
<1>2. CallFits(c)  BY DEF CallsInv, CallsFit
<1>3. ASSUME NEW place \in Places, Moves(c, place)
      PROVE  /\ call' \in [Calls -> [at : Places, since : Nat]] /\ call'[c].at = place
             /\ \A d \in Calls : call'[d].since <= hostClock
             /\ \A d \in Calls \ {c} : call'[d] = call[d]
  BY <1>1, <1>3 DEF Moves
<1>4. ASSUME NEW result \in Results, Tells(c, result)
      PROVE  /\ cellTold' \in [Calls -> {"nothing"} \cup Results]
             /\ cellTold'[c] = IF cellTold[c] = "nothing" THEN result ELSE cellTold[c]
             /\ \A d \in Calls \ {c} : cellTold'[d] = cellTold[d]
  BY <1>1, <1>4 DEF Tells
<1>5. UNCHANGED <<hostClock, outer, lease, worker>> => GrantLasts'  BY DEF CallsInv, GrantLasts, Expired
<1>6. /\ "over" \in Places /\ "served" \in Places
      /\ {"ok", "error", "unauthorized", "deadline", "unavailable", "unknown"} = Results
  BY DEF Places, Results
<1>7. UNCHANGED <<hostClock, outer, cell, worker>> /\ lease' \in {"none", "live", "gone"}
        /\ call' \in [Calls -> [at : Places, since : Nat]] /\ (\A d \in Calls : call'[d].since <= hostClock)
        /\ operation' \in [Calls -> Outcomes] /\ cellTold' \in [Calls -> {"nothing"} \cup Results]
      => HTypes'
  BY DEF CallsInv, HTypes
<1>8. CASE HostCall(c)
  <2>1. CASE call' = [call EXCEPT ![c] = [at |-> "sent", since |-> hostClock]] /\ UNCHANGED cellTold
    <3>1. HTypes'  BY <1>1, <1>7, <1>8, <2>1 DEF HostCall, Places
    <3>2. CallFits(c)'  BY <1>1, <1>2, <1>8, <2>1 DEF HostCall, CallFits
    <3> QED  BY <1>1, <1>5, <1>8, <2>1, <3>1, <3>2, CallMoves DEF HostCall
  <2>2. CASE Moves(c, "over") /\ Tells(c, "unavailable")
    <3>1. HTypes'  BY <1>1, <1>3, <1>4, <1>6, <1>7, <1>8, <2>2 DEF HostCall
    <3>2. CallFits(c)'  BY <1>2, <1>3, <1>4, <1>6, <1>8, <2>2 DEF HostCall, CallFits
    <3> QED  BY <1>3, <1>4, <1>5, <1>6, <1>8, <2>2, <3>1, <3>2, CallMoves DEF HostCall
  <2> QED  BY <1>8, <2>1, <2>2 DEF HostCall
<1>9. CASE GivesUp(c)
  <2>1. HTypes'  BY <1>1, <1>4, <1>6, <1>7, <1>9 DEF GivesUp
  <2>2. CallFits(c)'  BY <1>2, <1>4, <1>6, <1>9 DEF GivesUp, CallFits
  <2> QED  BY <1>4, <1>5, <1>6, <1>9, <2>1, <2>2, CallMoves DEF GivesUp
<1>10. CASE Vanishes(c)
  <2>1. HTypes'  BY <1>1, <1>3, <1>6, <1>7, <1>10 DEF Vanishes
  <2>2. CallFits(c)'  BY <1>2, <1>3, <1>6, <1>10 DEF Vanishes, CallFits
  <2> QED  BY <1>3, <1>5, <1>6, <1>10, <2>1, <2>2, CallMoves DEF Vanishes
<1>11. CASE Refuses(c)
  <2>1. GrantLasts'  BY <1>11 DEF Refuses, CallsInv, GrantLasts, GrantHeld, Expired
  <2>2. PICK result \in {"unavailable", "unauthorized", "deadline"} : Tells(c, result)
    BY <1>11 DEF Refuses
  <2>3. HTypes'  BY <1>1, <1>3, <1>4, <1>6, <1>7, <1>11, <2>2 DEF Refuses
  <2>4. CallFits(c)'  BY <1>2, <1>3, <1>4, <1>6, <1>11, <2>2 DEF Refuses, CallFits
  <2> QED  BY <1>3, <1>4, <1>6, <1>11, <2>1, <2>2, <2>3, <2>4, CallMoves DEF Refuses
<1>12. CASE Starts(c)
  <2>1. HTypes'  BY <1>1, <1>3, <1>6, <1>7, <1>12 DEF Starts, Outcomes
  <2>2. CallFits(c)'  BY <1>1, <1>2, <1>3, <1>6, <1>12 DEF Starts, CallFits, Expired
  <2> QED  BY <1>1, <1>3, <1>5, <1>6, <1>12, <2>1, <2>2, CallMoves DEF Starts
<1>13. CASE ServiceEnds(c)
  <2>1. CASE call[c].at = "over" /\ UNCHANGED <<call, cellTold>>
    <3>1. HTypes'  BY <1>1, <1>7, <1>13, <2>1 DEF ServiceEnds, Outcomes
    <3>2. CallFits(c)'  BY <1>1, <1>2, <1>13, <2>1 DEF ServiceEnds, CallFits
    <3> QED  BY <1>1, <1>5, <1>13, <2>1, <3>1, <3>2, CallMoves DEF ServiceEnds
  <2>2. CASE call[c].at = "served" /\ Moves(c, "over") /\ \E result \in {"ok", "error"} : Tells(c, result)
    <3>1. PICK result \in {"ok", "error"} : Tells(c, result)  BY <2>2
    <3>2. HTypes'  BY <1>1, <1>3, <1>4, <1>6, <1>7, <1>13, <2>2, <3>1 DEF ServiceEnds, Outcomes
    <3>3. CallFits(c)'  BY <1>1, <1>2, <1>3, <1>4, <1>6, <1>13, <2>2, <3>1 DEF ServiceEnds, CallFits
    <3> QED  BY <1>1, <1>3, <1>4, <1>5, <1>6, <1>13, <2>2, <3>1, <3>2, <3>3, CallMoves DEF ServiceEnds
  <2> QED  BY <1>13, <2>1, <2>2 DEF ServiceEnds
<1>14. CASE DeadlineEnds(c)
  <2>1. HTypes'  BY <1>1, <1>3, <1>4, <1>6, <1>7, <1>14 DEF DeadlineEnds
  <2>2. CallFits(c)'  BY <1>2, <1>3, <1>4, <1>6, <1>14 DEF DeadlineEnds, CallFits
  <2> QED  BY <1>3, <1>4, <1>5, <1>6, <1>14, <2>1, <2>2, CallMoves DEF DeadlineEnds
<1> QED  BY <1>8, <1>9, <1>10, <1>11, <1>12, <1>13, <1>14

LEMMA WorkerStep ==
    ASSUME CallsInv, WorkerEnds \/ Succeeds
    PROVE  CallsInv'
<1>1. CASE Succeeds
  BY <1>1 DEF Succeeds, CallsInv, HTypes, CallsFit, CallFits, GrantLasts, Expired
<1>2. CASE WorkerEnds
  <2>1. \A c \in Calls : call[c] \in [at : Places, since : Nat]  BY DEF CallsInv, HTypes
  <2>2. \A c \in Calls :
          /\ operation'[c] = IF operation[c] = "running" THEN "cut" ELSE operation[c]
          /\ cellTold'[c] = IF call[c].at = "served" /\ cellTold[c] = "nothing" THEN "unavailable" ELSE cellTold[c]
          /\ call'[c].at = IF call[c].at = "served" THEN "over" ELSE call[c].at
          /\ call'[c].since = call[c].since
    BY <1>2, <2>1 DEF WorkerEnds
  <2>3. HTypes'
    <3>1. call' \in [Calls -> [at : Places, since : Nat]]  BY <1>2, <2>1 DEF WorkerEnds, Places
    <3>2. operation' \in [Calls -> Outcomes] /\ cellTold' \in [Calls -> {"nothing"} \cup Results]
      BY <1>2 DEF WorkerEnds, CallsInv, HTypes, Outcomes, Results
    <3> QED  BY <1>2, <2>2, <3>1, <3>2 DEF WorkerEnds, CallsInv, HTypes
  <2>4. CallsFit'
    <3>1. SUFFICES ASSUME NEW c \in Calls  PROVE CallFits(c)'  BY DEF CallsFit
    <3>2. hostClock' = hostClock  BY <1>2 DEF WorkerEnds
    <3>3. CallFits(c)  BY DEF CallsInv, CallsFit
    <3> QED  BY <2>2, <3>2, <3>3 DEF CallFits
  <2>5. GrantLasts'  BY <1>2 DEF WorkerEnds, CallsInv, HTypes, GrantLasts
  <2> QED  BY <2>3, <2>4, <2>5 DEF CallsInv
<1> QED  BY <1>1, <1>2

LEMMA TickStep ==
    ASSUME CallsInv, HostCallsAssumption, ClockTicks
    PROVE  CallsInv'
<1>1. hostClock \in Nat /\ MaxClock \in Nat /\ CallDeadline \in Nat /\ hostClock' = hostClock + 1 /\ hostClock < MaxClock
  BY DEF CallsInv, HTypes, HostCallsAssumption, ClockTicks
<1>2. UNCHANGED <<outer, cell, lease, worker, call, operation, cellTold>>  BY DEF ClockTicks
<1>3. \A c \in Calls : call[c].since \in Nat  BY DEF CallsInv, HTypes
<1>4. HTypes'  BY <1>1, <1>2, <1>3 DEF CallsInv, HTypes
<1>5. CallsFit'  BY <1>1, <1>2 DEF ClockTicks, Expired, CallsInv, CallsFit, CallFits
<1>6. GrantLasts'  BY <1>1, <1>2 DEF CallsInv, GrantLasts, Expired
<1> QED  BY <1>4, <1>5, <1>6 DEF CallsInv

LEMMA HostCallsStep ==
    ASSUME CallsInv, HostCallsAssumption, [HostCallsNext]_hostCallsVars
    PROVE  CallsInv'
<1>1. CASE UNCHANGED hostCallsVars
  BY <1>1 DEF hostCallsVars, CallsInv, HTypes, CallsFit, CallFits, GrantLasts, Expired
<1>2. CASE HostCallsNext
  BY <1>2, OuterStep, CallStep, WorkerStep, TickStep DEF HostCallsNext
<1> QED  BY <1>1, <1>2

LEMMA CallsInductive ==
    ASSUME HostCallsAssumption
    PROVE  HostCallsSpec => []CallsInv
<1>1. HostCallsInit => CallsInv  BY CallsInitially
<1>2. CallsInv /\ [HostCallsNext]_hostCallsVars => CallsInv'  BY HostCallsStep
<1> QED  BY <1>1, <1>2, PTL DEF HostCallsSpec

-----------------------------------------------------------------------------
(* The grants, the calls and their outcomes of host-rpc.ts stay within      *)
(* their types, and no call was made in the future.                         *)
THEOREM HostCallsTypeCorrect ==
    ASSUME HostCallsAssumption
    PROVE  HostCallsSpec => []HostCallsTypeOK
<1>1. CallsInv => HostCallsTypeOK
  BY DEF HostCallsAssumption, CallsInv, HTypes, HostCallsTypeOK, Places, Outcomes
<1> QED  BY <1>1, CallsInductive, PTL

(* Whatever is lost, late or restarted, what a cell is told of a call back  *)
(* is true, no grant outlives its tool call or its worker, and none is gone *)
(* while a call that is in time is being served (dispatchHostRpc,           *)
(* revokeHostRpcGrant, activeHostRpcLeaseCount).                            *)
THEOREM ToldTheTruth ==
    ASSUME HostCallsAssumption
    PROVE  HostCallsSpec => []HostCallsHold
<1>1. ASSUME CallsInv  PROVE ToldTruly
  <2>1. SUFFICES ASSUME NEW c \in Calls
                 PROVE  /\ cellTold[c] = "unauthorized" => operation[c] = "none"
                        /\ cellTold[c] \in {"ok", "error"} => operation[c] = "done"
                        /\ cellTold[c] = "nothing" /\ operation[c] = "running" =>
                              call[c].at = "served" /\ ~(hostClock > CallDeadline)
    BY DEF ToldTruly
  <2>2. /\ CallFits(c) /\ call[c].at \in Places /\ hostClock \in Nat /\ CallDeadline \in Nat
    BY <1>1 DEF CallsInv, CallsFit, HTypes, HostCallsAssumption
  <2> QED  BY <2>2 DEF CallFits, Places
<1>2. ASSUME CallsInv  PROVE GrantsEnd
  BY <1>2 DEF CallsInv, GrantLasts, GrantsEnd, LeaseCount
<1>3. CallsInv => HostCallsHold  BY <1>1, <1>2 DEF HostCallsHold
<1> QED  BY <1>3, CallsInductive, PTL

-----------------------------------------------------------------------------
(* Scheduler                                                                 *)

LEMMA Division ==
    ASSUME NEW e \in Int, e > 0, NEW x \in Int
    PROVE  x \div e \in Int /\ x % e \in 0..(e - 1) /\ x = e * (x \div e) + (x % e)
<1>1. x \div e \in Int  OBVIOUS
<1>2. x % e \in 0..(e - 1)  OBVIOUS
<1>3. x = e * (x \div e) + (x % e)  OBVIOUS
<1> QED  BY <1>1, <1>2, <1>3

LEMMA Multiple ==
    ASSUME NEW e \in Nat \ {0}, NEW k \in Int
    PROVE  (e * k) % e = 0
<1> DEFINE x == e * k
           q == x \div e
           m == x % e
<1>1. x \in Int /\ q \in Int /\ m \in 0..(e - 1) /\ x = e * q + m  BY Division
<1> HIDE DEF q, m
<1>2. e * (k - q) = m  BY <1>1
<1>3. CASE k - q >= 1
  <2>1. e * (k - q) >= e  BY <1>1, <1>3
  <2> QED  BY <1>1, <1>2, <2>1
<1>4. CASE k - q <= -1
  <2>1. e * (k - q) <= -e  BY <1>1, <1>4
  <2> QED  BY <1>1, <1>2, <2>1
<1>5. CASE k = q  BY <1>1, <1>2, <1>5 DEF m
<1> QED  BY <1>1, <1>3, <1>4, <1>5

(* Of so many successive numbers as an interval is long, one is congruent to*)
(* any given time.                                                          *)
LEMMA Rhythm ==
    ASSUME NEW e \in Nat \ {0}, NEW at \in Int, NEW n \in Int
    PROVE  \E t \in n + 1 .. n + e : (t - at) % e = 0
<1> DEFINE d == at - n - 1
           k == d \div e
           m == d % e
           t == n + 1 + m
<1>1. d \in Int /\ at = d + n + 1  OBVIOUS
<1> HIDE DEF d
<1>2. k \in Int /\ m \in 0..(e - 1) /\ d = e * k + m  BY <1>1, Division
<1> HIDE DEF k, m
<1>3. t - at = e * (-k)
  <2>1. e * (-k) = -(e * k) /\ e * k \in Int  BY <1>2
  <2> QED  BY <1>1, <1>2, <2>1
<1>4. t \in n + 1 .. n + e  BY <1>2
<1>5. (t - at) % e = 0
  <2>1. (e * (-k)) % e = 0  BY <1>2, Multiple
  <2> QED  BY <1>3, <2>1
<1> QED  BY <1>4, <1>5

STypes ==
    /\ entry \in [Schedules -> [status : {"none", "pending", "fired", "cancelled"}, at : Nat]]
    /\ process \in {"booting", "up", "stopping", "leaving", "down"}
    /\ timer \in {"none", "set", "cleared"} /\ now \in 0 .. LastTime
    /\ reminded \in [Schedules -> Seq([for : Nat, on : 0 .. LastTime])]

(* The conjuncts of RemindersKept, for one schedule, and that one that was  *)
(* never created has reminded of nothing                                    *)
Following(s, i) == IF i = Len(reminded[s]) THEN entry[s].at ELSE reminded[s][i + 1].for
Timely(s) ==
    \A i \in DOMAIN reminded[s] :
      /\ reminded[s][i].for <= reminded[s][i].on
      /\ Every[s] > 0 => /\ Following(s, i) \in reminded[s][i].on + 1 .. reminded[s][i].on + Every[s]
                         /\ (Following(s, i) - reminded[s][i].for) % Every[s] = 0
Kept(s) ==
    /\ entry[s].status = "none" => reminded[s] = << >>
    /\ entry[s].status = "fired" => Len(reminded[s]) = 1
    /\ entry[s].status = "pending" /\ Every[s] = 0 => reminded[s] = << >>
    /\ Timely(s)

TimersInv == STypes /\ \A s \in Schedules : Kept(s)

LEMMA TimersInitially ==
    ASSUME SchedulerAssumption, SchedulerInit
    PROVE  TimersInv
<1>1. STypes  BY DEF SchedulerAssumption, SchedulerInit, STypes
<1>2. \A s \in Schedules : Kept(s)  BY DEF SchedulerInit, Kept, Timely
<1> QED  BY <1>1, <1>2 DEF TimersInv

(* A schedule whose row and reminders stay, or whose status only is another *)
LEMMA StaysKept ==
    ASSUME NEW s \in Schedules, Kept(s), UNCHANGED <<entry[s].at, reminded[s]>>,
           \/ entry'[s].status = entry[s].status
           \/ entry'[s].status = "cancelled"
    PROVE  Kept(s)'
BY DEF Kept, Timely, Following

(* fireSchedule, after a dispatch                                            *)
LEMMA FiredIsKept ==
    ASSUME SchedulerAssumption, STypes, NEW s \in Due, Kept(s), process # "stopping",
           reminded'[s] = Dispatched(s), entry'[s] = Fired(s)
    PROVE  /\ Kept(s)'
           /\ reminded'[s] \in Seq([for : Nat, on : 0 .. LastTime])
           /\ entry'[s] \in [status : {"none", "pending", "fired", "cancelled"}, at : Nat]
<1> DEFINE r == [for |-> entry[s].at, on |-> now]
           old == reminded[s]
           new == reminded'[s]
<1>1. /\ s \in Schedules /\ entry[s].status = "pending" /\ entry[s].at <= now
      /\ entry[s] \in [status : {"none", "pending", "fired", "cancelled"}, at : Nat]
      /\ old \in Seq([for : Nat, on : 0 .. LastTime]) /\ now \in Nat /\ now \in 0 .. LastTime
      /\ Every[s] \in Nat /\ LastTime \in Nat
  <2>1. s \in Schedules /\ entry[s].status = "pending" /\ entry[s].at <= now  BY DEF Due
  <2>2. now \in 0 .. LastTime /\ LastTime \in Nat /\ Every[s] \in Nat
    BY <2>1 DEF STypes, SchedulerAssumption
  <2>3. /\ entry[s] \in [status : {"none", "pending", "fired", "cancelled"}, at : Nat]
        /\ old \in Seq([for : Nat, on : 0 .. LastTime])
    BY <2>1 DEF STypes
  <2> QED  BY <2>1, <2>2, <2>3
<1>2. r \in [for : Nat, on : 0 .. LastTime] /\ new = Append(old, r)
  BY <1>1 DEF Dispatched
<1> HIDE DEF old, new, r
<1>3. /\ new \in Seq([for : Nat, on : 0 .. LastTime]) /\ Len(new) = Len(old) + 1
      /\ Len(old) \in Nat /\ DOMAIN old = 1 .. Len(old) /\ DOMAIN new = 1 .. Len(old) + 1
      /\ new[Len(old) + 1] = r /\ \A i \in 1 .. Len(old) : new[i] = old[i]
  BY <1>1, <1>2
<1>4. r.for = entry[s].at /\ r.on = now  BY DEF r
<1>5. CASE Every[s] = 0
  <2>1. entry'[s] = [entry[s] EXCEPT !.status = "fired"]  BY <1>5 DEF Fired
  <2>2. /\ entry'[s] \in [status : {"none", "pending", "fired", "cancelled"}, at : Nat]
        /\ entry'[s].status = "fired"
    BY <1>1, <2>1
  <2>3. Len(old) = 0  BY <1>1, <1>5 DEF Kept, old
  <2>4. Timely(s)'
    <3>1. SUFFICES ASSUME NEW i \in DOMAIN new  PROVE new[i].for <= new[i].on
      BY <1>1, <1>5 DEF Timely, new
    <3>2. new[i] = r  BY <1>3, <2>3
    <3> QED  BY <1>1, <1>4, <3>2
  <2> QED  BY <1>3, <2>2, <2>3, <2>4 DEF Kept, new
<1>6. CASE Every[s] # 0
  <2> DEFINE next == NextTime(s)
  <2>1. next \in now + 1 .. now + Every[s] /\ (next - entry[s].at) % Every[s] = 0
    <3>1. \E t \in now + 1 .. now + Every[s] : (t - entry[s].at) % Every[s] = 0
      <4>1. Every[s] \in Nat \ {0} /\ entry[s].at \in Int /\ now \in Int  BY <1>1, <1>6
      <4> QED  BY <4>1, Rhythm
    <3> QED  BY <3>1 DEF NextTime
  <2>2. entry'[s] = [entry[s] EXCEPT !.at = next]  BY <1>6 DEF Fired
  <2> HIDE DEF next
  <2>3. next \in Nat  BY <1>1, <2>1
  <2>4. /\ entry'[s] \in [status : {"none", "pending", "fired", "cancelled"}, at : Nat]
        /\ entry'[s].status = "pending" /\ entry'[s].at = next
    BY <1>1, <2>2, <2>3
  <2>5. Timely(s)'
    <3>1. SUFFICES ASSUME NEW i \in DOMAIN new
                   PROVE  /\ new[i].for <= new[i].on
                          /\ Following(s, i)' \in new[i].on + 1 .. new[i].on + Every[s]
                          /\ (Following(s, i)' - new[i].for) % Every[s] = 0
      BY DEF Timely, new
    <3>2. i \in 1 .. Len(old) + 1  BY <1>3
    <3>3. CASE i = Len(old) + 1
      <4>1. new[i] = r /\ Following(s, i)' = next  BY <1>3, <2>4, <3>3 DEF Following, new
      <4> QED  BY <1>1, <1>4, <2>1, <4>1
    <3>4. CASE i \in 1 .. Len(old)
      <4>1. new[i] = old[i] /\ i # Len(new)  BY <1>3, <3>4
      <4>2. Following(s, i)' = Following(s, i)
        <5>1. Following(s, i)' = new[i + 1].for  BY <4>1 DEF Following, new
        <5>2. CASE i = Len(old)  BY <1>3, <1>4, <5>1, <5>2 DEF Following, old
        <5>3. CASE i # Len(old)
          <6>1. i + 1 \in 1 .. Len(old)  BY <1>3, <3>4, <5>3
          <6> QED  BY <1>3, <5>1, <5>3, <6>1 DEF Following, old
        <5> QED  BY <5>2, <5>3
      <4>3. i \in DOMAIN reminded[s] /\ Every[s] > 0 /\ reminded[s][i] = new[i]
        <5>1. i \in DOMAIN old /\ old[i] = new[i]  BY <1>3, <3>4
        <5>2. Every[s] > 0  BY <1>1, <1>6
        <5> QED  BY <5>1, <5>2 DEF old
      <4> QED  BY <4>2, <4>3 DEF Kept, Timely
    <3> QED  BY <3>2, <3>3, <3>4
  <2> QED  BY <1>3, <1>6, <2>4, <2>5 DEF Kept, new
<1> QED  BY <1>5, <1>6

LEMMA FiringStep ==
    ASSUME SchedulerAssumption, TimersInv, FireDue,
           process' \in {"booting", "up", "stopping", "leaving", "down"},
           timer' \in {"none", "set", "cleared"}
    PROVE  TimersInv'
<1>1. PICK due \in SUBSET Due :
        /\ reminded' = [s \in Schedules |-> IF s \in due /\ Consumes THEN Dispatched(s) ELSE reminded[s]]
        /\ entry' = [s \in Schedules |-> IF s \in due /\ Consumes THEN Fired(s) ELSE entry[s]]
        /\ now' = now
  BY DEF FireDue
<1>2. ASSUME NEW s \in Schedules
      PROVE  /\ Kept(s)'
             /\ reminded'[s] \in Seq([for : Nat, on : 0 .. LastTime])
             /\ entry'[s] \in [status : {"none", "pending", "fired", "cancelled"}, at : Nat]
  <2>1. STypes /\ Kept(s)  BY DEF TimersInv
  <2>2. CASE s \in due /\ Consumes
    <3>1. s \in Due /\ process # "stopping" /\ reminded'[s] = Dispatched(s) /\ entry'[s] = Fired(s)
      BY <1>1, <2>2 DEF Consumes
    <3> QED  BY <2>1, <3>1, FiredIsKept
  <2>3. CASE ~(s \in due /\ Consumes)
    <3>1. reminded'[s] = reminded[s] /\ entry'[s] = entry[s]  BY <1>1, <2>3
    <3> QED  BY <2>1, <3>1, StaysKept DEF STypes
  <2> QED  BY <2>2, <2>3
<1>3. STypes'  BY <1>1, <1>2 DEF TimersInv, STypes
<1> QED  BY <1>2, <1>3 DEF TimersInv

LEMMA TimersStep ==
    ASSUME SchedulerAssumption, TimersInv, [SchedulerNext]_schedulerVars
    PROVE  TimersInv'
<1>1. STypes /\ \A s \in Schedules : Kept(s)  BY DEF TimersInv
<1>2. ASSUME UNCHANGED <<entry, reminded>>, now' \in 0 .. LastTime,
             process' \in {"booting", "up", "stopping", "leaving", "down"},
             timer' \in {"none", "set", "cleared"}
      PROVE  TimersInv'
  BY <1>1, <1>2, StaysKept DEF TimersInv, STypes
<1>3. ASSUME NEW s \in Schedules, CreateSchedule(s)  PROVE TimersInv'
  <2>1. /\ entry[s].status = "none" /\ now + Delay[s] \in Nat
        /\ entry' = [entry EXCEPT ![s] = [status |-> "pending", at |-> now + Delay[s]]]
        /\ UNCHANGED <<process, timer, now, reminded>>
    BY <1>1, <1>3 DEF CreateSchedule, SchedulerAssumption, STypes
  <2>2. STypes'  BY <1>1, <2>1 DEF STypes
  <2>3. Kept(s)'  BY <1>1, <2>1 DEF Kept, Timely, STypes
  <2>4. ASSUME NEW t \in Schedules, t # s  PROVE Kept(t)'
    BY <1>1, <2>1, <2>4, StaysKept DEF STypes
  <2> QED  BY <2>2, <2>3, <2>4 DEF TimersInv
<1>4. ASSUME NEW s \in Schedules, CancelSchedule(s)  PROVE TimersInv'
  <2>1. /\ entry' = [entry EXCEPT ![s].status = "cancelled"]
        /\ UNCHANGED <<process, timer, now, reminded>>
    BY <1>4 DEF CancelSchedule
  <2>2. STypes'  BY <1>1, <2>1 DEF STypes
  <2>3. ASSUME NEW t \in Schedules  PROVE Kept(t)'
    BY <1>1, <2>1, StaysKept DEF STypes
  <2> QED  BY <2>2, <2>3 DEF TimersInv
<1>5. CASE TimerTick \/ StartScheduler
  BY <1>1, <1>5, FiringStep DEF TimerTick, StartScheduler, STypes
<1>6. CASE BeginShutdown \/ SessionSaved \/ Ends \/ Boot \/ TimePasses \/ UNCHANGED schedulerVars
  BY <1>1, <1>2, <1>6
  DEF BeginShutdown, SessionSaved, Ends, Boot, TimePasses, schedulerVars, STypes, SchedulerAssumption
<1> QED  BY <1>3, <1>4, <1>5, <1>6 DEF SchedulerNext

LEMMA TimersInductive ==
    ASSUME SchedulerAssumption
    PROVE  SchedulerSpec => []TimersInv
<1>1. SchedulerInit => TimersInv  BY TimersInitially
<1>2. TimersInv /\ [SchedulerNext]_schedulerVars => TimersInv'  BY TimersStep
<1> QED  BY <1>1, <1>2, PTL DEF SchedulerSpec

-----------------------------------------------------------------------------
(* The rows of scheduler.ts, its timer and what the runner was given stay   *)
(* within their types.                                                      *)
THEOREM SchedulerTypeCorrect ==
    ASSUME SchedulerAssumption
    PROVE  SchedulerSpec => []SchedulerTypeOK
<1>1. TimersInv => SchedulerTypeOK  BY DEF TimersInv, STypes, SchedulerTypeOK
<1> QED  BY <1>1, TimersInductive, PTL

(* Over any sequence of shutdowns, downtimes and late looks, a reminder that*)
(* is spent has reached the runner once and not before its time, and one    *)
(* that repeats never comes twice for an interval and keeps its rhythm      *)
(* (defaultDispatch, fireSchedule, fireDueSchedules).                       *)
THEOREM RemindersStayKept ==
    ASSUME SchedulerAssumption
    PROVE  SchedulerSpec => []RemindersKept
<1>1. ASSUME TimersInv  PROVE RemindersKept
  <2>1. \A s \in Schedules : Kept(s)  BY <1>1 DEF TimersInv
  <2> QED  BY <2>1 DEF Kept, Timely, Following, RemindersKept
<1>2. TimersInv => RemindersKept  BY <1>1
<1> QED  BY <1>2, TimersInductive, PTL

-----------------------------------------------------------------------------
(* HostRpcIngress                                                            *)

HandlerStages == {"idle", "reading", "forwarded", "relaying", "stuck", "done"}

Codes == {0, 200, 404, 405, 413, 500, 502}
Kinds == {"none", "call", "get", "elsewhere"}
Requests == [kind : Kinds, declared : 0..MaxBody \cup {Chunked},
             sent : 0..MaxBody, ended : BOOLEAN]
Replies == [status : Codes, whole : BOOLEAN, reset : BOOLEAN]

IngressTypes ==
    /\ request \in Requests
    /\ taken \in [total : Nat, refused : BOOLEAN] /\ serving \in HandlerStages
    /\ origin \in Workers \cup {0} /\ registered \in Workers \cup {0} /\ hungUp \in BOOLEAN
    /\ reply \in Replies

(* What has been read is what was sent, or less of it.                       *)
BodyFits ==
    /\ taken.total <= request.sent /\ (taken.refused <=> taken.total > BodyLimit)
    /\ serving = "idle" => taken.total = 0
    /\ request.kind = "none" => serving = "idle"

(* Only a whole body of an allowed length is forwarded, and only the worker  *)
(* it was forwarded to carries the call out.                                 *)
CallFollows ==
    /\ executed \subseteq {origin} /\ (origin = 0 => executed = {})
    /\ serving \in {"idle", "reading"} => origin = 0 /\ reply = NoReply
    /\ serving \in {"forwarded", "relaying", "stuck"} => origin # 0
    /\ origin # 0 => request.ended /\ taken.total = request.sent /\ request.sent <= BodyLimit
    /\ serving = "forwarded" => reply.status = 0 /\ ~reply.reset

(* What the client is told.                                                  *)
ReplyFits ==
    /\ origin # 0 => reply.status \in {0, 200, 502}
    /\ reply.status = 200 => executed = {origin}
    /\ serving \in {"relaying", "stuck"} => reply.status = 200
    /\ serving = "done" /\ ~hungUp => reply.whole \/ reply.reset
    /\ reply.reset /\ ~hungUp =>
          reply.status \in {200, 404, 405} \/ request.declared \in BodyLimit + 1..MaxBody

IngressInv == IngressTypes /\ BodyFits /\ CallFollows /\ ReplyFits

-----------------------------------------------------------------------------
(* What an answer and a growing request are.                                 *)
LEMMA Refusal ==
    ASSUME IngressTypes, NEW st \in Codes, Refused(st)
    PROVE  /\ reply' \in Replies /\ serving' = "done" /\ reply'.status = st /\ reply'.whole
           /\ reply'.reset <=> (taken.total < request.sent \/ ~request.ended)
<1> DEFINE lost == taken.total < request.sent \/ ~request.ended
<1>1. reply' = [status |-> st, whole |-> TRUE, reset |-> lost] /\ serving' = "done"
  BY DEF Refused
<1>2. lost \in BOOLEAN
  OBVIOUS
<1>3. reply'.reset = lost /\ reply'.status = st /\ reply'.whole = TRUE
  <2> HIDE DEF lost
  <2> QED BY <1>1
<1>4. reply' \in Replies
  <2> HIDE DEF lost
  <2> QED BY <1>1, <1>2 DEF Replies
<1> QED BY <1>1, <1>3, <1>4

LEMMA ARequest ==
    ASSUME NEW k \in Kinds, NEW d \in 0..MaxBody \cup {Chunked},
           NEW n \in 0..MaxBody, NEW e \in BOOLEAN
    PROVE  [kind |-> k, declared |-> d, sent |-> n, ended |-> e] \in Requests
BY DEF Requests

LEMMA RelayEnded ==
    ASSUME NEW r \in Replies, NEW q, q = [r EXCEPT !.whole = TRUE]
    PROVE  q \in Replies /\ q.status = r.status /\ q.whole = TRUE /\ q.reset = r.reset
BY DEF Replies

LEMMA BreaksOff ==
    ASSUME NEW r \in Replies, NEW q, q = [r EXCEPT !.reset = TRUE]
    PROVE  q \in Replies /\ q.status = r.status /\ q.whole = r.whole /\ q.reset = TRUE
BY DEF Replies

(* More of the request arrives, or the end of it.                            *)
LEMMA Grows ==
    ASSUME IngressAssumption, NEW r \in Requests, NEW q, r.sent < MaxBody,
           q = [r EXCEPT !.sent = @ + 1, !.ended = @ \/ r.sent + 1 = r.declared]
    PROVE  q \in Requests /\ q.kind = r.kind /\ q.declared = r.declared /\ q.sent = r.sent + 1
<1> DEFINE e == r.ended \/ r.sent + 1 = r.declared
<1>1. e \in BOOLEAN /\ q = [r EXCEPT !.sent = r.sent + 1, !.ended = e]
  OBVIOUS
<1> HIDE DEF e
<1>2. q = [kind |-> r.kind, declared |-> r.declared, sent |-> r.sent + 1, ended |-> e]
  BY <1>1 DEF Requests
<1>3. /\ r.kind \in Kinds /\ r.declared \in 0..MaxBody \cup {Chunked}
      /\ r.sent \in 0..MaxBody
  BY DEF Requests
<1>4. r.sent + 1 \in 0..MaxBody
  BY <1>3 DEF IngressAssumption
<1> QED BY <1>1, <1>2, <1>3, <1>4 DEF Requests

LEMMA Finishes ==
    ASSUME NEW r \in Requests, NEW q, q = [r EXCEPT !.ended = TRUE]
    PROVE  q \in Requests /\ q.kind = r.kind /\ q.declared = r.declared /\ q.sent = r.sent
BY DEF Requests

-----------------------------------------------------------------------------
(* The invariant holds at the start and after every step.                    *)
LEMMA IngressStarts == ASSUME IngressAssumption, IngressInit PROVE IngressInv
<1>1. request \in Requests
  <2>1. 0 \in 0..MaxBody
    BY DEF IngressAssumption
  <2> QED BY <2>1 DEF IngressInit, Requests, Kinds
<1>2. reply \in Replies /\ reply.status = 0 /\ reply.reset = FALSE
  BY DEF IngressInit, NoReply, Replies, Codes
<1>3. taken.total = 0 /\ taken.refused = FALSE /\ taken \in [total : Nat, refused : BOOLEAN]
  BY DEF IngressInit
<1>4. request.kind = "none" /\ request.sent = 0 /\ serving = "idle" /\ origin = 0 /\ executed = {}
  BY DEF IngressInit
<1>5. IngressTypes
  BY <1>1, <1>2, <1>3, <1>4 DEF IngressTypes, IngressInit, HandlerStages
<1>6. BodyFits
  BY <1>3, <1>4 DEF BodyFits, IngressAssumption
<1>7. CallFollows
  BY <1>4 DEF CallFollows, IngressInit
<1>8. ReplyFits
  BY <1>2, <1>4 DEF ReplyFits
<1> QED BY <1>5, <1>6, <1>7, <1>8 DEF IngressInv

LEMMA BeginsStep == ASSUME IngressAssumption, IngressInv, Begins PROVE IngressInv'
BY DEF IngressAssumption, Begins, IngressInv, IngressTypes, BodyFits, CallFollows, ReplyFits,
   Requests, Replies, Codes, Kinds, NoReply, Chunked, HandlerStages

LEMMA SendsMoreStep == ASSUME IngressAssumption, IngressInv, SendsMore PROVE IngressInv'
<1>1. request \in Requests /\ request.ended = FALSE /\ request.kind # "none"
  BY DEF SendsMore, IngressInv, IngressTypes
<1>2. request' \in Requests /\ request'.kind = request.kind /\ request'.declared = request.declared
      /\ request'.sent \in {request.sent, request.sent + 1} /\ request.sent \in Nat
  <2>1. CASE request.sent < MaxBody /\ request' = [request EXCEPT !.sent = @ + 1, !.ended = @ \/ request.sent + 1 = request.declared]
    <3>1. /\ request' \in Requests /\ request'.kind = request.kind /\ request'.declared = request.declared
          /\ request'.sent = request.sent + 1
      BY <1>1, <2>1, Grows, Zenon
    <3> QED BY <1>1, <3>1 DEF Requests
  <2>2. CASE request' = [request EXCEPT !.ended = TRUE]
    BY <1>1, <2>2, Finishes DEF Requests
  <2> QED BY <2>1, <2>2 DEF SendsMore
<1>3. UNCHANGED <<taken, serving, origin, reply, executed, registered, hungUp>>
  BY DEF SendsMore
<1>4. origin = 0
  BY <1>1 DEF IngressInv, CallFollows
<1>5. IngressTypes'
  BY <1>2, <1>3 DEF IngressInv, IngressTypes
<1>6. BodyFits'
  <2>1. taken.total \in Nat /\ taken.total <= request.sent
    BY DEF IngressInv, IngressTypes, BodyFits
  <2> QED BY <1>2, <1>3, <2>1 DEF IngressInv, BodyFits
<1>7. CallFollows'
  BY <1>3, <1>4 DEF IngressInv, CallFollows, NoReply
<1>8. ReplyFits'
  BY <1>2, <1>3, <1>4 DEF IngressInv, ReplyFits
<1> QED BY <1>5, <1>6, <1>7, <1>8 DEF IngressInv

LEMMA RegistersStep == ASSUME IngressAssumption, IngressInv, Registers PROVE IngressInv'
BY DEF IngressAssumption, Registers, IngressInv, IngressTypes, BodyFits, CallFollows, ReplyFits,
   Requests, Replies, Codes, Kinds, NoReply, Chunked, HandlerStages

LEMMA RejectsStep == ASSUME IngressAssumption, IngressInv, TurnsAway PROVE IngressInv'
<1>1. PICK st \in {404, 405, 413} :
         Refused(st) /\ (st = 413 => request.declared \in BodyLimit + 1..MaxBody)
  <2>1. request.kind = "call" /\ request.declared # Chunked => request.declared \in 0..MaxBody
    BY DEF IngressInv, IngressTypes, Requests
  <2> QED BY <2>1 DEF TurnsAway, IngressAssumption
<1>2. /\ reply' \in Replies /\ serving' = "done" /\ reply'.status = st /\ reply'.whole
  BY <1>1, Refusal DEF IngressInv, Codes
<1>3. serving = "idle" /\ UNCHANGED <<request, taken, origin, executed, registered, hungUp>> /\ request.kind # "none"
  BY DEF TurnsAway
<1>4. IngressTypes'
  BY <1>2, <1>3 DEF IngressInv, IngressTypes, HandlerStages
<1>5. BodyFits'
  BY <1>2, <1>3 DEF IngressInv, BodyFits
<1>6. CallFollows'
  BY <1>2, <1>3 DEF IngressInv, CallFollows
<1>7. ReplyFits'
  BY <1>1, <1>2, <1>3 DEF IngressInv, CallFollows, ReplyFits
<1> QED BY <1>4, <1>5, <1>6, <1>7 DEF IngressInv

LEMMA AdmitsStep == ASSUME IngressAssumption, IngressInv, Admits PROVE IngressInv'
BY DEF IngressAssumption, Admits, IngressInv, IngressTypes, BodyFits, CallFollows, ReplyFits,
   Requests, Replies, Codes, Kinds, NoReply, Chunked, HandlerStages

LEMMA ReadsStep == ASSUME IngressAssumption, IngressInv, Reads PROVE IngressInv'
<1>1. /\ taken.total \in Nat /\ request.sent \in Nat /\ BodyLimit \in Nat /\ taken.total < request.sent
      /\ serving = "reading" /\ UNCHANGED <<request, serving, origin, reply, executed, registered, hungUp>>
  BY DEF IngressAssumption, Reads, CanRead, IngressInv, IngressTypes, Requests
<1>2. /\ taken'.total = taken.total + 1 /\ taken' \in [total : Nat, refused : BOOLEAN]
      /\ taken'.refused <=> taken.total + 1 > BodyLimit
  <2> DEFINE long == taken.total + 1 > BodyLimit
  <2>1. taken' = [total |-> taken.total + 1, refused |-> long] /\ long \in BOOLEAN
    BY DEF Reads
  <2> HIDE DEF long
  <2>2. taken'.total = taken.total + 1 /\ taken'.refused = long /\ taken' \in [total : Nat, refused : BOOLEAN]
    BY <1>1, <2>1
  <2> QED BY <2>2 DEF long
<1>3. IngressTypes'
  BY <1>1, <1>2 DEF IngressInv, IngressTypes
<1>4. BodyFits'
  BY <1>1, <1>2 DEF IngressInv, BodyFits
<1>5. CallFollows' /\ ReplyFits'
  BY <1>1 DEF IngressInv, CallFollows, ReplyFits, NoReply
<1> QED BY <1>3, <1>4, <1>5 DEF IngressInv

LEMMA TooLongStep == ASSUME IngressAssumption, IngressInv, TooLong PROVE IngressInv'
BY DEF IngressAssumption, TooLong, BodyWhole, Refused, IngressInv, IngressTypes, BodyFits,
   CallFollows, ReplyFits, Requests, Replies, Codes, Kinds, NoReply, Chunked, HandlerStages

LEMMA ForwardsStep == ASSUME IngressAssumption, IngressInv, Forwards PROVE IngressInv'
<1>1. /\ serving = "reading" /\ request.ended /\ taken.total = request.sent /\ request.sent \in Nat
      /\ request.sent <= BodyLimit /\ UNCHANGED <<request, taken, executed, registered, hungUp>>
  BY DEF Forwards, BodyWhole, IngressInv, IngressTypes, BodyFits, Requests, IngressAssumption
<1>2. CASE registered = 0
  <2>1. Refused(502) /\ UNCHANGED origin
    BY <1>2 DEF Forwards, Reachable
  <2>2. /\ reply' \in Replies /\ serving' = "done" /\ reply'.status = 502 /\ reply'.whole
        /\ ~reply'.reset
    <3>1. /\ reply' \in Replies /\ serving' = "done" /\ reply'.status = 502 /\ reply'.whole
          /\ reply'.reset <=> (taken.total < request.sent \/ ~request.ended)
      BY <2>1, Refusal DEF IngressInv, Codes
    <3> QED BY <1>1, <3>1
  <2>3. IngressTypes'
    BY <1>1, <2>1, <2>2 DEF IngressInv, IngressTypes, HandlerStages
  <2>4. BodyFits' /\ CallFollows'
    BY <1>1, <2>1, <2>2 DEF IngressInv, BodyFits, CallFollows
  <2>5. ReplyFits'
    BY <1>1, <2>1, <2>2 DEF IngressInv, ReplyFits
  <2> QED BY <2>3, <2>4, <2>5 DEF IngressInv
<1>3. CASE registered # 0
  <2>1. origin' = registered /\ serving' = "forwarded" /\ UNCHANGED reply
    BY <1>3 DEF Forwards, Reachable
  <2>2. origin = 0 /\ executed = {} /\ reply.status = 0 /\ reply.reset = FALSE
    BY <1>1 DEF IngressInv, CallFollows, NoReply
  <2>3. IngressTypes'
    BY <1>1, <2>1 DEF IngressInv, IngressTypes, HandlerStages
  <2>4. BodyFits' /\ CallFollows'
    BY <1>1, <1>3, <2>1, <2>2 DEF IngressInv, BodyFits, CallFollows
  <2>5. ReplyFits'
    BY <1>1, <2>1, <2>2 DEF IngressInv, ReplyFits
  <2> QED BY <2>3, <2>4, <2>5 DEF IngressInv
<1> QED BY <1>2, <1>3

LEMMA HangsUpStep == ASSUME IngressAssumption, IngressInv, HangsUp PROVE IngressInv'
<1>1. hungUp' = TRUE /\ UNCHANGED <<request, taken, origin, executed, registered>> /\ request.kind # "none"
  BY DEF HangsUp
<1>2. CASE serving = "reading" /\ ~BodyWhole
  <2>1. serving' = "done" /\ origin = 0 /\ reply = NoReply
    BY <1>2 DEF HangsUp, IngressInv, CallFollows
  <2>2. reply' = NoReply \/ reply' = [status |-> 500, whole |-> FALSE, reset |-> TRUE]
    BY <1>2, <2>1 DEF HangsUp
  <2>3. reply' \in Replies /\ reply'.status \in {0, 500}
    <3>1. CASE reply' = NoReply
      BY <3>1 DEF NoReply, Replies, Codes
    <3>2. CASE reply' = [status |-> 500, whole |-> FALSE, reset |-> TRUE]
      BY <3>2 DEF Replies, Codes
    <3> QED BY <2>2, <3>1, <3>2
  <2>4. IngressTypes'
    BY <1>1, <2>1, <2>3 DEF IngressInv, IngressTypes, HandlerStages
  <2>5. BodyFits' /\ CallFollows'
    BY <1>1, <2>1 DEF IngressInv, BodyFits, CallFollows
  <2>6. ReplyFits'
    BY <1>1, <2>1, <2>3 DEF ReplyFits
  <2> QED BY <2>4, <2>5, <2>6 DEF IngressInv
<1>3. CASE ~(serving = "reading" /\ ~BodyWhole)
  <2>1. UNCHANGED <<serving, reply>>
    BY <1>3 DEF HangsUp
  <2> QED BY <1>1, <2>1 DEF IngressInv, IngressTypes, BodyFits, CallFollows, ReplyFits, NoReply
<1> QED BY <1>2, <1>3

LEMMA ExecutesStep == ASSUME IngressAssumption, IngressInv, Executes PROVE IngressInv'
BY DEF IngressAssumption, Executes, IngressInv, IngressTypes, BodyFits, CallFollows, ReplyFits,
   Requests, Replies, Codes, Kinds, NoReply, Chunked, HandlerStages

LEMMA RespondsStep == ASSUME IngressAssumption, IngressInv, Responds PROVE IngressInv'
<1>1. /\ serving = "forwarded" /\ origin \in executed /\ serving' = "relaying"
      /\ UNCHANGED <<request, taken, origin, executed, registered, hungUp>>
  BY DEF Responds
<1>2. reply' \in Replies /\ reply'.status = 200 /\ reply'.reset = FALSE
  BY DEF Responds, Replies, Codes
<1>3. IngressTypes'
  BY <1>1, <1>2 DEF IngressInv, IngressTypes, HandlerStages
<1>4. BodyFits' /\ CallFollows'
  BY <1>1 DEF IngressInv, BodyFits, CallFollows
<1>5. ReplyFits'
  BY <1>1, <1>2 DEF IngressInv, CallFollows, ReplyFits
<1> QED BY <1>3, <1>4, <1>5 DEF IngressInv

LEMMA RelayEndsStep == ASSUME IngressAssumption, IngressInv, RelayEnds PROVE IngressInv'
<1>1. /\ serving = "relaying" /\ serving' = "done"
      /\ UNCHANGED <<request, taken, origin, executed, registered, hungUp>>
  BY DEF RelayEnds
<1>2. reply' \in Replies /\ reply'.status = reply.status /\ reply'.whole = TRUE /\ reply'.reset = reply.reset
  BY RelayEnded DEF RelayEnds, IngressInv, IngressTypes
<1>3. IngressTypes'
  BY <1>1, <1>2 DEF IngressInv, IngressTypes, HandlerStages
<1>4. BodyFits' /\ CallFollows'
  BY <1>1 DEF IngressInv, BodyFits, CallFollows
<1>5. ReplyFits'
  BY <1>1, <1>2 DEF IngressInv, ReplyFits
<1> QED BY <1>3, <1>4, <1>5 DEF IngressInv

LEMMA UpstreamFailsStep == ASSUME IngressAssumption, IngressInv, UpstreamFails PROVE IngressInv'
<1>1. UNCHANGED <<request, taken, origin, executed, registered, hungUp>>
  BY DEF UpstreamFails
<1>2. CASE serving = "forwarded"
  <2>1. Refused(502)
    BY <1>2 DEF UpstreamFails
  <2>2. request.ended /\ taken.total = request.sent /\ request.sent \in Nat /\ origin # 0
    BY <1>2 DEF IngressInv, IngressTypes, CallFollows, Requests
  <2>3. /\ reply' \in Replies /\ serving' = "done" /\ reply'.status = 502 /\ reply'.whole
        /\ reply'.reset <=> (taken.total < request.sent \/ ~request.ended)
    BY <2>1, Refusal DEF IngressInv, Codes
  <2>4. ~reply'.reset
    BY <2>2, <2>3
  <2>5. IngressTypes'
    BY <1>1, <2>3 DEF IngressInv, IngressTypes, HandlerStages
  <2>6. BodyFits' /\ CallFollows'
    BY <1>1, <1>2, <2>2, <2>3 DEF IngressInv, BodyFits, CallFollows
  <2>7. ReplyFits'
    BY <1>1, <2>3, <2>4 DEF IngressInv, ReplyFits
  <2> QED BY <2>5, <2>6, <2>7 DEF IngressInv
<1>3. CASE serving = "relaying"
  <2>1. serving' = "done" /\ reply' = [reply EXCEPT !.reset = TRUE]
    BY <1>3 DEF UpstreamFails
  <2>2. reply' \in Replies /\ reply'.status = reply.status /\ reply'.whole = reply.whole /\ reply'.reset = TRUE
    BY <2>1, BreaksOff DEF IngressInv, IngressTypes
  <2>3. IngressTypes'
    BY <1>1, <2>1, <2>2 DEF IngressInv, IngressTypes, HandlerStages
  <2>4. BodyFits' /\ CallFollows'
    BY <1>1, <1>3, <2>1 DEF IngressInv, BodyFits, CallFollows
  <2>5. ReplyFits'
    BY <1>1, <1>3, <2>1, <2>2 DEF IngressInv, ReplyFits
  <2> QED BY <2>3, <2>4, <2>5 DEF IngressInv
<1> QED BY <1>2, <1>3 DEF UpstreamFails

LEMMA CutOffStep == ASSUME IngressAssumption, IngressInv, CutOff PROVE IngressInv'
BY DEF IngressAssumption, CutOff, IngressInv, IngressTypes, BodyFits, CallFollows, ReplyFits,
   Requests, Replies, Codes, Kinds, NoReply, Chunked, HandlerStages

LEMMA IngressStep == ASSUME IngressAssumption, IngressInv, [IngressNext]_ingressVars PROVE IngressInv'
<1>1. CASE UNCHANGED ingressVars
  BY <1>1 DEF ingressVars, IngressInv, IngressTypes, BodyFits, CallFollows, ReplyFits
<1> QED BY <1>1, BeginsStep, SendsMoreStep, RegistersStep, RejectsStep, AdmitsStep, ReadsStep, TooLongStep, ForwardsStep,
           HangsUpStep, ExecutesStep, RespondsStep, RelayEndsStep, UpstreamFailsStep, CutOffStep DEF IngressNext

LEMMA IngressTells == ASSUME IngressAssumption, IngressInv PROVE IngressTypeOK /\ IngressHolds
<1>1. IngressTypeOK
  BY DEF IngressInv, IngressTypes, BodyFits, IngressTypeOK, HandlerStages, Replies, Codes
<1>2. Cardinality(executed) <= 1
  <2>1. executed = {} \/ executed = {origin}
    BY DEF IngressInv, CallFollows
  <2>2. Cardinality({}) = 0
    BY FS_EmptySet
  <2>3. Cardinality({origin}) = 1
    BY FS_Singleton
  <2> QED BY <2>1, <2>2, <2>3
<1>3. AnswersTellTruth
  BY <1>2 DEF IngressInv, CallFollows, ReplyFits, AnswersTellTruth
<1>4. CallsAreAnswered
  <2>1. /\ taken.total \in Nat /\ request.sent \in Nat /\ taken.total <= request.sent /\ serving \in HandlerStages
        /\ request.ended \in BOOLEAN /\ hungUp \in BOOLEAN /\ reply.whole \in BOOLEAN /\ reply.reset \in BOOLEAN
    BY DEF IngressInv, IngressTypes, BodyFits, Requests, Replies
  <2>2. Waits => \/ serving \in {"idle", "forwarded", "relaying", "stuck"} \/ CanRead \/ BodyWhole
                 \/ reply.whole \/ reply.reset
    <3>1. ASSUME Waits, serving = "reading" PROVE CanRead \/ BodyWhole
      BY <2>1, <3>1 DEF Waits, CanRead, BodyWhole
    <3>2. ASSUME Waits, serving = "done" PROVE reply.whole \/ reply.reset
      BY <3>2 DEF Waits, IngressInv, ReplyFits
    <3> QED BY <2>1, <3>1, <3>2 DEF HandlerStages
  <2>3. Waits /\ reply.reset => reply.status \in {200, 404, 405} \/ request.declared \in BodyLimit + 1..MaxBody
    BY DEF Waits, IngressInv, ReplyFits
  <2> QED BY <2>2, <2>3 DEF CallsAreAnswered
<1> QED BY <1>1, <1>3, <1>4 DEF IngressHolds

-----------------------------------------------------------------------------
(* For every limit, every length of a body and every set of workers, the    *)
(* ingress has no state its type does not allow.                             *)
THEOREM IngressTypeCorrect == IngressAssumption => (IngressSpec => []IngressTypeOK)
<1> SUFFICES ASSUME IngressAssumption PROVE IngressSpec => []IngressTypeOK
  OBVIOUS
<1>1. IngressInit => IngressInv
  BY IngressStarts
<1>2. IngressInv /\ [IngressNext]_ingressVars => IngressInv'
  BY IngressStep
<1>3. IngressInv => IngressTypeOK
  BY IngressTells
<1> QED BY <1>1, <1>2, <1>3, PTL DEF IngressSpec

(* readBoundedBody and forwardHostRpc of client-reverse-rpc.ts: a call is   *)
(* carried out by one worker at most, with its whole body and within the    *)
(* limit, the answer says so, and whoever waits is answered (IngressHolds),  *)
(* whatever goes away meanwhile.                                             *)
THEOREM CallersAreTold == IngressAssumption => (IngressSpec => []IngressHolds)
<1> SUFFICES ASSUME IngressAssumption PROVE IngressSpec => []IngressHolds
  OBVIOUS
<1>1. IngressInit => IngressInv
  BY IngressStarts
<1>2. IngressInv /\ [IngressNext]_ingressVars => IngressInv'
  BY IngressStep
<1>3. IngressInv => IngressHolds
  BY IngressTells
<1> QED BY <1>1, <1>2, <1>3, PTL DEF IngressSpec

-----------------------------------------------------------------------------
(* Tunnel                                                                    *)

Readings == {"next", "drain", "done"}
Sockets == {"none", "open", "destroyed", "closed"}
StreamStages == {"none", "opening", "open", "accepted", "refused", "failed"}
Pumps == [on : BOOLEAN, recvDone : BOOLEAN, sendDone : BOOLEAN, socketEnded : BOOLEAN, settled : BOOLEAN,
          ended : BOOLEAN, stopped : BOOLEAN, reading : Readings, chain : Seq(Nat)]
TunnelTypes ==
    /\ attached \in 0..Second /\ over \subseteq 1..Second
    /\ biStream \in [conn : 0..Second, stage : StreamStages]
    /\ socket \in [Sides -> Sockets]
    /\ app \in [Sides -> [wrote : Nat, taken : Nat, ended : BOOLEAN]]
    /\ pump \in [Sides -> Pumps]
    /\ wire \in [Sides -> Seq(Nat)] /\ received \in [Sides -> Seq(Nat)]

(* The stages of the stream, and the connection it is on.                    *)
StagesFit ==
    /\ socket["near"] = "none" => biStream.stage = "none"
    /\ biStream.stage # "none" => biStream.conn # 0
    /\ biStream.stage \in {"none", "opening"} => pump["near"] = NoPump
    /\ biStream.stage \in {"none", "opening", "open", "refused"} => pump["far"] = NoPump
    /\ pump["far"] = NoPump => socket["far"] = "none" /\ ~pump["far"].on
    /\ biStream.stage \in {"open", "accepted", "refused"} => pump["near"].on
    /\ biStream.stage = "accepted" => pump["far"].on
    /\ socket["near"] = "open" => biStream.conn = attached /\ attached # 0
    /\ biStream.stage = "opening" => socket["near"] = "open" \/ ~Carried
    /\ socket["near"] = "open" /\ ~pump["near"].on => biStream.stage = "opening"

(* A pump and its socket.                                                    *)
PumpFits(s) ==
    /\ ~pump[s].on => pump[s] = NoPump /\ app[s].taken = 0 /\ wire[s] = <<>> /\ received[s] = <<>>
    /\ pump[s].on => socket[s] # "none"
    /\ pump[s].settled => pump[s].sendDone /\ pump[s].recvDone /\ socket[s] # "open"
    /\ pump[s].on => (pump[s].recvDone <=> pump[s].reading = "done")
    /\ pump[s].stopped => pump[s].settled
    /\ pump[s].sendDone => pump[s].ended \/ pump[s].settled
    /\ pump[s].ended => pump[s].sendDone /\ app[s].ended /\ app[s].taken = app[s].wrote
    /\ pump[s].on /\ socket[s] # "open" => pump[s].settled \/ ~Carried
    /\ pump[s].on /\ socket[s] = "closed" /\ ~pump[s].settled => pump[s].reading = "next"
    /\ pump[s].recvDone /\ socket[s] = "open" => pump[s].socketEnded
    /\ pump[s].recvDone /\ ~pump[s].stopped /\ Carried => pump[Peer(s)].sendDone

(* What was sent, w, and what waits behind it, c, follow the r chunks that    *)
(* were received: nothing is missing, and the end comes behind the last      *)
(* chunk taken from the application, unless sending failed.                  *)
FinIn(q) == \E i \in 1..Len(q) : q[i] = Fin
Runs(q, from) == \A i \in 1..Len(q) : q[i] = from + i \/ (q[i] = Fin /\ i = Len(q))
Heard(r, w, c, got, closed, carried) ==
    /\ Runs(w, r) /\ Runs(c, r + Len(w))
    /\ FinIn(w) => c = <<>>
    /\ FinIn(w) \/ FinIn(c) => closed /\ r + Len(w) + Len(c) = got + 1
    /\ ~FinIn(w) /\ ~FinIn(c) => r + Len(w) + Len(c) <= got
    /\ ~closed => ~FinIn(w) /\ ~FinIn(c) /\ r + Len(w) + Len(c) = got
    /\ carried /\ closed => FinIn(w) \/ FinIn(c)

(* From s to the other side.                                                 *)
LineFits(s) ==
    /\ Len(received[Peer(s)]) <= app[s].taken /\ app[s].taken <= app[s].wrote
    /\ \A i \in 1..Len(received[Peer(s)]) : received[Peer(s)][i] = i
    /\ ~pump[Peer(s)].recvDone =>
          Heard(Len(received[Peer(s)]), wire[s], pump[s].chain, app[s].taken, pump[s].sendDone, Carried)
    /\ pump[Peer(s)].socketEnded =>
          /\ pump[Peer(s)].recvDone
          /\ pump[s].ended => Len(received[Peer(s)]) = app[s].wrote
          /\ pump[s].ended \/ pump[s].settled

TunnelInv == TunnelTypes /\ StagesFit /\ \A s \in Sides : PumpFits(s) /\ LineFits(s)

-----------------------------------------------------------------------------
(* Sequences *)

LEMMA Added ==
    ASSUME NEW w \in Seq(Nat), NEW x \in Nat
    PROVE  /\ Append(w, x) \in Seq(Nat) /\ Len(Append(w, x)) = Len(w) + 1 /\ Len(w) \in Nat
           /\ \A i \in 1..Len(w) : Append(w, x)[i] = w[i]
           /\ Append(w, x)[Len(w) + 1] = x
OBVIOUS

LEMMA Removed ==
    ASSUME NEW w \in Seq(Nat), w # <<>>
    PROVE  /\ Tail(w) \in Seq(Nat) /\ Len(Tail(w)) = Len(w) - 1 /\ Len(w) \in Nat /\ Len(w) >= 1
           /\ Head(w) = w[1] /\ w[1] \in Nat /\ \A i \in 1..(Len(w) - 1) : Tail(w)[i] = w[i + 1]
<1>1. Len(w) \in Nat /\ Len(w) >= 1 /\ Head(w) = w[1] /\ w[1] \in Nat
  OBVIOUS
<1>2. Tail(w) \in Seq(Nat) /\ Len(Tail(w)) = Len(w) - 1
  OBVIOUS
<1>3. \A i \in 1..(Len(w) - 1) : Tail(w)[i] = w[i + 1]
  OBVIOUS
<1> QED BY <1>1, <1>2, <1>3

LEMMA FinAdded ==
    ASSUME NEW w \in Seq(Nat), NEW x \in Nat
    PROVE  FinIn(Append(w, x)) <=> FinIn(w) \/ x = Fin
<1> DEFINE v == Append(w, x)
<1>1. Len(v) = Len(w) + 1 /\ Len(w) \in Nat /\ v[Len(w) + 1] = x /\ \A i \in 1..Len(w) : v[i] = w[i]
  BY Added
<1> HIDE DEF v
<1>2. ASSUME FinIn(w) PROVE FinIn(v)
  <2>1. PICK i \in 1..Len(w) : w[i] = Fin
    BY <1>2 DEF FinIn
  <2>2. i \in 1..Len(v) /\ v[i] = Fin
    BY <1>1, <2>1
  <2> QED BY <2>2 DEF FinIn
<1>3. ASSUME x = Fin PROVE FinIn(v)
  <2>1. Len(w) + 1 \in 1..Len(v) /\ v[Len(w) + 1] = Fin
    BY <1>1, <1>3
  <2> QED BY <2>1 DEF FinIn
<1>4. ASSUME FinIn(v), x # Fin PROVE FinIn(w)
  <2>1. PICK i \in 1..Len(v) : v[i] = Fin
    BY <1>4 DEF FinIn
  <2>2. i \in 1..Len(w)
    BY <1>1, <1>4, <2>1
  <2> QED BY <1>1, <2>1, <2>2 DEF FinIn
<1> QED BY <1>2, <1>3, <1>4 DEF v

LEMMA FinRemoved ==
    ASSUME NEW w \in Seq(Nat), w # <<>>
    PROVE  FinIn(w) <=> FinIn(Tail(w)) \/ Head(w) = Fin
<1> DEFINE v == Tail(w)
<1>1. /\ Len(v) = Len(w) - 1 /\ Len(w) \in Nat /\ Len(w) >= 1 /\ Head(w) = w[1]
      /\ \A i \in 1..(Len(w) - 1) : v[i] = w[i + 1]
  BY Removed
<1> HIDE DEF v
<1>2. ASSUME FinIn(v) PROVE FinIn(w)
  <2>1. PICK i \in 1..Len(v) : v[i] = Fin
    BY <1>2 DEF FinIn
  <2>2. i + 1 \in 1..Len(w) /\ w[i + 1] = Fin
    BY <1>1, <2>1
  <2> QED BY <2>2 DEF FinIn
<1>3. ASSUME Head(w) = Fin PROVE FinIn(w)
  <2>1. 1 \in 1..Len(w) /\ w[1] = Fin
    BY <1>1, <1>3
  <2> QED BY <2>1 DEF FinIn
<1>4. ASSUME FinIn(w), Head(w) # Fin PROVE FinIn(v)
  <2>1. PICK i \in 1..Len(w) : w[i] = Fin
    BY <1>4 DEF FinIn
  <2>2. i # 1
    BY <1>1, <1>4, <2>1
  <2>3. i - 1 \in 1..Len(v) /\ (i - 1) + 1 = i /\ i - 1 \in 1..(Len(w) - 1)
    BY <1>1, <2>1, <2>2
  <2>4. v[i - 1] = Fin
    BY <1>1, <2>1, <2>3
  <2> QED BY <2>3, <2>4 DEF FinIn
<1> QED BY <1>2, <1>3, <1>4 DEF v

LEMMA NoneIn == ~FinIn(<<>>) /\ \A from \in Nat : Runs(<<>>, from)
BY DEF FinIn, Runs

LEMMA RunsAdded ==
    ASSUME NEW w \in Seq(Nat), NEW from \in Nat, NEW x \in Nat, Runs(w, from), ~FinIn(w),
           x = Fin \/ x = from + Len(w) + 1
    PROVE  Runs(Append(w, x), from)
<1> DEFINE v == Append(w, x)
<1>1. Len(v) = Len(w) + 1 /\ Len(w) \in Nat /\ v[Len(w) + 1] = x /\ \A i \in 1..Len(w) : v[i] = w[i]
  BY Added
<1> HIDE DEF v
<1>2. ASSUME NEW i \in 1..Len(v) PROVE v[i] = from + i \/ (v[i] = Fin /\ i = Len(v))
  <2>1. CASE i \in 1..Len(w)
    <3>1. w[i] # Fin
      BY <2>1 DEF FinIn
    <3>2. w[i] = from + i \/ (w[i] = Fin /\ i = Len(w))
      BY <2>1 DEF Runs
    <3> QED BY <1>1, <2>1, <3>1, <3>2
  <2>2. CASE i = Len(w) + 1
    BY <1>1, <2>2
  <2> QED BY <1>1, <2>1, <2>2
<1> QED BY <1>2 DEF v, Runs

LEMMA RunsRemoved ==
    ASSUME NEW w \in Seq(Nat), w # <<>>, NEW from \in Nat, Runs(w, from)
    PROVE  /\ Runs(Tail(w), from + 1)
           /\ Head(w) = Fin => Len(w) = 1
           /\ Head(w) # Fin => Head(w) = from + 1
<1> DEFINE v == Tail(w)
<1>1. /\ Len(v) = Len(w) - 1 /\ Len(w) \in Nat /\ Len(w) >= 1 /\ Head(w) = w[1]
      /\ \A i \in 1..(Len(w) - 1) : v[i] = w[i + 1]
  BY Removed
<1> HIDE DEF v
<1>2. ASSUME NEW i \in 1..Len(v) PROVE v[i] = (from + 1) + i \/ (v[i] = Fin /\ i = Len(v))
  <2>1. i + 1 \in 1..Len(w) /\ i \in 1..(Len(w) - 1) /\ i \in Nat
    BY <1>1
  <2>2. w[i + 1] = from + (i + 1) \/ (w[i + 1] = Fin /\ i + 1 = Len(w))
    BY <2>1 DEF Runs
  <2> QED BY <1>1, <2>1, <2>2
<1>3. 1 \in 1..Len(w)
  BY <1>1
<1>4. w[1] = from + 1 \/ (w[1] = Fin /\ 1 = Len(w))
  BY <1>3 DEF Runs
<1>5. Runs(v, from + 1)
  BY <1>2 DEF Runs
<1>6. from + 1 # Fin
  BY DEF Fin
<1> QED BY <1>1, <1>4, <1>5, <1>6 DEF v

(* What the steps of a pump do to a line that is heard.                      *)
LEMMA HeardData ==
    ASSUME NEW r \in Nat, NEW w \in Seq(Nat), NEW c \in Seq(Nat), NEW t \in Nat, NEW b, Heard(r, w, c, t, FALSE, b)
    PROVE  Heard(r, w, Append(c, t + 1), t + 1, FALSE, b)
<1> DEFINE d == Append(c, t + 1)
<1>1. /\ ~FinIn(w) /\ ~FinIn(c) /\ r + Len(w) + Len(c) = t /\ Runs(w, r) /\ Runs(c, r + Len(w))
      /\ Len(w) \in Nat /\ Len(c) \in Nat
  BY DEF Heard
<1>2. Len(d) = Len(c) + 1
  BY Added
<1>3. t + 1 \in Nat /\ t + 1 # Fin /\ t + 1 = (r + Len(w)) + Len(c) + 1 /\ r + Len(w) \in Nat
  <2>1. t + 1 \in Nat /\ t + 1 # 0
    OBVIOUS
  <2>2. r + Len(w) \in Nat /\ t + 1 = (r + Len(w)) + Len(c) + 1
    <3>1. r + Len(w) + Len(c) = t /\ Len(w) \in Nat /\ Len(c) \in Nat
      BY <1>1
    <3> QED BY <3>1
  <2> QED BY <2>1, <2>2 DEF Fin
<1>4. ~FinIn(d)
  BY <1>1, <1>3, FinAdded
<1>5. Runs(d, r + Len(w))
  BY <1>1, <1>3, RunsAdded
<1> HIDE DEF d
<1>6. Heard(r, w, d, t + 1, FALSE, b)
  BY <1>1, <1>2, <1>4, <1>5 DEF Heard
<1> QED BY <1>6 DEF d

LEMMA HeardEnd ==
    ASSUME NEW r \in Nat, NEW w \in Seq(Nat), NEW c \in Seq(Nat), NEW t \in Nat, NEW b, Heard(r, w, c, t, FALSE, b)
    PROVE  Heard(r, w, Append(c, Fin), t, TRUE, b)
<1> DEFINE d == Append(c, Fin)
<1>1. /\ ~FinIn(w) /\ ~FinIn(c) /\ r + Len(w) + Len(c) = t /\ Runs(w, r) /\ Runs(c, r + Len(w))
      /\ Len(w) \in Nat /\ Len(c) \in Nat
  BY DEF Heard
<1>2. Len(d) = Len(c) + 1
  BY Added DEF Fin
<1>3. r + Len(w) \in Nat /\ Fin \in Nat
  BY <1>1 DEF Fin
<1>4. FinIn(d)
  BY <1>3, FinAdded
<1>5. Runs(d, r + Len(w))
  BY <1>1, <1>3, RunsAdded
<1> HIDE DEF d
<1>6. r + Len(w) + Len(d) = t + 1
  <2>1. r + Len(w) + Len(c) = t /\ Len(w) \in Nat /\ Len(c) \in Nat
    BY <1>1
  <2> QED BY <1>2, <2>1
<1>7. Heard(r, w, d, t, TRUE, b)
  BY <1>1, <1>4, <1>5, <1>6 DEF Heard
<1> QED BY <1>7 DEF d

(* The queue is given up, or its last member, when nothing is carried.       *)
LEMMA HeardLost ==
    ASSUME NEW r \in Nat, NEW w \in Seq(Nat), NEW c \in Seq(Nat), NEW t \in Nat, NEW e \in BOOLEAN,
           c # <<>>, Heard(r, w, c, t, e, FALSE)
    PROVE  Heard(r, w, <<>>, t, TRUE, FALSE)
<1>1. /\ ~FinIn(w) /\ Runs(w, r) /\ Len(w) \in Nat /\ Len(c) \in Nat /\ Len(c) >= 1
  BY Removed DEF Heard
<1>2. r + Len(w) <= t
  <2>1. CASE FinIn(c)
    BY <1>1, <2>1 DEF Heard
  <2>2. CASE ~FinIn(c)
    BY <1>1, <2>2 DEF Heard
  <2> QED BY <2>1, <2>2
<1>3. ~FinIn(<<>>) /\ Runs(<<>>, r + Len(w)) /\ Len(<<>>) = 0
  BY <1>1, NoneIn
<1> DEFINE z == <<>>
<1> HIDE DEF z
<1>4. ~FinIn(z) /\ Runs(z, r + Len(w)) /\ Len(z) = 0
  BY <1>3 DEF z
<1>5. Heard(r, w, z, t, TRUE, FALSE)
  BY <1>1, <1>2, <1>4 DEF Heard
<1> QED BY <1>5 DEF z

LEMMA HeardSent ==
    ASSUME NEW r \in Nat, NEW w \in Seq(Nat), NEW c \in Seq(Nat), NEW t \in Nat, NEW e \in BOOLEAN, NEW b \in BOOLEAN,
           c # <<>>, Heard(r, w, c, t, e, b)
    PROVE  Heard(r, Append(w, Head(c)), Tail(c), t, e, b)
<1> DEFINE x == Head(c)
           u == Append(w, x)
           d == Tail(c)
<1>1. /\ ~FinIn(w) /\ Runs(w, r) /\ Runs(c, r + Len(w)) /\ Len(w) \in Nat /\ Len(c) \in Nat
  BY DEF Heard
<1>2. /\ d \in Seq(Nat) /\ Len(d) = Len(c) - 1 /\ Len(c) >= 1 /\ x \in Nat
  BY Removed
<1>3. FinIn(c) <=> FinIn(d) \/ x = Fin
  BY FinRemoved
<1>4. /\ Runs(d, (r + Len(w)) + 1)
      /\ x = Fin => Len(c) = 1
      /\ x # Fin => x = (r + Len(w)) + 1
  <2>1. r + Len(w) \in Nat
    BY <1>1
  <2> QED BY <1>1, <2>1, RunsRemoved
<1>5. Len(u) = Len(w) + 1
  BY <1>2, Added
<1>6. FinIn(u) <=> x = Fin
  BY <1>1, <1>2, FinAdded
<1>7. Runs(u, r)
  BY <1>1, <1>2, <1>4, RunsAdded
<1> HIDE DEF x, u, d
<1>8. Runs(d, r + Len(u))
  <2>1. r + Len(u) = (r + Len(w)) + 1
    BY <1>1, <1>5
  <2>2. Runs(d, (r + Len(w)) + 1)
    BY <1>4
  <2> QED BY <2>1, <2>2, Zenon
<1>9. r + Len(u) + Len(d) = r + Len(w) + Len(c)
  BY <1>1, <1>2, <1>5
<1>10. x = Fin => d = <<>>
  <2>1. ASSUME x = Fin PROVE Len(d) = 0
    <3>1. Len(c) = 1
      BY <1>4, <2>1
    <3>2. Len(d) = 1 - 1
      BY <1>2, <3>1
    <3> QED BY <3>2
  <2> QED BY <1>2, <2>1, EmptySeq
<1>11. Heard(r, u, d, t, e, b)
  <2>1. FinIn(u) \/ FinIn(d) <=> FinIn(c)
    BY <1>3, <1>6
  <2>2. FinIn(u) => d = <<>>
    BY <1>6, <1>10
  <2>3. /\ FinIn(c) => e /\ r + Len(w) + Len(c) = t + 1
        /\ ~FinIn(c) => r + Len(w) + Len(c) <= t
        /\ ~e => ~FinIn(c) /\ r + Len(w) + Len(c) = t
        /\ b /\ e => FinIn(c)
    BY <1>1 DEF Heard
  <2> QED BY <1>7, <1>8, <1>9, <2>1, <2>2, <2>3 DEF Heard
<1> QED BY <1>11 DEF x, u, d

LEMMA HeardGot ==
    ASSUME NEW r \in Nat, NEW w \in Seq(Nat), NEW c \in Seq(Nat), NEW t \in Nat, NEW e \in BOOLEAN, NEW b \in BOOLEAN,
           w # <<>>, Head(w) # Fin, Heard(r, w, c, t, e, b)
    PROVE  Head(w) = r + 1 /\ r + 1 <= t /\ Heard(r + 1, Tail(w), c, t, e, b)
<1> DEFINE u == Tail(w)
<1>1. /\ Runs(w, r) /\ Runs(c, r + Len(w)) /\ Len(w) \in Nat /\ Len(c) \in Nat
  BY DEF Heard
<1>2. u \in Seq(Nat) /\ Len(u) = Len(w) - 1 /\ Len(w) >= 1 /\ Len(u) \in Nat
  BY Removed
<1>3. FinIn(w) <=> FinIn(u)
  BY FinRemoved
<1>4. Runs(u, r + 1) /\ Head(w) = r + 1
  BY <1>1, RunsRemoved
<1> HIDE DEF u
<1>5. (r + 1) + Len(u) = r + Len(w)
  BY <1>1, <1>2
<1>6. r + 1 <= t
  <2>1. CASE FinIn(w)
    <3>1. Len(u) >= 1
      BY <1>2, <1>3, <2>1 DEF FinIn
    <3>2. r + Len(w) + Len(c) = t + 1
      BY <2>1 DEF Heard
    <3> QED BY <1>1, <1>2, <3>1, <3>2
  <2>2. CASE ~FinIn(w) /\ FinIn(c)
    <3>1. Len(c) >= 1
      BY <1>1, <2>2 DEF FinIn
    <3>2. r + Len(w) + Len(c) = t + 1
      BY <2>2 DEF Heard
    <3> QED BY <1>1, <1>2, <3>1, <3>2
  <2>3. CASE ~FinIn(w) /\ ~FinIn(c)
    <3>2. r + Len(w) + Len(c) <= t
      BY <2>3 DEF Heard
    <3> QED BY <1>1, <1>2, <3>2
  <2> QED BY <2>1, <2>2, <2>3
<1>7. Heard(r + 1, u, c, t, e, b)
  <2>1. Runs(c, (r + 1) + Len(u)) /\ (r + 1) + Len(u) + Len(c) = r + Len(w) + Len(c)
    BY <1>1, <1>5
  <2>2. /\ FinIn(w) => c = <<>>
        /\ FinIn(w) \/ FinIn(c) => e /\ r + Len(w) + Len(c) = t + 1
        /\ ~FinIn(w) /\ ~FinIn(c) => r + Len(w) + Len(c) <= t
        /\ ~e => ~FinIn(w) /\ ~FinIn(c) /\ r + Len(w) + Len(c) = t
        /\ b /\ e => FinIn(w) \/ FinIn(c)
    BY DEF Heard
  <2> QED BY <1>3, <1>4, <2>1, <2>2 DEF Heard
<1> QED BY <1>4, <1>6, <1>7 DEF u

LEMMA HeardFin ==
    ASSUME NEW r \in Nat, NEW w \in Seq(Nat), NEW c \in Seq(Nat), NEW t \in Nat, NEW e \in BOOLEAN, NEW b \in BOOLEAN,
           w # <<>>, Head(w) = Fin, Heard(r, w, c, t, e, b)
    PROVE  e /\ r = t
<1>1. Len(w) = 1 /\ FinIn(w)
  BY RunsRemoved, FinRemoved DEF Heard
<1>2. c = <<>> /\ e = TRUE /\ r + Len(w) + Len(c) = t + 1
  BY <1>1 DEF Heard
<1> QED BY <1>1, <1>2

LEMMA HeardCut ==
    ASSUME NEW r, NEW w, NEW c, NEW t, NEW e, NEW b, Heard(r, w, c, t, e, b)
    PROVE  Heard(r, w, c, t, e, FALSE)
BY DEF Heard

-----------------------------------------------------------------------------
(* Pumps *)

LEMMA TwoSides ==
    ASSUME NEW s \in Sides
    PROVE  /\ Peer(s) \in Sides /\ Peer(s) # s /\ Peer(Peer(s)) = s
           /\ \A x \in Sides : x = s \/ x = Peer(s)
BY DEF Sides, Peer

LEMMA PumpsBegin ==
    /\ NoPump \in Pumps /\ ~NoPump.on /\ ~NoPump.recvDone /\ ~NoPump.sendDone /\ ~NoPump.socketEnded /\ ~NoPump.settled
    /\ ~NoPump.ended /\ ~NoPump.stopped /\ NoPump.chain = <<>>
    /\ NewPump \in Pumps /\ NewPump.on /\ ~NewPump.recvDone /\ ~NewPump.sendDone /\ ~NewPump.socketEnded
    /\ ~NewPump.settled /\ ~NewPump.ended /\ ~NewPump.stopped /\ NewPump.chain = <<>> /\ NewPump.reading = "next"
<1> DEFINE z == <<>>
<1>1. z \in Seq(Nat) /\ "done" \in Readings /\ "next" \in Readings
  BY DEF Readings
<1> HIDE DEF z
<1>2. /\ NoPump = [on |-> FALSE, recvDone |-> FALSE, sendDone |-> FALSE, socketEnded |-> FALSE, settled |-> FALSE,
                   ended |-> FALSE, stopped |-> FALSE, reading |-> "done", chain |-> z]
      /\ NewPump = [NoPump EXCEPT !.on = TRUE, !.reading = "next"]
  BY DEF NoPump, NewPump, z
<1>3. NoPump \in Pumps /\ NoPump.chain = z
  BY <1>1, <1>2 DEF Pumps
<1>4. /\ NoPump.on = FALSE /\ NoPump.recvDone = FALSE /\ NoPump.sendDone = FALSE /\ NoPump.socketEnded = FALSE
      /\ NoPump.settled = FALSE /\ NoPump.ended = FALSE /\ NoPump.stopped = FALSE
  BY <1>2
<1>5. NewPump \in Pumps
  BY <1>1, <1>2, <1>3 DEF Pumps
<1>6. /\ NewPump.on = TRUE /\ NewPump.recvDone = NoPump.recvDone /\ NewPump.sendDone = NoPump.sendDone
      /\ NewPump.socketEnded = NoPump.socketEnded /\ NewPump.settled = NoPump.settled /\ NewPump.ended = NoPump.ended
      /\ NewPump.stopped = NoPump.stopped /\ NewPump.chain = NoPump.chain /\ NewPump.reading = "next"
  BY <1>2, <1>3 DEF Pumps
<1> QED BY <1>3, <1>4, <1>5, <1>6 DEF z

(* Two pumps that differ in nothing but ...                                  *)
LEMMA FinishedIs ==
    ASSUME NEW p \in Pumps, NEW n, n = Finished(p)
    PROVE  /\ n \in Pumps /\ n.sendDone = TRUE /\ n.on = p.on /\ n.recvDone = p.recvDone /\ n.settled = p.settled
           /\ n.socketEnded = p.socketEnded /\ n.ended = p.ended /\ n.stopped = p.stopped /\ n.reading = p.reading
           /\ n.chain = IF p.sendDone THEN p.chain ELSE Append(p.chain, Fin)
<1>1. CASE p.sendDone
  <2>1. p.sendDone = TRUE
    BY <1>1 DEF Pumps
  <2> QED BY <1>1, <2>1 DEF Finished
<1>2. CASE ~p.sendDone
  <2> DEFINE v == Append(p.chain, Fin)
  <2>1. v \in Seq(Nat)
    <3>1. p.chain \in Seq(Nat) /\ Fin \in Nat
      BY DEF Pumps, Fin
    <3> QED BY <3>1
  <2>2. n = [p EXCEPT !.sendDone = TRUE, !.chain = v]
    BY <1>2 DEF Finished
  <2> HIDE DEF v
  <2>3. /\ n \in Pumps /\ n.sendDone = TRUE /\ n.on = p.on /\ n.recvDone = p.recvDone /\ n.settled = p.settled
        /\ n.socketEnded = p.socketEnded /\ n.ended = p.ended /\ n.stopped = p.stopped /\ n.reading = p.reading
        /\ n.chain = v
    BY <2>1, <2>2 DEF Pumps
  <2> QED BY <1>2, <2>3 DEF v
<1> QED BY <1>1, <1>2

LEMMA StoppedIs ==
    ASSUME NEW p \in Pumps, NEW n, n = Stopped(p)
    PROVE  /\ n \in Pumps /\ n.recvDone = TRUE /\ n.on = p.on /\ n.sendDone = p.sendDone /\ n.settled = p.settled
           /\ n.socketEnded = p.socketEnded /\ n.ended = p.ended /\ n.chain = p.chain
           /\ p.recvDone => n.stopped = p.stopped /\ n.reading = p.reading
           /\ ~p.recvDone => n.stopped = TRUE /\ n.reading = "done"
<1>1. CASE p.recvDone
  <2>1. p.recvDone = TRUE
    BY <1>1 DEF Pumps
  <2> QED BY <1>1, <2>1 DEF Stopped
<1>2. CASE ~p.recvDone
  <2>1. n = [p EXCEPT !.recvDone = TRUE, !.stopped = TRUE, !.reading = "done"]
    BY <1>2 DEF Stopped
  <2>2. /\ n \in Pumps /\ n.recvDone = TRUE /\ n.on = p.on /\ n.sendDone = p.sendDone /\ n.settled = p.settled
        /\ n.socketEnded = p.socketEnded /\ n.ended = p.ended /\ n.stopped = TRUE /\ n.reading = "done"
        /\ n.chain = p.chain
    BY <2>1 DEF Pumps, Readings
  <2> QED BY <1>2, <2>2
<1> QED BY <1>1, <1>2

LEMMA SettledIs ==
    ASSUME NEW p \in Pumps, NEW n, n = Settled(p), p.settled => p.sendDone /\ p.recvDone, p.recvDone => p.reading = "done"
    PROVE  /\ n \in Pumps /\ n.settled = TRUE /\ n.sendDone = TRUE /\ n.recvDone = TRUE /\ n.reading = "done"
           /\ n.on = p.on /\ n.socketEnded = p.socketEnded /\ n.ended = p.ended
           /\ p.recvDone => n.stopped = p.stopped
           /\ ~p.recvDone => n.stopped = TRUE
           /\ n.chain = IF p.sendDone THEN p.chain ELSE Append(p.chain, Fin)
<1>1. CASE p.settled
  <2>1. p.settled = TRUE /\ p.sendDone = TRUE /\ p.recvDone = TRUE
    BY <1>1 DEF Pumps
  <2>2. n = p
    BY <1>1 DEF Settled
  <2> QED BY <2>1, <2>2
<1>2. CASE ~p.settled
  <2> DEFINE a == [p EXCEPT !.settled = TRUE]
             b == Finished(a)
  <2>1. /\ a \in Pumps /\ a.settled = TRUE /\ a.on = p.on /\ a.recvDone = p.recvDone /\ a.sendDone = p.sendDone
        /\ a.socketEnded = p.socketEnded /\ a.ended = p.ended /\ a.stopped = p.stopped /\ a.reading = p.reading
        /\ a.chain = p.chain
    BY DEF Pumps
  <2>2. n = Stopped(b)
    BY <1>2 DEF Settled
  <2> HIDE DEF a
  <2>3. /\ b \in Pumps /\ b.sendDone = TRUE /\ b.on = a.on /\ b.recvDone = a.recvDone /\ b.settled = a.settled
        /\ b.socketEnded = a.socketEnded /\ b.ended = a.ended /\ b.stopped = a.stopped /\ b.reading = a.reading
        /\ b.chain = IF a.sendDone THEN a.chain ELSE Append(a.chain, Fin)
    BY <2>1, FinishedIs
  <2> HIDE DEF b
  <2>4. /\ n \in Pumps /\ n.recvDone = TRUE /\ n.on = b.on /\ n.sendDone = b.sendDone /\ n.settled = b.settled
        /\ n.socketEnded = b.socketEnded /\ n.ended = b.ended /\ n.chain = b.chain
        /\ b.recvDone => n.stopped = b.stopped /\ n.reading = b.reading
        /\ ~b.recvDone => n.stopped = TRUE /\ n.reading = "done"
    BY <2>2, <2>3, StoppedIs
  <2>5. n.reading = "done"
    BY <2>1, <2>3, <2>4
  <2> QED BY <2>1, <2>3, <2>4, <2>5
<1> QED BY <1>1, <1>2

-----------------------------------------------------------------------------
(* What a step leaves alone stays as the invariant has it. *)

LEMMA Both ==
    ASSUME TunnelInv, NEW s \in Sides
    PROVE  /\ PumpFits(s) /\ LineFits(s) /\ PumpFits(Peer(s)) /\ LineFits(Peer(s))
           /\ TunnelTypes /\ StagesFit
           /\ pump[s] \in Pumps /\ pump[Peer(s)] \in Pumps /\ socket[s] \in Sockets
           /\ app[s] \in [wrote : Nat, taken : Nat, ended : BOOLEAN]
           /\ wire[s] \in Seq(Nat) /\ wire[Peer(s)] \in Seq(Nat)
           /\ received[s] \in Seq(Nat) /\ received[Peer(s)] \in Seq(Nat)
BY TwoSides DEF TunnelInv, TunnelTypes

LEMMA OnBoth ==
    ASSUME NEW s \in Sides, TunnelTypes', StagesFit', PumpFits(s)', PumpFits(Peer(s))',
           LineFits(s)', LineFits(Peer(s))'
    PROVE  TunnelInv'
<1>1. ASSUME NEW x \in Sides PROVE PumpFits(x)' /\ LineFits(x)'
  <2>1. CASE x = s
    BY <2>1
  <2>2. CASE x = Peer(s)
    BY <2>2
  <2> QED BY TwoSides, <2>1, <2>2
<1> QED BY <1>1 DEF TunnelInv

LEMMA PumpKept ==
    ASSUME NEW s \in Sides, PumpFits(s), pump'[s] = pump[s], socket'[s] = socket[s],
           pump[s].on \/ (app'[s].taken = app[s].taken /\ wire'[s] = wire[s] /\ received'[s] = received[s]),
           pump[s].ended => app'[s] = app[s],
           Carried' => Carried \/ ~pump[s].on,
           pump[Peer(s)].sendDone => pump'[Peer(s)].sendDone
    PROVE  PumpFits(s)'
<1>1. CASE pump[s].on
  BY <1>1 DEF PumpFits
<1>2. CASE ~pump[s].on
  <2>1. pump[s] = NoPump /\ app[s].taken = 0 /\ wire[s] = <<>> /\ received[s] = <<>>
    BY <1>2 DEF PumpFits
  <2>2. ~pump[s].settled /\ ~pump[s].stopped /\ ~pump[s].sendDone /\ ~pump[s].ended /\ ~pump[s].recvDone
    BY <2>1, PumpsBegin
  <2> QED BY <1>2, <2>1, <2>2 DEF PumpFits
<1> QED BY <1>1, <1>2

LEMMA HeardWeaker ==
    ASSUME NEW r, NEW w, NEW c, NEW t, NEW e, NEW b, NEW d, Heard(r, w, c, t, e, b), d /\ e => b
    PROVE  Heard(r, w, c, t, e, d)
BY DEF Heard

LEMMA LineMoves ==
    ASSUME NEW s \in Sides, LineFits(s), received'[Peer(s)] = received[Peer(s)],
           app[s].taken <= app'[s].taken, app'[s].taken <= app'[s].wrote,
           app[s].taken \in Nat, app'[s].taken \in Nat, received[Peer(s)] \in Seq(Nat),
           pump'[s].ended => pump[s].ended /\ app'[s].wrote = app[s].wrote,
           pump[s].ended => pump'[s].ended, pump[s].settled => pump'[s].settled,
           pump[Peer(s)].recvDone => pump'[Peer(s)].recvDone,
           pump'[Peer(s)].socketEnded => pump[Peer(s)].socketEnded,
           ~pump'[Peer(s)].recvDone =>
              Heard(Len(received[Peer(s)]), wire'[s], pump'[s].chain, app'[s].taken, pump'[s].sendDone, Carried')
    PROVE  LineFits(s)'
<1>1. Len(received[Peer(s)]) \in Nat /\ Len(received[Peer(s)]) <= app'[s].taken
  BY DEF LineFits
<1>2. pump'[Peer(s)].socketEnded =>
          /\ pump'[Peer(s)].recvDone
          /\ pump'[s].ended => Len(received[Peer(s)]) = app'[s].wrote
          /\ pump'[s].ended \/ pump'[s].settled
  BY DEF LineFits
<1>3. \A i \in 1..Len(received[Peer(s)]) : received[Peer(s)][i] = i
  BY DEF LineFits
<1> QED BY <1>1, <1>2, <1>3 DEF LineFits

LEMMA LineKept ==
    ASSUME NEW s \in Sides, LineFits(s), received'[Peer(s)] = received[Peer(s)],
           app[s].taken = app'[s].taken, app'[s].taken <= app'[s].wrote,
           app[s].taken \in Nat, received[Peer(s)] \in Seq(Nat),
           pump'[s].ended <=> pump[s].ended, pump'[s].ended => app'[s].wrote = app[s].wrote,
           pump[s].settled => pump'[s].settled,
           pump[Peer(s)].recvDone => pump'[Peer(s)].recvDone,
           pump'[Peer(s)].socketEnded => pump[Peer(s)].socketEnded,
           wire'[s] = wire[s], pump'[s].chain = pump[s].chain, pump'[s].sendDone = pump[s].sendDone,
           Carried' => Carried \/ ~pump[s].sendDone
    PROVE  LineFits(s)'
<1>1. ASSUME ~pump'[Peer(s)].recvDone
      PROVE  Heard(Len(received[Peer(s)]), wire'[s], pump'[s].chain, app'[s].taken, pump'[s].sendDone, Carried')
  <2>1. Heard(Len(received[Peer(s)]), wire[s], pump[s].chain, app[s].taken, pump[s].sendDone, Carried)
    BY <1>1 DEF LineFits
  <2>2. Heard(Len(received[Peer(s)]), wire[s], pump[s].chain, app[s].taken, pump[s].sendDone, Carried')
    <3> HIDE DEF Carried
    <3> QED BY <2>1, HeardWeaker
  <2>3. Heard(Len(received[Peer(s)]), wire'[s], pump'[s].chain, app'[s].taken, pump'[s].sendDone, Carried')
        <=> Heard(Len(received[Peer(s)]), wire[s], pump[s].chain, app[s].taken, pump[s].sendDone, Carried')
    BY Zenon
  <2> QED BY <2>2, <2>3
<1>2. app[s].taken <= app'[s].taken
  OBVIOUS
<1> QED BY <1>1, <1>2, LineMoves

-----------------------------------------------------------------------------
(* A pump settles, with its queue or by giving it up. *)

LEMMA Stages ==
    ASSUME TunnelInv, NEW s \in Sides, pump[s].on, pump'[s].on, pump'[Peer(s)] = pump[Peer(s)],
           UNCHANGED <<attached, over, biStream>>,
           socket'[Peer(s)] = socket[Peer(s)], socket'[s] # "none",
           socket'[s] = "open" => socket[s] = "open"
    PROVE  StagesFit'
<1>1. StagesFit
  BY DEF TunnelInv
<1>2. ~NoPump.on
  BY PumpsBegin
<1>3. CASE s = "near"
  <2>1. Peer(s) = "far"
    BY <1>3 DEF Peer
  <2>2. /\ pump["near"].on /\ pump'["near"].on /\ pump'["far"] = pump["far"] /\ socket'["far"] = socket["far"]
        /\ socket'["near"] # "none"
        /\ socket'["near"] = "open" => socket["near"] = "open"
    BY <1>3, <2>1
  <2>3. biStream.stage \notin {"none", "opening"}
    BY <1>1, <1>2, <2>2 DEF StagesFit
  <2> QED BY <1>1, <2>2, <2>3 DEF StagesFit, Carried
<1>4. CASE s = "far"
  <2>1. Peer(s) = "near"
    BY <1>4 DEF Peer
  <2>2. pump["far"].on /\ pump'["far"].on /\ pump'["near"] = pump["near"] /\ socket'["near"] = socket["near"]
    BY <1>4, <2>1
  <2>3. biStream.stage \notin {"none", "opening", "open", "refused"} /\ pump'["far"] # NoPump
    BY <1>1, <1>2, <2>2 DEF StagesFit
  <2> QED BY <1>1, <2>2, <2>3 DEF StagesFit, Carried
<1> QED BY <1>3, <1>4 DEF Sides

LEMMA PumpTypes ==
    ASSUME TunnelTypes, NEW s \in Sides, NEW n \in Pumps, pump' = [pump EXCEPT ![s] = n]
    PROVE  pump' \in [Sides -> Pumps] /\ pump'[s] = n /\ pump'[Peer(s)] = pump[Peer(s)]
<1>1. pump \in [Sides -> Pumps] /\ Peer(s) \in Sides /\ Peer(s) # s
  BY TwoSides DEF TunnelTypes
<1> QED BY <1>1

LEMMA SocketTypes ==
    ASSUME TunnelTypes, NEW s \in Sides, NEW k \in Sockets, socket' = [socket EXCEPT ![s] = k]
    PROVE  socket' \in [Sides -> Sockets] /\ socket'[s] = k /\ socket'[Peer(s)] = socket[Peer(s)]
<1>1. socket \in [Sides -> Sockets] /\ Peer(s) \in Sides /\ Peer(s) # s
  BY TwoSides DEF TunnelTypes
<1> QED BY <1>1

LEMMA SettleStep ==
    ASSUME TunnelInv, NEW s \in Sides, NEW n \in Pumps, NEW k \in {"destroyed", "closed"}, pump[s].on,
           pump' = [pump EXCEPT ![s] = n], socket' = [socket EXCEPT ![s] = k],
           n.settled = TRUE, n.sendDone = TRUE, n.recvDone = TRUE, n.reading = "done", n.on = pump[s].on,
           n.socketEnded = pump[s].socketEnded, n.ended = pump[s].ended,
           pump[s].recvDone => n.stopped = pump[s].stopped, ~pump[s].recvDone => n.stopped = TRUE,
           \/ n.chain = IF pump[s].sendDone THEN pump[s].chain ELSE Append(pump[s].chain, Fin)
           \/ pump[s].chain # <<>> /\ n.chain = <<>> /\ (~Carried \/ pump[Peer(s)].stopped),
           wire' \in [Sides -> Seq(Nat)], wire'[s] = wire[s],
           wire'[Peer(s)] = wire[Peer(s)] \/ pump[Peer(s)].on,
           UNCHANGED <<attached, over, biStream, app, received>>
    PROVE  TunnelInv'
<1> DEFINE q == Peer(s)
<1>1. q \in Sides /\ q # s /\ Peer(q) = s
  BY TwoSides
<1>2. PumpFits(s) /\ LineFits(s) /\ PumpFits(q) /\ LineFits(q) /\ TunnelTypes
  BY Both
<1>3. pump'[s] = n /\ pump'[q] = pump[q] /\ pump' \in [Sides -> Pumps]
  BY <1>2, PumpTypes
<1>4. socket' \in [Sides -> Sockets] /\ socket'[s] = k /\ socket'[q] = socket[q]
  <2>1. k \in Sockets
    BY DEF Sockets
  <2> QED BY <1>2, <2>1, SocketTypes
<1>5. TunnelTypes'
  BY <1>2, <1>3, <1>4 DEF TunnelTypes
<1>6. StagesFit'
  BY <1>3, <1>4, Stages
<1>7. Carried' = Carried
  BY DEF Carried
<1>8. PumpFits(s)'
  <2>1. /\ pump'[s].settled = TRUE /\ pump'[s].sendDone = TRUE /\ pump'[s].recvDone = TRUE /\ pump'[s].reading = "done"
        /\ pump'[s].on = TRUE /\ pump'[s].ended = pump[s].ended /\ socket'[s] # "open" /\ socket'[s] # "none"
        /\ app' = app
    BY <1>3, <1>4 DEF Pumps
  <2>2. pump[s].ended => app[s].ended /\ app[s].taken = app[s].wrote
    BY <1>2 DEF PumpFits
  <2>3. ~pump'[s].stopped /\ Carried' => pump'[q].sendDone
    BY <1>2, <1>3, <1>7 DEF PumpFits
  <2> QED BY <2>1, <2>2, <2>3 DEF PumpFits
<1>9. PumpFits(q)'
  <2>1. pump[q].on \/ (app'[q].taken = app[q].taken /\ wire'[q] = wire[q] /\ received'[q] = received[q])
    OBVIOUS
  <2>2. pump[Peer(q)].sendDone => pump'[Peer(q)].sendDone
    BY <1>1, <1>3
  <2>3. app'[q] = app[q]
    OBVIOUS
  <2> QED BY <1>1, <1>2, <1>3, <1>4, <1>7, <2>1, <2>2, <2>3, PumpKept
<1>10. /\ app[s] \in [wrote : Nat, taken : Nat, ended : BOOLEAN] /\ app[q] \in [wrote : Nat, taken : Nat, ended : BOOLEAN]
       /\ received[q] \in Seq(Nat) /\ received[s] \in Seq(Nat) /\ wire[s] \in Seq(Nat)
       /\ pump[s] \in Pumps /\ pump[q] \in Pumps
  BY <1>1, <1>2 DEF TunnelTypes
<1>11. LineFits(s)'
  <2>1. ASSUME ~pump'[q].recvDone
        PROVE  Heard(Len(received[q]), wire'[s], pump'[s].chain, app'[s].taken, pump'[s].sendDone, Carried')
    <3> DEFINE r == Len(received[q])
               w == wire[s]
               c == pump[s].chain
               t == app[s].taken
               b == Carried
               d == pump'[s].chain
    <3>1. Heard(r, w, c, t, pump[s].sendDone, b)
      BY <1>2, <1>3, <2>1 DEF LineFits
    <3>2. /\ r \in Nat /\ w \in Seq(Nat) /\ c \in Seq(Nat) /\ t \in Nat
          /\ pump[s].sendDone \in BOOLEAN /\ b \in BOOLEAN
      <4>1. r \in Nat /\ w \in Seq(Nat) /\ t \in Nat
        BY <1>10
      <4>2. c \in Seq(Nat) /\ pump[s].sendDone \in BOOLEAN
        BY <1>10 DEF Pumps
      <4>3. b \in BOOLEAN
        BY DEF Carried
      <4> QED BY <4>1, <4>2, <4>3
    <3>3. d = n.chain
      BY <1>3
    <3> HIDE DEF r, w, c, t, b, d
    <3>4. ASSUME n.chain = IF pump[s].sendDone THEN pump[s].chain ELSE Append(pump[s].chain, Fin)
          PROVE  Heard(r, w, d, t, TRUE, b)
      <4>1. CASE pump[s].sendDone
        <5>1. d = c /\ pump[s].sendDone = TRUE
          BY <3>2, <3>3, <3>4, <4>1 DEF c
        <5> QED BY <3>1, <5>1, Zenon
      <4>2. CASE ~pump[s].sendDone
        <5>1. d = Append(c, Fin) /\ pump[s].sendDone = FALSE
          BY <3>2, <3>3, <3>4, <4>2 DEF c
        <5>2. Heard(r, w, c, t, FALSE, b)
          BY <3>1, <5>1, Zenon
        <5>3. Heard(r, w, Append(c, Fin), t, TRUE, b)
          BY <3>2, <5>2, HeardEnd
        <5> QED BY <5>1, <5>3, Zenon
      <4> QED BY <4>1, <4>2
    <3>5. ASSUME pump[s].chain # <<>> /\ n.chain = <<>> /\ (~Carried \/ pump[Peer(s)].stopped)
          PROVE  Heard(r, w, d, t, TRUE, b)
      <4>1. ~pump[q].stopped
        BY <1>2, <1>3, <2>1 DEF PumpFits
      <4>2. b = FALSE
        BY <3>2, <3>5, <4>1 DEF b
      <4>3. c # <<>> /\ d = <<>>
        BY <3>3, <3>5 DEF c
      <4>4. Heard(r, w, c, t, pump[s].sendDone, FALSE)
        BY <3>1, <4>2, Zenon
      <4>5. Heard(r, w, <<>>, t, TRUE, FALSE)
        BY <3>2, <4>3, <4>4, HeardLost
      <4> QED BY <4>2, <4>3, <4>5, Zenon
    <3>6. Heard(r, w, d, t, TRUE, b)
      BY <3>4, <3>5
    <3>7. wire'[s] = w /\ app'[s].taken = t /\ pump'[s].sendDone = TRUE /\ Carried' = b /\ pump'[s].chain = d
      BY <1>3, <1>7 DEF w, t, b, d
    <3>8. Heard(r, wire'[s], pump'[s].chain, app'[s].taken, pump'[s].sendDone, Carried')
          <=> Heard(r, w, d, t, TRUE, b)
      BY <3>7, Zenon
    <3> QED BY <3>6, <3>8 DEF r
  <2>2. /\ received'[q] = received[q] /\ app'[s] = app[s] /\ pump'[s].ended = pump[s].ended
        /\ pump'[s].settled = TRUE /\ pump'[q] = pump[q]
    BY <1>3
  <2>3. app[s].taken <= app[s].wrote
    BY <1>2 DEF LineFits
  <2>4. app[s].taken \in Nat /\ app[s].wrote \in Nat /\ app[s].taken <= app[s].taken
    BY <1>10
  <2> QED BY <1>2, <1>10, <2>1, <2>2, <2>3, <2>4, LineMoves
<1>12. LineFits(q)'
  <2>1. /\ received'[Peer(q)] = received[Peer(q)] /\ app'[q] = app[q] /\ pump'[q] = pump[q]
        /\ pump'[Peer(q)].recvDone = TRUE /\ pump'[Peer(q)].socketEnded = pump[Peer(q)].socketEnded
    BY <1>1, <1>3
  <2>2. app[q].taken <= app[q].wrote
    BY <1>2 DEF LineFits
  <2>3. received[Peer(q)] \in Seq(Nat)
    BY <1>1, <1>10
  <2> QED BY <1>1, <1>2, <1>10, <2>1, <2>2, <2>3, LineMoves
<1> QED BY <1>5, <1>6, <1>8, <1>9, <1>11, <1>12, OnBoth

-----------------------------------------------------------------------------
(* The tunnel and its connections *)

LEMMA SidesAre == "near" \in Sides /\ "far" \in Sides /\ Peer("near") = "far" /\ Peer("far") = "near"
BY DEF Sides, Peer

LEMMA OffIs ==
    ASSUME NEW s \in Sides, PumpFits(s), ~pump[s].on
    PROVE  /\ pump[s] = NoPump /\ app[s].taken = 0 /\ wire[s] = <<>> /\ received[s] = <<>>
           /\ ~pump[s].recvDone /\ ~pump[s].sendDone /\ ~pump[s].socketEnded /\ ~pump[s].settled
           /\ ~pump[s].ended /\ ~pump[s].stopped /\ pump[s].chain = <<>>
BY PumpsBegin DEF PumpFits

LEMMA LinesQuiet ==
    ASSUME TunnelInv, NEW s \in Sides, UNCHANGED <<app, pump, wire, received>>,
           Carried' => Carried \/ ~pump[s].on
    PROVE  LineFits(s)'
<1>1. /\ PumpFits(s) /\ LineFits(s) /\ app[s] \in [wrote : Nat, taken : Nat, ended : BOOLEAN]
      /\ received[Peer(s)] \in Seq(Nat)
  BY Both
<1>2. app[s].taken <= app[s].wrote
  BY <1>1 DEF LineFits
<1>3. ~pump[s].on => ~pump[s].sendDone
  BY <1>1, OffIs
<1>4. Carried' => Carried \/ ~pump[s].sendDone
  BY <1>3
<1>5. /\ received'[Peer(s)] = received[Peer(s)] /\ app'[s] = app[s] /\ pump'[s] = pump[s]
      /\ pump'[Peer(s)] = pump[Peer(s)] /\ wire'[s] = wire[s]
  OBVIOUS
<1> QED BY <1>1, <1>2, <1>4, <1>5, LineKept

LEMMA QuietStep ==
    ASSUME TunnelInv, UNCHANGED <<app, pump, wire, received>>, TunnelTypes', StagesFit',
           socket'["far"] = socket["far"],
           \A x \in Sides : Carried' => Carried \/ ~pump[x].on,
           \/ socket'["near"] = socket["near"]
           \/ ~pump["near"].on
           \/ socket'["near"] = "destroyed" /\ ~Carried'
    PROVE  TunnelInv'
<1>1. /\ PumpFits("near") /\ PumpFits("far")
  BY SidesAre DEF TunnelInv
<1>2. LineFits("near")' /\ LineFits("far")'
  BY SidesAre, LinesQuiet
<1>3. PumpFits("far")'
  <2>1. Carried' => Carried \/ ~pump["far"].on
    BY SidesAre
  <2> QED BY <1>1, <2>1, SidesAre, PumpKept
<1>4. PumpFits("near")'
  <2>1. CASE socket'["near"] = socket["near"]
    <3>1. Carried' => Carried \/ ~pump["near"].on
      BY SidesAre
    <3> QED BY <1>1, <2>1, <3>1, SidesAre, PumpKept
  <2>2. CASE ~pump["near"].on
    <3>1. /\ pump["near"] = NoPump /\ app["near"].taken = 0 /\ wire["near"] = <<>> /\ received["near"] = <<>>
          /\ ~pump["near"].recvDone /\ ~pump["near"].sendDone /\ ~pump["near"].settled
          /\ ~pump["near"].ended /\ ~pump["near"].stopped
      BY <1>1, <2>2, SidesAre, OffIs
    <3> QED BY <2>2, <3>1 DEF PumpFits
  <2>3. CASE pump["near"].on /\ socket'["near"] = "destroyed" /\ ~Carried'
    BY <1>1, <2>3 DEF PumpFits
  <2> QED BY <2>1, <2>2, <2>3
<1> QED BY <1>2, <1>3, <1>4, SidesAre, OnBoth

LEMMA BeginStep ==
    ASSUME TunnelInv, NEW s \in Sides, pump[s] = NoPump, pump' = [pump EXCEPT ![s] = NewPump],
           socket'[Peer(s)] = socket[Peer(s)], socket'[s] # "none", socket'[s] = "open" \/ ~Carried,
           biStream'.conn = biStream.conn, UNCHANGED <<over, app, wire, received>>,
           TunnelTypes', StagesFit'
    PROVE  TunnelInv'
<1> DEFINE q == Peer(s)
<1>1. q \in Sides /\ q # s /\ Peer(q) = s
  BY TwoSides
<1>2. /\ PumpFits(s) /\ LineFits(s) /\ PumpFits(q) /\ LineFits(q) /\ TunnelTypes
      /\ app[s] \in [wrote : Nat, taken : Nat, ended : BOOLEAN] /\ app[q] \in [wrote : Nat, taken : Nat, ended : BOOLEAN]
      /\ received[q] \in Seq(Nat) /\ received[s] \in Seq(Nat)
  BY <1>1, Both
<1>3. pump'[s] = NewPump /\ pump'[q] = pump[q]
  BY <1>2, PumpsBegin, PumpTypes
<1>4. /\ ~pump[s].on /\ ~pump[s].recvDone /\ ~pump[s].sendDone /\ ~pump[s].socketEnded /\ ~pump[s].settled
      /\ ~pump[s].ended /\ ~pump[s].stopped /\ pump[s].chain = <<>>
  BY PumpsBegin
<1>5. /\ pump'[s].on /\ ~pump'[s].recvDone /\ ~pump'[s].sendDone /\ ~pump'[s].socketEnded /\ ~pump'[s].settled
      /\ ~pump'[s].ended /\ ~pump'[s].stopped /\ pump'[s].chain = <<>> /\ pump'[s].reading = "next"
  BY <1>3, PumpsBegin
<1>6. Carried' = Carried
  BY DEF Carried
<1>7. PumpFits(s)'
  BY <1>5, <1>6 DEF PumpFits
<1>8. PumpFits(q)'
  <2>1. pump[Peer(q)].sendDone => pump'[Peer(q)].sendDone
    BY <1>1, <1>4
  <2> QED BY <1>1, <1>2, <1>3, <1>6, <2>1, PumpKept
<1>9. LineFits(s)'
  <2>1. app[s].taken <= app[s].wrote
    BY <1>2 DEF LineFits
  <2>2. pump'[s].sendDone = pump[s].sendDone
    <3>1. pump'[s] \in Pumps /\ pump[s] \in Pumps
      BY <1>3, PumpsBegin
    <3> QED BY <1>4, <1>5, <3>1 DEF Pumps
  <2> QED BY <1>2, <1>3, <1>4, <1>5, <1>6, <2>1, <2>2, LineKept
<1>10. LineFits(q)'
  <2>1. app[q].taken <= app[q].wrote
    BY <1>2 DEF LineFits
  <2>2. /\ received'[Peer(q)] = received[Peer(q)] /\ app'[q] = app[q] /\ pump'[q] = pump[q]
        /\ ~pump[Peer(q)].recvDone /\ ~pump'[Peer(q)].socketEnded /\ wire'[q] = wire[q]
        /\ received[Peer(q)] \in Seq(Nat)
    BY <1>1, <1>2, <1>3, <1>4, <1>5
  <2> QED BY <1>1, <1>2, <1>6, <2>1, <2>2, LineKept
<1> QED BY <1>7, <1>8, <1>9, <1>10, OnBoth

(* What the invariant says of the near end's socket and stream.              *)
LEMMA NearIs ==
    ASSUME TunnelInv
    PROVE  /\ socket["near"] = "open" => biStream.conn = attached /\ attached \in 1..Second
           /\ biStream.conn \in 0..Second /\ attached \in 0..Second /\ over \subseteq 1..Second
           /\ biStream.stage \in StreamStages
           /\ socket \in [Sides -> Sockets] /\ pump["near"].on \in BOOLEAN /\ pump["far"].on \in BOOLEAN
<1>1. pump["near"] \in Pumps /\ pump["far"] \in Pumps
  BY SidesAre DEF TunnelInv, TunnelTypes
<1>2. pump["near"].on \in BOOLEAN /\ pump["far"].on \in BOOLEAN
  BY <1>1 DEF Pumps
<1> QED BY <1>2 DEF TunnelInv, TunnelTypes, StagesFit, Second

LEMMA ConnectsStep == ASSUME TunnelInv, Connects PROVE TunnelInv'
<1>1. /\ socket["near"] = "none" /\ UNCHANGED <<attached, over, app, pump, wire, received>>
      /\ socket' = [socket EXCEPT !["near"] = IF attached = 0 THEN "destroyed" ELSE "open"]
      /\ biStream' = IF attached = 0 THEN biStream ELSE [conn |-> attached, stage |-> "opening"]
  BY DEF Connects
<1>2. biStream.stage = "none" /\ pump["near"] = NoPump /\ pump["far"] = NoPump /\ socket["far"] = "none"
  BY <1>1 DEF TunnelInv, StagesFit
<1>3. ~pump["near"].on /\ ~pump["far"].on
  BY <1>2, PumpsBegin
<1>4. /\ socket' \in [Sides -> Sockets] /\ socket'["far"] = socket["far"]
      /\ socket'["near"] = IF attached = 0 THEN "destroyed" ELSE "open"
  BY <1>1, NearIs, SidesAre DEF Sockets
<1>5. biStream' \in [conn : 0..Second, stage : StreamStages]
  BY <1>1 DEF TunnelInv, TunnelTypes, StreamStages
<1>6. TunnelTypes'
  BY <1>1, <1>4, <1>5 DEF TunnelInv, TunnelTypes
<1>7. StagesFit'
  <2>1. CASE attached = 0
    BY <1>1, <1>2, <1>3, <1>4, <2>1 DEF StagesFit
  <2>2. CASE attached # 0
    <3>1. biStream'.conn = attached /\ biStream'.stage = "opening" /\ socket'["near"] = "open"
      BY <1>1, <1>4, <2>2
    <3> QED BY <1>1, <1>2, <1>3, <1>4, <2>2, <3>1 DEF StagesFit
  <2> QED BY <2>1, <2>2
<1>8. \A x \in Sides : ~pump[x].on
  BY <1>3 DEF Sides
<1> QED BY <1>1, <1>3, <1>4, <1>6, <1>7, <1>8, QuietStep

LEMMA OpensStep == ASSUME TunnelInv, Opens PROVE TunnelInv'
<1>1. /\ biStream.stage = "opening" /\ UNCHANGED <<attached, over, app, wire, received>>
      /\ pump["near"] = NoPump /\ pump["far"] = NoPump /\ socket["near"] # "none"
      /\ socket["near"] = "open" \/ ~Carried
  BY DEF Opens, TunnelInv, StagesFit
<1>2. CASE /\ biStream' = [biStream EXCEPT !.stage = "open"] /\ pump' = [pump EXCEPT !["near"] = NewPump] /\ UNCHANGED socket
  <2>1. biStream' \in [conn : 0..Second, stage : StreamStages] /\ biStream'.conn = biStream.conn /\ biStream'.stage = "open"
    BY <1>2 DEF TunnelInv, TunnelTypes, StreamStages
  <2>2. pump' \in [Sides -> Pumps] /\ pump'["near"] = NewPump /\ pump'["far"] = NoPump
    BY <1>1, <1>2, PumpsBegin, PumpTypes, SidesAre DEF TunnelInv
  <2>3. TunnelTypes'
    BY <1>1, <1>2, <2>1, <2>2 DEF TunnelInv, TunnelTypes
  <2>4. StagesFit'
    BY <1>1, <1>2, <2>1, <2>2, PumpsBegin DEF TunnelInv, StagesFit
  <2> QED BY <1>1, <1>2, <2>1, <2>3, <2>4, SidesAre, BeginStep
<1>3. CASE /\ ~Carried /\ biStream' = [biStream EXCEPT !.stage = "failed"]
           /\ socket' = [socket EXCEPT !["near"] = Shut(@)] /\ UNCHANGED pump
  <2>1. biStream' \in [conn : 0..Second, stage : StreamStages] /\ biStream'.conn = biStream.conn /\ biStream'.stage = "failed"
    BY <1>3 DEF TunnelInv, TunnelTypes, StreamStages
  <2>2. socket' \in [Sides -> Sockets] /\ socket'["far"] = socket["far"] /\ socket'["near"] \notin {"none", "open"}
    BY <1>1, <1>3, NearIs, SidesAre DEF Sockets, Shut
  <2>3. TunnelTypes'
    BY <1>1, <1>3, <2>1, <2>2 DEF TunnelInv, TunnelTypes
  <2>4. StagesFit'
    BY <1>1, <1>3, <2>1, <2>2 DEF TunnelInv, StagesFit
  <2>5. ~pump["near"].on /\ Carried' = Carried
    BY <1>1, <2>1, PumpsBegin DEF Carried
  <2> QED BY <1>1, <1>3, <2>2, <2>3, <2>4, <2>5, QuietStep
<1> QED BY <1>2, <1>3 DEF Opens

LEMMA AcceptsStep == ASSUME TunnelInv, Accepts PROVE TunnelInv'
<1>1. /\ biStream.stage = "open" /\ Carried /\ UNCHANGED <<attached, over, app, wire, received>>
      /\ biStream' = [biStream EXCEPT !.stage = "accepted"] /\ socket' = [socket EXCEPT !["far"] = "open"]
      /\ pump' = [pump EXCEPT !["far"] = NewPump]
  BY DEF Accepts, CanAccept
<1>2. pump["near"].on /\ pump["far"] = NoPump
  BY <1>1 DEF TunnelInv, StagesFit
<1>3. biStream' \in [conn : 0..Second, stage : StreamStages] /\ biStream'.conn = biStream.conn /\ biStream'.stage = "accepted"
  BY <1>1 DEF TunnelInv, TunnelTypes, StreamStages
<1>4. pump' \in [Sides -> Pumps] /\ pump'["far"] = NewPump /\ pump'["near"] = pump["near"]
  BY <1>1, PumpsBegin, PumpTypes, SidesAre DEF TunnelInv
<1>5. socket' \in [Sides -> Sockets] /\ socket'["near"] = socket["near"] /\ socket'["far"] = "open"
  BY <1>1, NearIs, SidesAre DEF Sockets
<1>6. TunnelTypes'
  BY <1>1, <1>3, <1>4, <1>5 DEF TunnelInv, TunnelTypes
<1>7. StagesFit'
  BY <1>1, <1>2, <1>3, <1>4, <1>5, PumpsBegin DEF TunnelInv, StagesFit
<1> QED BY <1>1, <1>2, <1>3, <1>5, <1>6, <1>7, SidesAre, BeginStep

LEMMA LinkEndsStep == ASSUME TunnelInv, LinkEnds PROVE TunnelInv'
<1>1. /\ biStream.stage = "open" /\ Carried /\ biStream' = [biStream EXCEPT !.stage = "refused"]
      /\ over' = over \cup {biStream.conn} /\ wire["near"] # <<>>
      /\ UNCHANGED <<attached, socket, app, pump, wire, received>>
  BY DEF LinkEnds, CanAccept
<1>2. pump["near"].on /\ pump["far"] = NoPump
  BY <1>1 DEF TunnelInv, StagesFit
<1>3. biStream' \in [conn : 0..Second, stage : StreamStages] /\ biStream'.conn = biStream.conn /\ biStream'.stage = "refused"
  BY <1>1 DEF TunnelInv, TunnelTypes, StreamStages
<1>4. ~Carried' /\ over' \subseteq 1..Second
  <2>1. biStream.conn \in 1..Second
    BY <1>1, NearIs DEF TunnelInv, StagesFit, Second
  <2> QED BY <1>1, <1>3, <2>1, NearIs DEF Carried
<1>5. TunnelTypes'
  BY <1>1, <1>3, <1>4 DEF TunnelInv, TunnelTypes
<1>6. StagesFit'
  BY <1>1, <1>2, <1>3, <1>4 DEF TunnelInv, StagesFit
<1> QED BY <1>1, <1>4, <1>5, <1>6, QuietStep

LEMMA DialsInStep == ASSUME TunnelInv, DialsIn PROVE TunnelInv'
<1>1. /\ attached # Second /\ over' = over \cup {1} /\ attached' = Second
      /\ socket' = [socket EXCEPT !["near"] = Shut(@)]
      /\ UNCHANGED <<biStream, app, pump, wire, received>>
  BY DEF DialsIn, SetConnection
<1>2. /\ socket' \in [Sides -> Sockets] /\ socket'["far"] = socket["far"]
      /\ socket["near"] = "open" => socket'["near"] = "destroyed"
      /\ socket["near"] # "open" => socket'["near"] = socket["near"]
  BY <1>1, NearIs, SidesAre DEF Sockets, Shut
<1>3. over' \subseteq 1..Second /\ attached' \in 0..Second
  BY <1>1, NearIs DEF Second
<1>4. /\ Carried' => Carried
      /\ socket["near"] = "open" => ~Carried'
  <2>1. socket["near"] = "open" => biStream.conn = 1
    BY <1>1, NearIs DEF Second
  <2> QED BY <1>1, <2>1 DEF Carried
<1>5. TunnelTypes'
  BY <1>1, <1>2, <1>3 DEF TunnelInv, TunnelTypes
<1>6. StagesFit'
  BY <1>1, <1>2, <1>4 DEF TunnelInv, StagesFit
<1>7. socket'["near"] = socket["near"] \/ (socket'["near"] = "destroyed" /\ ~Carried')
  BY <1>2, <1>4
<1> QED BY <1>1, <1>2, <1>4, <1>5, <1>6, <1>7, QuietStep

LEMMA ClientGoneStep == ASSUME TunnelInv, ClientGone PROVE TunnelInv'
<1>1. /\ attached # 0 /\ attached \in over /\ attached' = 0
      /\ socket' = [socket EXCEPT !["near"] = Shut(@)]
      /\ UNCHANGED <<over, biStream, app, pump, wire, received>>
  BY DEF ClientGone, SetConnection
<1>2. /\ socket' \in [Sides -> Sockets] /\ socket'["far"] = socket["far"]
      /\ socket["near"] = "open" => socket'["near"] = "destroyed"
      /\ socket["near"] # "open" => socket'["near"] = socket["near"]
  BY <1>1, NearIs, SidesAre DEF Sockets, Shut
<1>3. attached' \in 0..Second
  BY <1>1 DEF Second
<1>4. /\ Carried' = Carried
      /\ socket["near"] = "open" => ~Carried'
  BY <1>1, NearIs DEF Carried
<1>5. TunnelTypes'
  BY <1>1, <1>2, <1>3 DEF TunnelInv, TunnelTypes
<1>6. StagesFit'
  BY <1>1, <1>2, <1>4 DEF TunnelInv, StagesFit
<1>7. socket'["near"] = socket["near"] \/ (socket'["near"] = "destroyed" /\ ~Carried')
  BY <1>2, <1>4
<1> QED BY <1>1, <1>2, <1>4, <1>5, <1>6, <1>7, QuietStep

LEMMA ConnectionEndsStep == ASSUME TunnelInv, ConnectionEnds PROVE TunnelInv'
<1>1. /\ attached # 0 /\ over' = over \cup {attached}
      /\ UNCHANGED <<attached, biStream, socket, app, pump, wire, received>>
  BY DEF ConnectionEnds
<1>2. over' \subseteq 1..Second
  BY <1>1, NearIs DEF Second
<1>3. Carried' => Carried
  BY <1>1 DEF Carried
<1>4. TunnelTypes'
  BY <1>1, <1>2 DEF TunnelInv, TunnelTypes
<1>5. StagesFit'
  BY <1>1, <1>3 DEF TunnelInv, StagesFit
<1> QED BY <1>1, <1>3, <1>4, <1>5, QuietStep

-----------------------------------------------------------------------------
(* The applications *)

LEMMA AppStep ==
    ASSUME TunnelInv, NEW s \in Sides, NEW a \in [wrote : Nat, taken : Nat, ended : BOOLEAN],
           app' = [app EXCEPT ![s] = a], a.taken = app[s].taken, app[s].wrote <= a.wrote, ~app[s].ended,
           UNCHANGED <<attached, over, biStream, socket, pump, wire, received>>
    PROVE  TunnelInv'
<1> DEFINE q == Peer(s)
<1>1. q \in Sides /\ q # s /\ Peer(q) = s
  BY TwoSides
<1>2. /\ PumpFits(s) /\ LineFits(s) /\ PumpFits(q) /\ LineFits(q) /\ TunnelTypes /\ StagesFit
      /\ app[s] \in [wrote : Nat, taken : Nat, ended : BOOLEAN] /\ app[q] \in [wrote : Nat, taken : Nat, ended : BOOLEAN]
      /\ received[q] \in Seq(Nat) /\ received[s] \in Seq(Nat)
  BY <1>1, Both
<1>3. app' \in [Sides -> [wrote : Nat, taken : Nat, ended : BOOLEAN]] /\ app'[s] = a /\ app'[q] = app[q]
  BY <1>1, <1>2 DEF TunnelTypes
<1>4. TunnelTypes' /\ StagesFit' /\ Carried' = Carried
  BY <1>2, <1>3 DEF TunnelTypes, StagesFit, Carried
<1>5. ~pump[s].ended /\ app[s].taken <= app[s].wrote /\ app[q].taken <= app[q].wrote
  BY <1>2 DEF PumpFits, LineFits
<1>6. PumpFits(s)' /\ PumpFits(q)'
  <2>1. app'[s].taken = app[s].taken
    BY <1>3
  <2>2. PumpFits(s)'
    BY <1>2, <1>4, <1>5, <2>1, PumpKept
  <2> QED BY <1>1, <1>2, <1>3, <1>4, <2>2, PumpKept
<1>7. LineFits(q)'
  BY <1>1, <1>2, <1>3, <1>4, <1>5, LineKept
<1>8. LineFits(s)'
  <2>1. app[s].taken = app'[s].taken /\ app'[s].taken <= app'[s].wrote
    <3>1. app[s].taken \in Nat /\ app[s].wrote \in Nat /\ a.wrote \in Nat
      BY <1>2
    <3> QED BY <1>3, <1>5, <3>1
  <2> QED BY <1>2, <1>4, <1>5, <2>1, LineKept
<1> QED BY <1>4, <1>6, <1>7, <1>8, OnBoth

LEMMA WritesStep == ASSUME TunnelInv, NEW s \in Sides, Writes(s) PROVE TunnelInv'
<1> DEFINE a == [app[s] EXCEPT !.wrote = @ + 1]
<1>1. app[s] \in [wrote : Nat, taken : Nat, ended : BOOLEAN] /\ app \in [Sides -> [wrote : Nat, taken : Nat, ended : BOOLEAN]]
  BY Both DEF TunnelTypes
<1>2. /\ a \in [wrote : Nat, taken : Nat, ended : BOOLEAN] /\ a.taken = app[s].taken /\ app[s].wrote <= a.wrote
  BY <1>1
<1>3. app' = [app EXCEPT ![s] = a] /\ ~app[s].ended
  BY <1>1 DEF Writes, Speaks
<1>4. UNCHANGED <<attached, over, biStream, socket, pump, wire, received>>
  BY DEF Writes
<1> HIDE DEF a
<1> QED BY <1>2, <1>3, <1>4, AppStep

LEMMA SaysEndStep == ASSUME TunnelInv, NEW s \in Sides, SpeaksLast(s) PROVE TunnelInv'
<1> DEFINE a == [app[s] EXCEPT !.ended = TRUE]
<1>1. app[s] \in [wrote : Nat, taken : Nat, ended : BOOLEAN] /\ app \in [Sides -> [wrote : Nat, taken : Nat, ended : BOOLEAN]]
  BY Both DEF TunnelTypes
<1>2. /\ a \in [wrote : Nat, taken : Nat, ended : BOOLEAN] /\ a.taken = app[s].taken /\ app[s].wrote <= a.wrote
  <2>1. a \in [wrote : Nat, taken : Nat, ended : BOOLEAN] /\ a.taken = app[s].taken /\ a.wrote = app[s].wrote
    BY <1>1
  <2> HIDE DEF a
  <2>2. app[s].wrote \in Nat
    BY <1>1
  <2> QED BY <2>1, <2>2
<1>3. app' = [app EXCEPT ![s] = a] /\ ~app[s].ended
  BY <1>1 DEF SpeaksLast, Speaks
<1>4. UNCHANGED <<attached, over, biStream, socket, pump, wire, received>>
  BY DEF SpeaksLast
<1> HIDE DEF a
<1> QED BY <1>2, <1>3, <1>4, AppStep

-----------------------------------------------------------------------------
(* The pumps *)

(* What the invariant says of a pump that is on.                             *)
LEMMA PumpIs ==
    ASSUME TunnelInv, NEW s \in Sides
    PROVE  /\ pump[s] \in Pumps
           /\ pump[s].on => /\ pump[s].settled => pump[s].sendDone /\ pump[s].recvDone
                            /\ pump[s].recvDone => pump[s].reading = "done"
           /\ ~pump[s].on => pump[s].reading = "done" /\ pump[s].chain = <<>>
           /\ ~pump[s].on => (s = "far" => socket[s] = "none")
<1>1. PumpFits(s) /\ pump[s] \in Pumps /\ StagesFit
  BY Both
<1>2. NoPump.reading = "done" /\ NoPump.chain = <<>>
  BY DEF NoPump
<1> QED BY <1>1, <1>2 DEF PumpFits, StagesFit

LEMMA SettlesStep ==
    ASSUME TunnelInv, NEW s \in Sides, pump[s].on, pump' = [pump EXCEPT ![s] = Settled(pump[s])],
           NEW k \in {"destroyed", "closed"}, socket' = [socket EXCEPT ![s] = k],
           wire' \in [Sides -> Seq(Nat)], wire'[s] = wire[s],
           wire'[Peer(s)] = wire[Peer(s)] \/ pump[Peer(s)].on,
           UNCHANGED <<attached, over, biStream, app, received>>
    PROVE  TunnelInv'
<1> DEFINE n == Settled(pump[s])
           p == pump[s]
<1>1. pump[s] \in Pumps /\ (p.settled => p.sendDone /\ p.recvDone) /\ (p.recvDone => p.reading = "done")
  BY PumpIs
<1>2. pump' = [pump EXCEPT ![s] = n]
  OBVIOUS
<1> HIDE DEF n
<1>3. /\ n \in Pumps /\ n.settled = TRUE /\ n.sendDone = TRUE /\ n.recvDone = TRUE /\ n.reading = "done"
      /\ n.on = p.on /\ n.socketEnded = p.socketEnded /\ n.ended = p.ended
      /\ p.recvDone => n.stopped = p.stopped
      /\ ~p.recvDone => n.stopped = TRUE
      /\ n.chain = IF p.sendDone THEN p.chain ELSE Append(p.chain, Fin)
  BY <1>1, SettledIs DEF n
<1> QED BY <1>2, <1>3, SettleStep

LEMMA BreaksStep == ASSUME TunnelInv, NEW s \in Sides, Breaks(s) PROVE TunnelInv'
<1>1. socket[s] = "open" /\ UNCHANGED <<app, wire, received>> /\ wire \in [Sides -> Seq(Nat)] /\ socket \in [Sides -> Sockets]
  BY DEF Breaks, TunnelInv, TunnelTypes
<1>2. CASE pump[s].on /\ Settles(s, pump[s]) /\ UNCHANGED <<attached, over, biStream>>
  <2>1. pump' = [pump EXCEPT ![s] = Settled(pump[s])] /\ socket' = [socket EXCEPT ![s] = "destroyed"]
    BY <1>1, <1>2 DEF Settles, Shut
  <2> QED BY <1>1, <1>2, <2>1, SettlesStep
<1>3. CASE /\ ~pump[s].on /\ attached' = 0 /\ over' = 1..Second /\ biStream' = [biStream EXCEPT !.stage = "failed"]
           /\ socket' = [socket EXCEPT ![s] = "closed"] /\ UNCHANGED pump
  <2>1. s = "near" /\ biStream.stage = "opening"
    <3>1. s = "near"
      BY <1>1, <1>3, PumpIs DEF Sides
    <3> QED BY <1>1, <1>3, <3>1 DEF TunnelInv, StagesFit
  <2>2. pump["near"] = NoPump /\ pump["far"] = NoPump
    BY <2>1 DEF TunnelInv, StagesFit
  <2>3. biStream' \in [conn : 0..Second, stage : StreamStages] /\ biStream'.conn = biStream.conn /\ biStream'.stage = "failed"
    BY <1>3 DEF TunnelInv, TunnelTypes, StreamStages
  <2>4. socket' \in [Sides -> Sockets] /\ socket'["far"] = socket["far"] /\ socket'["near"] = "closed"
    BY <1>1, <1>3, <2>1, SidesAre DEF Sockets
  <2>5. TunnelTypes'
    BY <1>1, <1>3, <2>3, <2>4 DEF TunnelInv, TunnelTypes, Second
  <2>6. StagesFit'
    BY <1>1, <1>3, <2>1, <2>2, <2>3, <2>4 DEF TunnelInv, StagesFit
  <2>7. \A x \in Sides : ~pump[x].on
    BY <2>2, PumpsBegin DEF Sides
  <2> QED BY <1>1, <1>3, <2>4, <2>5, <2>6, <2>7, SidesAre, QuietStep
<1> QED BY <1>2, <1>3 DEF Breaks

LEMMA CloseStep == ASSUME TunnelInv, NEW s \in Sides, Close(s) PROVE TunnelInv'
<1>1. /\ CanClose(s) /\ socket' = [socket EXCEPT ![s] = "closed"]
      /\ pump' = [pump EXCEPT ![s] = IF pump[s].on THEN Settled(pump[s]) ELSE pump[s]]
      /\ UNCHANGED <<attached, over, biStream, app, wire, received>>
      /\ wire \in [Sides -> Seq(Nat)] /\ socket \in [Sides -> Sockets] /\ pump \in [Sides -> Pumps]
  BY DEF Close, TunnelInv, TunnelTypes
<1>2. CASE pump[s].on
  BY <1>1, <1>2, SettlesStep
<1>3. CASE ~pump[s].on
  <2>1. pump' = pump
    BY <1>1, <1>3
  <2>2. s = "near" /\ socket["near"] = "destroyed"
    <3>1. socket[s] # "none"
      BY <1>1 DEF CanClose
    <3>2. s = "near"
      BY <1>3, <3>1, PumpIs DEF Sides
    <3>3. ~pump[s].ended
      BY <1>3, OffIs, Both
    <3> QED BY <1>1, <3>2, <3>3 DEF CanClose
  <2>3. socket' \in [Sides -> Sockets] /\ socket'["far"] = socket["far"] /\ socket'["near"] = "closed"
    BY <1>1, <2>2, SidesAre DEF Sockets
  <2>4. TunnelTypes' /\ Carried' = Carried
    BY <1>1, <2>1, <2>3 DEF TunnelInv, TunnelTypes, Carried
  <2>5. StagesFit'
    BY <1>1, <2>1, <2>2, <2>3, <2>4 DEF TunnelInv, StagesFit
  <2> QED BY <1>1, <1>3, <2>1, <2>2, <2>3, <2>4, <2>5, QuietStep
<1> QED BY <1>2, <1>3

(* A pump takes what its socket has, or its end: what it does to the line is *)
(* what is said of Heard.                                                    *)
LEMMA TakeStep ==
    ASSUME TunnelInv, NEW s \in Sides, NEW n \in Pumps, NEW a \in [wrote : Nat, taken : Nat, ended : BOOLEAN],
           pump[s].on, socket[s] = "open", ~pump[s].ended,
           pump' = [pump EXCEPT ![s] = n], app' = [app EXCEPT ![s] = a],
           n.on = pump[s].on, n.recvDone = pump[s].recvDone, n.socketEnded = pump[s].socketEnded,
           n.settled = pump[s].settled, n.stopped = pump[s].stopped, n.reading = pump[s].reading,
           n.sendDone = n.ended, n.ended => a.ended /\ a.taken = a.wrote,
           a.wrote = app[s].wrote, app[s].taken <= a.taken, a.taken <= a.wrote,
           \A r \in Nat, w \in Seq(Nat), b \in BOOLEAN :
              Heard(r, w, pump[s].chain, app[s].taken, FALSE, b) => Heard(r, w, n.chain, a.taken, n.sendDone, b),
           UNCHANGED <<attached, over, biStream, socket, wire, received>>
    PROVE  TunnelInv'
<1> DEFINE q == Peer(s)
<1>1. q \in Sides /\ q # s /\ Peer(q) = s
  BY TwoSides
<1>2. /\ PumpFits(s) /\ LineFits(s) /\ PumpFits(q) /\ LineFits(q) /\ TunnelTypes /\ StagesFit
      /\ app[s] \in [wrote : Nat, taken : Nat, ended : BOOLEAN] /\ app[q] \in [wrote : Nat, taken : Nat, ended : BOOLEAN]
      /\ received[q] \in Seq(Nat) /\ received[s] \in Seq(Nat) /\ wire[s] \in Seq(Nat)
      /\ pump[s] \in Pumps /\ pump[q] \in Pumps
  BY <1>1, Both
<1>3. /\ pump' \in [Sides -> Pumps] /\ pump'[s] = n /\ pump'[q] = pump[q]
  BY <1>2, PumpTypes
<1>4. app' \in [Sides -> [wrote : Nat, taken : Nat, ended : BOOLEAN]] /\ app'[s] = a /\ app'[q] = app[q]
  BY <1>1, <1>2 DEF TunnelTypes
<1>5. TunnelTypes' /\ Carried' = Carried
  BY <1>2, <1>3, <1>4 DEF TunnelTypes, Carried
<1>6. StagesFit'
  BY <1>3, Stages
<1>7. ~pump[s].settled /\ ~pump[s].stopped /\ pump[s].sendDone = FALSE
  BY <1>2 DEF PumpFits, Pumps
<1>8. PumpFits(s)'
  <2>1. pump[s].on /\ pump'[s].on
    BY <1>3
  <2>2. /\ ~pump'[s].settled /\ ~pump'[s].stopped /\ pump'[s].recvDone = pump[s].recvDone
        /\ pump'[s].reading = pump[s].reading /\ pump'[s].socketEnded = pump[s].socketEnded
        /\ pump'[s].sendDone <=> pump'[s].ended
    BY <1>3, <1>7
  <2>3. pump'[s].ended => app'[s].ended /\ app'[s].taken = app'[s].wrote
    BY <1>3, <1>4
  <2>4. pump'[q].sendDone = pump[q].sendDone /\ socket'[s] = "open"
    BY <1>3
  <2> QED BY <1>2, <1>5, <1>7, <2>1, <2>2, <2>3, <2>4 DEF PumpFits
<1>9. PumpFits(q)'
  <2>1. pump[Peer(q)].sendDone => pump'[Peer(q)].sendDone
    BY <1>1, <1>7
  <2> QED BY <1>1, <1>2, <1>3, <1>4, <1>5, <2>1, PumpKept
<1>10. LineFits(s)'
  <2>1. ~pump[q].socketEnded
    BY <1>2, <1>7 DEF LineFits
  <2>2. ASSUME ~pump'[q].recvDone
        PROVE  Heard(Len(received[q]), wire'[s], pump'[s].chain, app'[s].taken, pump'[s].sendDone, Carried')
    <3>1. Heard(Len(received[q]), wire[s], pump[s].chain, app[s].taken, pump[s].sendDone, Carried)
      BY <1>2, <1>3, <2>2 DEF LineFits
    <3>2. Heard(Len(received[q]), wire[s], pump[s].chain, app[s].taken, FALSE, Carried)
      BY <1>7, <3>1, Zenon
    <3>3. Len(received[q]) \in Nat /\ Carried \in BOOLEAN
      BY <1>2 DEF Carried
    <3>4. Heard(Len(received[q]), wire[s], n.chain, a.taken, n.sendDone, Carried)
      BY <1>2, <3>2, <3>3
    <3>5. Heard(Len(received[q]), wire'[s], pump'[s].chain, app'[s].taken, pump'[s].sendDone, Carried')
          <=> Heard(Len(received[q]), wire[s], n.chain, a.taken, n.sendDone, Carried)
      BY <1>3, <1>4, <1>5, Zenon
    <3> QED BY <3>4, <3>5
  <2>3. Len(received[q]) <= app'[s].taken /\ app'[s].taken <= app'[s].wrote
    <3>1. Len(received[q]) \in Nat /\ app[s].taken \in Nat /\ a.taken \in Nat /\ Len(received[q]) <= app[s].taken
      BY <1>2 DEF LineFits
    <3> QED BY <1>4, <3>1
  <2>4. \A i \in 1..Len(received[q]) : received[q][i] = i
    BY <1>2 DEF LineFits
  <2>5. ~pump'[q].socketEnded /\ received'[q] = received[q]
    BY <1>3, <2>1
  <2> QED BY <2>2, <2>3, <2>4, <2>5 DEF LineFits
<1>11. LineFits(q)'
  <2>1. app[q].taken <= app[q].wrote
    BY <1>2 DEF LineFits
  <2>2. /\ pump'[Peer(q)].recvDone = pump[Peer(q)].recvDone /\ pump'[Peer(q)].socketEnded = pump[Peer(q)].socketEnded
        /\ received'[Peer(q)] = received[Peer(q)] /\ received[Peer(q)] \in Seq(Nat) /\ wire'[q] = wire[q]
    BY <1>1, <1>2, <1>3
  <2> QED BY <1>1, <1>2, <1>3, <1>4, <1>5, <2>1, <2>2, LineKept
<1> QED BY <1>5, <1>6, <1>8, <1>9, <1>10, <1>11, OnBoth

LEMMA DataStep == ASSUME TunnelInv, NEW s \in Sides, Data(s) PROVE TunnelInv'
<1> DEFINE a == [app[s] EXCEPT !.taken = @ + 1]
           c == IF pump[s].sendDone THEN pump[s].chain ELSE Append(pump[s].chain, app[s].taken + 1)
           n == [pump[s] EXCEPT !.chain = c]
<1>1. /\ pump[s].on /\ socket[s] = "open" /\ app[s].taken < app[s].wrote
      /\ UNCHANGED <<attached, over, biStream, socket, wire, received>>
  BY DEF Data, CanTake
<1>2. /\ app[s] \in [wrote : Nat, taken : Nat, ended : BOOLEAN] /\ pump[s] \in Pumps /\ PumpFits(s)
      /\ app \in [Sides -> [wrote : Nat, taken : Nat, ended : BOOLEAN]] /\ pump \in [Sides -> Pumps]
  BY Both DEF TunnelTypes
<1>3. /\ a \in [wrote : Nat, taken : Nat, ended : BOOLEAN] /\ a.taken = app[s].taken + 1 /\ a.wrote = app[s].wrote
      /\ app[s].taken <= a.taken /\ a.taken <= a.wrote
  BY <1>1, <1>2
<1>4. app' = [app EXCEPT ![s] = a] /\ pump' = [pump EXCEPT ![s] = n]
  BY <1>2 DEF Data
<1>5. pump[s].sendDone = FALSE /\ pump[s].ended = FALSE
  BY <1>1, <1>2 DEF PumpFits, Pumps
<1>6. c = Append(pump[s].chain, app[s].taken + 1) /\ c \in Seq(Nat)
  BY <1>2, <1>5 DEF Pumps
<1> HIDE DEF c, a, n
<1>7. /\ n \in Pumps /\ n.chain = c /\ n.on = pump[s].on /\ n.recvDone = pump[s].recvDone /\ n.sendDone = pump[s].sendDone
      /\ n.socketEnded = pump[s].socketEnded /\ n.settled = pump[s].settled /\ n.ended = pump[s].ended
      /\ n.stopped = pump[s].stopped /\ n.reading = pump[s].reading
  <2>1. n = [pump[s] EXCEPT !.chain = c]
    BY DEF n
  <2>2. pump[s] \in Pumps
    BY <1>2
  <2>3. c \in Seq(Nat)
    BY <1>6
  <2> QED BY <2>1, <2>2, <2>3 DEF Pumps
<1>8. ASSUME NEW r \in Nat, NEW w \in Seq(Nat), NEW b \in BOOLEAN, Heard(r, w, pump[s].chain, app[s].taken, FALSE, b)
      PROVE  Heard(r, w, n.chain, a.taken, n.sendDone, b)
  <2>1. pump[s].chain \in Seq(Nat) /\ app[s].taken \in Nat
    BY <1>2 DEF Pumps
  <2>2. Heard(r, w, Append(pump[s].chain, app[s].taken + 1), app[s].taken + 1, FALSE, b)
    BY <1>8, <2>1, HeardData
  <2>3. n.chain = Append(pump[s].chain, app[s].taken + 1) /\ a.taken = app[s].taken + 1 /\ n.sendDone = FALSE
    BY <1>3, <1>5, <1>6, <1>7
  <2> QED BY <2>2, <2>3, Zenon
<1>9. n.sendDone = n.ended /\ ~n.ended
  BY <1>5, <1>7
<1> QED BY <1>1, <1>3, <1>4, <1>5, <1>7, <1>8, <1>9, TakeStep

LEMMA EndStep == ASSUME TunnelInv, NEW s \in Sides, End(s) PROVE TunnelInv'
<1> DEFINE m == [pump[s] EXCEPT !.ended = TRUE]
           n == Finished(m)
           a == app[s]
<1>1. /\ pump[s].on /\ socket[s] = "open" /\ ~pump[s].ended /\ app[s].ended /\ app[s].taken = app[s].wrote
      /\ UNCHANGED <<attached, over, biStream, socket, app, wire, received>>
  BY DEF End, CanEnd
<1>2. /\ app[s] \in [wrote : Nat, taken : Nat, ended : BOOLEAN] /\ pump[s] \in Pumps /\ PumpFits(s)
      /\ app \in [Sides -> [wrote : Nat, taken : Nat, ended : BOOLEAN]] /\ pump \in [Sides -> Pumps]
  BY Both DEF TunnelTypes
<1>3. app' = [app EXCEPT ![s] = app[s]] /\ pump' = [pump EXCEPT ![s] = n]
  BY <1>1, <1>2 DEF End
<1>4. pump[s].sendDone = FALSE
  BY <1>1, <1>2 DEF PumpFits, Pumps
<1> HIDE DEF m
<1>5. /\ m \in Pumps /\ m.chain = pump[s].chain /\ m.on = pump[s].on /\ m.recvDone = pump[s].recvDone /\ m.sendDone = pump[s].sendDone
      /\ m.socketEnded = pump[s].socketEnded /\ m.settled = pump[s].settled /\ m.ended = TRUE
      /\ m.stopped = pump[s].stopped /\ m.reading = pump[s].reading
  <2>1. m = [pump[s] EXCEPT !.ended = TRUE]
    BY DEF m
  <2>2. pump[s] \in Pumps
    BY <1>2
  <2> QED BY <2>1, <2>2 DEF Pumps
<1> HIDE DEF n
<1>6. /\ n \in Pumps /\ n.sendDone = TRUE /\ n.on = m.on /\ n.recvDone = m.recvDone /\ n.settled = m.settled
      /\ n.socketEnded = m.socketEnded /\ n.ended = m.ended /\ n.stopped = m.stopped /\ n.reading = m.reading
      /\ n.chain = IF m.sendDone THEN m.chain ELSE Append(m.chain, Fin)
  BY <1>5, FinishedIs DEF n
<1>7. n.chain = Append(pump[s].chain, Fin)
  BY <1>4, <1>5, <1>6
<1>8. ASSUME NEW r \in Nat, NEW w \in Seq(Nat), NEW b \in BOOLEAN, Heard(r, w, pump[s].chain, app[s].taken, FALSE, b)
      PROVE  Heard(r, w, n.chain, app[s].taken, n.sendDone, b)
  <2>1. pump[s].chain \in Seq(Nat) /\ app[s].taken \in Nat
    BY <1>2 DEF Pumps
  <2>2. Heard(r, w, Append(pump[s].chain, Fin), app[s].taken, TRUE, b)
    BY <1>8, <2>1, HeardEnd
  <2> QED BY <1>6, <1>7, <2>2, Zenon
<1>9. n.sendDone = n.ended /\ app[s].taken <= app[s].taken /\ app[s].taken <= app[s].wrote
  <2>1. n.sendDone = n.ended
    BY <1>5, <1>6
  <2>2. app[s].taken \in Nat
    BY <1>2
  <2> QED BY <1>1, <2>1, <2>2
<1>10. /\ n.on = pump[s].on /\ n.recvDone = pump[s].recvDone /\ n.socketEnded = pump[s].socketEnded
       /\ n.settled = pump[s].settled /\ n.stopped = pump[s].stopped /\ n.reading = pump[s].reading
  BY <1>5, <1>6
<1>11. app' = [app EXCEPT ![s] = a] /\ a \in [wrote : Nat, taken : Nat, ended : BOOLEAN] /\ a.wrote = app[s].wrote
  BY <1>2, <1>3
<1>12. /\ app[s].taken <= a.taken /\ a.taken <= a.wrote
       /\ n.ended => a.ended /\ a.taken = a.wrote
  BY <1>1, <1>9
<1>13. \A r \in Nat, w \in Seq(Nat), b \in BOOLEAN :
          Heard(r, w, pump[s].chain, app[s].taken, FALSE, b) => Heard(r, w, n.chain, a.taken, n.sendDone, b)
  BY <1>8
<1> HIDE DEF a
<1> QED BY <1>1, <1>3, <1>6, <1>9, <1>10, <1>11, <1>12, <1>13, TakeStep

LEMMA ShutIs ==
    ASSUME TunnelInv, NEW s \in Sides, pump[s].on, socket' = [socket EXCEPT ![s] = Shut(@)]
    PROVE  \E k \in {"destroyed", "closed"} : socket' = [socket EXCEPT ![s] = k]
<1> DEFINE k == Shut(socket[s])
<1>1. socket' = [socket EXCEPT ![s] = k]
  BY Both DEF TunnelTypes
<1>2. socket[s] \in Sockets /\ socket[s] # "none"
  BY Both DEF PumpFits
<1>3. k \in {"destroyed", "closed"}
  BY <1>2 DEF Shut, Sockets
<1> QED BY <1>1, <1>3

LEMMA SendRefusedStep ==
    ASSUME TunnelInv, NEW s \in Sides, pump[s].chain # <<>>, ~Carried \/ pump[Peer(s)].stopped,
           Settles(s, [pump[s] EXCEPT !.chain = <<>>, !.sendDone = TRUE]),
           UNCHANGED <<attached, over, biStream, app, wire, received>>
    PROVE  TunnelInv'
<1> DEFINE m == [pump[s] EXCEPT !.chain = <<>>, !.sendDone = TRUE]
           n == Settled(m)
           p == pump[s]
<1>1. /\ p \in Pumps /\ p.on
      /\ p.settled => p.sendDone /\ p.recvDone
      /\ p.recvDone => p.reading = "done"
  BY PumpIs
<1>2. pump' = [pump EXCEPT ![s] = n] /\ socket' = [socket EXCEPT ![s] = Shut(@)]
  BY DEF Settles
<1> HIDE DEF n, m
<1>3. /\ m \in Pumps /\ m.chain = <<>> /\ m.on = p.on /\ m.recvDone = p.recvDone /\ m.sendDone = TRUE
      /\ m.socketEnded = p.socketEnded /\ m.settled = p.settled /\ m.ended = p.ended
      /\ m.stopped = p.stopped /\ m.reading = p.reading
  <2> DEFINE z == <<>>
  <2>1. z \in Seq(Nat) /\ m = [p EXCEPT !.chain = z, !.sendDone = TRUE]
    BY DEF m
  <2> HIDE DEF z
  <2>2. /\ m \in Pumps /\ m.chain = z /\ m.on = p.on /\ m.recvDone = p.recvDone /\ m.sendDone = TRUE
        /\ m.socketEnded = p.socketEnded /\ m.settled = p.settled /\ m.ended = p.ended
        /\ m.stopped = p.stopped /\ m.reading = p.reading
    BY <1>1, <2>1 DEF Pumps
  <2> QED BY <2>2 DEF z
<1>4. /\ n \in Pumps /\ n.settled = TRUE /\ n.sendDone = TRUE /\ n.recvDone = TRUE /\ n.reading = "done"
      /\ n.on = m.on /\ n.socketEnded = m.socketEnded /\ n.ended = m.ended
      /\ m.recvDone => n.stopped = m.stopped
      /\ ~m.recvDone => n.stopped = TRUE
      /\ n.chain = IF m.sendDone THEN m.chain ELSE Append(m.chain, Fin)
  <2>1. (m.settled => m.sendDone /\ m.recvDone) /\ (m.recvDone => m.reading = "done")
    BY <1>1, <1>3
  <2> QED BY <1>3, <2>1, SettledIs DEF n
<1>5. PICK k \in {"destroyed", "closed"} : socket' = [socket EXCEPT ![s] = k]
  BY <1>1, <1>2, ShutIs
<1>6. wire' \in [Sides -> Seq(Nat)]
  BY DEF TunnelInv, TunnelTypes
<1>7. /\ n.on = p.on /\ n.socketEnded = p.socketEnded /\ n.ended = p.ended
      /\ p.recvDone => n.stopped = p.stopped
      /\ ~p.recvDone => n.stopped = TRUE
      /\ p.chain # <<>> /\ n.chain = <<>> /\ (~Carried \/ pump[Peer(s)].stopped)
  BY <1>3, <1>4
<1> QED BY <1>1, <1>2, <1>4, <1>5, <1>6, <1>7, SettleStep

LEMMA SendSentStep ==
    ASSUME TunnelInv, NEW s \in Sides, pump[s].chain # <<>>, NEW refused \in BOOLEAN,
           refused <=> ~Carried \/ pump[Peer(s)].stopped,
           ~refused \/ Head(pump[s].chain) = Fin,
           pump' = [pump EXCEPT ![s] = [pump[s] EXCEPT !.chain = Tail(@)]],
           wire' = [wire EXCEPT ![s] = IF refused THEN @ ELSE Append(@, Head(pump[s].chain))],
           UNCHANGED <<attached, over, biStream, socket, app, received>>
    PROVE  TunnelInv'
<1> DEFINE q == Peer(s)
           d == Tail(pump[s].chain)
           n == [pump[s] EXCEPT !.chain = d]
           u == IF refused THEN wire[s] ELSE Append(wire[s], Head(pump[s].chain))
<1>1. q \in Sides /\ q # s /\ Peer(q) = s
  BY TwoSides
<1>2. /\ PumpFits(s) /\ LineFits(s) /\ PumpFits(q) /\ LineFits(q) /\ TunnelTypes
      /\ app[s] \in [wrote : Nat, taken : Nat, ended : BOOLEAN] /\ app[q] \in [wrote : Nat, taken : Nat, ended : BOOLEAN]
      /\ received[q] \in Seq(Nat) /\ received[s] \in Seq(Nat) /\ wire[s] \in Seq(Nat)
      /\ pump[s] \in Pumps /\ pump[q] \in Pumps
  BY <1>1, Both
<1>3. pump[s].on /\ pump[s].chain \in Seq(Nat)
  BY <1>2, PumpIs DEF Pumps
<1>4. d \in Seq(Nat) /\ Head(pump[s].chain) \in Nat
  BY <1>3, Removed
<1>5. pump' = [pump EXCEPT ![s] = n] /\ wire' = [wire EXCEPT ![s] = u]
  BY <1>2 DEF TunnelTypes
<1>6. u \in Seq(Nat)
  BY <1>2, <1>4, Added
<1>7. wire' \in [Sides -> Seq(Nat)] /\ wire'[s] = u /\ wire'[q] = wire[q]
  <2> HIDE DEF u
  <2> QED BY <1>1, <1>2, <1>5, <1>6 DEF TunnelTypes
<1>8. /\ n \in Pumps /\ n.chain = d /\ n.on = pump[s].on /\ n.recvDone = pump[s].recvDone /\ n.sendDone = pump[s].sendDone
      /\ n.socketEnded = pump[s].socketEnded /\ n.settled = pump[s].settled /\ n.ended = pump[s].ended
      /\ n.stopped = pump[s].stopped /\ n.reading = pump[s].reading
  <2> HIDE DEF d
  <2> QED BY <1>2, <1>4 DEF Pumps
<1> HIDE DEF n
<1>9. /\ pump' \in [Sides -> Pumps] /\ pump'[s] = n /\ pump'[q] = pump[q]
  BY <1>2, <1>5, <1>8, PumpTypes
<1>10. TunnelTypes' /\ Carried' = Carried
  BY <1>2, <1>7, <1>9 DEF TunnelTypes, Carried
<1>11. StagesFit'
  BY <1>2, <1>3, <1>8, <1>9, Stages DEF PumpFits
<1>12. PumpFits(s)'
  <2>1. pump[s].on /\ pump'[s].on
    BY <1>3, <1>8, <1>9
  <2>2. /\ pump'[s].settled = pump[s].settled /\ pump'[s].stopped = pump[s].stopped /\ pump'[s].recvDone = pump[s].recvDone
        /\ pump'[s].reading = pump[s].reading /\ pump'[s].socketEnded = pump[s].socketEnded
        /\ pump'[s].sendDone = pump[s].sendDone /\ pump'[s].ended = pump[s].ended
        /\ pump'[q].sendDone = pump[q].sendDone /\ socket'[s] = socket[s] /\ app'[s] = app[s]
    BY <1>8, <1>9
  <2> QED BY <1>2, <1>10, <2>1, <2>2 DEF PumpFits
<1>13. PumpFits(q)'
  <2>1. pump[Peer(q)].sendDone => pump'[Peer(q)].sendDone
    BY <1>1, <1>8, <1>9
  <2> QED BY <1>1, <1>2, <1>7, <1>9, <1>10, <2>1, PumpKept
<1>14. LineFits(s)'
  <2>1. ASSUME ~pump'[q].recvDone
        PROVE  Heard(Len(received[q]), wire'[s], pump'[s].chain, app'[s].taken, pump'[s].sendDone, Carried')
    <3> DEFINE r == Len(received[q])
               w == wire[s]
               c == pump[s].chain
               t == app[s].taken
               e == pump[s].sendDone
               b == Carried
    <3>1. Heard(r, w, c, t, e, b)
      BY <1>2, <1>9, <2>1 DEF LineFits
    <3>2. r \in Nat /\ w \in Seq(Nat) /\ c \in Seq(Nat) /\ t \in Nat /\ e \in BOOLEAN /\ b \in BOOLEAN
      <4>1. r \in Nat /\ w \in Seq(Nat) /\ t \in Nat
        BY <1>2
      <4>2. c \in Seq(Nat) /\ e \in BOOLEAN
        BY <1>2 DEF Pumps
      <4>3. b \in BOOLEAN
        BY DEF Carried
      <4> QED BY <4>1, <4>2, <4>3
    <3> HIDE DEF r
    <3>3. CASE ~refused
      <4>1. Heard(r, Append(w, Head(c)), Tail(c), t, e, b)
        BY <3>1, <3>2, HeardSent
      <4>2. u = Append(w, Head(c)) /\ d = Tail(c)
        BY <3>3
      <4>3. Heard(r, u, d, t, e, b)
        BY <4>1, <4>2, Zenon
      <4>4. wire'[s] = u /\ pump'[s].chain = d /\ app'[s].taken = t /\ pump'[s].sendDone = e /\ Carried' = b
        BY <1>7, <1>8, <1>9, <1>10
      <4> HIDE DEF u, d, t, e, b
      <4>5. Heard(r, wire'[s], pump'[s].chain, app'[s].taken, pump'[s].sendDone, Carried') <=> Heard(r, u, d, t, e, b)
        BY <4>4, Zenon
      <4> QED BY <4>3, <4>5 DEF r
    <3>4. CASE refused
      <4>1. ~pump[q].stopped
        BY <1>2, <1>9, <2>1 DEF PumpFits
      <4>2. b = FALSE /\ Head(c) = Fin
        BY <3>2, <3>4, <4>1
      <4>3. FinIn(c) /\ Len(c) = 1
        <5>1. Runs(c, r + Len(w)) /\ r + Len(w) \in Nat
          BY <3>1, <3>2 DEF Heard
        <5> QED BY <3>2, <4>2, <5>1, FinRemoved, RunsRemoved
      <4>4. e = TRUE
        BY <3>1, <3>2, <4>3 DEF Heard
      <4>5. d = <<>>
        <5>1. Len(d) = 0
          BY <3>2, <4>3, Removed
        <5> QED BY <1>4, <5>1, EmptySeq
      <4>6. Heard(r, w, c, t, e, FALSE)
        BY <3>1, <4>2, Zenon
      <4>7. Heard(r, w, <<>>, t, TRUE, FALSE)
        BY <3>2, <4>6, HeardLost
      <4>8. /\ wire'[s] = w /\ pump'[s].chain = <<>> /\ app'[s].taken = t /\ pump'[s].sendDone = TRUE
            /\ Carried' = FALSE
        BY <1>7, <1>8, <1>9, <1>10, <3>4, <4>2, <4>4, <4>5
      <4> HIDE DEF w, t
      <4>9. Heard(r, wire'[s], pump'[s].chain, app'[s].taken, pump'[s].sendDone, Carried')
            <=> Heard(r, w, <<>>, t, TRUE, FALSE)
        BY <4>8, Zenon
      <4> QED BY <4>7, <4>9 DEF r
    <3> QED BY <3>3, <3>4
  <2>2. /\ received'[q] = received[q] /\ app'[s] = app[s] /\ pump'[s].ended = pump[s].ended
        /\ pump'[s].settled = pump[s].settled /\ pump'[q] = pump[q]
    BY <1>8, <1>9
  <2>3. app[s].taken <= app[s].wrote /\ app[s].taken <= app[s].taken /\ app[s].taken \in Nat
    BY <1>2 DEF LineFits
  <2> QED BY <1>2, <2>1, <2>2, <2>3, LineMoves
<1>15. LineFits(q)'
  <2>1. app[q].taken <= app[q].wrote
    BY <1>2 DEF LineFits
  <2>2. /\ pump'[Peer(q)].recvDone = pump[Peer(q)].recvDone /\ pump'[Peer(q)].socketEnded = pump[Peer(q)].socketEnded
        /\ received'[Peer(q)] = received[Peer(q)] /\ received[Peer(q)] \in Seq(Nat) /\ wire'[q] = wire[q]
    BY <1>1, <1>2, <1>7, <1>8, <1>9
  <2> QED BY <1>1, <1>2, <1>9, <1>10, <2>1, <2>2, LineKept
<1> QED BY <1>10, <1>11, <1>12, <1>13, <1>14, <1>15, OnBoth

LEMMA SendStep == ASSUME TunnelInv, NEW s \in Sides, Send(s) PROVE TunnelInv'
<1> DEFINE refused == ~Carried \/ pump[Peer(s)].stopped
<1>1. pump[s].chain # <<>> /\ UNCHANGED <<attached, over, biStream, app, received>>
  BY DEF Send
<1>2. CASE /\ refused /\ Settles(s, [pump[s] EXCEPT !.chain = <<>>, !.sendDone = TRUE]) /\ UNCHANGED wire
  BY <1>1, <1>2, SendRefusedStep
<1>3. CASE /\ ~refused \/ Head(pump[s].chain) = Fin
           /\ pump' = [pump EXCEPT ![s] = [pump[s] EXCEPT !.chain = Tail(@)]]
           /\ wire' = [wire EXCEPT ![s] = IF refused THEN @ ELSE Append(@, Head(pump[s].chain))]
           /\ UNCHANGED socket
  <2>1. refused \in BOOLEAN
    BY PumpIs, TwoSides DEF Pumps, Carried
  <2>2. refused <=> ~Carried \/ pump[Peer(s)].stopped
    OBVIOUS
  <2> HIDE DEF refused
  <2> QED BY <1>1, <1>3, <2>1, <2>2, SendSentStep
<1> QED BY <1>2, <1>3 DEF Send

LEMMA PeerFinishedStep ==
    ASSUME TunnelInv, NEW s \in Sides, CanReceive(s), PeerFinished(s), UNCHANGED <<attached, over, biStream, app>>
    PROVE  TunnelInv'
<1> DEFINE q == Peer(s)
           x == socket[s] = "open"
           n == [LoopEnds(s) EXCEPT !.socketEnded = socket[s] = "open"]
           u == Tail(wire[q])
<1>1. q \in Sides /\ q # s /\ Peer(q) = s
  BY TwoSides
<1>2. /\ PumpFits(s) /\ LineFits(s) /\ PumpFits(q) /\ LineFits(q) /\ TunnelTypes
      /\ app[s] \in [wrote : Nat, taken : Nat, ended : BOOLEAN] /\ app[q] \in [wrote : Nat, taken : Nat, ended : BOOLEAN]
      /\ received[q] \in Seq(Nat) /\ received[s] \in Seq(Nat) /\ wire[q] \in Seq(Nat)
      /\ pump[s] \in Pumps /\ pump[q] \in Pumps
  BY <1>1, Both
<1>3. /\ Carried /\ wire[q] # <<>> /\ Head(wire[q]) = Fin /\ pump[s].reading = "next"
      /\ pump' = [pump EXCEPT ![s] = n] /\ wire' = [wire EXCEPT ![q] = u]
      /\ UNCHANGED <<attached, over, biStream, app, socket, received>>
  BY <1>2 DEF PeerFinished, CanReceive, TunnelTypes
<1>4. pump[s].on /\ ~pump[s].recvDone
  BY <1>3, PumpIs
<1>5. u \in Seq(Nat)
  BY <1>2, <1>3, Removed
<1>6. /\ n \in Pumps /\ n.chain = pump[s].chain /\ n.on = pump[s].on /\ n.recvDone = TRUE
      /\ n.sendDone = pump[s].sendDone /\ n.socketEnded = x /\ n.settled = pump[s].settled
      /\ n.ended = pump[s].ended /\ n.stopped = pump[s].stopped /\ n.reading = "done"
  <2>1. x \in BOOLEAN /\ n = [[pump[s] EXCEPT !.recvDone = TRUE, !.reading = "done"] EXCEPT !.socketEnded = x]
    BY DEF LoopEnds
  <2> HIDE DEF x, n
  <2> QED BY <1>2, <2>1 DEF Pumps, Readings
<1> HIDE DEF n, u
<1>7. pump' \in [Sides -> Pumps] /\ pump'[s] = n /\ pump'[q] = pump[q]
  BY <1>2, <1>3, <1>6, PumpTypes
<1>8. wire' \in [Sides -> Seq(Nat)] /\ wire'[q] = u /\ wire'[s] = wire[s]
  BY <1>1, <1>2, <1>3, <1>5 DEF TunnelTypes
<1>9. TunnelTypes' /\ Carried' = Carried
  BY <1>2, <1>3, <1>7, <1>8 DEF TunnelTypes, Carried
<1>10. StagesFit'
  <2>1. socket'[s] # "none" /\ pump'[s].on
    BY <1>2, <1>3, <1>4, <1>6, <1>7 DEF PumpFits
  <2> QED BY <1>3, <1>4, <1>7, <2>1, Stages
<1>11. pump[q].on
  BY <1>1, <1>2, <1>3, OffIs
<1>12. pump[q].sendDone /\ Len(received[s]) = app[q].taken
  <2> DEFINE r == Len(received[s])
             w == wire[q]
             c == pump[q].chain
             t == app[q].taken
             e == pump[q].sendDone
             b == Carried
  <2>1. Heard(r, w, c, t, e, b)
    BY <1>1, <1>2, <1>4 DEF LineFits
  <2>2. r \in Nat /\ w \in Seq(Nat) /\ t \in Nat
    BY <1>2
  <2>3. c \in Seq(Nat) /\ e \in BOOLEAN
    BY <1>2 DEF Pumps
  <2>4. b \in BOOLEAN
    BY DEF Carried
  <2>5. w # <<>> /\ Head(w) = Fin
    BY <1>3
  <2> HIDE DEF r, w, c, t, e, b
  <2>6. e /\ r = t
    BY <2>1, <2>2, <2>3, <2>4, <2>5, HeardFin
  <2> QED BY <2>6 DEF e, r, t
<1>13. PumpFits(s)'
  <2>1. ~pump[s].settled /\ ~pump[s].stopped
    BY <1>2, <1>4 DEF PumpFits
  <2>2. socket[s] = "open"
    BY <1>2, <1>3, <1>4, <2>1 DEF PumpFits
  <2>3. /\ pump'[s].on /\ pump'[s].recvDone /\ pump'[s].reading = "done" /\ pump'[s].socketEnded
        /\ ~pump'[s].settled /\ ~pump'[s].stopped /\ pump'[s].sendDone = pump[s].sendDone
        /\ pump'[s].ended = pump[s].ended /\ socket'[s] = "open" /\ app'[s] = app[s] /\ pump'[q].sendDone
    BY <1>3, <1>4, <1>6, <1>7, <1>12, <2>1, <2>2
  <2>4. /\ pump[s].sendDone => pump[s].ended \/ pump[s].settled
        /\ pump[s].ended => pump[s].sendDone /\ app[s].ended /\ app[s].taken = app[s].wrote
    BY <1>2 DEF PumpFits
  <2> QED BY <2>1, <2>3, <2>4 DEF PumpFits
<1>14. PumpFits(q)'
  <2>1. pump[Peer(q)].sendDone => pump'[Peer(q)].sendDone
    BY <1>1, <1>6, <1>7
  <2>2. pump'[q] = pump[q] /\ socket'[q] = socket[q] /\ app'[q] = app[q]
    BY <1>3, <1>7
  <2> QED BY <1>1, <1>2, <1>9, <1>11, <2>1, <2>2, PumpKept
<1>15. LineFits(s)'
  <2>1. app[s].taken <= app[s].wrote
    BY <1>2 DEF LineFits
  <2>2. /\ received'[q] = received[q] /\ app'[s] = app[s] /\ pump'[q] = pump[q] /\ wire'[s] = wire[s]
        /\ pump'[s].ended = pump[s].ended /\ pump'[s].settled = pump[s].settled
        /\ pump'[s].chain = pump[s].chain /\ pump'[s].sendDone = pump[s].sendDone
    BY <1>3, <1>6, <1>7, <1>8
  <2> QED BY <1>2, <1>9, <2>1, <2>2, LineKept
<1>16. LineFits(q)'
  <2>1. /\ pump'[Peer(q)].recvDone /\ received'[Peer(q)] = received[s] /\ app'[q] = app[q] /\ pump'[q] = pump[q]
    BY <1>1, <1>3, <1>6, <1>7
  <2>2. /\ Len(received[s]) <= app[q].taken /\ app[q].taken <= app[q].wrote
        /\ \A i \in 1..Len(received[s]) : received[s][i] = i
    BY <1>1, <1>2 DEF LineFits
  <2>3. /\ pump[q].ended => app[q].taken = app[q].wrote
        /\ pump[q].ended \/ pump[q].settled
    BY <1>2, <1>12 DEF PumpFits
  <2> QED BY <1>12, <2>1, <2>2, <2>3 DEF LineFits
<1> QED BY <1>9, <1>10, <1>13, <1>14, <1>15, <1>16, OnBoth

(* A chunk arrives at a socket that takes it, or a slow reader catches up.   *)
LEMMA ReadingStep ==
    ASSUME TunnelInv, NEW s \in Sides, NEW m \in {"next", "drain"}, pump[s].reading # "done", socket[s] = "open",
           pump' = [pump EXCEPT ![s].reading = m],
           \/ UNCHANGED <<wire, received>>
           \/ /\ wire[Peer(s)] # <<>> /\ Head(wire[Peer(s)]) # Fin
              /\ wire' = [wire EXCEPT ![Peer(s)] = Tail(@)]
              /\ received' = [received EXCEPT ![s] = Append(@, Head(wire[Peer(s)]))],
           UNCHANGED <<attached, over, biStream, app, socket>>
    PROVE  TunnelInv'
<1> DEFINE q == Peer(s)
           n == [pump[s] EXCEPT !.reading = m]
<1>1. q \in Sides /\ q # s /\ Peer(q) = s
  BY TwoSides
<1>2. /\ PumpFits(s) /\ LineFits(s) /\ PumpFits(q) /\ LineFits(q) /\ TunnelTypes
      /\ app[s] \in [wrote : Nat, taken : Nat, ended : BOOLEAN] /\ app[q] \in [wrote : Nat, taken : Nat, ended : BOOLEAN]
      /\ received[q] \in Seq(Nat) /\ received[s] \in Seq(Nat) /\ wire[q] \in Seq(Nat)
      /\ pump[s] \in Pumps /\ pump[q] \in Pumps
  BY <1>1, Both
<1>3. pump' = [pump EXCEPT ![s] = n]
  BY <1>2 DEF TunnelTypes
<1>4. pump[s].on /\ ~pump[s].recvDone
  BY PumpIs
<1>5. /\ n \in Pumps /\ n.chain = pump[s].chain /\ n.on = pump[s].on /\ n.recvDone = pump[s].recvDone
      /\ n.sendDone = pump[s].sendDone /\ n.socketEnded = pump[s].socketEnded /\ n.settled = pump[s].settled
      /\ n.ended = pump[s].ended /\ n.stopped = pump[s].stopped /\ n.reading = m
  BY <1>2 DEF Pumps, Readings
<1> HIDE DEF n
<1>6. pump' \in [Sides -> Pumps] /\ pump'[s] = n /\ pump'[q] = pump[q]
  BY <1>2, <1>3, <1>5, PumpTypes
<1>7. Carried' = Carried
  BY DEF Carried
<1>8. StagesFit'
  <2>1. socket'[s] # "none" /\ pump'[s].on
    BY <1>4, <1>5, <1>6
  <2> QED BY <1>4, <1>6, <2>1, Stages
<1>9. /\ wire' \in [Sides -> Seq(Nat)] /\ wire'[s] = wire[s] /\ received' \in [Sides -> Seq(Nat)] /\ received'[q] = received[q]
      /\ wire'[q] = wire[q] \/ pump[q].on
  <2>1. CASE UNCHANGED <<wire, received>>
    BY <1>2, <2>1 DEF TunnelTypes
  <2>2. CASE /\ wire[q] # <<>> /\ wire' = [wire EXCEPT ![q] = Tail(@)]
             /\ received' = [received EXCEPT ![s] = Append(@, Head(wire[q]))]
    <3>1. Tail(wire[q]) \in Seq(Nat) /\ Head(wire[q]) \in Nat
      BY <1>2, <2>2, Removed
    <3>2. Append(received[s], Head(wire[q])) \in Seq(Nat)
      BY <1>2, <3>1, Added
    <3>3. pump[q].on
      BY <1>1, <1>2, <2>2, OffIs
    <3> QED BY <1>1, <1>2, <2>2, <3>1, <3>2, <3>3 DEF TunnelTypes
  <2> QED BY <2>1, <2>2
<1>10. TunnelTypes'
  BY <1>2, <1>6, <1>9 DEF TunnelTypes
<1>11. PumpFits(s)'
  <2>1. /\ pump'[s].on /\ pump[s].on /\ ~pump'[s].recvDone /\ pump'[s].reading # "done" /\ pump'[s].socketEnded = pump[s].socketEnded
        /\ pump'[s].settled = pump[s].settled /\ pump'[s].stopped = pump[s].stopped
        /\ pump'[s].sendDone = pump[s].sendDone /\ pump'[s].ended = pump[s].ended
        /\ socket[s] = "open" /\ socket'[s] = "open" /\ app'[s] = app[s]
    BY <1>4, <1>5, <1>6
  <2>2. ~pump[s].settled /\ ~pump[s].stopped
    BY <1>2, <1>4 DEF PumpFits
  <2>3. /\ pump[s].sendDone => pump[s].ended \/ pump[s].settled
        /\ pump[s].ended => pump[s].sendDone /\ app[s].ended /\ app[s].taken = app[s].wrote
    BY <1>2 DEF PumpFits
  <2> QED BY <2>1, <2>2, <2>3 DEF PumpFits
<1>12. PumpFits(q)'
  <2>1. pump[Peer(q)].sendDone => pump'[Peer(q)].sendDone
    BY <1>1, <1>5, <1>6
  <2>2. /\ pump'[q] = pump[q] /\ socket'[q] = socket[q] /\ app'[q] = app[q]
        /\ pump[q].on \/ (app'[q].taken = app[q].taken /\ wire'[q] = wire[q] /\ received'[q] = received[q])
    BY <1>6, <1>9
  <2> QED BY <1>1, <1>2, <1>7, <2>1, <2>2, PumpKept
<1>13. LineFits(s)'
  <2>1. app[s].taken <= app[s].wrote
    BY <1>2 DEF LineFits
  <2>2. /\ received'[q] = received[q] /\ app'[s] = app[s] /\ pump'[q] = pump[q] /\ wire'[s] = wire[s]
        /\ pump'[s].ended = pump[s].ended /\ pump'[s].settled = pump[s].settled
        /\ pump'[s].chain = pump[s].chain /\ pump'[s].sendDone = pump[s].sendDone
    BY <1>5, <1>6, <1>9
  <2> QED BY <1>2, <1>7, <2>1, <2>2, LineKept
<1>14. LineFits(q)'
  <2>1. /\ pump'[s].recvDone = pump[s].recvDone /\ pump'[s].socketEnded = pump[s].socketEnded
        /\ app'[q] = app[q] /\ pump'[q] = pump[q]
    BY <1>5, <1>6
  <2>2. app[q].taken <= app[q].wrote
    BY <1>2 DEF LineFits
  <2>3. CASE UNCHANGED <<wire, received>>
    <3>1. received'[Peer(q)] = received[Peer(q)] /\ received[Peer(q)] \in Seq(Nat) /\ wire'[q] = wire[q]
      BY <1>1, <1>2, <2>3
    <3> QED BY <1>1, <1>2, <1>7, <2>1, <2>2, <3>1, LineKept
  <2>4. CASE /\ wire[q] # <<>> /\ Head(wire[q]) # Fin /\ wire' = [wire EXCEPT ![q] = Tail(@)]
             /\ received' = [received EXCEPT ![s] = Append(@, Head(wire[q]))]
    <3> DEFINE r == Len(received[s])
               w == wire[q]
               c == pump[q].chain
               t == app[q].taken
               e == pump[q].sendDone
               b == Carried
               v == Append(received[s], Head(wire[q]))
    <3>1. Heard(r, w, c, t, e, b)
      BY <1>1, <1>2, <1>4 DEF LineFits
    <3>2. r \in Nat /\ w \in Seq(Nat) /\ t \in Nat /\ c \in Seq(Nat) /\ e \in BOOLEAN /\ b \in BOOLEAN
      <4>1. r \in Nat /\ w \in Seq(Nat) /\ t \in Nat
        BY <1>2
      <4>2. c \in Seq(Nat) /\ e \in BOOLEAN
        BY <1>2 DEF Pumps
      <4>3. b \in BOOLEAN
        BY DEF Carried
      <4> QED BY <4>1, <4>2, <4>3
    <3>3. w # <<>> /\ Head(w) # Fin
      BY <2>4
    <3> HIDE DEF r
    <3>4. Head(w) = r + 1 /\ r + 1 <= t /\ Heard(r + 1, Tail(w), c, t, e, b)
      BY <3>1, <3>2, <3>3, HeardGot
    <3>5. Len(v) = r + 1 /\ v[r + 1] = r + 1 /\ \A i \in 1..r : v[i] = received[s][i]
      <4>1. Head(w) \in Nat
        BY <3>2, <3>3, Removed
      <4> QED BY <1>2, <3>4, <4>1, Added DEF r
    <3>6. received'[s] = v /\ wire'[q] = Tail(w)
      BY <1>1, <1>2, <2>4 DEF TunnelTypes
    <3>7. \A i \in 1..r : received[s][i] = i
      BY <1>1, <1>2 DEF LineFits, r
    <3> HIDE DEF v
    <3>8. ASSUME NEW i \in 1..Len(v) PROVE v[i] = i
      <4>1. i \in 1..r \/ i = r + 1
        BY <3>2, <3>5
      <4> QED BY <3>5, <3>7, <4>1
    <3>9. Heard(Len(received'[s]), wire'[q], pump'[q].chain, app'[q].taken, pump'[q].sendDone, Carried')
      <4>1. /\ Len(received'[s]) = r + 1 /\ wire'[q] = Tail(w) /\ pump'[q].chain = c /\ app'[q].taken = t
            /\ pump'[q].sendDone = e /\ Carried' = b
        BY <1>7, <2>1, <3>5, <3>6
      <4> HIDE DEF w, c, t, e, b
      <4>2. Heard(Len(received'[s]), wire'[q], pump'[q].chain, app'[q].taken, pump'[q].sendDone, Carried')
            <=> Heard(r + 1, Tail(w), c, t, e, b)
        BY <4>1, Zenon
      <4> QED BY <3>4, <4>2
    <3>10. ~pump'[s].socketEnded
      BY <1>1, <1>2, <1>4, <2>1 DEF LineFits
    <3>11. /\ Len(received'[s]) <= app'[q].taken /\ app'[q].taken <= app'[q].wrote
           /\ \A i \in 1..Len(received'[s]) : received'[s][i] = i
      BY <2>1, <2>2, <3>4, <3>5, <3>6, <3>8
    <3> QED BY <1>1, <3>9, <3>10, <3>11 DEF LineFits
  <2> QED BY <2>3, <2>4
<1> QED BY <1>8, <1>10, <1>11, <1>12, <1>13, <1>14, OnBoth

LEMMA ReceiveStep == ASSUME TunnelInv, NEW s \in Sides, Receive(s) PROVE TunnelInv'
<1>1. CanReceive(s) /\ UNCHANGED <<attached, over, biStream, app>>
  BY DEF Receive
<1>2. pump[s].on /\ ~pump[s].recvDone /\ pump[s].reading = "next"
  BY <1>1, PumpIs DEF CanReceive
<1>3. PumpFits(s) /\ wire \in [Sides -> Seq(Nat)] /\ socket \in [Sides -> Sockets]
  BY Both DEF TunnelTypes
<1>4. CASE ReadFails(s)
  <2>1. /\ pump' = [pump EXCEPT ![s] = Settled(pump[s])] /\ socket' = [socket EXCEPT ![s] = Shut(@)]
        /\ UNCHANGED <<wire, received>>
    BY <1>4 DEF ReadFails, Settles
  <2>2. PICK k \in {"destroyed", "closed"} : socket' = [socket EXCEPT ![s] = k]
    BY <1>2, <2>1, ShutIs
  <2> QED BY <1>1, <1>2, <1>3, <2>1, <2>2, SettlesStep
<1>5. CASE PeerFinished(s)
  BY <1>1, <1>5, PeerFinishedStep
<1>6. CASE ChunkArrives(s)
  <2>1. /\ Carried /\ wire[Peer(s)] # <<>> /\ Head(wire[Peer(s)]) # Fin
        /\ wire' = [wire EXCEPT ![Peer(s)] = Tail(@)]
    BY <1>1, <1>6 DEF ChunkArrives, CanReceive
  <2>2. socket[s] = "open"
    BY <1>2, <1>3, <2>1 DEF PumpFits
  <2>3. CASE pump[s].ended
    <3>1. /\ pump' = [pump EXCEPT ![s] = Settled(pump[s])] /\ socket' = [socket EXCEPT ![s] = Shut(@)]
          /\ UNCHANGED received
      BY <1>6, <2>2, <2>3 DEF ChunkArrives, Settles
    <3>2. PICK k \in {"destroyed", "closed"} : socket' = [socket EXCEPT ![s] = k]
      BY <1>2, <3>1, ShutIs
    <3>3. Peer(s) \in Sides /\ Peer(s) # s /\ wire[Peer(s)] \in Seq(Nat) /\ Tail(wire[Peer(s)]) \in Seq(Nat)
      BY <1>3, <2>1, TwoSides, Removed
    <3>4. wire' \in [Sides -> Seq(Nat)] /\ wire'[s] = wire[s]
      BY <1>3, <2>1, <3>3
    <3>5. pump[Peer(s)].on
      BY <2>1, <3>3, OffIs, Both
    <3> QED BY <1>1, <1>2, <3>1, <3>2, <3>4, <3>5, SettlesStep
  <2>4. CASE ~pump[s].ended
    <3>1. PICK m \in {"next", "drain"} : pump' = [pump EXCEPT ![s].reading = m]
      BY <1>6, <2>2, <2>4 DEF ChunkArrives
    <3>2. received' = [received EXCEPT ![s] = Append(@, Head(wire[Peer(s)]))] /\ UNCHANGED socket
      BY <1>6, <2>2, <2>4 DEF ChunkArrives
    <3> QED BY <1>1, <1>2, <2>1, <2>2, <3>1, <3>2, ReadingStep
  <2> QED BY <2>3, <2>4
<1> QED BY <1>4, <1>5, <1>6 DEF Receive

LEMMA DrainStep == ASSUME TunnelInv, NEW s \in Sides, Drain(s) PROVE TunnelInv'
<1>1. /\ pump[s].reading = "drain" /\ socket[s] = "open" /\ pump' = [pump EXCEPT ![s].reading = "next"]
      /\ UNCHANGED <<attached, over, biStream, socket, app, wire, received>>
  BY DEF Drain, CanDrain
<1>2. "next" \in {"next", "drain"}
  OBVIOUS
<1> QED BY <1>1, <1>2, ReadingStep

LEMMA TunnelStep == ASSUME TunnelInv, [TunnelNext]_tunnelVars PROVE TunnelInv'
<1>1. CASE UNCHANGED tunnelVars
  <2>1. UNCHANGED <<attached, over, biStream, socket, app, pump, wire, received>>
    BY <1>1 DEF tunnelVars
  <2> QED BY <2>1 DEF TunnelInv, TunnelTypes, StagesFit, PumpFits, LineFits, Carried
<1>2. ASSUME NEW s \in Sides,
             Writes(s) \/ SpeaksLast(s) \/ Breaks(s) \/ Data(s) \/ End(s) \/ Close(s) \/ Send(s) \/ Receive(s) \/ Drain(s)
      PROVE  TunnelInv'
  BY <1>2, WritesStep, SaysEndStep, BreaksStep, DataStep, EndStep, CloseStep, SendStep, ReceiveStep,
     DrainStep
<1> QED BY <1>1, <1>2, ConnectsStep, OpensStep, AcceptsStep, LinkEndsStep, DialsInStep, ClientGoneStep,
           ConnectionEndsStep DEF TunnelNext

LEMMA TunnelStarts == ASSUME TunnelAssumption, TunnelInit PROVE TunnelInv
<1>1. ASSUME NEW s \in Sides
      PROVE  /\ socket[s] = "none" /\ pump[s] = NoPump /\ wire[s] = <<>> /\ received[s] = <<>>
             /\ app[s].wrote = 0 /\ app[s].taken = 0 /\ app[s].ended = FALSE
  BY DEF TunnelInit
<1>2. TunnelTypes
  BY PumpsBegin DEF TunnelInit, TunnelTypes, Second, StreamStages, Sockets
<1>3. StagesFit
  BY <1>1, SidesAre, PumpsBegin DEF TunnelInit, StagesFit
<1>4. ASSUME NEW s \in Sides PROVE PumpFits(s) /\ LineFits(s)
  <2>1. /\ ~pump[s].on /\ ~pump[s].recvDone /\ ~pump[s].sendDone /\ ~pump[s].socketEnded /\ ~pump[s].settled
        /\ ~pump[s].ended /\ ~pump[s].stopped /\ pump[s].chain = <<>>
    BY <1>1, PumpsBegin
  <2>2. PumpFits(s)
    BY <1>1, <2>1 DEF PumpFits
  <2>3. Peer(s) \in Sides /\ received[Peer(s)] = <<>> /\ ~pump[Peer(s)].socketEnded
    BY <1>1, TwoSides, PumpsBegin
  <2>4. Heard(0, <<>>, <<>>, 0, FALSE, Carried)
    <3>1. Len(<<>>) = 0 /\ ~FinIn(<<>>) /\ Runs(<<>>, 0)
      BY NoneIn
    <3> DEFINE z == <<>>
    <3>2. Len(z) = 0 /\ ~FinIn(z) /\ Runs(z, 0) /\ 0 + 0 = 0
      BY <3>1
    <3> HIDE DEF z
    <3>3. Heard(0, z, z, 0, FALSE, Carried)
      BY <3>2 DEF Heard
    <3> QED BY <3>3 DEF z
  <2>5. LineFits(s)
    <3>1. Len(received[Peer(s)]) = 0 /\ wire[s] = <<>> /\ pump[s].chain = <<>> /\ app[s].taken = 0 /\ pump[s].sendDone = FALSE
      <4>1. pump[s].sendDone = FALSE
        <5>1. pump[s] \in Pumps
          BY <1>1, PumpsBegin
        <5> QED BY <2>1, <5>1 DEF Pumps
      <4> QED BY <1>1, <2>1, <2>3, <4>1
    <3>2. Heard(Len(received[Peer(s)]), wire[s], pump[s].chain, app[s].taken, pump[s].sendDone, Carried)
          <=> Heard(0, <<>>, <<>>, 0, FALSE, Carried)
      BY <3>1, Zenon
    <3>3. /\ Len(received[Peer(s)]) <= app[s].taken /\ app[s].taken <= app[s].wrote
          /\ \A i \in 1..Len(received[Peer(s)]) : received[Peer(s)][i] = i
      <4>1. app[s].wrote = 0
        BY <1>1
      <4> QED BY <3>1, <4>1
    <3> QED BY <2>3, <2>4, <3>2, <3>3 DEF LineFits
  <2> QED BY <2>2, <2>5
<1> QED BY <1>2, <1>3, <1>4 DEF TunnelInv

-----------------------------------------------------------------------------
(* What the invariant says of the properties *)

LEMMA Relays ==
    ASSUME NEW q \in Seq(Nat), NEW n \in Nat, Len(q) <= n, \A i \in 1..Len(q) : q[i] = i
    PROVE  IsPrefix(q, All(n)) /\ (Len(q) = n => q = All(n))
<1> DEFINE a == All(n)
<1>1. a \in Seq(Nat) /\ Len(a) = n /\ Len(q) \in Nat
  BY DEF All
<1>2. \A i \in 1..n : a[i] = i
  BY DEF All
<1> HIDE DEF a
<1>3. SubSeq(q, 1, Len(q)) = SubSeq(a, 1, Len(q))
  <2> DEFINE u == SubSeq(q, 1, Len(q))
             v == SubSeq(a, 1, Len(q))
  <2>1. u \in Seq(Nat) /\ Len(u) = Len(q) /\ \A i \in 1..Len(q) : u[i] = q[i]
    BY <1>1
  <2>2. v \in Seq(Nat) /\ Len(v) = Len(q) /\ \A i \in 1..Len(q) : v[i] = a[i]
    BY <1>1
  <2> HIDE DEF u, v
  <2>3. ASSUME NEW i \in 1..Len(q) PROVE u[i] = v[i]
    BY <1>1, <1>2, <2>1, <2>2
  <2>4. u = v
    BY <2>1, <2>2, <2>3, SeqEqual
  <2> QED BY <2>4 DEF u, v
<1>4. ASSUME Len(q) = n PROVE q = a
  BY <1>1, <1>2, <1>4, SeqEqual
<1> QED BY <1>1, <1>3, <1>4 DEF IsPrefix, a

LEMMA TunnelRelays == ASSUME TunnelInv PROVE Relayed
<1> SUFFICES ASSUME NEW s \in Sides
             PROVE  /\ IsPrefix(received[s], All(app[Peer(s)].wrote))
                    /\ pump[s].socketEnded => IF pump[Peer(s)].ended THEN received[s] = All(app[Peer(s)].wrote)
                                              ELSE pump[Peer(s)].settled
  BY DEF Relayed
<1>1. Peer(s) \in Sides /\ Peer(Peer(s)) = s
  BY TwoSides
<1>2. /\ LineFits(Peer(s)) /\ received[s] \in Seq(Nat)
      /\ app[Peer(s)] \in [wrote : Nat, taken : Nat, ended : BOOLEAN]
  BY <1>1, Both
<1>3. /\ Len(received[s]) <= app[Peer(s)].wrote /\ app[Peer(s)].wrote \in Nat
      /\ \A i \in 1..Len(received[s]) : received[s][i] = i
  <2>1. /\ Len(received[s]) <= app[Peer(s)].taken /\ app[Peer(s)].taken <= app[Peer(s)].wrote
        /\ \A i \in 1..Len(received[s]) : received[s][i] = i
    BY <1>1, <1>2 DEF LineFits
  <2>2. Len(received[s]) \in Nat /\ app[Peer(s)].taken \in Nat /\ app[Peer(s)].wrote \in Nat
    BY <1>2
  <2> QED BY <2>1, <2>2
<1>4. /\ IsPrefix(received[s], All(app[Peer(s)].wrote))
      /\ Len(received[s]) = app[Peer(s)].wrote => received[s] = All(app[Peer(s)].wrote)
  BY <1>2, <1>3, Relays
<1>5. pump[s].socketEnded => /\ pump[Peer(s)].ended => Len(received[s]) = app[Peer(s)].wrote
                             /\ pump[Peer(s)].ended \/ pump[Peer(s)].settled
  BY <1>1, <1>2 DEF LineFits
<1> QED BY <1>4, <1>5

(* What is under way when nothing is left for the pumps to do: nothing.      *)
LEMMA RestIs ==
    ASSUME TunnelInv, AtRest, Carried, NEW s \in Sides, socket[s] = "open", pump[s].on, ~pump[s].recvDone
    PROVE  ~pump[Peer(s)].sendDone /\ Len(received[s]) = app[Peer(s)].taken
<1> DEFINE q == Peer(s)
<1>1. q \in Sides /\ Peer(q) = s
  BY TwoSides
<1>2. /\ PumpFits(s) /\ LineFits(q) /\ pump[s] \in Pumps /\ received[s] \in Seq(Nat)
      /\ app[q] \in [wrote : Nat, taken : Nat, ended : BOOLEAN]
  BY <1>1, Both
<1>3. pump[s].reading = "next"
  <2>1. pump[s].reading \in Readings /\ pump[s].reading # "done"
    BY <1>2 DEF Pumps, PumpFits
  <2>2. pump[s].reading # "drain"
    BY DEF AtRest, CanDrain
  <2> QED BY <2>1, <2>2 DEF Readings
<1>4. wire[q] = <<>> /\ pump[q].chain = <<>>
  BY <1>1, <1>3 DEF AtRest, CanReceive
<1> DEFINE z == <<>>
           r == Len(received[s])
           t == app[q].taken
           e == pump[q].sendDone
<1>5. Heard(r, z, z, t, e, Carried)
  <2>1. Heard(r, wire[q], pump[q].chain, t, e, Carried)
    BY <1>1, <1>2 DEF LineFits
  <2> QED BY <1>4, <2>1, Zenon
<1>6. ~FinIn(z) /\ Len(z) = 0
  BY NoneIn
<1>7. r \in Nat /\ t \in Nat
  BY <1>2
<1> HIDE DEF z, r, t, e
<1>8. ~e
  BY <1>5, <1>6 DEF Heard
<1>9. r = t
  BY <1>5, <1>6, <1>7, <1>8 DEF Heard
<1> QED BY <1>8, <1>9 DEF e, r, t

LEMMA TunnelTellsEnds == ASSUME TunnelInv PROVE GoneIsTold
<1> SUFFICES ASSUME AtRest, biStream.stage = "accepted", Carried, NEW s \in Sides, socket[s] = "open"
             PROVE  IF socket[Peer(s)] = "open" THEN received[s] = All(app[Peer(s)].wrote)
                    ELSE pump[s].socketEnded /\ pump[Peer(s)].stopped
  BY DEF GoneIsTold
<1> DEFINE q == Peer(s)
<1>1. q \in Sides /\ Peer(q) = s
  BY TwoSides
<1>2. /\ PumpFits(s) /\ LineFits(s) /\ PumpFits(q) /\ LineFits(q) /\ StagesFit
      /\ received[s] \in Seq(Nat) /\ app[q] \in [wrote : Nat, taken : Nat, ended : BOOLEAN]
  BY <1>1, Both
<1>3. pump[s].on /\ pump[q].on
  <2>1. pump["near"].on /\ pump["far"].on
    BY <1>2 DEF StagesFit
  <2> QED BY <1>1, <2>1 DEF Sides
<1>4. ~pump[s].ended
  BY DEF AtRest, CanClose
<1>5. ASSUME socket[q] = "open" PROVE received[s] = All(app[q].wrote)
  <2>1. ~pump[q].ended
    BY <1>1, <1>5 DEF AtRest, CanClose
  <2>2. ~pump[s].recvDone
    <3>1. SUFFICES ASSUME pump[s].recvDone PROVE FALSE
      OBVIOUS
    <3>2. pump[s].socketEnded
      BY <1>2, <3>1 DEF PumpFits
    <3>3. pump[q].settled
      BY <1>1, <1>2, <2>1, <3>2 DEF LineFits
    <3> QED BY <1>2, <1>5, <3>3 DEF PumpFits
  <2>3. Len(received[s]) = app[q].taken
    BY <1>3, <2>2, RestIs
  <2>4. app[q].taken = app[q].wrote
    <3>1. ~(app[q].taken < app[q].wrote)
      BY <1>1, <1>3, <1>5 DEF AtRest, CanTake
    <3>2. app[q].taken <= app[q].wrote /\ app[q].taken \in Nat /\ app[q].wrote \in Nat
      BY <1>2 DEF LineFits
    <3> QED BY <3>1, <3>2
  <2>5. \A i \in 1..Len(received[s]) : received[s][i] = i
    BY <1>1, <1>2 DEF LineFits
  <2>6. app[q].wrote \in Nat /\ Len(received[s]) = app[q].wrote /\ Len(received[s]) <= app[q].wrote
    <3>1. app[q].wrote \in Nat
      BY <1>2
    <3> QED BY <2>3, <2>4, <3>1
  <2> QED BY <1>2, <2>5, <2>6, Relays
<1>6. ASSUME socket[q] # "open" PROVE pump[s].socketEnded /\ pump[q].stopped
  <2>1. pump[q].settled /\ pump[q].sendDone /\ pump[q].recvDone
    BY <1>2, <1>3, <1>6 DEF PumpFits
  <2>2. pump[q].stopped
    <3>1. SUFFICES ASSUME ~pump[q].stopped PROVE FALSE
      OBVIOUS
    <3>2. pump[s].sendDone
      BY <1>1, <1>2, <2>1, <3>1 DEF PumpFits
    <3> QED BY <1>2, <1>4, <3>2 DEF PumpFits
  <2>3. pump[s].recvDone
    BY <1>3, <2>1, RestIs
  <2> QED BY <1>2, <2>2, <2>3 DEF PumpFits
<1> QED BY <1>5, <1>6

LEMMA TunnelCutsOff == ASSUME TunnelInv PROVE SwapCutsOff
<1>1. socket["near"] = "open" => biStream.conn = attached
  BY NearIs
<1>2. ASSUME AtRest, NEW s \in Sides, pump[s].on, socket[s] # "open" PROVE pump[s].settled
  <2>1. SUFFICES ASSUME ~pump[s].settled PROVE FALSE
    OBVIOUS
  <2>2. PumpFits(s) /\ socket[s] \in Sockets
    BY Both
  <2>3. ~Carried /\ socket[s] # "none"
    BY <1>2, <2>1, <2>2 DEF PumpFits
  <2>4. socket[s] # "destroyed"
    BY <1>2 DEF AtRest, CanClose
  <2>5. socket[s] = "closed"
    BY <1>2, <2>2, <2>3, <2>4 DEF Sockets
  <2>6. pump[s].reading = "next"
    BY <1>2, <2>1, <2>2, <2>5 DEF PumpFits
  <2> QED BY <1>2, <2>3, <2>6 DEF AtRest, CanReceive
<1> QED BY <1>1, <1>2 DEF SwapCutsOff

LEMMA TunnelTyped == ASSUME TunnelInv PROVE TunnelTypeOK
<1>1. ASSUME NEW s \in Sides
      PROVE  /\ socket[s] \in {"none", "open", "destroyed", "closed"}
             /\ pump[s].reading \in {"next", "drain", "done"} /\ app[s].taken <= app[s].wrote
  BY Both DEF Pumps, Sockets, Readings, LineFits
<1> QED BY <1>1, NearIs DEF TunnelTypeOK, StreamStages

-----------------------------------------------------------------------------
(* For whatever the two applications write, the tunnel has no state its type *)
(* does not allow.                                                           *)
THEOREM TunnelTypeCorrect == TunnelAssumption => (TunnelSpec => []TunnelTypeOK)
<1> SUFFICES ASSUME TunnelAssumption PROVE TunnelSpec => []TunnelTypeOK
  OBVIOUS
<1>1. TunnelInit => TunnelInv
  BY TunnelStarts
<1>2. TunnelInv /\ [TunnelNext]_tunnelVars => TunnelInv'
  BY TunnelStep
<1>3. TunnelInv => TunnelTypeOK
  BY TunnelTyped
<1> QED BY <1>1, <1>2, <1>3, PTL DEF TunnelSpec

(* pipeBiStreamToSocket and startConnectionTunnel of iroh-transport: each    *)
(* application gets what the other wrote, in order and whole before its end, *)
(* whoever goes first is told to the other, and neither a socket nor a pump  *)
(* outlives the connection under it.                                         *)
THEOREM TunnelAlwaysHolds == TunnelAssumption => (TunnelSpec => []TunnelHolds)
<1> SUFFICES ASSUME TunnelAssumption PROVE TunnelSpec => []TunnelHolds
  OBVIOUS
<1>1. TunnelInit => TunnelInv
  BY TunnelStarts
<1>2. TunnelInv /\ [TunnelNext]_tunnelVars => TunnelInv'
  BY TunnelStep
<1>3. TunnelInv => TunnelHolds
  BY TunnelRelays, TunnelTellsEnds, TunnelCutsOff DEF TunnelHolds
<1> QED BY <1>1, <1>2, <1>3, PTL DEF TunnelSpec

-----------------------------------------------------------------------------
(* ProcessJobs                                                               *)


Final == {"exited", "terminated"}
Good == {"completed", "cancelled"}

RowFits ==
    /\ jobRow.status = "running" => jobRow.session
    /\ jobRow.status = "cancelling" => jobRow.asked
    /\ jobTimer => jobRow.session
    /\ starter = "calls" => ~jobRow.session

(* Of a call on its way or at the host, or of its answer                     *)
OrderFits(c) ==
    /\ c.by = "poll" => jobRow.session
    /\ c.at = "host" => shell.status # "none"
    /\ c.says = "terminated" => c.asked
    /\ c.says \in Final => ~alive
OrdersFit == \A c \in orders : OrderFits(c)

Starting(c) == c.action = "start" /\ c.at = "sent"
StartOnce == \A c, d \in orders : Starting(c) /\ Starting(d) => c = d
StartFirst ==
    \A c \in orders : Starting(c) =>
      /\ shell.status = "none" /\ ~alive /\ jobRow.status \notin Good
      /\ \A d \in orders : d.says \notin Final

ShellFits ==
    /\ shell.held => shell.status # "none"
    /\ shell.status = "terminated" => shell.asked
    /\ shell.status \in Final => ~alive

Fresh == jobRow.status = "none" => ~jobRow.session /\ orders = {} /\ shell.status = "none" /\ ~alive

JobsInv == /\ JobsTypeOK /\ RowFits /\ OrdersFit /\ StartOnce /\ StartFirst /\ ShellFits /\ Fresh
        /\ JobWatched /\ EndsAreTruthful

-----------------------------------------------------------------------------
LEMMA JobsStart ==
    ASSUME JobsAssumption, JobsInit
    PROVE  JobsInv
<1>1. JobsTypeOK
  <2>1. jobRow \in Job  BY DEF JobsInit, Job
  <2>2. shell \in Shell  BY DEF JobsInit, NoShell, Shell
  <2>3. 0 \in 0..MaxFaults  BY DEF JobsAssumption
  <2> QED  BY <2>1, <2>2, <2>3 DEF JobsInit, JobsTypeOK
<1>2. RowFits /\ ShellFits /\ Fresh  BY DEF JobsInit, NoShell, RowFits, ShellFits, Fresh, Final
<1>3. OrdersFit /\ StartOnce /\ StartFirst  BY DEF JobsInit, OrdersFit, StartOnce, StartFirst
<1>4. JobWatched /\ EndsAreTruthful  BY DEF JobsInit, JobWatched, EndsAreTruthful, Active, Ended
<1> QED  BY <1>1, <1>2, <1>3, <1>4 DEF JobsInv

LEMMA TerminalIsEnded ==
    ASSUME NEW c \in Call
    PROVE  /\ ShellTerminal(c) \in Ended
           /\ ShellTerminal(c) \in Good => c.says \in Final
           /\ ShellTerminal(c) = "cancelled" => c.says = "terminated"
BY DEF ShellTerminal, Ended, Good, Final

(* What a step of the agent makes of the row: it keeps the session, never   *)
(* undoes an end, and calls no end good that no call has told it of.        *)
RowMoves ==
    /\ jobRow' \in Job
    /\ jobRow.session => jobRow'.session
    /\ jobRow'.status = "none" => jobRow' = jobRow
    /\ jobRow'.status \in Good => jobRow.status \in Good \/ \E c \in orders : c.says \in Final
    /\ jobRow'.status = "cancelled" => jobRow'.asked
    /\ jobRow'.told => jobRow'.status \in Ended

LEMMA Invoked ==
    ASSUME NEW action \in {"start", "poll", "terminate"}, NEW by \in {"start", "poll"}
    PROVE  LET c == Invocation(action, by) IN
           /\ c \in Call /\ c.action = action /\ c.by = by /\ c.at = "sent" /\ c.says = "nothing"
BY DEF Invocation, Call

(* Such a step may take answers off the wire and put polls on it.           *)
LEMMA AgentMoves ==
    ASSUME JobsInv, RowMoves, UNCHANGED hostVars, faults' \in 0..MaxFaults,
           runtime' \in {"up", "stopping", "null", "down"}, jobTimer' \in BOOLEAN,
           inflight' \in {"no", "poll", "terminate"}, ending' \in {"no", "waits", "polls"},
           starter' \in {"no", "calls"}, RowFits', JobWatched',
           jobRow'.status \in Ended /\ runtime' = "up" => jobRow'.told,
           orders' \subseteq orders \cup {Invocation("poll", "poll"), Invocation("terminate", "poll")},
           orders' \subseteq orders \/ (jobRow'.session /\ jobRow'.status # "none")
    PROVE  JobsInv'
<1> DEFINE polls == {Invocation("poll", "poll"), Invocation("terminate", "poll")}
<1>1. \A c \in polls : /\ c \in Call /\ c.at = "sent" /\ c.action # "start" /\ c.says = "nothing"
                       /\ ~Starting(c)
  BY Invoked DEF Starting
<1>2. \A c \in orders' : c \in orders \/ (c \in polls /\ jobRow'.session)  OBVIOUS
<1>3. UNCHANGED <<shell, alive>>  BY DEF hostVars
<1> HIDE DEF polls
<1>4. JobsTypeOK'  BY <1>1, <1>2, <1>3 DEF JobsInv, JobsTypeOK, RowMoves
<1>5. OrdersFit'
  <2>1. SUFFICES ASSUME NEW c \in orders'  PROVE OrderFits(c)'  BY DEF OrdersFit
  <2>2. CASE c \in orders  BY <1>3, <2>2 DEF JobsInv, OrdersFit, OrderFits, RowMoves
  <2>3. CASE c \in polls /\ jobRow'.session  BY <1>1, <2>3 DEF OrderFits, Final
  <2> QED  BY <1>2, <2>2, <2>3
<1>6. StartOnce'  BY <1>1, <1>2 DEF JobsInv, StartOnce, Starting
<1>7. StartFirst'
  <2>1. SUFFICES ASSUME NEW c \in orders', Starting(c)
                 PROVE  /\ shell'.status = "none" /\ ~alive' /\ jobRow'.status \notin Good
                        /\ \A d \in orders' : d.says \notin Final
    BY DEF StartFirst, Starting
  <2>2. c \in orders  BY <1>1, <1>2, <2>1
  <2>3. /\ shell.status = "none" /\ ~alive /\ jobRow.status \notin Good
        /\ \A d \in orders : d.says \notin Final
    BY <2>1, <2>2 DEF JobsInv, StartFirst
  <2> QED  BY <1>1, <1>2, <1>3, <2>3 DEF RowMoves, Final
<1>8. ShellFits'  BY <1>3 DEF JobsInv, ShellFits
<1>9. Fresh'
  <2>1. SUFFICES ASSUME jobRow'.status = "none"
                 PROVE  ~jobRow'.session /\ orders' = {} /\ shell'.status = "none" /\ ~alive'
    BY DEF Fresh
  <2>2. jobRow' = jobRow  BY <2>1 DEF RowMoves
  <2> QED  BY <1>3, <2>1, <2>2 DEF JobsInv, Fresh
<1>10. jobRow'.status \in Good => ~alive'
  <2>1. (\E c \in orders : c.says \in Final) => ~alive  BY DEF JobsInv, OrdersFit, OrderFits
  <2> QED  BY <1>3, <2>1 DEF JobsInv, EndsAreTruthful, RowMoves, Good
<1>11. EndsAreTruthful'  BY <1>10 DEF RowMoves, EndsAreTruthful, Good
<1> QED  BY <1>4, <1>5, <1>6, <1>7, <1>8, <1>9, <1>11 DEF JobsInv

(* A step of the transport: an answer may be replaced by an error, a call   *)
(* be left without a caller, and either be lost.                            *)
LEMMA Rewired ==
    ASSUME JobsInv, UNCHANGED <<agentVars, hostVars>>, faults' \in 0..MaxFaults, NEW c \in orders,
           orders' \subseteq Call,
           \A d \in orders' \ (orders \ {c}) :
              /\ Starting(d) => Starting(c) /\ d = [c EXCEPT !.by = "nobody"]
              /\ d.by = "poll" => c.by = "poll"
              /\ d.at = "host" => c.at = "host"
              /\ d.says \in Final => d.says = c.says /\ d.asked = c.asked
    PROVE  JobsInv'
<1>1. UNCHANGED <<jobRow, runtime, jobTimer, inflight, ending, starter, shell, alive>>
  BY DEF agentVars, hostVars
<1>2. JobsTypeOK' /\ RowFits' /\ ShellFits' /\ JobWatched' /\ EndsAreTruthful'
  BY <1>1 DEF JobsInv, JobsTypeOK, RowFits, ShellFits, JobWatched, EndsAreTruthful
<1>3. OrdersFit'
  <2>1. SUFFICES ASSUME NEW d \in orders'  PROVE OrderFits(d)'  BY DEF OrdersFit
  <2>2. OrderFits(c)  BY DEF JobsInv, OrdersFit
  <2>3. CASE d \in orders  BY <1>1, <2>3 DEF JobsInv, OrdersFit, OrderFits
  <2>4. CASE d \notin orders  BY <1>1, <2>2, <2>4 DEF OrderFits, Final
  <2> QED  BY <2>3, <2>4
<1>4. StartOnce'
  <2>1. SUFFICES ASSUME NEW d \in orders', NEW e \in orders', Starting(d), Starting(e)  PROVE d = e
    BY DEF StartOnce, Starting
  <2>2. \A x \in orders' : Starting(x) =>
          (x \in orders /\ x # c) \/ (Starting(c) /\ x = [c EXCEPT !.by = "nobody"])
    OBVIOUS
  <2> QED  BY <2>1, <2>2 DEF JobsInv, StartOnce
<1>5. StartFirst'
  <2>1. \A x \in orders' : Starting(x) => \E y \in orders : Starting(y)  OBVIOUS
  <2>2. \A x \in orders' : x.says \in Final => \E y \in orders : y.says \in Final  OBVIOUS
  <2> QED  BY <1>1, <2>1, <2>2 DEF JobsInv, StartFirst, Starting
<1>6. Fresh'  BY <1>1 DEF JobsInv, Fresh
<1> QED  BY <1>2, <1>3, <1>4, <1>5, <1>6 DEF JobsInv

-----------------------------------------------------------------------------
(* The agent                                                                 *)

LEMMA StartStep ==
    ASSUME JobsInv, StartProcessJob, faults' = faults
    PROVE  JobsInv'
<1> DEFINE start == Invocation("start", "start")
<1>1. /\ start \in Call /\ start.by = "start" /\ start.at = "sent" /\ start.says = "nothing"
  BY Invoked
<1>2. jobRow \in Job /\ jobRow.status = "none" /\ ~jobRow.session /\ ~jobRow.told /\ orders = {}
      /\ shell.status = "none" /\ ~alive /\ ~jobTimer
  BY DEF StartProcessJob, JobsInv, JobsTypeOK, Fresh, EndsAreTruthful, Ended, RowFits
<1>3. /\ orders' = {start} /\ jobRow' = [jobRow EXCEPT !.status = "starting"] /\ starter' = "calls"
      /\ UNCHANGED <<runtime, jobTimer, inflight, ending, shell, alive, faults>>
  BY <1>2 DEF StartProcessJob, hostVars
<1> HIDE DEF start
<1>4. jobRow' \in Job /\ jobRow'.status = "starting" /\ jobRow'.session = jobRow.session /\ jobRow'.told = jobRow.told
      /\ jobRow'.asked = jobRow.asked
  BY <1>2, <1>3 DEF Job, Active
<1>5. JobsTypeOK'  BY <1>1, <1>3, <1>4 DEF JobsInv, JobsTypeOK
<1>6. RowFits' /\ ShellFits' /\ Fresh'
  BY <1>2, <1>3, <1>4 DEF JobsInv, RowFits, ShellFits, Fresh
<1>7. OrdersFit' /\ StartOnce' /\ StartFirst'
  BY <1>1, <1>2, <1>3, <1>4 DEF OrdersFit, OrderFits, StartOnce, StartFirst, Final, Good
<1>8. JobWatched' /\ EndsAreTruthful'
  BY <1>2, <1>3, <1>4 DEF JobWatched, EndsAreTruthful, Ended
<1> QED  BY <1>5, <1>6, <1>7, <1>8 DEF JobsInv

LEMMA Terminates ==
    ASSUME JobsInv, NEW r, NEW rest \in SUBSET orders, PollOneTerminate(r, rest)
    PROVE  /\ inflight' \in {"no", "poll", "terminate"} /\ ending' \in {"no", "waits", "polls"}
           /\ orders' \subseteq orders \cup {Invocation("poll", "poll"), Invocation("terminate", "poll")}
           /\ orders' \subseteq orders \/ (r.session /\ r.status \in Active)
BY DEF PollOneTerminate, JobsInv, JobsTypeOK

LEMMA TimerStep ==
    ASSUME JobsInv, TimerFires, faults' = faults
    PROVE  JobsInv'
<1>1. /\ jobRow \in Job /\ jobRow' = jobRow /\ jobTimer /\ jobRow.session /\ jobTimer' = FALSE
      /\ UNCHANGED <<runtime, ending, starter, hostVars>>
  BY DEF TimerFires, JobsInv, JobsTypeOK, RowFits
<1>2. RowMoves  BY <1>1 DEF JobsInv, EndsAreTruthful, RowMoves
<1>3. RowFits'  BY <1>1 DEF JobsInv, RowFits
<1>4. JobWatched'  BY <1>1 DEF TimerFires, JobsInv, JobWatched, IsSet
<1>5. /\ orders' \subseteq orders \cup {Invocation("poll", "poll"), Invocation("terminate", "poll")}
      /\ orders' \subseteq orders \/ jobRow.status \in Active
      /\ inflight' \in {"no", "poll", "terminate"}
  BY DEF TimerFires, JobsInv, JobsTypeOK
<1>6. jobRow'.status \in Ended /\ runtime' = "up" => jobRow'.told  BY <1>1 DEF JobsInv, EndsAreTruthful
<1>7. /\ runtime' \in {"up", "stopping", "null", "down"} /\ ending' \in {"no", "waits", "polls"}
      /\ starter' \in {"no", "calls"} /\ faults' \in 0..MaxFaults /\ jobTimer' \in BOOLEAN
  BY <1>1 DEF JobsInv, JobsTypeOK
<1> QED  BY <1>1, <1>2, <1>3, <1>4, <1>5, <1>6, <1>7, AgentMoves DEF Active

(* A job that is asked to end, by the agent or by a shutdown                 *)
LEMMA CancelStep ==
    ASSUME JobsInv, jobRow.status \in Active, jobRow' = Cancelled, PollOneTerminate(jobRow', orders),
           runtime' \in {"up", "stopping"}, jobTimer' = jobTimer \/ jobTimer' = FALSE,
           UNCHANGED <<starter, hostVars, faults>>
    PROVE  JobsInv'
<1>1. /\ jobRow \in Job /\ jobRow' \in Job /\ jobRow'.status = "cancelling" /\ jobRow'.asked
      /\ jobRow'.session = jobRow.session /\ jobRow'.told = jobRow.told
  BY DEF JobsInv, JobsTypeOK, Cancelled, Job, Active
<1>2. ~jobRow.told  BY DEF JobsInv, EndsAreTruthful, Active, Ended
<1>3. RowMoves  BY <1>1, <1>2 DEF RowMoves, Good
<1>4. RowFits' /\ JobWatched'  BY <1>1 DEF JobsInv, RowFits, JobWatched
<1>5. /\ inflight' \in {"no", "poll", "terminate"} /\ ending' \in {"no", "waits", "polls"}
      /\ orders' \subseteq orders \cup {Invocation("poll", "poll"), Invocation("terminate", "poll")}
      /\ orders' \subseteq orders \/ jobRow'.session
  <2> DEFINE r == jobRow'
  <2>1. PollOneTerminate(r, orders)  OBVIOUS
  <2> HIDE DEF r
  <2>2. /\ inflight' \in {"no", "poll", "terminate"} /\ ending' \in {"no", "waits", "polls"}
        /\ orders' \subseteq orders \cup {Invocation("poll", "poll"), Invocation("terminate", "poll")}
        /\ orders' \subseteq orders \/ r.session
    BY <2>1, Terminates
  <2> QED  BY <2>2 DEF r
<1>6. jobRow'.status \notin Ended  BY <1>1 DEF Ended
<1>7. /\ starter' \in {"no", "calls"} /\ faults' \in 0..MaxFaults /\ jobTimer' \in BOOLEAN
  BY DEF JobsInv, JobsTypeOK
<1> QED  BY <1>1, <1>3, <1>4, <1>5, <1>6, <1>7, AgentMoves

LEMMA ShutdownStep ==
    ASSUME JobsInv, StopProcessJobs \/ CancelProcessJob, faults' = faults
    PROVE  JobsInv'
<1>1. CASE CancelProcessJob
  BY <1>1, CancelStep DEF CancelProcessJob, IsSet
<1>2. CASE StopProcessJobs
  <2>1. CASE jobRow.status \in Active
    BY <1>2, <2>1, CancelStep DEF StopProcessJobs
  <2>2. CASE jobRow.status \notin Active
    <3>1. UNCHANGED <<jobRow, inflight, ending, orders, starter, hostVars>>
          /\ jobTimer' = FALSE /\ runtime' = "stopping"
      BY <1>2, <2>2 DEF StopProcessJobs
    <3>2. RowMoves  BY <3>1 DEF JobsInv, JobsTypeOK, EndsAreTruthful, RowMoves
    <3>3. RowFits' /\ JobWatched'  BY <3>1 DEF JobsInv, RowFits, JobWatched
    <3>4. /\ inflight' \in {"no", "poll", "terminate"} /\ ending' \in {"no", "waits", "polls"}
          /\ starter' \in {"no", "calls"} /\ faults' \in 0..MaxFaults /\ jobTimer' \in BOOLEAN
      BY <3>1 DEF JobsInv, JobsTypeOK
    <3> QED  BY <3>1, <3>2, <3>3, <3>4, AgentMoves
  <2> QED  BY <2>1, <2>2
<1> QED  BY <1>1, <1>2

LEMMA StopEndsStep ==
    ASSUME JobsInv, StopEnds, faults' = faults
    PROVE  JobsInv'
<1>1. jobRow \in Job /\ runtime' = "null" /\ UNCHANGED <<jobTimer, inflight, ending, starter, orders, hostVars>>
  BY DEF StopEnds, JobsInv, JobsTypeOK
<1>2. \/ jobRow.status \notin Active /\ jobRow' = jobRow
      \/ /\ jobRow.status \in Active /\ jobRow' \in Job /\ jobRow'.status = "interrupted"
         /\ jobRow'.session = jobRow.session /\ jobRow'.told = jobRow.told
  BY <1>1 DEF StopEnds, Job, Ended
<1>3. jobRow.told => jobRow.status \in Ended  BY DEF JobsInv, EndsAreTruthful
<1>4. RowMoves
  BY <1>1, <1>2, <1>3 DEF RowMoves, JobsInv, EndsAreTruthful, Good, Ended
<1>5. RowFits' /\ JobWatched'  BY <1>1, <1>2 DEF JobsInv, RowFits, JobWatched
<1>6. /\ inflight' \in {"no", "poll", "terminate"} /\ ending' \in {"no", "waits", "polls"}
      /\ starter' \in {"no", "calls"} /\ faults' \in 0..MaxFaults /\ jobTimer' \in BOOLEAN
  BY <1>1 DEF JobsInv, JobsTypeOK
<1> QED  BY <1>1, <1>4, <1>5, <1>6, AgentMoves

LEMMA StartReturnsStep ==
    ASSUME JobsInv, NEW c \in orders, StartReturns(c), faults' = faults
    PROVE  JobsInv'
<1>1. /\ jobRow \in Job /\ c \in Call /\ jobRow.status # "none" /\ UNCHANGED <<runtime, hostVars>>
      /\ runtime \in {"up", "stopping", "null", "down"} /\ faults' \in 0..MaxFaults
      /\ (jobRow.told => jobRow.status \in Ended) /\ (jobRow.status \in Ended /\ runtime = "up" => jobRow.told)
      /\ (jobRow.status = "cancelled" => jobRow.asked) /\ starter' = "no" /\ jobRow.status \in Active \cup Ended
  BY DEF StartReturns, JobsInv, JobsTypeOK, Fresh, EndsAreTruthful, Job
<1>2. CASE c.says = "running"
  <2> DEFINE r == jobRow'
  <2>1. /\ r \in Job /\ r.session /\ r.told = jobRow.told /\ r.asked = (jobRow.asked \/ c.asked)
        /\ r.status = IF jobRow.status # "starting" THEN jobRow.status
                      ELSE IF jobRow.asked THEN "cancelling" ELSE "running"
    BY <1>1, <1>2 DEF StartReturns, Job, Call, Active
  <2>2. \/ /\ r.status \in Active /\ r.asked /\ PollOneTerminate(r, orders \ {c}) /\ UNCHANGED jobTimer
        \/ /\ r.status \in Active /\ ~r.asked /\ jobTimer' = (jobTimer \/ IsSet) /\ orders' = orders \ {c}
           /\ UNCHANGED <<inflight, ending>>
        \/ /\ r.status \notin Active /\ orders' = orders \ {c} /\ UNCHANGED <<jobTimer, inflight, ending>>
    BY <1>2, <2>1 DEF StartReturns, Schedule
  <2>3. RowMoves
    <3>1. r.status \in Ended => r.status = jobRow.status  BY <2>1 DEF Ended
    <3>2. r.status # "none"  BY <1>1, <2>1
    <3> QED  BY <1>1, <2>1, <3>1, <3>2 DEF RowMoves, Ended, Good
  <2>4. /\ inflight' \in {"no", "poll", "terminate"} /\ ending' \in {"no", "waits", "polls"}
        /\ orders' \subseteq orders \cup {Invocation("poll", "poll"), Invocation("terminate", "poll")}
    <3>1. CASE PollOneTerminate(r, orders \ {c})
      <4> HIDE DEF r
      <4> QED  BY <3>1, Terminates
    <3>2. CASE ~PollOneTerminate(r, orders \ {c})  BY <2>2, <3>2 DEF JobsInv, JobsTypeOK
    <3> QED  BY <3>1, <3>2
  <2>5. jobTimer' \in BOOLEAN  BY <2>2 DEF JobsInv, JobsTypeOK, IsSet
  <2>6. RowFits'  BY <1>1, <2>1 DEF JobsInv, RowFits
  <2>7. JobWatched'  BY <1>1, <2>1, <2>2 DEF JobWatched, IsSet
  <2>8. r.status \in Ended /\ runtime' = "up" => r.told
    <3>1. r.status \in Ended => r.status = jobRow.status  BY <2>1 DEF Ended
    <3> QED  BY <1>1, <2>1, <3>1
  <2>9. r.status # "none"  BY <1>1, <2>1
  <2> QED  BY <1>1, <2>1, <2>3, <2>4, <2>5, <2>6, <2>7, <2>8, <2>9, AgentMoves
<1>3. CASE c.says \in {"exited", "terminated"} \/ c.says = "error"
  <2> DEFINE r == jobRow'
  <2>1. orders' = orders \ {c} /\ UNCHANGED <<jobTimer, inflight, ending>>
    BY <1>3 DEF StartReturns
  <2>2. /\ r \in Job /\ (jobRow.session => r.session)
        /\ \/ jobRow.status \notin Active /\ r.status = jobRow.status /\ r.told = jobRow.told
              /\ r.asked = jobRow.asked
           \/ /\ jobRow.status \in Active /\ r.status \in Ended /\ (r.told <=> jobRow.told \/ IsSet)
              /\ r.status \in Good => c.says \in Final
              /\ r.status = "cancelled" => r.asked
           \/ r = jobRow /\ jobRow.status # "starting"
    <3>1. CASE c.says \in {"exited", "terminated"}
      <4> DEFINE job == [jobRow EXCEPT !.session = TRUE]
      <4>1. /\ job \in Job /\ job.status = jobRow.status /\ job.session /\ job.told = jobRow.told
            /\ job.asked = jobRow.asked
        BY <1>1 DEF Job
      <4>2. r = Finalize(job, ShellTerminal(c), c.asked)  BY <3>1 DEF StartReturns
      <4>3. ShellTerminal(c) \in Ended /\ c.asked \in BOOLEAN  BY <1>1, TerminalIsEnded DEF Call
      <4>4. c.says = "terminated" => c.asked  BY DEF JobsInv, OrdersFit, OrderFits
      <4> HIDE DEF job, r
      <4>5. /\ r \in Job /\ r.session = job.session
            /\ job.status \notin Active => r = job
            /\ job.status \in Active =>
                 r.status = ShellTerminal(c) /\ r.asked = c.asked /\ (r.told <=> job.told \/ IsSet)
        BY <4>1, <4>2, <4>3 DEF Finalize, DispatchCompletion, Job, IsSet
      <4> QED  BY <1>1, <3>1, <4>1, <4>3, <4>4, <4>5, TerminalIsEnded DEF Final
    <3>2. CASE c.says = "error" /\ jobRow.status = "starting"
      <4>1. r = DispatchCompletion([jobRow EXCEPT !.status = "failed"])  BY <3>2 DEF StartReturns
      <4> QED  BY <1>1, <3>2, <4>1 DEF DispatchCompletion, Job, Ended, Active, Good, IsSet
    <3>3. CASE c.says = "error" /\ jobRow.status # "starting"
      BY <1>1, <3>3 DEF StartReturns
    <3> QED  BY <1>3, <3>1, <3>2, <3>3
  <2>3. RowMoves
    <3>1. r.status \in Good => jobRow.status \in Good \/ c.says \in Final  BY <2>2
    <3>2. r.status = "cancelled" => r.asked  BY <1>1, <2>2
    <3>3. r.told => r.status \in Ended  BY <1>1, <2>2
    <3>4. r.status # "none"  BY <1>1, <2>2 DEF Ended
    <3> QED  BY <2>2, <3>1, <3>2, <3>3, <3>4 DEF RowMoves
  <2>4. r.status \in Active => r = jobRow /\ jobRow.status # "starting"
    BY <2>2 DEF Active, Ended
  <2>5. RowFits'
    <3>1. r.status = "running" \/ r.status = "cancelling" => r = jobRow  BY <2>4 DEF Active
    <3> QED  BY <1>1, <2>1, <2>2, <3>1 DEF JobsInv, RowFits
  <2>6. JobWatched'
    <3>1. r.status \in Active /\ ~r.asked => r.session
      BY <2>4 DEF JobsInv, RowFits, Active
    <3> QED  BY <1>1, <2>1, <2>4, <3>1 DEF JobsInv, JobWatched
  <2>7. r.status \in Ended /\ runtime' = "up" => r.told  BY <1>1, <2>2 DEF IsSet
  <2> QED  BY <1>1, <2>1, <2>2, <2>3, <2>5, <2>6, <2>7, AgentMoves DEF JobsInv, JobsTypeOK
<1>4. c.says \in {"running", "exited", "terminated", "error"}  BY DEF StartReturns
<1> QED  BY <1>2, <1>3, <1>4

LEMMA PollReturnsStep ==
    ASSUME JobsInv, NEW c \in orders, PollReturns(c), faults' = faults
    PROVE  JobsInv'
<1> DEFINE r == jobRow'
           again == AfterPoll(c).again
<1>1. /\ jobRow \in Job /\ c \in Call /\ jobRow.status # "none" /\ UNCHANGED <<runtime, starter, hostVars>>
      /\ runtime \in {"up", "stopping", "null", "down"} /\ faults' \in 0..MaxFaults
      /\ (jobRow.told => jobRow.status \in Ended) /\ (jobRow.status \in Ended /\ runtime = "up" => jobRow.told)
      /\ (jobRow.status = "cancelled" => jobRow.asked) /\ jobRow.session /\ jobTimer' = (jobTimer \/ (again /\ IsSet))
      /\ c.says = "terminated" => c.asked
  BY DEF PollReturns, Schedule, JobsInv, JobsTypeOK, Fresh, EndsAreTruthful, OrdersFit, OrderFits
<1>2. r = AfterPoll(c).row  BY DEF PollReturns
<1>3. /\ r \in Job /\ r.session = jobRow.session
      /\ \/ r.status = jobRow.status /\ r.told = jobRow.told /\ (jobRow.asked => r.asked)
            /\ (jobRow.status \in Active /\ ~r.asked => again)
         \/ /\ jobRow.status \in Active /\ r.status \in Ended /\ (r.told <=> jobRow.told \/ IsSet)
            /\ r.status \in Good => c.says \in Final
            /\ r.status = "cancelled" => r.asked
  <2>1. CASE c.says \in {"unknown"} \cup Final \cup {"nothing"}
    <3> DEFINE status == IF c.says = "unknown" THEN "lost" ELSE ShellTerminal(c)
               asked == IF c.says = "unknown" THEN FALSE ELSE c.asked
    <3>1. r = Finalize(jobRow, status, asked)  BY <1>2, <2>1 DEF AfterPoll, Final
    <3>2. /\ status \in Ended /\ asked \in BOOLEAN
          /\ status \in Good => c.says \in Final
          /\ status = "cancelled" => asked
      BY <1>1, TerminalIsEnded DEF Call, Ended, Good
    <3> HIDE DEF status, asked, r, again
    <3>3. /\ r \in Job /\ r.session = jobRow.session
          /\ jobRow.status \notin Active => r = jobRow
          /\ jobRow.status \in Active =>
               r.status = status /\ r.asked = asked /\ (r.told <=> jobRow.told \/ IsSet)
      BY <1>1, <3>1, <3>2 DEF Finalize, DispatchCompletion, Job, IsSet
    <3> QED  BY <3>2, <3>3
  <2>2. CASE c.says = "error"  BY <1>1, <1>2, <2>2 DEF AfterPoll
  <2>3. CASE c.says = "running" /\ jobRow.status \notin Active  BY <1>1, <1>2, <2>3 DEF AfterPoll
  <2>4. CASE c.says = "running" /\ jobRow.status \in Active
    BY <1>1, <1>2, <2>4 DEF AfterPoll, Job, Call
  <2> QED  BY <1>1, <2>1, <2>2, <2>3, <2>4 DEF Call, Answers, Final
<1>4. /\ inflight' \in {"no", "poll", "terminate"} /\ ending' \in {"no", "waits", "polls"}
      /\ orders' \subseteq orders \cup {Invocation("poll", "poll"), Invocation("terminate", "poll")}
  BY DEF PollReturns
<1>5. jobTimer' \in BOOLEAN /\ starter' \in {"no", "calls"}  BY <1>1 DEF JobsInv, JobsTypeOK, IsSet
<1> HIDE DEF r, again
<1>6. r.status # "none"  BY <1>1, <1>3 DEF Ended
<1>7. RowMoves
  <2>1. r.status = "cancelled" => r.asked  BY <1>1, <1>3
  <2> QED  BY <1>1, <1>3, <1>6, <2>1 DEF RowMoves, r
<1>8. RowFits'
  <2>1. r.status = "cancelling" => r.asked  BY <1>3 DEF JobsInv, RowFits, Ended
  <2> QED  BY <1>1, <1>3, <2>1 DEF JobsInv, RowFits, r
<1>9. JobWatched'
  <2>1. r.status \in Active /\ ~r.asked => again  BY <1>3 DEF Active, Ended
  <2> QED  BY <1>1, <1>3, <2>1 DEF JobWatched, IsSet, r
<1>10. r.status \in Ended /\ runtime' = "up" => r.told  BY <1>1, <1>3 DEF IsSet
<1> QED  BY <1>1, <1>3, <1>4, <1>5, <1>6, <1>7, <1>8, <1>9, <1>10, AgentMoves DEF r

-----------------------------------------------------------------------------
(* The process ends, and another begins.                                     *)

LEMMA ExitStep ==
    ASSUME JobsInv, Exit, faults' \in 0..MaxFaults
    PROVE  JobsInv'
<1>1. /\ runtime' = "down" /\ jobTimer' = FALSE /\ inflight' = "no" /\ ending' = "no" /\ starter' = "no"
      /\ UNCHANGED <<jobRow, shell, alive>>
  BY DEF Exit, hostVars
<1>2. \A d \in orders' : \E c \in orders : d = [c EXCEPT !.by = "nobody"]  BY DEF Exit
<1>3. \A c \in Call : LET d == [c EXCEPT !.by = "nobody"] IN
        /\ d \in Call /\ d.by = "nobody" /\ d.at = c.at /\ d.says = c.says /\ d.asked = c.asked
        /\ Starting(d) <=> Starting(c)
  BY DEF Call, Starting
<1>4. orders \subseteq Call  BY DEF JobsInv, JobsTypeOK
<1>5. JobsTypeOK'  BY <1>1, <1>2, <1>3, <1>4 DEF JobsInv, JobsTypeOK
<1>6. RowFits' /\ ShellFits' /\ Fresh' /\ JobWatched' /\ EndsAreTruthful'
  <2>1. orders = {} => orders' = {}  BY <1>2
  <2> QED  BY <1>1, <2>1 DEF JobsInv, RowFits, ShellFits, Fresh, JobWatched, EndsAreTruthful
<1>7. OrdersFit'
  <2>1. SUFFICES ASSUME NEW d \in orders'  PROVE OrderFits(d)'  BY DEF OrdersFit
  <2>2. PICK c \in orders : d = [c EXCEPT !.by = "nobody"]  BY <1>2
  <2>3. OrderFits(c)  BY DEF JobsInv, OrdersFit
  <2> QED  BY <1>1, <1>3, <1>4, <2>2, <2>3 DEF OrderFits
<1>8. StartOnce'
  <2>1. SUFFICES ASSUME NEW d \in orders', NEW e \in orders', Starting(d), Starting(e)  PROVE d = e
    BY DEF StartOnce, Starting
  <2>2. PICK c \in orders : d = [c EXCEPT !.by = "nobody"]  BY <1>2
  <2>3. PICK b \in orders : e = [b EXCEPT !.by = "nobody"]  BY <1>2
  <2>4. c \in Call /\ b \in Call /\ Starting(c) /\ Starting(b)
    BY <1>3, <1>4, <2>1, <2>2, <2>3
  <2> QED  BY <2>2, <2>3, <2>4 DEF JobsInv, StartOnce
<1>9. StartFirst'
  <2>1. SUFFICES ASSUME NEW d \in orders', Starting(d)
                 PROVE  /\ shell'.status = "none" /\ ~alive' /\ jobRow'.status \notin Good
                        /\ \A e \in orders' : e.says \notin Final
    BY DEF StartFirst, Starting
  <2>2. PICK c \in orders : d = [c EXCEPT !.by = "nobody"]  BY <1>2
  <2>3. c \in Call /\ Starting(c)  BY <1>3, <1>4, <2>1, <2>2
  <2>4. /\ shell.status = "none" /\ ~alive /\ jobRow.status \notin Good
        /\ \A e \in orders : e.says \notin Final
    BY <2>3 DEF JobsInv, StartFirst
  <2>5. ASSUME NEW e \in orders'  PROVE e.says \notin Final
    <3>1. PICK x \in orders : e = [x EXCEPT !.by = "nobody"]  BY <1>2
    <3> QED  BY <1>3, <1>4, <2>4, <3>1
  <2> QED  BY <1>1, <2>4, <2>5
<1> QED  BY <1>5, <1>6, <1>7, <1>8, <1>9 DEF JobsInv

LEMMA BootStep ==
    ASSUME JobsInv, NEW adopted \in BOOLEAN, InitProcessJobs(adopted), faults' = faults
    PROVE  JobsInv'
<1> DEFINE resumes == adopted /\ jobRow.session
<1>1. /\ jobRow \in Job /\ runtime = "down" /\ runtime' = "up"
      /\ UNCHANGED <<inflight, ending, starter, orders, hostVars>>
      /\ inflight' \in {"no", "poll", "terminate"} /\ ending' \in {"no", "waits", "polls"}
      /\ starter' \in {"no", "calls"} /\ faults' \in 0..MaxFaults
  BY DEF InitProcessJobs, JobsInv, JobsTypeOK
<1>2. jobTimer' = (jobRow.status \in Active /\ resumes)  BY DEF InitProcessJobs
<1>3. \/ /\ jobRow.status = "none" /\ jobRow' = jobRow
      \/ /\ jobRow.status \in Active /\ resumes /\ jobRow' = jobRow
      \/ /\ jobRow.status \in Active /\ jobRow' = [jobRow EXCEPT !.status = "lost", !.told = TRUE]
      \/ /\ jobRow.status \in Ended /\ jobRow' = [jobRow EXCEPT !.told = TRUE]
  <2>1. jobRow.status \in {"none"} \cup Active \cup Ended  BY <1>1 DEF Job
  <2>2. CASE jobRow.status = "none"  BY <2>2 DEF InitProcessJobs, Active
  <2>3. CASE jobRow.status \in Active /\ resumes  BY <2>3 DEF InitProcessJobs, Active
  <2>4. CASE jobRow.status \in Active /\ ~resumes  BY <2>4 DEF InitProcessJobs, Active
  <2>5. CASE jobRow.status \in Ended  BY <2>5 DEF InitProcessJobs, Active, Ended
  <2> QED  BY <2>1, <2>2, <2>3, <2>4, <2>5
<1>4. /\ jobRow' \in Job /\ jobRow'.session = jobRow.session /\ jobRow'.asked = jobRow.asked
      /\ jobRow'.status = jobRow.status \/ jobRow'.status = "lost"
      /\ jobRow'.status = "none" => jobRow' = jobRow
      /\ jobRow'.told => jobRow'.status \in Ended
      /\ jobRow'.status \in Ended => jobRow'.told
      /\ jobRow'.status \in Active => resumes
  BY <1>1, <1>3 DEF Job, Active, Ended, JobsInv, EndsAreTruthful
<1>5. RowMoves  BY <1>4 DEF RowMoves, JobsInv, EndsAreTruthful, Good
<1>6. RowFits' /\ JobWatched'
  <2>1. jobTimer' => jobRow.session  BY <1>2
  <2>2. RowFits'  BY <1>1, <1>4, <2>1 DEF JobsInv, RowFits
  <2>3. jobRow'.status \in Active => jobRow'.session /\ jobTimer'  BY <1>2, <1>4 DEF Active
  <2> QED  BY <2>2, <2>3 DEF JobWatched
<1>7. jobTimer' \in BOOLEAN  BY <1>2
<1> QED  BY <1>1, <1>4, <1>5, <1>6, <1>7, AgentMoves

-----------------------------------------------------------------------------
(* The host and the transport                                                *)

LEMMA FailsStep ==
    ASSUME JobsInv, NEW c \in orders, CallFails(c), faults' \in 0..MaxFaults
    PROVE  JobsInv'
<1> DEFINE error == [c EXCEPT !.at = "back", !.says = "error", !.asked = FALSE, !.clean = FALSE]
           left == [c EXCEPT !.by = "nobody"]
<1>1. c \in Call /\ orders \subseteq Call  BY DEF JobsInv, JobsTypeOK
<1>2. /\ error \in Call /\ ~Starting(error) /\ error.by = c.by /\ error.at = "back"
      /\ error.says \notin Final /\ left \in Call /\ left.by = "nobody" /\ left.at = c.at
      /\ left.says = c.says /\ left.asked = c.asked /\ (Starting(left) => Starting(c))
  BY <1>1 DEF Call, Answers, Starting, Final
<1>3. orders' \subseteq (orders \ {c}) \cup {error, left} /\ UNCHANGED <<agentVars, hostVars>>
  BY DEF CallFails
<1>4. left = [c EXCEPT !.by = "nobody"]  OBVIOUS
<1> HIDE DEF error, left
<1>5. orders' \subseteq Call  BY <1>1, <1>2, <1>3
<1>6. \A d \in orders' \ (orders \ {c}) :
         /\ Starting(d) => Starting(c) /\ d = [c EXCEPT !.by = "nobody"]
         /\ d.by = "poll" => c.by = "poll"
         /\ d.at = "host" => c.at = "host"
         /\ d.says \in Final => d.says = c.says /\ d.asked = c.asked
  <2>1. TAKE d \in orders' \ (orders \ {c})
  <2>2. d = error \/ d = left  BY <1>3
  <2> QED  BY <1>2, <1>4, <2>2
<1> QED  BY <1>3, <1>5, <1>6, Rewired

LEMMA DroppedStep ==
    ASSUME JobsInv, NEW c \in orders, Dropped(c), faults' = faults
    PROVE  JobsInv'
<1>1. orders' = orders \ {c} /\ orders' \subseteq Call /\ UNCHANGED <<agentVars, hostVars>>
      /\ faults' \in 0..MaxFaults
  BY DEF Dropped, JobsInv, JobsTypeOK
<1> QED  BY <1>1, Rewired

(* A step of the host leaves the agent as it was.                            *)
LEMMA HostMoves ==
    ASSUME JobsInv, UNCHANGED agentVars, JobsTypeOK', OrdersFit', StartOnce', StartFirst', ShellFits',
           Fresh', jobRow.status \in Good => ~alive'
    PROVE  JobsInv'
<1>1. UNCHANGED <<jobRow, runtime, jobTimer, inflight, ending, starter>>  BY DEF agentVars
<1>2. RowFits' /\ JobWatched' /\ EndsAreTruthful'
  BY <1>1 DEF JobsInv, RowFits, JobWatched, EndsAreTruthful, Good
<1> QED  BY <1>2 DEF JobsInv

(* One that moves a single call, and starts nothing                          *)
LEMMA OrderMoves ==
    ASSUME JobsInv, UNCHANGED agentVars, faults' = faults, NEW c \in orders, NEW d \in Call,
           orders' = (orders \ {c}) \cup {d}, OrderFits(d)', ~Starting(d),
           d.says \in Final => shell.status # "none",
           shell' \in Shell, shell'.status = shell.status, ShellFits', UNCHANGED alive
    PROVE  JobsInv'
<1>1. /\ JobsTypeOK' /\ UNCHANGED jobRow /\ jobRow.status # "none"
      /\ jobRow.status \in Good => ~alive'
  BY DEF agentVars, JobsInv, JobsTypeOK, Fresh, EndsAreTruthful, Good
<1>2. OrdersFit'
  <2>1. SUFFICES ASSUME NEW e \in orders \ {c}  PROVE OrderFits(e)'  BY DEF OrdersFit
  <2> QED  BY <1>1 DEF JobsInv, OrdersFit, OrderFits
<1>3. StartOnce'  BY DEF JobsInv, StartOnce, Starting
<1>4. StartFirst'
  <2>1. SUFFICES ASSUME NEW e \in orders', Starting(e)
                 PROVE  /\ shell'.status = "none" /\ ~alive' /\ jobRow'.status \notin Good
                        /\ \A x \in orders' : x.says \notin Final
    BY DEF StartFirst, Starting
  <2>2. e \in orders  BY <2>1
  <2> QED  BY <1>1, <2>1, <2>2 DEF JobsInv, StartFirst
<1>5. Fresh'  BY <1>1 DEF Fresh
<1> QED  BY <1>1, <1>2, <1>3, <1>4, <1>5, HostMoves

LEMMA ArrivesStep ==
    ASSUME JobsInv, NEW c \in orders, Arrives(c), faults' = faults
    PROVE  JobsInv'
<1>1. /\ c \in Call /\ orders \subseteq Call /\ shell \in Shell /\ alive \in BOOLEAN /\ OrderFits(c)
      /\ c.at = "sent" /\ UNCHANGED agentVars /\ UNCHANGED jobRow /\ faults' \in 0..MaxFaults
  BY DEF Arrives, agentVars, JobsInv, JobsTypeOK, OrdersFit
<1>2. CASE c.action # "start" /\ ~shell.held
  <2> DEFINE d == [c EXCEPT !.at = "back", !.says = "unknown"]
  <2>1. d \in Call /\ ~Starting(d) /\ d.by = c.by /\ d.at = "back" /\ d.says \notin Final
    BY <1>1 DEF Call, Answers, Starting, Final
  <2>2. orders' = (orders \ {c}) \cup {d} /\ UNCHANGED hostVars  BY <1>2 DEF Arrives
  <2> HIDE DEF d
  <2>3. orders' \subseteq Call /\ \A x \in orders' \ (orders \ {c}) : x = d  BY <1>1, <2>1, <2>2
  <2> QED  BY <1>1, <2>1, <2>2, <2>3, Rewired
<1>3. CASE c.action # "start" /\ shell.held
  <2> DEFINE d == [c EXCEPT !.at = "host"]
  <2>1. /\ d \in Call /\ ~Starting(d) /\ d.by = c.by /\ d.at = "host" /\ d.says = c.says
        /\ d.asked = c.asked
    BY <1>1, <1>3 DEF Call, Starting
  <2>2. orders' = (orders \ {c}) \cup {d} /\ UNCHANGED alive /\ shell' = Sessioned(c)
    BY <1>1, <1>3 DEF Arrives
  <2>3. /\ shell' \in Shell /\ shell'.status = shell.status /\ shell'.held = shell.held
        /\ shell.asked => shell'.asked
    BY <1>1, <1>3, <2>2 DEF Sessioned, Shell
  <2>4. shell.status # "none" /\ ShellFits'  BY <1>3, <2>2, <2>3 DEF JobsInv, ShellFits
  <2>5. OrderFits(d)'  BY <1>1, <2>1, <2>2, <2>3, <2>4 DEF OrderFits
  <2> HIDE DEF d
  <2> QED  BY <1>1, <2>1, <2>2, <2>3, <2>4, <2>5, OrderMoves
<1>4. CASE c.action = "start"
  <2> DEFINE d == [c EXCEPT !.at = "host"]
  <2>1. /\ d \in Call /\ ~Starting(d) /\ d.by = c.by /\ d.at = "host" /\ d.says = c.says
        /\ d.asked = c.asked
    BY <1>1 DEF Call, Starting
  <2>2. /\ orders' = (orders \ {c}) \cup {d} /\ alive' = TRUE
        /\ shell' = [status |-> "running", held |-> TRUE, asked |-> FALSE, clean |-> FALSE]
    BY <1>1, <1>4 DEF Arrives, Sessioned
  <2>3. Starting(c) /\ \A x \in orders \ {c} : ~Starting(x)
    BY <1>1, <1>4 DEF Starting, JobsInv, StartOnce
  <2>4. jobRow.status \notin Good /\ (\A x \in orders : x.says \notin Final)
    BY <2>3 DEF JobsInv, StartFirst
  <2> HIDE DEF d
  <2>5. shell' \in Shell  BY <2>2 DEF Shell
  <2>6. JobsTypeOK'  BY <1>1, <2>1, <2>2, <2>5 DEF agentVars, JobsInv, JobsTypeOK
  <2>7. ShellFits'  BY <2>2 DEF ShellFits, Final
  <2>8. OrdersFit'
    <3>1. SUFFICES ASSUME NEW x \in orders'  PROVE OrderFits(x)'  BY DEF OrdersFit
    <3>2. CASE x = d  BY <1>1, <2>1, <2>2, <2>4, <3>2 DEF OrderFits
    <3>3. CASE x \in orders  BY <1>1, <2>2, <2>4, <3>3 DEF JobsInv, OrdersFit, OrderFits
    <3> QED  BY <2>2, <3>2, <3>3
  <2>9. StartOnce' /\ StartFirst'
    <3>1. \A x \in orders' : ~Starting(x)  BY <2>1, <2>2, <2>3
    <3> QED  BY <3>1 DEF StartOnce, StartFirst, Starting
  <2>10. Fresh'  BY <1>1 DEF JobsInv, Fresh
  <2> QED  BY <1>1, <2>4, <2>6, <2>7, <2>8, <2>9, <2>10, HostMoves
<1> QED  BY <1>2, <1>3, <1>4

LEMMA OrderTaken ==
    ASSUME JobsInv, NEW c \in orders, TakeSessionResult(c), faults' = faults
    PROVE  JobsInv'
<1> DEFINE s == [shell EXCEPT !.held = @ /\ shell.status \in {"running", "failed"}]
<1>0. PICK d : d = [c EXCEPT !.at = "back", !.asked = shell.asked, !.clean = shell.clean,
                       !.says = IF shell.status = "failed" THEN "error" ELSE shell.status]
  OBVIOUS
<1>1. /\ c \in Call /\ shell \in Shell /\ OrderFits(c) /\ c.at = "host" /\ UNCHANGED agentVars
      /\ UNCHANGED jobRow /\ UNCHANGED alive /\ shell' = s /\ orders' = (orders \ {c}) \cup {d}
  BY <1>0 DEF TakeSessionResult, agentVars, JobsInv, JobsTypeOK, OrdersFit
<1>2. shell.status \in {"running", "exited", "terminated", "failed"}
  BY <1>1 DEF OrderFits, Shell
<1>3. /\ d \in Call /\ d.at = "back" /\ d.by = c.by /\ d.asked = shell.asked
      /\ d.says = (IF shell.status = "failed" THEN "error" ELSE shell.status)
  BY <1>0, <1>1, <1>2 DEF Call, Answers, Shell
<1>4. s \in Shell /\ s.status = shell.status /\ s.asked = shell.asked /\ (s.held => shell.held)
  BY <1>1 DEF Shell
<1> HIDE DEF s
<1>5. ShellFits'  BY <1>1, <1>4 DEF JobsInv, ShellFits
<1>6. OrderFits(d)'
  <2>1. d.says \in Final => shell.status = d.says  BY <1>3 DEF Final
  <2>2. d.says = "terminated" => d.asked  BY <1>3 DEF JobsInv, ShellFits
  <2>3. d.says \in Final => ~alive'  BY <1>1, <2>1 DEF JobsInv, ShellFits
  <2>4. d.by = "poll" => jobRow'.session  BY <1>1, <1>3 DEF OrderFits
  <2> QED  BY <1>3, <2>2, <2>3, <2>4 DEF OrderFits
<1>7. ~Starting(d)  BY <1>3 DEF Starting
<1>8. shell.status # "none"  BY <1>2
<1>9. shell' \in Shell /\ shell'.status = shell.status  BY <1>1, <1>4
<1> QED  BY <1>1, <1>3, <1>5, <1>6, <1>7, <1>8, <1>9, OrderMoves

(* The command ends, or its session fails: it is not started again.          *)
LEMMA SessionStep ==
    ASSUME JobsInv, FailSession \/ (\E clean \in BOOLEAN : Closes(clean)), faults' = faults
    PROVE  JobsInv'
<1>1. /\ shell \in Shell /\ alive /\ (alive' = alive \/ alive' = FALSE)
      /\ UNCHANGED <<orders, agentVars>> /\ UNCHANGED jobRow
  BY DEF FailSession, Closes, agentVars, JobsInv, JobsTypeOK
<1>2. /\ shell' \in Shell /\ shell'.held = shell.held
      /\ shell'.status = "none" <=> shell.status = "none"
      /\ shell'.status = "terminated" => shell'.asked
      /\ shell'.status \in Final => ~alive'
  <2>1. CASE FailSession  BY <1>1, <2>1 DEF FailSession, Shell, Final
  <2>2. CASE \E clean \in BOOLEAN : Closes(clean)
    BY <1>1, <2>2 DEF Closes, Shell, Final, JobsInv, ShellFits
  <2> QED  BY <2>1, <2>2
<1>3. JobsTypeOK'  BY <1>1, <1>2 DEF agentVars, JobsInv, JobsTypeOK
<1>4. ShellFits'  BY <1>2 DEF JobsInv, ShellFits
<1>5. OrdersFit'  BY <1>1, <1>2 DEF JobsInv, OrdersFit, OrderFits
<1>6. StartOnce' /\ StartFirst'  BY <1>1 DEF JobsInv, StartOnce, StartFirst
<1>7. Fresh'  BY <1>1 DEF JobsInv, Fresh
<1>8. jobRow.status \in Good => ~alive'  BY <1>1 DEF JobsInv, EndsAreTruthful, Good
<1> QED  BY <1>1, <1>3, <1>4, <1>5, <1>6, <1>7, <1>8, HostMoves

LEMMA RestartStep ==
    ASSUME JobsInv, NEW survives \in BOOLEAN, HostRestarts(survives), faults' \in 0..MaxFaults
    PROVE  JobsInv'
<1>1. /\ orders \subseteq Call /\ alive \in BOOLEAN /\ shell' = NoShell /\ (alive' => alive)
      /\ alive' \in BOOLEAN /\ UNCHANGED agentVars /\ UNCHANGED jobRow
  BY DEF HostRestarts, agentVars, JobsInv, JobsTypeOK
<1>2. NoShell \in Shell /\ NoShell.status = "none" /\ ~NoShell.held  BY DEF NoShell, Shell
<1>3. ASSUME NEW d \in orders'
      PROVE  \/ d \in orders /\ d.at # "host"
             \/ \E c \in orders : d = [c EXCEPT !.at = "back", !.says = "error"]
  BY <1>3 DEF HostRestarts
<1>4. ASSUME NEW c \in orders
      PROVE  LET d == [c EXCEPT !.at = "back", !.says = "error"] IN
             d \in Call /\ d.at = "back" /\ d.says = "error" /\ d.by = c.by
  BY <1>1 DEF Call, Answers
<1>5. orders' \subseteq Call  BY <1>1, <1>3, <1>4
<1>6. JobsTypeOK'  BY <1>1, <1>2, <1>5 DEF agentVars, JobsInv, JobsTypeOK
<1>7. ShellFits'  BY <1>1, <1>2 DEF ShellFits, Final
<1>8. OrdersFit'
  <2>1. SUFFICES ASSUME NEW d \in orders'  PROVE OrderFits(d)'  BY DEF OrdersFit
  <2>2. CASE d \in orders /\ d.at # "host"  BY <1>1, <2>2 DEF JobsInv, OrdersFit, OrderFits
  <2>3. CASE \E c \in orders : d = [c EXCEPT !.at = "back", !.says = "error"]
    <3>1. PICK c \in orders : d = [c EXCEPT !.at = "back", !.says = "error"]  BY <2>3
    <3>2. d.at = "back" /\ d.says = "error" /\ d.by = c.by  BY <1>4, <3>1
    <3> QED  BY <1>1, <3>2 DEF JobsInv, OrdersFit, OrderFits, Final
  <2> QED  BY <1>3, <2>2, <2>3
<1>9. \A d \in orders' : Starting(d) => d \in orders
  BY <1>3, <1>4 DEF Starting
<1>10. \A d \in orders' : d.says \in Final => d \in orders
  BY <1>3, <1>4 DEF Final
<1>11. StartOnce'  BY <1>9 DEF JobsInv, StartOnce, Starting
<1>12. StartFirst'
  <2>1. SUFFICES ASSUME NEW e \in orders', Starting(e)
                 PROVE  /\ shell'.status = "none" /\ ~alive' /\ jobRow'.status \notin Good
                        /\ \A x \in orders' : x.says \notin Final
    BY DEF StartFirst, Starting
  <2> QED  BY <1>1, <1>2, <1>9, <1>10, <2>1 DEF JobsInv, StartFirst
<1>13. Fresh'  BY <1>1, <1>2, <1>3 DEF JobsInv, Fresh
<1>14. jobRow.status \in Good => ~alive'  BY <1>1 DEF JobsInv, EndsAreTruthful, Good
<1> QED  BY <1>1, <1>6, <1>7, <1>8, <1>11, <1>12, <1>13, <1>14, HostMoves

-----------------------------------------------------------------------------
LEMMA JobsStep ==
    ASSUME JobsInv, JobsAssumption, [JobsNext]_jobVars
    PROVE  JobsInv'
<1>1. CASE UNCHANGED jobVars
  BY <1>1 DEF jobVars, JobsInv, JobsTypeOK, RowFits, OrdersFit, OrderFits, StartOnce, StartFirst, ShellFits,
              Fresh, JobWatched, EndsAreTruthful
<1>2. CASE Step /\ faults' = faults
  <2>1. \A c \in orders : StartReturns(c) \/ PollReturns(c) => JobsInv'
    BY <1>2, StartReturnsStep, PollReturnsStep
  <2>2. runtime = "null" /\ Exit => JobsInv'
    BY <1>2, ExitStep DEF JobsInv, JobsTypeOK
  <2>3. \A c \in orders : Arrives(c) \/ TakeSessionResult(c) \/ Dropped(c) => JobsInv'
    BY <1>2, ArrivesStep, OrderTaken, DroppedStep
  <2> QED
    BY <1>2, <2>1, <2>2, <2>3, StartStep, TimerStep, ShutdownStep, StopEndsStep, BootStep, SessionStep
    DEF Step
<1>3. CASE faults < MaxFaults /\ faults' = faults + 1 /\ Fault
  <2>1. faults' \in 0..MaxFaults  BY <1>3 DEF JobsInv, JobsTypeOK, JobsAssumption
  <2> QED  BY <1>3, <2>1, ExitStep, RestartStep, FailsStep DEF Fault
<1> QED  BY <1>1, <1>2, <1>3 DEF JobsNext

LEMMA JobsInductive ==
    ASSUME JobsAssumption
    PROVE  JobsSpec => []JobsInv
<1>1. JobsInit => JobsInv  BY JobsStart
<1>2. JobsInv /\ [JobsNext]_jobVars => JobsInv'  BY JobsStep
<1> QED  BY <1>1, <1>2, PTL DEF JobsSpec

-----------------------------------------------------------------------------
(* The row, the timers, the polls, the calls and the session of a job stay  *)
(* within their types (process-jobs.ts, shell.ts).                          *)
THEOREM JobsTypeCorrect ==
    ASSUME JobsAssumption
    PROVE  JobsSpec => []JobsTypeOK
<1>1. JobsInv => JobsTypeOK  BY DEF JobsInv
<1> QED  BY <1>1, JobsInductive, PTL

(* However many calls fail, answers are lost and processes restart, a job   *)
(* that nobody asked to end has a timer, a poll or its start under way      *)
(* (schedule, pollOne, initProcessJobs).                                    *)
THEOREM JobsStayWatched ==
    ASSUME JobsAssumption
    PROVE  JobsSpec => []JobWatched
<1>1. JobsInv => JobWatched  BY DEF JobsInv
<1> QED  BY <1>1, JobsInductive, PTL

(* A job called completed or cancelled has no command left that runs, one   *)
(* called cancelled was asked to end, and the agent is told of every end    *)
(* while the runtime is there, and of nothing else (finalize,               *)
(* dispatchCompletion).                                                     *)
THEOREM EndsStayTruthful ==
    ASSUME JobsAssumption
    PROVE  JobsSpec => []EndsAreTruthful
<1>1. JobsInv => EndsAreTruthful  BY DEF JobsInv
<1> QED  BY <1>1, JobsInductive, PTL

-----------------------------------------------------------------------------
(* Side by side, as they run: whatever each of them does, a background       *)
(* command is watched and its end true, and what crosses between a worker    *)
(* and its tool host is done once, told truly and arrives whole              *)
(* (process-jobs.ts, host-rpc.ts, client-reverse-rpc.ts, iroh-transport).    *)
THEOREM HostWorkStaysSound == HostWorkAssumption => (HostWorkSpec => []HostWorkSound)
<1> SUFFICES ASSUME HostWorkAssumption PROVE HostWorkSpec => []HostWorkSound
  OBVIOUS
<1>1. JobsSpec => []JobWatched
  BY JobsStayWatched DEF HostWorkAssumption
<1>2. JobsSpec => []EndsAreTruthful
  BY EndsStayTruthful DEF HostWorkAssumption
<1>3. HostCallsSpec => []HostCallsHold
  BY ToldTheTruth DEF HostWorkAssumption
<1>4. IngressSpec => []IngressHolds
  BY CallersAreTold DEF HostWorkAssumption
<1>5. TunnelSpec => []TunnelHolds
  BY TunnelAlwaysHolds DEF HostWorkAssumption
<1>6. JobsSpec => []JobsTypeOK
  BY JobsTypeCorrect DEF HostWorkAssumption
<1>7. HostCallsSpec => []HostCallsTypeOK
  BY HostCallsTypeCorrect DEF HostWorkAssumption
<1>8. IngressSpec => []IngressTypeOK
  BY IngressTypeCorrect DEF HostWorkAssumption
<1>9. TunnelSpec => []TunnelTypeOK
  BY TunnelTypeCorrect DEF HostWorkAssumption
<1>10. HostWorkSound <=> /\ JobsTypeOK /\ HostCallsTypeOK /\ IngressTypeOK /\ TunnelTypeOK
                        /\ JobWatched /\ EndsAreTruthful /\ HostCallsHold /\ IngressHolds /\ TunnelHolds
  BY DEF HostWorkSound, HostWorkTypeOK
<1> QED
  BY <1>1, <1>2, <1>3, <1>4, <1>5, <1>6, <1>7, <1>8, <1>9, <1>10, PTL DEF HostWorkSpec
================================================================================
