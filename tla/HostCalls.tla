------------------------------- MODULE HostCalls -------------------------------
(***************************************************************************)
(* A Python tool call and the calls its cell makes back to the worker: the *)
(* worker grants them for as long as the tool call lasts (host-rpc.ts,     *)
(* client/index.ts, http-client.ts), the tool host runs the cell           *)
(* (http-server.ts, host.ts, _host_call of python-kernel.ts), and whatever *)
(* lies between may lose or delay either of them.  A cell that is          *)
(* interrupted does not take back a call that is on its way.               *)
(***************************************************************************)
EXTENDS Naturals

CONSTANTS
    Calls,          \* what the cell calls back
    CallDeadline,   \* deadlineAt of the tool call; the grant ends no later
    HostTimeout,    \* urlopen's timeout, 30 s
    MaxClock        \* bound of the clock

HostCallsAssumption == CallDeadline \in Nat /\ HostTimeout \in Nat /\ MaxClock \in Nat

VARIABLES
    hostClock,
    outer,      \* execute: "none", "pending", "answered", "failed"
    cell,       \* the tool host's side of it: "none", "running", "ended", "expired"
    lease,      \* leases: "none", "live", "gone"
    worker,     \* who answers at the worker's port: "issuer", "successor", "nobody"
    call,       \* each call: where it is, and since when
    operation,  \* what the worker does for it: "none", "running", "done", "cut"
    cellTold    \* what the cell is told of it: "nothing", or what it raises or returns

hostCallsVars == <<hostClock, outer, cell, lease, worker, call, operation, cellTold>>

NoCall == [at |-> "none", since |-> 0]
Results == {"ok", "error", "unauthorized", "deadline", "unavailable", "unknown"}

HostCallsInit ==
    /\ hostClock = 0 /\ outer = "none" /\ cell = "none" /\ lease = "none" /\ worker = "issuer"
    /\ call = [c \in Calls |-> NoCall]
    /\ operation = [c \in Calls |-> "none"] /\ cellTold = [c \in Calls |-> "nothing"]

Expired == hostClock >= CallDeadline

-----------------------------------------------------------------------------
(* The tool call *)

(* execute, with issueHostRpcGrant                                          *)
Execute ==
    /\ outer = "none" /\ worker = "issuer"
    /\ outer' = "pending" /\ lease' = "live"
    /\ UNCHANGED <<hostClock, cell, worker, call, operation, cellTold>>

(* revokeHostRpcGrant, whatever execute comes to: the host's answer, or an  *)
(* error, of the connection or of its time limit.                           *)
Returns(result) == outer' = result /\ lease' = "gone"
ToolCallAnswered ==
    /\ outer = "pending" /\ cell \in {"ended", "expired"} /\ Returns("answered")
    /\ UNCHANGED <<hostClock, cell, worker, call, operation, cellTold>>
Fails ==
    /\ outer = "pending" /\ Returns("failed")
    /\ UNCHANGED <<hostClock, cell, worker, call, operation, cellTold>>

(* ToolClientHttpServer.handle, NodeToolHost.execute: a request may arrive  *)
(* when nobody waits for its answer any more.                               *)
HostExecutes ==
    /\ outer # "none" /\ cell = "none"
    /\ cell' = IF Expired THEN "expired" ELSE "running"
    /\ UNCHANGED <<hostClock, outer, lease, worker, call, operation, cellTold>>

(* The cell ends, by itself or at its deadline.                             *)
CellEnds ==
    /\ cell = "running" /\ cell' = "ended"
    /\ UNCHANGED <<hostClock, outer, lease, worker, call, operation, cellTold>>

-----------------------------------------------------------------------------
(* A call back *)

Tells(c, result) == cellTold' = [cellTold EXCEPT ![c] = IF @ = "nothing" THEN result ELSE @]
Moves(c, place) == call' = [call EXCEPT ![c].at = place]

(* _host_call; without an endpoint, the reverse tunnel's, it is unavailable.*)
HostCall(c) ==
    /\ cell = "running" /\ call[c].at = "none"
    /\ \/ call' = [call EXCEPT ![c] = [at |-> "sent", since |-> hostClock]] /\ UNCHANGED cellTold
       \/ Moves(c, "over") /\ Tells(c, "unavailable")
    /\ UNCHANGED <<hostClock, outer, cell, lease, worker, operation>>

(* The connection breaks, or urlopen has waited long enough: the call may   *)
(* arrive all the same.                                                     *)
GivesUp(c) ==
    /\ call[c].at \notin {"none", "over"} /\ cellTold[c] = "nothing" /\ Tells(c, "unknown")
    /\ UNCHANGED <<hostClock, outer, cell, lease, worker, call, operation>>
Vanishes(c) ==
    /\ call[c].at = "sent" /\ cellTold[c] # "nothing" /\ Moves(c, "over")
    /\ UNCHANGED <<hostClock, outer, cell, lease, worker, operation, cellTold>>

(* dispatchHostRpc: the grant must be there, and not have expired.          *)
GrantHeld == worker = "issuer" /\ lease = "live"
Refuses(c) ==
    /\ call[c].at = "sent" /\ Moves(c, "over")
    /\ \/ worker = "nobody" /\ Tells(c, "unavailable") /\ UNCHANGED lease
       \/ worker # "nobody" /\ ~GrantHeld /\ Tells(c, "unauthorized") /\ UNCHANGED lease
       \/ GrantHeld /\ Expired /\ Tells(c, "deadline") /\ lease' = "gone"
    /\ UNCHANGED <<hostClock, outer, cell, worker, operation>>
Starts(c) ==
    /\ call[c].at = "sent" /\ GrantHeld /\ ~Expired
    /\ Moves(c, "served") /\ operation' = [operation EXCEPT ![c] = "running"]
    /\ UNCHANGED <<hostClock, outer, cell, lease, worker, cellTold>>

(* The race of the service with the deadline, which does not end it: an     *)
(* error may come of the service, or of a result that is too large.         *)
ServiceEnds(c) ==
    /\ operation[c] = "running" /\ operation' = [operation EXCEPT ![c] = "done"]
    /\ \/ /\ call[c].at = "served" /\ Moves(c, "over")
          /\ \E result \in {"ok", "error"} : Tells(c, result)
       \/ call[c].at = "over" /\ UNCHANGED <<call, cellTold>>
    /\ UNCHANGED <<hostClock, outer, cell, lease, worker>>
DeadlineEnds(c) ==
    /\ call[c].at = "served" /\ Expired
    /\ Moves(c, "over") /\ Tells(c, "deadline")
    /\ UNCHANGED <<hostClock, outer, cell, lease, worker, operation>>

-----------------------------------------------------------------------------
(* activeHostRpcLeaseCount, which drops what has expired                    *)
LeaseCount == IF lease = "live" /\ ~Expired THEN 1 ELSE 0
Counts ==
    /\ lease = "live" /\ LeaseCount = 0 /\ lease' = "gone"
    /\ UNCHANGED <<hostClock, outer, cell, worker, call, operation, cellTold>>

(* The worker's process ends, and a successor comes.                        *)
WorkerEnds ==
    /\ worker = "issuer" /\ worker' = "nobody"
    /\ lease' = "gone" /\ outer' = IF outer = "pending" THEN "failed" ELSE outer
    /\ operation' = [c \in Calls |-> IF operation[c] = "running" THEN "cut" ELSE operation[c]]
    /\ call' = [c \in Calls |-> IF call[c].at = "served" THEN [call[c] EXCEPT !.at = "over"] ELSE call[c]]
    /\ cellTold' = [c \in Calls |-> IF call[c].at = "served" /\ cellTold[c] = "nothing" THEN "unavailable" ELSE cellTold[c]]
    /\ UNCHANGED <<hostClock, cell>>
Succeeds == /\ worker = "nobody" /\ worker' = "successor"
            /\ UNCHANGED <<hostClock, outer, cell, lease, call, operation, cellTold>>

(* Time passes, but not beyond what a timer is to do.                       *)
ClockTicks ==
        /\ hostClock < MaxClock /\ hostClock' = hostClock + 1
        /\ \A c \in Calls : /\ ~(Expired /\ call[c].at = "served")
                            /\ cellTold[c] = "nothing" /\ call[c].at # "none" => hostClock < call[c].since + HostTimeout
        /\ UNCHANGED <<outer, cell, lease, worker, call, operation, cellTold>>

HostCallsNext ==
    \/ Execute \/ ToolCallAnswered \/ Fails \/ HostExecutes \/ CellEnds \/ Counts \/ WorkerEnds \/ Succeeds \/ ClockTicks
    \/ \E c \in Calls : \/ HostCall(c) \/ GivesUp(c) \/ Vanishes(c) \/ Refuses(c) \/ Starts(c)
                        \/ ServiceEnds(c) \/ DeadlineEnds(c)

HostCallsSpec == HostCallsInit /\ [][HostCallsNext]_hostCallsVars

-----------------------------------------------------------------------------
HostCallsTypeOK ==
    /\ hostClock \in 0..MaxClock /\ outer \in {"none", "pending", "answered", "failed"}
    /\ cell \in {"none", "running", "ended", "expired"} /\ lease \in {"none", "live", "gone"}
    /\ worker \in {"issuer", "successor", "nobody"}
    /\ \A c \in Calls : /\ call[c].at \in {"none", "sent", "served", "over"} /\ call[c].since <= hostClock
                        /\ operation[c] \in {"none", "running", "done", "cut"}
                        /\ cellTold[c] \in {"nothing"} \cup Results

(* What a cell is told of its call is true: of one that was refused nothing *)
(* was done, of one that went well everything; only a deadline, a lost      *)
(* connection or a dead worker leave it open.                               *)
ToldTruly ==
    \A c \in Calls :
      /\ cellTold[c] = "unauthorized" => operation[c] = "none"
      /\ cellTold[c] \in {"ok", "error"} => operation[c] = "done"
      /\ cellTold[c] = "nothing" /\ operation[c] = "running" => call[c].at = "served" /\ ~(hostClock > CallDeadline)

(* A grant does not outlive its tool call, in whatever way that ends, nor   *)
(* its worker; and while the tool call waits for an answer to one of its    *)
(* calls, in time, the count by which readiness finds it safe to apply a    *)
(* configuration is not zero: no other call, refused or late, takes it away.*)
GrantsEnd ==
    /\ lease = "live" => outer = "pending" /\ worker = "issuer"
    /\ \A c \in Calls : call[c].at = "served" /\ ~Expired /\ LeaseCount = 0 => outer # "pending"

HostCallsHold == ToldTruly /\ GrantsEnd
===============================================================================
