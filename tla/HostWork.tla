------------------------------- MODULE HostWork -------------------------------
(***************************************************************************)
(* What a worker and its tool host do for each other: the background       *)
(* commands (ProcessJobs), the Python tool calls and what their cells call *)
(* back (HostCalls), the ingress those pass through (HostRpcIngress) and   *)
(* the tunnel under both (Tunnel).  They run side by side and share no     *)
(* state at this level.                                                    *)
(***************************************************************************)
EXTENDS ProcessJobs, HostCalls, HostRpcIngress, Tunnel

HostWorkAssumption == JobsAssumption /\ HostCallsAssumption /\ IngressAssumption /\ TunnelAssumption

HostWorkSpec == JobsSpec /\ HostCallsSpec /\ IngressSpec /\ TunnelSpec

HostWorkTypeOK == JobsTypeOK /\ HostCallsTypeOK /\ IngressTypeOK /\ TunnelTypeOK

(* process-jobs.ts: an active job is watched by somebody, and what its row   *)
(* says of its end is true of the command and known to the agent.            *)
(* host-rpc.ts: a grant ends with its tool call, and what a cell is told of  *)
(* a call back is true.  client-reverse-rpc.ts: a call through the ingress   *)
(* is carried out once, and the answer it gets is true of it.                *)
(* iroh-transport: what flows through a tunnel arrives in order and whole,   *)
(* and the end of one side is told to the other.                             *)
HostWorkSound ==
    /\ HostWorkTypeOK
    /\ JobWatched /\ EndsAreTruthful /\ HostCallsHold /\ IngressHolds /\ TunnelHolds
===============================================================================
