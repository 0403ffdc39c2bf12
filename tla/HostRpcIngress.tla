----------------------------- MODULE HostRpcIngress -----------------------------
(***************************************************************************)
(* The ingress of the control plane through which a tool client calls its  *)
(* agent's worker (apps/server/src/client-reverse-rpc.ts): one request,    *)
(* which comes in pieces, is refused or forwarded to the worker that is    *)
(* registered by then, and is answered.  Client, worker and registration   *)
(* may go away at any moment.                                              *)
(***************************************************************************)
EXTENDS Naturals, FiniteSets

CONSTANTS
    BodyLimit,      \* HOST_RPC_INGRESS_BODY_LIMIT_BYTES, in pieces
    MaxBody,        \* bound: pieces of a body
    Workers         \* what may be registered for the agent, one after another

IngressAssumption == BodyLimit \in Nat /\ MaxBody \in Nat /\ Workers \subseteq Nat \ {0}

VARIABLES
    request,    \* what the client has sent: kind, declared length, pieces, whether all
    taken,      \* readBoundedBody: total, and whether it only drains
    serving,    \* the handler: its stage
    origin,     \* the worker the call was forwarded to, or 0
    reply,      \* what the client is answered: status, whether it is whole
    executed,   \* the workers that have carried the call out
    registered, \* control/db.ts: the agent's worker, or 0
    hungUp      \* the client is gone

ingressVars == <<request, taken, serving, origin, reply, executed, registered, hungUp>>

NoReply == [status |-> 0, whole |-> FALSE, reset |-> FALSE]
Chunked == MaxBody + 1                      \* no length is declared

IngressInit ==
    /\ request = [kind |-> "none", declared |-> 0, sent |-> 0, ended |-> FALSE]
    /\ taken = [total |-> 0, refused |-> FALSE]
    /\ serving = "idle" /\ origin = 0 /\ reply = NoReply
    /\ executed = {} /\ registered \in Workers \cup {0} /\ hungUp = FALSE

-----------------------------------------------------------------------------
(* The client *)

Begins ==
    /\ request.kind = "none"
    /\ \E kind \in {"call", "get", "elsewhere"}, declared \in 0..MaxBody \cup {Chunked} :
          request' = [kind |-> kind, declared |-> declared, sent |-> 0, ended |-> declared = 0]
    /\ UNCHANGED <<taken, serving, origin, reply, executed, registered, hungUp>>

SendsMore ==
    /\ request.kind # "none" /\ ~request.ended /\ ~hungUp
    /\ \/ request.sent < MaxBody /\ request' = [request EXCEPT !.sent = @ + 1, !.ended = @ \/ request.sent + 1 = request.declared]
       \/ request.declared = Chunked /\ request' = [request EXCEPT !.ended = TRUE]
    /\ UNCHANGED <<taken, serving, origin, reply, executed, registered, hungUp>>

(* Whoever registers, ends and replaces the worker                          *)
Registers ==
    /\ \E w \in Workers \cup {0} : w # registered /\ registered' = w
    /\ UNCHANGED <<request, taken, serving, origin, reply, executed, hungUp>>

-----------------------------------------------------------------------------
(* startHostRpcIngress *)

(* refuse: the socket is closed behind the answer, which a client that is   *)
(* still sending may lose.                                                  *)
Refused(status) ==
    /\ reply' = [status |-> status, whole |-> TRUE, reset |-> taken.total < request.sent \/ ~request.ended]
    /\ serving' = "done"

TurnsAway ==
    /\ serving = "idle" /\ ~hungUp
    /\ \/ request.kind = "get" /\ Refused(405)
       \/ request.kind = "elsewhere" /\ Refused(404)
       \/ /\ request.kind = "call" /\ request.declared # Chunked /\ request.declared > BodyLimit
          /\ Refused(413)
    /\ UNCHANGED <<request, taken, origin, executed, registered, hungUp>>

Admits ==
    /\ serving = "idle" /\ ~hungUp
    /\ request.kind = "call" /\ (request.declared = Chunked \/ request.declared <= BodyLimit)
    /\ serving' = "reading"
    /\ UNCHANGED <<request, taken, origin, reply, executed, registered, hungUp>>

(* readBoundedBody: beyond the limit nothing is kept, but read to its end.  *)
CanRead == serving = "reading" /\ taken.total < request.sent
Reads ==
    /\ CanRead
    /\ taken' = [total |-> taken.total + 1, refused |-> taken.total + 1 > BodyLimit]
    /\ UNCHANGED <<request, serving, origin, reply, executed, registered, hungUp>>
BodyWhole == serving = "reading" /\ request.ended /\ taken.total = request.sent
TooLong ==
    /\ BodyWhole /\ taken.refused /\ Refused(413)
    /\ UNCHANGED <<request, taken, origin, executed, registered, hungUp>>

(* loopbackOrigin of what is registered once the body is there              *)
Reachable == registered # 0
Forwards ==
    /\ BodyWhole /\ ~taken.refused
    /\ \/ ~Reachable /\ Refused(502) /\ UNCHANGED origin
       \/ Reachable /\ origin' = registered /\ serving' = "forwarded" /\ UNCHANGED reply
    /\ UNCHANGED <<request, taken, executed, registered, hungUp>>

(* The client hangs up: in the middle of its body, the handler ends, with   *)
(* an answer nobody reads; later, what is under way goes on.                *)
HangsUp ==
    /\ request.kind # "none" /\ ~hungUp /\ hungUp' = TRUE
    /\ IF serving = "reading" /\ ~BodyWhole
       THEN /\ serving' = "done"
            /\ reply' = IF taken.refused THEN reply ELSE [status |-> 500, whole |-> FALSE, reset |-> TRUE]
       ELSE UNCHANGED <<serving, reply>>
    /\ UNCHANGED <<request, taken, origin, executed, registered>>

-----------------------------------------------------------------------------
(* forwardHostRpc *)

Executes ==
    /\ serving = "forwarded" /\ origin \notin executed
    /\ executed' = executed \cup {origin}
    /\ UNCHANGED <<request, taken, serving, origin, reply, registered, hungUp>>

(* The response begins, and its body is piped.                              *)
Responds ==
    /\ serving = "forwarded" /\ origin \in executed
    /\ serving' = "relaying" /\ reply' = [status |-> 200, whole |-> FALSE, reset |-> FALSE]
    /\ UNCHANGED <<request, taken, origin, executed, registered, hungUp>>
RelayEnds ==
    /\ serving = "relaying"
    /\ serving' = "done" /\ reply' = [reply EXCEPT !.whole = TRUE]
    /\ UNCHANGED <<request, taken, origin, executed, registered, hungUp>>

(* The upstream's "error", after ten minutes at the latest: the worker is   *)
(* gone, or too slow, and may have carried the call out all the same.       *)
UpstreamFails ==
    /\ \/ serving = "forwarded" /\ Refused(502)
       \/ serving = "relaying" /\ serving' = "done" /\ reply' = [reply EXCEPT !.reset = TRUE]
    /\ UNCHANGED <<request, taken, origin, executed, registered, hungUp>>

(* A worker that ends its connection in the middle of a response raises no  *)
(* error, and pipe() does not end what it was writing to.                   *)
CutOff ==
    /\ serving = "relaying" /\ serving' = "stuck"
    /\ UNCHANGED <<request, taken, origin, reply, executed, registered, hungUp>>

IngressNext ==
    \/ Begins \/ SendsMore \/ Registers \/ HangsUp
    \/ TurnsAway \/ Admits \/ Reads \/ TooLong \/ Forwards
    \/ Executes \/ Responds \/ RelayEnds \/ UpstreamFails \/ CutOff

IngressSpec == IngressInit /\ [][IngressNext]_ingressVars

-----------------------------------------------------------------------------
IngressTypeOK ==
    /\ serving \in {"idle", "reading", "forwarded", "relaying", "stuck", "done"}
    /\ reply.status \in {0, 200, 404, 405, 413, 500, 502}
    /\ taken.total <= request.sent /\ origin \in Workers \cup {0}

(* A call is carried out by one worker at most, with its whole body; the    *)
(* answer tells: none but that worker's, or a 502, is given to one that was *)
(* carried out.                                                             *)
AnswersTellTruth ==
    /\ Cardinality(executed) <= 1
    /\ executed # {} => /\ request.ended /\ request.sent <= BodyLimit
                        /\ reply.status \in {0, 200, 502}
    /\ reply.status = 200 => executed = {origin}

(* A client that waits is answered, whole or by the end of its connection,  *)
(* unless the worker broke its answer off; and the refusal of a body that   *)
(* was too long is not lost to a reset, for all of it was read by then.     *)
Waits == ~hungUp /\ request.ended
CallsAreAnswered ==
    /\ Waits => \/ serving \in {"idle", "forwarded", "relaying", "stuck"} \/ CanRead \/ BodyWhole
                \/ reply.whole \/ reply.reset
    /\ Waits /\ reply.reset => reply.status \in {200, 404, 405} \/ request.declared \in BodyLimit + 1..MaxBody

IngressHolds == AnswersTellTruth /\ CallsAreAnswered
===============================================================================
