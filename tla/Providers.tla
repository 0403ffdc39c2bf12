------------------------------ MODULE Providers ------------------------------
(***************************************************************************)
(* The model providers (packages/agent-llm): completions with retries,      *)
(* quota failover to a fallback endpoint and a circuit breaker for the      *)
(* summary model.  A provider set keeps its failover and its circuits in    *)
(* its own memory; the runtime builds one for the session's turns, one for  *)
(* the delegated tasks and one for the compaction at rest.                  *)
(***************************************************************************)
EXTENDS Naturals

CONSTANTS Turn,         \* completions of the session (one at a time each)
          Task,         \* completions of delegated tasks, recollections
          HasFallback,  \* is a fallback endpoint configured?
          HasSummary,   \* is a summary endpoint configured?
          Compacting,   \* the sets whose compactions are looked at
          MaxRetries, MaxRecoveries,  \* maxRetries; the two limits of 2
          MaxRestarts   \* bound on restarts of the process

ProvidersAssumption ==
    /\ Compacting \subseteq {"main", "rest"}
    /\ HasFallback \in BOOLEAN /\ HasSummary \in BOOLEAN
    /\ MaxRetries \in Nat /\ MaxRecoveries \in Nat /\ MaxRestarts \in Nat

VARIABLES banned,   \* sets whose quota failover is active
          circuit,  \* circuits[provider] of every set: what the last failure left
          run,      \* the completions under way
          digest,   \* the summary call of a set: the endpoint it is made to
          boots
vars == <<banned, circuit, run, digest, boots>>

Caller == Turn \cup Task
Sets == {"main", "isolated", "rest"}
SetOf(c) == IF c \in Turn THEN "main" ELSE "isolated"
Slot == {"primary", "fallback", "summary"}
None == "none"

Idle == [at |-> "idle", slot |-> None, shrinks |-> 0, edits |-> 0, retries |-> 0]
Closed == [s \in Slot |-> "closed"]

Init == /\ banned = {}
        /\ circuit = [s \in Compacting |-> Closed]
        /\ run = [c \in Caller |-> Idle]
        /\ digest = [s \in Compacting |-> None]
        /\ boots = 0

---------------------------------------------------------------------------
(* A failure opens the circuit of its endpoint: for good when the status   *)
(* says that the configuration is wrong, else until a backoff has passed.  *)
(* Only summaries look at circuits, those of the tasks' set never do.      *)
Opened(kind) == IF kind = "refused" THEN "broken" ELSE "open"
Record(s, e, state) == circuit' = IF s \in Compacting THEN [circuit EXCEPT ![s][e] = state] ELSE circuit

(* The endpoint that serves turns, if there is one.                        *)
Serving(s) == IF s \notin banned THEN "primary"
              ELSE IF HasFallback THEN "fallback" ELSE None

Move(c, r) == run' = [run EXCEPT ![c] = r]
Begin(c) == /\ run[c].at = "idle"
            /\ Move(c, [Idle EXCEPT !.at = "loop"])
            /\ UNCHANGED <<banned, circuit, digest, boots>>

(* The head of the loop: without an endpoint the completion throws.        *)
Resolve(c) == /\ run[c].at = "loop"
              /\ Move(c, IF Serving(SetOf(c)) = None THEN Idle
                         ELSE [run[c] EXCEPT !.at = "calling", !.slot = Serving(SetOf(c))])
              /\ UNCHANGED <<banned, circuit, digest, boots>>

Succeeds(c) == /\ run[c].at = "calling"
               /\ Record(SetOf(c), run[c].slot, "closed")
               /\ Move(c, Idle)
               /\ UNCHANGED <<banned, digest, boots>>

(* Recovery edits the conversation, which only the session's turns do; it  *)
(* may find nothing to shrink or to drop.                                  *)
Recovers(c, count) == c \in Turn /\ count < MaxRecoveries
TooLarge(c) == /\ run[c].at = "calling"
               /\ \/ Recovers(c, run[c].shrinks)
                     /\ Move(c, [run[c] EXCEPT !.at = "loop", !.shrinks = @ + 1])
                  \/ Move(c, Idle)
               /\ UNCHANGED <<banned, circuit, digest, boots>>
Rejected(c) == /\ run[c].at = "calling"
               /\ \/ Recovers(c, run[c].edits)
                     /\ Move(c, [run[c] EXCEPT !.at = "loop", !.edits = @ + 1])
                  \/ Move(c, Idle)
               /\ UNCHANGED <<banned, circuit, digest, boots>>

(* As if retries were counted, but not limited.                             *)
Retried_Always(c) == [run[c] EXCEPT !.at = "sleeping", !.retries = @ + 1]

(* Transient errors, and a quota that is exhausted elsewhere than at the   *)
(* primary, are retried at whatever endpoint serves after a delay.         *)
Retried(c) == IF run[c].retries < MaxRetries
              THEN [run[c] EXCEPT !.at = "sleeping", !.retries = @ + 1] ELSE Idle
Transient(c) == /\ run[c].at = "calling"
                /\ Record(SetOf(c), run[c].slot, Opened("transient"))
                /\ Move(c, Retried(c))
                /\ UNCHANGED <<banned, digest, boots>>
(* As if a quota error of the fallback failed over too.                     *)
FailsOver_Always(c) == TRUE
FailsOver(c) == run[c].slot = "primary"
Quota(c) == /\ run[c].at = "calling"
            /\ IF FailsOver(c)
               THEN /\ banned' = banned \cup {SetOf(c)}
                    /\ Move(c, IF HasFallback THEN [run[c] EXCEPT !.at = "loop"] ELSE Idle)
                    /\ UNCHANGED circuit
               ELSE /\ Record(SetOf(c), run[c].slot, Opened("quota"))
                    /\ Move(c, Retried(c))
                    /\ UNCHANGED banned
            /\ UNCHANGED <<digest, boots>>
Refused(c) == /\ run[c].at = "calling"
              /\ \E kind \in {"refused", "bad_request"} :
                    Record(SetOf(c), run[c].slot, Opened(kind))
              /\ Move(c, Idle)
              /\ UNCHANGED <<banned, digest, boots>>
Wakes(c) == /\ run[c].at = "sleeping"
            /\ Move(c, [run[c] EXCEPT !.at = "loop"])
            /\ UNCHANGED <<banned, circuit, digest, boots>>
Fails(c) == TooLarge(c) \/ Rejected(c) \/ Transient(c) \/ Quota(c) \/ Refused(c)

---------------------------------------------------------------------------
(* A summary is one call without retries, skipped while the circuit of its *)
(* endpoint is open; it may also answer with something of no use.          *)
SummaryBegins(s) ==
    LET e == IF HasSummary THEN "summary" ELSE Serving(s)
    IN /\ digest[s] = None /\ e # None /\ circuit[s][e] = "closed"
       /\ digest' = [digest EXCEPT ![s] = e]
       /\ UNCHANGED <<banned, circuit, run, boots>>
SummaryEnds(s) == /\ digest[s] # None
                  /\ \E state \in {"closed", "open", "broken"} : Record(s, digest[s], state)
                  /\ digest' = [digest EXCEPT ![s] = None]
                  /\ UNCHANGED <<banned, run, boots>>

(* Time passes.  A ban lasts a minute at least: no completion is between   *)
(* the quota error and the next look at the ban when it ends.              *)
BanEnds(s) == /\ s \in banned
              /\ \A c \in Caller : SetOf(c) = s => run[c].at # "loop"
              /\ banned' = banned \ {s}
              /\ UNCHANGED <<circuit, run, digest, boots>>
BackoffEnds(s, e) == /\ circuit[s][e] = "open"
                     /\ Record(s, e, "closed")
                     /\ UNCHANGED <<banned, run, digest, boots>>

(* Nothing of this is stored: the process begins with a clean slate.       *)
Restart == /\ boots < MaxRestarts /\ boots' = boots + 1
           /\ banned' = {} /\ circuit' = [s \in Compacting |-> Closed]
           /\ run' = [c \in Caller |-> Idle] /\ digest' = [s \in Compacting |-> None]

Next == \/ \E c \in Caller : Begin(c) \/ Resolve(c) \/ Succeeds(c) \/ Fails(c) \/ Wakes(c)
        \/ \E s \in Compacting : SummaryBegins(s) \/ SummaryEnds(s)
        \/ \E s \in Compacting, e \in Slot : BackoffEnds(s, e)
        \/ \E s \in Sets : BanEnds(s)
        \/ Restart

(* The loop goes on, a call ends (the client has a time limit), a delay    *)
(* ends.  Nothing is assumed about what the provider answers.              *)
LoopFairness == \A c \in Caller : /\ WF_vars(Resolve(c)) /\ WF_vars(Wakes(c))
                                  /\ WF_vars(Succeeds(c) \/ Fails(c))
Spec == Init /\ [][Next]_vars
FairSpec == Spec /\ LoopFairness

---------------------------------------------------------------------------
ProvidersTypeOK ==
    /\ banned \subseteq Sets
    /\ circuit \in [Compacting -> [Slot -> {"closed", "open", "broken"}]]
    /\ run \in [Caller -> [at : {"idle", "loop", "calling", "sleeping"}, slot : Slot \cup {None},
                           shrinks : 0 .. MaxRecoveries, edits : 0 .. MaxRecoveries,
                           retries : 0 .. MaxRetries]]
    /\ digest \in [Compacting -> Slot \cup {None}]
    /\ boots \in 0 .. MaxRestarts

(* completeWithResilience ends, whatever the endpoints answer: the four    *)
(* ways round its loop (shrink, edit, fail over, retry) cannot feed each   *)
(* other for ever, though failing over is not counted and the ban may end  *)
(* while the fallback is asked.                                            *)
CompletionEnds == \A c \in Caller : run[c].at # "idle" ~> run[c].at = "idle"

(* loop-completion.ts says of the set for tasks that it "shares the same   *)
(* configuration, so quota failover and circuit state stay consistent":    *)
(* while a failover is active no completion turns to the primary.          *)
FailoverShared == [][\A c \in Caller :
    run'[c].at = "calling" /\ run[c].at = "loop" /\ run'[c].slot = "primary" => banned = {}]_vars
=============================================================================
