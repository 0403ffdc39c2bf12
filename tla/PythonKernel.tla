---------------------------- MODULE PythonKernel ----------------------------
(***************************************************************************)
(* The persistent Python interpreter of a tool host                        *)
(* (harness-client-node/python-kernel.ts): the manager's queue, the child  *)
(* process it starts, interrupts and replaces, the answer of each cell,    *)
(* and what the agent's side believes it may call                          *)
(* (harness-server/http-client.ts, host.ts, http-server.ts).               *)
(*                                                                         *)
(* A cell's answer is put together from three streams of the child that    *)
(* arrive in any order: its result line and the end markers of stdout and  *)
(* stderr.  Deadlines may pass at any time; the child may end at any time, *)
(* ignore an interrupt, or die of one that comes too late.  The text of    *)
(* the output, its archives and stop(), which is called when the host's    *)
(* process ends, are left out.                                             *)
(***************************************************************************)
EXTENDS Integers, Sequences

CONSTANTS
    Cells,      \* executions and resets, each asked for once
    Resets,     \* those that are resets
    MaxKids     \* bound: how many children are started

KernelAssumption == Resets \subseteq Cells /\ MaxKids \in Nat

VARIABLES
    cell,       \* what has become of each cell; its answer when there is one
    chain,      \* the promise chain queue, its head being worked on
    got,        \* the parts of a pending cell that have arrived
    late,       \* its deadline timer has fired: "no", "grace", "signalled"
    child,      \* the manager's child, 0 for null
    failed,     \* lastError is set
    kid,        \* the processes
    sent,       \* what a process has written for a cell and nobody has read
    offered,    \* the worker's client lists python among its capabilities
    caller      \* what the worker knows of a cell

kernelVars == <<cell, chain, got, late, child, failed, kid, sent, offered, caller>>

Kids == 1..MaxKids
Parts == {"result", "stdout", "stderr"}
Answers == {"ok", "intact", "error", "expired", "lost"}
None == "none"

Init ==
    /\ cell = [c \in Cells |-> "new"] /\ chain = <<>>
    /\ got = [c \in Cells |-> {}] /\ late = [c \in Cells |-> "no"]
    /\ child = 0 /\ failed = FALSE
    /\ kid = [k \in Kids |-> [state |-> "unborn", does |-> None, seen |-> FALSE]]
    /\ sent = [c \in Cells |-> {}]
    /\ offered = TRUE
    /\ caller = [c \in Cells |-> "idle"]

KernelTypeOK ==
    /\ cell \in [Cells -> {"new", "queued", "starting", "pending"} \cup Answers]
    /\ chain \in Seq(Cells)
    /\ got \in [Cells -> SUBSET Parts] /\ sent \in [Cells -> SUBSET Parts]
    /\ late \in [Cells -> {"no", "grace", "signalled"}]
    /\ child \in 0..MaxKids /\ failed \in BOOLEAN /\ offered \in BOOLEAN
    /\ kid \in [Kids -> [state : {"unborn", "booting", "idle", "busy", "dead"},
                         does : Cells \cup {None}, seen : BOOLEAN]]
    /\ caller \in [Cells -> {"idle", "waits", "answered", "gaveUp"}]

Living(k) == kid[k].state \in {"booting", "idle", "busy"}

(* isChildAlive looks at what the exit event has left, not at the process. *)
IsReady == child # 0 /\ ~kid[child].seen /\ ~failed

-----------------------------------------------------------------------------
(* The worker: http-client.ts *)

Execute(c) ==
    /\ offered /\ cell[c] = "new"
    /\ cell' = [cell EXCEPT ![c] = "queued"]
    /\ chain' = Append(chain, c)
    /\ caller' = [caller EXCEPT ![c] = "waits"]
    /\ UNCHANGED <<got, late, child, failed, kid, sent, offered>>

(* The fetch is aborted a second after the deadline; the cell goes on.      *)
GivesUp(c) ==
    /\ caller[c] = "waits" /\ cell[c] \in {"queued", "starting", "pending"}
    /\ late[c] # "no" \/ cell[c] # "pending"
    /\ caller' = [caller EXCEPT ![c] = "gaveUp"]
    /\ UNCHANGED <<cell, chain, got, late, child, failed, kid, sent, offered>>

(* The probe of /health takes over the capabilities the host lists.         *)
Probe ==
    /\ offered' = IsReady
    /\ UNCHANGED <<cell, chain, got, late, child, failed, kid, sent, caller>>

-----------------------------------------------------------------------------
(* The manager *)

(* Each c in cs is answered, by what; they leave the chain.                 *)
Answered(cs, what) ==
    /\ cell' = [c \in Cells |-> IF c \in cs THEN what ELSE cell[c]]
    /\ caller' = [c \in Cells |-> IF c \in cs /\ caller[c] = "waits"
                                  THEN "answered" ELSE caller[c]]
    /\ chain' = IF chain # <<>> /\ Head(chain) \in cs THEN Tail(chain) ELSE chain

(* executeNow from the promise on, and resetNow: the command is written to  *)
(* the child's pipe.                                                        *)
Written(c) ==
    /\ cell' = [cell EXCEPT ![c] = "pending"]
    /\ kid' = [kid EXCEPT ![child].does = c]

ExecuteNow ==
    /\ chain # <<>> /\ cell[Head(chain)] = "queued"
    /\ LET c == Head(chain)
       IN  \/ /\ c \notin Resets
              /\ Answered({c}, "expired")
              /\ UNCHANGED <<child, failed, kid>>
           \/ /\ c \in Resets /\ ~(child # 0 /\ ~kid[child].seen)
              /\ Answered({c}, "ok")
              /\ UNCHANGED <<child, failed, kid>>
           \/ /\ IF c \in Resets THEN child # 0 /\ ~kid[child].seen ELSE IsReady
              /\ Written(c)
              /\ UNCHANGED <<chain, caller, child, failed>>
           \/ /\ c \notin Resets /\ ~IsReady
              /\ \E k \in Kids :
                   /\ kid[k].state = "unborn"
                   /\ \A j \in 1..(k - 1) : kid[j].state # "unborn"
                   /\ kid' = [kid EXCEPT ![k].state = "booting"]
                   /\ child' = k
              /\ failed' = FALSE
              /\ cell' = [cell EXCEPT ![c] = "starting"]
              /\ UNCHANGED <<chain, caller>>
    /\ UNCHANGED <<got, late, sent, offered>>

(* The ready line resolves start; the cell is written if nothing has        *)
(* happened to the child since.                                             *)
Ready ==
    /\ chain # <<>> /\ cell[Head(chain)] = "starting"
    /\ child # 0 /\ kid[child].state \in {"idle", "busy"}
    /\ IF IsReady
       THEN Written(Head(chain)) /\ UNCHANGED <<chain, caller>>
       ELSE Answered({Head(chain)}, "error") /\ UNCHANGED kid
    /\ UNCHANGED <<got, late, child, failed, sent, offered>>

(* start gives up; the child stays, and passes for ready.                   *)
ReadyTimesOut ==
    /\ chain # <<>> /\ cell[Head(chain)] = "starting"
    /\ Answered({Head(chain)}, "error")
    /\ UNCHANGED <<got, late, child, failed, kid, sent, offered>>

(* A reset that is not acknowledged in time.                                *)
ResetTimesOut(c) ==
    /\ c \in Resets /\ cell[c] = "pending"
    /\ Answered({c}, "error")
    /\ UNCHANGED <<got, late, child, failed, kid, sent, offered>>

(* As if a restart replaced the child and nothing else.                     *)
Restart_Forgets(k, what) ==
    /\ child' = 0 /\ failed' = TRUE
    /\ kid' = [kid EXCEPT ![k].state = "dead", ![k].seen = TRUE, ![k].does = None]
    /\ UNCHANGED <<cell, chain, caller>>

(* restart: the child is killed, and all that is pending fails.             *)
Restart(k, what) ==
    /\ child' = 0 /\ failed' = TRUE
    /\ kid' = [kid EXCEPT ![k].state = "dead", ![k].seen = TRUE, ![k].does = None]
    /\ Answered({c \in Cells : cell[c] \in {"starting", "pending"}}, what)

(* The exit event; one of a child that was replaced is ignored.             *)
ExitSeen(k) ==
    /\ kid[k].state = "dead" /\ ~kid[k].seen
    /\ IF child = k
       THEN Restart(k, "lost")
       ELSE /\ kid' = [kid EXCEPT ![k].seen = TRUE]
            /\ UNCHANGED <<cell, chain, child, failed, caller>>
    /\ UNCHANGED <<got, late, sent, offered>>

(* What SIGINT does: it interrupts the cell; it is ignored, if a cell has   *)
(* asked for that; or it ends the child, as one that boots, or waits for    *)
(* its next command outside of any try.                                     *)
Interrupted(k) ==
    \/ /\ kid[k].state = "busy"
       /\ kid' = [kid EXCEPT ![k].state = "idle", ![k].does = None]
       /\ sent' = [sent EXCEPT ![kid[k].does] = Parts]
    \/ /\ kid[k].state # "booting"
       /\ UNCHANGED <<kid, sent>>
    \/ /\ Living(k)
       /\ kid' = [kid EXCEPT ![k].state = "dead", ![k].does = None]
       /\ UNCHANGED sent

Deadline(c) ==
    /\ c \notin Resets /\ cell[c] = "pending" /\ late[c] = "no"
    /\ child # 0 /\ ~kid[child].seen
    /\ late' = [late EXCEPT ![c] = IF Living(child) THEN "signalled" ELSE "grace"]
    /\ Interrupted(child)
    /\ UNCHANGED <<cell, chain, got, child, failed, offered, caller>>

Escalates(c) ==
    /\ cell[c] = "pending" /\ late[c] # "no"
    /\ child # 0 /\ Restart(child, "lost")
    /\ UNCHANGED <<got, late, sent, offered>>

(* A part arrives: the result line by the control channel of the present    *)
(* child, a marker on stdout or stderr; the last one completes the answer.  *)
Arrives(c, part) ==
    /\ part \in sent[c]
    /\ sent' = [sent EXCEPT ![c] = @ \ {part}]
    /\ LET have == got[c] \cup {part}
           wanted == IF c \in Resets THEN {"result"} ELSE Parts
       IN  IF cell[c] # "pending"
           THEN UNCHANGED <<got, cell, chain, caller>>
           ELSE /\ got' = [got EXCEPT ![c] = have]
                /\ IF have = wanted
                   THEN Answered({c}, IF late[c] = "signalled" THEN "intact" ELSE "ok")
                   ELSE UNCHANGED <<cell, chain, caller>>
    /\ UNCHANGED <<late, child, failed, kid, offered>>

-----------------------------------------------------------------------------
(* The child: the loop of the bootstrap program *)

Boots(k) ==
    /\ kid[k].state = "booting"
    /\ kid' = [kid EXCEPT ![k].state = "idle"]
    /\ UNCHANGED <<cell, chain, got, late, child, failed, sent, offered, caller>>

Begins(k) ==
    /\ kid[k].state = "idle" /\ kid[k].does # None
    /\ kid' = [kid EXCEPT ![k].state = "busy"]
    /\ UNCHANGED <<cell, chain, got, late, child, failed, sent, offered, caller>>

Finishes(k) ==
    /\ kid[k].state = "busy"
    /\ sent' = [sent EXCEPT ![kid[k].does] =
                  IF kid[k].does \in Resets THEN {"result"} ELSE Parts]
    /\ kid' = [kid EXCEPT ![k].state = "idle", ![k].does = None]
    /\ UNCHANGED <<cell, chain, got, late, child, failed, offered, caller>>

Dies(k) ==
    /\ Living(k)
    /\ kid' = [kid EXCEPT ![k].state = "dead", ![k].does = None]
    /\ UNCHANGED <<cell, chain, got, late, child, failed, sent, offered, caller>>

-----------------------------------------------------------------------------
Next ==
    \/ \E c \in Cells : Execute(c)
    \/ \E c \in Cells : GivesUp(c)
    \/ Probe
    \/ ExecuteNow
    \/ Ready
    \/ ReadyTimesOut
    \/ \E c \in Cells : ResetTimesOut(c)
    \/ \E k \in Kids : ExitSeen(k)
    \/ \E c \in Cells : Deadline(c)
    \/ \E c \in Cells : Escalates(c)
    \/ \E c \in Cells, part \in Parts : Arrives(c, part)
    \/ \E k \in Kids : Boots(k)
    \/ \E k \in Kids : Begins(k)
    \/ \E k \in Kids : Finishes(k)
    \/ \E k \in Kids : Dies(k)

Spec == Init /\ [][Next]_kernelVars

CellAnswered(c) == cell[c] \in Answers

(* Every cell that was asked for gets an answer, whatever the program in it *)
(* and its interpreter do.                                                  *)
EveryCellAnswered ==
    \A c \in Cells : cell[c] = "queued" ~> CellAnswered(c)

KernelFairness ==
    /\ WF_kernelVars(ExecuteNow) /\ WF_kernelVars(Ready) /\ WF_kernelVars(ReadyTimesOut)
    /\ \A c \in Cells : /\ WF_kernelVars(ResetTimesOut(c))
                        /\ WF_kernelVars(Deadline(c))
                        /\ WF_kernelVars(Escalates(c))
    /\ \A k \in Kids : WF_kernelVars(ExitSeen(k))

FairSpec == Spec /\ KernelFairness
=============================================================================
