------------------------------- MODULE McpTools -------------------------------
(***************************************************************************)
(* The MCP servers of a worker and the tools they lend the agent           *)
(* (niri-runtime/mcp.ts).  Boot connects the configured servers one by one *)
(* and begins without those that do not answer; a timer retries them.  A   *)
(* round of retries may last longer than the timer's interval, so rounds   *)
(* overlap, and one may be under way when the worker stops.                *)
(*                                                                         *)
(* A name is a public one (publicToolName: normalized, with the server's   *)
(* name); a name that is too long fails a server as a timeout does.        *)
(***************************************************************************)
EXTENDS Naturals, FiniteSets, Sequences, SequencesExt

CONSTANTS
    Servers,    \* the configured servers, in their order
    Pages,      \* the names that each one lists, page after page
    Mistakes,   \* the sets of servers that may lack both url and command
    Rounds      \* rounds that may be under way; the first one is the boot

McpAssumption ==
    /\ IsInjective(Servers) /\ UNION Mistakes \subseteq ToSet(Servers) /\ ToSet(Servers) \subseteq DOMAIN Pages
    /\ \A s \in ToSet(Servers) : Len(Pages[s]) > 0
    /\ Rounds \in Nat \ {0}

VARIABLES
    phase,      \* "boot", "up", "failed" or "stopped"
    pending,    \* servers that are to be connected
    retrying,   \* whether the retry timer runs
    round,      \* what each round has to do, and how far it is
    sessions,   \* the servers of the registered sessions, in order
    offered,    \* toolDefinitions: the names and their servers
    owner,      \* toolOwners: the server that each name leads to
    invalid,    \* the configured servers without url and command
    answering,  \* servers that can be reached, from some time on
    overlapped  \* whether two rounds were ever under way at once

mcpVars == <<phase, pending, retrying, round, sessions, offered, owner, invalid, answering, overlapped>>

NoRound == [todo |-> <<>>, page |-> 0, got |-> <<>>]
Active(r) == round[r].todo # <<>>
Server(r) == Head(round[r].todo)
NamesOf(s) == FlattenSeq(Pages[s])

McpInit ==
    /\ phase = "boot" /\ pending = ToSet(Servers) /\ retrying = FALSE /\ overlapped = FALSE
    /\ round = [r \in 1..Rounds |-> IF r = 1 THEN [NoRound EXCEPT !.todo = Servers] ELSE NoRound]
    /\ sessions = <<>> /\ offered = <<>> /\ owner = <<>>
    /\ answering = {} /\ invalid \in Mistakes

-----------------------------------------------------------------------------
(* The loop of boot or of a round goes on to its next server; after the last*)
(* one boot starts the timer if any server is left, and a round stops it if *)
(* none is.                                                                 *)
GoesOn(r, left) ==
    LET todo == Tail(round[r].todo)
    IN  /\ round' = [round EXCEPT ![r] = [NoRound EXCEPT !.todo = todo]]
        /\ IF todo # <<>> THEN UNCHANGED <<phase, retrying>>
           ELSE IF phase = "boot" THEN phase' = "up" /\ retrying' = (left # {})
           ELSE retrying' = (retrying /\ left # {}) /\ UNCHANGED phase
        /\ pending' = left

(* stopMcpServers: the timer, the sessions and the tools; not a round that  *)
(* is under way.                                                            *)
Clears == /\ retrying' = FALSE /\ sessions' = <<>> /\ offered' = <<>> /\ owner' = <<>>

(* A wrong configuration and a name that is taken end the boot; a later     *)
(* round takes them for a failure of the server.                            *)
Refused(r) ==
    /\ IF phase = "boot"
       THEN /\ phase' = "failed" /\ Clears /\ UNCHANGED pending
            /\ round' = [round EXCEPT ![r] = NoRound]
       ELSE GoesOn(r, pending) /\ UNCHANGED <<sessions, offered, owner>>
    /\ UNCHANGED <<invalid, answering, overlapped>>

NoTransport(r) == /\ Active(r) /\ round[r].page = 0 /\ Server(r) \in invalid
                  /\ Refused(r)

(* connect, which takes up to 30 seconds                                    *)
Connect(r) ==
    /\ Active(r) /\ round[r].page = 0 /\ Server(r) \notin invalid
    /\ round' = [round EXCEPT ![r].page = 1]
    /\ UNCHANGED <<phase, pending, retrying, sessions, offered, owner, invalid, answering, overlapped>>

(* No answer in time, to connect or to listTools; a client that was         *)
(* connected by then stays open, though nothing knows of it.                *)
NoAnswer(r) ==
    /\ Active(r) /\ Server(r) \notin invalid \cup answering
    /\ GoesOn(r, pending)
    /\ UNCHANGED <<sessions, offered, owner, invalid, answering, overlapped>>

(* One page of listTools: each name must not have an owner yet.             *)
Taken(name) == name \in DOMAIN owner
Taken_Never(name) == FALSE
Listed(r) == Pages[Server(r)][round[r].page]
ListPage(r) ==
    /\ Active(r) /\ round[r].page \in 1..Len(Pages[Server(r)]) - 1
    /\ \A name \in ToSet(Listed(r)) : ~Taken(name)
    /\ round' = [round EXCEPT ![r].page = @ + 1, ![r].got = @ \o Listed(r)]
    /\ UNCHANGED <<phase, pending, retrying, sessions, offered, owner, invalid, answering, overlapped>>
Duplicate(r) ==
    /\ Active(r) /\ round[r].page > 0
    /\ \E name \in ToSet(Listed(r)) : Taken(name)
    /\ Refused(r)

(* The last page: all tools are registered at once, and the server is done. *)
Register(r) ==
    /\ Active(r) /\ round[r].page = Len(Pages[Server(r)])
    /\ \A name \in ToSet(Listed(r)) : ~Taken(name)
    /\ LET s == Server(r)
           names == round[r].got \o Listed(r)
       IN  /\ sessions' = Append(sessions, s)
           /\ offered' = offered \o [i \in DOMAIN names |-> [name |-> names[i], server |-> s]]
           /\ owner' = [name \in ToSet(names) |-> s] @@ owner
           /\ GoesOn(r, pending \ {s})
    /\ UNCHANGED <<invalid, answering, overlapped>>

(* setInterval: a round for what is still pending, whether or not the round *)
(* before it has ended.                                                     *)
Tick ==
    /\ phase = "up" /\ retrying /\ pending # {}
    /\ \E r \in 1..Rounds : /\ ~Active(r) /\ \A q \in 1..r - 1 : Active(q)
                            /\ round' = [round EXCEPT ![r].todo = SelectSeq(Servers, LAMBDA s : s \in pending)]
    /\ overlapped' = (overlapped \/ \E r \in 1..Rounds : Active(r))
    /\ UNCHANGED <<phase, pending, retrying, sessions, offered, owner, invalid, answering>>

Stop == /\ phase = "up" /\ phase' = "stopped" /\ Clears
        /\ UNCHANGED <<pending, round, invalid, answering, overlapped>>

Answers == /\ \E s \in ToSet(Servers) \ answering : answering' = answering \cup {s}
           /\ UNCHANGED <<phase, pending, retrying, round, sessions, offered, owner, invalid, overlapped>>

Step(r) == NoTransport(r) \/ Connect(r) \/ NoAnswer(r) \/ ListPage(r) \/ Duplicate(r) \/ Register(r)
McpNext == Tick \/ Stop \/ Answers \/ \E r \in 1..Rounds : Step(r)

-----------------------------------------------------------------------------
Offers(name) == {i \in DOMAIN offered : offered[i].name = name}
McpTypeOK == /\ phase \in {"boot", "up", "failed", "stopped"} /\ pending \subseteq ToSet(Servers)
             /\ ToSet(sessions) \subseteq ToSet(Servers)

(* What the model is offered can be called: every name leads to a server    *)
(* that listed it and has a session, and nothing is called that is not      *)
(* offered (mcp.ts).                                                        *)
OfferedCanBeCalled ==
    /\ DOMAIN owner = {offered[i].name : i \in DOMAIN offered}
    /\ \A name \in DOMAIN owner : /\ owner[name] \in ToSet(sessions)
                                  /\ name \in ToSet(NamesOf(owner[name]))

(* A name is offered once, unless rounds overlapped or one server's own     *)
(* names fall together; it is then the last one that answers.               *)
OfferedOnce ==
    \A name \in DOMAIN owner :
        \/ Cardinality(Offers(name)) = 1
        \/ overlapped
        \/ Cardinality({i \in DOMAIN NamesOf(owner[name]) : NamesOf(owner[name])[i] = name}) > 1

(* Once the worker is up each server has a session or is retried for as long*)
(* as it has none, and a boot that failed leaves no tool behind.            *)
RetriedOrRegistered ==
    /\ phase = "up" => \A s \in ToSet(Servers) : s \in ToSet(sessions) \/ (s \in pending /\ retrying)
    /\ phase = "failed" => offered = <<>> /\ sessions = <<>>

ToolsHold == OfferedCanBeCalled /\ OfferedOnce /\ RetriedOrRegistered

(* A server that answers, and whose names no other has, lends its tools in  *)
(* the end, though rounds are stuck in others that do not answer.           *)
Sound(s) == s \notin invalid /\ \A t \in ToSet(Servers) \ {s} : ToSet(NamesOf(s)) \cap ToSet(NamesOf(t)) = {}
ReachableIsOffered ==
    \A s \in ToSet(Servers) :
        Sound(s) /\ s \in answering /\ phase = "up" ~> s \in ToSet(sessions) \/ phase = "stopped"
===============================================================================
