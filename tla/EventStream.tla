----------------------------- MODULE EventStream -----------------------------
(***************************************************************************)
(* How an agent's events reach a browser: the worker's outbox              *)
(* (niri-runtime/awp/outbox.ts), its replayed stream and listing           *)
(* (server.ts), the control plane's mirror of them (control/db.ts,         *)
(* control/server.ts), and a page that loads a tail of them and follows    *)
(* the stream (apps/web/src/App.tsx).                                      *)
(*                                                                         *)
(* An event is its sequence number; 0 is one that is not persisted.  What  *)
(* events say, their compaction for chats and the other routes, which only *)
(* pass a request on, are left out.                                        *)
(***************************************************************************)
EXTENDS Integers, Sequences, FiniteSets, SequencesExt

CONSTANTS
    MaxSeq,     \* bound: events persisted
    MaxWire,    \* bound: events under way in a stream
    MaxRestarts,\* bound: restarts of the worker and of the control plane
    TailRows,   \* AWP_REPLAY_TAIL_ROWS
    PruneEvery, \* PRUNE_EVERY_PERSISTED_EVENTS, PRUNE_EVERY_RECORDED_EVENTS
    PageRows       \* rows a listing or a replay returns

StreamAssumption ==
    /\ {MaxSeq, MaxWire, MaxRestarts, TailRows} \subseteq Nat
    /\ {PruneEvery, PageRows} \subseteq Nat \ {0}

VARIABLES
    outbox,     \* the worker's rows; the last number given; persisted since
                \* the last pruning; restarts of the process
    mirror,     \* the same of the control plane; last is the highest number
                \* recorded so far, which pruning leaves in the table
    agentRow,   \* the agent's row in the table of agents, and its last_seq
    stream,     \* the page's stream: whether it is open, where it began,
                \* what it skipped, what it has brought, what is under way
    page,       \* the events shown, the agent.lastSeq it knows
    load        \* the page's listing under way: its stage and rows

streamVars == <<outbox, mirror, agentRow, stream, page, load>>

Seqs == 1..MaxSeq
Top(rows) == IF rows = {} THEN 0 ELSE CHOOSE s \in rows : \A t \in rows : t <= s

(* pruneWorkerEvents, pruneMirroredEvents: the rows up to the cutoff go.    *)
Cutoff(rows) == Top(rows) - TailRows
Pruned(rows) == IF TailRows = 0 THEN {} ELSE {s \in rows : Cutoff(rows) <= 0 \/ s > Cutoff(rows)}

(* As if the cursor were the first event to send.                           *)
After_Next(rows, seq) ==
    {s \in rows : s > seq + 1 /\ Cardinality({t \in rows : t > seq /\ t < s}) < PageRows}

(* listWorkerEvents, listMirroredEvents.                                    *)
After(rows, seq) ==
    {s \in rows : s > seq /\ Cardinality({t \in rows : t > seq /\ t < s}) < PageRows}
TailOf(rows) == {s \in rows : Cardinality({t \in rows : t > s}) < PageRows}

(* "order by seq asc"                                                       *)
Ascending(rows) ==
    CHOOSE q \in [1..Cardinality(rows) -> rows] : \A i, j \in DOMAIN q : i < j => q[i] < q[j]

NoRows == [rows |-> {}, last |-> 0, since |-> 0, restarts |-> 0]
Closed == [open |-> FALSE, from |-> 0, skipped |-> {}, brought |-> {}, wire |-> <<>>]
NoLoad == [stage |-> "none", rows |-> {}]
NewRow == [listed |-> TRUE, lastSeq |-> 0]
NoRow == [listed |-> FALSE, lastSeq |-> 0]

(* The worker has registered for the first time.                            *)
StreamInit ==
    /\ outbox = NoRows /\ mirror = NoRows /\ agentRow = NewRow
    /\ stream = Closed /\ page = [shown |-> {}, known |-> 0] /\ load = NoLoad

-----------------------------------------------------------------------------
(* The worker *)

Counted(box, rows, last, count) ==
    LET due == box.since + count >= PruneEvery
    IN  [box EXCEPT !.rows = IF due THEN Pruned(rows) ELSE rows,
                    !.last = last, !.since = IF due THEN 0 ELSE @ + count]

(* publishWorkerEvent: heartbeats, most metrics and most pieces of a turn   *)
(* go to the listeners only.                                                *)
Publish(persisted) ==
    LET seq == IF persisted THEN outbox.last + 1 ELSE 0
    IN  /\ persisted => outbox.last < MaxSeq
        /\ Len(stream.wire) < MaxWire
        /\ outbox' = IF persisted THEN Counted(outbox, outbox.rows \cup {seq}, seq, 1) ELSE outbox
        /\ stream' = IF stream.open THEN [stream EXCEPT !.wire = Append(@, seq)] ELSE stream
        /\ UNCHANGED <<mirror, agentRow, page, load>>

(* A restart breaks the streams and forgets how much there is to prune.     *)
(* The worker's exit, or the loss of its connection, removes the agent, but *)
(* not if its next connection replaces the one it had.                      *)
WorkerRestarts ==
    /\ outbox.restarts + mirror.restarts < MaxRestarts
    /\ outbox' = [outbox EXCEPT !.since = 0, !.restarts = @ + 1]
    /\ agentRow' \in {agentRow, NoRow}
    /\ stream' = [Closed EXCEPT !.brought = stream.brought]
    /\ UNCHANGED <<mirror, page, load>>

-----------------------------------------------------------------------------
(* The control plane *)

(* upsertAgent: a worker is ready or dials in; the row starts at 0 again    *)
(* unless it is still there.  deleteAgent: the worker has exited, is being  *)
(* stopped, was taken out of the configuration, or its connection is lost;  *)
(* the recorded events stay.                                                *)
Register ==
    /\ ~agentRow.listed
    /\ agentRow' = NewRow
    /\ UNCHANGED <<outbox, mirror, stream, page, load>>

Unregister ==
    /\ agentRow.listed
    /\ agentRow' = NoRow
    /\ UNCHANGED <<outbox, mirror, stream, page, load>>

(* recordWorkerEvent: a row that is there already is left alone, and counts *)
(* all the same.                                                            *)
LastSeq(m, seq) == IF seq > m.last THEN seq ELSE m.last
Recorded(m, seq) == Counted(m, m.rows \cup {seq}, LastSeq(m, seq), 1)

(* updateAgentStatus: last_seq rises to what was recorded, in a row that is *)
(* there.                                                                   *)
Seen(rows) ==
    LET last == Top(rows \cup {agentRow.lastSeq})
    IN  agentRow' = IF agentRow.listed THEN [agentRow EXCEPT !.lastSeq = last] ELSE agentRow

(* mirrorWorkerEvents: one after the other.                                 *)
Mirrored(m, rows) ==
    LET seqs == Ascending(rows)
        recorded[n \in 0..Len(seqs)] ==
            IF n = 0 THEN m ELSE Recorded(recorded[n - 1], seqs[n])
    IN  recorded[Len(seqs)]

(* proxyWorkerStream: a block is passed on and recorded.                    *)
Forward ==
    /\ stream.open /\ stream.wire # <<>>
    /\ LET seq == Head(stream.wire)
       IN  /\ mirror' = Recorded(mirror, seq) /\ Seen({seq})
           /\ page' = [page EXCEPT !.shown = @ \cup {seq}]
           /\ stream' = [stream EXCEPT !.wire = Tail(@), !.brought = @ \cup {seq}]
    /\ UNCHANGED <<outbox, load>>

(* GET /agents/:id/events: the rows of a registered worker, if it answers,  *)
(* are recorded, and the answer is the tail of the mirror.                  *)
WorkerLists ==
    /\ load.stage = "asked" /\ agentRow.listed
    /\ \/ load' = [stage |-> "listed", rows |-> TailOf(outbox.rows)]
       \/ load' = [stage |-> "listed", rows |-> {}]
    /\ UNCHANGED <<outbox, mirror, agentRow, stream, page>>

ControlLists ==
    /\ load.stage = "listed"
    /\ mirror' = Mirrored(mirror, load.rows) /\ Seen(load.rows)
    /\ load' = [stage |-> "answered", rows |-> TailOf(mirror'.rows)]
    /\ UNCHANGED <<outbox, stream, page>>

(* POST /agents/:id/events: after the command has gone through, what the    *)
(* worker has since the last_seq of before the call is recorded; the row it *)
(* was read from may have gone since.                                       *)
SyncAfterSend(before) ==
    /\ before \in 0..mirror.last
    /\ LET rows == After(outbox.rows, before)
       IN  mirror' = Mirrored(mirror, rows) /\ Seen(rows)
    /\ UNCHANGED <<outbox, stream, page, load>>

(* A control plane that closes removes the agents it runs, a crash does not. *)
ControlRestarts ==
    /\ outbox.restarts + mirror.restarts < MaxRestarts
    /\ mirror' = [mirror EXCEPT !.since = 0, !.restarts = @ + 1]
    /\ agentRow' \in {agentRow, NoRow}
    /\ stream' = [Closed EXCEPT !.brought = stream.brought]
    /\ load' = NoLoad
    /\ UNCHANGED <<outbox, page>>

-----------------------------------------------------------------------------
(* The page *)

(* loadAgents; another agent object ends the stream and starts a listing.   *)
(* The agents of a configured control plane come without lastSeq, and a     *)
(* stream asked for after "undefined" begins at 0.                          *)
Refresh ==
    /\ \E known \in {0, agentRow.lastSeq} : page' = [page EXCEPT !.known = known]
    /\ stream' = Closed
    /\ load' = [stage |-> "asked", rows |-> {}]
    /\ UNCHANGED <<outbox, mirror, agentRow>>

(* GET /awp/stream: the rows after the last one known, as many as a listing *)
(* returns, and from then on what is published.  Both happen in one turn.   *)
OpenStream ==
    /\ ~stream.open /\ stream.brought = {} /\ agentRow.listed
    /\ LET tooMany(s) == Cardinality({t \in outbox.rows : page.known < t /\ t < s}) >= PageRows
       IN  stream' = [open |-> TRUE, from |-> page.known, brought |-> {},
                      wire |-> Ascending(After(outbox.rows, page.known)),
                      skipped |-> {s \in 1..outbox.last : s \notin outbox.rows \/ tooMany(s)}]
    /\ UNCHANGED <<outbox, mirror, agentRow, page, load>>

(* The answer of a listing replaces what is shown, also what the stream has *)
(* brought meanwhile.  A failed one shows nothing.                          *)
Loaded ==
    /\ load.stage = "answered"
    /\ page' = [page EXCEPT !.shown = load.rows] /\ load' = NoLoad
    /\ UNCHANGED <<outbox, mirror, agentRow, stream>>

LoadFails ==
    /\ load.stage # "none"
    /\ page' = [page EXCEPT !.shown = {}] /\ load' = NoLoad
    /\ UNCHANGED <<outbox, mirror, agentRow, stream>>

-----------------------------------------------------------------------------
StreamNext ==
    \/ \E persisted \in BOOLEAN : Publish(persisted)
    \/ WorkerRestarts \/ Register \/ Unregister \/ Forward \/ WorkerLists \/ ControlLists
    \/ \E before \in 0..MaxSeq : SyncAfterSend(before)
    \/ ControlRestarts \/ Refresh \/ OpenStream \/ Loaded \/ LoadFails

StreamSpec == StreamInit /\ [][StreamNext]_streamVars

StreamTypeOK ==
    /\ outbox \in [rows : SUBSET Seqs, last : 0..MaxSeq, since : 0..PruneEvery,
                   restarts : 0..MaxRestarts]
    /\ mirror \in [rows : SUBSET (0..MaxSeq), last : 0..MaxSeq, since : 0..PruneEvery,
                   restarts : 0..MaxRestarts]
    /\ agentRow \in [listed : BOOLEAN, lastSeq : 0..MaxSeq]
    /\ stream.wire \in Seq(0..MaxSeq) /\ page.shown \subseteq 0..MaxSeq
    /\ load.rows \subseteq 0..MaxSeq

(* An open stream brings, in order, everything persisted after the number   *)
(* it began with, but what the outbox no longer had or a replay could not   *)
(* carry; what it brought is in the mirror until the mirror prunes it.      *)
(* Where it began, and where the next one will, is never ahead of what was  *)
(* recorded, however often the agent's row was removed and made anew.       *)
StreamComplete ==
    /\ stream.open =>
         /\ (stream.from + 1)..outbox.last
              \subseteq stream.skipped \cup stream.brought \cup ToSet(stream.wire)
         /\ \A i, j \in DOMAIN stream.wire :
              i < j /\ stream.wire[j] > 0 => stream.wire[i] < stream.wire[j]
         /\ \A s \in ToSet(stream.wire) \ {0} : \A t \in stream.brought : t < s
         /\ \A s \in stream.brought \ {0} :
              s \in mirror.rows \/ s <= mirror.last - TailRows
    /\ \A position \in {agentRow.lastSeq, page.known, stream.from} : position <= mirror.last

(* Both tables keep the newest rows, and few more: what a process records   *)
(* between two prunings, again for every time it is restarted.              *)
ReplayBounded ==
    /\ {s \in 1..outbox.last : s > outbox.last - TailRows} \subseteq outbox.rows
    /\ \A box \in {outbox, mirror} :
         /\ Cardinality(box.rows) <= TailRows + PruneEvery * (box.restarts + 1)
         /\ TailRows > 0 => Top(box.rows) = box.last

StreamKept == StreamComplete /\ ReplayBounded
=============================================================================
