----------------------------- MODULE MessageIndex -----------------------------
(***************************************************************************)
(* The semantic index of stored Discord messages (discord/search.ts).  The   *)
(* backfill embeds the messages that have no vector of the present model,    *)
(* batch by batch, oldest first; a search of a channel does the same for     *)
(* that channel before it asks.  A batch that fails is tried again by        *)
(* halves.  Between the choice of a batch and the writing of its vectors     *)
(* the provider is asked (embeddings.ts), and messages come and change.      *)
(***************************************************************************)
EXTENDS Naturals, FiniteSets, FiniteSetsExt, Sequences, SequencesExt

CONSTANTS
    Rows,           \* 1 .. n, the ids of messages
    Channel,        \* the rows of the channel that is searched
    Poisons,        \* the sets of rows whose text the provider may always refuse
    BatchSize,      \* DISCORD_EMBEDDING_BATCH_SIZE
    CatchUp,        \* DISCORD_SEARCH_CATCHUP_BATCH_SIZE
    Edited,         \* bound: the rows whose stored text changes, once each
    MaxFaults,      \* bound: passing failures and short answers of the provider
    MaxModels       \* bound: restarts that bring another EMBEDDING_MODEL

MessageIndexAssumption ==
    /\ IsFiniteSet(Rows) /\ Rows = 1 .. Cardinality(Rows)
    /\ Channel \subseteq Rows /\ \A p \in Poisons : p \subseteq Rows
    /\ BatchSize \in Nat \ {0} /\ CatchUp \in Nat \ {0}
    /\ Edited \subseteq Rows /\ MaxFaults \in Nat /\ MaxModels \in Nat \ {0}

Callers == {"backfill", "search"}

VARIABLES
    text,       \* the version of each message's text, 0 while it is not stored
    vector,     \* discord_message_vec and its meta row: the model and the text behind each vector
    model,      \* EMBEDDING_MODEL of the process
    batch,      \* the sync each caller has under way
    found,      \* what the last search answered
    refused,    \* the rows whose text the provider refuses
    omitted,    \* the rows that an answer of the provider left out
    trouble     \* bound: passing failures so far

indexVars == <<text, vector, model, batch, found, refused, omitted, trouble>>

NoVector == [model |-> 0, text |-> 0]
NoSync == [at |-> "idle"]

IndexInit ==
    /\ text = [m \in Rows |-> 0] /\ vector = [m \in Rows |-> NoVector]
    /\ model = 1 /\ batch = [c \in Callers |-> NoSync] /\ found = "nothing"
    /\ refused \in Poisons /\ omitted = {} /\ trouble = 0

---------------------------------------------------------------------------
Store(m) ==
    /\ text[m] = 0 /\ text' = [text EXCEPT ![m] = 1]
    /\ UNCHANGED <<vector, model, batch, found, refused, omitted, trouble>>
Edit(m) ==
    /\ m \in Edited /\ text[m] = 1 /\ text' = [text EXCEPT ![m] = @ + 1]
    /\ UNCHANGED <<vector, model, batch, found, refused, omitted, trouble>>

---------------------------------------------------------------------------
(* A row is chosen for lack of a vector of this model; its text is not        *)
(* compared with the one that was hashed.                                   *)
Pending(among) == {m \in among : text[m] > 0 /\ vector[m].model # model}
InOrder(ms) == CHOOSE q \in [1 .. Cardinality(ms) -> ms] : \A i, j \in DOMAIN q : i < j => q[i] < q[j]
Oldest(ms, limit) == LET ids == InOrder(ms) IN SubSeq(ids, 1, Min({limit, Len(ids)}))
Batch(c) == IF c = "search" THEN Oldest(Pending(Channel), CatchUp) ELSE Oldest(Pending(Rows), BatchSize)

Select(c) ==
    /\ batch[c].at = "idle" /\ (c = "search" => found = "nothing")
    /\ batch' = [batch EXCEPT ![c] =
          IF Batch(c) = <<>> THEN [at |-> "done", picked |-> <<>>]
          ELSE [at |-> "embedding", picked |-> Batch(c),
                todo |-> << [i \in DOMAIN Batch(c) |-> [id |-> Batch(c)[i], text |-> text[Batch(c)[i]]]] >>]]
    /\ UNCHANGED <<text, vector, model, found, refused, omitted, trouble>>

(* The vectors of one call are written in one transaction.  A row for which   *)
(* the provider sent none keeps what it has.                                *)
Embedded(rows, upto) ==
    [m \in Rows |-> LET at == {i \in 1 .. upto : rows[i].id = m} IN
        IF at = {} THEN vector[m] ELSE [model |-> model, text |-> rows[Max(at)].text]]

Answer(c, upto) ==
    /\ batch[c].at = "embedding"
    /\ LET rows == Head(batch[c].todo)
           rest == Tail(batch[c].todo) IN
          /\ \A i \in DOMAIN rows : rows[i].id \notin refused
          /\ upto \in {Len(rows), Len(rows) - 1}
          /\ upto < Len(rows) => trouble < MaxFaults
          /\ vector' = Embedded(rows, upto)
          /\ omitted' = omitted \cup {rows[i].id : i \in (upto + 1) .. Len(rows)}
          /\ trouble' = trouble + (Len(rows) - upto)
          /\ batch' = [batch EXCEPT ![c] =
                IF rest = <<>> THEN [at |-> "done", picked |-> @.picked] ELSE [@ EXCEPT !.todo = rest]]
    /\ UNCHANGED <<text, model, found, refused>>

(* The halves of a batch that failed, the older half first.                  *)
Midpoint(rows) == (Len(rows) + 1) \div 2
Halves_YoungerFirst(rows) ==
    << SubSeq(rows, Midpoint(rows) + 1, Len(rows)), SubSeq(rows, 1, Midpoint(rows)) >>
Halves(rows) == << SubSeq(rows, 1, Midpoint(rows)), SubSeq(rows, Midpoint(rows) + 1, Len(rows)) >>

Refuse(c) ==
    /\ batch[c].at = "embedding"
    /\ LET rows == Head(batch[c].todo)
           rest == Tail(batch[c].todo)
           poisoned == \E i \in DOMAIN rows : rows[i].id \in refused IN
          /\ poisoned \/ trouble < MaxFaults
          /\ trouble' = IF poisoned THEN trouble ELSE trouble + 1
          /\ batch' = [batch EXCEPT ![c] =
                IF Len(rows) <= 1 THEN [at |-> "failed", picked |-> @.picked, row |-> rows[1].id]
                ELSE [@ EXCEPT !.todo = Halves(rows) \o rest]]
    /\ UNCHANGED <<text, vector, model, found, refused, omitted>>

(* The backfill sleeps and ticks again, whatever came of the batch.          *)
Tick ==
    /\ batch["backfill"].at \in {"done", "failed"}
    /\ batch' = [batch EXCEPT !["backfill"] = NoSync]
    /\ UNCHANGED <<text, vector, model, found, refused, omitted, trouble>>

(* The search fails with its sync; or it asks for the vector of the query and *)
(* answers with the rows that have one, by keyword if there are none.        *)
Search ==
    /\ batch["search"].at \in {"done", "failed"}
    /\ found' = CASE batch["search"].at = "failed" -> "error"
                  [] batch["search"].at = "done" /\ \E m \in Channel : vector[m] # NoVector -> "semantic"
                  [] OTHER -> "keyword"
    /\ batch' = [batch EXCEPT !["search"] = NoSync]
    /\ UNCHANGED <<text, vector, model, refused, omitted, trouble>>

(* A restart loses the syncs; the vectors of the old model stay until theirs  *)
(* is the turn.                                                             *)
ChangeModel ==
    /\ model < MaxModels /\ model' = model + 1
    /\ batch' = [c \in Callers |-> NoSync] /\ omitted' = {} /\ found' = "nothing"
    /\ UNCHANGED <<text, vector, refused, trouble>>

Backfills == Tick \/ Select("backfill") \/ Refuse("backfill")
             \/ \E upto \in Rows \cup {0} : Answer("backfill", upto)
IndexNext ==
    \/ \E m \in Rows : Store(m) \/ Edit(m)
    \/ Backfills \/ Select("search") \/ Refuse("search") \/ Search \/ ChangeModel
    \/ \E upto \in Rows \cup {0} : Answer("search", upto)

IndexSpec == IndexInit /\ [][IndexNext]_indexVars

(* The timer of the backfill fires, and the provider answers.                *)
IndexFairness == WF_indexVars(Backfills)
IndexFairSpec == IndexSpec /\ IndexFairness

---------------------------------------------------------------------------
IndexTypeOK ==
    /\ text \in [Rows -> 0 .. 2] /\ model \in 1 .. MaxModels
    /\ \A c \in Callers : batch[c].at \in {"idle", "embedding", "done", "failed"}
    /\ found \in {"nothing", "error", "semantic", "keyword"}
    /\ omitted \subseteq Rows /\ trouble \in 0 .. MaxFaults

(* Halving tries the rows in order and passes none over: those older than the *)
(* one that made it fail are embedded, and when it did not fail all are.     *)
HalvingPassesNone ==
    \A c \in Callers : batch[c].at \in {"done", "failed"} =>
       \A i \in DOMAIN batch[c].picked : LET m == batch[c].picked[i] IN
          \/ vector[m].model = model \/ m \in omitted
          \/ batch[c].at = "failed" /\ m >= batch[c].row

(* Every message older than any that the provider refuses comes to have a    *)
(* vector of the model that stays.                                          *)
BacklogDrains ==
    \A m \in Rows : (text[m] > 0 /\ \A p \in refused : p > m) ~> vector[m].model = model
===============================================================================
