------------------------------ MODULE Compaction ------------------------------
(***************************************************************************)
(* How an agent's conversation is folded into summaries (packages/         *)
(* agent-context: compactor, summarize, lcm, sqlite-archive) and what of   *)
(* it can be brought back.  A compaction works on a copy of the            *)
(* conversation: bulky tool output is cut to an excerpt, runs of summaries *)
(* of one depth are merged, the older messages become a leaf.  Each node   *)
(* is in the database before the conversation names it, the conversation   *)
(* reaches session.json later, and the process may die between.            *)
(*                                                                         *)
(* A message is a number; texts, token counts and the model's answers are  *)
(* choices: whatever a threshold or a summary's length decides may be      *)
(* decided either way.  Leading system messages, the agent's testimony (a  *)
(* further source of a node) and depths of summaries older than the DAG    *)
(* are left out.                                                           *)
(***************************************************************************)
EXTENDS Integers, Sequences, SequencesExt

CONSTANTS
    MaxMessages,    \* bound: messages said
    MaxNodes,       \* bound: summary nodes
    MaxRestarts,    \* bound: restarts of the process
    Bulky,          \* the messages that are long, unprotected tool output
    Results,        \* the messages that answer a tool call
    MinKeep,        \* recentMinKeep: messages a compaction leaves verbatim
    Batch           \* LCM_SUMMARY_BATCH_SIZE

CompactionAssumption ==
    /\ {MaxMessages, MaxNodes, MaxRestarts, MinKeep} \subseteq Nat
    /\ Bulky \subseteq Results /\ Results \subseteq 2..MaxMessages
    /\ Batch \in Nat \ {0, 1}

VARIABLES
    said,           \* messages said so far, by all sessions
    conversation,   \* state.conversation: a sequence of entries
    working,        \* the copy a compaction works on
    stage,          \* where the compaction, if any, waits for the model
    nodes,          \* context_summaries with their parents and sources
    verbatim,       \* context_messages: what is archived in full
    session,        \* session.json, and the conversation it stands for
    snapshot,       \* rest-snapshot.json, likewise
    restarts,
    past            \* the messages the conversation stands for, in order

contextVars == <<said, conversation, working, stage, nodes, verbatim, session, snapshot, restarts, past>>

(* An entry of a conversation is a message, its excerpt, or a summary.      *)
Entry(is, of, depth) == [is |-> is, of |-> of, depth |-> depth]
Raw(m) == Entry("raw", m, 0)
None == [entries |-> << >>, past |-> << >>, exists |-> FALSE]
File(entries, of) == [entries |-> entries, past |-> of, exists |-> TRUE]

Stages == {"none", "merge", "summarize", "promote", "fold", "foldPromote", "cleared"}

Init ==
    /\ said = 0 /\ conversation = << >> /\ working = << >> /\ stage = "none"
    /\ nodes = << >> /\ verbatim = {} /\ session = None /\ snapshot = None
    /\ restarts = 0 /\ past = << >>

-----------------------------------------------------------------------------
(* The archive *)

IsSummary(entry) == entry.is = "sum"
Summaries(entries) == SelectSeq(entries, IsSummary)
OnlyMessages(entries) == SelectSeq(entries, LAMBDA entry : ~IsSummary(entry))

(* archiveContextMessages and insertMessage: an excerpt is a message of its *)
(* own to the archive, and adds nothing.                                    *)
Archived(entries) == {e.of : e \in {x \in ToSet(entries) : x.is = "raw"}}

(* recordContextCompaction: the node, its parents and its sources.          *)
Record(parents, sources) ==
    /\ Len(nodes) < MaxNodes
    /\ nodes' = Append(nodes, [parents |-> parents, sources |-> sources])
    /\ verbatim' = verbatim \cup Archived(sources)

(* collectSummaryMessageIds: what context_expand pages through.             *)
Expansion ==
    LET f[n \in 1..Len(nodes)] ==
            FlattenSeq([i \in 1..Len(nodes[n].parents) |-> f[nodes[n].parents[i]]])
              \o [i \in 1..Len(nodes[n].sources) |-> nodes[n].sources[i].of]
    IN  f

-----------------------------------------------------------------------------
(* The frontier *)

(* findMergeableContextSummaryBatch: the oldest run of one depth, of Batch  *)
(* neighbours, or one more when only an overflow is merged.                 *)
Run(entries, start, length) ==
    /\ start + length - 1 <= Len(entries)
    /\ \A i \in start..(start + length - 1) :
         IsSummary(entries[i]) /\ entries[i].depth = entries[start].depth

Starts(entries, overflow) ==
    {s \in 1..Len(entries) : Run(entries, s, IF overflow THEN Batch + 1 ELSE Batch)}

CanMerge(entries, overflow) == Starts(entries, overflow) # {}

Oldest(starts) == CHOOSE s \in starts : \A t \in starts : s <= t

(* replaceContextSummaryBatch, after the merge was recorded.                *)
MergedParents(entries, overflow) ==
    LET start == Oldest(Starts(entries, overflow))
    IN  [i \in 1..Batch |-> entries[start + i - 1].of]

(* As if the merged batch were one entry longer.                            *)
Merged_DropsNext(entries, overflow, node) ==
    LET start == Oldest(Starts(entries, overflow))
    IN  SubSeq(entries, 1, start - 1)
          \o <<Entry("sum", node, entries[start].depth + 1)>>
          \o SubSeq(entries, start + Batch + 1, Len(entries))

Merged(entries, overflow, node) ==
    LET start == Oldest(Starts(entries, overflow))
    IN  SubSeq(entries, 1, start - 1)
          \o <<Entry("sum", node, entries[start].depth + 1)>>
          \o SubSeq(entries, start + Batch, Len(entries))

(* batchActiveContextSummariesForPrompt: what the model is shown.           *)
Prompted(entries) ==
    LET first == SelectInSeq(entries, IsSummary)
    IN  IF first = 0 THEN entries
        ELSE SubSeq(entries, 1, first - 1) \o Summaries(entries)
               \o OnlyMessages(SubSeq(entries, first, Len(entries)))

-----------------------------------------------------------------------------
(* The conversation *)

Says ==
    /\ stage = "none" /\ said < MaxMessages
    /\ said' = said + 1
    /\ conversation' = Append(conversation, Raw(said'))
    /\ past' = Append(past, said')
    /\ UNCHANGED <<working, stage, nodes, verbatim, session, snapshot, restarts>>

(* saveSession, at the points where the loop saves.                         *)
Save ==
    /\ stage = "none" /\ conversation # << >>
    /\ session' = File(conversation, past)
    /\ UNCHANGED <<said, conversation, working, stage, nodes, verbatim, snapshot, past, restarts>>

(* The process dies; wake loads the session, or else the last rest.         *)
Restart ==
    LET resumed == IF session.exists THEN session ELSE snapshot
    IN  /\ restarts < MaxRestarts /\ restarts' = restarts + 1
        /\ conversation' = resumed.entries /\ past' = resumed.past
        /\ working' = << >> /\ stage' = "none"
        /\ UNCHANGED <<said, nodes, verbatim, session, snapshot>>

-----------------------------------------------------------------------------
(* maybeCompact *)

(* Leave the conversation as `entries`; what a crash or an error loses is   *)
(* only the copy.                                                           *)
Finish(entries) ==
    conversation' = entries /\ working' = << >> /\ stage' = "none"

Wait(entries, next) ==
    working' = entries /\ stage' = next /\ UNCHANGED conversation

(* pruneToolOutputsForCompaction: bulky output before the protected tail is *)
(* cut, enough of it or none; all of the conversation is archived first.    *)
Pruned(entries, cut) ==
    [i \in 1..Len(entries) |->
        IF entries[i] = Raw(entries[i].of) /\ entries[i].of \in cut
        THEN Entry("cut", entries[i].of, 0) ELSE entries[i]]

Prunable ==
    {m \in Bulky : \E i \in 1..(Len(conversation) - 1) : conversation[i] = Raw(m)}

(* After the cut the prompt may be small enough, no summarizer may be       *)
(* there, or too little may be new to fold again (shouldDefer); then a      *)
(* frontier that can be merged is merged all the same.                      *)
Compact ==
    /\ stage = "none" /\ conversation # << >>
    /\ \E cut \in SUBSET Prunable :
         LET pruned == Pruned(conversation, cut) IN
         /\ verbatim' = IF cut # {} THEN verbatim \cup Archived(conversation) ELSE verbatim
         /\ \/ Finish(pruned)
            \/ Wait(pruned, IF CanMerge(pruned, FALSE) THEN "merge" ELSE "summarize")
    /\ UNCHANGED <<said, nodes, session, snapshot, past, restarts>>

(* consolidateLcmFrontier: the model merges one batch after another, until  *)
(* none is left or it fails; each merge is recorded at once.                *)
Merge(overflow) ==
    /\ CanMerge(working, overflow)
    /\ Record(MergedParents(working, overflow), << >>)
    /\ Wait(Merged(working, overflow, Len(nodes) + 1), stage)
    /\ UNCHANGED <<said, session, snapshot, past, restarts>>

MergeFrontier == stage = "merge" /\ Merge(FALSE)

(* With a merge the compaction is done.  Without one it goes on, unless too *)
(* little was new: then the copy, and a cut made in it, are dropped.        *)
MergeEnds ==
    /\ stage = "merge"
    /\ IF Summaries(working) # Summaries(conversation)
       THEN Finish(working)
       ELSE Finish(conversation) \/ Wait(working, "summarize")
    /\ UNCHANGED <<said, nodes, verbatim, session, snapshot, past, restarts>>

(* chooseTailStart: how many of the messages a leaf takes; what is left     *)
(* begins with no answer to a tool call.                                    *)
Folds(messages, keep) ==
    {n \in 1..(Len(messages) - keep) : n = Len(messages) \/ messages[n + 1].of \notin Results}

(* commitLcmCompaction: the leaf is recorded and takes the place of what it *)
(* folds, after the older summaries.                                        *)
Fold(n, next) ==
    LET messages == OnlyMessages(working) IN
    /\ Record(<< >>, SubSeq(messages, 1, n))
    /\ Wait(Summaries(working) \o <<Entry("sum", Len(nodes) + 1, 0)>>
              \o SubSeq(messages, n + 1, Len(messages)), next)

(* summarizeConversationViaLLM...: no summary, or none that is smaller,     *)
(* leaves the conversation with its cuts.                                   *)
Summarize ==
    /\ stage = "summarize"
    /\ \/ \E n \in Folds(OnlyMessages(working), MinKeep) : Fold(n, "promote")
       \/ Finish(working) /\ UNCHANGED <<nodes, verbatim>>
    /\ UNCHANGED <<said, session, snapshot, past, restarts>>

Promote == stage \in {"promote", "foldPromote"} /\ Merge(TRUE)

PromoteEnds ==
    /\ stage = "promote" /\ Finish(working)
    /\ UNCHANGED <<said, nodes, verbatim, session, snapshot, past, restarts>>

-----------------------------------------------------------------------------
(* rest *)

(* The rest tool archives the conversation and folds all of it; without a   *)
(* summary the session is kept.                                             *)
Rest ==
    /\ stage = "none" /\ conversation # << >>
    /\ verbatim' = verbatim \cup Archived(conversation)
    /\ Wait(conversation, "fold")
    /\ UNCHANGED <<said, nodes, session, snapshot, past, restarts>>

FoldAll ==
    /\ stage = "fold"
    /\ \/ /\ OnlyMessages(working) # << >> /\ Fold(Len(OnlyMessages(working)), "foldPromote")
          /\ UNCHANGED <<session, past>>
       \/ /\ session' = File(conversation, past) /\ conversation' = << >> /\ past' = << >>
          /\ working' = << >> /\ stage' = "none" /\ UNCHANGED <<nodes, verbatim>>
    /\ UNCHANGED <<said, snapshot, restarts>>

(* recordRestContextSnapshot and saveRestSnapshot, then clearSession.       *)
SaveSnapshot ==
    /\ stage = "foldPromote"
    /\ snapshot' = File(Summaries(working), past)
    /\ stage' = "cleared"
    /\ UNCHANGED <<said, conversation, working, nodes, verbatim, session, past, restarts>>

ClearSession ==
    /\ stage = "cleared"
    /\ session' = None /\ stage' = "none"
    /\ conversation' = << >> /\ past' = << >> /\ working' = << >>
    /\ UNCHANGED <<said, nodes, verbatim, snapshot, restarts>>

(* The next wake, of an agent that rests.                                   *)
Wake ==
    /\ stage = "none" /\ conversation = << >>
    /\ LET resumed == IF session.exists THEN session ELSE snapshot
       IN  resumed.exists /\ conversation' = resumed.entries /\ past' = resumed.past
    /\ UNCHANGED <<said, working, stage, nodes, verbatim, session, snapshot, restarts>>

Next ==
    \/ Says \/ Save \/ Restart \/ Compact \/ MergeFrontier \/ MergeEnds
    \/ Summarize \/ Promote \/ PromoteEnds
    \/ Rest \/ FoldAll \/ SaveSnapshot \/ ClearSession \/ Wake

Spec == Init /\ [][Next]_contextVars

-----------------------------------------------------------------------------
Entries == [is : {"raw", "cut", "sum"}, of : 1..(MaxMessages + MaxNodes), depth : 0..MaxNodes]

ContextTypeOK ==
    /\ said \in 0..MaxMessages /\ stage \in Stages /\ verbatim \subseteq 1..said
    /\ {conversation, working} \subseteq Seq(Entries) /\ Len(nodes) <= MaxNodes
    /\ \A n \in 1..Len(nodes) : ToSet(nodes[n].parents) \subseteq 1..(n - 1)

(* lcm.ts: "the full history stays recoverable as a DAG in the archive".    *)
(* Whatever was cut, merged, folded, rested on or lost with the process,    *)
(* expanding the summaries of a conversation, of a copy a compaction works  *)
(* on, of the saved session or of the last rest gives every message it      *)
(* stands for, once and in order; so does the prompt, which shows all of the *)
(* summaries at the place of the first.                                     *)
Unfolded(entries) ==
    FlattenSeq([i \in 1..Len(entries) |->
        IF IsSummary(entries[i]) THEN Expansion[entries[i].of] ELSE <<entries[i].of>>])

HistoryUnfolds ==
    /\ Unfolded(conversation) = past /\ Unfolded(Prompted(conversation)) = past
    /\ stage \notin {"none", "cleared"} => Unfolded(working) = past
    /\ \A file \in {session, snapshot} : Unfolded(file.entries) = file.past

(* Of what is only left as an excerpt, in a conversation or as the source   *)
(* of a summary, the archive has the full text ("search the context archive *)
(* with context_grep", compactor.ts).                                       *)
Excerpts(entries) == {e.of : e \in {x \in ToSet(entries) : x.is = "cut"}}

ExcerptsAreArchived ==
    /\ \A entries \in {conversation, working, session.entries} : Excerpts(entries) \subseteq verbatim
    /\ \A n \in 1..Len(nodes) : Excerpts(nodes[n].sources) \subseteq verbatim

(* The frontier holds the older memory at the higher depth, so that merging *)
(* its oldest run keeps it in order and shallow.                            *)
FrontierOrdered ==
    LET depths == Summaries(conversation)
    IN  \A i, j \in 1..Len(depths) : i < j => depths[i].depth >= depths[j].depth
=============================================================================
