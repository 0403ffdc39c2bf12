-------------------------------- MODULE Memory --------------------------------
(***************************************************************************)
(* The memory index (niri-runtime/memory): memories are markdown files that *)
(* the agent edits at any time; every recall and every search first brings  *)
(* the tables of documents, chunks and embeddings up to date, and nothing   *)
(* keeps two of these syncs apart.  Passive recall then injects chunks into *)
(* a request of the session.                                                *)
(*                                                                         *)
(* A file's content is the number of the edit that wrote it, 0 while there  *)
(* is no file.  The chunks of a document are inserted and deleted together  *)
(* and are one here.  How hits are scored is left out: a search may find    *)
(* any chunk that is in the index.                                          *)
(***************************************************************************)
EXTENDS Integers, FiniteSets

CONSTANTS MemoryFiles,
          Syncers,          \* who syncs: Session, and tools
          Session,          \* the one that recalls
          MaxWrites, MaxIds,\* bounds of the instance
          Cooldown          \* MEMORY_RECALL_COOLDOWN_TURNS

MemoryAssumption ==
    IsFiniteSet(MemoryFiles) /\ Session \in Syncers /\ {MaxWrites, MaxIds} \subseteq Nat /\ Cooldown \in Nat \ {0}

VARIABLES file,     \* the files
          writes,   \* edits so far
          doc,      \* memory_documents with their chunk: its text and id
          lastId,   \* sqlite_sequence of memory_chunks
          vec,      \* memory_chunk_vec: the text of the embedding, by chunk
          meta,     \* memory_embedding_meta: the hash, by chunk
          sync,     \* every syncMemoryIndex under way, or how it ended
          recall,   \* RecallState
          turn      \* of the session: where it is, and requests with memories
memVars == <<file, writes, doc, lastId, vec, meta, sync, recall, turn>>

Absent == [text |-> 0, id |-> 0]
Idle == [at |-> "idle", files |-> {}, known |-> [f \in MemoryFiles |-> Absent], read |-> {},
         changed |-> [f \in {} |-> 0], batch |-> [i \in {} |-> 0], alone |-> FALSE]
FreshRecall == [cooldowns |-> {}, turn |-> 0, pending |-> TRUE]

MemoryInit ==
    /\ file \in [MemoryFiles -> {0}] /\ writes = 0
    /\ doc = [f \in MemoryFiles |-> Absent] /\ lastId = 0
    /\ vec = [i \in 1 .. MaxIds |-> 0] /\ meta = [i \in 1 .. MaxIds |-> 0]
    /\ sync = [s \in Syncers |-> Idle]
    /\ recall = FreshRecall /\ turn = [at |-> "ready", recalls |-> 0]

Chunks == {doc[f].id : f \in MemoryFiles} \ {0}
TextOf(i) == (CHOOSE d \in {doc[f] : f \in MemoryFiles} : d.id = i).text
Busy(s) == sync[s].at \notin {"idle", "done", "given up", "rejected"}

(* The agent, or whoever has the home directory, writes or removes a file. *)
Edit(f) == /\ writes < MaxWrites /\ writes' = writes + 1
           /\ \E text \in {writes', 0} \ {file[f]} : file' = [file EXCEPT ![f] = text]
           /\ sync' = [s \in Syncers |-> [sync[s] EXCEPT !.alone = FALSE]]
           /\ UNCHANGED <<doc, lastId, vec, meta, recall, turn>>

---------------------------------------------------------------------------
(* syncMemoryIndex.  It lists the files and looks at the documents, ...    *)
SyncRejects(s) == sync' = [sync EXCEPT ![s].at = "rejected"]
List(s) == /\ ~Busy(s)
           /\ s = Session => turn.at = "syncing" /\ sync[s].at = "idle"
           /\ sync' = [t \in Syncers |->
                  IF t = s THEN [Idle EXCEPT !.at = "listed", !.files = {f \in MemoryFiles : file[f] # 0},
                                             !.alone = \A u \in Syncers \ {s} : ~Busy(u)]
                  ELSE [sync[t] EXCEPT !.alone = FALSE]]
           /\ UNCHANGED <<file, writes, doc, lastId, vec, meta, recall, turn>>
Known(s) == /\ sync[s].at = "listed"
            /\ sync' = [sync EXCEPT ![s].at = "reading", ![s].known = doc]
            /\ UNCHANGED <<file, writes, doc, lastId, vec, meta, recall, turn>>

(* ... reads one file after the other: one that was removed since rejects  *)
(* the sync, one that differs from its document is an update, ...          *)
Differs_IfKnown(s, f) == sync[s].known[f] # Absent /\ file[f] # sync[s].known[f].text
Differs(s, f) == file[f] # sync[s].known[f].text
Read(s) == LET todo == sync[s].files \ sync[s].read IN
    /\ sync[s].at = "reading" /\ todo # {}
    /\ LET f == CHOOSE g \in todo : TRUE IN
       IF file[f] = 0 THEN SyncRejects(s)
       ELSE sync' = [sync EXCEPT ![s].read = @ \cup {f},
                ![s].changed = IF ~Differs(s, f) THEN @
                               ELSE [g \in DOMAIN @ \cup {f} |-> IF g = f THEN file[f] ELSE @[g]]]
    /\ UNCHANGED <<file, writes, doc, lastId, vec, meta, recall, turn>>

(* ... and in one transaction replaces the chunks of what changed and      *)
(* deletes the documents it knew whose files were not listed.  Deleting a  *)
(* chunk deletes the row of its embedding, but not the vector.  Ids are    *)
(* never used again (autoincrement).                                       *)
Removed(s) == {f \in MemoryFiles : sync[s].known[f] # Absent /\ f \notin sync[s].files}
NextId(k) == lastId + k
Commit(s) ==
    LET new  == sync[s].changed
        rank == CHOOSE r \in [DOMAIN new -> 1 .. Cardinality(DOMAIN new)] :
                    \A f, g \in DOMAIN new : f # g => r[f] # r[g]
        kept == Chunks \ {doc[f].id : f \in DOMAIN new \cup Removed(s)}
    IN /\ sync[s].at = "reading" /\ sync[s].read = sync[s].files
       /\ lastId + Cardinality(DOMAIN new) <= MaxIds
       /\ doc' = [f \in MemoryFiles |-> CASE f \in DOMAIN new -> [text |-> new[f], id |-> NextId(rank[f])]
                                    [] f \in Removed(s) -> Absent
                                    [] OTHER            -> doc[f]]
       /\ lastId' = lastId + Cardinality(DOMAIN new)
       /\ meta' = [i \in 1 .. MaxIds |-> IF i \in kept THEN meta[i] ELSE 0]
       /\ sync' = [sync EXCEPT ![s].at = "indexed"]
       /\ UNCHANGED <<file, writes, vec, recall, turn>>

(* syncMemoryEmbeddings: vectors of chunks that are gone go, and what has  *)
(* no embedding of its present text is sent away, ...                      *)
Pick(s) == LET due == {i \in Chunks : meta[i] # TextOf(i)} IN
    /\ sync[s].at = "indexed"
    /\ meta' = [i \in 1 .. MaxIds |-> IF i \in Chunks THEN meta[i] ELSE 0]
    /\ vec' = [i \in 1 .. MaxIds |-> IF i \in Chunks THEN vec[i] ELSE 0]
    /\ sync' = [sync EXCEPT ![s].batch = [i \in due |-> TextOf(i)],
                            ![s].at = IF due = {} THEN "done" ELSE "embedding"]
    /\ UNCHANGED <<file, writes, doc, lastId, recall, turn>>

(* ... and what comes back is stored in one transaction, which a chunk     *)
(* that was deleted meanwhile makes fail (a foreign key).                  *)
Embedded(s) == LET new == sync[s].batch IN
    /\ sync[s].at = "embedding"
    /\ IF DOMAIN new \subseteq Chunks
       THEN /\ vec' = [i \in 1 .. MaxIds |-> IF i \in DOMAIN new THEN new[i] ELSE vec[i]]
            /\ meta' = [i \in 1 .. MaxIds |-> IF i \in DOMAIN new THEN new[i] ELSE meta[i]]
            /\ sync' = [sync EXCEPT ![s].at = "done"]
       ELSE SyncRejects(s) /\ UNCHANGED <<vec, meta>>
    /\ UNCHANGED <<file, writes, doc, lastId, recall, turn>>
EmbeddingFails(s) == /\ sync[s].at = "embedding"
                     /\ sync' = [sync EXCEPT ![s].at = "given up"]
                     /\ UNCHANGED <<file, writes, doc, lastId, vec, meta, recall, turn>>

---------------------------------------------------------------------------
(* The session.  Every request begins with prepareCompletionMessages, which *)
(* recalls if recall is pending.                                           *)
Prepare == /\ turn.at = "ready"
           /\ turn' = [turn EXCEPT !.at = IF recall.pending THEN "syncing" ELSE "asked"]
           /\ sync' = [sync EXCEPT ![Session].at = "idle"]
           /\ UNCHANGED <<file, writes, doc, lastId, vec, meta, recall>>

(* searchMemory: what is cooling down is not found.                        *)
Cooling(i) == \E c \in recall.cooldowns : c[1] = i /\ recall.turn - c[2] < Cooldown
Found == {i \in Chunks : ~Cooling(i)}

(* rememberRecalledMemoryChunks                                            *)
Remembered(hits) == {c \in {d \in recall.cooldowns : d[1] \notin hits} \cup (hits \X {recall.turn}) :
                        recall.turn - c[2] < 2 * Cooldown}

(* buildCompletionMessages: nothing may be found, or relevant.             *)
RecallMemories ==
    /\ turn.at = "syncing" /\ sync[Session].at \in {"done", "given up"}
    /\ \E hits \in SUBSET Found :
          /\ Cardinality(hits) <= 1
          /\ turn' = [at |-> "asked", recalls |-> turn.recalls + Cardinality(hits)]
          /\ recall' = [recall EXCEPT !.cooldowns = Remembered(hits)]
    /\ UNCHANGED <<file, writes, doc, lastId, vec, meta, sync>>

(* The answer: the loop goes on with the results of its tool calls, or,    *)
(* after an event, with a new turn.                                        *)
Answered == /\ turn.at = "asked"
            /\ turn' = [turn EXCEPT !.at = "ready"]
            /\ UNCHANGED <<file, writes, doc, lastId, vec, meta, sync, recall>>
InjectIncomingEvent ==
    /\ turn.at = "asked"
    /\ turn' = [at |-> "ready", recalls |-> 0]
    /\ recall' = [recall EXCEPT !.pending = TRUE]
    /\ UNCHANGED <<file, writes, doc, lastId, vec, meta, sync>>

(* An answer that a content filter withheld: the message is redacted.      *)
Quarantine == /\ turn.at = "asked"
              /\ turn' = [turn EXCEPT !.at = "ready"]
              /\ recall' = [recall EXCEPT !.pending = FALSE]
              /\ UNCHANGED <<file, writes, doc, lastId, vec, meta, sync>>

(* A sync that rejects fails the request, and with it the session.  The    *)
(* next wake begins with a new state.                                      *)
Wake == /\ \/ turn.at = "asked"
           \/ turn.at = "syncing" /\ sync[Session].at = "rejected"
        /\ turn' = [at |-> "ready", recalls |-> 0] /\ recall' = FreshRecall
        /\ UNCHANGED <<file, writes, doc, lastId, vec, meta, sync>>

SyncStep(s) == \/ List(s) \/ Known(s) \/ Read(s) \/ Commit(s) \/ Pick(s)
               \/ Embedded(s) \/ EmbeddingFails(s)
MemoryNext ==
    \/ \E f \in MemoryFiles : Edit(f)
    \/ \E s \in Syncers : SyncStep(s)
    \/ Prepare \/ RecallMemories \/ Answered \/ InjectIncomingEvent \/ Quarantine \/ Wake
MemorySpec == MemoryInit /\ [][MemoryNext]_memVars

---------------------------------------------------------------------------
Texts == 0 .. MaxWrites
Doc == [text : Texts, id : 0 .. MaxIds]
MemoryTypeOK ==
    /\ file \in [MemoryFiles -> Texts] /\ writes \in Texts /\ doc \in [MemoryFiles -> Doc]
    /\ lastId \in 0 .. MaxIds
    /\ vec \in [1 .. MaxIds -> Texts] /\ meta \in [1 .. MaxIds -> Texts]
    /\ \A s \in Syncers : sync[s].files \subseteq MemoryFiles /\ sync[s].known \in [MemoryFiles -> Doc]
    /\ recall.cooldowns \subseteq (1 .. MaxIds) \X {0} /\ recall.turn = 0

(* What a search joins belongs together: the vector of a chunk is the      *)
(* embedding of its text, also when another sync replaced chunks while     *)
(* embeddings were computed.  And a sync that nobody disturbed leaves the  *)
(* index as the files are, with all the embeddings unless the model failed.*)
IndexTruthful ==
    /\ \A i \in Chunks : vec[i] # 0 => vec[i] = TextOf(i)
    /\ \A i \in Chunks : meta[i] # 0 => vec[i] # 0
    /\ \A s \in Syncers : sync[s].alone /\ sync[s].at \in {"indexed", "embedding", "done", "given up"} =>
         /\ \A f \in MemoryFiles : doc[f].text = file[f]
         /\ sync[s].at = "done" => \A i \in Chunks : meta[i] # 0

(* runtime.ts of prepareCompletionMessages: "Recall runs only on the first *)
(* step of a turn".                                                        *)
RecalledOncePerTurn == turn.recalls <= 1
===============================================================================
