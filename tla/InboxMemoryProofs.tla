-------------------------- MODULE InboxMemoryProofs --------------------------
(***************************************************************************)
(* What is proved of DiscordInbox, for every set of messages, windows and  *)
(* limits, and of Memory, for every set of files, texts and syncs.         *)
(*                                                                         *)
(* HeldStaysHeld rests on one fact about discord_send, whose mark comes    *)
(* after an await: the turn that sends is not over before (Answering).     *)
(* WokenOnce rests on the messages stored: what has woken the agent is in  *)
(* the database (Kept), and so is not taken for new again.  Both need the  *)
(* types of the tables (Tables).  PassedForAReason rests on the order in   *)
(* which a digest takes messages: the cursor stops at the last one shown   *)
(* (LastExists), and every one before it fitted as well (EarlierFits).     *)
(*                                                                         *)
(* IndexTruthful rests on what a sync holds between two awaits: the batch  *)
(* it sent away has the text of every chunk that is still there, for an id *)
(* is never given out again (SyncRows, DocRows); and a sync that nobody    *)
(* disturbed has, at every stage, what the stage before it left            *)
(* (Undisturbed).                                                          *)
(***************************************************************************)
EXTENDS DiscordInbox, Memory, FiniteSetTheorems, FunctionTheorems, WellFoundedInduction, TLAPS

Tables ==
    /\ stored \in [Messages -> Nat] /\ item \in [Messages -> Statuses]
    /\ woken \in [Messages -> Nat] /\ sending \subseteq Messages
    /\ clock \in Nat \ {0}

Answering == sending # {} => agent = "busy"

Kept == \A m \in Messages : woken[m] = 0 \/ (woken[m] = 1 /\ stored[m] > 0)

IInv == Tables /\ Answering /\ Kept

Leaves(m) == item[m] = "queued" /\ item'[m] # "queued"

-----------------------------------------------------------------------------
LEMMA Initially ==
    ASSUME DiscordAssumption, DiscordInit
    PROVE  IInv
BY DEF DiscordAssumption, DiscordInit, IInv, Tables, Answering, Kept, Statuses

(* Storing messages forgets none, and leaves every item's type.             *)
LEMMA IngestTyped ==
    ASSUME Tables, NEW ms \in SUBSET Messages, Ingested(ms)
    PROVE  /\ stored' \in [Messages -> Nat] /\ item' \in [Messages -> Statuses]
           /\ \A m \in Messages : stored[m] > 0 => stored'[m] > 0
           /\ \A m \in ms : stored'[m] > 0
           /\ \A m \in Messages : ~Leaves(m)
<1>1. \A m \in Messages : stored'[m] = IF m \in ms /\ stored[m] = 0 THEN clock ELSE stored[m]
  BY DEF Ingested
<1>2. \A m \in Messages :
        item'[m] = IF m \in ms /\ Kind[m] # "chat" /\ item[m] = "none" THEN "pending" ELSE item[m]
  BY DEF Ingested
<1>3. stored' \in [Messages -> Nat]  BY DEF Ingested, Tables
<1>4. item' \in [Messages -> Statuses]  BY DEF Ingested, Tables, Statuses
<1>5. \A m \in Messages : ~Leaves(m)  BY <1>2 DEF Leaves
<1>6. /\ \A m \in Messages : stored[m] > 0 => stored'[m] > 0
      /\ \A m \in ms : stored'[m] > 0
  BY <1>1 DEF Tables
<1> QED  BY <1>3, <1>4, <1>5, <1>6

(* The digest changes only items that are pending.                          *)
LEMMA DigestItems ==
    ASSUME Tables, Digest
    PROVE  /\ item' \in [Messages -> Statuses]
           /\ \A m \in Messages : ~Leaves(m)
           /\ UNCHANGED <<stored, sending, clock, woken>>
           /\ agent = "busy" => agent' = "busy"
<1>1. /\ Demoted \in [Messages -> Statuses]
      /\ \A m \in Messages : item[m] = "queued" => Demoted[m] = "queued"
  BY DEF Demoted, Tables, Statuses
<1>2. UNCHANGED <<stored, sending, clock, woken>>  BY DEF Digest
<1>3. CASE InForge
  BY <1>2, <1>3 DEF Digest, Tables, Leaves
<1>4. CASE item' = Demoted /\ UNCHANGED agent
  BY <1>1, <1>2, <1>4 DEF Leaves
<1>5. ASSUME NEW recent, NEW preview \in SUBSET Pending(Demoted),
             recent = First(Recent(Demoted), MaxMessages), agent' = "busy",
             item' = [m \in Messages |->
                        IF m \in recent \cup preview /\ Demoted[m] # "none"
                        THEN "seen" ELSE Demoted[m]]
      PROVE  /\ item' \in [Messages -> Statuses]
             /\ \A m \in Messages : ~Leaves(m)
  <2>1. item' \in [Messages -> Statuses]  BY <1>1, <1>5 DEF Statuses
  <2>2. \A m \in recent : Demoted[m] \in {"none", "pending"}
    BY <1>5 DEF First, Recent
  <2>3. \A m \in preview : Demoted[m] = "pending"  BY DEF Pending
  <2>4. \A m \in Messages : Demoted[m] = "queued" => item'[m] = "queued"
    BY <1>5, <2>2, <2>3
  <2> QED  BY <1>1, <2>1, <2>4 DEF Leaves
<1> QED  BY <1>2, <1>3, <1>4, <1>5 DEF Digest

-----------------------------------------------------------------------------
(* The order of a digest *)

LEMMA LeastNatural ==
    ASSUME NEW T \in SUBSET Nat, T # {}
    PROVE  \E x \in T : \A y \in T : x <= y
<1> DEFINE Less == {pair \in Nat \X Nat : pair[1] < pair[2]}
<1>1. IsWellFoundedOn(Less, Nat)
  BY NatLessThanWellFounded DEF OpToRel
<1>2. \A x, y \in Nat : <<y, x>> \in Less <=> y < x
  OBVIOUS
<1> HIDE DEF Less
<1>3. PICK x \in T : \A y \in T : <<y, x>> \notin Less
  BY <1>1, WFMin
<1>4. ASSUME NEW y \in T  PROVE x <= y
  <2>1. x \in Nat /\ y \in Nat
    OBVIOUS
  <2>2. ~(y < x)
    BY ONLY <1>2, <1>3, <1>4, <2>1
  <2> QED  BY ONLY <2>1, <2>2
<1> QED  BY <1>4

(* Messages are seen one before the other.                                  *)
LEMMA SeenInOrder ==
    ASSUME DiscordAssumption, Tables, NEW a \in Messages, NEW b \in Messages, NEW c \in Messages
    PROVE  /\ ~SeenBefore(a, a)
           /\ SeenBefore(a, b) /\ SeenBefore(b, c) => SeenBefore(a, c)
<1>1. /\ a \in Nat /\ b \in Nat /\ c \in Nat
      /\ stored[a] \in Nat /\ stored[b] \in Nat /\ stored[c] \in Nat
  BY DEF DiscordAssumption, Tables
<1> QED  BY <1>1 DEF SeenBefore

(* Of some messages one was seen last: the one with the fewest after it.    *)
LEMMA LastExists ==
    ASSUME DiscordAssumption, Tables, NEW S \in SUBSET Messages, S # {}
    PROVE  \E m \in S : \A n \in S : ~SeenBefore(m, n)
<1> DEFINE After(x) == {n \in S : SeenBefore(x, n)}
           Counts   == {Cardinality(After(x)) : x \in S}
<1>1. IsFiniteSet(S)
  BY FS_Subset DEF DiscordAssumption
<1>2. \A x \in S : IsFiniteSet(After(x)) /\ Cardinality(After(x)) \in Nat
  BY <1>1, FS_Subset, FS_CardinalityType
<1>3. Counts \in SUBSET Nat /\ Counts # {}
  BY <1>2
<1>4. PICK k \in Counts : \A j \in Counts : k <= j
  BY <1>3, LeastNatural
<1>5. PICK m \in S : k = Cardinality(After(m))
  BY <1>4
<1>6. ASSUME NEW n \in S, SeenBefore(m, n)  PROVE FALSE
  <2>1. After(n) \subseteq After(m)
    BY <1>6, SeenInOrder
  <2>2. n \in After(m) /\ n \notin After(n)
    BY <1>6, SeenInOrder
  <2>3. Cardinality(After(n)) <= Cardinality(After(m))
        /\ (Cardinality(After(m)) = Cardinality(After(n)) => After(m) = After(n))
    BY <1>2, <2>1, FS_Subset
  <2>4. Cardinality(After(n)) \in Counts
    OBVIOUS
  <2>5. Cardinality(After(m)) <= Cardinality(After(n))
    BY <1>4, <1>5, <2>4
  <2>6. Cardinality(After(m)) \in Nat /\ Cardinality(After(n)) \in Nat
    BY <1>2
  <2> HIDE DEF After
  <2> QED  BY <2>2, <2>3, <2>5, <2>6
<1> QED  BY <1>6

(* What was seen before a message that fits fits as well.                   *)
LEMMA EarlierFits ==
    ASSUME DiscordAssumption, Tables, NEW S \in SUBSET Messages, NEW k \in Nat,
           NEW last \in First(S, k), NEW m \in S, SeenBefore(m, last)
    PROVE  m \in First(S, k)
<1> DEFINE Before(x) == {n \in S : SeenBefore(n, x)}
<1>1. IsFiniteSet(Before(last)) /\ IsFiniteSet(Before(m))
  BY FS_Subset DEF DiscordAssumption
<1>2. last \in S /\ Cardinality(Before(last)) < k
  BY DEF First
<1>3. Before(m) \subseteq Before(last)
  BY <1>2, SeenInOrder
<1>4. Cardinality(Before(m)) <= Cardinality(Before(last))
  BY <1>1, <1>3, FS_Subset
<1>5. Cardinality(Before(m)) \in Nat /\ Cardinality(Before(last)) \in Nat
  BY <1>1, FS_CardinalityType
<1>6. Cardinality(Before(m)) < k
  BY <1>2, <1>4, <1>5
<1> QED  BY <1>6 DEF First

(* A digest shows what lies before its new cursor, or has a reason not to.   *)
LEMMA DigestShows ==
    ASSUME DiscordAssumption, Tables, Digest, cursor' # cursor, NEW m \in Messages,
           stored[m] > 0, From < stored[m], stored[m] <= cursor',
           ~Inactive(m), item[m] \in {"none", "pending"}, ~CountedAsSeen(m)
    PROVE  m \in told' \/ CutOffInATie(m)
<1> DEFINE R      == Recent(Demoted)
           recent == First(R, MaxMessages)
           last   == CHOOSE x \in recent : \A n \in recent : ~SeenBefore(x, n)
<1>1. m \in R
  <2>1. Demoted[m] = item[m]
    BY DEF Demoted, CountedAsSeen
  <2> QED  BY <2>1 DEF Recent
<1>2. PICK preview \in SUBSET Pending(Demoted) :
        /\ recent # {} /\ told' = told \cup recent \cup preview
        /\ cursor' = NextCursor(recent # R, last)
  BY DEF Digest
<1>3. CASE recent = R
  BY <1>1, <1>2, <1>3
<1>4. CASE recent # R
  <2>1. R \in SUBSET Messages /\ recent \in SUBSET Messages /\ MaxMessages \in Nat
    BY DEF Recent, First, DiscordAssumption
  <2>2. \E x \in recent : \A n \in recent : ~SeenBefore(x, n)
    BY <1>2, <2>1, LastExists
  <2>3. last \in recent
    BY <2>2
  <2>4. cursor' = stored[last]
    BY <1>2, <1>4 DEF NextCursor
  <2> HIDE DEF last, R
  <2>5. CASE SeenBefore(m, last)
    <3>1. m \in recent
      BY <1>1, <2>1, <2>3, <2>5, EarlierFits
    <3> QED  BY <1>2, <3>1
  <2>6. CASE ~SeenBefore(m, last)
    <3>1. last \in Messages /\ m \in Nat /\ last \in Nat /\ stored[m] \in Nat /\ stored[last] \in Nat
      BY <2>1, <2>3 DEF Tables, DiscordAssumption
    <3>2. stored[m] = stored[last] /\ last <= m
      BY <2>4, <2>6, <3>1 DEF SeenBefore
    <3>3. last \in told'
      BY <1>2, <2>3
    <3>4. CASE m = last
      BY <3>3, <3>4
    <3>5. CASE m # last
      BY <2>4, <3>1, <3>2, <3>3, <3>5 DEF CutOffInATie
    <3> QED  BY <3>4, <3>5
  <2> QED  BY <2>5, <2>6
<1> QED  BY <1>3, <1>4

-----------------------------------------------------------------------------
(* A step that touches neither stored messages nor wakes.                   *)
LEMMA NoArrival ==
    ASSUME IInv, UNCHANGED <<stored, woken>>, item' \in [Messages -> Statuses],
           sending' \subseteq Messages, clock' \in Nat \ {0}, Answering'
    PROVE  IInv'
BY DEF IInv, Tables, Kept

LEMMA Step ==
    ASSUME IInv, DiscordAssumption, [DiscordNext]_inboxVars
    PROVE  /\ IInv'
           /\ \A m \in Messages : Leaves(m) => agent = "busy"
<1> DEFINE Goal == IInv' /\ \A m \in Messages : Leaves(m) => agent = "busy"
<1>0. Tables /\ item \in [Messages -> Statuses]  BY DEF IInv, Tables
<1>1. CASE UNCHANGED inboxVars
  BY <1>1 DEF inboxVars, IInv, Tables, Answering, Kept, Leaves
<1>2. ASSUME NEW m \in Messages, Ingress(m)  PROVE Goal
  <2>1. UNCHANGED <<sending, clock>> /\ Answering'
    BY <1>2 DEF Ingress, IInv, Answering
  <2>2. /\ stored' \in [Messages -> Nat] /\ item' \in [Messages -> Statuses]
        /\ \A n \in Messages : stored[n] > 0 => stored'[n] > 0
        /\ stored'[m] > 0
        /\ \A n \in Messages : ~Leaves(n)
    <3>1. CASE Held(m)
      BY <1>0, <1>2, <3>1 DEF Ingress, Tables, Statuses, Leaves
    <3>2. CASE ~Held(m)
      BY <1>0, <1>2, <3>2, IngestTyped DEF Ingress
    <3> QED  BY <3>1, <3>2
  <2>3. woken' \in [Messages -> Nat] /\ Kept'
    <3>1. CASE Wakes(m)
      <4>1. stored[m] = 0 /\ woken' = [woken EXCEPT ![m] = @ + 1]
        BY <1>2, <3>1 DEF Ingress, Wakes, Eligible
      <4>2. woken \in [Messages -> Nat] /\ woken[m] = 0
        BY <4>1 DEF IInv, Tables, Kept
      <4> QED  BY <2>2, <4>1, <4>2 DEF IInv, Kept
    <3>2. CASE ~Wakes(m)
      <4>1. woken' = woken  BY <1>2, <3>2 DEF Ingress
      <4> QED  BY <2>2, <4>1 DEF IInv, Tables, Kept
    <3> QED  BY <3>1, <3>2
  <2> QED  BY <2>1, <2>2, <2>3 DEF IInv, Tables
<1>3. ASSUME NEW m \in Messages, ScanFinds(m)  PROVE Goal
  <2>1. UNCHANGED <<sending, clock, agent, woken>> /\ Ingested({m})
    BY <1>3 DEF ScanFinds
  <2>2. /\ stored' \in [Messages -> Nat] /\ item' \in [Messages -> Statuses]
        /\ \A n \in Messages : stored[n] > 0 => stored'[n] > 0
        /\ \A n \in Messages : ~Leaves(n)
    BY <1>0, <2>1, IngestTyped
  <2> QED  BY <2>1, <2>2 DEF IInv, Tables, Answering, Kept
<1>4. ASSUME NEW m \in Messages, SendBegins(m)  PROVE Goal
  BY <1>0, <1>4, NoArrival DEF SendBegins, IInv, Tables, Answering, Leaves
<1>5. ASSUME NEW m \in Messages, NEW status \in Statuses, Mark(m, status)  PROVE Goal
  <2>1. item' \in [Messages -> Statuses] /\ agent = "busy"  BY <1>0, <1>5 DEF Mark, Statuses
  <2> QED  BY <1>5, <2>1, NoArrival DEF Mark, IInv, Tables, Answering
<1>6. ASSUME NEW m \in Messages, NEW posted \in BOOLEAN, SendEnds(m, posted)  PROVE Goal
  <2>1. item' \in [Messages -> Statuses] /\ agent = "busy"
    BY <1>0, <1>6 DEF SendEnds, Statuses, IInv, Answering
  <2> QED  BY <1>6, <2>1, NoArrival DEF SendEnds, IInv, Tables, Answering
<1>7. CASE BatchBegins
  BY <1>0, <1>7, NoArrival DEF BatchBegins, IInv, Tables, Answering, Leaves
<1>8. CASE BatchFails
  BY <1>0, <1>8, NoArrival DEF BatchFails, IInv, Tables, Answering, Leaves
<1>9. CASE Digest
  <2>1. /\ item' \in [Messages -> Statuses]
        /\ \A m \in Messages : ~Leaves(m)
        /\ UNCHANGED <<stored, sending, clock, woken>>
        /\ agent = "busy" => agent' = "busy"
    BY <1>0, <1>9, DigestItems
  <2> QED  BY <2>1, NoArrival DEF IInv, Tables, Answering
<1>10. CASE TurnEnds
  BY <1>0, <1>10, NoArrival DEF TurnEnds, IInv, Tables, Answering, Leaves
<1>11. CASE TurnBegins
  BY <1>0, <1>11, NoArrival DEF TurnBegins, IInv, Tables, Answering, Leaves
<1>12. ASSUME NEW next \in {"hearth", "forge"}, SetPosture(next)  PROVE Goal
  <2>1. item' \in [Messages -> Statuses] /\ agent = "busy"
    BY <1>0, <1>12 DEF SetPosture, HeldItems, Statuses
  <2> QED  BY <1>12, <2>1, NoArrival DEF SetPosture, HeldItems, IInv, Tables, Answering
<1>13. CASE Reminder
  BY <1>0, <1>13, NoArrival DEF Reminder, IInv, Tables, Answering, Leaves
<1>14. CASE Restart
  BY <1>0, <1>14, NoArrival DEF Restart, IInv, Tables, Answering, Leaves
<1>15. CASE Tick
  BY <1>0, <1>15, NoArrival DEF Tick, IInv, Tables, Answering, Leaves
<1> QED
  BY <1>1, <1>2, <1>3, <1>4, <1>5, <1>6, <1>7, <1>8, <1>9, <1>10, <1>11, <1>12, <1>13, <1>14,
     <1>15 DEF DiscordNext

LEMMA Inductive ==
    ASSUME DiscordAssumption
    PROVE  DiscordSpec => []IInv
<1>1. DiscordInit => IInv  BY Initially
<1>2. IInv /\ [DiscordNext]_inboxVars => IInv'  BY Step
<1> QED  BY <1>1, <1>2, PTL DEF DiscordSpec

-----------------------------------------------------------------------------
(* A message that comes over the gateway twice, or after a scan has found   *)
(* it, or after a restart, wakes the agent once at most (handleDiscord-     *)
(* Ingress, ingestDiscordEvent).                                            *)
THEOREM WokenAtMostOnce ==
    ASSUME DiscordAssumption
    PROVE  DiscordSpec => []WokenOnce
<1>1. IInv => WokenOnce  BY DEF IInv, Kept, WokenOnce
<1> QED  BY <1>1, Inductive, PTL

(* What forge holds leaves the queue in no other way than by a decision of  *)
(* a turn: no digest, no demotion by age, no second arrival takes it.       *)
THEOREM HeldUntilDecided ==
    ASSUME DiscordAssumption
    PROVE  DiscordSpec => HeldStaysHeld
<1>1. IInv /\ [DiscordNext]_inboxVars
        => [\A m \in Messages :
              item[m] = "queued" /\ item'[m] # "queued" => agent = "busy"]_inboxVars
  BY Step DEF Leaves
<1> QED  BY <1>1, Inductive, PTL DEF DiscordSpec, HeldStaysHeld

(* What the digest of discord/state.ts passes unshown it passes for one of   *)
(* the four reasons, however many messages there are and however many fit:   *)
(* of those that do not fit only one as old as the last that did is passed   *)
(* (prepareDiscordBatch).                                                    *)
THEOREM UnshownForAReason ==
    ASSUME DiscordAssumption
    PROVE  DiscordSpec => PassedForAReason
<1> DEFINE Shown ==
      \A m \in Messages :
        cursor' # cursor /\ stored[m] > 0 /\ From < stored[m] /\ stored[m] <= cursor'
           => \/ m \in told'
              \/ Inactive(m)
              \/ item[m] \in {"queued", "seen", "acted", "ignored"}
              \/ CountedAsSeen(m)
              \/ CutOffInATie(m)
<1>1. DiscordNext /\ cursor' # cursor => Digest
  BY DEF DiscordNext, Ingress, ScanFinds, SendBegins, Mark, SendEnds, BatchBegins, BatchFails,
         TurnEnds, TurnBegins, SetPosture, Reminder, Restart, Tick
<1>2. IInv => \A m \in Messages : item[m] \in {"none", "pending", "queued", "seen", "acted", "ignored"}
  BY DEF IInv, Tables, Statuses
<1>3. IInv /\ [DiscordNext]_inboxVars => [Shown]_inboxVars
  BY <1>1, <1>2, DigestShows DEF IInv
<1> QED  BY <1>3, Inductive, PTL DEF DiscordSpec, PassedForAReason

-----------------------------------------------------------------------------
(* The memory index *)

Stages == {"indexed", "embedding", "done", "given up"}

(* Rows: a document has a chunk with an id of its own, used before; no row   *)
(* of an id that was never given out; an embedding is that of the chunk.     *)
DocRows ==
    /\ \A f \in MemoryFiles : doc[f].id <= lastId /\ (doc[f].text = 0 <=> doc[f].id = 0)
    /\ \A f, g \in MemoryFiles : doc[f].id = doc[g].id /\ doc[f].id # 0 => f = g
ChunkRows ==
    /\ \A i \in 1 .. MaxIds : i > lastId => vec[i] = 0 /\ meta[i] = 0
    /\ \A f \in MemoryFiles : doc[f].id # 0 =>
          /\ vec[doc[f].id] # 0 => vec[doc[f].id] = doc[f].text
          /\ meta[doc[f].id] # 0 => meta[doc[f].id] = doc[f].text /\ vec[doc[f].id] # 0

(* What a sync holds: what it read are texts; what it sent away is the text  *)
(* of those chunks that are still there.                                     *)
SyncRows(s) ==
    /\ DOMAIN sync[s].changed \subseteq sync[s].read /\ sync[s].read \subseteq sync[s].files
    /\ \A f \in DOMAIN sync[s].changed : sync[s].changed[f] \in Texts \ {0}
    /\ \A i \in DOMAIN sync[s].batch : i \in 1 .. lastId /\ sync[s].batch[i] \in Texts \ {0}
    /\ \A i \in DOMAIN sync[s].batch : \A f \in MemoryFiles :
          doc[f].id = i => doc[f].text = sync[s].batch[i]

(* A sync that nobody disturbed, stage by stage.                             *)
Undisturbed(s) ==
    /\ \A t \in Syncers \ {s} : ~Busy(t)
    /\ sync[s].at \in {"listed", "reading"} => sync[s].files = {f \in MemoryFiles : file[f] # 0}
    /\ sync[s].at = "listed" => sync[s].read = {}
    /\ sync[s].at = "reading" =>
          /\ sync[s].known = doc
          /\ \A f \in DOMAIN sync[s].changed : sync[s].changed[f] = file[f]
          /\ \A f \in sync[s].read \ DOMAIN sync[s].changed : file[f] = doc[f].text
    /\ sync[s].at \in Stages => \A f \in MemoryFiles : doc[f].text = file[f]
    /\ sync[s].at = "embedding" =>
          \A f \in MemoryFiles : doc[f].id # 0 => doc[f].id \in DOMAIN sync[s].batch \/ meta[doc[f].id] # 0
    /\ sync[s].at = "done" => \A f \in MemoryFiles : doc[f].id # 0 => meta[doc[f].id] # 0
Alone(s) == sync[s].alone /\ sync[s].at \in {"listed", "reading"} \cup Stages

SyncType ==
    /\ DOMAIN sync = Syncers
    /\ \A s \in Syncers : sync[s] = [at |-> sync[s].at, files |-> sync[s].files, known |-> sync[s].known,
          read |-> sync[s].read, changed |-> sync[s].changed, batch |-> sync[s].batch, alone |-> sync[s].alone]
    /\ \A s \in Syncers : sync[s].alone \in BOOLEAN
    /\ recall \in [cooldowns : SUBSET ((1 .. MaxIds) \X {0}), turn : {0}, pending : BOOLEAN]
MemoryInv ==
    /\ MemoryTypeOK /\ SyncType /\ DocRows /\ ChunkRows
    /\ \A s \in Syncers : SyncRows(s) /\ (Alone(s) => Undisturbed(s))

---------------------------------------------------------------------------
(* A chunk is found by the document it is of.                                *)
LEMMA TextOfDoc ==
    ASSUME DocRows, NEW f \in MemoryFiles, doc[f].id # 0
    PROVE  doc[f].id \in Chunks /\ TextOf(doc[f].id) = doc[f].text
<1>1. \E d \in {doc[g] : g \in MemoryFiles} : d.id = doc[f].id
  OBVIOUS
<1>2. \A d \in {doc[g] : g \in MemoryFiles} : d.id = doc[f].id => d = doc[f]
  BY DEF DocRows
<1>3. (CHOOSE d \in {doc[g] : g \in MemoryFiles} : d.id = doc[f].id) = doc[f]
  BY <1>1, <1>2
<1> QED BY <1>3 DEF TextOf, Chunks

LEMMA ChunkOfDoc ==
    ASSUME NEW i \in Chunks
    PROVE  \E f \in MemoryFiles : doc[f].id = i /\ doc[f].id # 0
BY DEF Chunks

(* Some numbering of a finite set gives no two members the same number.      *)
LEMMA RankExists ==
    ASSUME NEW S, IsFiniteSet(S)
    PROVE  /\ Cardinality(S) \in Nat
           /\ \E r \in [S -> 1 .. Cardinality(S)] : \A f, g \in S : f # g => r[f] # r[g]
<1>1. Cardinality(S) \in Nat /\ ExistsBijection(1 .. Cardinality(S), S)
  BY FS_CardinalityType
<1>2. PICK b : b \in Bijection(1 .. Cardinality(S), S)
  BY <1>1 DEF ExistsBijection
<1>3. /\ b \in [1 .. Cardinality(S) -> S]
      /\ \A t \in S : \E k \in 1 .. Cardinality(S) : b[k] = t
  BY <1>2 DEF Bijection, Injection, Surjection
<1> DEFINE r == [t \in S |-> CHOOSE k \in 1 .. Cardinality(S) : b[k] = t]
<1>4. \A t \in S : r[t] \in 1 .. Cardinality(S) /\ b[r[t]] = t
  BY <1>3
<1>5. r \in [S -> 1 .. Cardinality(S)]
  BY <1>4
<1>6. \A f, g \in S : f # g => r[f] # r[g]
  BY <1>4
<1> QED BY <1>1, <1>5, <1>6

(* What a sync holds stays right while it and the tables stay.               *)
LEMMA SameRows ==
    ASSUME NEW s \in Syncers, SyncRows(s), doc' = doc, lastId' = lastId,
           sync'[s].files = sync[s].files, sync'[s].read = sync[s].read,
           sync'[s].changed = sync[s].changed, sync'[s].batch = sync[s].batch
    PROVE  SyncRows(s)'
<1>1. SyncRows(s)' <=>
      /\ DOMAIN sync[s].changed \subseteq sync[s].read /\ sync[s].read \subseteq sync[s].files
      /\ \A f \in DOMAIN sync[s].changed : sync[s].changed[f] \in Texts \ {0}
      /\ \A i \in DOMAIN sync[s].batch : i \in 1 .. lastId /\ sync[s].batch[i] \in Texts \ {0}
      /\ \A i \in DOMAIN sync[s].batch : \A f \in MemoryFiles :
            doc[f].id = i => doc[f].text = sync[s].batch[i]
  BY DEF SyncRows, Texts
<1> QED BY <1>1 DEF SyncRows

LEMMA SameUndisturbed ==
    ASSUME NEW s \in Syncers, Undisturbed(s), doc' = doc, file' = file, meta' = meta,
           sync'[s].at = sync[s].at, sync'[s].known = sync[s].known,
           sync'[s].files = sync[s].files, sync'[s].read = sync[s].read,
           sync'[s].changed = sync[s].changed, sync'[s].batch = sync[s].batch,
           \A t \in Syncers \ {s} : Busy(t)' => Busy(t)
    PROVE  Undisturbed(s)'
<1>1. \A t \in Syncers \ {s} : ~Busy(t)'
  BY DEF Undisturbed
<1>2. sync'[s].at = "reading" =>
          /\ sync'[s].known = doc'
          /\ \A f \in DOMAIN sync'[s].changed : sync'[s].changed[f] = file'[f]
          /\ \A f \in sync'[s].read \ DOMAIN sync'[s].changed : file'[f] = doc'[f].text
  BY DEF Undisturbed
<1>3. sync'[s].at \in {"listed", "reading"} => sync'[s].files = {f \in MemoryFiles : file'[f] # 0}
  BY DEF Undisturbed
<1>4. /\ sync'[s].at = "listed" => sync'[s].read = {}
      /\ sync'[s].at \in Stages => \A f \in MemoryFiles : doc'[f].text = file'[f]
      /\ sync'[s].at = "embedding" =>
            \A f \in MemoryFiles : doc'[f].id # 0 => doc'[f].id \in DOMAIN sync'[s].batch \/ meta'[doc'[f].id] # 0
      /\ sync'[s].at = "done" => \A f \in MemoryFiles : doc'[f].id # 0 => meta'[doc'[f].id] # 0
  BY DEF Undisturbed
<1> QED BY <1>1, <1>2, <1>3, <1>4 DEF Undisturbed, Stages

LEMMA ListedRecord ==
    ASSUME NEW a, NEW F, NEW N, NEW R, NEW E, NEW B, NEW A, NEW a2, NEW F2, NEW A2
    PROVE  [[at |-> a, files |-> F, known |-> N, read |-> R, changed |-> E, batch |-> B, alone |-> A]
              EXCEPT !.at = a2, !.files = F2, !.alone = A2]
           = [at |-> a2, files |-> F2, known |-> N, read |-> R, changed |-> E, batch |-> B, alone |-> A2]
<1> DEFINE r0 == [at |-> a, files |-> F, known |-> N, read |-> R, changed |-> E, batch |-> B, alone |-> A]
           r1 == [at |-> a2, files |-> F, known |-> N, read |-> R, changed |-> E, batch |-> B, alone |-> A]
           r2 == [at |-> a2, files |-> F2, known |-> N, read |-> R, changed |-> E, batch |-> B, alone |-> A]
           r3 == [at |-> a2, files |-> F2, known |-> N, read |-> R, changed |-> E, batch |-> B, alone |-> A2]
<1>1. [r0 EXCEPT !.at = a2] = r1
  OBVIOUS
<1>2. [r1 EXCEPT !.files = F2] = r2
  OBVIOUS
<1>3. [r2 EXCEPT !.alone = A2] = r3
  OBVIOUS
<1> HIDE DEF r0, r1, r2, r3
<1>4. [r0 EXCEPT !.at = a2, !.files = F2, !.alone = A2] = r3
  BY <1>1, <1>2, <1>3
<1> QED BY <1>4 DEF r0, r3

LEMMA MemoryStarts == ASSUME MemoryAssumption, MemoryInit PROVE MemoryInv
<1> USE DEF MemoryInit, MemoryAssumption
<1>1. MemoryTypeOK
  BY DEF MemoryTypeOK, Texts, Doc, Absent, Idle, FreshRecall
<1>2. SyncType
  BY DEF SyncType, Idle, FreshRecall
<1>3. DocRows /\ ChunkRows
  BY DEF DocRows, ChunkRows, Absent
<1>4. \A s \in Syncers : SyncRows(s) /\ ~Alone(s)
  BY DEF SyncRows, Alone, Idle, Stages
<1> QED BY <1>1, <1>2, <1>3, <1>4 DEF MemoryInv

(* The types of what a sync holds, by name.                                  *)
LEMMA SyncShape ==
    ASSUME MemoryInv, NEW s \in Syncers
    PROVE  /\ DOMAIN sync = Syncers
           /\ sync[s] = [at |-> sync[s].at, files |-> sync[s].files, known |-> sync[s].known,
                 read |-> sync[s].read, changed |-> sync[s].changed, batch |-> sync[s].batch,
                 alone |-> sync[s].alone]
           /\ sync[s].files \subseteq MemoryFiles /\ sync[s].known \in [MemoryFiles -> Doc]
           /\ sync[s].alone \in BOOLEAN
BY DEF MemoryInv, SyncType, MemoryTypeOK

(* A step of the session changes no table, and no sync but its own, which it *)
(* may put aside.                                                            *)
LEMMA SessionSteps ==
    ASSUME MemoryAssumption, MemoryInv,
           Prepare \/ RecallMemories \/ Answered \/ InjectIncomingEvent \/ Quarantine \/ Wake
    PROVE  MemoryInv'
<1> USE DEF MemoryAssumption
<1>1. UNCHANGED <<file, writes, doc, lastId, vec, meta>>
  BY DEF Prepare, RecallMemories, Answered, InjectIncomingEvent, Quarantine, Wake
<1>2. sync' = sync \/ sync' = [sync EXCEPT ![Session].at = "idle"]
  BY DEF Prepare, RecallMemories, Answered, InjectIncomingEvent, Quarantine, Wake
<1>3. recall' \in [cooldowns : SUBSET ((1 .. MaxIds) \X {0}), turn : {0}, pending : BOOLEAN]
  <2> USE DEF MemoryInv, SyncType
  <2>1. CASE Prepare \/ Answered
    BY <2>1 DEF Prepare, Answered
  <2>2. CASE InjectIncomingEvent \/ Quarantine
    BY <2>2 DEF InjectIncomingEvent, Quarantine
  <2>3. CASE Wake
    BY <2>3 DEF Wake, FreshRecall
  <2>4. CASE RecallMemories
    <3>1. PICK hits \in SUBSET Found : recall' = [recall EXCEPT !.cooldowns = Remembered(hits)]
      BY <2>4 DEF RecallMemories
    <3>2. hits \subseteq 1 .. MaxIds
      BY DEF Found, Chunks, MemoryTypeOK, Doc
    <3>3. Remembered(hits) \subseteq (1 .. MaxIds) \X {0}
      BY <3>2 DEF Remembered
    <3> QED BY <3>1, <3>3
  <2> QED BY <2>1, <2>2, <2>3, <2>4
<1>4. DOMAIN sync' = Syncers
  BY <1>2 DEF MemoryInv, SyncType
<1>5. ASSUME NEW s \in Syncers
      PROVE  /\ sync'[s].files = sync[s].files /\ sync'[s].known = sync[s].known
             /\ sync'[s].read = sync[s].read /\ sync'[s].changed = sync[s].changed
             /\ sync'[s].batch = sync[s].batch /\ sync'[s].alone = sync[s].alone
             /\ sync'[s].at = sync[s].at \/ sync'[s].at = "idle"
             /\ sync'[s] = [at |-> sync'[s].at, files |-> sync'[s].files, known |-> sync'[s].known,
                   read |-> sync'[s].read, changed |-> sync'[s].changed, batch |-> sync'[s].batch,
                   alone |-> sync'[s].alone]
  <2>1. CASE sync' = sync
    BY <2>1, SyncShape
  <2>2. CASE sync' = [sync EXCEPT ![Session].at = "idle"]
    <3>1. sync'[s] = sync[s] \/ sync'[s] = [sync[s] EXCEPT !.at = "idle"]
      BY <2>2, SyncShape
    <3>2. CASE sync'[s] = sync[s]
      BY <3>2, SyncShape
    <3>3. CASE sync'[s] = [sync[s] EXCEPT !.at = "idle"]
      BY <3>3, SyncShape
    <3> QED BY <3>1, <3>2, <3>3
  <2> QED BY <1>2, <2>1, <2>2
<1>6. MemoryTypeOK'
  BY <1>1, <1>3, <1>5 DEF MemoryInv, MemoryTypeOK
<1>7. SyncType'
  BY <1>3, <1>4, <1>5, SyncShape DEF SyncType
<1>8. DocRows' /\ ChunkRows'
  BY <1>1 DEF MemoryInv, DocRows, ChunkRows
<1>9. ASSUME NEW s \in Syncers PROVE SyncRows(s)' /\ (Alone(s)' => Undisturbed(s)')
  <2>1. SyncRows(s)'
    <3>1. SyncRows(s)
      BY DEF MemoryInv
    <3> QED BY <1>1, <1>5, <3>1, SameRows
  <2>2. ASSUME Alone(s)' PROVE Undisturbed(s)'
    <3>1. Alone(s) /\ sync'[s].at = sync[s].at
      BY <2>2, <1>5 DEF Alone, Stages
    <3>2. Undisturbed(s)
      BY <3>1 DEF MemoryInv
    <3>3. \A t \in Syncers : Busy(t)' => Busy(t)
      BY <1>5 DEF Busy
    <3> QED BY <1>1, <1>5, <3>1, <3>2, <3>3, SameUndisturbed
  <2> QED BY <2>1, <2>2
<1> QED BY <1>6, <1>7, <1>8, <1>9 DEF MemoryInv

(* An edit disturbs every sync.                                              *)
LEMMA EditStep == ASSUME MemoryAssumption, MemoryInv, NEW f \in MemoryFiles, Edit(f) PROVE MemoryInv'
<1> USE DEF MemoryAssumption
<1>1. UNCHANGED <<doc, lastId, vec, meta, recall, turn>> /\ writes' = writes + 1 /\ writes < MaxWrites
  BY DEF Edit
<1>2. file' \in [MemoryFiles -> Texts] /\ writes' \in Texts
  <2>1. PICK text \in {writes', 0} : file' = [file EXCEPT ![f] = text]
    BY DEF Edit
  <2>2. writes' \in Texts /\ text \in Texts
    BY <1>1, <2>1 DEF MemoryInv, MemoryTypeOK, Texts
  <2> QED BY <2>1, <2>2 DEF MemoryInv, MemoryTypeOK
<1>3. sync' = [s \in Syncers |-> [sync[s] EXCEPT !.alone = FALSE]]
  BY DEF Edit
<1>4. ASSUME NEW s \in Syncers
      PROVE  /\ sync'[s].files = sync[s].files /\ sync'[s].known = sync[s].known
             /\ sync'[s].read = sync[s].read /\ sync'[s].changed = sync[s].changed
             /\ sync'[s].batch = sync[s].batch /\ sync'[s].alone = FALSE
             /\ sync'[s] = [at |-> sync'[s].at, files |-> sync'[s].files, known |-> sync'[s].known,
                   read |-> sync'[s].read, changed |-> sync'[s].changed, batch |-> sync'[s].batch,
                   alone |-> sync'[s].alone]
  <2>1. sync'[s] = [sync[s] EXCEPT !.alone = FALSE]
    BY <1>3
  <2> QED BY <2>1, SyncShape
<1>5. MemoryTypeOK'
  BY <1>1, <1>2, <1>4 DEF MemoryInv, MemoryTypeOK
<1>6. SyncType'
  BY <1>1, <1>3, <1>4 DEF MemoryInv, SyncType
<1>7. DocRows' /\ ChunkRows'
  BY <1>1 DEF MemoryInv, DocRows, ChunkRows
<1>8. ASSUME NEW s \in Syncers PROVE SyncRows(s)' /\ ~Alone(s)'
  <2>1. SyncRows(s)
    BY DEF MemoryInv
  <2>2. SyncRows(s)'
    BY <1>1, <1>4, <2>1, SameRows
  <2> QED BY <1>4, <2>2 DEF Alone
<1> QED BY <1>5, <1>6, <1>7, <1>8 DEF MemoryInv

(* A sync that only notes something down: the tables stay, the other syncs   *)
(* stay as they are or are disturbed.                                        *)
LEMMA NotesDown ==
    ASSUME MemoryAssumption, MemoryInv, NEW s \in Syncers,
           UNCHANGED <<file, writes, doc, lastId, vec, meta, recall>>,
           DOMAIN sync' = Syncers,
           \A t \in Syncers \ {s} : sync'[t] = sync[t] \/ sync'[t] = [sync[t] EXCEPT !.alone = FALSE],
           (\A t \in Syncers \ {s} : sync'[t].alone = FALSE) \/ (Busy(s)' => Busy(s)),
           sync'[s] = [at |-> sync'[s].at, files |-> sync'[s].files, known |-> sync'[s].known,
              read |-> sync'[s].read, changed |-> sync'[s].changed, batch |-> sync'[s].batch,
              alone |-> sync'[s].alone],
           sync'[s].alone \in BOOLEAN,
           sync'[s].files \subseteq MemoryFiles, sync'[s].known \in [MemoryFiles -> Doc],
           SyncRows(s)', Alone(s)' => Undisturbed(s)'
    PROVE  MemoryInv'
<1>1. ASSUME NEW t \in Syncers, t # s
      PROVE  /\ sync'[t].files = sync[t].files /\ sync'[t].known = sync[t].known
             /\ sync'[t].read = sync[t].read /\ sync'[t].changed = sync[t].changed
             /\ sync'[t].batch = sync[t].batch /\ sync'[t].at = sync[t].at
             /\ sync'[t].alone = sync[t].alone \/ sync'[t].alone = FALSE
             /\ sync'[t] = [at |-> sync'[t].at, files |-> sync'[t].files, known |-> sync'[t].known,
                   read |-> sync'[t].read, changed |-> sync'[t].changed, batch |-> sync'[t].batch,
                   alone |-> sync'[t].alone]
  <2>1. sync'[t] = sync[t] \/ sync'[t] = [sync[t] EXCEPT !.alone = FALSE]
    BY <1>1
  <2>2. CASE sync'[t] = sync[t]
    BY <2>2, SyncShape
  <2>3. CASE sync'[t] = [sync[t] EXCEPT !.alone = FALSE]
    BY <2>3, SyncShape
  <2> QED BY <2>1, <2>2, <2>3
<1>2. MemoryTypeOK'
  BY <1>1 DEF MemoryInv, MemoryTypeOK
<1>3. SyncType'
  BY <1>1, SyncShape DEF MemoryInv, SyncType
<1>4. DocRows' /\ ChunkRows'
  BY DEF MemoryInv, DocRows, ChunkRows
<1>5. ASSUME NEW t \in Syncers PROVE SyncRows(t)' /\ (Alone(t)' => Undisturbed(t)')
  <2>1. CASE t = s
    BY <2>1
  <2>2. CASE t # s
    <3>1. SyncRows(t)'
      <4>1. SyncRows(t)
        BY DEF MemoryInv
      <4> QED BY <1>1, <2>2, <4>1, SameRows
    <3>2. ASSUME Alone(t)' PROVE Undisturbed(t)'
      <4>1. Alone(t) /\ Undisturbed(t)
        BY <1>1, <2>2, <3>2 DEF MemoryInv, Alone
      <4>2. Busy(s)' => Busy(s)
        BY <2>2, <3>2 DEF Alone
      <4>3. \A u \in Syncers : Busy(u)' => Busy(u)
        BY <1>1, <4>2 DEF Busy
      <4> QED BY <1>1, <2>2, <4>1, <4>3, SameUndisturbed
    <3> QED BY <3>1, <3>2
  <2> QED BY <2>1, <2>2
<1> QED BY <1>2, <1>3, <1>4, <1>5 DEF MemoryInv

LEMMA RejectStep ==
    ASSUME MemoryAssumption, MemoryInv, NEW s \in Syncers, Busy(s), SyncRejects(s),
           UNCHANGED <<file, writes, doc, lastId, vec, meta, recall>>
    PROVE  MemoryInv'
<1>1. sync' = [sync EXCEPT ![s].at = "rejected"]
  BY DEF SyncRejects
<1>2. DOMAIN sync' = Syncers /\ \A t \in Syncers \ {s} : sync'[t] = sync[t]
  BY <1>1, SyncShape
<1>3. /\ sync'[s] = [sync[s] EXCEPT !.at = "rejected"]
  BY <1>1, SyncShape
<1>4. /\ sync'[s] = [at |-> sync'[s].at, files |-> sync'[s].files, known |-> sync'[s].known,
              read |-> sync'[s].read, changed |-> sync'[s].changed, batch |-> sync'[s].batch,
              alone |-> sync'[s].alone]
      /\ sync'[s].at = "rejected" /\ sync'[s].files = sync[s].files /\ sync'[s].known = sync[s].known
      /\ sync'[s].read = sync[s].read /\ sync'[s].changed = sync[s].changed
      /\ sync'[s].batch = sync[s].batch /\ sync'[s].alone = sync[s].alone
  BY <1>3, SyncShape
<1>5. SyncRows(s)'
  BY <1>4 DEF MemoryInv, SyncRows
<1>6. ~Alone(s)'
  BY <1>4 DEF Alone, Stages
<1>7. sync'[s].alone \in BOOLEAN /\ sync'[s].files \subseteq MemoryFiles /\ sync'[s].known \in [MemoryFiles -> Doc]
  BY <1>4, SyncShape
<1> QED BY <1>2, <1>4, <1>5, <1>6, <1>7, NotesDown

LEMMA ListStep == ASSUME MemoryAssumption, MemoryInv, NEW s \in Syncers, List(s) PROVE MemoryInv'
<1> DEFINE r == [Idle EXCEPT !.at = "listed", !.files = {f \in MemoryFiles : file[f] # 0},
                             !.alone = \A u \in Syncers \ {s} : ~Busy(u)]
<1>1. /\ UNCHANGED <<file, writes, doc, lastId, vec, meta, recall>>
      /\ sync' = [t \in Syncers |-> IF t = s THEN r ELSE [sync[t] EXCEPT !.alone = FALSE]]
  BY DEF List
<1>2. /\ DOMAIN sync' = Syncers /\ sync'[s] = r
      /\ \A t \in Syncers \ {s} : sync'[t] = [sync[t] EXCEPT !.alone = FALSE]
  BY <1>1
<1>3. /\ r.at = "listed" /\ r.files = {f \in MemoryFiles : file[f] # 0} /\ r.read = {}
      /\ r.known = [f \in MemoryFiles |-> Absent] /\ DOMAIN r.changed = {} /\ DOMAIN r.batch = {}
      /\ r.alone \in BOOLEAN /\ (r.alone => \A u \in Syncers \ {s} : ~Busy(u))
      /\ r = [at |-> r.at, files |-> r.files, known |-> r.known, read |-> r.read,
              changed |-> r.changed, batch |-> r.batch, alone |-> r.alone]
  <2> DEFINE F == {f \in MemoryFiles : file[f] # 0}
             A == \A u \in Syncers \ {s} : ~Busy(u)
             E == [f \in {} |-> 0]
             B == [i \in {} |-> 0]
             N == [f \in MemoryFiles |-> Absent]
  <2>1. r = [at |-> "listed", files |-> F, known |-> N, read |-> {}, changed |-> E, batch |-> B, alone |-> A]
    <3>1. Idle = [at |-> "idle", files |-> {}, known |-> N, read |-> {}, changed |-> E, batch |-> B, alone |-> FALSE]
      BY DEF Idle
    <3>2. r = [Idle EXCEPT !.at = "listed", !.files = F, !.alone = A]
      OBVIOUS
    <3> HIDE DEF r, F, E, B, N, A
    <3> QED BY <3>1, <3>2, ListedRecord
  <2>2. DOMAIN E = {} /\ DOMAIN B = {} /\ A \in BOOLEAN
    OBVIOUS
  <2> HIDE DEF r, E, B, N
  <2> QED BY <2>1, <2>2 DEF N
<1> HIDE DEF r
<1>4. \A t \in Syncers \ {s} : sync'[t].alone = FALSE /\ sync'[t].at = sync[t].at
  BY <1>2, SyncShape
<1>5. SyncRows(s)'
  BY <1>2, <1>3 DEF SyncRows
<1>6. Alone(s)' => Undisturbed(s)'
  BY <1>1, <1>2, <1>3, <1>4 DEF Alone, Undisturbed, Busy, Stages
<1>7. r.known \in [MemoryFiles -> Doc]
  BY <1>3 DEF Absent, Doc, Texts, MemoryAssumption
<1>8. r.files \subseteq MemoryFiles
  BY <1>3
<1> QED BY <1>1, <1>2, <1>3, <1>4, <1>5, <1>6, <1>7, <1>8, NotesDown

LEMMA KnownStep == ASSUME MemoryAssumption, MemoryInv, NEW s \in Syncers, Known(s) PROVE MemoryInv'
<1>1. /\ UNCHANGED <<file, writes, doc, lastId, vec, meta, recall>>
      /\ sync' = [sync EXCEPT ![s].at = "reading", ![s].known = doc] /\ sync[s].at = "listed"
  BY DEF Known
<1>2. DOMAIN sync' = Syncers /\ \A t \in Syncers \ {s} : sync'[t] = sync[t]
  BY <1>1, SyncShape
<1>3. sync'[s] = [sync[s] EXCEPT !.at = "reading", !.known = doc]
  BY <1>1, SyncShape
<1>4. /\ sync'[s] = [at |-> sync'[s].at, files |-> sync'[s].files, known |-> sync'[s].known,
              read |-> sync'[s].read, changed |-> sync'[s].changed, batch |-> sync'[s].batch,
              alone |-> sync'[s].alone]
      /\ sync'[s].at = "reading" /\ sync'[s].files = sync[s].files /\ sync'[s].known = doc
      /\ sync'[s].read = sync[s].read /\ sync'[s].changed = sync[s].changed
      /\ sync'[s].batch = sync[s].batch /\ sync'[s].alone = sync[s].alone
  BY <1>3, SyncShape
<1>5. SyncRows(s) /\ SyncRows(s)'
  <2>1. SyncRows(s)
    BY DEF MemoryInv
  <2> QED BY <1>1, <1>4, <2>1, SameRows
<1>6. Alone(s)' => Undisturbed(s)'
  <2> SUFFICES ASSUME Alone(s)' PROVE Undisturbed(s)'
    OBVIOUS
  <2>1. Undisturbed(s)
    BY <1>1, <1>4 DEF MemoryInv, Alone
  <2>2. sync'[s].read = {} /\ DOMAIN sync'[s].changed = {}
    BY <1>1, <1>4, <1>5, <2>1 DEF Undisturbed, SyncRows
  <2>3. \A t \in Syncers \ {s} : ~Busy(t)'
    BY <1>2, <2>1 DEF Undisturbed, Busy
  <2> QED BY <1>1, <1>4, <2>1, <2>2, <2>3 DEF Undisturbed, Stages
<1>7. sync'[s].alone \in BOOLEAN /\ sync'[s].files \subseteq MemoryFiles /\ sync'[s].known \in [MemoryFiles -> Doc]
  BY <1>4, SyncShape DEF MemoryInv, MemoryTypeOK
<1>8. Busy(s)
  BY <1>1 DEF Busy
<1> QED BY <1>1, <1>2, <1>4, <1>5, <1>6, <1>7, <1>8, NotesDown

LEMMA ReadStep == ASSUME MemoryAssumption, MemoryInv, NEW s \in Syncers, Read(s) PROVE MemoryInv'
<1> DEFINE todo == sync[s].files \ sync[s].read
           f == CHOOSE g \in todo : TRUE
           more == [g \in DOMAIN sync[s].changed \cup {f} |-> IF g = f THEN file[f] ELSE sync[s].changed[g]]
           new == IF ~Differs(s, f) THEN sync[s].changed ELSE more
<1>1. /\ sync[s].at = "reading" /\ UNCHANGED <<file, writes, doc, lastId, vec, meta, recall>>
      /\ f \in todo /\ Busy(s)
  BY DEF Read, Busy
<1>2. CASE file[f] = 0
  <2>1. SyncRejects(s)
    BY <1>2 DEF Read
  <2> QED BY <1>1, <2>1, RejectStep
<1>3. CASE file[f] # 0
  <2>1. sync' = [sync EXCEPT ![s].read = @ \cup {f}, ![s].changed = new]
    BY <1>3 DEF Read
  <2> HIDE DEF new, f
  <2>2. DOMAIN sync' = Syncers /\ \A t \in Syncers \ {s} : sync'[t] = sync[t]
    BY <2>1, SyncShape
  <2>3. sync'[s] = [sync[s] EXCEPT !.read = sync[s].read \cup {f}, !.changed = new]
    BY <2>1, SyncShape
  <2>4. /\ sync'[s].at = "reading" /\ sync'[s].files = sync[s].files /\ sync'[s].known = sync[s].known
        /\ sync'[s].read = sync[s].read \cup {f} /\ sync'[s].changed = new
        /\ sync'[s].batch = sync[s].batch /\ sync'[s].alone = sync[s].alone
        /\ sync'[s] = [at |-> sync'[s].at, files |-> sync'[s].files, known |-> sync'[s].known,
              read |-> sync'[s].read, changed |-> sync'[s].changed, batch |-> sync'[s].batch,
              alone |-> sync'[s].alone]
    BY <1>1, <2>3, SyncShape
  <2>5. f \in MemoryFiles /\ f \in sync[s].files /\ f \notin sync[s].read
    BY <1>1, SyncShape
  <2>6. SyncRows(s) /\ file[f] \in Texts \ {0}
    BY <1>3, <2>5 DEF MemoryInv, MemoryTypeOK
  <2>7. /\ DOMAIN new \subseteq sync[s].read \cup {f}
        /\ \A g \in DOMAIN new : new[g] \in Texts \ {0}
    <3>1. CASE ~Differs(s, f)
      BY <2>6, <3>1 DEF new, SyncRows
    <3>2. CASE Differs(s, f)
      BY <2>6, <3>2 DEF new, SyncRows
    <3> QED BY <3>1, <3>2
  <2>8. SyncRows(s)'
    BY <1>1, <2>4, <2>5, <2>6, <2>7 DEF SyncRows, Texts
  <2>9. Alone(s)' => Undisturbed(s)'
    <3> SUFFICES ASSUME Alone(s)' PROVE Undisturbed(s)'
      OBVIOUS
    <3>1. Undisturbed(s)
      BY <1>1, <2>4 DEF MemoryInv, Alone
    <3>2. \A g \in DOMAIN new : new[g] = file[g]
      <4>1. CASE ~Differs(s, f)
        BY <1>1, <3>1, <4>1 DEF new, Undisturbed
      <4>2. CASE Differs(s, f)
        BY <1>1, <3>1, <4>2 DEF new, Undisturbed
      <4> QED BY <4>1, <4>2
    <3>3. \A g \in (sync[s].read \cup {f}) \ DOMAIN new : file[g] = doc[g].text
      <4>1. CASE ~Differs(s, f)
        BY <1>1, <3>1, <4>1 DEF new, Undisturbed, Differs
      <4>2. CASE Differs(s, f)
        BY <1>1, <3>1, <4>2 DEF new, Undisturbed
      <4> QED BY <4>1, <4>2
    <3>4. \A t \in Syncers \ {s} : ~Busy(t)'
      BY <2>2, <3>1 DEF Undisturbed, Busy
    <3>5. sync[s].known = doc /\ sync[s].files = {g \in MemoryFiles : file[g] # 0}
      BY <1>1, <3>1 DEF Undisturbed
    <3> HIDE DEF todo
    <3> QED BY <1>1, <2>4, <3>2, <3>3, <3>4, <3>5 DEF Undisturbed, Stages
  <2>10. sync'[s].alone \in BOOLEAN /\ sync'[s].files \subseteq MemoryFiles /\ sync'[s].known \in [MemoryFiles -> Doc]
    BY <2>4, SyncShape
  <2> QED BY <1>1, <2>2, <2>4, <2>8, <2>9, <2>10, NotesDown
<1> QED BY <1>2, <1>3

LEMMA EmbeddingFailsStep ==
    ASSUME MemoryAssumption, MemoryInv, NEW s \in Syncers, EmbeddingFails(s) PROVE MemoryInv'
<1>1. /\ UNCHANGED <<file, writes, doc, lastId, vec, meta, recall>>
      /\ sync' = [sync EXCEPT ![s].at = "given up"] /\ sync[s].at = "embedding"
  BY DEF EmbeddingFails
<1>2. DOMAIN sync' = Syncers /\ \A t \in Syncers \ {s} : sync'[t] = sync[t]
  BY <1>1, SyncShape
<1>3. sync'[s] = [sync[s] EXCEPT !.at = "given up"]
  BY <1>1, SyncShape
<1>4. /\ sync'[s] = [at |-> sync'[s].at, files |-> sync'[s].files, known |-> sync'[s].known,
              read |-> sync'[s].read, changed |-> sync'[s].changed, batch |-> sync'[s].batch,
              alone |-> sync'[s].alone]
      /\ sync'[s].at = "given up" /\ sync'[s].files = sync[s].files /\ sync'[s].known = sync[s].known
      /\ sync'[s].read = sync[s].read /\ sync'[s].changed = sync[s].changed
      /\ sync'[s].batch = sync[s].batch /\ sync'[s].alone = sync[s].alone
  BY <1>3, SyncShape
<1>5. SyncRows(s)'
  <2>1. SyncRows(s)
    BY DEF MemoryInv
  <2> QED BY <1>1, <1>4, <2>1, SameRows
<1>6. Alone(s)' => Undisturbed(s)'
  <2> SUFFICES ASSUME Alone(s)' PROVE Undisturbed(s)'
    OBVIOUS
  <2>1. Undisturbed(s)
    BY <1>1, <1>4 DEF MemoryInv, Alone, Stages
  <2>2. \A t \in Syncers \ {s} : ~Busy(t)'
    BY <1>2, <2>1 DEF Undisturbed, Busy
  <2>3. \A f \in MemoryFiles : doc[f].text = file[f]
    BY <1>1, <2>1 DEF Undisturbed, Stages
  <2> QED BY <1>1, <1>4, <2>2, <2>3 DEF Undisturbed
<1>7. sync'[s].alone \in BOOLEAN /\ sync'[s].files \subseteq MemoryFiles /\ sync'[s].known \in [MemoryFiles -> Doc]
  BY <1>4, SyncShape
<1>8. Busy(s)
  BY <1>1 DEF Busy
<1> QED BY <1>1, <1>2, <1>4, <1>5, <1>6, <1>7, <1>8, NotesDown

(* A step of a sync that changes the tables: what must be shown of the rows, *)
(* and that no other sync is undisturbed while one is busy.                  *)
LEMMA Stores ==
    ASSUME MemoryAssumption, MemoryInv, NEW s \in Syncers, Busy(s),
           UNCHANGED <<file, writes, recall>>,
           DOMAIN sync' = Syncers, \A t \in Syncers \ {s} : sync'[t] = sync[t],
           sync'[s].files = sync[s].files, sync'[s].known = sync[s].known, sync'[s].alone = sync[s].alone,
           sync'[s] = [at |-> sync'[s].at, files |-> sync'[s].files, known |-> sync'[s].known,
              read |-> sync'[s].read, changed |-> sync'[s].changed, batch |-> sync'[s].batch,
              alone |-> sync'[s].alone],
           doc' \in [MemoryFiles -> Doc], lastId' \in 0 .. MaxIds,
           vec' \in [1 .. MaxIds -> Texts], meta' \in [1 .. MaxIds -> Texts],
           DocRows', ChunkRows', \A t \in Syncers : SyncRows(t)',
           Alone(s)' => Undisturbed(s)'
    PROVE  MemoryInv'
<1>1. MemoryTypeOK'
  <2>1. ASSUME NEW t \in Syncers PROVE sync'[t].files \subseteq MemoryFiles /\ sync'[t].known \in [MemoryFiles -> Doc]
    <3>1. sync'[t].files = sync[t].files /\ sync'[t].known = sync[t].known
      OBVIOUS
    <3> QED BY <3>1, SyncShape
  <2> QED BY <2>1 DEF MemoryInv, MemoryTypeOK
<1>2. SyncType'
  <2>1. ASSUME NEW t \in Syncers
        PROVE  /\ sync'[t].alone \in BOOLEAN
               /\ sync'[t] = [at |-> sync'[t].at, files |-> sync'[t].files, known |-> sync'[t].known,
                     read |-> sync'[t].read, changed |-> sync'[t].changed, batch |-> sync'[t].batch,
                     alone |-> sync'[t].alone]
    <3>1. CASE t = s
      BY <3>1, SyncShape
    <3>2. CASE t # s
      <4>1. sync'[t] = sync[t]
        BY <3>2
      <4> QED BY <4>1, SyncShape
    <3> QED BY <3>1, <3>2
  <2> QED BY <2>1 DEF MemoryInv, SyncType
<1>3. ASSUME NEW t \in Syncers, Alone(t)' PROVE Undisturbed(t)'
  <2>1. CASE t = s
    BY <1>3, <2>1
  <2>2. CASE t # s
    <3>1. Alone(t)
      BY <1>3, <2>2 DEF Alone
    <3>2. Undisturbed(t)
      BY <3>1 DEF MemoryInv
    <3> QED BY <2>2, <3>2 DEF Undisturbed
  <2> QED BY <2>1, <2>2
<1> QED BY <1>1, <1>2, <1>3 DEF MemoryInv

(* A sync that changed only where it is, and its batch.                      *)
LEMMA Moved ==
    ASSUME MemoryInv, NEW s \in Syncers, NEW a, NEW b,
           \/ sync' = [sync EXCEPT ![s].at = a] /\ b = sync[s].batch
           \/ sync' = [sync EXCEPT ![s].batch = b, ![s].at = a]
    PROVE  /\ DOMAIN sync' = Syncers /\ \A t \in Syncers \ {s} : sync'[t] = sync[t]
           /\ sync'[s] = [at |-> sync'[s].at, files |-> sync'[s].files, known |-> sync'[s].known,
                 read |-> sync'[s].read, changed |-> sync'[s].changed, batch |-> sync'[s].batch,
                 alone |-> sync'[s].alone]
           /\ sync'[s].at = a /\ sync'[s].files = sync[s].files /\ sync'[s].known = sync[s].known
           /\ sync'[s].read = sync[s].read /\ sync'[s].changed = sync[s].changed
           /\ sync'[s].batch = b /\ sync'[s].alone = sync[s].alone
<1>1. DOMAIN sync' = Syncers /\ \A t \in Syncers \ {s} : sync'[t] = sync[t]
  BY SyncShape
<1>2. CASE sync' = [sync EXCEPT ![s].at = a] /\ b = sync[s].batch
  <2>1. sync'[s] = [sync[s] EXCEPT !.at = a]
    BY <1>2, SyncShape
  <2> QED BY <1>1, <1>2, <2>1, SyncShape
<1>3. CASE sync' = [sync EXCEPT ![s].batch = b, ![s].at = a]
  <2>1. sync'[s] = [sync[s] EXCEPT !.batch = b, !.at = a]
    BY <1>3, SyncShape
  <2> QED BY <1>1, <2>1, SyncShape
<1> QED BY <1>2, <1>3

LEMMA EmbeddedStep ==
    ASSUME MemoryAssumption, MemoryInv, NEW s \in Syncers, Embedded(s) PROVE MemoryInv'
<1> DEFINE new == sync[s].batch
<1>1. sync[s].at = "embedding" /\ UNCHANGED <<file, writes, doc, lastId, recall>> /\ Busy(s)
  BY DEF Embedded, Busy
<1>2. CASE ~(DOMAIN new \subseteq Chunks)
  <2>1. SyncRejects(s) /\ UNCHANGED <<vec, meta>>
    BY <1>2 DEF Embedded
  <2> QED BY <1>1, <2>1, RejectStep
<1>3. CASE DOMAIN new \subseteq Chunks
  <2>1. /\ vec' = [i \in 1 .. MaxIds |-> IF i \in DOMAIN new THEN new[i] ELSE vec[i]]
        /\ meta' = [i \in 1 .. MaxIds |-> IF i \in DOMAIN new THEN new[i] ELSE meta[i]]
        /\ sync' = [sync EXCEPT ![s].at = "done"]
    BY <1>3 DEF Embedded
  <2>2. /\ DOMAIN sync' = Syncers /\ \A t \in Syncers \ {s} : sync'[t] = sync[t]
        /\ sync'[s] = [at |-> sync'[s].at, files |-> sync'[s].files, known |-> sync'[s].known,
              read |-> sync'[s].read, changed |-> sync'[s].changed, batch |-> sync'[s].batch,
              alone |-> sync'[s].alone]
        /\ sync'[s].at = "done" /\ sync'[s].files = sync[s].files /\ sync'[s].known = sync[s].known
        /\ sync'[s].read = sync[s].read /\ sync'[s].changed = sync[s].changed
        /\ sync'[s].batch = sync[s].batch /\ sync'[s].alone = sync[s].alone
    BY <2>1, Moved
  <2>3. /\ \A i \in DOMAIN new : i \in 1 .. lastId /\ new[i] \in Texts \ {0}
        /\ \A i \in DOMAIN new : \A f \in MemoryFiles : doc[f].id = i => doc[f].text = new[i]
    BY DEF MemoryInv, SyncRows
  <2>4. lastId \in 0 .. MaxIds /\ MaxIds \in Nat
    BY DEF MemoryInv, MemoryTypeOK, MemoryAssumption
  <2>5. /\ vec \in [1 .. MaxIds -> Texts] /\ meta \in [1 .. MaxIds -> Texts] /\ doc \in [MemoryFiles -> Doc]
        /\ DocRows /\ ChunkRows
    BY DEF MemoryInv, MemoryTypeOK
  <2> HIDE DEF new
  <2>6. vec' \in [1 .. MaxIds -> Texts] /\ meta' \in [1 .. MaxIds -> Texts]
    BY <2>1, <2>3, <2>5
  <2>7. DocRows'
    BY <1>1, <2>5 DEF DocRows
  <2>8. \A f \in MemoryFiles : doc[f].id \in 0 .. lastId /\ doc[f].id \in 0 .. MaxIds
    BY <2>4, <2>5 DEF Doc, DocRows
  <2>9. ChunkRows'
    <3>1. \A i \in 1 .. MaxIds : i > lastId => vec'[i] = 0 /\ meta'[i] = 0
      BY <2>1, <2>3, <2>4, <2>5 DEF ChunkRows
    <3>2. ASSUME NEW f \in MemoryFiles, doc[f].id # 0
          PROVE  /\ vec'[doc[f].id] # 0 => vec'[doc[f].id] = doc[f].text
                 /\ meta'[doc[f].id] # 0 => meta'[doc[f].id] = doc[f].text /\ vec'[doc[f].id] # 0
      <4>1. doc[f].id \in 1 .. MaxIds
        BY <2>4, <2>8, <3>2
      <4>2. CASE doc[f].id \in DOMAIN new
        BY <2>1, <2>3, <4>1, <4>2
      <4>3. CASE doc[f].id \notin DOMAIN new
        BY <2>1, <2>5, <3>2, <4>1, <4>3 DEF ChunkRows
      <4> QED BY <4>2, <4>3
    <3> QED BY <1>1, <3>1, <3>2 DEF ChunkRows
  <2>10. ASSUME NEW t \in Syncers PROVE SyncRows(t)'
    <3>1. SyncRows(t)
      BY DEF MemoryInv
    <3>2. /\ sync'[t].files = sync[t].files /\ sync'[t].read = sync[t].read
          /\ sync'[t].changed = sync[t].changed /\ sync'[t].batch = sync[t].batch
      BY <2>2
    <3> QED BY <1>1, <3>1, <3>2, SameRows
  <2>11. Alone(s)' => Undisturbed(s)'
    <3> SUFFICES ASSUME Alone(s)' PROVE Undisturbed(s)'
      OBVIOUS
    <3>1. Undisturbed(s)
      BY <1>1, <2>2 DEF MemoryInv, Alone, Stages
    <3>2. \A t \in Syncers \ {s} : ~Busy(t)'
      BY <2>2, <3>1 DEF Undisturbed, Busy
    <3>3. \A f \in MemoryFiles : doc[f].text = file[f]
      BY <1>1, <3>1 DEF Undisturbed, Stages
    <3>4. ASSUME NEW f \in MemoryFiles, doc[f].id # 0 PROVE meta'[doc[f].id] # 0
      <4>1. doc[f].id \in 1 .. MaxIds
        BY <2>4, <2>8, <3>4
      <4>2. doc[f].id \in DOMAIN new \/ meta[doc[f].id] # 0
        BY <1>1, <3>1, <3>4 DEF Undisturbed, new
      <4> QED BY <2>1, <2>3, <4>1, <4>2
    <3> QED BY <1>1, <2>2, <3>2, <3>3, <3>4 DEF Undisturbed
  <2> QED BY <1>1, <2>2, <2>4, <2>5, <2>6, <2>7, <2>9, <2>10, <2>11, Stores
<1> QED BY <1>2, <1>3

LEMMA PickStep == ASSUME MemoryAssumption, MemoryInv, NEW s \in Syncers, Pick(s) PROVE MemoryInv'
<1> DEFINE due == {i \in Chunks : meta[i] # TextOf(i)}
           new == [i \in due |-> TextOf(i)]
           a == IF due = {} THEN "done" ELSE "embedding"
<1>1. /\ sync[s].at = "indexed" /\ UNCHANGED <<file, writes, doc, lastId, recall>> /\ Busy(s)
      /\ meta' = [i \in 1 .. MaxIds |-> IF i \in Chunks THEN meta[i] ELSE 0]
      /\ vec' = [i \in 1 .. MaxIds |-> IF i \in Chunks THEN vec[i] ELSE 0]
      /\ sync' = [sync EXCEPT ![s].batch = new, ![s].at = a]
  BY DEF Pick, Busy
<1>2. /\ DOMAIN sync' = Syncers /\ \A t \in Syncers \ {s} : sync'[t] = sync[t]
      /\ sync'[s] = [at |-> sync'[s].at, files |-> sync'[s].files, known |-> sync'[s].known,
            read |-> sync'[s].read, changed |-> sync'[s].changed, batch |-> sync'[s].batch,
            alone |-> sync'[s].alone]
      /\ sync'[s].at = a /\ sync'[s].files = sync[s].files /\ sync'[s].known = sync[s].known
      /\ sync'[s].read = sync[s].read /\ sync'[s].changed = sync[s].changed
      /\ sync'[s].batch = new /\ sync'[s].alone = sync[s].alone
  <2> HIDE DEF new, a
  <2> QED BY <1>1, Moved
<1>3. lastId \in 0 .. MaxIds /\ MaxIds \in Nat
  BY DEF MemoryInv, MemoryTypeOK, MemoryAssumption
<1>4. /\ vec \in [1 .. MaxIds -> Texts] /\ meta \in [1 .. MaxIds -> Texts] /\ doc \in [MemoryFiles -> Doc]
      /\ DocRows /\ ChunkRows
  BY DEF MemoryInv, MemoryTypeOK
<1>5. \A f \in MemoryFiles : doc[f].id \in 0 .. lastId /\ doc[f].id \in 0 .. MaxIds /\ doc[f].text \in Texts
  BY <1>3, <1>4 DEF Doc, DocRows
<1>6. \A f \in MemoryFiles : doc[f].id # 0 => doc[f].id \in Chunks /\ TextOf(doc[f].id) = doc[f].text
  BY <1>4, TextOfDoc
<1>7. \A i \in Chunks : \E f \in MemoryFiles : doc[f].id = i /\ i # 0 /\ TextOf(i) = doc[f].text /\ doc[f].text # 0
  BY <1>4, <1>6, ChunkOfDoc DEF DocRows
<1>8. vec' \in [1 .. MaxIds -> Texts] /\ meta' \in [1 .. MaxIds -> Texts]
  BY <1>1, <1>4 DEF MemoryAssumption, Texts
<1>9. DocRows'
  BY <1>1, <1>4 DEF DocRows
<1>10. ChunkRows'
  <2>1. \A i \in 1 .. MaxIds : i > lastId => vec'[i] = 0 /\ meta'[i] = 0
    BY <1>1, <1>4 DEF ChunkRows
  <2>2. ASSUME NEW f \in MemoryFiles, doc[f].id # 0
        PROVE  vec'[doc[f].id] = vec[doc[f].id] /\ meta'[doc[f].id] = meta[doc[f].id]
    <3>1. doc[f].id \in 1 .. MaxIds /\ doc[f].id \in Chunks
      BY <1>3, <1>5, <1>6, <2>2
    <3> QED BY <1>1, <3>1
  <2> QED BY <1>1, <1>4, <2>1, <2>2 DEF ChunkRows
<1>11. ASSUME NEW t \in Syncers PROVE SyncRows(t)'
  <2>1. SyncRows(t)
    BY DEF MemoryInv
  <2>2. CASE t # s
    <3>1. sync'[t] = sync[t]
      BY <1>2, <2>2
    <3> QED BY <1>1, <2>1, <3>1, SameRows
  <2>3. CASE t = s
    <3>1. ASSUME NEW i \in DOMAIN new
          PROVE  /\ i \in 1 .. lastId /\ new[i] \in Texts \ {0}
                 /\ \A f \in MemoryFiles : doc[f].id = i => doc[f].text = new[i]
      <4>1. i \in Chunks /\ new[i] = TextOf(i)
        OBVIOUS
      <4>2. PICK f \in MemoryFiles : doc[f].id = i /\ i # 0 /\ TextOf(i) = doc[f].text /\ doc[f].text # 0
        BY <1>7, <4>1
      <4> HIDE DEF new, due
      <4> QED BY <1>3, <1>5, <1>6, <4>1, <4>2
    <3> HIDE DEF new, due, a
    <3>2. DOMAIN sync'[s].changed \subseteq sync'[s].read /\ sync'[s].read \subseteq sync'[s].files
      BY <1>2, <2>1, <2>3 DEF SyncRows
    <3>3. \A f \in DOMAIN sync'[s].changed : sync'[s].changed[f] \in Texts \ {0}
      BY <1>2, <2>1, <2>3 DEF SyncRows
    <3> QED BY <1>1, <1>2, <2>3, <3>1, <3>2, <3>3 DEF SyncRows, Texts
  <2> QED BY <2>2, <2>3
<1>12. Alone(s)' => Undisturbed(s)'
  <2> SUFFICES ASSUME Alone(s)' PROVE Undisturbed(s)'
    OBVIOUS
  <2>1. Undisturbed(s)
    BY <1>1, <1>2 DEF MemoryInv, Alone, Stages
  <2>2. \A t \in Syncers \ {s} : ~Busy(t)'
    BY <1>2, <2>1 DEF Undisturbed, Busy
  <2>3. \A f \in MemoryFiles : doc[f].text = file[f]
    BY <1>1, <2>1 DEF Undisturbed, Stages
  <2>4. ASSUME NEW f \in MemoryFiles, doc[f].id # 0
        PROVE  doc[f].id \in due \/ meta'[doc[f].id] # 0
    <3>1. doc[f].id \in 1 .. MaxIds /\ doc[f].id \in Chunks /\ TextOf(doc[f].id) # 0
      BY <1>3, <1>4, <1>5, <1>6, <2>4 DEF DocRows
    <3> QED BY <1>1, <3>1
  <2>5. DOMAIN new = due
    OBVIOUS
  <2>6. a \in {"done", "embedding"} /\ (a = "done" => due = {})
    OBVIOUS
  <2> HIDE DEF new, due, a
  <2> QED BY <1>1, <1>2, <2>2, <2>3, <2>4, <2>5, <2>6 DEF Undisturbed
<1> QED BY <1>1, <1>2, <1>3, <1>4, <1>8, <1>9, <1>10, <1>11, <1>12, Stores

LEMMA CommitStep == ASSUME MemoryAssumption, MemoryInv, NEW s \in Syncers, Commit(s) PROVE MemoryInv'
<1> DEFINE new == sync[s].changed
           D == DOMAIN new
           rank == CHOOSE r \in [D -> 1 .. Cardinality(D)] : \A f, g \in D : f # g => r[f] # r[g]
           kept == Chunks \ {doc[f].id : f \in D \cup Removed(s)}
<1>1. /\ sync[s].at = "reading" /\ sync[s].read = sync[s].files
      /\ lastId + Cardinality(D) <= MaxIds /\ lastId' = lastId + Cardinality(D)
      /\ doc' = [f \in MemoryFiles |-> CASE f \in D -> [text |-> new[f], id |-> NextId(rank[f])]
                                         [] f \in Removed(s) -> Absent
                                         [] OTHER -> doc[f]]
      /\ meta' = [i \in 1 .. MaxIds |-> IF i \in kept THEN meta[i] ELSE 0]
      /\ sync' = [sync EXCEPT ![s].at = "indexed"]
      /\ UNCHANGED <<file, writes, vec, recall>> /\ Busy(s)
  BY DEF Commit, Busy
<1>2. /\ DOMAIN sync' = Syncers /\ \A t \in Syncers \ {s} : sync'[t] = sync[t]
      /\ sync'[s] = [at |-> sync'[s].at, files |-> sync'[s].files, known |-> sync'[s].known,
            read |-> sync'[s].read, changed |-> sync'[s].changed, batch |-> sync'[s].batch,
            alone |-> sync'[s].alone]
      /\ sync'[s].at = "indexed" /\ sync'[s].files = sync[s].files /\ sync'[s].known = sync[s].known
      /\ sync'[s].read = sync[s].read /\ sync'[s].changed = sync[s].changed
      /\ sync'[s].batch = sync[s].batch /\ sync'[s].alone = sync[s].alone
  BY <1>1, Moved
<1>3. lastId \in 0 .. MaxIds /\ MaxIds \in Nat /\ IsFiniteSet(MemoryFiles)
  BY DEF MemoryInv, MemoryTypeOK, MemoryAssumption
<1>4. /\ vec \in [1 .. MaxIds -> Texts] /\ meta \in [1 .. MaxIds -> Texts] /\ doc \in [MemoryFiles -> Doc]
      /\ DocRows /\ ChunkRows /\ SyncRows(s) /\ 0 \in Texts
  BY DEF MemoryInv, MemoryTypeOK, MemoryAssumption, Texts
<1>5. \A f \in MemoryFiles : doc[f].id \in 0 .. lastId /\ doc[f].id \in 0 .. MaxIds /\ doc[f].text \in Texts
  BY <1>3, <1>4 DEF Doc, DocRows
<1>6. D \subseteq MemoryFiles /\ \A f \in D : new[f] \in Texts \ {0}
  BY <1>4, SyncShape DEF SyncRows
<1>7. Cardinality(D) \in Nat /\ rank \in [D -> 1 .. Cardinality(D)] /\ \A f, g \in D : f # g => rank[f] # rank[g]
  <2>1. IsFiniteSet(D)
    BY <1>3, <1>6, FS_Subset
  <2> HIDE DEF D
  <2> QED BY <2>1, RankExists
<1> DEFINE fresh(f) == lastId + rank[f]
<1> HIDE DEF new, D, rank, kept
<1>8. \A f \in D : /\ fresh(f) \in 1 .. MaxIds /\ fresh(f) > lastId
                  /\ fresh(f) <= lastId + Cardinality(D)
  <2> SUFFICES ASSUME NEW f \in D
               PROVE  fresh(f) \in 1 .. MaxIds /\ fresh(f) > lastId /\ fresh(f) <= lastId + Cardinality(D)
    OBVIOUS
  <2>1. rank[f] \in 1 .. Cardinality(D)
    BY <1>7
  <2> QED BY <1>1, <1>3, <1>7, <2>1
<1>9. D \cap Removed(s) = {}
  BY <1>4 DEF Removed, SyncRows, D, new
<1>10. ASSUME NEW f \in MemoryFiles
      PROVE  /\ f \in D => doc'[f] = [text |-> new[f], id |-> fresh(f)]
             /\ f \notin D /\ f \in Removed(s) => doc'[f] = Absent
             /\ f \notin D /\ f \notin Removed(s) => doc'[f] = doc[f]
  <2>1. CASE f \in D
    <3>1. f \notin Removed(s)
      BY <1>9, <2>1
    <3> QED BY <1>1, <2>1, <3>1 DEF NextId
  <2>2. CASE f \notin D
    BY <1>1, <2>2
  <2> QED BY <2>1, <2>2
<1>11. ASSUME NEW f \in MemoryFiles
       PROVE  /\ f \in D => doc'[f].text = new[f] /\ doc'[f].id = fresh(f)
              /\ f \notin D /\ f \in Removed(s) => doc'[f].text = 0 /\ doc'[f].id = 0
              /\ f \notin D /\ f \notin Removed(s) => doc'[f].text = doc[f].text /\ doc'[f].id = doc[f].id
              /\ doc'[f] \in Doc
  <2>1. CASE f \in D
    <3>1. doc'[f] = [text |-> new[f], id |-> fresh(f)]
      BY <1>10, <2>1
    <3>2. fresh(f) \in 0 .. MaxIds
      BY <1>3, <1>8, <2>1
    <3> HIDE DEF fresh
    <3> QED BY <1>6, <2>1, <3>1, <3>2 DEF Doc
  <2>2. CASE f \notin D /\ f \in Removed(s)
    <3>1. doc'[f] = Absent
      BY <1>10, <2>2
    <3>2. Absent.text = 0 /\ Absent.id = 0 /\ Absent \in Doc
      BY <1>3, <1>4 DEF Absent, Doc
    <3> QED BY <2>2, <3>1, <3>2
  <2>3. CASE f \notin D /\ f \notin Removed(s)
    <3>1. doc'[f] = doc[f]
      BY <1>10, <2>3
    <3> QED BY <1>4, <2>3, <3>1
  <2> QED BY <2>1, <2>2, <2>3
<1>12. lastId' \in 0 .. MaxIds /\ lastId' >= lastId
  BY <1>1, <1>3, <1>7
<1>13. doc' \in [MemoryFiles -> Doc]
  BY <1>1, <1>11
<1>14. vec' \in [1 .. MaxIds -> Texts] /\ meta' \in [1 .. MaxIds -> Texts]
  BY <1>1, <1>4
<1>15. DocRows'
  <2>1. ASSUME NEW f \in MemoryFiles PROVE doc'[f].id <= lastId' /\ (doc'[f].text = 0 <=> doc'[f].id = 0)
    <3>1. CASE f \in D
      <4>1. doc'[f].text = new[f] /\ doc'[f].id = fresh(f)
        BY <1>11, <3>1
      <4> QED BY <1>1, <1>3, <1>6, <1>7, <1>8, <3>1, <4>1
    <3>2. CASE f \notin D /\ f \in Removed(s)
      BY <1>11, <1>12, <3>2
    <3>3. CASE f \notin D /\ f \notin Removed(s)
      BY <1>3, <1>4, <1>5, <1>11, <1>12, <3>3 DEF DocRows
    <3> QED BY <3>1, <3>2, <3>3
  <2>2. ASSUME NEW f \in MemoryFiles, NEW g \in MemoryFiles, doc'[f].id = doc'[g].id, doc'[f].id # 0
        PROVE  f = g
    <3>1. f \notin Removed(s) \/ f \in D
      BY <1>11, <2>2
    <3>2. g \notin Removed(s) \/ g \in D
      BY <1>11, <2>2
    <3>3. CASE f \in D /\ g \in D
      BY <1>3, <1>7, <1>11, <2>2, <3>3
    <3>4. CASE f \in D /\ g \notin D
      <4>1. doc'[g].id = doc[g].id /\ doc[g].id \in 0 .. lastId /\ doc'[f].id = fresh(f)
        BY <1>5, <1>11, <3>2, <3>4
      <4>2. fresh(f) \in Int /\ fresh(f) > lastId
        BY <1>8, <3>4
      <4> HIDE DEF fresh
      <4> QED BY <1>3, <2>2, <4>1, <4>2
    <3>5. CASE f \notin D /\ g \in D
      <4>1. doc'[f].id = doc[f].id /\ doc[f].id \in 0 .. lastId /\ doc'[g].id = fresh(g)
        BY <1>5, <1>11, <3>1, <3>5
      <4>2. fresh(g) \in Int /\ fresh(g) > lastId
        BY <1>8, <3>5
      <4> HIDE DEF fresh
      <4>3. lastId \in Int
        BY <1>3
      <4>4. doc[f].id < fresh(g)
        BY <4>1, <4>2, <4>3
      <4>5. doc'[f].id # doc'[g].id
        BY <4>1, <4>2, <4>4
      <4> QED BY <2>2, <4>5
    <3>6. CASE f \notin D /\ g \notin D
      <4>1. doc'[f].id = doc[f].id /\ doc'[g].id = doc[g].id
        BY <1>11, <3>1, <3>2, <3>6
      <4> QED BY <1>4, <2>2, <4>1 DEF DocRows
    <3> QED BY <3>3, <3>4, <3>5, <3>6
  <2> QED BY <2>1, <2>2 DEF DocRows
<1>16. ChunkRows'
  <2>1. \A i \in kept : i \in 0 .. lastId
    BY <1>5, ChunkOfDoc DEF kept
  <2>2. \A i \in 1 .. MaxIds : i > lastId' => vec'[i] = 0 /\ meta'[i] = 0
    <3> SUFFICES ASSUME NEW i \in 1 .. MaxIds, i > lastId' PROVE vec'[i] = 0 /\ meta'[i] = 0
      OBVIOUS
    <3>1. i > lastId
      BY <1>3, <1>12
    <3>2. vec[i] = 0 /\ meta[i] = 0
      BY <1>4, <3>1 DEF ChunkRows
    <3> QED BY <1>1, <3>2
  <2>3. ASSUME NEW f \in MemoryFiles, doc'[f].id # 0
        PROVE  /\ vec'[doc'[f].id] # 0 => vec'[doc'[f].id] = doc'[f].text
               /\ meta'[doc'[f].id] # 0 => meta'[doc'[f].id] = doc'[f].text /\ vec'[doc'[f].id] # 0
    <3>1. CASE f \in D
      <4>1. fresh(f) \in 1 .. MaxIds /\ fresh(f) > lastId /\ doc'[f].id = fresh(f)
        BY <1>8, <1>11, <3>1
      <4> HIDE DEF fresh
      <4>2. vec[fresh(f)] = 0 /\ meta[fresh(f)] = 0
        BY <1>4, <4>1 DEF ChunkRows
      <4> QED BY <1>1, <4>1, <4>2
    <3>2. CASE f \notin D
      <4>1. f \notin Removed(s) /\ doc'[f].id = doc[f].id /\ doc'[f].text = doc[f].text
        BY <1>11, <2>3, <3>2
      <4>2. doc[f].id \in 1 .. MaxIds
        BY <1>3, <1>5, <2>3, <4>1
      <4>3. vec'[doc[f].id] = vec[doc[f].id] /\ meta'[doc[f].id] \in {meta[doc[f].id], 0}
        BY <1>1, <4>2
      <4> QED BY <1>4, <2>3, <4>1, <4>3 DEF ChunkRows
    <3> QED BY <3>1, <3>2
  <2> QED BY <2>2, <2>3 DEF ChunkRows
<1>17. ASSUME NEW t \in Syncers PROVE SyncRows(t)'
  <2>1. SyncRows(t)
    BY DEF MemoryInv
  <2>2. /\ sync'[t].files = sync[t].files /\ sync'[t].read = sync[t].read
        /\ sync'[t].changed = sync[t].changed /\ sync'[t].batch = sync[t].batch
    BY <1>2
  <2>3. DOMAIN sync[t].changed \subseteq sync[t].read /\ sync[t].read \subseteq sync[t].files
    BY <2>1 DEF SyncRows
  <2>4. \A f \in DOMAIN sync[t].changed : sync[t].changed[f] \in Texts \ {0}
    BY <2>1 DEF SyncRows
  <2>5. \A i \in DOMAIN sync[t].batch : i \in 1 .. lastId /\ sync[t].batch[i] \in Texts \ {0}
    BY <2>1 DEF SyncRows
  <2>6. \A i \in DOMAIN sync[t].batch : i \in 1 .. lastId'
    BY <1>3, <1>12, <2>5
  <2>7. ASSUME NEW i \in DOMAIN sync[t].batch, NEW f \in MemoryFiles, doc'[f].id = i
        PROVE  doc'[f].text = sync[t].batch[i]
    <3>1. i \in 1 .. lastId
      BY <2>5
    <3>2. f \notin D
      BY <1>3, <1>8, <1>11, <2>7, <3>1
    <3>3. f \notin Removed(s)
      BY <1>11, <2>7, <3>1, <3>2
    <3>4. doc[f].id = i /\ doc'[f].text = doc[f].text
      BY <1>11, <2>7, <3>2, <3>3
    <3> QED BY <2>1, <3>4 DEF SyncRows
  <2> HIDE DEF fresh
  <2> QED BY <2>2, <2>3, <2>4, <2>5, <2>6, <2>7 DEF SyncRows, Texts
<1>18. Alone(s)' => Undisturbed(s)'
  <2> SUFFICES ASSUME Alone(s)' PROVE Undisturbed(s)'
    OBVIOUS
  <2>1. Undisturbed(s)
    BY <1>1, <1>2 DEF MemoryInv, Alone, Stages
  <2>2. \A t \in Syncers \ {s} : ~Busy(t)'
    BY <1>2, <2>1 DEF Undisturbed, Busy
  <2>3. /\ sync[s].known = doc /\ sync[s].files = {f \in MemoryFiles : file[f] # 0}
        /\ \A f \in D : new[f] = file[f]
        /\ \A f \in sync[s].read \ D : file[f] = doc[f].text
    BY <1>1, <2>1 DEF Undisturbed, D, new
  <2>4. ASSUME NEW f \in MemoryFiles PROVE doc'[f].text = file[f]
    <3>1. CASE f \in D
      BY <1>11, <2>3, <3>1
    <3>2. CASE f \notin D /\ f \in Removed(s)
      BY <1>11, <2>3, <3>2 DEF Removed
    <3>3. CASE f \notin D /\ f \notin Removed(s)
      <4>1. CASE f \in sync[s].files
        BY <1>1, <1>11, <2>3, <3>3, <4>1
      <4>2. CASE f \notin sync[s].files
        <5>1. doc[f] = Absent
          BY <2>3, <3>3, <4>2 DEF Removed
        <5> QED BY <1>11, <2>3, <3>3, <4>2, <5>1 DEF Absent
      <4> QED BY <4>1, <4>2
    <3> QED BY <3>1, <3>2, <3>3
  <2> QED BY <1>1, <1>2, <2>2, <2>4 DEF Undisturbed
<1> QED BY <1>1, <1>2, <1>12, <1>13, <1>14, <1>15, <1>16, <1>17, <1>18, Stores

---------------------------------------------------------------------------
LEMMA MemoryStep ==
    ASSUME MemoryAssumption, MemoryInv, [MemoryNext]_memVars PROVE MemoryInv'
<1>1. CASE \E f \in MemoryFiles : Edit(f)
  BY <1>1, EditStep
<1>2. ASSUME NEW s \in Syncers, SyncStep(s) PROVE MemoryInv'
  BY <1>2, ListStep, KnownStep, ReadStep, CommitStep, PickStep, EmbeddedStep, EmbeddingFailsStep DEF SyncStep
<1>3. CASE Prepare \/ RecallMemories \/ Answered \/ InjectIncomingEvent \/ Quarantine \/ Wake
  BY <1>3, SessionSteps
<1>4. CASE UNCHANGED memVars
  <2>1. /\ MemoryTypeOK' /\ DocRows' /\ ChunkRows'
    BY <1>4 DEF MemoryInv, memVars, MemoryTypeOK, DocRows, ChunkRows
  <2>2. SyncType'
    BY <1>4 DEF MemoryInv, memVars, SyncType
  <2>3. ASSUME NEW s \in Syncers PROVE SyncRows(s)' /\ (Alone(s)' => Undisturbed(s)')
    <3>1. SyncRows(s) /\ (Alone(s) => Undisturbed(s))
      BY DEF MemoryInv
    <3>2. SyncRows(s)'
      BY <1>4, <3>1, SameRows DEF memVars
    <3>3. Alone(s)' => Undisturbed(s)'
      BY <1>4, <3>1, SameUndisturbed DEF memVars, Alone, Busy
    <3> QED BY <3>2, <3>3
  <2> QED BY <2>1, <2>2, <2>3 DEF MemoryInv
<1> QED BY <1>1, <1>2, <1>3, <1>4 DEF MemoryNext

LEMMA MemoryTells == ASSUME MemoryAssumption, MemoryInv PROVE IndexTruthful
<1>1. ASSUME NEW i \in Chunks
      PROVE  /\ vec[i] # 0 => vec[i] = TextOf(i)
             /\ meta[i] # 0 => vec[i] # 0
             /\ \E f \in MemoryFiles : doc[f].id = i /\ doc[f].id # 0
  <2>1. PICK f \in MemoryFiles : doc[f].id = i /\ doc[f].id # 0
    BY ChunkOfDoc
  <2>2. TextOf(i) = doc[f].text
    BY <2>1, TextOfDoc DEF MemoryInv
  <2> QED BY <2>1, <2>2 DEF MemoryInv, ChunkRows
<1>2. ASSUME NEW s \in Syncers, sync[s].alone, sync[s].at \in {"indexed", "embedding", "done", "given up"}
      PROVE  /\ \A f \in MemoryFiles : doc[f].text = file[f]
             /\ sync[s].at = "done" => \A i \in Chunks : meta[i] # 0
  <2>1. Undisturbed(s)
    BY <1>2 DEF MemoryInv, Alone, Stages
  <2>2. \A f \in MemoryFiles : doc[f].text = file[f]
    BY <1>2, <2>1 DEF Undisturbed, Stages
  <2>3. ASSUME sync[s].at = "done", NEW i \in Chunks PROVE meta[i] # 0
    BY <1>1, <2>1, <2>3 DEF Undisturbed
  <2> QED BY <2>2, <2>3
<1> QED BY <1>1, <1>2 DEF IndexTruthful

(* Type correctness of the index, the syncs and the recall state.            *)
THEOREM MemoryTypeCorrect == MemoryAssumption => (MemorySpec => []MemoryTypeOK)
<1> SUFFICES ASSUME MemoryAssumption PROVE MemorySpec => []MemoryTypeOK
  OBVIOUS
<1>1. MemoryInit => MemoryInv
  BY MemoryStarts
<1>2. MemoryInv /\ [MemoryNext]_memVars => MemoryInv'
  BY MemoryStep
<1>3. MemoryInv => MemoryTypeOK
  BY DEF MemoryInv
<1> QED BY <1>1, <1>2, <1>3, PTL DEF MemorySpec

(* syncMemoryIndex, syncMemoryEmbeddings: however many searches sync at once *)
(* and whenever files are edited, a chunk is never joined with the embedding *)
(* of another text; and a sync that ran undisturbed leaves an index of the   *)
(* files as they are.                                                        *)
THEOREM IndexStaysTruthful == MemoryAssumption => (MemorySpec => []IndexTruthful)
<1> SUFFICES ASSUME MemoryAssumption PROVE MemorySpec => []IndexTruthful
  OBVIOUS
<1>1. MemoryInit => MemoryInv
  BY MemoryStarts
<1>2. MemoryInv /\ [MemoryNext]_memVars => MemoryInv'
  BY MemoryStep
<1>3. MemoryInv => IndexTruthful
  BY MemoryTells
<1> QED BY <1>1, <1>2, <1>3, PTL DEF MemorySpec
=============================================================================
