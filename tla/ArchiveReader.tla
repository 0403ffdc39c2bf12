----------------------------- MODULE ArchiveReader -----------------------------
(***************************************************************************)
(* What the agent brings back of its archive (agent-context/               *)
(* sqlite-archive.ts, the tools context_grep, lcm_describe, context_expand *)
(* of server-native-services.ts).  Compactions and checkpoints add messages*)
(* and summary nodes; a node's parents are older nodes, and one node may   *)
(* be the parent of several.  A reader asks for a node page by page while  *)
(* the archive grows.                                                      *)
(*                                                                         *)
(* A message is a number, for equal messages are one row.  Each function is*)
(* one synchronous use of the database.                                    *)
(***************************************************************************)
EXTENDS Naturals, FiniteSets, FiniteSetsExt, Sequences, SequencesExt

CONSTANTS
    Messages,       \* the messages of the conversation
    Compacted,      \* what the nth compaction may take in directly
    Legacy,         \* the text of a summary from before there were nodes
    Tokens,         \* contextSourceStats: the tokens of each message
    DefaultPage,    \* DEFAULT_EXPAND_LIMIT (12)
    MaxPage,        \* MAX_EXPAND_LIMIT (40)
    Asked,          \* the limits the agent may ask for, 0 for none
    MaxManifest     \* MAX_MANIFEST_NODES (16)

ReaderAssumption ==
    /\ Legacy \notin Messages /\ Messages \cup {Legacy} \subseteq DOMAIN Tokens
    /\ DefaultPage \in Nat \ {0} /\ MaxPage \in Nat \ {0} /\ Asked \subseteq Nat
    /\ MaxManifest \in Nat \ {0}
    /\ \A n \in DOMAIN Compacted : Compacted[n] \subseteq Seq(Messages)

MaxNodes == Len(Compacted)

VARIABLES
    graph,      \* context_summaries: the parents and the sources of each node
    seenAt,     \* context_messages: when each message was first archived, or 0
    expanding   \* a reader that pages through a node

readerVars == <<graph, seenAt, expanding>>

Nodes == DOMAIN graph
Unknown == MaxNodes + 1                     \* an id that is in no database
NobodyReads == [of |-> Unknown, shown |-> <<>>]

ReaderInit == /\ graph = <<>> /\ expanding = NobodyReads
              /\ seenAt = [m \in Messages \cup {Legacy} |-> 0]

(* insertMessage: insert or ignore                                          *)
Newest == Max(Range(seenAt))
Inserted(messages) == seenAt' = [m \in DOMAIN seenAt |->
                                    IF m \in messages /\ seenAt[m] = 0 THEN Newest + 1 ELSE seenAt[m]]

(* archiveContextMessages: a checkpoint of the conversation.                *)
Checkpoint == /\ \E m \in Messages : seenAt[m] = 0 /\ Inserted({m})
              /\ UNCHANGED <<graph, expanding>>

(* recordContextCompaction: parents that are not there are left out, and one*)
(* named twice is one; a prior summary that cannot be a parent is the first *)
(* source.                                                                  *)
Parents(candidates) ==
    LET there == SelectSeq(candidates, LAMBDA p : p \in Nodes)
    IN  FoldLeft(LAMBDA ps, p : IF p \in ToSet(ps) THEN ps ELSE Append(ps, p), <<>>, there)
Record(candidates, prior, messages) ==
    LET parents == Parents(IF candidates # <<>> THEN candidates ELSE prior)
        sources == IF parents = <<>> /\ prior # <<>> THEN <<Legacy>> \o messages ELSE messages
    IN  /\ graph' = Append(graph, [parents |-> parents, sources |-> sources])
        /\ Inserted(ToSet(sources))
        /\ UNCHANGED expanding
RecordCompaction ==
    /\ Len(graph) < MaxNodes
    /\ \E messages \in Compacted[Len(graph) + 1] :
      \/ \E candidates \in SeqOf(Nodes, 2) : Record(candidates, <<>>, messages)
      \/ \E prior \in Nodes \cup {Unknown} : Record(<<>>, <<prior>>, messages)

-----------------------------------------------------------------------------
(* collectSummaryMessageIds: the parents in their order, then the node; what*)
(* a walk has seen it passes by.  Each message comes with its node.         *)
RECURSIVE Walk(_, _)
Walk(n, seen) ==
    IF n \in seen THEN [out |-> <<>>, seen |-> seen]
    ELSE LET inherited == FoldLeft(LAMBDA walk, p :
                                      LET next == Walk(p, walk.seen)
                                      IN  [out |-> walk.out \o next.out, seen |-> next.seen],
                                   [out |-> <<>>, seen |-> seen \cup {n}], graph[n].parents)
             direct == [i \in DOMAIN graph[n].sources |-> [node |-> n, of |-> graph[n].sources[i]]]
         IN  [out |-> inherited.out \o direct, seen |-> inherited.seen]
Expansion(n) == Walk(n, {}).out

(* The recursive query of a scoped search, and collectSummaryNodeIds        *)
RECURSIVE Above(_)
Above(ns) == LET more == ns \cup UNION {ToSet(graph[n].parents) : n \in ns}
             IN  IF more = ns THEN ns ELSE Above(more)
Tree(n) == IF n \in Nodes THEN Above({n}) ELSE {}
TreeMessages(n) == UNION {ToSet(graph[k].sources) : k \in Tree(n)}

(* context_grep for a word that the messages in `having` bear; rows of one  *)
(* transaction come in any order.                                           *)
Grep(having, limit, scope) ==
    LET matching == {m \in having : seenAt[m] > 0 /\ (scope # {} => \E n \in scope : m \in TreeMessages(n))}
    IN  {rows \in kSubset(Min({limit, Cardinality(matching)}), matching) :
            \A in \in rows, out \in matching \ rows : seenAt[out] <= seenAt[in]}
SummaryIds(m) == {n \in Nodes : m \in ToSet(graph[n].sources)}

(* context_expand: a page, and from where to go on                          *)
Bounded(asked) == IF asked = 0 THEN DefaultPage ELSE Min({asked, MaxPage})
Page(n, offset, asked) == SubSeq(Expansion(n), offset + 1, Min({offset + Bounded(asked), Len(Expansion(n))}))
Expand == /\ expanding = NobodyReads
          /\ \E n \in Nodes, asked \in Asked : expanding' = [of |-> n, shown |-> Page(n, 0, asked)]
          /\ UNCHANGED <<graph, seenAt>>
ExpandOn == /\ expanding # NobodyReads /\ Len(expanding.shown) < Len(Expansion(expanding.of))
            /\ \E asked \in Asked :
                  expanding' = [expanding EXCEPT !.shown = @ \o Page(expanding.of, Len(@), asked)]
            /\ UNCHANGED <<graph, seenAt>>
StopsReading == /\ expanding # NobodyReads /\ expanding' = NobodyReads
                /\ UNCHANGED <<graph, seenAt>>

ReaderNext == Checkpoint \/ RecordCompaction \/ Expand \/ ExpandOn \/ StopsReading

-----------------------------------------------------------------------------
(* lcm_describe *)
Size(messages) == FoldLeft(LAMBDA sum, m : sum + Tokens[m], 0, messages)
ExpandedTokens(n) == Size([i \in DOMAIN Expansion(n) |-> Expansion(n)[i].of])

(* collectSummaryManifest: the node, then what its parents add, until there *)
(* are as many as a description names.                                      *)
RECURSIVE Manifested(_, _, _, _)
Manifested(n, child, depth, seen) ==
    IF n \in seen \/ Cardinality(seen) >= MaxManifest THEN [out |-> <<>>, seen |-> seen]
    ELSE FoldLeft(LAMBDA walk, p :
                     LET next == Manifested(p, n, depth + 1, walk.seen)
                     IN  [out |-> walk.out \o next.out, seen |-> next.seen],
                  [out |-> <<[id |-> n, child |-> child, depth |-> depth]>>, seen |-> seen \cup {n}],
                  graph[n].parents)
Manifest(n) == Manifested(n, 0, 0, {}).out
ManifestTruncated(n) == Cardinality(Tree(n)) > Len(Manifest(n))

(* storedContextSummaryDepth                                                *)
RECURSIVE StoredDepth(_)
StoredDepth(n) == IF graph[n].parents = <<>> THEN 0
                  ELSE 1 + Max({StoredDepth(p) : p \in ToSet(graph[n].parents)})

-----------------------------------------------------------------------------
ReaderTypeOK ==
    /\ \A n \in Nodes : ToSet(graph[n].parents) \subseteq 1..n - 1 /\ IsInjective(graph[n].parents)
    /\ \A n \in Nodes : \A m \in ToSet(graph[n].sources) : seenAt[m] > 0

(* Expanding a node unfolds each node of its tree once, as a whole, and what*)
(* a node stands for comes before what was said after it, though nodes have *)
(* parents in common (sqlite-archive.ts).                                   *)
Block(n, k) == SelectSeq(Expansion(n), LAMBDA x : x.node = k)
Places(n, k) == {i \in DOMAIN Expansion(n) : Expansion(n)[i].node = k}
ExpandsOnce ==
    \A n \in Nodes :
      /\ {Expansion(n)[i].node : i \in DOMAIN Expansion(n)} \subseteq Tree(n)
      /\ \A k \in Tree(n) :
           /\ [i \in DOMAIN Block(n, k) |-> Block(n, k)[i].of] = graph[k].sources
           /\ \A p \in ToSet(graph[k].parents) :
                 \A i \in Places(n, p), j \in Places(n, k) : i < j

(* Going on where each page ended shows the expansion whole and once,       *)
(* whatever limits are asked for and whatever is archived in between.       *)
PagesUnfold ==
    expanding # NobodyReads =>
        /\ IsPrefix(expanding.shown, Expansion(expanding.of))
        /\ expanding.shown = <<>> => Expansion(expanding.of) = <<>>

(* A search within a node finds what its expansion shows, and no more; only *)
(* when there are more than it may show does it leave older ones out.  Each *)
(* message it finds there names a node of that tree to be expanded.         *)
GrepFindsExpanded ==
    \A n \in Nodes, limit \in 1..2 :
      LET expanded == {Expansion(n)[i].of : i \in DOMAIN Expansion(n)}
      IN  \A rows \in Grep(DOMAIN seenAt, limit, {n}) :
            /\ rows \subseteq expanded
            /\ Cardinality(rows) < limit => rows = expanded
            /\ \A m \in rows : SummaryIds(m) \cap Tree(n) # {}

(* A description says that it leaves nodes out if and only if it does; each *)
(* node it names is reached from one named before; what its nodes take in   *)
(* directly adds up to what the whole expands to; and a node never needs    *)
(* more room than one it is part of, nor is it deeper.                      *)
DescribesTruly ==
    \A n \in Nodes :
      LET manifest == Manifest(n)
          named == {manifest[i].id : i \in DOMAIN manifest}
      IN  /\ Cardinality(named) = Len(manifest) /\ named \subseteq Tree(n)
          /\ ManifestTruncated(n) <=> named # Tree(n)
          /\ ~ManifestTruncated(n) =>
                MapThenSumSet(LAMBDA k : Size(graph[k].sources), named) = ExpandedTokens(n)
          /\ \A i \in DOMAIN manifest :
                LET entry == manifest[i]
                IN  /\ ExpandedTokens(entry.id) <= ExpandedTokens(n)
                    /\ entry.depth + StoredDepth(entry.id) <= StoredDepth(n)
                    /\ i > 1 => \E j \in 1..i - 1 :
                          /\ manifest[j].id = entry.child /\ manifest[j].depth + 1 = entry.depth
                          /\ entry.id \in ToSet(graph[entry.child].parents)

(* What is said of the archive alone need not be looked at twice.           *)
ReaderHolds == /\ PagesUnfold
               /\ expanding = NobodyReads => ExpandsOnce /\ GrepFindsExpanded /\ DescribesTruly
===============================================================================
