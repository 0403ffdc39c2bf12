--------------------------- MODULE MessageIndexProofs ---------------------------
(***************************************************************************)
(* What is proved of MessageIndex, for every set of messages, every size   *)
(* of a batch, every set of texts that the provider refuses and any number *)
(* of other failures.                                                      *)
(*                                                                         *)
(* A batch passes no message over because what is left of it is in line:   *)
(* the pieces it was halved into follow one another in the order of ids,   *)
(* and together they hold every row of the batch that has no vector yet    *)
(* and was not left out of an answer (SyncFits).  Halving the first piece  *)
(* keeps the line (HalvesInLine); the row a batch fails at is its first.   *)
(* Nothing takes a vector back but a change of the model, with which all   *)
(* batches end (TriedStays).                                               *)
(*                                                                         *)
(* LinkStreamProofs is extended for its lemma that a finite set of numbers *)
(* can be put in order.                                                    *)
(***************************************************************************)
EXTENDS LinkStreamProofs, MessageIndex

Row == [id : Rows, text : Nat]
Tried(m) == vector[m].model = model \/ m \in omitted

(* Of pieces of a batch, or of the only piece: each row is of an id not less *)
(* than those before it.                                                    *)
InLine(todo) ==
    \A k, l \in 1..Len(todo) : \A i \in 1..Len(todo[k]), j \in 1..Len(todo[l]) :
        k < l \/ (k = l /\ i < j) => todo[k][i].id <= todo[l][j].id
Pieces(todo) == /\ todo \in Seq(Seq(Row)) /\ \A k \in 1..Len(todo) : Len(todo[k]) > 0
                /\ InLine(todo)
Holds(todo, m) == \E k \in 1..Len(todo) : \E j \in 1..Len(todo[k]) : todo[k][j].id = m

(* A sync that embeds, one that is done, one that failed.                    *)
SyncFits(c) ==
    /\ batch[c].at \in {"idle", "embedding", "done", "failed"}
    /\ batch[c].at # "idle" => batch[c].picked \in Seq(Rows)
    /\ batch[c].at = "embedding" =>
          /\ batch[c] = [at |-> "embedding", picked |-> batch[c].picked, todo |-> batch[c].todo]
          /\ Pieces(batch[c].todo) /\ batch[c].todo # <<>>
          /\ \A i \in 1..Len(batch[c].picked) :
                Tried(batch[c].picked[i]) \/ Holds(batch[c].todo, batch[c].picked[i])
    /\ batch[c].at = "done" => \A i \in 1..Len(batch[c].picked) : Tried(batch[c].picked[i])
    /\ batch[c].at = "failed" => \A i \in 1..Len(batch[c].picked) :
          Tried(batch[c].picked[i]) \/ batch[c].picked[i] >= batch[c].row

HalvingInv ==
    /\ IndexTypeOK
    /\ batch = [c \in Callers |-> batch[c]]
    /\ \A c \in Callers : SyncFits(c)

-----------------------------------------------------------------------------
(* What is left of a batch                                                   *)

LEMMA RowsAreNat == ASSUME MessageIndexAssumption PROVE Rows \subseteq Nat
<1>1. IsFiniteSet(Rows) /\ Cardinality(Rows) \in Nat
  BY FS_CardinalityType DEF MessageIndexAssumption
<1> QED BY <1>1 DEF MessageIndexAssumption

LEMMA TailInLine ==
    ASSUME NEW todo, Pieces(todo), todo # <<>>
    PROVE  /\ Pieces(Tail(todo))
           /\ \A m : Holds(todo, m) => Holds(Tail(todo), m) \/ \E i \in 1..Len(Head(todo)) : Head(todo)[i].id = m
<1> DEFINE rest == Tail(todo)
<1>1. /\ todo \in Seq(Seq(Row)) /\ Len(todo) \in Nat /\ Len(todo) > 0 /\ Head(todo) = todo[1]
      /\ rest \in Seq(Seq(Row)) /\ Len(rest) = Len(todo) - 1
      /\ \A k \in 1..Len(rest) : rest[k] = todo[k + 1] /\ k + 1 \in 1..Len(todo)
  BY DEF Pieces
<1> HIDE DEF rest
<1>2. \A k \in 1..Len(rest) : Len(rest[k]) > 0
  BY <1>1 DEF Pieces
<1>3. InLine(rest)
  <2> SUFFICES ASSUME NEW k \in 1..Len(rest), NEW l \in 1..Len(rest), NEW i \in 1..Len(rest[k]), NEW j \in 1..Len(rest[l]),
                      k < l \/ (k = l /\ i < j)
               PROVE  rest[k][i].id <= rest[l][j].id
    BY DEF InLine
  <2>1. /\ rest[k] = todo[k + 1] /\ k + 1 \in 1..Len(todo) /\ rest[l] = todo[l + 1] /\ l + 1 \in 1..Len(todo)
        /\ (k < l => k + 1 < l + 1)
    <3>1. k < l => k + 1 < l + 1
      OBVIOUS
    <3> QED BY <1>1, <3>1, Zenon
  <2>2. InLine(todo)
    BY DEF Pieces
  <2> QED BY <2>1, <2>2 DEF InLine
<1>4. ASSUME NEW m, Holds(todo, m)
      PROVE  Holds(rest, m) \/ \E i \in 1..Len(Head(todo)) : Head(todo)[i].id = m
  <2>1. PICK k \in 1..Len(todo) : \E j \in 1..Len(todo[k]) : todo[k][j].id = m
    BY <1>4 DEF Holds
  <2>2. CASE k = 1
    BY <1>1, <2>1, <2>2
  <2>3. CASE k # 1
    <3>1. k - 1 \in 1..Len(rest) /\ (k - 1) + 1 = k
      BY <1>1, <2>3
    <3>2. rest[k - 1] = todo[k]
      BY <1>1, <3>1
    <3> QED BY <2>1, <3>1, <3>2 DEF Holds
  <2> QED BY <2>2, <2>3
<1> QED BY <1>1, <1>2, <1>3, <1>4 DEF rest, Pieces

LEMMA HalvesInLine ==
    ASSUME NEW todo, Pieces(todo), todo # <<>>, Len(Head(todo)) > 1
    PROVE  /\ Pieces(Halves(Head(todo)) \o Tail(todo)) /\ Halves(Head(todo)) \o Tail(todo) # <<>>
           /\ \A m : Holds(todo, m) => Holds(Halves(Head(todo)) \o Tail(todo), m)
<1> DEFINE rows == Head(todo)
           n == Len(rows)
           h == Midpoint(rows)
           older == SubSeq(rows, 1, h)
           younger == SubSeq(rows, h + 1, n)
           new == Halves(rows) \o Tail(todo)
<1>1. /\ todo \in Seq(Seq(Row)) /\ Len(todo) \in Nat /\ Len(todo) > 0 /\ rows = todo[1]
      /\ rows \in Seq(Row) /\ n \in Nat /\ n > 1
  BY DEF Pieces
<1>2. h \in 1..(n - 1) /\ h \in Nat
  <2>1. \A a \in Nat : a > 1 => (a + 1) \div 2 \in 1..(a - 1)
    OBVIOUS
  <2>2. h = (n + 1) \div 2
    BY DEF Midpoint
  <2> HIDE DEF h, n, rows
  <2> QED BY <1>1, <2>1, <2>2
<1> HIDE DEF h
<1>3. /\ older \in Seq(Row) /\ Len(older) = h /\ \A i \in 1..h : older[i] = rows[i] /\ i \in 1..n
  BY <1>1, <1>2
<1>4. /\ younger \in Seq(Row) /\ Len(younger) = n - h
      /\ \A i \in 1..(n - h) : younger[i] = rows[h + i] /\ h + i \in 1..n
  BY <1>1, <1>2
<1>5. Halves(rows) = <<older, younger>>
  BY DEF Halves, h
<1> HIDE DEF older, younger, rows
<1>6. /\ new \in Seq(Seq(Row)) /\ Len(new) = Len(todo) + 1
      /\ new[1] = older /\ new[2] = younger
      /\ \A k \in 3..Len(new) : new[k] = todo[k - 1] /\ k - 1 \in 2..Len(todo)
  <2>1. Tail(todo) \in Seq(Seq(Row)) /\ Len(Tail(todo)) = Len(todo) - 1
        /\ \A k \in 1..Len(Tail(todo)) : Tail(todo)[k] = todo[k + 1]
    BY <1>1
  <2>2. <<older, younger>> \in Seq(Seq(Row)) /\ Len(<<older, younger>>) = 2
    BY <1>3, <1>4
  <2>3. new = <<older, younger>> \o Tail(todo)
    BY <1>5
  <2> HIDE DEF new
  <2>4. new \in Seq(Seq(Row)) /\ Len(new) = 2 + (Len(todo) - 1)
    BY <2>1, <2>2, <2>3
  <2>5. new[1] = older /\ new[2] = younger
    BY <1>1, <2>1, <2>2, <2>3
  <2>6. ASSUME NEW k \in 3..Len(new) PROVE new[k] = todo[k - 1] /\ k - 1 \in 2..Len(todo)
    <3>1. k - 2 \in 1..Len(Tail(todo)) /\ (k - 2) + 1 = k - 1 /\ k - 1 \in 2..Len(todo)
      BY <1>1, <2>1, <2>4
    <3>2. new[k] = Tail(todo)[k - 2]
      BY <1>1, <2>1, <2>2, <2>3, <2>4, <3>1
    <3> QED BY <2>1, <3>1, <3>2
  <2> QED BY <1>1, <2>4, <2>5, <2>6
<1> HIDE DEF new
(* Where the rows of the new pieces were                                     *)
<1> DEFINE Was(k) == IF k <= 2 THEN 1 ELSE k - 1
           At(k, i) == IF k = 2 THEN h + i ELSE i
<1>7. ASSUME NEW k \in 1..Len(new), NEW i \in 1..Len(new[k])
      PROVE  /\ Was(k) \in 1..Len(todo) /\ At(k, i) \in 1..Len(todo[Was(k)])
             /\ new[k][i] = todo[Was(k)][At(k, i)]
  <2>1. CASE k = 1
    BY <1>1, <1>3, <1>6, <2>1
  <2>2. CASE k = 2
    BY <1>1, <1>4, <1>6, <2>2
  <2>3. CASE k > 2
    <3>1. k \in 3..Len(new)
      BY <1>1, <1>6, <2>3
    <3>2. new[k] = todo[k - 1] /\ k - 1 \in 1..Len(todo)
      BY <1>6, <3>1
    <3> QED BY <2>3, <3>2
  <2> QED BY <2>1, <2>2, <2>3
<1>8. InLine(new)
  <2> SUFFICES ASSUME NEW k \in 1..Len(new), NEW l \in 1..Len(new), NEW i \in 1..Len(new[k]), NEW j \in 1..Len(new[l]),
                      k < l \/ (k = l /\ i < j)
               PROVE  new[k][i].id <= new[l][j].id
    BY DEF InLine
  <2>1. /\ Was(k) \in 1..Len(todo) /\ At(k, i) \in 1..Len(todo[Was(k)]) /\ new[k][i] = todo[Was(k)][At(k, i)]
    BY <1>7
  <2>2. /\ Was(l) \in 1..Len(todo) /\ At(l, j) \in 1..Len(todo[Was(l)]) /\ new[l][j] = todo[Was(l)][At(l, j)]
    BY <1>7
  <2>3. Was(k) < Was(l) \/ (Was(k) = Was(l) /\ At(k, i) < At(l, j))
    <3>1. k \in Nat /\ l \in Nat /\ k > 0 /\ l > 0
      BY <1>1, <1>6
    <3>2. CASE k = l
      <4>1. i < j /\ i \in Int /\ j \in Int
        BY <3>1, <3>2
      <4> QED BY <1>2, <3>2, <4>1
    <3>3. CASE k = 1 /\ l = 2
      <4>1. i \in 1..h /\ j \in Nat /\ j > 0
        BY <1>3, <1>4, <1>6, <3>3
      <4> QED BY <1>2, <3>3, <4>1
    <3>4. CASE k < l /\ l > 2
      BY <3>1, <3>4
    <3> QED BY <3>1, <3>2, <3>3, <3>4
  <2> HIDE DEF Was, At
  <2>4. InLine(todo)
    BY DEF Pieces
  <2> QED BY <2>1, <2>2, <2>3, <2>4 DEF InLine
<1>9. \A k \in 1..Len(new) : Len(new[k]) > 0
  <2> SUFFICES ASSUME NEW k \in 1..Len(new) PROVE Len(new[k]) > 0
    OBVIOUS
  <2>1. k = 1 \/ k = 2 \/ k \in 3..Len(new)
    BY <1>1, <1>6
  <2>2. \A l \in 1..Len(todo) : Len(todo[l]) > 0
    BY DEF Pieces
  <2>3. CASE k = 1
    BY <1>2, <1>3, <1>6, <2>3
  <2>4. CASE k = 2
    BY <1>1, <1>2, <1>4, <1>6, <2>4
  <2>5. CASE k \in 3..Len(new)
    <3>1. new[k] = todo[k - 1] /\ k - 1 \in 1..Len(todo)
      BY <1>6, <2>5
    <3> QED BY <2>2, <3>1
  <2> QED BY <2>1, <2>3, <2>4, <2>5
<1>10. ASSUME NEW m, Holds(todo, m) PROVE Holds(new, m)
  <2>1. PICK k \in 1..Len(todo) : \E j \in 1..Len(todo[k]) : todo[k][j].id = m
    BY <1>10 DEF Holds
  <2>2. PICK j \in 1..Len(todo[k]) : todo[k][j].id = m
    BY <2>1
  <2>3. CASE k = 1 /\ j <= h
    <3>1. 1 \in 1..Len(new) /\ j \in 1..Len(new[1]) /\ new[1][j] = todo[k][j]
      BY <1>1, <1>2, <1>3, <1>6, <2>2, <2>3
    <3> QED BY <2>2, <3>1 DEF Holds
  <2>4. CASE k = 1 /\ ~ (j <= h)
    <3>1. j - h \in 1..(n - h) /\ h + (j - h) = j
      BY <1>1, <1>2, <2>2, <2>4
    <3>2. 2 \in 1..Len(new) /\ j - h \in 1..Len(new[2]) /\ new[2][j - h] = todo[k][j]
      BY <1>1, <1>4, <1>6, <2>4, <3>1
    <3> QED BY <2>2, <3>2 DEF Holds
  <2>5. CASE k # 1
    <3>1. k + 1 \in 3..Len(new) /\ k + 1 \in 1..Len(new) /\ (k + 1) - 1 = k
      BY <1>1, <1>6, <2>5
    <3>2. new[k + 1] = todo[k]
      BY <1>6, <3>1
    <3> QED BY <2>2, <3>1, <3>2 DEF Holds
  <2> QED BY <2>3, <2>4, <2>5
<1>11. new # <<>>
  BY <1>1, <1>6
<1> QED BY <1>6, <1>8, <1>9, <1>10, <1>11 DEF Pieces, new, rows

(* The rows of a new batch                                                   *)
LEMMA BatchInLine ==
    ASSUME MessageIndexAssumption, NEW c \in Callers
    PROVE  /\ Batch(c) \in Seq(Rows) /\ Len(Batch(c)) \in Nat
           /\ \A i, j \in 1..Len(Batch(c)) : i < j => Batch(c)[i] <= Batch(c)[j]
<1>1. ASSUME NEW ms \in SUBSET Rows, NEW limit \in Nat \ {0}
      PROVE  /\ Oldest(ms, limit) \in Seq(Rows) /\ Len(Oldest(ms, limit)) \in Nat
             /\ \A i, j \in 1..Len(Oldest(ms, limit)) : i < j => Oldest(ms, limit)[i] <= Oldest(ms, limit)[j]
  <2> DEFINE ids == InOrder(ms)
             n == Min({limit, Len(ids)})
  <2>1. ms \subseteq Nat /\ IsFiniteSet(ms) /\ Rows \subseteq Nat
    <3>1. IsFiniteSet(Rows) /\ Rows \subseteq Nat
      BY RowsAreNat DEF MessageIndexAssumption
    <3> QED BY <3>1, FS_Subset
  <2>2. /\ ids \in Seq(ms) /\ Len(ids) \in Nat
        /\ \A i, j \in 1..Len(ids) : i < j => ids[i] < ids[j]
    <3>1. ids = Ascending(ms)
      BY DEF Ascending, InOrder
    <3>2. /\ Ascending(ms) \in Seq(ms)
          /\ \A i, j \in 1..Len(Ascending(ms)) : i < j => Ascending(ms)[i] < Ascending(ms)[j]
      BY <2>1, AscendingOrders
    <3> HIDE DEF ids
    <3> QED BY <3>1, <3>2
  <2> HIDE DEF ids
  <2>3. n \in {limit, Len(ids)} /\ n <= Len(ids)
    <3>1. \E x \in {limit, Len(ids)} : \A y \in {limit, Len(ids)} : x =< y
      <4>1. limit =< Len(ids) \/ Len(ids) =< limit
        BY <2>2
      <4> QED BY <2>2, <4>1
    <3>2. n \in {limit, Len(ids)} /\ \A y \in {limit, Len(ids)} : n =< y
      BY <3>1 DEF Min
    <3> HIDE DEF n
    <3> QED BY <3>2
  <2>4. Oldest(ms, limit) = SubSeq(ids, 1, n)
    BY DEF Oldest, ids
  <2> HIDE DEF n
  <2>5. n \in Nat /\ n <= Len(ids)
    BY <2>2, <2>3
  <2>6. /\ SubSeq(ids, 1, n) \in Seq(ms) /\ Len(SubSeq(ids, 1, n)) = n
        /\ \A i \in 1..n : SubSeq(ids, 1, n)[i] = ids[i] /\ i \in 1..Len(ids) /\ ids[i] \in Nat
    <3>1. SubSeq(ids, 1, n) \in Seq(ms) /\ Len(SubSeq(ids, 1, n)) = n
      BY <2>2, <2>5
    <3>2. \A i \in 1..n : SubSeq(ids, 1, n)[i] = ids[i] /\ i \in 1..Len(ids)
      BY <2>2, <2>5
    <3>3. \A i \in 1..Len(ids) : ids[i] \in ms
      BY <2>2
    <3> QED BY <2>1, <3>1, <3>2, <3>3
  <2>7. Oldest(ms, limit) \in Seq(Rows)
    BY <2>4, <2>6
  <2>8. ASSUME NEW i \in 1..n, NEW j \in 1..n, i < j
        PROVE  SubSeq(ids, 1, n)[i] <= SubSeq(ids, 1, n)[j]
    <3>1. ids[i] < ids[j] /\ ids[i] \in Nat /\ ids[j] \in Nat
      BY <2>2, <2>6, <2>8
    <3> QED BY <2>6, <3>1
  <2> QED BY <2>4, <2>5, <2>6, <2>7, <2>8
<1>2. Pending(Channel) \in SUBSET Rows /\ Pending(Rows) \in SUBSET Rows
  BY DEF Pending, MessageIndexAssumption
<1>3. BatchSize \in Nat \ {0} /\ CatchUp \in Nat \ {0}
  BY DEF MessageIndexAssumption
<1> QED BY <1>1, <1>2, <1>3 DEF Batch

(* A batch that nobody touches stays right, since no vector is taken back.   *)
LEMMA TriedStays ==
    ASSUME NEW d \in Callers, SyncFits(d), batch'[d] = batch[d], \A m \in Rows : Tried(m) => Tried(m)'
    PROVE  SyncFits(d)'
<1>1. batch[d].at # "idle" => \A i \in 1..Len(batch[d].picked) : batch[d].picked[i] \in Rows
  BY DEF SyncFits
<1> QED BY <1>1 DEF SyncFits

LEMMA OneMoves ==
    ASSUME HalvingInv, NEW c \in Callers, NEW new, batch' = [batch EXCEPT ![c] = new], IndexTypeOK',
           \A m \in Rows : Tried(m) => Tried(m)', SyncFits(c)'
    PROVE  HalvingInv'
<1>1. /\ batch' = [d \in Callers |-> batch'[d]] /\ \A d \in Callers \ {c} : batch'[d] = batch[d]
  BY DEF HalvingInv
<1>2. \A d \in Callers \ {c} : SyncFits(d)'
  BY <1>1, TriedStays DEF HalvingInv
<1> QED BY <1>1, <1>2 DEF HalvingInv

-----------------------------------------------------------------------------
(* The actions                                                               *)

LEMMA StartInLine == ASSUME MessageIndexAssumption, IndexInit PROVE HalvingInv
<1>1. IndexTypeOK
  BY DEF IndexInit, IndexTypeOK, MessageIndexAssumption, NoSync, Callers
<1>2. \A c \in Callers : batch[c].at = "idle"
  BY DEF IndexInit, NoSync
<1>3. batch = [c \in Callers |-> batch[c]]
  BY DEF IndexInit
<1> QED BY <1>1, <1>2, <1>3 DEF HalvingInv, SyncFits

LEMMA SelectInLine ==
    ASSUME MessageIndexAssumption, HalvingInv, NEW c \in Callers, Select(c)
    PROVE  HalvingInv'
<1> DEFINE b == Batch(c)
           rows == [i \in DOMAIN b |-> [id |-> b[i], text |-> text[b[i]]]]
           new == IF b = <<>> THEN [at |-> "done", picked |-> <<>>]
                  ELSE [at |-> "embedding", picked |-> b, todo |-> <<rows>>]
<1>1. /\ b \in Seq(Rows) /\ Len(b) \in Nat /\ \A i, j \in 1..Len(b) : i < j => b[i] <= b[j]
  BY BatchInLine
<1>2. batch' = [batch EXCEPT ![c] = new] /\ UNCHANGED <<text, vector, model, found, refused, omitted, trouble>>
  BY DEF Select
<1> HIDE DEF b
<1>3. batch'[c] = new
  BY <1>2 DEF HalvingInv
<1>4. CASE b = <<>>
  <2>1. batch'[c] = [at |-> "done", picked |-> <<>>]
    BY <1>3, <1>4
  <2>2. SyncFits(c)'
    BY <2>1 DEF SyncFits
  <2>3. IndexTypeOK'
    <3>1. \A d \in Callers : batch'[d].at \in {"idle", "embedding", "done", "failed"}
      BY <1>2, <2>1 DEF HalvingInv, IndexTypeOK
    <3> QED BY <1>2, <3>1 DEF HalvingInv, IndexTypeOK
  <2>4. \A m \in Rows : Tried(m) => Tried(m)'
    BY <1>2 DEF Tried
  <2> HIDE DEF new
  <2> QED BY <1>2, <2>2, <2>3, <2>4, OneMoves
<1>5. CASE b # <<>>
  <2>1. batch'[c] = [at |-> "embedding", picked |-> b, todo |-> <<rows>>]
    BY <1>3, <1>5
  <2>2. /\ rows \in Seq(Row) /\ Len(rows) = Len(b) /\ Len(b) > 0
        /\ \A i \in 1..Len(b) : rows[i].id = b[i]
    <3>1. DOMAIN b = 1..Len(b) /\ Len(b) > 0 /\ \A i \in 1..Len(b) : b[i] \in Rows
      BY <1>1, <1>5
    <3>2. \A i \in 1..Len(b) : [id |-> b[i], text |-> text[b[i]]] \in Row
      <4>1. \A m \in Rows : text[m] \in Nat
        BY DEF HalvingInv, IndexTypeOK
      <4> QED BY <3>1, <4>1 DEF Row
    <3>3. rows \in [1..Len(b) -> Row] /\ \A i \in 1..Len(b) : rows[i].id = b[i]
      BY <3>1, <3>2
    <3> HIDE DEF rows
    <3> QED BY <1>1, <3>1, <3>3
  <2> HIDE DEF rows
  <2>3. <<rows>> \in Seq(Seq(Row)) /\ Len(<<rows>>) = 1 /\ <<rows>>[1] = rows
    BY <2>2
  <2> DEFINE todo == <<rows>>
  <2>4. todo \in Seq(Seq(Row)) /\ Len(todo) = 1 /\ todo[1] = rows /\ todo # <<>>
    BY <2>3
  <2>5. batch'[c] = [at |-> "embedding", picked |-> b, todo |-> todo]
    BY <2>1
  <2> HIDE DEF todo
  <2>6. InLine(todo)
    <3> SUFFICES ASSUME NEW k \in 1..Len(todo), NEW l \in 1..Len(todo), NEW i \in 1..Len(todo[k]), NEW j \in 1..Len(todo[l]),
                        k < l \/ (k = l /\ i < j)
                 PROVE  todo[k][i].id <= todo[l][j].id
      BY DEF InLine
    <3>1. k = 1 /\ l = 1
      BY <2>4
    <3>2. i \in 1..Len(b) /\ j \in 1..Len(b) /\ i < j /\ todo[k] = rows /\ todo[l] = rows
      BY <2>2, <2>4, <3>1
    <3> QED BY <1>1, <2>2, <3>2
  <2>7. Pieces(todo)
    BY <2>2, <2>4, <2>6 DEF Pieces
  <2>8. \A i \in 1..Len(b) : Holds(todo, b[i])
    BY <2>2, <2>4 DEF Holds
  <2>9. SyncFits(c)'
    BY <1>1, <2>4, <2>5, <2>7, <2>8 DEF SyncFits
  <2>10. IndexTypeOK'
    <3>1. \A d \in Callers : batch'[d].at \in {"idle", "embedding", "done", "failed"}
      BY <1>2, <2>5 DEF HalvingInv, IndexTypeOK
    <3> QED BY <1>2, <3>1 DEF HalvingInv, IndexTypeOK
  <2>11. \A m \in Rows : Tried(m) => Tried(m)'
    BY <1>2 DEF Tried
  <2> HIDE DEF new
  <2> QED BY <1>2, <2>9, <2>10, <2>11, OneMoves
<1> QED BY <1>4, <1>5

LEMMA AnswerInLine ==
    ASSUME MessageIndexAssumption, HalvingInv, NEW c \in Callers, NEW upto \in Rows \cup {0}, Answer(c, upto)
    PROVE  HalvingInv'
<1> DEFINE b == batch[c]
           rows == Head(b.todo)
           rest == Tail(b.todo)
           NowTried(m) == vector'[m].model = model' \/ m \in omitted'
           new == IF rest = <<>> THEN [at |-> "done", picked |-> b.picked] ELSE [b EXCEPT !.todo = rest]
<1>1. /\ b.at = "embedding" /\ b = [at |-> "embedding", picked |-> b.picked, todo |-> b.todo]
      /\ b.picked \in Seq(Rows) /\ Pieces(b.todo) /\ b.todo # <<>>
      /\ \A i \in 1..Len(b.picked) : Tried(b.picked[i]) \/ Holds(b.todo, b.picked[i])
  BY DEF Answer, HalvingInv, SyncFits
<1>2. /\ upto \in {Len(rows), Len(rows) - 1} /\ (upto < Len(rows) => trouble < MaxFaults)
      /\ vector' = Embedded(rows, upto)
      /\ omitted' = omitted \cup {rows[i].id : i \in (upto + 1) .. Len(rows)}
      /\ trouble' = trouble + (Len(rows) - upto)
      /\ batch' = [batch EXCEPT ![c] = new]
      /\ UNCHANGED <<text, model, found, refused>>
  BY DEF Answer
<1>3. /\ Pieces(rest)
      /\ \A m : Holds(b.todo, m) => Holds(rest, m) \/ \E i \in 1..Len(rows) : rows[i].id = m
  BY <1>1, TailInLine
<1>4. rows \in Seq(Row) /\ Len(rows) \in Nat /\ \A i \in 1..Len(rows) : rows[i].id \in Rows
  <2>1. rows \in Seq(Row)
    BY <1>1 DEF Pieces
  <2> HIDE DEF rows
  <2>2. \A i \in 1..Len(rows) : rows[i] \in Row
    BY <2>1
  <2> QED BY <2>1, <2>2 DEF Row
<1>5. batch'[c] = new
  BY <1>2 DEF HalvingInv
<1> HIDE DEF b, rows, rest
<1>6. \A m \in Rows : Tried(m) => NowTried(m)
  <2> SUFFICES ASSUME NEW m \in Rows, Tried(m) PROVE NowTried(m)
    OBVIOUS
  <2>1. CASE m \in omitted
    BY <1>2, <2>1 DEF Tried
  <2>2. CASE vector[m].model = model
    <3>1. vector'[m] = vector[m] \/ vector'[m].model = model
      BY <1>2 DEF Embedded
    <3>2. model' = model
      BY <1>2
    <3> QED BY <2>2, <3>1, <3>2
  <2> QED BY <2>1, <2>2 DEF Tried
<1>7. \A i \in 1..Len(rows) : NowTried(rows[i].id)
  <2> SUFFICES ASSUME NEW i \in 1..Len(rows) PROVE NowTried(rows[i].id)
    OBVIOUS
  <2>1. CASE i <= upto
    <3> DEFINE at == {k \in 1 .. upto : rows[k].id = rows[i].id}
    <3>1. i \in at
      BY <1>2, <1>4, <2>1
    <3>2. vector'[rows[i].id] = IF at = {} THEN vector[rows[i].id] ELSE [model |-> model, text |-> rows[Max(at)].text]
      BY <1>2, <1>4 DEF Embedded
    <3> QED BY <1>2, <3>1, <3>2 DEF Tried
  <2>2. CASE ~ (i <= upto)
    <3>1. i \in (upto + 1) .. Len(rows)
      BY <1>2, <1>4, <2>2
    <3> QED BY <1>2, <3>1 DEF Tried
  <2> QED BY <2>1, <2>2
<1>8. \A i \in 1..Len(b.picked) : NowTried(b.picked[i]) \/ Holds(rest, b.picked[i])
  <2> SUFFICES ASSUME NEW i \in 1..Len(b.picked) PROVE NowTried(b.picked[i]) \/ Holds(rest, b.picked[i])
    OBVIOUS
  <2>1. b.picked[i] \in Rows
    BY <1>1
  <2>2. Tried(b.picked[i]) \/ Holds(rest, b.picked[i]) \/ \E k \in 1..Len(rows) : rows[k].id = b.picked[i]
    BY <1>1, <1>3
  <2> QED BY <1>6, <1>7, <2>1, <2>2
<1>9. ASSUME rest = <<>> PROVE SyncFits(c)' /\ batch'[c].at = "done"
  <2>1. batch'[c] = [at |-> "done", picked |-> b.picked]
    BY <1>5, <1>9
  <2>2. \A m : ~ Holds(rest, m)
    BY <1>9 DEF Holds
  <2>3. SyncFits(c)'
    BY <1>1, <1>8, <2>1, <2>2 DEF SyncFits, Tried
  <2>4. batch'[c].at = "done"
    BY <2>1
  <2> QED BY <2>3, <2>4
<1>10. ASSUME rest # <<>> PROVE SyncFits(c)' /\ batch'[c].at = "embedding"
  <2>1. batch'[c] = [at |-> "embedding", picked |-> b.picked, todo |-> rest]
    BY <1>1, <1>5, <1>10
  <2>2. SyncFits(c)'
    BY <1>1, <1>3, <1>8, <1>10, <2>1 DEF SyncFits, Tried
  <2>3. batch'[c].at = "embedding"
    BY <2>1
  <2> QED BY <2>2, <2>3
<1>11. SyncFits(c)' /\ batch'[c].at \in {"idle", "embedding", "done", "failed"}
  BY <1>9, <1>10
<1>12. IndexTypeOK'
  <2>1. \A d \in Callers : batch'[d].at \in {"idle", "embedding", "done", "failed"}
    BY <1>2, <1>11 DEF HalvingInv, IndexTypeOK
  <2>2. omitted' \subseteq Rows
    <3>1. \A i \in (upto + 1) .. Len(rows) : i \in 1..Len(rows)
      <4>1. upto \in Int /\ Len(rows) - 1 <= upto
        BY <1>2, <1>4
      <4>2. upto >= 0
        <5>1. Rows \subseteq Nat
          BY RowsAreNat
        <5> QED BY <5>1
      <4> QED BY <1>4, <4>1, <4>2
    <3> QED BY <1>2, <1>4, <3>1 DEF HalvingInv, IndexTypeOK
  <2>3. trouble' \in 0 .. MaxFaults
    <3>1. trouble \in 0 .. MaxFaults /\ MaxFaults \in Nat
      BY DEF HalvingInv, IndexTypeOK, MessageIndexAssumption
    <3> QED BY <1>2, <1>4, <3>1
  <2> QED BY <1>2, <2>1, <2>2, <2>3 DEF HalvingInv, IndexTypeOK
<1>13. \A m \in Rows : Tried(m) => Tried(m)'
  BY <1>6 DEF Tried
<1> HIDE DEF new
<1> QED BY <1>2, <1>11, <1>12, <1>13, OneMoves

LEMMA RefuseInLine ==
    ASSUME MessageIndexAssumption, HalvingInv, NEW c \in Callers, Refuse(c)
    PROVE  HalvingInv'
<1> DEFINE b == batch[c]
           rows == Head(b.todo)
           halved == Halves(rows) \o Tail(b.todo)
           NowTried(m) == vector'[m].model = model' \/ m \in omitted'
           new == IF Len(rows) <= 1 THEN [at |-> "failed", picked |-> b.picked, row |-> rows[1].id]
                  ELSE [b EXCEPT !.todo = halved]
<1>1. /\ b.at = "embedding" /\ b = [at |-> "embedding", picked |-> b.picked, todo |-> b.todo]
      /\ b.picked \in Seq(Rows) /\ Pieces(b.todo) /\ b.todo # <<>>
      /\ \A i \in 1..Len(b.picked) : Tried(b.picked[i]) \/ Holds(b.todo, b.picked[i])
  BY DEF Refuse, HalvingInv, SyncFits
<1>2. /\ batch' = [batch EXCEPT ![c] = new]
      /\ trouble' = trouble \/ (trouble < MaxFaults /\ trouble' = trouble + 1)
      /\ UNCHANGED <<text, vector, model, found, refused, omitted>>
  BY DEF Refuse
<1>3. batch'[c] = new
  BY <1>2 DEF HalvingInv
<1>4. \A m \in Rows : Tried(m) <=> NowTried(m)
  BY <1>2 DEF Tried
<1>5. ASSUME Len(rows) <= 1 PROVE SyncFits(c)'
  <2>1. batch'[c] = [at |-> "failed", picked |-> b.picked, row |-> rows[1].id]
    BY <1>3, <1>5
  <2>2. ASSUME NEW m, Holds(b.todo, m) PROVE m >= rows[1].id
    <3>1. PICK k \in 1..Len(b.todo) : \E j \in 1..Len(b.todo[k]) : b.todo[k][j].id = m
      BY <2>2 DEF Holds
    <3>2. PICK j \in 1..Len(b.todo[k]) : b.todo[k][j].id = m
      BY <3>1
    <3>3. /\ b.todo \in Seq(Seq(Row)) /\ 1 \in 1..Len(b.todo) /\ rows = b.todo[1] /\ Len(rows) = 1 /\ 1 \in 1..Len(rows)
          /\ rows \in Seq(Row)
      <4>1. b.todo \in Seq(Seq(Row)) /\ \A l \in 1..Len(b.todo) : Len(b.todo[l]) > 0
        BY <1>1 DEF Pieces
      <4>2. 1 \in 1..Len(b.todo) /\ rows = b.todo[1] /\ rows \in Seq(Row)
        BY <1>1, <4>1
      <4>3. Len(rows) > 0 /\ Len(rows) \in Nat
        BY <4>1, <4>2
      <4>4. Len(rows) = 1
        <5>1. \A n \in Nat : n > 0 /\ n <= 1 => n = 1
          OBVIOUS
        <5> HIDE DEF rows
        <5> QED BY <1>5, <4>3, <5>1
      <4> HIDE DEF b, rows
      <4> QED BY <4>1, <4>2, <4>4
    <3>4. Rows \subseteq Nat
      BY RowsAreNat
    <3>5. b.todo[1][1].id \in Nat /\ m \in Nat
      <4>1. b.todo[k] \in Seq(Row) /\ b.todo[k][j] \in Row
        BY <3>2, <3>3
      <4>2. b.todo[1] \in Seq(Row) /\ b.todo[1][1] \in Row
        BY <3>3
      <4> QED BY <3>2, <3>4, <4>1, <4>2 DEF Row
    <3>6. CASE k = 1
      <4>1. j = 1
        BY <3>2, <3>3, <3>6
      <4> QED BY <3>2, <3>3, <3>5, <3>6, <4>1
    <3>7. CASE k # 1
      <4>1. 1 < k
        BY <3>7
      <4>2. InLine(b.todo)
        BY <1>1 DEF Pieces
      <4>3. b.todo[1][1].id <= b.todo[k][j].id
        BY <3>3, <4>1, <4>2 DEF InLine
      <4> QED BY <3>2, <3>3, <3>5, <4>3
    <3> QED BY <3>6, <3>7
  <2>3. \A i \in 1..Len(b.picked) : NowTried(b.picked[i]) \/ b.picked[i] >= rows[1].id
    <3>1. \A i \in 1..Len(b.picked) : b.picked[i] \in Rows
      BY <1>1
    <3> HIDE DEF b, rows
    <3> QED BY <1>1, <1>4, <2>2, <3>1
  <2> HIDE DEF b, rows
  <2> QED BY <1>1, <2>1, <2>3 DEF SyncFits, Tried
<1>6. ASSUME ~ (Len(rows) <= 1) PROVE SyncFits(c)'
  <2>1. Len(rows) > 1
    <3>1. rows \in Seq(Row)
      BY <1>1 DEF Pieces
    <3> HIDE DEF rows
    <3> QED BY <1>6, <3>1
  <2>2. /\ Pieces(halved) /\ halved # <<>> /\ \A m : Holds(b.todo, m) => Holds(halved, m)
    BY <1>1, <2>1, HalvesInLine
  <2>3. batch'[c] = [at |-> "embedding", picked |-> b.picked, todo |-> halved]
    BY <1>1, <1>3, <1>6
  <2>4. \A i \in 1..Len(b.picked) : NowTried(b.picked[i]) \/ Holds(halved, b.picked[i])
    <3>1. \A i \in 1..Len(b.picked) : b.picked[i] \in Rows
      BY <1>1
    <3> HIDE DEF b, rows, halved
    <3> QED BY <1>1, <1>4, <2>2, <3>1
  <2> HIDE DEF b, rows, halved
  <2> QED BY <1>1, <2>2, <2>3, <2>4 DEF SyncFits, Tried
<1>7. SyncFits(c)'
  BY <1>5, <1>6
<1>8. IndexTypeOK'
  <2>1. \A d \in Callers : batch'[d].at \in {"idle", "embedding", "done", "failed"}
    <3>1. batch'[c].at \in {"idle", "embedding", "done", "failed"}
      BY <1>7 DEF SyncFits
    <3> QED BY <1>2, <3>1 DEF HalvingInv, IndexTypeOK
  <2>2. trouble' \in 0 .. MaxFaults
    <3>1. trouble \in 0 .. MaxFaults /\ MaxFaults \in Nat
      BY DEF HalvingInv, IndexTypeOK, MessageIndexAssumption
    <3> QED BY <1>2, <3>1
  <2> QED BY <1>2, <2>1, <2>2 DEF HalvingInv, IndexTypeOK
<1>9. \A m \in Rows : Tried(m) => Tried(m)'
  BY <1>4 DEF Tried
<1> HIDE DEF new
<1> QED BY <1>2, <1>7, <1>8, <1>9, OneMoves

LEMMA EndInLine ==
    ASSUME HalvingInv, NEW c \in Callers, batch' = [batch EXCEPT ![c] = NoSync],
           UNCHANGED <<text, vector, model, omitted, trouble>>, found' \in {"nothing", "error", "semantic", "keyword"}
    PROVE  HalvingInv'
<1>1. batch'[c].at = "idle"
  BY DEF HalvingInv, NoSync
<1>2. SyncFits(c)'
  BY <1>1 DEF SyncFits
<1>3. \A d \in Callers : batch'[d].at \in {"idle", "embedding", "done", "failed"}
  BY <1>1 DEF HalvingInv, IndexTypeOK
<1>4. IndexTypeOK'
  BY <1>3 DEF HalvingInv, IndexTypeOK
<1>5. \A m \in Rows : Tried(m) => Tried(m)'
  BY DEF Tried
<1> QED BY <1>2, <1>4, <1>5, OneMoves

LEMMA IndexStep ==
    ASSUME MessageIndexAssumption, HalvingInv, [IndexNext]_indexVars
    PROVE  HalvingInv'
<1>1. ASSUME UNCHANGED <<vector, model, batch, omitted>>, IndexTypeOK' PROVE HalvingInv'
  <2>1. \A m \in Rows : Tried(m) => Tried(m)'
    BY <1>1 DEF Tried
  <2>2. \A d \in Callers : SyncFits(d)'
    BY <1>1, <2>1, TriedStays DEF HalvingInv
  <2> QED BY <1>1, <2>2 DEF HalvingInv
<1>2. ASSUME NEW m \in Rows, Store(m) \/ Edit(m) PROVE HalvingInv'
  <2>1. text' \in [Rows -> 0 .. 2]
    BY <1>2 DEF Store, Edit, HalvingInv, IndexTypeOK
  <2>2. UNCHANGED <<vector, model, batch, found, refused, omitted, trouble>>
    BY <1>2 DEF Store, Edit
  <2>3. IndexTypeOK'
    BY <2>1, <2>2 DEF HalvingInv, IndexTypeOK
  <2> QED BY <1>1, <2>2, <2>3
<1>3. ASSUME Tick PROVE HalvingInv'
  <2>1. found' \in {"nothing", "error", "semantic", "keyword"}
    BY <1>3 DEF Tick, HalvingInv, IndexTypeOK
  <2> QED BY <1>3, <2>1, EndInLine DEF Tick, Callers
<1>4. ASSUME Search PROVE HalvingInv'
  <2>1. found' \in {"nothing", "error", "semantic", "keyword"}
    BY <1>4 DEF Search
  <2> QED BY <1>4, <2>1, EndInLine DEF Search, Callers
<1>5. ASSUME ChangeModel PROVE HalvingInv'
  <2>1. batch' = [c \in Callers |-> batch'[c]] /\ \A c \in Callers : batch'[c].at = "idle"
    BY <1>5 DEF ChangeModel, NoSync
  <2>2. model' \in 1 .. MaxModels
    BY <1>5 DEF ChangeModel, HalvingInv, IndexTypeOK, MessageIndexAssumption
  <2>3. IndexTypeOK'
    BY <1>5, <2>1, <2>2 DEF ChangeModel, HalvingInv, IndexTypeOK
  <2> QED BY <2>1, <2>3 DEF HalvingInv, SyncFits
<1>6. ASSUME NEW c \in Callers, Select(c) PROVE HalvingInv'
  BY <1>6, SelectInLine
<1>7. ASSUME NEW c \in Callers, Refuse(c) PROVE HalvingInv'
  BY <1>7, RefuseInLine
<1>8. ASSUME NEW c \in Callers, NEW upto \in Rows \cup {0}, Answer(c, upto) PROVE HalvingInv'
  BY <1>8, AnswerInLine
<1>9. ASSUME UNCHANGED indexVars PROVE HalvingInv'
  <2>1. UNCHANGED <<text, vector, model, batch, found, omitted, trouble>>
    BY <1>9 DEF indexVars
  <2>2. IndexTypeOK'
    BY <2>1 DEF HalvingInv, IndexTypeOK
  <2> QED BY <1>1, <2>1, <2>2
<1>10. "backfill" \in Callers /\ "search" \in Callers
  BY DEF Callers
<1> QED BY <1>2, <1>3, <1>4, <1>5, <1>6, <1>7, <1>8, <1>9, <1>10 DEF IndexNext, Backfills

-----------------------------------------------------------------------------
(* The texts, the syncs under way and the last answer are what search.ts     *)
(* means them to be (discord/search.ts).                                     *)
THEOREM IndexTypeCorrect == MessageIndexAssumption => (IndexSpec => []IndexTypeOK)
<1> SUFFICES ASSUME MessageIndexAssumption PROVE IndexSpec => []IndexTypeOK
  OBVIOUS
<1>1. IndexInit => HalvingInv
  BY StartInLine
<1>2. HalvingInv /\ [IndexNext]_indexVars => HalvingInv'
  BY IndexStep
<1>3. HalvingInv => IndexTypeOK
  BY DEF HalvingInv
<1> QED BY <1>1, <1>2, <1>3, PTL DEF IndexSpec

(* However often the provider refuses a text, fails or leaves rows out, and  *)
(* whatever comes or changes meanwhile, a sync that ended has tried all of   *)
(* its batch, or at least every row older than the one it failed at          *)
(* (embedBatchIsolatingFailures, discord/search.ts).                         *)
THEOREM NoMessagePassedOver == MessageIndexAssumption => (IndexSpec => []HalvingPassesNone)
<1> SUFFICES ASSUME MessageIndexAssumption PROVE IndexSpec => []HalvingPassesNone
  OBVIOUS
<1>1. IndexInit => HalvingInv
  BY StartInLine
<1>2. HalvingInv /\ [IndexNext]_indexVars => HalvingInv'
  BY IndexStep
<1>3. ASSUME HalvingInv PROVE HalvingPassesNone
  <2> SUFFICES ASSUME NEW c \in Callers, batch[c].at \in {"done", "failed"}, NEW i \in DOMAIN batch[c].picked
               PROVE  \/ vector[batch[c].picked[i]].model = model \/ batch[c].picked[i] \in omitted
                      \/ batch[c].at = "failed" /\ batch[c].picked[i] >= batch[c].row
    BY DEF HalvingPassesNone
  <2>1. SyncFits(c)
    BY <1>3 DEF HalvingInv
  <2>2. batch[c].picked \in Seq(Rows) /\ i \in 1..Len(batch[c].picked)
    BY <2>1 DEF SyncFits
  <2> QED BY <2>1, <2>2 DEF SyncFits, Tried
<1> QED BY <1>1, <1>2, <1>3, PTL DEF IndexSpec
===============================================================================
