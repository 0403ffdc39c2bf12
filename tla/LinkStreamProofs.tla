-------------------------- MODULE LinkStreamProofs --------------------------
(***************************************************************************)
(* What is proved of IrohLink, for every number of connections and of      *)
(* reconciliations, whichever side of a connection sees its end first, and *)
(* of EventStream, for every size of tail, page and pruning interval.      *)
(*                                                                         *)
(* RouteIsKept needs to know why the end of a replaced connection cannot   *)
(* take the route: a route is always that of the connection kept, there is *)
(* none while the agent is not accepted (Owned), and the numbers not yet   *)
(* dialled have no handler (Undialled).                                    *)
(*                                                                         *)
(* StreamKept needs the same of both tables (Box): the highest number seen *)
(* is in it, and what is there beyond a tail was recorded since the last   *)
(* pruning or before a restart.  The order on the wire (WireInv) follows   *)
(* from a replay and what is published after it being taken in one turn.   *)
(* What is forwarded or listed is recorded one row after the other, by     *)
(* induction over the rows (MirroredKeeps).                                *)
(***************************************************************************)
EXTENDS IrohLink, EventStream, FiniteSetTheorems, SequenceTheorems, WellFoundedInduction, TLAPS

Owned == route # 0 => route = kept /\ accepts

Undialled == \A c \in Conns : c > dialled => handler[c] = "none"

IInv == LinkTypeOK /\ Owned /\ Undialled /\ RouteIsKept

-----------------------------------------------------------------------------
LEMMA Initially ==
    ASSUME LinkAssumption, LinkInit
    PROVE  IInv
<1>1. LinkTypeOK
  <2>1. handler \in [Conns -> Handlers]  BY DEF LinkInit, Handlers
  <2>2. accepts \in BOOLEAN /\ overtaken \in BOOLEAN  BY DEF LinkInit
  <2>3. 0 \in 0..MaxConns /\ 0 \in 0..MaxEdits  BY DEF LinkAssumption
  <2>4. /\ dialled = 0 /\ kept = 0 /\ route = 0 /\ edits = 0 /\ up = {} /\ ingress = {}
        /\ peer = [conn |-> 0, stage |-> "idle"]
    BY DEF LinkInit
  <2> QED  BY <2>1, <2>2, <2>3, <2>4 DEF LinkTypeOK
<1>2. Undialled  BY DEF LinkInit, Undialled
<1> QED  BY <1>1, <1>2 DEF IInv, LinkInit, Owned, RouteIsKept

(* A step of the peer, of the transport or of the ingress touches neither   *)
(* handlers nor the registry.                                               *)
LEMMA Elsewhere ==
    ASSUME IInv, LinkTypeOK', UNCHANGED <<dialled, handler, kept, route, accepts, overtaken>>
    PROVE  IInv'
BY DEF IInv, Owned, Undialled, RouteIsKept

(* A handler that moves on, to or from a stage in which it is not routed to.*)
LEMMA MovesOn ==
    ASSUME IInv, LinkTypeOK', NEW c \in Conns, NEW stage \in Handlers,
           UNCHANGED <<dialled, kept, route, accepts, overtaken>>,
           handler' = [handler EXCEPT ![c] = stage], c <= dialled,
           route = c => stage \in {"live", "closing"}
    PROVE  IInv'
<1>1. handler \in [Conns -> Handlers] /\ route \in 0..MaxConns /\ dialled \in 0..MaxConns
  BY DEF IInv, LinkTypeOK
<1>2. Undialled'  BY <1>1 DEF IInv, Undialled, Conns
<1>3. Owned'  BY DEF IInv, Owned
<1>4. RouteIsKept'
  <2>1. route # 0 => handler'[route] \in {"live", "closing"}
    BY <1>1 DEF IInv, RouteIsKept, Conns
  <2> QED  BY <2>1 DEF IInv, RouteIsKept
<1> QED  BY <1>2, <1>3, <1>4 DEF IInv

(* A handler that registers: it is kept, and routed to if it is accepted.   *)
LEMMA Registers ==
    ASSUME IInv, LinkTypeOK', NEW c \in Conns, c <= dialled,
           UNCHANGED <<dialled, accepts>>, kept' = c, overtaken' = ~accepts,
           route' = IF accepts THEN c ELSE route,
           handler' = [handler EXCEPT ![c] = "live"]
    PROVE  IInv'
<1>1. /\ handler \in [Conns -> Handlers] /\ route \in 0..MaxConns /\ dialled \in 0..MaxConns
      /\ c # 0 /\ accepts \in BOOLEAN
  BY DEF IInv, LinkTypeOK, Conns
<1>2. Undialled'  BY <1>1 DEF IInv, Undialled, Conns
<1>3. CASE accepts
  <2>1. route' = c /\ kept' = c /\ accepts' /\ handler'[c] = "live"  BY <1>1, <1>3
  <2> QED  BY <1>1, <1>2, <2>1 DEF IInv, Owned, RouteIsKept
<1>4. CASE ~accepts
  <2>1. route' = 0 /\ overtaken'  BY <1>4 DEF IInv, Owned
  <2> QED  BY <1>1, <1>2, <2>1 DEF IInv, Owned, RouteIsKept
<1> QED  BY <1>3, <1>4

-----------------------------------------------------------------------------
LEMMA Step ==
    ASSUME IInv, LinkAssumption, [LinkNext]_linkVars
    PROVE  IInv'
<1> USE DEF LinkAssumption
<1>1. LinkTypeOK /\ dialled \in 0..MaxConns /\ handler \in [Conns -> Handlers]
  BY DEF IInv, LinkTypeOK
<1>2. \A c \in Conns : handler[c] # "none" => c <= dialled
  BY <1>1 DEF IInv, Undialled, Conns
<1>3. CASE UNCHANGED linkVars
  BY <1>3 DEF linkVars, IInv, LinkTypeOK, Owned, Undialled, RouteIsKept
<1>4. CASE Dial
  <2>1. dialled' = dialled + 1 /\ dialled' \in Conns /\ handler[dialled'] = "none"
    BY <1>1, <1>4 DEF Dial, Conns, IInv, Undialled
  <2>2. LinkTypeOK'  BY <1>1, <1>4, <2>1 DEF Dial, LinkTypeOK, Conns, Handlers
  <2>3. route # 0 => route \in Conns /\ route # dialled'
    BY <1>1, <2>1 DEF IInv, LinkTypeOK, RouteIsKept, Conns
  <2>4. route # 0 => handler'[route] = handler[route]  BY <1>1, <1>4, <2>3 DEF Dial
  <2>5. Undialled'  BY <1>1, <1>4, <2>1 DEF Dial, IInv, Undialled, Conns
  <2> QED  BY <1>4, <2>2, <2>4, <2>5 DEF Dial, IInv, Owned, RouteIsKept
<1>5. CASE Connected
  <2>1. LinkTypeOK'  BY <1>1, <1>5 DEF Connected, LinkTypeOK
  <2> QED  BY <1>5, <2>1, Elsewhere DEF Connected
<1>6. CASE DialFails
  <2>1. LinkTypeOK'  BY <1>1, <1>6 DEF DialFails, LinkTypeOK
  <2> QED  BY <1>6, <2>1, Elsewhere DEF DialFails
<1>7. CASE Awakes
  <2>1. LinkTypeOK'  BY <1>1, <1>7 DEF Awakes, LinkTypeOK
  <2> QED  BY <1>7, <2>1, Elsewhere DEF Awakes
<1>8. ASSUME NEW broken \in BOOLEAN, PumpEnds(broken)  PROVE IInv'
  <2>1. LinkTypeOK'  BY <1>1, <1>8 DEF PumpEnds, LinkTypeOK
  <2> QED  BY <1>8, <2>1, Elsewhere DEF PumpEnds
<1>9. ASSUME NEW c \in Conns, Lost(c)  PROVE IInv'
  <2>1. LinkTypeOK'  BY <1>1, <1>9 DEF Lost, LinkTypeOK
  <2> QED  BY <1>9, <2>1, Elsewhere DEF Lost
<1>10. ASSUME NEW c \in Conns, Rejects(c)  PROVE IInv'
  <2>1. LinkTypeOK'  BY <1>1, <1>10 DEF Rejects, LinkTypeOK, Handlers
  <2>2. route # c  BY <1>1, <1>10 DEF Rejects, IInv, RouteIsKept, Conns
  <2> QED  BY <1>2, <1>10, <2>1, <2>2, MovesOn DEF Rejects, Handlers
<1>11. ASSUME NEW c \in Conns, StartTunnel(c)  PROVE IInv'
  <2>1. LinkTypeOK'  BY <1>1, <1>11 DEF StartTunnel, LinkTypeOK, Handlers
  <2>2. route # c  BY <1>1, <1>11 DEF StartTunnel, IInv, RouteIsKept, Conns
  <2> QED  BY <1>2, <1>11, <2>1, <2>2, MovesOn DEF StartTunnel, Handlers
<1>12. ASSUME NEW c \in Conns, OnAgent(c)  PROVE IInv'
  <2>1. LinkTypeOK'  BY <1>1, <1>12 DEF OnAgent, LinkTypeOK, Handlers, Conns
  <2>2. c <= dialled  BY <1>2, <1>12 DEF OnAgent
  <2>3. /\ UNCHANGED <<dialled, accepts>> /\ kept' = c /\ overtaken' = ~accepts
        /\ route' = IF accepts THEN c ELSE route
        /\ handler' = [handler EXCEPT ![c] = "live"]
    BY <1>12 DEF OnAgent
  <2> QED  BY <2>1, <2>2, <2>3, Registers
<1>13. ASSUME NEW c \in Conns, RegistrationFails(c)  PROVE IInv'
  <2>1. LinkTypeOK'  BY <1>1, <1>13 DEF RegistrationFails, LinkTypeOK, Handlers
  <2>2. route # c  BY <1>1, <1>13 DEF RegistrationFails, IInv, RouteIsKept, Conns
  <2> QED  BY <1>2, <1>13, <2>1, <2>2, MovesOn DEF RegistrationFails, Handlers
<1>14. ASSUME NEW c \in Conns, OnClient(c)  PROVE IInv'
  <2>1. LinkTypeOK'
    <3>1. c \in 0..MaxConns /\ (accepts \in BOOLEAN)'  BY <1>1, <1>14 DEF OnClient, LinkTypeOK, Conns
    <3>2. handler' \in [Conns -> Handlers]  BY <1>1, <1>14 DEF OnClient, Handlers
    <3>3. up' \subseteq Conns /\ ingress' \subseteq Conns
      BY <1>1, <1>14 DEF OnClient, LinkTypeOK
    <3>4. overtaken' \in BOOLEAN  BY <1>14 DEF OnClient
    <3>5. /\ kept' = c /\ route' = c /\ UNCHANGED <<dialled, edits, peer>>
      BY <1>14 DEF OnClient
    <3> QED  BY <1>1, <3>1, <3>2, <3>3, <3>4, <3>5 DEF LinkTypeOK
  <2>2. c <= dialled  BY <1>2, <1>14 DEF OnClient
  <2>3. /\ UNCHANGED <<dialled, accepts>> /\ kept' = c /\ overtaken' = ~accepts
        /\ route' = IF accepts THEN c ELSE route
        /\ handler' = [handler EXCEPT ![c] = "live"]
    BY <1>14 DEF OnClient
  <2> QED  BY <2>1, <2>2, <2>3, Registers
<1>15. ASSUME NEW c \in Conns, SeesClose(c)  PROVE IInv'
  <2>1. LinkTypeOK'  BY <1>1, <1>15 DEF SeesClose, LinkTypeOK, Handlers
  <2> QED  BY <1>2, <1>15, <2>1, MovesOn DEF SeesClose, Handlers
<1>16. ASSUME NEW c \in Conns, Gone(c)  PROVE IInv'
  <2>1. LinkTypeOK'  BY <1>1, <1>16 DEF Gone, LinkTypeOK, Handlers
  <2>2. c <= dialled  BY <1>2, <1>16 DEF Gone
  <2>3. CASE kept = c
    <3>1. kept' = 0 /\ route' = 0  BY <1>16, <2>3 DEF Gone, Evicts
    <3>2. Undialled'  BY <1>1, <1>16, <2>2 DEF Gone, IInv, Undialled
    <3> QED  BY <2>1, <3>1, <3>2 DEF IInv, Owned, RouteIsKept
  <2>4. CASE kept # c
    <3>1. kept' = kept /\ route' = route  BY <1>16, <2>4 DEF Gone, Evicts
    <3>2. route # c  BY <2>4 DEF IInv, Owned, Conns
    <3> QED  BY <1>16, <2>1, <2>2, <3>1, <3>2, MovesOn DEF Gone, Handlers
  <2> QED  BY <2>3, <2>4
<1>17. ASSUME NEW c \in Conns, IngressCloses(c)  PROVE IInv'
  <2>1. LinkTypeOK'  BY <1>1, <1>17 DEF IngressCloses, LinkTypeOK
  <2> QED  BY <1>17, <2>1, Elsewhere DEF IngressCloses
<1>18. ASSUME NEW enabled \in BOOLEAN, Reconcile(enabled)  PROVE IInv'
  <2>1. LinkTypeOK'  BY <1>1, <1>18 DEF Reconcile, LinkTypeOK
  <2> QED  BY <1>18, <2>1 DEF Reconcile, IInv, Owned, Undialled, RouteIsKept
<1> QED
  BY <1>3, <1>4, <1>5, <1>6, <1>7, <1>8, <1>9, <1>10, <1>11, <1>12, <1>13, <1>14, <1>15,
     <1>16, <1>17, <1>18 DEF LinkNext

LEMMA Inductive ==
    ASSUME LinkAssumption
    PROVE  LinkSpec => []IInv
<1>1. LinkInit => IInv  BY Initially
<1>2. IInv /\ [LinkNext]_linkVars => IInv'  BY Step
<1> QED  BY <1>1, <1>2, PTL DEF LinkSpec

-----------------------------------------------------------------------------
(* The registry, the tunnel and the handlers of iroh.ts and the dialling    *)
(* loop of iroh-link.ts stay within their types.                            *)
THEOREM LinkTypeCorrect ==
    ASSUME LinkAssumption
    PROVE  LinkSpec => []LinkTypeOK
<1>1. IInv => LinkTypeOK  BY DEF IInv
<1> QED  BY <1>1, Inductive, PTL

(* However many connections of a peer overlap, traffic goes to the one that *)
(* is registered, and the late end of a replaced connection does not take   *)
(* it away (handleConnection, onAgentGone, onClientGone).                   *)
THEOREM RouteAlwaysKept ==
    ASSUME LinkAssumption
    PROVE  LinkSpec => []RouteIsKept
<1>1. IInv => RouteIsKept  BY DEF IInv
<1> QED  BY <1>1, Inductive, PTL

-----------------------------------------------------------------------------
(* The event stream *)

(* A table of rows, of the worker or of the control plane: last is the       *)
(* highest number it has seen, and pruning leaves the newest.                *)
Box(m) ==
    /\ m \in [rows : SUBSET (0..MaxSeq), last : 0..MaxSeq, since : 0..PruneEvery, restarts : 0..MaxRestarts]
    /\ m.since < PruneEvery
    /\ \A s \in m.rows : s <= m.last
    /\ TailRows > 0 => m.last \in m.rows \/ (m.rows = {} /\ m.last = 0)
    /\ Cardinality(m.rows \ {0}) <= TailRows + m.since + PruneEvery * m.restarts

(* What was brought is in the mirror, or was pruned.                         *)
Keeps(m, brought) == \A s \in brought \ {0} : s \in m.rows \/ s <= m.last - TailRows

Sent == ToSet(stream.wire)
StreamRecords ==
    /\ stream = [open |-> stream.open, from |-> stream.from, skipped |-> stream.skipped,
                 brought |-> stream.brought, wire |-> stream.wire]
    /\ stream.open \in BOOLEAN /\ stream.wire \in Seq(0..MaxSeq) /\ stream.from \in Nat
    /\ stream.brought \subseteq 0..MaxSeq
    /\ page \in [shown : SUBSET (0..MaxSeq), known : 0..MaxSeq]
    /\ load.rows \subseteq 0..MaxSeq
OutboxInv ==
    /\ Box(outbox) /\ 0 \notin outbox.rows
    /\ \A s \in 1..outbox.last : s > outbox.last - TailRows => s \in outbox.rows
WireInv ==
    /\ \A s \in Sent \cup stream.brought : s <= outbox.last
    /\ \A s \in (stream.from + 1)..outbox.last : s \in stream.skipped \cup stream.brought \cup Sent
    /\ \A i, j \in 1..Len(stream.wire) : i < j /\ stream.wire[j] > 0 => stream.wire[i] < stream.wire[j]
    /\ \A s \in Sent \ {0} : \A t \in stream.brought : t < s
MirrorInv == Box(mirror) /\ Keeps(mirror, stream.brought)
(* Where a stream begins is never ahead of what was recorded.                *)
PlaceInv ==
    /\ agentRow \in [listed : BOOLEAN, lastSeq : 0..MaxSeq]
    /\ agentRow.lastSeq <= mirror.last /\ page.known <= mirror.last /\ stream.from <= mirror.last
StreamInv == StreamRecords /\ OutboxInv /\ (stream.open => WireInv) /\ MirrorInv
             /\ \A s \in stream.brought : s <= outbox.last

---------------------------------------------------------------------------
(* A non-empty set of naturals has a least member, and a set that has zero   *)
(* and is closed under successor has them all.                               *)
LEMMA NatLeast == ASSUME NEW T, T \subseteq Nat, T # {} PROVE \E m \in T : \A k \in T : m <= k
<1> DEFINE R == OpToRel(<, Nat)
<1>1. IsWellFoundedOn(R, Nat)
  BY NatLessThanWellFounded
<1>2. \A x, y \in Nat : y < x => <<y, x>> \in R
  BY DEF OpToRel
<1> HIDE DEF R
<1>3. PICK m \in T : \A y \in T : ~ (<<y, m>> \in R)
  BY <1>1, WFMin, Zenon
<1>4. ASSUME NEW k \in T PROVE m <= k
  <2>1. k \in Nat /\ m \in Nat
    OBVIOUS
  <2>2. ~ (k < m)
    BY <1>2, <1>3, <2>1
  <2> QED BY <2>1, <2>2
<1> QED BY <1>4

LEMMA SetInduction == ASSUME NEW T, T \subseteq Nat, 0 \in T, \A n \in T : n + 1 \in T PROVE T = Nat
<1> SUFFICES ASSUME Nat \ T # {} PROVE FALSE
  OBVIOUS
<1>1. PICK m \in Nat \ T : \A k \in Nat \ T : m <= k
  BY NatLeast
<1>2. m # 0 /\ m - 1 \in Nat /\ m - 1 < m
  BY <1>1
<1>3. m - 1 \in T
  BY <1>1, <1>2
<1> QED BY <1>1, <1>2, <1>3

(* A finite set of naturals can be put in order ...                          *)
Orders(q, T, n) ==
    /\ q \in [1..n -> T] /\ \A i, j \in 1..n : i < j => q[i] < q[j]
    /\ \A t \in T : \E i \in 1..n : q[i] = t

LEMMA OrderExists ==
    ASSUME NEW T, T \subseteq Nat, IsFiniteSet(T)
    PROVE  Cardinality(T) \in Nat /\ \E q : Orders(q, T, Cardinality(T))
<1> DEFINE P(n) == \A S \in SUBSET Nat : IsFiniteSet(S) /\ Cardinality(S) = n => \E q : Orders(q, S, n)
           N == {n \in Nat : P(n)}
<1>1. P(0)
  <2> SUFFICES ASSUME NEW S \in SUBSET Nat, IsFiniteSet(S), Cardinality(S) = 0 PROVE \E q : Orders(q, S, 0)
    OBVIOUS
  <2>1. S = {}
    BY FS_EmptySet
  <2>2. Orders([i \in 1..0 |-> 0], S, 0)
    BY <2>1 DEF Orders
  <2> QED BY <2>2
<1>2. ASSUME NEW n \in Nat, P(n) PROVE P(n + 1)
  <2> SUFFICES ASSUME NEW S \in SUBSET Nat, IsFiniteSet(S), Cardinality(S) = n + 1 PROVE \E q : Orders(q, S, n + 1)
    OBVIOUS
  <2>1. S # {}
    BY FS_EmptySet
  <2>2. PICK m \in S : \A k \in S : m <= k
    BY <2>1, NatLeast
  <2>3. IsFiniteSet(S \ {m}) /\ Cardinality(S \ {m}) = n
    <3>1. IsFiniteSet(S \ {m}) /\ Cardinality(S \ {m}) = Cardinality(S) - 1
      BY FS_RemoveElement
    <3> QED BY <3>1
  <2>4. PICK q : Orders(q, S \ {m}, n)
    BY <1>2, <2>3
  <2> DEFINE r == [i \in 1..(n + 1) |-> IF i = 1 THEN m ELSE q[i - 1]]
  <2>5. /\ q \in [1..n -> S \ {m}] /\ \A i, j \in 1..n : i < j => q[i] < q[j]
        /\ \A t \in S \ {m} : \E i \in 1..n : q[i] = t
    BY <2>4 DEF Orders
  <2>6. \A i \in 2..(n + 1) : i - 1 \in 1..n /\ r[i] = q[i - 1] /\ r[i] \in S /\ m < r[i]
    <3> SUFFICES ASSUME NEW i \in 2..(n + 1) PROVE i - 1 \in 1..n /\ r[i] = q[i - 1] /\ r[i] \in S /\ m < r[i]
      OBVIOUS
    <3>1. i - 1 \in 1..n /\ i # 1 /\ i \in 1..(n + 1)
      OBVIOUS
    <3>2. q[i - 1] \in S \ {m}
      BY <2>5, <3>1
    <3>3. m <= q[i - 1] /\ q[i - 1] \in Nat /\ m \in Nat
      BY <2>2, <3>2
    <3> QED BY <3>1, <3>2, <3>3
  <2>7. r[1] = m /\ 1 \in 1..(n + 1)
    OBVIOUS
  <2>8. r \in [1..(n + 1) -> S]
    <3>1. ASSUME NEW i \in 1..(n + 1) PROVE r[i] \in S
      <4>1. i = 1 \/ i \in 2..(n + 1)
        OBVIOUS
      <4> HIDE DEF r
      <4> QED BY <2>6, <2>7, <4>1
    <3> QED BY <3>1
  <2> HIDE DEF r
  <2>9. ASSUME NEW i \in 1..(n + 1), NEW j \in 1..(n + 1), i < j PROVE r[i] < r[j]
    <3>1. j \in 2..(n + 1)
      BY <2>9
    <3>2. CASE i = 1
      BY <2>6, <2>7, <3>1, <3>2
    <3>3. CASE i # 1
      <4>1. i \in 2..(n + 1) /\ i - 1 < j - 1
        BY <2>9, <3>1, <3>3
      <4>2. i - 1 \in 1..n /\ j - 1 \in 1..n /\ r[i] = q[i - 1] /\ r[j] = q[j - 1]
        BY <2>6, <3>1, <4>1
      <4> QED BY <2>5, <4>1, <4>2
    <3> QED BY <3>2, <3>3
  <2>10. ASSUME NEW t \in S PROVE \E i \in 1..(n + 1) : r[i] = t
    <3>1. CASE t = m
      BY <2>7, <3>1
    <3>2. CASE t # m
      <4>1. PICK i \in 1..n : q[i] = t
        BY <2>5, <3>2
      <4>2. i + 1 \in 2..(n + 1) /\ i + 1 \in 1..(n + 1) /\ (i + 1) - 1 = i
        OBVIOUS
      <4>3. r[i + 1] = q[i]
        BY <2>6, <4>2
      <4> QED BY <4>1, <4>2, <4>3
    <3> QED BY <3>1, <3>2
  <2>11. Orders(r, S, n + 1)
    BY <2>8, <2>9, <2>10 DEF Orders
  <2> QED BY <2>11
<1>3. N = Nat
  <2>1. 0 \in N /\ \A n \in N : n + 1 \in N /\ N \subseteq Nat
    BY <1>1, <1>2
  <2> HIDE DEF N
  <2>2. N \subseteq Nat
    BY DEF N
  <2> QED BY <2>1, <2>2, SetInduction
<1>4. Cardinality(T) \in Nat
  BY FS_CardinalityType
<1>5. P(Cardinality(T))
  BY <1>3, <1>4
<1> QED BY <1>4, <1>5

(* ... and an increasing numbering of it, which Ascending chooses, has all   *)
(* of its members.                                                           *)
LEMMA AscendingOrders ==
    ASSUME NEW T, T \subseteq Nat, IsFiniteSet(T)
    PROVE  /\ Ascending(T) \in Seq(T) /\ Len(Ascending(T)) = Cardinality(T) /\ Cardinality(T) \in Nat
           /\ \A i, j \in 1..Len(Ascending(T)) : i < j => Ascending(T)[i] < Ascending(T)[j]
           /\ ToSet(Ascending(T)) = T
<1> DEFINE n == Cardinality(T)
           Up(q) == \A i, j \in DOMAIN q : i < j => q[i] < q[j]
           a == Ascending(T)
<1>1. n \in Nat /\ \E q : Orders(q, T, n)
  BY OrderExists
<1>2. PICK q : Orders(q, T, n)
  BY <1>1
<1>3. q \in [1..n -> T] /\ Up(q) /\ \A t \in T : \E i \in 1..n : q[i] = t
  BY <1>2 DEF Orders
<1>4. a \in [1..n -> T] /\ Up(a)
  BY <1>3 DEF Ascending
<1> HIDE DEF a
<1>5. \A i, j \in 1..n : a[i] = a[j] => i = j
  <2> SUFFICES ASSUME NEW i \in 1..n, NEW j \in 1..n, a[i] = a[j], i # j PROVE FALSE
    OBVIOUS
  <2>1. i < j \/ j < i
    BY <1>1
  <2>2. a[i] \in Nat /\ a[j] \in Nat
    BY <1>4
  <2> QED BY <1>4, <2>1, <2>2
<1> DEFINE A == {a[i] : i \in 1..n}
<1>6. A = T
  <2>1. a \in Bijection(1..n, A)
    BY <1>4, <1>5 DEF Bijection, Injection, Surjection, IsInjective
  <2>2. ExistsBijection(1..n, A) /\ A \subseteq T
    BY <1>4, <2>1 DEF ExistsBijection
  <2>3. IsFiniteSet(1..n) /\ Cardinality(1..n) = n
    BY <1>1, FS_Interval
  <2>4. Cardinality(A) = n
    BY <2>2, <2>3, FS_Bijection
  <2> HIDE DEF A
  <2> QED BY <2>2, <2>4, FS_Subset
<1>7. a \in Seq(T) /\ Len(a) = n
  BY <1>1, <1>4
<1> QED BY <1>1, <1>4, <1>6, <1>7 DEF a, ToSet

---------------------------------------------------------------------------
(* Top of a table is its highest number.                                     *)
LEMMA TopIs ==
    ASSUME NEW rows, NEW m, m \in rows, \A t \in rows : t <= m, rows \subseteq Int
    PROVE  Top(rows) = m
<1>1. \A s \in rows : (\A t \in rows : t <= s) => s = m
  <2> SUFFICES ASSUME NEW s \in rows, \A t \in rows : t <= s PROVE s = m
    OBVIOUS
  <2>1. s <= m /\ m <= s /\ s \in Int /\ m \in Int
    OBVIOUS
  <2> QED BY <2>1
<1> QED BY <1>1 DEF Top

LEMMA BoxTop == ASSUME StreamAssumption, NEW m, Box(m), TailRows > 0 PROVE Top(m.rows) = m.last
<1>1. m.rows \subseteq 0..MaxSeq /\ m.last \in 0..MaxSeq /\ \A s \in m.rows : s <= m.last
  BY DEF Box
<1>2. CASE m.last \in m.rows
  <2>1. m.rows \subseteq Int
    BY <1>1
  <2> QED BY <1>1, <1>2, <2>1, TopIs
<1>3. CASE m.rows = {} /\ m.last = 0
  BY <1>3 DEF Top
<1> QED BY <1>2, <1>3 DEF Box

(* A set of rows has a highest one.                                          *)
LEMMA TopHighest ==
    ASSUME StreamAssumption, NEW rows \in SUBSET (0..MaxSeq), rows # {}
    PROVE  Top(rows) \in rows /\ \A s \in rows : s <= Top(rows)
<1> DEFINE mirrored == {MaxSeq - s : s \in rows}
<1>1. MaxSeq \in Nat /\ \A s \in rows : MaxSeq - s \in Nat
  BY DEF StreamAssumption
<1>2. mirrored \subseteq Nat /\ mirrored # {}
  BY <1>1
<1>3. PICK k \in mirrored : \A l \in mirrored : k <= l
  BY <1>2, NatLeast
<1>4. PICK s \in rows : k = MaxSeq - s
  BY <1>3
<1>5. \A u \in rows : u <= s
  <2> SUFFICES ASSUME NEW u \in rows PROVE u <= s
    OBVIOUS
  <2>1. MaxSeq - s <= MaxSeq - u
    BY <1>3, <1>4
  <2>2. s \in 0..MaxSeq /\ u \in 0..MaxSeq
    OBVIOUS
  <2> HIDE DEF mirrored
  <2> QED BY <1>1, <2>1, <2>2
<1> QED BY <1>5 DEF Top

(* Pruning leaves no more than TailRows rows that are persisted.             *)
LEMMA PrunedFew ==
    ASSUME StreamAssumption, NEW rows \in SUBSET (0..MaxSeq)
    PROVE  /\ Pruned(rows) \subseteq rows
           /\ IsFiniteSet(Pruned(rows) \ {0}) /\ Cardinality(Pruned(rows) \ {0}) <= TailRows
<1> DEFINE P == Pruned(rows) \ {0}
           t == Top(rows)
<1>1. TailRows \in Nat /\ MaxSeq \in Nat
  BY DEF StreamAssumption
<1>2. CASE TailRows = 0 \/ rows = {}
  <2>1. Pruned(rows) = {}
    BY <1>2 DEF Pruned
  <2>2. P = {}
    BY <2>1
  <2> HIDE DEF P
  <2> QED BY <1>1, <2>1, <2>2, FS_EmptySet DEF P
<1>3. CASE TailRows > 0 /\ rows # {}
  <2>1. t \in rows /\ \A s \in rows : s <= t
    BY <1>3, TopHighest
  <2>2. Pruned(rows) = {s \in rows : t - TailRows <= 0 \/ s > t - TailRows}
    BY <1>3 DEF Pruned, Cutoff
  <2>3. t \in 0..MaxSeq
    BY <2>1
  <2> HIDE DEF t
  <2>4. P \subseteq 1..t
    <3> SUFFICES ASSUME NEW s \in P PROVE s \in 1..t
      OBVIOUS
    <3>1. s \in rows /\ s # 0 /\ s \in 0..MaxSeq
      BY <2>2
    <3>2. s <= t
      BY <2>1, <3>1
    <3> QED BY <2>3, <3>1, <3>2
  <2>5. IsFiniteSet(1..t) /\ Cardinality(1..t) = t
    <3>1. Cardinality(1..t) = IF 1 > t THEN 0 ELSE t - 1 + 1
      BY <2>3, FS_Interval
    <3>2. IsFiniteSet(1..t)
      BY <2>3, FS_Interval
    <3> QED BY <2>3, <3>1, <3>2
  <2> DEFINE c == t - TailRows + 1
  <2>6. CASE t - TailRows <= 0
    <3>1. IsFiniteSet(P) /\ Cardinality(P) <= t
      BY <2>4, <2>5, FS_Subset
    <3>2. Cardinality(P) \in Nat
      BY <3>1, FS_CardinalityType
    <3> HIDE DEF P
    <3>3. Cardinality(P) <= TailRows
      BY <1>1, <2>3, <2>6, <3>1, <3>2
    <3> QED BY <2>2, <3>1, <3>3 DEF P
  <2>7. CASE ~(t - TailRows <= 0)
    <3>1. P \subseteq c..t
      <4> SUFFICES ASSUME NEW s \in P PROVE s \in c..t
        OBVIOUS
      <4>1. s \in rows /\ s \in 0..MaxSeq /\ s > t - TailRows
        BY <2>2, <2>7
      <4>2. s <= t
        BY <2>1, <4>1
      <4> QED BY <1>1, <2>3, <4>1, <4>2
    <3>2. c \in Int /\ c <= t /\ t - c + 1 = TailRows
      BY <1>1, <1>3, <2>3
    <3> HIDE DEF c
    <3>3. Cardinality(c..t) = IF c > t THEN 0 ELSE t - c + 1
      BY <2>3, <3>2, FS_Interval
    <3>4. IsFiniteSet(c..t)
      BY <2>3, <3>2, FS_Interval
    <3>5. Cardinality(c..t) = TailRows
      BY <2>3, <3>2, <3>3
    <3>6. IsFiniteSet(P) /\ Cardinality(P) <= TailRows
      BY <3>1, <3>4, <3>5, FS_Subset
    <3> QED BY <2>2, <3>6
  <2> QED BY <2>6, <2>7
<1> QED BY <1>1, <1>2, <1>3

LEMMA OneMore == ASSUME NEW a \in Nat, NEW b \in Nat PROVE a * b \in Nat /\ a * (b + 1) = a * b + a
BY SMT

(* Recording a row keeps a table right, and keeps or prunes what it had.     *)
LEMMA RecordedKeeps ==
    ASSUME StreamAssumption, NEW m, Box(m), NEW seq \in 0..MaxSeq, NEW brought, Keeps(m, brought),
           brought \subseteq Int
    PROVE  /\ Box(Recorded(m, seq)) /\ Keeps(Recorded(m, seq), brought \cup {seq})
           /\ Recorded(m, seq).last = LastSeq(m, seq) /\ Recorded(m, seq).restarts = m.restarts
           /\ Recorded(m, seq).rows = m.rows \cup {seq} \/ Recorded(m, seq).rows = Pruned(m.rows \cup {seq})
<1> DEFINE all == m.rows \cup {seq}
           last == LastSeq(m, seq)
           due == m.since + 1 >= PruneEvery
           pruned == IF due THEN Pruned(all) ELSE all
           since == IF due THEN 0 ELSE m.since + 1
           r == Recorded(m, seq)
<1>1. /\ m \in [rows : SUBSET (0..MaxSeq), last : 0..MaxSeq, since : 0..PruneEvery, restarts : 0..MaxRestarts]
      /\ m.since < PruneEvery /\ \A s \in m.rows : s <= m.last
      /\ TailRows > 0 => m.last \in m.rows \/ (m.rows = {} /\ m.last = 0)
      /\ Cardinality(m.rows \ {0}) <= TailRows + m.since + PruneEvery * m.restarts
  BY DEF Box
<1>2. TailRows \in Nat /\ MaxSeq \in Nat /\ MaxRestarts \in Nat /\ PruneEvery \in Nat \ {0}
  BY DEF StreamAssumption
<1>3. r = [m EXCEPT !.rows = pruned, !.last = last, !.since = since]
  BY DEF Recorded, Counted
<1> HIDE DEF r
<1>4. all \in SUBSET (0..MaxSeq) /\ last \in 0..MaxSeq /\ m.last <= last /\ seq <= last
  BY <1>1, <1>2 DEF LastSeq
<1>5. \A s \in all : s <= last
  <2> SUFFICES ASSUME NEW s \in m.rows PROVE s <= last
    BY <1>4
  <2>1. s <= m.last /\ s \in Int /\ m.last \in Int
    BY <1>1
  <2> QED BY <1>4, <2>1
<1>6. TailRows > 0 => last \in all
  <2>1. CASE seq > m.last
    BY <2>1 DEF LastSeq
  <2>2. CASE ~(seq > m.last)
    <3>1. last = m.last
      BY <2>2 DEF LastSeq
    <3>2. m.rows = {} /\ m.last = 0 => seq = 0
      BY <2>2
    <3> QED BY <1>1, <3>1, <3>2
  <2> QED BY <2>1, <2>2
<1>7. TailRows > 0 => Top(all) = last
  <2>1. all \subseteq Int
    BY <1>4
  <2> HIDE DEF all, last
  <2> QED BY <1>5, <1>6, <2>1, TopIs
<1> HIDE DEF last
<1>8. pruned \subseteq all
  BY <1>4, PrunedFew
<1>9. TailRows > 0 => last \in pruned
  <2> SUFFICES ASSUME TailRows > 0 PROVE last \in pruned
    OBVIOUS
  <2>1. last - TailRows < last /\ last \in all
    BY <1>2, <1>4, <1>6
  <2>2. last \in Pruned(all)
    BY <1>2, <1>7, <2>1 DEF Pruned, Cutoff
  <2> QED BY <1>6, <2>2
<1>10. ASSUME NEW s \in all PROVE s \in pruned \/ s <= last - TailRows
  <2>1. CASE ~due
    BY <2>1
  <2>2. CASE due /\ TailRows = 0
    <3>1. s <= last /\ s \in Int
      BY <1>4, <1>5
    <3> QED BY <1>4, <2>2, <3>1
  <2>3. CASE due /\ TailRows > 0
    <3>1. s \in Pruned(all) \/ ~(s > last - TailRows)
      BY <1>2, <1>7, <2>3 DEF Pruned, Cutoff
    <3>2. s \in Int
      BY <1>4
    <3> HIDE DEF all
    <3> QED BY <1>2, <1>4, <2>3, <3>1, <3>2
  <2> QED BY <1>2, <2>1, <2>2, <2>3
<1>11. since \in 0..PruneEvery /\ since < PruneEvery
  BY <1>1, <1>2
<1>12. Cardinality(pruned \ {0}) <= TailRows + since + PruneEvery * m.restarts
  <2>1. PruneEvery * m.restarts \in Nat
    BY <1>1, <1>2, OneMore
  <2> DEFINE b == PruneEvery * m.restarts
  <2>4. b \in Nat
    BY <2>1
  <2> HIDE DEF b
  <2>2. CASE due
    <3>1. Cardinality(Pruned(all) \ {0}) <= TailRows /\ IsFiniteSet(Pruned(all) \ {0})
      BY <1>4, PrunedFew
    <3>2. Cardinality(Pruned(all) \ {0}) \in Nat
      BY <3>1, FS_CardinalityType
    <3> DEFINE c == Cardinality(Pruned(all) \ {0})
    <3>3. Cardinality(pruned \ {0}) = c /\ since = 0
      BY <2>2
    <3> HIDE DEF c
    <3>4. c <= TailRows + 0 + b
      BY <1>2, <2>4, <3>1, <3>2 DEF c
    <3> QED BY <3>3, <3>4 DEF b
  <2>3. CASE ~due
    <3>1. IsFiniteSet(m.rows \ {0})
      <4>1. IsFiniteSet(0..MaxSeq)
        BY <1>2, FS_Interval
      <4> QED BY <1>1, <4>1, FS_Subset
    <3> DEFINE old == m.rows \ {0}
               c == Cardinality(old)
    <3>2. c \in Nat /\ c <= TailRows + m.since + b
      BY <1>1, <3>1, FS_CardinalityType DEF b
    <3>3. Cardinality(old \cup {seq}) <= c + 1 /\ IsFiniteSet(old \cup {seq})
      <4>1. /\ IsFiniteSet(old \cup {seq})
            /\ Cardinality(old \cup {seq}) = IF seq \in old THEN Cardinality(old) ELSE Cardinality(old) + 1
        BY <3>1, FS_AddElement
      <4> HIDE DEF old
      <4> QED BY <3>2, <4>1
    <3>4. pruned \ {0} \subseteq old \cup {seq}
      BY <2>3
    <3>5. Cardinality(pruned \ {0}) <= Cardinality(old \cup {seq}) /\ IsFiniteSet(pruned \ {0})
      <4> HIDE DEF pruned, old
      <4> QED BY <3>3, <3>4, FS_Subset
    <3>6. Cardinality(pruned \ {0}) \in Nat /\ Cardinality(old \cup {seq}) \in Nat
      BY <3>3, <3>5, FS_CardinalityType
    <3>7. since = m.since + 1 /\ m.since \in Nat
      BY <1>1, <2>3
    <3> HIDE DEF pruned, old, c, since
    <3>8. Cardinality(pruned \ {0}) <= TailRows + since + b
      BY <1>2, <2>4, <3>2, <3>3, <3>5, <3>6, <3>7
    <3> QED BY <3>8 DEF b
  <2> QED BY <2>2, <2>3
<1> HIDE DEF pruned, since
<1>13. /\ r \in [rows : SUBSET (0..MaxSeq), last : 0..MaxSeq, since : 0..PruneEvery, restarts : 0..MaxRestarts]
       /\ r.rows = pruned /\ r.last = last /\ r.since = since /\ r.restarts = m.restarts
  BY <1>1, <1>3, <1>4, <1>8, <1>11
<1>14. Box(r)
  <2>1. \A s \in r.rows : s <= r.last
    BY <1>5, <1>8, <1>13
  <2>4. TailRows > 0 => r.last \in r.rows
    BY <1>9, <1>13
  <2>2. TailRows > 0 => r.last \in r.rows \/ (r.rows = {} /\ r.last = 0)
    BY <2>4
  <2>3. r.since < PruneEvery /\ Cardinality(r.rows \ {0}) <= TailRows + r.since + PruneEvery * r.restarts
    BY <1>11, <1>12, <1>13
  <2> QED BY <1>13, <2>1, <2>2, <2>3, Zenon DEF Box
<1>15. Keeps(r, brought \cup {seq})
  <2> SUFFICES ASSUME NEW s \in (brought \cup {seq}) \ {0} PROVE s \in pruned \/ s <= last - TailRows
    BY <1>13 DEF Keeps
  <2>1. CASE s \in all
    BY <1>10, <2>1
  <2>2. CASE s \notin all
    <3>1. s <= m.last - TailRows /\ s \in Int
      BY <2>2 DEF Keeps
    <3> QED BY <1>1, <1>2, <1>4, <3>1
  <2> QED BY <2>1, <2>2
<1> QED BY <1>13, <1>14, <1>15 DEF r, last, pruned

(* One row after the other.                                                  *)
LEMMA MirroredKeeps ==
    ASSUME StreamAssumption, NEW m, Box(m), NEW rows \in SUBSET (0..MaxSeq), NEW brought, Keeps(m, brought),
           brought \subseteq Int
    PROVE  /\ Box(Mirrored(m, rows)) /\ Keeps(Mirrored(m, rows), brought)
           /\ m.last <= Mirrored(m, rows).last /\ \A s \in rows : s <= Mirrored(m, rows).last
<1> DEFINE seqs == Ascending(rows)
           Fills(f, k) == f = [n \in 0..k |-> IF n = 0 THEN m ELSE Recorded(f[n - 1], seqs[n])]
           Right(b, k) == /\ Box(b) /\ Keeps(b, brought) /\ m.last <= b.last
                          /\ \A i \in 1..k : seqs[i] <= b.last
           K == {k \in Nat : k <= Len(seqs) =>
                    /\ \E f : Fills(f, k)
                    /\ \A f : Fills(f, k) => Right(f[k], k)}
<1>1. /\ Len(seqs) \in Nat /\ \A i \in 1..Len(seqs) : seqs[i] \in 0..MaxSeq
      /\ \A s \in rows : \E i \in 1..Len(seqs) : seqs[i] = s
  <2>1. IsFiniteSet(0..MaxSeq) /\ 0..MaxSeq \subseteq Nat
    BY FS_Interval DEF StreamAssumption
  <2>2. IsFiniteSet(rows) /\ rows \subseteq Nat
    BY <2>1, FS_Subset
  <2>3. seqs \in Seq(rows) /\ ToSet(seqs) = rows
    BY <2>2, AscendingOrders
  <2> HIDE DEF seqs
  <2>4. Len(seqs) \in Nat /\ \A i \in 1..Len(seqs) : seqs[i] \in rows
    BY <2>3
  <2>5. \A s \in rows : \E i \in 1..Len(seqs) : seqs[i] = s
    BY <2>3 DEF ToSet
  <2> QED BY <2>4, <2>5
<1> HIDE DEF seqs
<1>2. 0 \in K
  <2>1. Fills([n \in 0..0 |-> m], 0)
    OBVIOUS
  <2>2. ASSUME NEW f, Fills(f, 0) PROVE f[0] = m
    BY <2>2
  <2>3. Right(m, 0)
    BY DEF Box
  <2> QED BY <2>1, <2>2, <2>3
<1>3. ASSUME NEW k \in K PROVE k + 1 \in K
  <2> SUFFICES ASSUME k + 1 <= Len(seqs)
               PROVE  (\E f : Fills(f, k + 1)) /\ \A f : Fills(f, k + 1) => Right(f[k + 1], k + 1)
    OBVIOUS
  <2>1. k \in Nat /\ k <= Len(seqs) /\ k + 1 \in 1..Len(seqs)
    BY <1>1
  <2>2. PICK f : Fills(f, k)
    BY <2>1
  <2> DEFINE g == [n \in 0..(k + 1) |-> IF n = k + 1 THEN Recorded(f[k], seqs[k + 1]) ELSE f[n]]
  <2>3. Fills(g, k + 1)
    <3> DEFINE h == [n \in 0..(k + 1) |-> IF n = 0 THEN m ELSE Recorded(g[n - 1], seqs[n])]
    <3>1. ASSUME NEW n \in 0..(k + 1) PROVE g[n] = h[n]
      <4>1. CASE n = k + 1
        <5>1. n # 0 /\ n - 1 = k /\ k \in 0..(k + 1) /\ k # k + 1
          BY <2>1, <4>1
        <5> QED BY <4>1, <5>1
      <4>2. CASE n # k + 1 /\ n = 0
        BY <2>1, <2>2, <4>2
      <4>3. CASE n # k + 1 /\ n # 0
        <5>1. n \in 0..k /\ n - 1 \in 0..(k + 1) /\ n - 1 # k + 1
          BY <2>1, <4>3
        <5>2. g[n] = f[n] /\ g[n - 1] = f[n - 1]
          BY <4>3, <5>1
        <5>3. f[n] = Recorded(f[n - 1], seqs[n])
          BY <2>2, <4>3, <5>1
        <5>4. h[n] = Recorded(g[n - 1], seqs[n])
          BY <4>3
        <5> HIDE DEF g, h
        <5> QED BY <5>2, <5>3, <5>4
      <4> QED BY <4>1, <4>2, <4>3
    <3>2. g = h
      <4>1. DOMAIN g = DOMAIN h
        OBVIOUS
      <4>2. g = [n \in DOMAIN g |-> g[n]] /\ h = [n \in DOMAIN h |-> h[n]]
        OBVIOUS
      <4>3. DOMAIN g = 0..(k + 1)
        OBVIOUS
      <4> HIDE DEF g, h
      <4> QED BY <3>1, <4>1, <4>2, <4>3
    <3> QED BY <3>2
  <2>4. ASSUME NEW e, Fills(e, k + 1) PROVE Right(e[k + 1], k + 1)
    <3> DEFINE d == [n \in 0..k |-> e[n]]
    <3>1. Fills(d, k)
      <4> DEFINE h == [n \in 0..k |-> IF n = 0 THEN m ELSE Recorded(d[n - 1], seqs[n])]
      <4>1. ASSUME NEW n \in 0..k PROVE d[n] = h[n]
        <5>1. n \in 0..(k + 1) /\ d[n] = e[n]
          BY <2>1
        <5>2. e[n] = IF n = 0 THEN m ELSE Recorded(e[n - 1], seqs[n])
          BY <2>4, <5>1
        <5>3. CASE n = 0
          BY <5>1, <5>2, <5>3
        <5>4. CASE n # 0
          <6>1. n - 1 \in 0..k
            BY <2>1, <5>4
          <6>2. d[n - 1] = e[n - 1]
            BY <6>1
          <6>3. h[n] = Recorded(d[n - 1], seqs[n])
            BY <5>4
          <6> HIDE DEF d, h
          <6> QED BY <5>1, <5>2, <5>4, <6>2, <6>3
        <5> QED BY <5>3, <5>4
      <4>2. d = h
        <5>1. DOMAIN d = 0..k /\ DOMAIN h = 0..k
          OBVIOUS
        <5>2. d = [n \in DOMAIN d |-> d[n]] /\ h = [n \in DOMAIN h |-> h[n]]
          OBVIOUS
        <5> HIDE DEF d, h
        <5> QED BY <4>1, <5>1, <5>2
      <4> QED BY <4>2
    <3>2. Right(d[k], k)
      <4> HIDE DEF d, Right, Fills
      <4> QED BY <2>1, <3>1
    <3>3. d[k] = e[k]
      BY <2>1
    <3>4. e[k + 1] = Recorded(e[k], seqs[k + 1])
      <4>1. k + 1 \in 0..(k + 1) /\ k + 1 # 0 /\ (k + 1) - 1 = k
        BY <2>1
      <4> QED BY <2>4, <4>1
    <3> HIDE DEF d
    <3>5. seqs[k + 1] \in 0..MaxSeq
      BY <1>1, <2>1
    <3>6. Box(e[k]) /\ Keeps(e[k], brought) /\ m.last <= e[k].last /\ \A i \in 1..k : seqs[i] <= e[k].last
      BY <3>2, <3>3
    <3>7. /\ Box(Recorded(e[k], seqs[k + 1])) /\ Keeps(Recorded(e[k], seqs[k + 1]), brought \cup {seqs[k + 1]})
          /\ Recorded(e[k], seqs[k + 1]).last = LastSeq(e[k], seqs[k + 1])
      BY <3>5, <3>6, RecordedKeeps
    <3>8. /\ e[k].last \in Int /\ m.last \in Int /\ seqs[k + 1] \in Int
          /\ e[k].last <= LastSeq(e[k], seqs[k + 1]) /\ seqs[k + 1] <= LastSeq(e[k], seqs[k + 1])
          /\ LastSeq(e[k], seqs[k + 1]) \in Int
      BY <3>5, <3>6 DEF Box, LastSeq
    <3>9. m.last <= e[k + 1].last
      BY <3>4, <3>6, <3>7, <3>8
    <3>10. ASSUME NEW i \in 1..(k + 1) PROVE seqs[i] <= e[k + 1].last
      <4>1. seqs[i] \in Int
        BY <1>1, <2>1
      <4>2. CASE i = k + 1
        BY <3>4, <3>7, <3>8, <4>2
      <4>3. CASE i # k + 1
        <5>1. i \in 1..k
          BY <2>1, <4>3
        <5> QED BY <3>4, <3>6, <3>7, <3>8, <4>1, <5>1
      <4> QED BY <4>2, <4>3
    <3> QED BY <3>4, <3>7, <3>9, <3>10 DEF Keeps
  <2> HIDE DEF g, Fills, Right
  <2> QED BY <2>3, <2>4
<1>4. K = Nat
  <2>1. K \subseteq Nat
    OBVIOUS
  <2> HIDE DEF K
  <2> QED BY <1>2, <1>3, <2>1, SetInduction
<1>5. /\ \E f : Fills(f, Len(seqs))
      /\ \A f : Fills(f, Len(seqs)) => Right(f[Len(seqs)], Len(seqs))
  <2>1. Len(seqs) \in K /\ Len(seqs) <= Len(seqs)
    BY <1>1, <1>4
  <2> HIDE DEF Fills, Right
  <2> QED BY <2>1
<1> DEFINE F == CHOOSE f : Fills(f, Len(seqs))
<1>6. Fills(F, Len(seqs))
  <2> HIDE DEF Fills
  <2> QED BY <1>5
<1>7. Mirrored(m, rows) = F[Len(seqs)]
  BY DEF Mirrored, seqs
<1>8. Right(F[Len(seqs)], Len(seqs))
  <2> HIDE DEF Fills, F, Right
  <2> QED BY <1>5, <1>6
<1> HIDE DEF F
<1> QED BY <1>1, <1>7, <1>8

---------------------------------------------------------------------------
LEMMA StreamStarts == ASSUME StreamAssumption, StreamInit PROVE StreamInv /\ PlaceInv
<1>1. NoRows = [rows |-> {}, last |-> 0, since |-> 0, restarts |-> 0]
  BY DEF NoRows
<1>2. Box(NoRows)
  <2>1. NoRows.rows \ {0} = {} /\ Cardinality({}) = 0
    BY <1>1, FS_EmptySet
  <2>2. PruneEvery * 0 = 0 /\ {TailRows, MaxSeq, MaxRestarts} \subseteq Nat /\ PruneEvery \in Nat \ {0}
    BY DEF StreamAssumption
  <2>3. NoRows \in [rows : SUBSET (0..MaxSeq), last : 0..MaxSeq, since : 0..PruneEvery, restarts : 0..MaxRestarts]
    BY <1>1, <2>2
  <2> QED BY <1>1, <2>1, <2>2, <2>3 DEF Box
<1>3. outbox = NoRows /\ mirror = NoRows /\ stream = Closed /\ load = NoLoad /\ page = [shown |-> {}, known |-> 0]
  BY DEF StreamInit
<1>4. StreamRecords
  BY <1>3 DEF StreamRecords, Closed, NoLoad, StreamAssumption
<1>5. OutboxInv
  BY <1>1, <1>2, <1>3 DEF OutboxInv
<1>6. MirrorInv
  BY <1>2, <1>3 DEF MirrorInv, Keeps, Closed
<1>7. PlaceInv
  <2>1. agentRow = [listed |-> TRUE, lastSeq |-> 0] /\ 0 \in 0..MaxSeq
    BY DEF StreamInit, NewRow, StreamAssumption
  <2> QED BY <1>1, <1>3, <2>1 DEF PlaceInv, Closed
<1> QED BY <1>3, <1>4, <1>5, <1>6, <1>7 DEF StreamInv, Closed

LEMMA Members == ASSUME NEW S, NEW q \in Seq(S) PROVE \A i \in 1..Len(q) : q[i] \in S
BY ElementOfSeq

LEMMA Regarded ==
    ASSUME NEW S, NEW T, NEW q \in Seq(S), \A i \in 1..Len(q) : q[i] \in T
    PROVE  q \in Seq(T)
<1>1. Len(q) \in Nat /\ q = [i \in 1..Len(q) |-> q[i]]
  OBVIOUS
<1>2. q \in [1..Len(q) -> T]
  BY <1>1
<1> QED BY <1>1, <1>2, SeqDef

(* The parts of the stream's record that a step leaves alone.                *)
LEMMA WireTypes ==
    ASSUME StreamInv
    PROVE  /\ stream.open \in BOOLEAN /\ stream.wire \in Seq(0..MaxSeq) /\ stream.from \in Nat
           /\ stream.brought \subseteq 0..MaxSeq /\ Len(stream.wire) \in Nat
           /\ \A i \in 1..Len(stream.wire) : stream.wire[i] \in 0..MaxSeq /\ stream.wire[i] \in Sent
           /\ Sent \subseteq 0..MaxSeq /\ \A s \in Sent : \E i \in 1..Len(stream.wire) : stream.wire[i] = s
<1>1. /\ stream.open \in BOOLEAN /\ stream.wire \in Seq(0..MaxSeq) /\ stream.from \in Nat
      /\ stream.brought \subseteq 0..MaxSeq
  BY DEF StreamInv, StreamRecords
<1>2. Sent = {stream.wire[i] : i \in 1..Len(stream.wire)} /\ Len(stream.wire) \in Nat
  BY <1>1 DEF Sent, ToSet
<1>3. \A i \in 1..Len(stream.wire) : stream.wire[i] \in 0..MaxSeq /\ stream.wire[i] \in Sent
  <2>1. \A i \in 1..Len(stream.wire) : stream.wire[i] \in 0..MaxSeq
    BY <1>1, Members
  <2>2. \A i \in 1..Len(stream.wire) : stream.wire[i] \in Sent
    BY <1>2
  <2> QED BY <2>1, <2>2
<1>4. Sent \subseteq 0..MaxSeq /\ \A s \in Sent : \E i \in 1..Len(stream.wire) : stream.wire[i] = s
  BY <1>2, <1>3
<1> QED BY <1>1, <1>2, <1>3, <1>4

(* Persisting an event in the outbox.                                        *)
LEMMA OutboxGrows ==
    ASSUME StreamAssumption, OutboxInv, outbox.last < MaxSeq,
           outbox' = Recorded(outbox, outbox.last + 1)
    PROVE  OutboxInv' /\ outbox'.last = outbox.last + 1
<1> DEFINE seq == outbox.last + 1
<1>1. Box(outbox) /\ outbox.last \in 0..MaxSeq /\ outbox.rows \subseteq 0..MaxSeq
  BY DEF OutboxInv, Box
<1>2. seq \in 0..MaxSeq /\ LastSeq(outbox, seq) = seq /\ MaxSeq \in Nat /\ TailRows \in Nat
  BY <1>1 DEF LastSeq, StreamAssumption
<1>3. \A s \in 1..outbox.last : s > outbox.last - TailRows => s \in outbox.rows
  BY DEF OutboxInv
<1> DEFINE B == {s \in 1..outbox.last : s > outbox.last - TailRows}
<1>4. Keeps(outbox, B) /\ B \subseteq Int
  BY <1>3 DEF Keeps
<1> HIDE DEF B, seq
<1>5. /\ Box(Recorded(outbox, seq)) /\ Keeps(Recorded(outbox, seq), B \cup {seq})
      /\ Recorded(outbox, seq).last = LastSeq(outbox, seq)
      /\ \/ Recorded(outbox, seq).rows = outbox.rows \cup {seq}
         \/ Recorded(outbox, seq).rows = Pruned(outbox.rows \cup {seq})
  BY <1>1, <1>2, <1>4, RecordedKeeps
<1>6. outbox' = Recorded(outbox, seq)
  BY DEF seq
<1>7. outbox'.last = seq
  BY <1>2, <1>5, <1>6
<1>8. 0 \notin outbox'.rows
  <2>1. Pruned(outbox.rows \cup {seq}) \subseteq outbox.rows \cup {seq}
    BY DEF Pruned
  <2>2. 0 \notin outbox.rows /\ seq # 0
    BY <1>1 DEF OutboxInv, seq
  <2> QED BY <1>5, <1>6, <2>1, <2>2
<1>9. ASSUME NEW s \in 1..outbox'.last, s > outbox'.last - TailRows PROVE s \in outbox'.rows
  <2>1. s \in B \cup {seq}
    BY <1>1, <1>2, <1>7, <1>9 DEF B, seq
  <2>2. s \in outbox'.rows \/ s <= outbox'.last - TailRows
    BY <1>5, <1>6, <1>9, <2>1 DEF Keeps
  <2> QED BY <1>2, <1>7, <1>9, <2>2
<1>10. Box(outbox')
  BY <1>5, <1>6
<1> QED BY <1>7, <1>8, <1>9, <1>10 DEF OutboxInv, Box, seq

LEMMA PublishStep == ASSUME StreamAssumption, StreamInv, NEW p \in BOOLEAN, Publish(p) PROVE StreamInv'
<1> DEFINE seq == IF p THEN outbox.last + 1 ELSE 0
<1>1. /\ p => outbox.last < MaxSeq
      /\ stream' = IF stream.open THEN [stream EXCEPT !.wire = Append(stream.wire, seq)] ELSE stream
      /\ UNCHANGED <<mirror, agentRow, page, load>>
  BY DEF Publish
<1>2. outbox.last \in 0..MaxSeq /\ MaxSeq \in Nat
  BY DEF StreamInv, OutboxInv, Box, StreamAssumption
<1>3. OutboxInv' /\ outbox'.last = (IF p THEN outbox.last + 1 ELSE outbox.last)
  <2>1. CASE p
    <3>1. outbox' = Counted(outbox, outbox.rows \cup {outbox.last + 1}, outbox.last + 1, 1)
      BY <2>1 DEF Publish
    <3>2. LastSeq(outbox, outbox.last + 1) = outbox.last + 1
      BY <1>2 DEF LastSeq
    <3>3. outbox' = Recorded(outbox, outbox.last + 1)
      BY <3>1, <3>2 DEF Recorded
    <3> QED BY <1>1, <2>1, <3>3, OutboxGrows DEF StreamInv
  <2>2. CASE ~p
    <3>1. outbox' = outbox
      BY <2>2 DEF Publish
    <3> QED BY <2>2, <3>1 DEF StreamInv, OutboxInv, Box
  <2> QED BY <2>1, <2>2
<1>4. seq \in 0..MaxSeq /\ seq <= outbox'.last /\ outbox.last <= outbox'.last /\ (seq > 0 => p)
  BY <1>1, <1>2, <1>3
<1>5. /\ stream'.brought = stream.brought /\ stream'.from = stream.from /\ stream'.skipped = stream.skipped
      /\ stream'.open = stream.open /\ StreamRecords'
      /\ stream.open => stream'.wire = Append(stream.wire, seq)
  <2>1. StreamRecords
    BY DEF StreamInv
  <2>2. CASE stream.open
    <3>1. stream' = [stream EXCEPT !.wire = Append(stream.wire, seq)]
      BY <1>1, <2>2
    <3>2. Append(stream.wire, seq) \in Seq(0..MaxSeq)
      BY <1>4, <2>1 DEF StreamRecords
    <3> HIDE DEF seq
    <3> QED BY <1>1, <2>1, <2>2, <3>1, <3>2 DEF StreamRecords
  <2>3. CASE ~stream.open
    BY <1>1, <2>1, <2>3 DEF StreamRecords
  <2> QED BY <2>1, <2>2, <2>3 DEF StreamRecords
<1> HIDE DEF seq
<1>6. MirrorInv'
  BY <1>1, <1>5 DEF StreamInv, MirrorInv, Box, Keeps
<1>7. \A s \in stream'.brought : s <= outbox'.last
  <2> SUFFICES ASSUME NEW s \in stream.brought PROVE s <= outbox'.last
    BY <1>5
  <2>1. s <= outbox.last /\ s \in 0..MaxSeq /\ outbox'.last \in Int
    BY <1>2, <1>3, WireTypes DEF StreamInv
  <2> QED BY <1>2, <1>4, <2>1
<1>8. ASSUME stream'.open PROVE WireInv'
  <2>1. stream.open /\ WireInv /\ stream'.wire = Append(stream.wire, seq)
    BY <1>5, <1>8 DEF StreamInv
  <2>2. /\ Len(stream'.wire) = Len(stream.wire) + 1 /\ Len(stream.wire) \in Nat
        /\ \A i \in 1..Len(stream.wire) : stream'.wire[i] = stream.wire[i]
        /\ stream'.wire[Len(stream.wire) + 1] = seq
    BY <2>1, WireTypes
  <2>3. Sent' = Sent \cup {seq}
    <3>1. Sent' = {stream'.wire[i] : i \in 1..(Len(stream.wire) + 1)}
      BY <1>5, <2>1, <2>2 DEF Sent, ToSet, StreamRecords
    <3>2. Sent = {stream.wire[i] : i \in 1..Len(stream.wire)}
      BY WireTypes
    <3>3. 1..(Len(stream.wire) + 1) = 1..Len(stream.wire) \cup {Len(stream.wire) + 1}
      BY <2>2
    <3>4. Sent' = {stream'.wire[i] : i \in 1..Len(stream.wire)} \cup {stream'.wire[Len(stream.wire) + 1]}
      BY <3>1, <3>3, Zenon
    <3>5. {stream'.wire[i] : i \in 1..Len(stream.wire)} = Sent
      BY <2>2, <3>2, Zenon
    <3> QED BY <2>2, <3>4, <3>5, Zenon
  <2>4. \A s \in Sent' \cup stream'.brought : s <= outbox'.last
    <3> SUFFICES ASSUME NEW s \in Sent \cup stream.brought PROVE s <= outbox'.last
      BY <1>4, <1>5, <2>3
    <3>1. s <= outbox.last /\ s \in 0..MaxSeq /\ outbox'.last \in Int
      BY <1>2, <1>3, <2>1, WireTypes DEF WireInv
    <3> QED BY <1>2, <1>4, <3>1
  <2>5. \A s \in (stream'.from + 1)..outbox'.last : s \in stream'.skipped \cup stream'.brought \cup Sent'
    <3> SUFFICES ASSUME NEW s \in (stream.from + 1)..outbox'.last
                 PROVE  s \in stream.skipped \cup stream.brought \cup Sent \cup {seq}
      BY <1>5, <2>3
    <3>1. s \in (stream.from + 1)..outbox.last \/ s = seq
      BY <1>2, <1>3, WireTypes DEF seq
    <3> QED BY <2>1, <3>1 DEF WireInv
  <2>6. ASSUME NEW i \in 1..Len(stream'.wire), NEW j \in 1..Len(stream'.wire), i < j, stream'.wire[j] > 0
        PROVE  stream'.wire[i] < stream'.wire[j]
    <3>1. i \in 1..Len(stream.wire)
      BY <2>2, <2>6
    <3>2. stream'.wire[i] = stream.wire[i] /\ stream.wire[i] \in 0..MaxSeq /\ stream.wire[i] <= outbox.last
      BY <2>1, <2>2, <3>1, WireTypes DEF WireInv
    <3>3. CASE j \in 1..Len(stream.wire)
      <4>1. stream'.wire[j] = stream.wire[j]
        BY <2>2, <3>3
      <4> QED BY <2>1, <2>6, <3>1, <3>2, <3>3, <4>1 DEF WireInv
    <3>4. CASE j = Len(stream.wire) + 1
      <4>1. stream'.wire[j] = seq /\ p /\ seq = outbox.last + 1
        BY <1>4, <2>2, <2>6, <3>4 DEF seq
      <4> QED BY <1>2, <3>2, <4>1
    <3> QED BY <2>2, <3>3, <3>4
  <2>7. ASSUME NEW s \in Sent' \ {0}, NEW t \in stream'.brought PROVE t < s
    <3>1. CASE s \in Sent
      BY <1>5, <2>1, <2>7, <3>1 DEF WireInv
    <3>2. CASE s = seq
      <4>1. seq = outbox.last + 1 /\ t <= outbox.last /\ t \in 0..MaxSeq
        BY <1>2, <1>5, <2>1, <2>7, <3>2, WireTypes DEF seq, WireInv
      <4> QED BY <1>2, <3>2, <4>1
    <3> QED BY <2>3, <3>1, <3>2
  <2> QED BY <2>4, <2>5, <2>6, <2>7 DEF WireInv
<1> QED BY <1>3, <1>5, <1>6, <1>7, <1>8 DEF StreamInv

(* A step that leaves the outbox and what a stream is about alone, closes    *)
(* the stream or begins another page, and keeps the mirror right.            *)
LEMMA QuietSteps ==
    ASSUME StreamAssumption, StreamInv, StreamRecords', OutboxInv', outbox'.last = outbox.last,
           MirrorInv' \/ (Keeps(mirror', stream.brought) /\ Box(mirror')),
           stream' = stream \/ (stream'.open = FALSE /\ stream'.brought \subseteq stream.brought)
    PROVE  StreamInv'
<1>1. stream'.brought \subseteq stream.brought
  OBVIOUS
<1>2. MirrorInv'
  <2>1. CASE Keeps(mirror', stream.brought) /\ Box(mirror')
    BY <1>1, <2>1 DEF MirrorInv, Keeps
  <2> QED BY <2>1
<1>3. \A s \in stream'.brought : s <= outbox'.last
  BY <1>1 DEF StreamInv
<1>4. stream'.open => WireInv'
  <2> SUFFICES ASSUME stream'.open PROVE WireInv'
    OBVIOUS
  <2>1. stream' = stream /\ WireInv
    BY DEF StreamInv
  <2> QED BY <2>1 DEF WireInv, Sent
<1> QED BY <1>2, <1>3, <1>4 DEF StreamInv

LEMMA RestartSteps ==
    ASSUME StreamAssumption, StreamInv, WorkerRestarts \/ ControlRestarts PROVE StreamInv'
<1>1. stream' = [Closed EXCEPT !.brought = stream.brought] /\ UNCHANGED page /\ load'.rows \subseteq load.rows
  BY DEF WorkerRestarts, ControlRestarts, NoLoad
<1>2. StreamRecords' /\ stream'.open = FALSE /\ stream'.brought = stream.brought
  <2>1. StreamRecords
    BY DEF StreamInv
  <2>2. stream' = [open |-> FALSE, from |-> 0, skipped |-> {}, brought |-> stream.brought, wire |-> <<>>]
    BY <1>1 DEF Closed
  <2>3. <<>> \in Seq(0..MaxSeq)
    OBVIOUS
  <2>4. /\ stream'.open = FALSE /\ stream'.from = 0 /\ stream'.skipped = {} /\ stream'.wire = <<>>
        /\ stream'.brought = stream.brought
    BY <2>2
  <2>5. stream' = [open |-> stream'.open, from |-> stream'.from, skipped |-> stream'.skipped,
                   brought |-> stream'.brought, wire |-> stream'.wire]
    BY <2>2, <2>4
  <2>6. load'.rows \subseteq 0..MaxSeq /\ page' \in [shown : SUBSET (0..MaxSeq), known : 0..MaxSeq]
    BY <1>1, <2>1 DEF StreamRecords
  <2>7. /\ stream'.open \in BOOLEAN /\ stream'.wire \in Seq(0..MaxSeq) /\ stream'.from \in Nat
        /\ stream'.brought \subseteq 0..MaxSeq
    <3>1. stream.brought \subseteq 0..MaxSeq
      BY <2>1 DEF StreamRecords
    <3>2. FALSE \in BOOLEAN /\ 0 \in Nat
      OBVIOUS
    <3> QED BY <2>3, <2>4, <3>1, <3>2, Zenon
  <2>8. StreamRecords'
    BY <2>5, <2>6, <2>7, Zenon DEF StreamRecords
  <2> QED BY <2>4, <2>8
<1>6. outbox.restarts \in Nat /\ mirror.restarts \in Nat /\ MaxRestarts \in Nat
  BY DEF StreamInv, OutboxInv, MirrorInv, Box, StreamAssumption
<1>3. ASSUME NEW m, NEW n, Box(m), m.restarts < MaxRestarts, n = [m EXCEPT !.since = 0, !.restarts = m.restarts + 1]
      PROVE  Box(n) /\ n.rows = m.rows /\ n.last = m.last
  <2>1. /\ m \in [rows : SUBSET (0..MaxSeq), last : 0..MaxSeq, since : 0..PruneEvery, restarts : 0..MaxRestarts]
        /\ m.since < PruneEvery /\ \A s \in m.rows : s <= m.last
        /\ TailRows > 0 => m.last \in m.rows \/ (m.rows = {} /\ m.last = 0)
        /\ Cardinality(m.rows \ {0}) <= TailRows + m.since + PruneEvery * m.restarts
    BY <1>3 DEF Box
  <2>2. TailRows \in Nat /\ MaxSeq \in Nat /\ MaxRestarts \in Nat /\ PruneEvery \in Nat \ {0}
    BY DEF StreamAssumption
  <2>3. /\ n \in [rows : SUBSET (0..MaxSeq), last : 0..MaxSeq, since : 0..PruneEvery, restarts : 0..MaxRestarts]
        /\ n.rows = m.rows /\ n.last = m.last /\ n.since = 0 /\ n.restarts = m.restarts + 1
    <3>1. 0 \in 0..PruneEvery /\ m.restarts + 1 \in 0..MaxRestarts
      BY <1>3, <2>1, <2>2
    <3>2. n = [rows |-> m.rows, last |-> m.last, since |-> 0, restarts |-> m.restarts + 1]
      BY <1>3, <2>1
    <3> QED BY <2>1, <3>1, <3>2
  <2>4. Cardinality(n.rows \ {0}) <= TailRows + n.since + PruneEvery * n.restarts
    <3>1. m.restarts \in Nat /\ m.since \in Nat
      BY <2>1
    <3>2. PruneEvery * m.restarts \in Nat /\ PruneEvery * (m.restarts + 1) = PruneEvery * m.restarts + PruneEvery
      BY <2>2, <3>1, OneMore
    <3>3. Cardinality(m.rows \ {0}) \in Nat
      <4>1. IsFiniteSet(0..MaxSeq)
        BY <2>2, FS_Interval
      <4>2. m.rows \ {0} \in SUBSET (0..MaxSeq)
        BY <2>1
      <4>3. IsFiniteSet(m.rows \ {0})
        BY <4>1, <4>2, FS_Subset
      <4> QED BY <4>3, FS_CardinalityType
    <3> DEFINE a == PruneEvery * m.restarts
               b == PruneEvery * (m.restarts + 1)
               c == Cardinality(m.rows \ {0})
    <3>4. a \in Nat /\ b = a + PruneEvery /\ c \in Nat /\ c <= TailRows + m.since + a
      BY <2>1, <3>2, <3>3
    <3> HIDE DEF a, b, c
    <3>5. c <= TailRows + 0 + b
      BY <2>1, <2>2, <3>1, <3>4
    <3> QED BY <2>3, <3>5 DEF b, c
  <2>5. \A s \in n.rows : s <= n.last
    BY <2>1, <2>3
  <2>6. n.since < PruneEvery
    BY <2>2, <2>3
  <2>7. TailRows > 0 => n.last \in n.rows \/ (n.rows = {} /\ n.last = 0)
    BY <2>1, <2>3
  <2> QED BY <2>3, <2>4, <2>5, <2>6, <2>7, Zenon DEF Box
<1>4. CASE WorkerRestarts
  <2>1. /\ outbox.restarts < MaxRestarts /\ outbox' = [outbox EXCEPT !.since = 0, !.restarts = outbox.restarts + 1]
        /\ mirror' = mirror
    BY <1>4, <1>6 DEF WorkerRestarts
  <2>2. Box(outbox') /\ outbox'.rows = outbox.rows /\ outbox'.last = outbox.last
    BY <1>3, <2>1 DEF StreamInv, OutboxInv
  <2>3. OutboxInv'
    BY <2>2 DEF StreamInv, OutboxInv
  <2>4. Keeps(mirror', stream.brought) /\ Box(mirror')
    BY <2>1 DEF StreamInv, MirrorInv
  <2> QED BY <1>2, <2>2, <2>3, <2>4, QuietSteps
<1>5. CASE ControlRestarts
  <2>1. /\ mirror.restarts < MaxRestarts /\ mirror' = [mirror EXCEPT !.since = 0, !.restarts = mirror.restarts + 1]
        /\ outbox' = outbox
    BY <1>5, <1>6 DEF ControlRestarts
  <2>2. Box(mirror') /\ mirror'.rows = mirror.rows /\ mirror'.last = mirror.last
    BY <1>3, <2>1 DEF StreamInv, MirrorInv
  <2>3. OutboxInv'
    BY <2>1 DEF StreamInv, OutboxInv, Box
  <2>4. Keeps(mirror', stream.brought) /\ Box(mirror')
    BY <2>2 DEF StreamInv, MirrorInv, Keeps
  <2> QED BY <1>2, <2>1, <2>3, <2>4, QuietSteps
<1> QED BY <1>4, <1>5

(* Listings, syncs and the page: nothing that is under way is touched.       *)
LEMMA MirrorSteps ==
    ASSUME StreamAssumption, StreamInv, WorkerLists \/ ControlLists \/ \E before \in 0..MaxSeq : SyncAfterSend(before)
    PROVE  StreamInv'
<1>1. outbox' = outbox /\ stream' = stream /\ page' = page
  BY DEF WorkerLists, ControlLists, SyncAfterSend
<1>2. OutboxInv' /\ outbox'.last = outbox.last
  BY <1>1 DEF StreamInv, OutboxInv, Box
<1>3. Box(mirror) /\ Keeps(mirror, stream.brought) /\ stream.brought \subseteq Int
  BY WireTypes DEF StreamInv, MirrorInv
<1>4. outbox.rows \subseteq 0..MaxSeq /\ load.rows \subseteq 0..MaxSeq /\ mirror.rows \subseteq 0..MaxSeq
  BY DEF StreamInv, StreamRecords, OutboxInv, MirrorInv, Box
<1>5. Box(mirror') /\ Keeps(mirror', stream.brought) /\ load'.rows \subseteq 0..MaxSeq
  <2>1. CASE WorkerLists
    <3>1. mirror' = mirror /\ (load'.rows = TailOf(outbox.rows) \/ load'.rows = {})
      BY <2>1 DEF WorkerLists
    <3> QED BY <1>3, <1>4, <3>1 DEF TailOf, Box, Keeps
  <2>2. CASE ControlLists
    <3>1. mirror' = Mirrored(mirror, load.rows) /\ load'.rows = TailOf(mirror'.rows)
      BY <2>2 DEF ControlLists
    <3>2. Box(mirror') /\ Keeps(mirror', stream.brought)
      BY <1>3, <1>4, <3>1, MirroredKeeps
    <3>3. mirror'.rows \subseteq 0..MaxSeq
      BY <3>2 DEF Box
    <3> QED BY <3>1, <3>2, <3>3 DEF TailOf
  <2>3. ASSUME NEW before \in 0..MaxSeq, SyncAfterSend(before) PROVE Box(mirror') /\ Keeps(mirror', stream.brought) /\ load' = load
    <3>1. mirror' = Mirrored(mirror, After(outbox.rows, before)) /\ load' = load
      BY <2>3 DEF SyncAfterSend
    <3>2. After(outbox.rows, before) \in SUBSET (0..MaxSeq)
      BY <1>4 DEF After
    <3> QED BY <1>3, <3>1, <3>2, MirroredKeeps
  <2> QED BY <1>4, <2>1, <2>2, <2>3
<1>6. StreamRecords'
  BY <1>1, <1>5 DEF StreamInv, StreamRecords
<1> QED BY <1>1, <1>2, <1>5, <1>6, QuietSteps

LEMMA PageSteps ==
    ASSUME StreamAssumption, StreamInv, PlaceInv, Refresh \/ Loaded \/ LoadFails
    PROVE  StreamInv'
<1>1. outbox' = outbox /\ mirror' = mirror /\ (stream' = stream \/ stream' = Closed)
  BY DEF Refresh, Loaded, LoadFails
<1>2. OutboxInv' /\ outbox'.last = outbox.last
  BY <1>1 DEF StreamInv, OutboxInv, Box
<1>3. Keeps(mirror', stream.brought) /\ Box(mirror')
  BY <1>1 DEF StreamInv, MirrorInv
<1>4. agentRow.lastSeq \in 0..MaxSeq /\ 0 \in 0..MaxSeq
  BY DEF PlaceInv, StreamAssumption
<1>5. page' \in [shown : SUBSET (0..MaxSeq), known : 0..MaxSeq] /\ load'.rows \subseteq 0..MaxSeq
  <2>1. page \in [shown : SUBSET (0..MaxSeq), known : 0..MaxSeq] /\ load.rows \subseteq 0..MaxSeq
    BY DEF StreamInv, StreamRecords
  <2>2. CASE Refresh
    BY <1>4, <2>1, <2>2 DEF Refresh
  <2>3. CASE Loaded
    BY <2>1, <2>3 DEF Loaded, NoLoad
  <2>4. CASE LoadFails
    BY <2>1, <2>4 DEF LoadFails, NoLoad
  <2> QED BY <2>2, <2>3, <2>4
<1>6. CASE stream' = stream
  <2>1. StreamRecords'
    BY <1>5, <1>6 DEF StreamInv, StreamRecords
  <2> QED BY <1>2, <1>3, <1>6, <2>1, QuietSteps
<1>7. CASE stream' = Closed
  <2>1. StreamRecords' /\ stream'.open = FALSE /\ stream'.brought = {}
    BY <1>5, <1>7 DEF Closed, StreamRecords
  <2> QED BY <1>2, <1>3, <2>1, QuietSteps
<1> QED BY <1>1, <1>6, <1>7

(* Only what the outbox does not have, or a replay cannot carry, is skipped  *)
(* by a stream that opens.                                                   *)
LEMMA OpenStep == ASSUME StreamAssumption, StreamInv, OpenStream PROVE StreamInv'
<1> DEFINE between(s) == {t \in outbox.rows : page.known < t /\ t < s}
           skipped == {s \in 1..outbox.last : s \notin outbox.rows \/ Cardinality(between(s)) >= PageRows}
           rows == After(outbox.rows, page.known)
<1>1. /\ stream' = [open |-> TRUE, from |-> page.known, brought |-> {}, wire |-> Ascending(rows),
                    skipped |-> skipped]
      /\ UNCHANGED <<outbox, mirror, agentRow, page, load>>
  BY DEF OpenStream
<1>2. /\ outbox.rows \subseteq 0..MaxSeq /\ 0 \notin outbox.rows /\ \A s \in outbox.rows : s <= outbox.last
      /\ outbox.last \in 0..MaxSeq /\ page.known \in 0..MaxSeq /\ MaxSeq \in Nat /\ PageRows \in Nat
      /\ IsFiniteSet(outbox.rows) /\ 0..MaxSeq \subseteq Nat
  <2>1. /\ outbox.rows \subseteq 0..MaxSeq /\ 0 \notin outbox.rows /\ \A s \in outbox.rows : s <= outbox.last
        /\ outbox.last \in 0..MaxSeq /\ page.known \in 0..MaxSeq /\ MaxSeq \in Nat /\ PageRows \in Nat
    BY DEF StreamInv, StreamRecords, OutboxInv, Box, StreamAssumption
  <2>2. IsFiniteSet(0..MaxSeq) /\ 0..MaxSeq \subseteq Nat
    BY <2>1, FS_Interval
  <2> QED BY <2>1, <2>2, FS_Subset
<1>3. rows \subseteq outbox.rows /\ IsFiniteSet(rows) /\ rows \subseteq Nat /\ rows \in SUBSET (0..MaxSeq)
  <2>1. rows \subseteq outbox.rows
    BY DEF After
  <2> HIDE DEF rows
  <2> QED BY <1>2, <2>1, FS_Subset
<1>4. /\ Ascending(rows) \in Seq(rows) /\ Len(Ascending(rows)) \in Nat /\ ToSet(Ascending(rows)) = rows
      /\ \A i, j \in 1..Len(Ascending(rows)) : i < j => Ascending(rows)[i] < Ascending(rows)[j]
  <2> HIDE DEF rows
  <2> QED BY <1>3, AscendingOrders
<1>5. ASSUME NEW s \in (page.known + 1)..outbox.last PROVE s \in skipped \cup rows
  <2>1. s \in 1..outbox.last /\ s \in Nat /\ s > page.known
    BY <1>2
  <2>2. CASE s \notin outbox.rows
    BY <2>1, <2>2
  <2>3. CASE s \in outbox.rows
    <3>1. between(s) = {t \in outbox.rows : t > page.known /\ t < s}
      <4>1. \A t \in outbox.rows : page.known < t <=> t > page.known
        BY <1>2
      <4> QED BY <4>1
    <3>2. Cardinality(between(s)) \in Nat
      <4>1. IsFiniteSet(between(s))
        BY <1>2, FS_Subset
      <4> HIDE DEF between
      <4> QED BY <4>1, FS_CardinalityType
    <3>3. Cardinality(between(s)) >= PageRows \/ Cardinality(between(s)) < PageRows
      <4> HIDE DEF between
      <4> QED BY <1>2, <3>2
    <3>4. CASE Cardinality(between(s)) >= PageRows
      BY <2>1, <3>4
    <3>5. CASE Cardinality(between(s)) < PageRows
      BY <2>1, <2>3, <3>1, <3>5 DEF After
    <3> QED BY <3>3, <3>4, <3>5
  <2> QED BY <2>2, <2>3
<1> HIDE DEF skipped, rows
<1>6. /\ stream'.open = TRUE /\ stream'.from = page.known /\ stream'.brought = {} /\ stream'.skipped = skipped
      /\ stream'.wire = Ascending(rows)
      /\ stream' = [open |-> stream'.open, from |-> stream'.from, skipped |-> stream'.skipped,
                    brought |-> stream'.brought, wire |-> stream'.wire]
  BY <1>1
<1>7. Ascending(rows) \in Seq(0..MaxSeq)
  <2>1. rows \subseteq 0..MaxSeq
    BY <1>3
  <2> DEFINE sent == Ascending(rows)
  <2>2. sent \in Seq(rows) /\ Len(sent) \in Nat
    BY <1>4
  <2> HIDE DEF sent
  <2>3. \A i \in 1..Len(sent) : sent[i] \in 0..MaxSeq
    BY <2>1, <2>2, Members
  <2>4. sent \in Seq(0..MaxSeq)
    BY <2>2, <2>3, Regarded
  <2> QED BY <2>4 DEF sent
<1>8. StreamRecords'
  BY <1>1, <1>2, <1>6, <1>7 DEF StreamInv, StreamRecords
<1>9. OutboxInv' /\ MirrorInv'
  BY <1>1, <1>6 DEF StreamInv, OutboxInv, MirrorInv, Box, Keeps
<1>10. Sent' = rows
  BY <1>4, <1>6 DEF Sent
<1>11. WireInv'
  <2>1. \A s \in Sent' \cup stream'.brought : s <= outbox'.last
    BY <1>1, <1>2, <1>3, <1>6, <1>10
  <2>2. \A s \in (stream'.from + 1)..outbox'.last : s \in stream'.skipped \cup stream'.brought \cup Sent'
    BY <1>1, <1>5, <1>6, <1>10
  <2>3. \A i, j \in 1..Len(stream'.wire) : i < j /\ stream'.wire[j] > 0 => stream'.wire[i] < stream'.wire[j]
    BY <1>4, <1>6
  <2>4. \A s \in Sent' \ {0} : \A t \in stream'.brought : t < s
    BY <1>6
  <2> QED BY <2>1, <2>2, <2>3, <2>4 DEF WireInv
<1> QED BY <1>6, <1>8, <1>9, <1>11 DEF StreamInv

LEMMA FirstGoes ==
    ASSUME NEW S, NEW q \in Seq(S), q # <<>>
    PROVE  /\ Len(q) \in Nat /\ Len(q) >= 1 /\ Head(q) = q[1] /\ Tail(q) \in Seq(S) /\ Len(Tail(q)) = Len(q) - 1
           /\ \A i \in 1..(Len(q) - 1) : Tail(q)[i] = q[i + 1]
<1>1. Len(q) \in Nat /\ Len(q) >= 1 /\ Head(q) = q[1]
  OBVIOUS
<1>2. Tail(q) \in Seq(S) /\ Len(Tail(q)) = Len(q) - 1
  OBVIOUS
<1>3. \A i \in 1..(Len(q) - 1) : Tail(q)[i] = q[i + 1]
  OBVIOUS
<1> QED BY <1>1, <1>2, <1>3

(* A block is shown and recorded.                                            *)
LEMMA ForwardStep == ASSUME StreamAssumption, StreamInv, Forward PROVE StreamInv'
<1> DEFINE seq == Head(stream.wire)
<1>1. /\ stream.open /\ stream.wire # <<>> /\ mirror' = Recorded(mirror, seq)
      /\ page' = [page EXCEPT !.shown = @ \cup {seq}]
      /\ stream' = [stream EXCEPT !.wire = Tail(stream.wire), !.brought = stream.brought \cup {seq}]
      /\ UNCHANGED <<outbox, load>>
  BY DEF Forward
<1>2. /\ Len(stream.wire) \in Nat /\ Len(stream.wire) >= 1 /\ seq = stream.wire[1] /\ seq \in 0..MaxSeq
      /\ seq \in Sent /\ Tail(stream.wire) \in Seq(0..MaxSeq) /\ Len(Tail(stream.wire)) = Len(stream.wire) - 1
      /\ \A i \in 1..(Len(stream.wire) - 1) : Tail(stream.wire)[i] = stream.wire[i + 1]
  <2>1. stream.wire \in Seq(0..MaxSeq) /\ stream.wire # <<>>
    BY <1>1, WireTypes
  <2>2. /\ Len(stream.wire) \in Nat /\ Len(stream.wire) >= 1 /\ seq = stream.wire[1]
        /\ Tail(stream.wire) \in Seq(0..MaxSeq) /\ Len(Tail(stream.wire)) = Len(stream.wire) - 1
        /\ \A i \in 1..(Len(stream.wire) - 1) : Tail(stream.wire)[i] = stream.wire[i + 1]
    BY <2>1, FirstGoes
  <2>3. 1 \in 1..Len(stream.wire)
    BY <2>2
  <2> QED BY <2>2, <2>3, WireTypes
<1> HIDE DEF seq
<1>3. StreamRecords /\ WireInv /\ stream.brought \subseteq 0..MaxSeq
  BY <1>1 DEF StreamInv, StreamRecords
<1>4. /\ stream'.open = TRUE /\ stream'.from = stream.from /\ stream'.skipped = stream.skipped
      /\ stream'.brought = stream.brought \cup {seq} /\ stream'.wire = Tail(stream.wire)
      /\ stream' = [open |-> stream'.open, from |-> stream'.from, skipped |-> stream'.skipped,
                    brought |-> stream'.brought, wire |-> stream'.wire]
  <2>1. \A a, b, c, o, v, w, d :
           [open |-> o, from |-> a, skipped |-> b, brought |-> c, wire |-> v].wire = v
    OBVIOUS
  <2> DEFINE W == Tail(stream.wire)
             B == stream.brought \cup {seq}
  <2> HIDE DEF W, B
  <2>2. stream' = [stream EXCEPT !.wire = W, !.brought = B]
    BY <1>1 DEF W, B
  <2>3. stream = [open |-> stream.open, from |-> stream.from, skipped |-> stream.skipped,
                  brought |-> stream.brought, wire |-> stream.wire]
    BY <1>3 DEF StreamRecords
  <2>4. stream.open = TRUE
    BY <1>1, <1>3 DEF StreamRecords
  <2>5. DOMAIN stream = {"open", "from", "skipped", "brought", "wire"}
    BY <2>3
  <2>6. /\ stream'.open = stream.open /\ stream'.from = stream.from /\ stream'.skipped = stream.skipped
        /\ stream'.brought = B /\ stream'.wire = W
    BY <2>2, <2>5
  <2>7. stream' = [open |-> stream'.open, from |-> stream'.from, skipped |-> stream'.skipped,
                   brought |-> stream'.brought, wire |-> stream'.wire]
    BY <2>2, <2>5
  <2> QED BY <2>4, <2>6, <2>7 DEF W, B
<1>5. StreamRecords'
  BY <1>1, <1>2, <1>3, <1>4 DEF StreamRecords
<1>6. OutboxInv' /\ outbox' = outbox
  BY <1>1 DEF StreamInv, OutboxInv, Box
<1>7. MirrorInv'
  <2>1. Box(mirror) /\ Keeps(mirror, stream.brought) /\ stream.brought \subseteq Int
    BY <1>3 DEF StreamInv, MirrorInv
  <2> QED BY <1>1, <1>2, <1>4, <2>1, RecordedKeeps DEF MirrorInv
<1>8. ASSUME NEW i \in 1..Len(stream'.wire)
      PROVE  i + 1 \in 1..Len(stream.wire) /\ stream'.wire[i] = stream.wire[i + 1] /\ i \in 1..(Len(stream.wire) - 1)
  BY <1>2, <1>4
<1>9. Sent' \subseteq Sent
  <2> SUFFICES ASSUME NEW s \in Sent' PROVE s \in Sent
    OBVIOUS
  <2>1. PICK i \in 1..Len(stream'.wire) : stream'.wire[i] = s
    BY <1>5 DEF Sent, ToSet, StreamRecords
  <2> QED BY <1>8, <2>1, WireTypes
<1>10. Sent \subseteq Sent' \cup {seq}
  <2> SUFFICES ASSUME NEW s \in Sent, s # seq PROVE s \in Sent'
    OBVIOUS
  <2>1. PICK i \in 1..Len(stream.wire) : stream.wire[i] = s
    BY WireTypes
  <2>2. i # 1 /\ i - 1 \in 1..(Len(stream.wire) - 1) /\ (i - 1) + 1 = i
    BY <1>2, <2>1
  <2>3. stream'.wire[i - 1] = s /\ i - 1 \in 1..Len(stream'.wire)
    BY <1>2, <1>4, <2>1, <2>2
  <2> QED BY <1>5, <2>3 DEF Sent, ToSet, StreamRecords
<1>11. \A s \in Sent' \cup stream'.brought : s <= outbox'.last
  BY <1>2, <1>3, <1>4, <1>6, <1>9 DEF WireInv
<1>12. WireInv'
  <2>1. \A s \in (stream'.from + 1)..outbox'.last : s \in stream'.skipped \cup stream'.brought \cup Sent'
    BY <1>3, <1>4, <1>6, <1>10 DEF WireInv
  <2>2. ASSUME NEW i \in 1..Len(stream'.wire), NEW j \in 1..Len(stream'.wire), i < j, stream'.wire[j] > 0
        PROVE  stream'.wire[i] < stream'.wire[j]
    <3>1. /\ i + 1 \in 1..Len(stream.wire) /\ stream'.wire[i] = stream.wire[i + 1]
          /\ j + 1 \in 1..Len(stream.wire) /\ stream'.wire[j] = stream.wire[j + 1]
      BY <1>8
    <3>2. i + 1 < j + 1
      BY <1>8, <2>2
    <3> QED BY <1>3, <2>2, <3>1, <3>2 DEF WireInv
  <2>3. ASSUME NEW s \in Sent' \ {0}, NEW t \in stream'.brought PROVE t < s
    <3>1. CASE t \in stream.brought
      BY <1>3, <1>9, <2>3, <3>1 DEF WireInv
    <3>2. CASE t = seq
      <4>1. PICK i \in 1..Len(stream'.wire) : stream'.wire[i] = s
        BY <1>5, <2>3 DEF Sent, ToSet, StreamRecords
      <4>2. i + 1 \in 1..Len(stream.wire) /\ stream.wire[i + 1] = s /\ 1 < i + 1 /\ 1 \in 1..Len(stream.wire)
        BY <1>2, <1>8, <4>1
      <4>3. s > 0
        BY <1>9, <2>3, WireTypes
      <4> QED BY <1>2, <1>3, <3>2, <4>2, <4>3 DEF WireInv
    <3> QED BY <1>4, <3>1, <3>2
  <2> QED BY <1>11, <2>1, <2>2, <2>3 DEF WireInv
<1> QED BY <1>5, <1>6, <1>7, <1>11, <1>12 DEF StreamInv

---------------------------------------------------------------------------
(* The agent's row is removed and made anew beside all this.                 *)
LEMMA RowSteps == ASSUME StreamAssumption, StreamInv, Register \/ Unregister PROVE StreamInv'
<1>1. stream' = stream /\ outbox' = outbox /\ mirror' = mirror /\ page' = page /\ load' = load
  BY DEF Register, Unregister
<1>2. OutboxInv' /\ MirrorInv' /\ StreamRecords'
  BY <1>1 DEF StreamInv, OutboxInv, MirrorInv, StreamRecords, Box, Keeps
<1> QED BY <1>1, <1>2, QuietSteps

LEMMA StreamStep ==
    ASSUME StreamAssumption, StreamInv, PlaceInv, [StreamNext]_streamVars PROVE StreamInv'
<1>1. CASE UNCHANGED streamVars
  <2>1. stream' = stream /\ outbox' = outbox /\ mirror' = mirror /\ page' = page /\ load' = load
    BY <1>1 DEF streamVars
  <2>2. OutboxInv' /\ MirrorInv' /\ StreamRecords'
    BY <2>1 DEF StreamInv, OutboxInv, MirrorInv, StreamRecords, Box, Keeps
  <2> QED BY <2>1, <2>2, QuietSteps
<1>2. CASE StreamNext
  <2>1. CASE \E p \in BOOLEAN : Publish(p)
    BY <2>1, PublishStep
  <2>2. CASE WorkerRestarts \/ ControlRestarts
    BY <2>2, RestartSteps
  <2>3. CASE WorkerLists \/ ControlLists \/ \E before \in 0..MaxSeq : SyncAfterSend(before)
    BY <2>3, MirrorSteps
  <2>4. CASE Refresh \/ Loaded \/ LoadFails
    BY <2>4, PageSteps
  <2>5. CASE Register \/ Unregister
    BY <2>5, RowSteps
  <2> QED BY <1>2, <2>1, <2>2, <2>3, <2>4, <2>5, OpenStep, ForwardStep DEF StreamNext
<1> QED BY <1>1, <1>2

---------------------------------------------------------------------------
(* last_seq rises to what has been recorded, and to no more.                 *)
LEMMA SeenPlaces ==
    ASSUME StreamAssumption, PlaceInv, NEW rows \in SUBSET (0..MaxSeq), Seen(rows), mirror'.last \in Int,
           mirror.last \in Int, mirror.last <= mirror'.last, \A s \in rows : s <= mirror'.last
    PROVE  agentRow' \in [listed : BOOLEAN, lastSeq : 0..MaxSeq] /\ agentRow'.lastSeq <= mirror'.last
<1> DEFINE all == rows \cup {agentRow.lastSeq}
           last == Top(all)
<1>1. /\ agentRow \in [listed : BOOLEAN, lastSeq : 0..MaxSeq] /\ agentRow.lastSeq <= mirror.last
      /\ all \in SUBSET (0..MaxSeq) /\ all # {}
  BY DEF PlaceInv
<1>2. last \in all
  <2> HIDE DEF all
  <2> QED BY <1>1, TopHighest
<1>3. agentRow' = IF agentRow.listed THEN [agentRow EXCEPT !.lastSeq = last] ELSE agentRow
  BY DEF Seen
<1>4. last \in 0..MaxSeq /\ last <= mirror'.last
  <2>1. CASE last \in rows
    BY <2>1
  <2>2. CASE last = agentRow.lastSeq
    BY <1>1, <2>2
  <2> QED BY <1>2, <2>1, <2>2
<1>5. agentRow.lastSeq <= mirror'.last
  BY <1>1
<1> HIDE DEF last
<1> QED BY <1>1, <1>3, <1>4, <1>5

(* A step that records nothing, and after which the row, the page and the    *)
(* stream are where they were, or at 0, or where one of the others was.      *)
LEMMA PlacesKept ==
    ASSUME StreamAssumption, StreamInv, PlaceInv, mirror'.last = mirror.last,
           agentRow' \in {agentRow, NewRow, NoRow},
           page'.known \in {page.known, 0, agentRow.lastSeq},
           stream'.from \in {stream.from, 0, page.known}
    PROVE  PlaceInv'
<1>1. mirror.last \in 0..MaxSeq /\ 0 \in 0..MaxSeq
  BY DEF StreamInv, MirrorInv, Box, StreamAssumption
<1>2. agentRow' \in [listed : BOOLEAN, lastSeq : 0..MaxSeq] /\ agentRow'.lastSeq \in {agentRow.lastSeq, 0}
  <2>1. CASE agentRow' = agentRow
    BY <2>1 DEF PlaceInv
  <2>2. CASE agentRow' = NewRow
    BY <1>1, <2>2 DEF NewRow
  <2>3. CASE agentRow' = NoRow
    BY <1>1, <2>3 DEF NoRow
  <2> QED BY <2>1, <2>2, <2>3
<1> QED BY <1>1, <1>2 DEF PlaceInv

(* A step that records rows and raises last_seq to them.                     *)
LEMMA PlacesRise ==
    ASSUME StreamAssumption, StreamInv, PlaceInv, Box(mirror'), NEW rows \in SUBSET (0..MaxSeq), Seen(rows),
           mirror.last <= mirror'.last, \A s \in rows : s <= mirror'.last,
           page'.known = page.known, stream'.from = stream.from
    PROVE  PlaceInv'
<1>1. mirror.last \in Int /\ mirror'.last \in Int /\ page.known \in Int /\ stream.from \in Int
  BY DEF StreamInv, StreamRecords, MirrorInv, Box
<1>2. agentRow' \in [listed : BOOLEAN, lastSeq : 0..MaxSeq] /\ agentRow'.lastSeq <= mirror'.last
  BY <1>1, SeenPlaces
<1> QED BY <1>1, <1>2 DEF PlaceInv

LEMMA PlaceStep ==
    ASSUME StreamAssumption, StreamInv, PlaceInv, [StreamNext]_streamVars PROVE PlaceInv'
<1>1. /\ Box(mirror) /\ Keeps(mirror, stream.brought) /\ stream.brought \subseteq Int
      /\ outbox.rows \subseteq 0..MaxSeq /\ load.rows \subseteq 0..MaxSeq
      /\ page \in [shown : SUBSET (0..MaxSeq), known : 0..MaxSeq]
  BY WireTypes DEF StreamInv, StreamRecords, OutboxInv, MirrorInv, Box
<1>2. CASE UNCHANGED streamVars
  BY <1>2, PlacesKept DEF streamVars
<1>3. CASE \E p \in BOOLEAN : Publish(p)
  <2>1. PICK p \in BOOLEAN : Publish(p)
    BY <1>3
  <2>2. /\ mirror' = mirror /\ agentRow' = agentRow /\ page' = page
        /\ stream' = IF stream.open THEN [stream EXCEPT !.wire = Append(@, IF p THEN outbox.last + 1 ELSE 0)] ELSE stream
    BY <2>1 DEF Publish
  <2>3. stream'.from = stream.from
    <3>1. DOMAIN stream = {"open", "from", "skipped", "brought", "wire"}
      BY DEF StreamInv, StreamRecords
    <3> QED BY <2>2, <3>1
  <2> QED BY <2>2, <2>3, PlacesKept
<1>4. CASE WorkerRestarts
  <2>1. mirror' = mirror /\ page' = page /\ agentRow' \in {agentRow, NoRow} /\ stream'.from = 0
    BY <1>4 DEF WorkerRestarts, Closed
  <2> QED BY <2>1, PlacesKept
<1>5. CASE ControlRestarts
  <2>1. /\ mirror' = [mirror EXCEPT !.since = 0, !.restarts = @ + 1] /\ page' = page
        /\ agentRow' \in {agentRow, NoRow} /\ stream'.from = 0
    BY <1>5 DEF ControlRestarts, Closed
  <2>2. mirror'.last = mirror.last
    BY <1>1, <2>1 DEF Box
  <2> QED BY <2>1, <2>2, PlacesKept
<1>6. CASE Register \/ Unregister
  BY <1>6, PlacesKept DEF Register, Unregister
<1>7. CASE WorkerLists
  BY <1>7, PlacesKept DEF WorkerLists
<1>8. CASE Forward
  <2> DEFINE seq == Head(stream.wire)
  <2>1. /\ stream.wire # <<>> /\ mirror' = Recorded(mirror, seq) /\ Seen({seq})
        /\ page' = [page EXCEPT !.shown = @ \cup {seq}]
        /\ stream' = [stream EXCEPT !.wire = Tail(@), !.brought = @ \cup {seq}]
    BY <1>8 DEF Forward
  <2>2. seq \in 0..MaxSeq
    <3>1. stream.wire \in Seq(0..MaxSeq)
      BY WireTypes
    <3>2. Len(stream.wire) >= 1 /\ seq = stream.wire[1] /\ Len(stream.wire) \in Nat
      BY <2>1, <3>1, FirstGoes
    <3>3. 1 \in 1..Len(stream.wire)
      BY <3>2
    <3> QED BY <3>2, <3>3, WireTypes
  <2> HIDE DEF seq
  <2>3. Box(mirror') /\ mirror'.last = LastSeq(mirror, seq)
    BY <1>1, <2>1, <2>2, RecordedKeeps
  <2>4. mirror.last <= mirror'.last /\ \A s \in {seq} : s <= mirror'.last
    BY <1>1, <2>2, <2>3 DEF LastSeq, Box
  <2>5. page'.known = page.known
    BY <1>1, <2>1
  <2>6. stream'.from = stream.from
    <3>1. DOMAIN stream = {"open", "from", "skipped", "brought", "wire"}
      BY DEF StreamInv, StreamRecords
    <3> QED BY <2>1, <3>1
  <2>7. {seq} \in SUBSET (0..MaxSeq)
    BY <2>2
  <2> QED BY <2>1, <2>3, <2>4, <2>5, <2>6, <2>7, PlacesRise
<1>9. CASE ControlLists
  <2>1. /\ mirror' = Mirrored(mirror, load.rows) /\ Seen(load.rows)
        /\ page' = page /\ stream' = stream
    BY <1>9 DEF ControlLists
  <2>2. Box(mirror') /\ mirror.last <= mirror'.last /\ \A s \in load.rows : s <= mirror'.last
    BY <1>1, <2>1, MirroredKeeps
  <2> QED BY <1>1, <2>1, <2>2, PlacesRise
<1>10. CASE \E before \in 0..MaxSeq : SyncAfterSend(before)
  <2>1. PICK before \in 0..MaxSeq : SyncAfterSend(before)
    BY <1>10
  <2> DEFINE rows == After(outbox.rows, before)
  <2>2. /\ mirror' = Mirrored(mirror, rows) /\ Seen(rows) /\ page' = page /\ stream' = stream
    BY <2>1 DEF SyncAfterSend
  <2>3. rows \in SUBSET (0..MaxSeq)
    BY <1>1 DEF After
  <2> HIDE DEF rows
  <2>4. Box(mirror') /\ mirror.last <= mirror'.last /\ \A s \in rows : s <= mirror'.last
    BY <1>1, <2>2, <2>3, MirroredKeeps
  <2> QED BY <2>2, <2>3, <2>4, PlacesRise
<1>11. CASE Refresh
  <2>1. mirror' = mirror /\ agentRow' = agentRow /\ stream'.from = 0
    BY <1>11 DEF Refresh, Closed
  <2>2. PICK known \in {0, agentRow.lastSeq} : page' = [page EXCEPT !.known = known]
    BY <1>11 DEF Refresh
  <2>3. page'.known = known
    BY <1>1, <2>2
  <2> QED BY <2>1, <2>2, <2>3, PlacesKept
<1>12. CASE OpenStream
  <2>1. mirror' = mirror /\ agentRow' = agentRow /\ page' = page /\ stream'.from = page.known
    BY <1>12 DEF OpenStream
  <2> QED BY <2>1, PlacesKept
<1>13. CASE Loaded \/ LoadFails
  <2>1. mirror' = mirror /\ agentRow' = agentRow /\ stream' = stream /\ page'.known = page.known
    BY <1>1, <1>13 DEF Loaded, LoadFails
  <2> QED BY <2>1, PlacesKept
<1> QED
  BY <1>2, <1>3, <1>4, <1>5, <1>6, <1>7, <1>8, <1>9, <1>10, <1>11, <1>12, <1>13 DEF StreamNext

LEMMA StreamTypes == ASSUME StreamAssumption, StreamInv, PlaceInv PROVE StreamTypeOK
<1>1. outbox.rows \subseteq Seqs
  BY DEF StreamInv, OutboxInv, Box, Seqs, StreamAssumption
<1> QED BY <1>1 DEF StreamInv, StreamRecords, OutboxInv, MirrorInv, Box, PlaceInv, StreamTypeOK

LEMMA StreamTells == ASSUME StreamAssumption, StreamInv, PlaceInv PROVE StreamKept
<1>1. StreamComplete
  <2>1. ASSUME stream.open PROVE WireInv
    BY <2>1 DEF StreamInv
  <2>2. Sent = ToSet(stream.wire) /\ DOMAIN stream.wire = 1..Len(stream.wire)
    BY WireTypes DEF Sent
  <2>3. \A s \in stream.brought \ {0} : s \in mirror.rows \/ s <= mirror.last - TailRows
    BY DEF StreamInv, MirrorInv, Keeps
  <2>4. \A position \in {agentRow.lastSeq, page.known, stream.from} : position <= mirror.last
    BY DEF PlaceInv
  <2> QED BY <2>1, <2>2, <2>3, <2>4 DEF StreamComplete, WireInv
<1>2. ASSUME NEW m, Box(m)
      PROVE  /\ Cardinality(m.rows) <= TailRows + PruneEvery * (m.restarts + 1)
             /\ TailRows > 0 => Top(m.rows) = m.last
  <2>1. /\ m.rows \subseteq 0..MaxSeq /\ m.since \in Nat /\ m.restarts \in Nat /\ m.since < PruneEvery
        /\ Cardinality(m.rows \ {0}) <= TailRows + m.since + PruneEvery * m.restarts
    BY <1>2 DEF Box
  <2>2. TailRows \in Nat /\ PruneEvery \in Nat /\ IsFiniteSet(0..MaxSeq)
    <3>1. TailRows \in Nat /\ PruneEvery \in Nat /\ MaxSeq \in Nat
      BY DEF StreamAssumption
    <3> QED BY <3>1, FS_Interval
  <2>3. PruneEvery * m.restarts \in Nat /\ PruneEvery * (m.restarts + 1) = PruneEvery * m.restarts + PruneEvery
    BY <2>1, <2>2, OneMore
  <2> DEFINE old == m.rows \ {0}
  <2>4. IsFiniteSet(old) /\ IsFiniteSet(m.rows)
    BY <2>1, <2>2, FS_Subset
  <2>5. /\ IsFiniteSet(old \cup {0})
        /\ Cardinality(old \cup {0}) = IF 0 \in old THEN Cardinality(old) ELSE Cardinality(old) + 1
    <3> HIDE DEF old
    <3> QED BY <2>4, FS_AddElement
  <2>6. Cardinality(old) \in Nat /\ Cardinality(m.rows) \in Nat
    <3> HIDE DEF old
    <3> QED BY <2>4, FS_CardinalityType
  <2>7. Cardinality(m.rows) <= Cardinality(old \cup {0})
    <3>1. m.rows \subseteq old \cup {0}
      OBVIOUS
    <3> HIDE DEF old
    <3> QED BY <2>5, <3>1, FS_Subset
  <2>8. Cardinality(old \cup {0}) = Cardinality(old) + 1
    BY <2>5
  <2> DEFINE a == PruneEvery * m.restarts
             b == PruneEvery * (m.restarts + 1)
             c == Cardinality(old)
             d == Cardinality(m.rows)
  <2>9. a \in Nat /\ b = a + PruneEvery /\ c \in Nat /\ d \in Nat /\ c <= TailRows + m.since + a /\ d <= c + 1
    BY <2>1, <2>3, <2>6, <2>7, <2>8
  <2> HIDE DEF a, b, c, d
  <2>10. d <= TailRows + b
    BY <2>1, <2>2, <2>9
  <2> QED BY <1>2, <2>10, BoxTop DEF b, d
<1>3. ReplayBounded
  <2>1. Box(outbox) /\ Box(mirror)
    BY DEF StreamInv, OutboxInv, MirrorInv
  <2>2. \A s \in 1..outbox.last : s > outbox.last - TailRows => s \in outbox.rows
    BY DEF StreamInv, OutboxInv
  <2> QED BY <1>2, <2>1, <2>2 DEF ReplayBounded
<1> QED BY <1>1, <1>3 DEF StreamKept

(* Type correctness of the outbox, the mirror, the stream and the page.      *)
THEOREM StreamTypeCorrect == StreamAssumption => (StreamSpec => []StreamTypeOK)
<1> SUFFICES ASSUME StreamAssumption PROVE StreamSpec => []StreamTypeOK
  OBVIOUS
<1>1. StreamInit => StreamInv /\ PlaceInv
  BY StreamStarts
<1>2. StreamInv /\ PlaceInv /\ [StreamNext]_streamVars => StreamInv' /\ PlaceInv'
  BY StreamStep, PlaceStep
<1>3. StreamInv /\ PlaceInv => StreamTypeOK
  BY StreamTypes
<1> QED BY <1>1, <1>2, <1>3, PTL DEF StreamSpec

(* server.ts, control/server.ts, outbox.ts: an open stream misses nothing    *)
(* that its replay could carry, in order, and what it brought is mirrored;   *)
(* a stream begins no later than what was recorded, however often the row    *)
(* of the agent is removed and made anew; and both tables keep the newest    *)
(* rows and stay small, however often they are restarted.                    *)
THEOREM StreamAlwaysKept == StreamAssumption => (StreamSpec => []StreamKept)
<1> SUFFICES ASSUME StreamAssumption PROVE StreamSpec => []StreamKept
  OBVIOUS
<1>1. StreamInit => StreamInv /\ PlaceInv
  BY StreamStarts
<1>2. StreamInv /\ PlaceInv /\ [StreamNext]_streamVars => StreamInv' /\ PlaceInv'
  BY StreamStep, PlaceStep
<1>3. StreamInv /\ PlaceInv => StreamKept
  BY StreamTells
<1> QED BY <1>1, <1>2, <1>3, PTL DEF StreamSpec
=============================================================================
