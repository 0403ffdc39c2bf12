------------------------------- MODULE Metrics -------------------------------
(***************************************************************************)
(* What the worker measures, and the pages in which it is read             *)
(* (niri-runtime/metrics.ts, the routes /metrics of server.ts).  Rows are  *)
(* added at any time and pruned by age; a reader asks for one bucket page  *)
(* by page, each time with the cursor of the page before.  The bucket      *)
(* "discord" shows the messages of niri.db, which come in any order and    *)
(* several at one time; its cursor is a time.                              *)
(***************************************************************************)
EXTENDS Naturals, FiniteSets, FiniteSetsExt, Sequences, SequencesExt

CONSTANTS
    Types,      \* the types of metric rows, each with its bucket
    Limit,      \* rows of a page
    Retention,  \* days that a row is kept
    MaxRows,    \* bound: rows ever recorded, and messages ever stored
    MaxTime     \* bound: days

MetricsAssumption == Limit \in Nat \ {0} /\ Retention \in Nat /\ MaxRows \in Nat /\ MaxTime \in Nat
                     /\ "discord" \notin Types

VARIABLES
    rows,       \* metrics: [id, type, createdAt]
    lastRow,    \* the autoincrement
    messages,   \* discord_messages: [id, createdAt]
    today,      \* the clock
    reading     \* a reader that follows the cursors of a bucket

metricsVars == <<rows, lastRow, messages, today, reading>>

NotReading == [bucket |-> "none"]

MetricsInit == /\ rows = {} /\ lastRow = 0 /\ messages = {} /\ today = 1
               /\ reading = NotReading

(* recordMetric; when the insert fails nothing is recorded or published.    *)
RecordMetric == /\ lastRow + Cardinality(messages) < MaxRows
                /\ \E type \in Types :
                      rows' = rows \cup {[id |-> lastRow + 1, type |-> type, createdAt |-> today]}
                /\ lastRow' = lastRow + 1
                /\ UNCHANGED <<messages, today, reading>>

(* A message is stored with the time it was written, by a backfill late.    *)
StoreMessage == /\ lastRow + Cardinality(messages) < MaxRows
                /\ \E at \in 1..today :
                      messages' = messages \cup {[id |-> Cardinality(messages) + 1, createdAt |-> at]}
                /\ UNCHANGED <<rows, lastRow, today, reading>>

Day == /\ today < MaxTime /\ today' = today + 1
       /\ UNCHANGED <<rows, lastRow, messages, reading>>

(* pruneOldMetrics, every hour and at boot                                  *)
Kept(row) == row.createdAt + Retention >= today
PruneOldMetrics == /\ rows' = {row \in rows : Kept(row)}
                   /\ UNCHANGED <<lastRow, messages, today, reading>>

-----------------------------------------------------------------------------
(* getMetrics: the first rows after the cursor (0 when there is none), and  *)
(* where the next page goes on if there are more.                           *)
Metric(bucket) == bucket \in Types
Rows(bucket) == IF Metric(bucket) THEN {row \in rows : row.type = bucket} ELSE messages
Rank(bucket, row) == IF Metric(bucket) THEN row.id ELSE row.createdAt
After(bucket, cursor) == {row \in Rows(bucket) : cursor > 0 => Rank(bucket, row) < cursor}
After_OrAt(bucket, cursor) == {row \in Rows(bucket) : cursor > 0 => Rank(bucket, row) <= cursor}

(* limit rows in descending order; rows of one time come in any order.      *)
PagesOf(bucket, cursor) ==
    LET left == After(bucket, cursor)
    IN  {page \in kSubset(Min({Limit, Cardinality(left)}), left) :
            \A shown \in page, other \in left \ page : Rank(bucket, other) <= Rank(bucket, shown)}
NextCursor(bucket, cursor, page) ==
    IF Cardinality(After(bucket, cursor)) > Limit THEN Min({Rank(bucket, row) : row \in page}) ELSE 0

Page(bucket, cursor, shown, edges, began) ==
    \E page \in PagesOf(bucket, cursor) :
      LET next == NextCursor(bucket, cursor, page)
      IN  reading' = [bucket |-> bucket, next |-> next, began |-> began, edges |-> edges \cup {next},
                      shown |-> shown \o SetToSortSeq(page, LAMBDA a, b : Rank(bucket, a) > Rank(bucket, b))]
FirstPage == /\ reading = NotReading
             /\ \E bucket \in Types \cup {"discord"} : Page(bucket, 0, <<>>, {}, Rows(bucket))
             /\ UNCHANGED <<rows, lastRow, messages, today>>
NextPage == /\ reading # NotReading /\ reading.next > 0
            /\ Page(reading.bucket, reading.next, reading.shown, reading.edges, reading.began)
            /\ UNCHANGED <<rows, lastRow, messages, today>>
StopReading == /\ reading # NotReading /\ reading' = NotReading
               /\ UNCHANGED <<rows, lastRow, messages, today>>

MetricsNext == \/ RecordMetric \/ StoreMessage \/ Day \/ PruneOldMetrics
               \/ FirstPage \/ NextPage \/ StopReading

-----------------------------------------------------------------------------
MetricsTypeOK ==
    /\ \A row \in rows : row.id \in 1..lastRow /\ row.type \in Types /\ row.createdAt \in 1..today
    /\ \A m \in messages : m.createdAt \in 1..today
    /\ reading.bucket \in Types \cup {"none", "discord"}

(* Following the cursor of each page (metrics.ts) shows every row that was  *)
(* there at the first page and has not been pruned, newest first and none   *)
(* twice, whatever is recorded, pruned or backfilled between the pages.     *)
(* Only messages of the very time at which a page ended may be left out.    *)
PagesShowAll ==
    reading # NotReading =>
      LET bucket == reading.bucket
          shown == reading.shown
          passed == {row \in reading.began \cap Rows(bucket) : Rank(bucket, row) >= reading.next}
      IN  /\ \A i, j \in DOMAIN shown : i < j => /\ shown[i] # shown[j]
                                                 /\ Rank(bucket, shown[i]) >= Rank(bucket, shown[j])
          /\ \A row \in passed : \/ row \in ToSet(shown)
                                 \/ ~Metric(bucket) /\ row.createdAt \in reading.edges
==============================================================================
