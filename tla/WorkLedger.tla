------------------------------ MODULE WorkLedger ------------------------------
(***************************************************************************)
(* The work ledger (niri-runtime/work-ledger.ts): items that the agent     *)
(* creates, changes and closes, by its tool and from Python cells, and the *)
(* text about them that a wake puts into the conversation                  *)
(* (runner/index.ts).  The table outlives restarts, the text does not      *)
(* follow it.                                                              *)
(***************************************************************************)
EXTENDS Naturals, FiniteSets, FiniteSetsExt, Sequences, SequencesExt

CONSTANTS
    Items,      \* the ids of work items, in their order
    WakeItems,  \* items that the text of a wake shows at most (8)
    MaxTime     \* bound: changes of items

WorkAssumption == Items \subseteq Nat /\ WakeItems \in Nat \ {0} /\ MaxTime \in Nat

VARIABLES
    work,       \* the row of each item
    tick,       \* the clock, one step for each change or standing still
    waking      \* of the text of a wake, until an item changes: its lines and whether
                \* it says that there are more

workVars == <<work, tick, waking>>

NoItem == [status |-> "none"]
Current(i) == work[i].status \in {"active", "paused"}
NoText == [lines |-> <<>>, more |-> FALSE]

WorkInit == /\ work = [i \in Items |-> NoItem] /\ tick = 1
            /\ waking = NoText

(* Two changes may bear the same time.                                      *)
Clock == tick <= MaxTime /\ tick' \in {tick, tick + 1}

CreateWorkItem ==
    /\ Clock
    /\ \E i \in Items : /\ work[i] = NoItem
                        /\ work' = [work EXCEPT ![i] = [status |-> "active", updated |-> tick, closed |-> 0]]
    /\ waking' = NoText

(* Both updates ask for a status that is not closed; else the call fails.   *)
Open(i) == Current(i)
Open_Any(i) == work[i] # NoItem
UpdateWorkItem ==
    /\ Clock
    /\ \E i \in {j \in Items : Open(j)}, status \in {"active", "paused"} :
          work' = [work EXCEPT ![i].status = status, ![i].updated = tick]
    /\ waking' = NoText
CloseWorkItem ==
    /\ Clock
    /\ \E i \in {j \in Items : Open(j)}, status \in {"completed", "cancelled"} :
          work' = [work EXCEPT ![i] = [status |-> status, updated |-> tick, closed |-> tick]]
    /\ waking' = NoText

-----------------------------------------------------------------------------
(* formatCurrentWorkForWake: active items before paused ones, then the last *)
(* one changed, then the higher id; one row more than are shown is read.    *)
Sorts(i, j) ==
    IF work[i].status # work[j].status THEN work[i].status = "active"
    ELSE IF work[i].updated # work[j].updated THEN work[i].updated > work[j].updated
    ELSE i > j
CurrentWork == SetToSortSeq({i \in Items : Current(i)}, Sorts)
ReadRows == SubSeq(CurrentWork, 1, Min({WakeItems + 1, Len(CurrentWork)}))
ReadRows_Eight == SubSeq(CurrentWork, 1, Min({WakeItems, Len(CurrentWork)}))

(* Titles and notes are cut, and still n lines may be all that 2000 letters *)
(* hold.  The text is made where the wake begins; it is none without items. *)
Wake ==
    /\ \E n \in 1..WakeItems :
          LET shown == Min({n, WakeItems, Len(ReadRows)})
          IN  waking' = IF ReadRows = <<>> THEN NoText
                        ELSE [lines |-> SubSeq(ReadRows, 1, shown), more |-> Len(ReadRows) > WakeItems \/ shown < Len(ReadRows)]
    /\ UNCHANGED <<work, tick>>

WorkNext == CreateWorkItem \/ UpdateWorkItem \/ CloseWorkItem \/ Wake

-----------------------------------------------------------------------------
WorkTypeOK == /\ tick \in 1..MaxTime + 1 /\ waking.more \in BOOLEAN
              /\ \A i \in Items : work[i].status \in {"none", "active", "paused", "completed", "cancelled"}

(* What is closed stays as it was when it was closed (work-ledger.ts).      *)
ClosedForGood ==
    \A i \in Items : work[i].status # "none" =>
        IF Current(i) THEN work[i].closed = 0
        ELSE work[i].closed > 0 /\ work[i].updated = work[i].closed

(* A wake is told of every current item or that there are more, once each,  *)
(* of no closed one, and of a paused one only if it is told of every active *)
(* one (work-ledger.ts).                                                    *)
WakeTellsWork ==
    LET told == ToSet(waking.lines)
        current == {i \in Items : Current(i)}
    IN  waking # NoText =>
        /\ IsInjective(waking.lines) /\ told \subseteq current
        /\ told = current \/ waking.more
        /\ waking.more => told # current
        /\ (\E i \in told : work[i].status = "paused")
              => \A i \in current : work[i].status = "active" => i \in told

WorkKept == ClosedForGood /\ WakeTellsWork
===============================================================================
