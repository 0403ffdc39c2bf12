------------------------------ MODULE Transcript ------------------------------
(***************************************************************************)
(* The conversation sent to the model: tool calls of an assistant message,  *)
(* the results written for them (also when a call fails, is interrupted or  *)
(* shows an image), the repair before every request, the cut a compaction   *)
(* makes, session.json, and the conversion to the Anthropic format.         *)
(***************************************************************************)
EXTENDS Naturals, SequencesExt

CONSTANTS MaxTurns, MaxCalls, MaxRestarts,  \* bounds of the instance
          MinKeep                           \* what a compaction keeps at least

TranscriptAssumption ==
    MaxTurns \in Nat /\ MaxCalls \in Nat /\ MaxRestarts \in Nat /\ MinKeep \in Nat

VARIABLES conv,     \* state.conversation, without its system messages
          stored,   \* session.json
          calls,    \* the calls of the last assistant message still to run
          phase,    \* where the loop is
          turn,     \* assistant messages so far
          request,  \* the messages of the request under way
          lives,    \* starts of the process that resumed a session
          unwritten \* the calls so far, with their turns, that have no result
                    \* of their own: lost with a process, or never written
vars == <<conv, stored, calls, phase, turn, request, lives, unwritten>>

(* A message remembers the turn it stems from; a result that the repair    *)
(* invented stems from none.                                               *)
Msg(role, uses, id, by) == [role |-> role, uses |-> uses, id |-> id, by |-> by]
NoId == <<0, 0>>
User == Msg("user", << >>, NoId, 0)
Assistant(t, ids) == Msg("assistant", ids, NoId, t)
Result(id, t) == Msg("tool", << >>, id, t)

(* Ids of the calls in a streamed message: the provider's own, or, when it *)
(* gives none or the calls are found in the reasoning, their index, which  *)
(* every turn uses again.                                                  *)
Ids(t, n, naming) == [k \in 1 .. n |-> <<IF naming = "given" THEN t ELSE 0, k>>]

Init == /\ conv = <<User>> /\ stored = << >> /\ calls = << >> /\ phase = "ready"
        /\ turn = 0 /\ request = << >> /\ lives = 0 /\ unwritten = {}

---------------------------------------------------------------------------
(* sanitizeMessages.  Of an assistant message that has calls, results in   *)
(* their place stay there; those further down are moved up, those that are *)
(* not there at all are invented.                                          *)
InPlace(m, i) == LET fits(n) == /\ \A k \in i + 1 .. i + n : m[k].role = "tool" /\ m[k].id \in ToSet(m[i].uses)
                                /\ \A k, l \in i + 1 .. i + n : k # l => m[k].id # m[l].id
                 IN Max({n \in 0 .. Len(m) - i : fits(n)})

(* As if a message with one result in its place had them all.              *)
Missing_NoneLeft(uses, here) == IF here # {} THEN << >> ELSE uses
Missing(uses, here) == SelectSeq(uses, LAMBDA id : id \notin here)
Repaired(m, i) ==
    LET last    == i + InPlace(m, i)
        here    == {m[k].id : k \in i + 1 .. last}
        missing == Missing(m[i].uses, here)
        after   == last + 1 .. Len(m)
        sites(id) == {k \in after : m[k].role = "tool" /\ m[k].id = id}
        moved   == {Min(sites(id)) : id \in {x \in ToSet(missing) : sites(x) # {}}}
        found   == [k \in DOMAIN missing |-> IF sites(missing[k]) = {} THEN Result(missing[k], 0)
                                             ELSE m[Min(sites(missing[k]))]]
        others  == SelectSeq([k \in 1 .. Len(m) |-> k], LAMBDA k : k \in after \ moved)
    IN SubSeq(m, 1, last) \o found \o [k \in DOMAIN others |-> m[others[k]]]
Site(m, n) == CHOOSE i \in DOMAIN m : /\ m[i].role = "assistant"
                                      /\ Cardinality({k \in 1 .. i : m[k].role = "assistant"}) = n
Sanitized(m) == LET turns == Len(SelectSeq(m, LAMBDA x : x.role = "assistant"))
                IN FoldLeft(LAMBDA acc, n : Repaired(acc, Site(acc, n)), m, [n \in 1 .. turns |-> n])

(* toAnthropicMessages: results are content of the user, and neighbours of *)
(* one role become one message.                                            *)
Role(x) == IF x.role = "assistant" THEN "assistant" ELSE "user"
Anthropic(m) ==
    FoldLeft(LAMBDA acc, x : IF acc # << >> /\ Last(acc).role = Role(x)
                             THEN [acc EXCEPT ![Len(acc)].content = Append(@, x)]
                             ELSE Append(acc, [role |-> Role(x), content |-> <<x>>]), << >>, m)

---------------------------------------------------------------------------
(* A compaction turns everything before the tail into a summary.  A tail   *)
(* that would begin with results begins before them.                       *)
TailStart(m, start) == Max({k \in 1 .. start : k = 1 \/ m[k].role # "tool"})
Tails(m) == {SubSeq(m, TailStart(m, start), Len(m)) : start \in 1 .. (Len(m) + 1) - MinKeep}
Compacted(m) == {m} \cup Tails(m)

(* A turn begins with a compaction, if one is due.  What is sent, repaired,*)
(* becomes the session's conversation.                                     *)
Ask == /\ phase = "ready" /\ phase' = "asked"
       /\ \E m \in Compacted(conv) :
             /\ conv' = Sanitized(m) /\ request' = Sanitized(m)
             /\ stored' = IF m = conv THEN stored ELSE m
       /\ UNCHANGED <<calls, turn, lives, unwritten>>
Turn(n, naming) ==
    /\ phase = "asked" /\ turn < MaxTurns /\ phase' = IF n = 0 THEN "ending" ELSE "tools"
    /\ turn' = turn + 1 /\ calls' = Ids(turn', n, naming)
    /\ conv' = Append(conv, Assistant(turn', calls'))
    /\ request' = << >>
    /\ UNCHANGED <<stored, lives, unwritten>>

(* A completion that throws ends the session; the next wake resumes it.    *)
TurnFails == /\ phase = "asked" /\ turn < MaxTurns /\ phase' = "ready" /\ turn' = turn + 1
             /\ stored' = conv /\ conv' = Append(Sanitized(conv), User)
             /\ request' = << >>
             /\ UNCHANGED <<calls, lives, unwritten>>

(* A call has its result written, by its handler or for it; image_tool     *)
(* writes a message of the user after it.  An event that came meanwhile is *)
(* injected, and the calls that are left are skipped.                      *)
Interrupted(m) == Append(m, User) \o [k \in 1 .. Len(Tail(calls)) |-> Result(Tail(calls)[k], turn)]
Proceed(m) == \/ /\ conv' = m /\ calls' = Tail(calls)
                 /\ phase' = IF Tail(calls) = << >> THEN "ending" ELSE "tools"
              \/ conv' = Interrupted(m) /\ calls' = << >> /\ phase' = "ending"
ToolReturns(image) ==
    /\ phase = "tools"
    /\ LET m == Append(conv, Result(Head(calls), turn))
       IN Proceed(IF image THEN Append(m, User) ELSE m)
    /\ UNCHANGED <<stored, turn, request, lives, unwritten>>

(* A handler that throws: its error is written unless the call is answered,*)
(* for which the result of another call with its id is taken too.          *)
HasToolResponse(id) == \E i \in DOMAIN conv : conv[i].role = "tool" /\ conv[i].id = id
ToolThrows ==
    /\ phase = "tools"
    /\ IF HasToolResponse(Head(calls))
       THEN Proceed(conv) /\ unwritten' = unwritten \cup {<<turn, Head(calls)>>}
       ELSE Proceed(Append(conv, Result(Head(calls), turn))) /\ UNCHANGED unwritten
    /\ UNCHANGED <<stored, turn, request, lives>>

(* rest ends the session at once, whatever calls are left.                 *)
Rest == /\ phase = "tools"
        /\ conv' = <<User>> /\ stored' = << >> /\ calls' = << >> /\ phase' = "ready"
        /\ unwritten' = {}
        /\ UNCHANGED <<turn, request, lives>>

(* The end of a turn: a policy may nudge, a compaction may be due, the     *)
(* session is saved, and without calls the loop waits for an event.        *)
TurnEnds == /\ phase = "ending" /\ phase' = "ready"
            /\ \E m \in {conv, Append(conv, User)} : conv' \in Compacted(m)
            /\ stored' = conv'
            /\ UNCHANGED <<calls, turn, request, lives, unwritten>>
Incoming == /\ phase = "ready" /\ Last(conv).role = "assistant"
            /\ conv' = Append(conv, User)
            /\ UNCHANGED <<stored, calls, phase, turn, request, lives, unwritten>>

(* The process ends, perhaps after shutdown() has saved what there was, and*)
(* the next one resumes what is stored.                                    *)
WithoutResult(m) ==
    UNION {{<<m[i].by, id>> : id \in {u \in ToSet(m[i].uses) : Result(u, m[i].by) \notin ToSet(m)}} :
           i \in DOMAIN m}
Resume == /\ lives < MaxRestarts /\ lives' = lives + 1
          /\ stored' \in {stored, conv}
          /\ conv' = Append(Sanitized(stored'), User)
          /\ calls' = << >> /\ phase' = "ready" /\ request' = << >>
          /\ unwritten' = unwritten \cup WithoutResult(stored')
          /\ UNCHANGED turn

Next == \/ \E n \in 0 .. MaxCalls, naming \in {"given", "indexed"} : Turn(n, naming)
        \/ Ask \/ TurnFails \/ ToolReturns(TRUE) \/ ToolReturns(FALSE) \/ ToolThrows \/ Rest
        \/ TurnEnds \/ Incoming \/ Resume
Spec == Init /\ [][Next]_vars

---------------------------------------------------------------------------
Id == (0 .. MaxTurns) \X (0 .. MaxCalls)
Message == [role : {"user", "assistant", "tool"}, uses : Seq(Id), id : Id, by : 0 .. MaxTurns]
TranscriptTypeOK ==
    /\ conv \in Seq(Message) /\ stored \in Seq(Message) /\ request \in Seq(Message)
    /\ calls \in Seq(Id) /\ phase \in {"ready", "asked", "tools", "ending"}
    /\ turn \in 0 .. MaxTurns /\ lives \in 0 .. MaxRestarts
    /\ unwritten \subseteq (1 .. MaxTurns) \X Id

(* Every call in a request is followed directly by its own result, in both *)
(* formats: results do not change places with those of a turn that used    *)
(* the same ids, whatever was interrupted, shown, cut off or resumed.  A   *)
(* result is invented for a call only if its own was never written, or was *)
(* not in session.json when the process ended.                             *)
Answers(m, i) == LET n == Len(m[i].uses) IN
    /\ i + n <= Len(m)
    /\ {m[k].id : k \in i + 1 .. i + n} = ToSet(m[i].uses)
    /\ \A k \in i + 1 .. i + n :
          /\ m[k].role = "tool" /\ m[k].by \in {0, m[i].by}
          /\ m[k].by = 0 => <<m[i].by, m[k].id>> \in unwritten
UsesOf(g) == UNION {ToSet(g.content[k].uses) : k \in DOMAIN g.content}
ResultsOf(g) == {g.content[k].id : k \in {l \in DOMAIN g.content : g.content[l].role = "tool"}}
RequestsAnswerCalls ==
    /\ \A i \in DOMAIN request : request[i].role = "assistant" => Answers(request, i)
    /\ LET a == Anthropic(request)
       IN \A i \in DOMAIN a : UsesOf(a[i]) # {} => i < Len(a) /\ UsesOf(a[i]) \subseteq ResultsOf(a[i + 1])

(* summarize.ts of the tail of a compaction: "Backs up over orphaned tool  *)
(* responses so the tail always starts at a self-contained boundary."      *)
TailSelfContained == \A i \in DOMAIN request : request[i].role = "tool" =>
    \E j \in 1 .. i - 1 : /\ request[j].role = "assistant" /\ request[i].id \in ToSet(request[j].uses)
                          /\ \A k \in j + 1 .. i : request[k].role = "tool"

(* tools.ts of executeToolCall: "Every failure path still writes a         *)
(* tool-role message".  No result has to be invented as long as the        *)
(* process lives.                                                          *)
FailuresAnswered == lives = 0 => \A i \in DOMAIN request : request[i].role = "tool" => request[i].by # 0
=============================================================================
