------------------------------ MODULE ChatView ------------------------------
(***************************************************************************)
(* What a person sees of an agent's turns: the events a turn publishes     *)
(* (agent-loop/loop.ts, tools.ts, runner/index.ts, stream.ts), the terminal*)
(* that follows them (niri-cli/ui/chat.tsx over chat-client), and the lines *)
(* the web page makes of the ones that last (apps/web/App.tsx).            *)
(*                                                                         *)
(* The agent says a reply in pieces <<reply, attempt, number>>: they are    *)
(* shown as they come, the record of the whole reply follows, and a        *)
(* terminal must show both as one.  Of what is kept and shown, only the     *)
(* agent's words and its tools matter here: people's messages, notes,      *)
(* errors and usage end a line that is being written, and leave nothing    *)
(* else.  Colours, scrolling and what /v and /t hide are left out; how     *)
(* events travel is EventStream's matter.                                  *)
(***************************************************************************)
EXTENDS Naturals, Sequences, FiniteSets, SequencesExt

CONSTANTS
    Results,     \* what tools return, as toolDedupeKey tells it apart
    Buffer,      \* BUFFER_SIZE of stream.ts
    MaxReplies,  \* bound: completions
    MaxPieces,   \* bound: pieces of text and thinking, in all
    MaxAttempts, \* bound: attempts of a completion
    MaxCalls,    \* bound: tool calls of a reply
    MaxWire      \* bound: events on their way, but for those replayed

ChatAssumption ==
    /\ Results # {} /\ Results \subseteq Nat \ {0}
    /\ {Buffer, MaxReplies, MaxPieces, MaxAttempts, MaxCalls, MaxWire} \subseteq Nat

VARIABLES
    turn,    \* the loop: where it is, the number of the reply, the attempt,
             \* what the attempt has said, whether it has just been thinking,
             \* calls that are left, pieces so far
    recent,  \* the last events of the stream, until the terminal opens
    log,     \* the replies and tools among the events that are persisted
    chat,    \* the terminal: how it is connected, events on their way, its
             \* entries, the line being written, the reply last seen whole,
             \* replies it came too late for
    poll     \* its question whether the turn is over

chatVars == <<turn, recent, log, chat, poll>>

NoLine == [kind |-> "none", text |-> <<>>]
Chunks == {"thinking", "text"}

ChatInit ==
    /\ turn = [at |-> "resting", reply |-> 0, attempt |-> 0, said |-> <<>>,
               thinking |-> FALSE, calls |-> 0, pieces |-> 0]
    /\ recent = <<>> /\ log = <<>>
    /\ chat = [by |-> "none", wire |-> <<>>, entries |-> <<>>, line |-> NoLine, streamed |-> <<>>,
               late |-> {}]
    /\ poll = "none"

-----------------------------------------------------------------------------
(* The events of a turn *)

Event(kind, text) == [kind |-> kind, text |-> text, by |-> "agent", reply |-> turn.reply]
UserEvent(who) == [Event("user", <<>>) EXCEPT !.by = who]
Record(role, text) == [Event("message", text) EXCEPT !.by = role]
Result(r) == <<<<0, 0, r>>>>

Streamed(events) == SelectSeq(events, LAMBDA e : e.kind # "message")
Lasting(events) == SelectSeq(events, LAMBDA e : e.kind \in {"message", "tool"})
LastOf(s, n) == SubSeq(s, (IF Len(s) > n THEN Len(s) - n ELSE 0) + 1, Len(s))

(* emit, logMessage, publishWorkerEvent; chunks are not persisted.  A       *)
(* terminal at the worker's own port is sent the stream alone.              *)
Published(events) ==
    /\ Len(chat.wire) < MaxWire
    /\ recent' = IF chat.by = "none" THEN LastOf(recent \o Streamed(events), Buffer) ELSE <<>>
    /\ log' = log \o Lasting(events)
    /\ chat' = [chat EXCEPT !.wire = CASE chat.by = "agent" -> @ \o events
                                       [] chat.by = "direct" -> @ \o Streamed(events)
                                       [] OTHER -> @]
    /\ UNCHANGED poll

(* One more completion. *)
Completing == [turn EXCEPT !.at = "writing", !.reply = @ + 1, !.attempt = 1, !.said = <<>>,
                           !.thinking = FALSE, !.calls = 0]

(* wake, injectIncomingEvent: a message submitted here, which is on the     *)
(* screen already, or of another client; calls left are skipped for it.     *)
SkippedCalls ==
    FlattenSeq([i \in 1..turn.calls |->
        <<Record("tool", Result(0)), Event("tool", Result(0))>>])

Hears(who) ==
    /\ turn.at \in {"resting", "idle", "calling"} /\ turn.reply < MaxReplies
    /\ turn' = Completing
    /\ Published(<<UserEvent(who)>> \o SkippedCalls)

(* streamSink. *)
Thinks ==
    /\ turn.at = "writing" /\ ~turn.thinking /\ turn.pieces < MaxPieces
    /\ turn' = [turn EXCEPT !.thinking = TRUE, !.pieces = @ + 1]
    /\ Published(<<Event("thinking", <<>>)>>)

Writes ==
    /\ turn.at = "writing" /\ turn.pieces < MaxPieces
    /\ LET piece == <<turn.reply, turn.attempt, Len(turn.said) + 1>>
       IN  /\ turn' = [turn EXCEPT !.said = Append(@, piece), !.thinking = FALSE,
                                 !.pieces = @ + 1]
           /\ Published(<<Event("text", <<piece>>)>>)

(* An attempt that fails has said what it said; one that said nothing       *)
(* leaves nothing behind.                                                   *)
Retries ==
    /\ turn.at = "writing" /\ turn.attempt < MaxAttempts /\ turn.said # <<>>
    /\ turn' = [turn EXCEPT !.attempt = @ + 1, !.said = <<>>]
    /\ UNCHANGED <<recent, log, chat, poll>>

(* runCompletion, processAssistantTurn: the usage, if the provider tells it,*)
(* the record, and what the reply asks for.  The text of a reply has always *)
(* been emitted.  (The record says for the properties whether usage went    *)
(* before it.)                                                              *)
Completes(usage, calls) ==
    /\ turn.at = "writing"
    /\ turn' = [turn EXCEPT !.at = IF calls > 0 THEN "calling" ELSE "idle", !.calls = calls]
    /\ Published((IF usage THEN <<Event("usage", <<>>)>> ELSE <<>>)
                 \o <<Record(IF usage THEN "assistant" ELSE "unmetered", turn.said)>>)

(* processToolCalls, recordToolResult; a tool that emits no event leaves    *)
(* the record alone.                                                        *)
Called(result, emits) ==
    /\ turn.at = "calling" /\ turn.calls > 0
    /\ turn' = [turn EXCEPT !.calls = @ - 1]
    /\ Published(<<Record("tool", Result(result))>>
                 \o IF emits THEN <<Event("tool", Result(result))>> ELSE <<>>)

Continues ==
    /\ turn.at = "calling" /\ turn.calls = 0 /\ turn.reply < MaxReplies
    /\ turn' = Completing
    /\ UNCHANGED <<recent, log, chat, poll>>

(* waitForImplicitContinuation. *)
WaitEnds ==
    /\ turn.at = "idle" /\ turn.reply < MaxReplies
    /\ turn' = Completing
    /\ Published(<<Event("text", <<<<turn.reply + 1, 0, 0>>>>)>>)

(* rest; an error that ends wake. *)
Rests ==
    /\ turn.at = "calling" /\ turn.calls = 0
    /\ turn' = [turn EXCEPT !.at = "resting"]
    /\ UNCHANGED <<recent, log, chat, poll>>

Aborts ==
    /\ turn.at = "writing"
    /\ turn' = [turn EXCEPT !.at = "resting"]
    /\ Published(<<Event("error", <<>>)>>)

-----------------------------------------------------------------------------
(* The terminal *)

Entry(kind, text) == [kind |-> kind, text |-> text]
Push(c, kind, text) == [c EXCEPT !.entries = Append(@, Entry(kind, text))]

(* settle, as if what was watched were forgotten. *)
Settle_Forgets(c) ==
    IF c.line.kind = "text" THEN [Push(c, "assistant", c.line.text) EXCEPT !.line = NoLine]
    ELSE [c EXCEPT !.line = NoLine]

Settle(c) ==
    IF c.line.kind = "text"
    THEN [Push(c, "assistant", c.line.text) EXCEPT !.line = NoLine, !.streamed = c.line.text]
    ELSE [c EXCEPT !.line = NoLine]

(* append. *)
AppendChunk(c, kind, text) ==
    IF c.line.kind = kind THEN [c EXCEPT !.line.text = @ \o text]
    ELSE [Settle(c) EXCEPT !.line = [kind |-> kind, text |-> text]]

(* As if a change of kind began a new line over the old one. *)
AppendChunk_Over(c, kind, text) ==
    IF c.line.kind = kind THEN [c EXCEPT !.line.text = @ \o text]
    ELSE [c EXCEPT !.line = [kind |-> kind, text |-> text]]

(* handle(event) of type message: nobody but the agent has news in a record. *)
Heard(c, event) ==
    IF event.by \notin {"assistant", "unmetered"} \/ event.text = <<>> THEN c
    ELSE CASE c.line.kind = "text" -> Settle(c)
           [] c.line.kind # "text" /\ event.text = c.streamed -> [c EXCEPT !.streamed = <<>>]
           [] OTHER -> Push(c, "assistant", event.text)

(* handle, toEvent, toMessage. *)
Shown(c, event) ==
    CASE event.kind \in Chunks -> AppendChunk(c, event.kind, event.text)
      [] event.kind = "message" -> Heard(c, event)
      [] event.kind = "user" /\ event.by = "own" -> c
      [] event.kind = "tool" -> Push(Settle(c), "tool", <<<<event.reply, 0, 0>>>>)
      [] OTHER -> Settle(c)

(* Opens the stream: of the agent, with its lasting events before it, or of *)
(* the worker, with its buffer.                                             *)
Opens(by) ==
    /\ chat.by = "none"
    /\ LET written(n) == UNION {ToSet(e.text) : e \in {x \in ToSet(log) : x.kind = "message"
                                  /\ x.by \in {"assistant", "unmetered"}
                                  /\ \E p \in ToSet(x.text) : p[1] = n}}
                         \cup {p \in ToSet(turn.said) : p[1] = n}
           buffered == UNION {ToSet(e.text) : e \in {x \in ToSet(recent) : x.kind = "text"}}
       IN  chat' = [chat EXCEPT !.by = by,
                       !.wire = IF by = "agent" THEN log ELSE recent,
                       !.late = IF by = "agent"
                                THEN IF turn.at = "writing" /\ turn.said # <<>> THEN {turn.reply} ELSE {}
                                ELSE {n \in 1..turn.reply : ~written(n) \subseteq buffered}]
    /\ recent' = <<>> /\ UNCHANGED <<turn, log, poll>>

(* An event arrives; a question asked about another line is dropped. *)
Receives ==
    /\ chat.wire # <<>>
    /\ LET c == Shown([chat EXCEPT !.wire = Tail(@)], Head(chat.wire))
       IN  chat' = c /\ poll' = IF c.line = chat.line THEN poll ELSE "none"
    /\ UNCHANGED <<turn, recent, log>>

(* When chunks stop: getStatus is answered, and the answer arrives. *)
Answered ==
    /\ chat.line.kind # "none" /\ poll = "none"
    /\ turn.at \in {"resting", "idle"}
    /\ poll' = "over"
    /\ UNCHANGED <<turn, recent, log, chat>>

Polled ==
    /\ poll = "over"
    /\ chat' = Settle(chat) /\ poll' = "none"
    /\ UNCHANGED <<turn, recent, log>>

-----------------------------------------------------------------------------
(* linesFromEvents, of the events that are persisted: a tool's record is    *)
(* left out where an event has the same result.                             *)
(* As if every tool sent an event. *)
Repeats_Tools(event) == event.by = "tool"

Repeats(event) == event.by = "tool" /\ \E x \in ToSet(log) : x.kind = "tool" /\ x.text = event.text

Lines == SelectSeq(log, LAMBDA e : e.text # <<>> /\ (e.kind = "message" => ~Repeats(e)))

-----------------------------------------------------------------------------
ChatNext ==
    \/ \E who \in {"own", "other"} : Hears(who)
    \/ Thinks \/ Writes \/ Retries
    \/ \E usage \in BOOLEAN, calls \in 0..MaxCalls : Completes(usage, calls)
    \/ \E result \in Results, emits \in BOOLEAN : Called(result, emits)
    \/ Continues \/ WaitEnds \/ Rests \/ Aborts
    \/ \E by \in {"agent", "direct"} : Opens(by)
    \/ Receives \/ Answered \/ Polled

ChatTypeOK ==
    /\ turn.at \in {"resting", "writing", "calling", "idle"}
    /\ turn.reply \in 0..MaxReplies /\ turn.attempt \in 0..MaxAttempts /\ turn.calls \in 0..MaxCalls
    /\ turn.thinking \in BOOLEAN /\ turn.pieces \in 0..MaxPieces /\ Len(recent) <= Buffer
    /\ chat.by \in {"none", "agent", "direct"} /\ chat.line.kind \in {"none", "text", "thinking"}
    /\ chat.late \subseteq 1..MaxReplies /\ poll \in {"none", "over"}

(* The agent's words as they stand on the screen. *)
Words ==
    LET assistant == SelectSeq(chat.entries, LAMBDA e : e.kind = "assistant")
    IN  FlattenSeq([i \in DOMAIN assistant |-> assistant[i].text])
        \o IF chat.line.kind = "text" THEN chat.line.text ELSE <<>>

(* Replies that are recorded, and of which nothing is on its way. *)
Told ==
    {e \in ToSet(log) :
        /\ e.kind = "message" /\ e.by \in {"assistant", "unmetered"} /\ e.text # <<>>
        /\ \A x \in ToSet(chat.wire) : x.kind \in {"text", "message"} =>
             ToSet(x.text) \cap ToSet(e.text) = {}}

(* Every reply that is recorded is on the terminal's screen, word for word  *)
(* in order, however its pieces, thoughts, retries, the record and the poll *)
(* interleave.  A terminal that came in the middle of it has it too if the  *)
(* reply's usage came before its record; one at the worker's port has what  *)
(* the buffer still had.                                                    *)
RepliesKept ==
    chat.by # "none" =>
        \A e \in Told :
            Head(e.text)[1] \notin chat.late \/ (chat.by = "agent" /\ e.by = "assistant")
            => \E i \in 0..(Len(Words) - Len(e.text)) : SubSeq(Words, i + 1, i + Len(e.text)) = e.text

(* A reply that was watched is not repeated by its record.  Where it is, the *)
(* record repeats it as a whole, below, and only once; and what was watched *)
(* was not the reply in a line of its own: it stood in several lines (for   *)
(* thoughts, another's message or the poll between them), or in one with    *)
(* the words of a failed attempt or the notice of a wait, or the terminal   *)
(* came in the middle of it.                                                *)
Times(words, w) == Cardinality({i \in DOMAIN words : words[i] = w})

SaidOnce ==
    \A e \in Told :
        LET with == {i \in DOMAIN chat.entries : /\ chat.entries[i].kind = "assistant"
                                                /\ ToSet(chat.entries[i].text) \cap ToSet(e.text) # {}}
            whole == {i \in with : chat.entries[i].text = e.text}
            watched == with \ whole
        IN  /\ Cardinality(whole) <= 1
            /\ \A i \in watched : \A w \in ToSet(e.text) : Times(chat.entries[i].text, w) <= 1
            /\ \A w \in ToSet(e.text) :
                 Cardinality({i \in watched : w \in ToSet(chat.entries[i].text)}) <= 1
            /\ whole # {} /\ watched # {} =>
                 /\ \A i \in whole, j \in watched : j < i
                 /\ \/ Cardinality(watched) > 1
                    \/ \E i \in watched : ~ToSet(chat.entries[i].text) \subseteq ToSet(e.text)
                    \/ Head(e.text)[1] \in chat.late

(* "its log record would repeat it" (chat.tsx), "the record of a reply we   *)
(* watched stream is not repeated" (screens.test.ts): does not hold in the  *)
(* cases SaidOnce names.                                                    *)
NeverRepeated == \A e \in Told : \A w \in ToSet(e.text) : Times(Words, w) <= 1

(* The screen keeps the order of the turns: no words or tools of a reply    *)
(* stand above those of an earlier one.                                     *)
TurnsInOrder ==
    LET number(e) == Last(e.text)[1]
        told == SelectSeq(chat.entries, LAMBDA e : e.kind \in {"assistant", "tool"})
    IN  \A i, j \in DOMAIN told : i < j => number(told[i]) <= number(told[j])

(* The page has every reply once and in order, and every result there is;   *)
(* of a tool whose event came, one line.                                    *)
PageTells ==
    LET replies(s) == SelectSeq(s, LAMBDA e : e.kind = "message" /\ e.by \in {"assistant", "unmetered"}
                                              /\ e.text # <<>>)
        tools(s) == SelectSeq(s, LAMBDA e : e.kind = "tool")
        results == {e.text : e \in {x \in ToSet(log) : x.kind = "message" /\ x.by = "tool"}}
    IN  /\ replies(Lines) = replies(log) /\ tools(Lines) = tools(log)
        /\ \A r \in results : \E e \in ToSet(Lines) : e.text = r /\ (e.kind = "tool" \/ e.by = "tool")

ScreenTellsAll == RepliesKept /\ SaidOnce /\ TurnsInOrder
=============================================================================
