--------------------------- MODULE CompletionStream ---------------------------
(***************************************************************************)
(* One completion between the wire and the loop: the provider streams a    *)
(* reply in pieces, the consumer puts text and tool calls together         *)
(* (openai-provider.ts, anthropic-provider.ts), the attempt may break at   *)
(* any piece, and the error decides what is sent next (errors.ts,          *)
(* resilient.ts).  Beside what is put together the model keeps what the    *)
(* provider meant.                                                         *)
(*                                                                         *)
(* Text is a sequence of tokens.  In the reasoning channel these are the   *)
(* opening tag <tool_call> in two halves, so that a piece may end between  *)
(* them, its closing tag, and two whole <function> elements.               *)
(***************************************************************************)
EXTENDS Naturals, Sequences, SequencesExt, FiniteSetsExt, TLC

CONSTANTS
    Wires,          \* the formats of the endpoints: "openai", "anthropic"
    Indexes,        \* of the content blocks that are tool calls
    Thoughts,       \* the pieces that reasoning may come in
    MaxPieces,      \* bound: pieces of one attempt
    MaxAttempts     \* bound: attempts of the completion

Functions == {"f", "g"}
Token == {"<tool", "_call>", "</tool_call>"} \cup Functions

StreamingAssumption ==
    /\ Wires \subseteq {"openai", "anthropic"} /\ Indexes \subseteq Nat
    /\ Thoughts \subseteq Seq(Token)
    /\ MaxPieces \in Nat /\ MaxAttempts \in Nat \ {0}

VARIABLES
    endpoint,   \* the format that serves the completion
    request,    \* what is sent: whether it asks for usage, its size, its images
    attempt,    \* how many were made, and where this one is
    meant,      \* what the provider has said in this attempt
    made,       \* what the consumer holds of it
    refused     \* the requests refused for what they contain

streamingVars == <<endpoint, request, attempt, meant, made, refused>>

NoCalls == << >>                \* the function without a domain

NothingMeant == [text |-> <<>>, thought |-> <<>>, calls |-> NoCalls, pieces |-> 0]
NothingMade == [text |-> <<>>, calls |-> NoCalls, buffer |-> <<>>, reasoned |-> <<>>]

StreamingInit ==
    /\ endpoint \in Wires
    /\ request = [usage |-> endpoint = "openai", long |-> TRUE, images |-> TRUE]
    /\ attempt = [count |-> 0, at |-> "idle"]
    /\ meant = NothingMeant /\ made = NothingMade
    /\ refused = {}

-----------------------------------------------------------------------------
(* drainReasoningToolCallBlocks: whole blocks are taken off the front; what *)
(* is left begins with a tag still open, or with what may become one.       *)
OpensAt(text, i) == i < Len(text) /\ text[i] = "<tool" /\ text[i + 1] = "_call>"
LeastOr(S, default) == IF S = {} THEN default ELSE Min(S)
OpenStart(text) == LeastOr({i \in DOMAIN text : OpensAt(text, i)}, 0)
CloseStart(text, from) == LeastOr({i \in from .. Len(text) : text[i] = "</tool_call>"}, 0)
From(text, i) == SubSeq(text, i, Len(text))
PartialTag_None(text) == 0
PartialTag(text) == Max({0} \cup {i \in DOMAIN text : text[i] = "<tool"})

Drain[text \in Seq(Token)] ==
    LET open == OpenStart(text)
        close == CloseStart(text, open)
    IN  IF open = 0 THEN [blocks |-> <<>>, rest |-> IF PartialTag(text) = 0 THEN <<>> ELSE From(text, PartialTag(text))]
        ELSE IF close = 0 THEN [blocks |-> <<>>, rest |-> From(text, open)]
        ELSE LET tail == Drain[From(text, close + 1)]
             IN  [tail EXCEPT !.blocks = <<SubSeq(text, open + 2, close - 1)>> \o @]

(* parseReasoningToolCallBlock: the first function of the block, if any.    *)
Parsed(block) == LET fs == SelectSeq(block, LAMBDA t : t \in Functions)
                 IN  IF fs = <<>> THEN <<>> ELSE <<Head(fs)>>

-----------------------------------------------------------------------------
(* consumeCompletionStream: one piece.                                      *)
Thinks(piece) ==
    LET d == Drain[made.buffer \o piece]
    IN  made' = IF endpoint = "openai"
                THEN [made EXCEPT !.buffer = d.rest, !.reasoned = @ \o FlattenSeq([k \in DOMAIN d.blocks |-> Parsed(d.blocks[k])])]
                ELSE made

Says(token) == made' = [made EXCEPT !.text = Append(@, token)]

(* A piece of a tool call: any of id, name and arguments.                   *)
Existing(index) == IF index \in DOMAIN made.calls THEN made.calls[index]
                         ELSE [id |-> "call_index", name |-> <<>>, args |-> <<>>]
Existing_Last(index) == IF DOMAIN made.calls # {} THEN made.calls[Max(DOMAIN made.calls)]
                              ELSE [id |-> "call_index", name |-> <<>>, args |-> <<>>]
Added(call, part) == [id |-> IF part.id = "" THEN call.id ELSE part.id,
                      name |-> call.name \o part.name, args |-> call.args \o part.args]
Calls(index, part) ==
    made' = [made EXCEPT !.calls = (index :> Added(Existing(index), part)) @@ @]

(* The calls of the message: the streamed ones in the order of their        *)
(* indexes, else those found in the reasoning, the last one perhaps still   *)
(* in the buffer.                                                           *)
ToolCalls ==
    IF made.calls # NoCalls
    THEN LET order == SetToSortSeq(DOMAIN made.calls, <)
         IN  [k \in DOMAIN order |-> made.calls[order[k]]]
    ELSE LET found == made.reasoned \o Parsed(made.buffer)
         IN  [k \in DOMAIN found |-> [id |-> <<"call_reasoning", k - 1>>, name |-> <<found[k]>>, args |-> <<>>]]

-----------------------------------------------------------------------------
(* errors.ts.  An error carries a status, 0 when it never came to an        *)
(* answer, and the words that its texts contain.                            *)
Errors == [status : {0, 400, 401, 413, 429, 500}, words : SUBSET {"quota", "length", "image", "filter", "usage"}]

IsQuotaExhausted(e) == e.status \in 400 .. 499 /\ "quota" \in e.words
IsPromptTooLarge(e) == e.status \in {400, 413} /\ "length" \in e.words
IsImageParse(e) == e.status = 400 /\ "image" \in e.words
IsContentFilter(e) == e.status = 400 /\ "filter" \in e.words
ShouldRetryProvider(e) == e.status \in {0, 429} \/ e.status >= 500
ShouldRetryWithoutStreamUsage(e) == e.status = 400 /\ "usage" \in e.words

(* The errors of each cause, as the comments of errors.ts tell: an oversized*)
(* prompt may trip the filter too, and a quota error comes as a 429.        *)
ErrorsOf(cause) ==
    CASE cause = "usage" -> {[status |-> 400, words |-> {"usage"}]}
      [] cause = "length" -> {e \in Errors : e.status \in {400, 413} /\ "length" \in e.words /\ e.words \subseteq {"length", "filter"}}
      [] cause = "content" -> {e \in Errors : e.status = 400 /\ e.words \in {{"image"}, {"filter"}}}
      [] cause = "quota" -> {[status |-> 429, words |-> {"quota"}]}
      [] cause = "transient" -> {e \in Errors : e.status \in {0, 429, 500} /\ e.words = {}}
      [] cause = "other" -> {e \in Errors : e.status \in {400, 401} /\ e.words = {}}

(* What the request of an attempt may be refused for.                       *)
Causes == {"quota", "transient", "other"}
          \cup (IF request.usage THEN {"usage"} ELSE {})
          \cup (IF request.long THEN {"length"} ELSE {})
          \cup (IF request.images THEN {"content"} ELSE {})

(* What is sent after an error (completeWithResilience): a smaller prompt,  *)
(* one without images, or the same; nothing after what cannot be helped.    *)
Resent(e) ==
    IF IsPromptTooLarge(e) THEN {[request EXCEPT !.long = FALSE]}
    ELSE IF ~IsQuotaExhausted(e) /\ (IsImageParse(e) \/ IsContentFilter(e))
    THEN {[request EXCEPT !.images = FALSE]}
    ELSE IF IsQuotaExhausted(e) \/ ShouldRetryProvider(e) THEN {request}
    ELSE {}
Resent_RetryFirst(e) ==
    IF IsQuotaExhausted(e) \/ ShouldRetryProvider(e) \/ e.status = 400 THEN {request} ELSE {}

-----------------------------------------------------------------------------

(* The request goes out; each attempt of an OpenAI endpoint asks for usage  *)
(* first.                                                                   *)
Send(r) == /\ attempt' = [count |-> attempt.count + 1, at |-> "streaming"]
           /\ request' = r
           /\ meant' = NothingMeant /\ made' = NothingMade
Complete == /\ attempt.at = "idle"
            /\ Send(request)
            /\ UNCHANGED <<endpoint, refused>>

Piece == /\ attempt.at = "streaming" /\ meant.pieces < MaxPieces
         /\ UNCHANGED <<endpoint, request, attempt, refused>>
Meaning(m) == meant' = [m EXCEPT !.pieces = @ + 1]

SaysPiece == /\ Piece /\ Says("word")
             /\ Meaning([meant EXCEPT !.text = Append(@, "word")])
ThinksPiece == /\ Piece
               /\ \E piece \in Thoughts :
                     Thinks(piece) /\ Meaning([meant EXCEPT !.thought = @ \o piece])

(* The pieces of a call: Anthropic begins with id and name, others give id  *)
(* and name once, sooner or later, or no id at all.                         *)
Of(index) == IF index \in DOMAIN meant.calls THEN meant.calls[index]
             ELSE [id |-> "", name |-> <<>>, args |-> <<>>]
CallPiece ==
    /\ Piece
    /\ \E index \in Indexes, id \in {"", "id"}, name \in {<<>>, <<"f">>}, args \in {<<>>, <<"{">>} :
         LET call == Of(index)
             part == [id |-> IF id = "" THEN "" ELSE <<id, index>>, name |-> name, args |-> args]
         IN  /\ <<id, name, args>> # <<"", <<>>, <<>>>>
             /\ id # "" => call.id = ""
             /\ name # <<>> => call.name = <<>>
             /\ endpoint = "anthropic" =>
                    IF index \in DOMAIN meant.calls THEN id = "" /\ name = <<>>
                    ELSE id # "" /\ name # <<>> /\ args = <<>>
             /\ Calls(index, part)
             /\ Meaning([meant EXCEPT !.calls = (index :> Added(call, part)) @@ @])

(* The stream ends.  An attempt that broke leaves nothing behind.           *)
Ends == /\ attempt.at = "streaming"
        /\ attempt' = [attempt EXCEPT !.at = "answered"]
        /\ UNCHANGED <<endpoint, request, meant, made, refused>>

Breaks ==
    /\ attempt.at = "streaming"
    /\ \E cause \in Causes : \E e \in ErrorsOf(cause) :
         /\ cause = "transient" \/ meant.pieces = 0
         /\ refused' = IF cause \in {"length", "content"}
                       THEN refused \cup {<<request.long, request.images>>} ELSE refused
         /\ IF request.usage /\ ShouldRetryWithoutStreamUsage(e)
            THEN Send([request EXCEPT !.usage = FALSE])
            ELSE \/ /\ attempt.count < MaxAttempts
                    /\ \E r \in Resent(e) : Send([r EXCEPT !.usage = endpoint = "openai"])
                 \/ /\ attempt' = [attempt EXCEPT !.at = "failed"]
                    /\ UNCHANGED <<request, meant, made>>
    /\ UNCHANGED endpoint

StreamingNext == Complete \/ SaysPiece \/ ThinksPiece \/ CallPiece \/ Ends \/ Breaks

-----------------------------------------------------------------------------
StreamingTypeOK ==
    /\ endpoint \in Wires /\ request \in [usage : BOOLEAN, long : BOOLEAN, images : BOOLEAN]
    /\ attempt.at \in {"idle", "streaming", "answered", "failed"} /\ attempt.count \in 0 .. 2 * MaxAttempts
    /\ meant.pieces \in 0 .. MaxPieces
    /\ DOMAIN made.calls \subseteq Indexes
    /\ made.buffer \in Seq(Token) /\ made.reasoned \in Seq(Functions)

(* The blocks written in a text of reasoning, however it was cut: each      *)
(* closing tag that has an opening one between itself and the closing tag   *)
(* before it.                                                               *)
Blocks(text) ==
    LET closes == {i \in DOMAIN text : text[i] = "</tool_call>"}
        before(c) == Max({0} \cup {d \in closes : d < c})
        opens(c) == {o \in before(c) + 1 .. c - 1 : OpensAt(text, o)}
        order == SetToSortSeq({c \in closes : opens(c) # {}}, <)
    IN  [k \in DOMAIN order |-> SubSeq(text, Min(opens(order[k])), order[k])]

(* The message of a completion is what the provider meant in the attempt    *)
(* that succeeded (openai-provider.ts, anthropic-provider.ts): its text,    *)
(* its calls in the order of their indexes, each with its own id, name and  *)
(* arguments, and if there are none the calls of its reasoning, in order;   *)
(* nothing is left of attempts that broke.                                  *)
AssembledAsMeant ==
    attempt.at = "answered" =>
        /\ made.text = meant.text
        /\ IF meant.calls # NoCalls
           THEN LET order == SetToSortSeq(DOMAIN meant.calls, <)
                IN  /\ Len(ToolCalls) = Len(order)
                    /\ \A k \in DOMAIN order :
                          LET call == meant.calls[order[k]]
                          IN  /\ ToolCalls[k].name = call.name /\ ToolCalls[k].args = call.args
                              /\ call.id # "" => ToolCalls[k].id = call.id
           ELSE LET found == FlattenSeq([k \in DOMAIN Blocks(meant.thought) |-> Parsed(Blocks(meant.thought)[k])])
                IN  endpoint = "openai" =>
                        /\ Len(ToolCalls) \in Len(found) .. Len(found) + 1
                        /\ \A k \in DOMAIN found : ToolCalls[k].name = <<found[k]>>

(* What a provider refused for its size or its content is not sent again as *)
(* it was (errors.ts, resilient.ts): the recovery fits the cause whatever   *)
(* else the error's text says.                                              *)
RefusedNotRepeated ==
    attempt.at = "streaming" => <<request.long, request.images>> \notin refused
=============================================================================
