------------------------------ MODULE AgentFiles ------------------------------
(***************************************************************************)
(* The files in which the agent keeps what it is and what it remembers     *)
(* (niri-runtime/agent-state-tools.ts): soul.md, and the Markdown files of *)
(* memories/.  The model's tool calls and the host RPC of a Python cell    *)
(* reach the same functions (server-native-services.ts), so that several   *)
(* calls may be under way on one file.                                     *)
(*                                                                         *)
(* A text is a sequence of lines and a line a sequence of words; a line    *)
(* that begins with the word "#" is a header.  Blank content, Markdown that*)
(* does not validate and paths outside memories/ end a call before it has  *)
(* touched anything, and are not told apart here.                          *)
(***************************************************************************)
EXTENDS FiniteSets, Hashline

CONSTANTS
    Callers,    \* calls that may be under way at once
    Backed,     \* the files with a .bak: soul.md and every ...core.md
    Texts,      \* what each file may hold at first, <<>> when it is missing; the
                \* files are numbered in the order of their paths
    Content,    \* the argument content of each caller
    Targets,    \* the words that a patch or a search may look for
    PageLines,  \* lines of a page of memory_read (100)
    MaxShown,   \* matches a search shows (80, or fewer that fit)
    MaxMarkers, \* files whose omitted matches a search lists (24, or fewer)
    MaxWrites   \* bound: changes of all files, and calls that begin before it

Paths == DOMAIN Texts
Missing == <<>>

AgentFilesAssumption ==
    /\ Backed \subseteq Paths /\ PageLines \in Nat \ {0}
    /\ <<>> = Blank /\ MaxMarkers \in Nat /\ MaxShown \in Nat /\ MaxWrites \in Nat
    /\ \A c \in Callers : Len(Content[c]) > 0

VARIABLES
    held,       \* the text of each file
    backup,     \* and of its .bak
    call,       \* the write each caller has under way
    reader,     \* the reading of memory, page after page
    written,    \* changes of each file so far
    owed        \* words appended with success that no later change may lose

agentFilesVars == <<held, backup, call, reader, written, owed>>

None == [tool |-> "none"]
Exists(f) == held[f] # Missing
WordsIn(text) == UNION {ToSet(text[i]) : i \in DOMAIN text}

AgentFilesInit ==
    /\ held \in {h \in [Paths -> UNION {Texts[f] : f \in Paths}] : \A f \in Paths : h[f] \in Texts[f]}
    /\ backup = [f \in Paths |-> Missing] /\ written = [f \in Paths |-> 0]
    /\ call = [c \in Callers |-> None] /\ reader = None
    /\ owed = [f \in Paths |-> {}]

(* One text put behind another: the last line goes on with the first one.   *)
Glue(before, after) == IF before = Missing THEN after
                       ELSE Front(before) \o <<Last(before) \o Head(after)>> \o Tail(after)

(* indexOf(target): the places where a word stands.                         *)
Places(text, word) == UNION {{i} \X {k \in DOMAIN text[i] : text[i][k] = word} : i \in DOMAIN text}
Patched(text, p, content) ==
    LET line == text[p[1]]
        head == SubSeq(text, 1, p[1] - 1) \o <<SubSeq(line, 1, p[2] - 1)>>
        rest == <<SubSeq(line, p[2] + 1, Len(line))>> \o SubSeq(text, p[1] + 1, Len(text))
    IN  Glue(Glue(head, content), rest)

-----------------------------------------------------------------------------
(* soul_write and memory_write                                              *)
Begins(c, f, wish) ==
    /\ call[c] = None /\ MapThenSumSet(LAMBDA g : written[g], Paths) < MaxWrites
    /\ call' = [call EXCEPT ![c] = wish @@ [file |-> f, at |-> IF f \in Backed THEN "backup" ELSE "file",
                                           backed |-> written[f]]]
    /\ UNCHANGED <<held, backup, reader, written, owed>>

(* The anchors are of a reading just before; the file may change until the  *)
(* call reads it in its turn.                                               *)
Anchors(f) == {[line |-> i, hash |-> Hash[LinesOf(held[f])[i]]] :
                  i \in IF Exists(f) THEN DOMAIN LinesOf(held[f]) ELSE {}}
Write(c) == \E f \in Paths :
    \/ Begins(c, f, [tool |-> "append", content |-> Content[c]])
    \/ \E word \in Targets : Begins(c, f, [tool |-> "patch", content |-> Content[c], target |-> word])
    \/ \E content \in {Content[c], <<Blank>>}, from, to \in Anchors(f) :
          /\ from.line <= to.line
          /\ Begins(c, f, [tool |-> "hashline", content |-> content, from |-> from, to |-> to])

(* copyFile; a file that is not there has no backup.                        *)
Backup(c) ==
    /\ call[c].tool # "none" /\ call[c].at = "backup"
    /\ LET f == call[c].file
       IN  /\ backup' = [backup EXCEPT ![f] = IF Exists(f) THEN held[f] ELSE @]
           /\ call' = [call EXCEPT ![c].at = "file", ![c].backed = written[f]]
    /\ UNCHANGED <<held, reader, written, owed>>

Ends(c) == call' = [call EXCEPT ![c] = None]
Changes(f, text) == /\ held' = [held EXCEPT ![f] = text]
                    /\ written' = [written EXCEPT ![f] = @ + 1]

(* O_APPEND: the words go to the end of the file as it is now.              *)
Appended(c) == Glue(held[call[c].file], call[c].content)
Appended_Truncates(c) == call[c].content
AppendText(c) ==
    /\ call[c].tool = "append" /\ call[c].at = "file" /\ Ends(c)
    /\ LET f == call[c].file
       IN  Changes(f, Appended(c)) /\ owed' = [owed EXCEPT ![f] = @ \cup WordsIn(call[c].content)]
    /\ UNCHANGED <<backup, reader>>

(* The text is read and edited; every check that fails ends the call.  The  *)
(* words of what is taken out are no longer owed, unless they stay in place.*)
Edited(c, text) ==
    IF call[c].tool = "patch"
    THEN {Patched(text, p, call[c].content) : p \in Places(text, call[c].target)}
    ELSE LET first == Resolve(LinesOf(text), call[c].from)
             last == Resolve(LinesOf(text), call[c].to)
         IN  IF first = 0 \/ last = 0 \/ first > last THEN {}
             ELSE {ApplyHashlineEdit(text, first, last, call[c].content)}
ReadToEdit(c) ==
    /\ call[c].tool \in {"patch", "hashline"} /\ call[c].at = "file"
    /\ LET f == call[c].file
           edited == IF Exists(f) THEN Edited(c, held[f]) ELSE {}
       IN  IF Cardinality(edited) = 1
           THEN call' = [call EXCEPT ![c] = [@ EXCEPT !.at = "rename"]
                    @@ [base |-> held[f], new |-> CHOOSE t \in edited : TRUE, keeps |-> owed[f]]]
           ELSE Ends(c)
    /\ UNCHANGED <<held, backup, reader, written, owed>>

(* The temporary file takes the place of whatever is there by now.          *)
Replace(c) ==
    /\ call[c].tool \in {"patch", "hashline"} /\ call[c].at = "rename" /\ Ends(c)
    /\ LET f == call[c].file
           gone == WordsIn(call[c].base) \ WordsIn(call[c].new)
       IN  /\ Changes(f, call[c].new)
           /\ owed' = [owed EXCEPT ![f] = (@ \cap call[c].keeps) \ gone]
    /\ UNCHANGED <<backup, reader>>
ReplaceFails(c) == /\ call[c].tool \in {"patch", "hashline"} /\ call[c].at = "rename" /\ Ends(c)
                   /\ UNCHANGED <<held, backup, reader, written, owed>>

-----------------------------------------------------------------------------
(* memory_read and memory_grep                                              *)
(* A page goes on to the next header, or ends where it is full.             *)
IsHeader(line) == line # Blank /\ Head(line) = "#"
PageEnd(lines, end) ==
    LET headers == {i \in DOMAIN lines : i > end /\ IsHeader(lines[i])}
    IN  IF headers # {} THEN Min(headers) - 1 ELSE Min({end, Len(lines)})

(* The agent asks for a page, from the top or where a search points to, and *)
(* goes on at the line that the note under the page names.                  *)
PageOf(f, at, from, start, seen) ==
    LET lines == LinesOf(held[f])
        stop == PageEnd(lines, start + PageLines - 1)
    IN  /\ reader' = [tool |-> "pages", file |-> f, from |-> from, at |-> at,
                      next |-> stop + 1, seen |-> seen \o SubSeq(lines, start, stop)]
        /\ UNCHANGED <<held, backup, call, written, owed>>
ReadMemory == /\ reader = None
              /\ \E f \in {g \in Paths : Exists(g) /\ LinesOf(held[g]) # <<>>} :
                    \E start \in {1, Len(LinesOf(held[f]))} : PageOf(f, written[f], start, start, <<>>)
ReadOn == /\ reader # None
          /\ Exists(reader.file) /\ reader.next <= Len(LinesOf(held[reader.file]))
          /\ PageOf(reader.file, reader.at, reader.from, reader.next, reader.seen)
StopsReading == /\ reader # None /\ reader' = None
                /\ UNCHANGED <<held, backup, call, written, owed>>

(* The matches of a word, in the order of the files and of their lines; the *)
(* first ones are shown, as many as fit; the others are told of file by     *)
(* file, those with the most of them first, and the last files by number.   *)
Matching(f, word) == {i \in DOMAIN held[f] : word \in ToSet(held[f][i])}
Before(f, i, word) == Cardinality({j \in Matching(f, word) : j < i})
                        + Cardinality(UNION {{g} \X Matching(g, word) : g \in {h \in Paths : h < f}})
Fits(word, n) == [f \in Paths |-> {i \in Matching(f, word) : Before(f, i, word) < n}]
Omitted(word, n) == [f \in Paths |-> Matching(f, word) \ Fits(word, n)[f]]
Marked(word, n) == {f \in Paths : Omitted(word, n)[f] # {}}
Listed(word, n) ==
    {f \in Marked(word, n) :
        Cardinality({g \in Marked(word, n) :
            LET mine == Cardinality(Omitted(word, n)[f]) other == Cardinality(Omitted(word, n)[g])
            IN  other > mine \/ (other = mine /\ g < f)}) < MaxMarkers}
OmittedFrom(word, n, f) == Min(Omitted(word, n)[f])

AgentFilesNext ==
    \/ \E c \in Callers : Write(c) \/ Backup(c) \/ AppendText(c) \/ ReadToEdit(c) \/ Replace(c) \/ ReplaceFails(c)
    \/ ReadMemory \/ ReadOn \/ StopsReading

-----------------------------------------------------------------------------
AgentFilesTypeOK ==
    /\ \A f \in Paths : /\ written[f] \in 0..MaxWrites + Cardinality(Callers)
                        /\ backup[f] # Missing => f \in Backed
    /\ \A c \in Callers : call[c].tool \in {"none", "append", "patch", "hashline"}

(* What was appended with success stays in the file: only an edit that takes*)
(* the very words out removes them, or one that had read the file before.   *)
AppendsKept == \A f \in Paths : owed[f] \subseteq WordsIn(held[f])

(* What an edit takes the place of is in the .bak file, unless another write*)
(* of the file came after this call's backup.                               *)
BackupHoldsTheLast ==
    \A c \in Callers :
      LET f == call[c].file
      IN  call[c].tool \in {"patch", "hashline"} /\ call[c].at = "rename"
            => (f \in Backed /\ written[f] = call[c].backed => backup[f] = held[f])

(* Going on at the line each note names shows every line once, in order.    *)
PagesTellAll ==
    reader # None /\ written[reader.file] = reader.at
        => /\ reader.seen = SubSeq(LinesOf(held[reader.file]), reader.from, reader.next - 1)
           /\ reader.next > reader.from

(* A search hides no match: it is shown, or reading on from where the list  *)
(* points to comes to it, or its file is one of the last ones that are only *)
(* counted; and those are only counted when the list is full.               *)
GrepTellsAll ==
    \A word \in Targets, n \in 1..MaxShown, f \in Paths : \A i \in Matching(f, word) :
      \/ i \in Fits(word, n)[f]
      \/ f \in Listed(word, n) /\ OmittedFrom(word, n, f) <= i
      \/ f \notin Listed(word, n) /\ Cardinality(Listed(word, n)) = MaxMarkers

AgentFilesKept == AppendsKept /\ BackupHoldsTheLast /\ PagesTellAll /\ GrepTellsAll
===============================================================================
