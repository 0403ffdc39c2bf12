------------------------------ MODULE Hashline ------------------------------
(***************************************************************************)
(* Line edits by anchor (harness-client-node/hashline.ts), as the file     *)
(* tools of the host and the agent's own files use them.  A text is what   *)
(* split("\n") makes of it: a sequence of lines whose last one is blank    *)
(* when the text ends with a newline.                                      *)
(***************************************************************************)
EXTENDS Naturals, Sequences, SequencesExt

CONSTANTS
    Hash,       \* hashlineLineHash of each line
    Blank       \* the line with nothing in it

LinesOf(text) == IF Last(text) = Blank THEN Front(text) ELSE text
EndsInNewline(text) == Len(text) > 1 /\ Last(text) = Blank

(* The line an anchor means: the one it names if the hash still fits, else  *)
(* the only one that fits; 0 stands for the two errors.                     *)
Resolve(lines, anchor) ==
    LET matches == {i \in DOMAIN lines : Hash[lines[i]] = anchor.hash}
    IN  IF anchor.line \in matches THEN anchor.line
        ELSE IF \E i \in matches : matches = {i} THEN CHOOSE i \in matches : TRUE
        ELSE 0

Resolve_First(lines, anchor) ==
    LET matches == {i \in DOMAIN lines : Hash[lines[i]] = anchor.hash}
    IN  IF anchor.line \in DOMAIN lines THEN anchor.line
        ELSE IF \E i \in matches : matches = {i} THEN CHOOSE i \in matches : TRUE
        ELSE 0

Replacement(content) == IF content = <<Blank>> THEN <<>>
                        ELSE IF Last(content) = Blank THEN Front(content) ELSE content

Joined(lines, newline) == IF lines = <<>> THEN IF newline THEN <<Blank, Blank>> ELSE <<Blank>>
                          ELSE IF newline THEN Append(lines, Blank) ELSE lines

ApplyHashlineEdit(text, first, last, content) ==
    LET lines == LinesOf(text)
    IN  Joined(SubSeq(lines, 1, first - 1) \o Replacement(content)
                 \o SubSeq(lines, last + 1, Len(lines)), EndsInNewline(text))
=============================================================================
