------------------------------ MODULE FileTools ------------------------------
(***************************************************************************)
(* One file of the workspace under the file tools of the tool host         *)
(* (harness-client-node/tools.ts and hashline.ts): read_file with anchors, *)
(* edit_file, write_file and read_blob, the last one as the Discord        *)
(* attachments of the agent call it, chunk by chunk (discord/attachments). *)
(* The host runs the calls of its callers side by side, and the agent's    *)
(* own shell commands write the file behind its back.                      *)
(*                                                                         *)
(* A text is what split("\n") makes of the file: a sequence of lines whose *)
(* last one is empty when the file ends with a newline.  A path leads to an*)
(* inode, and an open handle stays with its inode when a rename gives the  *)
(* path another one.                                                       *)
(***************************************************************************)
EXTENDS Naturals, Sequences, SequencesExt, Hashline

CONSTANTS
    Callers,        \* calls of the host that may be under way at once
    Texts,          \* what the file may hold at first, and what a shell writes
    Contents,       \* the argument content of an edit or a new file, as a text
    ChunkBytes,     \* what read_blob sends at once (here: lines)
    MaxInodes,      \* bound: files ever created on the path
    MaxTime         \* bound: changes of any of them

FilesAssumption ==
    /\ \A t \in Texts \cup Contents : t \in Seq(DOMAIN Hash) /\ Len(t) > 0
    /\ ChunkBytes \in Nat \ {0} /\ MaxInodes \in Nat \ {0} /\ MaxTime \in Nat

VARIABLES
    path,       \* the inode the path leads to, 0 when there is none
    inode,      \* what each inode holds, and its mtime
    temp,       \* the callers whose temporary file is in the directory
    op,         \* the call each caller has under way
    anchors     \* the lines that a caller's last read_file showed

filesVars == <<path, inode, temp, op, anchors>>

Absent == 0
Idle == [tool |-> "none"]

Content(i) == inode[i].text
Exists == path # Absent

FilesInit ==
    /\ \E t \in Texts : inode = <<[text |-> t, mtime |-> 0]>>
    /\ path = 1 /\ temp = {}
    /\ op = [c \in Callers |-> Idle] /\ anchors = [c \in Callers |-> <<>>]

(* No two changes of a file have the same mtime.                            *)
Now == 1 + Max({inode[i].mtime : i \in DOMAIN inode})
Create(text) == /\ Len(inode) < MaxInodes /\ Now <= MaxTime
                /\ inode' = Append(inode, [text |-> text, mtime |-> Now])
                /\ path' = Len(inode) + 1
Written(i, text) == /\ Now <= MaxTime
                    /\ inode' = [inode EXCEPT ![i] = [text |-> text, mtime |-> Now]]
Ends(c) == op' = [op EXCEPT ![c] = Idle]

-----------------------------------------------------------------------------
(* readBoundedLocalFile: open and stat, then read and stat again.  A write  *)
(* in place between the two fails the call; a rename does not, for the      *)
(* handle has the old inode.                                                *)
Open(c, step) == /\ Exists
                 /\ op' = [op EXCEPT ![c] = [fd |-> path, mtime |-> inode[path].mtime] @@ step]
Unchanged(c) == inode[op[c].fd].mtime = op[c].mtime

ReadFile(c) == /\ op[c] = Idle /\ Open(c, [tool |-> "read"])
               /\ UNCHANGED <<path, inode, temp, anchors>>
ReadFileEnds(c) ==
    /\ op[c].tool = "read"
    /\ anchors' = [anchors EXCEPT ![c] = IF Unchanged(c) THEN LinesOf(Content(op[c].fd)) ELSE @]
    /\ Ends(c)
    /\ UNCHANGED <<path, inode, temp>>

(* The agent edits a range of the lines it was shown.                       *)
Anchor(c, i) == [line |-> i, hash |-> Hash[anchors[c][i]]]
EditFile(c) ==
    /\ op[c] = Idle
    /\ \E i, j \in DOMAIN anchors[c], content \in Contents :
          Open(c, [tool |-> "edit", at |-> "read", from |-> Anchor(c, i), to |-> Anchor(c, j),
                   content |-> content])
    /\ UNCHANGED <<path, inode, temp, anchors>>

(* The snapshot is taken and the edit made of it.                           *)
Snapshot(c) ==
    /\ op[c].tool = "edit" /\ op[c].at = "read"
    /\ LET text == Content(op[c].fd)
           first == Resolve(LinesOf(text), op[c].from)
           last == Resolve(LinesOf(text), op[c].to)
       IN  IF Unchanged(c) /\ first > 0 /\ last > 0 /\ first <= last
           THEN op' = [op EXCEPT ![c] = [@ EXCEPT !.at = "look"]
                                        @@ [base |-> text, first |-> first, last |-> last]]
           ELSE Ends(c)
    /\ UNCHANGED <<path, inode, temp, anchors>>

LooksAgain(c) == /\ op[c].tool = "edit" /\ op[c].at = "look"
                 /\ IF Exists THEN Open(c, [op[c] EXCEPT !.at = "again"]) ELSE Ends(c)
                 /\ UNCHANGED <<path, inode, temp, anchors>>

SameText(c) == Content(op[c].fd) = op[c].base
SameText_Any(c) == Content(op[c].fd) # <<"">>

(* Read again: only if nothing changed is the temporary file made; writing  *)
(* it may fail, and the finally removes it.                                 *)
Recheck(c) ==
    /\ op[c].tool = "edit" /\ op[c].at = "again"
    /\ \/ /\ Unchanged(c) /\ SameText(c)
          /\ temp' = temp \cup {c}
          /\ op' = [op EXCEPT ![c].at = "rename"]
       \/ Ends(c) /\ UNCHANGED temp
    /\ UNCHANGED <<path, inode, anchors>>

(* rename(): the path leads to the new file, whatever it led to before.     *)
(* The call may still answer with an error, if chmod fails.                 *)
NewText(c) == ApplyHashlineEdit(op[c].base, op[c].first, op[c].last, op[c].content)
Rename(c) ==
    /\ op[c].tool = "edit" /\ op[c].at = "rename"
    /\ Create(NewText(c)) /\ temp' = temp \ {c} /\ Ends(c)
    /\ UNCHANGED anchors

RenameFails(c) == /\ op[c].tool = "edit" /\ op[c].at = "rename"
                  /\ temp' = temp \ {c} /\ Ends(c)
                  /\ UNCHANGED <<path, inode, anchors>>

-----------------------------------------------------------------------------
(* write_file: the exclusive open, then the write; when it fails the path is*)
(* removed.  An open that outlasts its time limit is answered with an error *)
(* and leaves the empty file.                                               *)
WriteFile(c) ==
    /\ op[c] = Idle /\ ~Exists
    /\ Create(<<"">>)
    /\ \/ \E content \in Contents :
             op' = [op EXCEPT ![c] = [tool |-> "write", fd |-> Len(inode) + 1, content |-> content]]
       \/ UNCHANGED op
    /\ UNCHANGED <<temp, anchors>>

WriteFileEnds(c) ==
    /\ op[c].tool = "write" /\ Ends(c)
    /\ \/ Written(op[c].fd, op[c].content) /\ UNCHANGED path
       \/ path' = Absent /\ UNCHANGED inode
    /\ UNCHANGED <<temp, anchors>>

-----------------------------------------------------------------------------
(* readClientBlob: chunk after chunk, each with size and mtime of the file. *)
Size(i) == Len(Content(i))
Stat(i) == <<Size(i), inode[i].mtime>>
ReadBlob(c) ==
    /\ op[c] = Idle /\ Open(c, [tool |-> "blob", got |-> <<>>, stat |-> <<>>])
    /\ UNCHANGED <<path, inode, temp, anchors>>

SameFile(c) == op[c].stat \in {<<>>, Stat(op[c].fd)}
SameFile_Size(c) == op[c].stat = <<>> \/ op[c].stat[1] = Size(op[c].fd)

(* readBlobChunk answers and the caller adds the chunk: at the end of the   *)
(* file it has the blob, else it asks for the next one.                     *)
ChunkArrives(c) ==
    /\ op[c].tool = "blob"
    /\ LET fd == op[c].fd
           start == Len(op[c].got)
           got == op[c].got \o SubSeq(Content(fd), start + 1, Min({start + ChunkBytes, Size(fd)}))
       IN  IF ~Unchanged(c) \/ start > Size(fd) \/ ~SameFile(c) THEN Ends(c)
           ELSE IF Len(got) = Size(fd)
           THEN op' = [op EXCEPT ![c] = [tool |-> "upload", got |-> got, file |-> Content(fd)]]
           ELSE IF Exists THEN Open(c, [tool |-> "blob", got |-> got, stat |-> Stat(fd)])
           ELSE Ends(c)
    /\ UNCHANGED <<path, inode, temp, anchors>>

Uploaded(c) == /\ op[c].tool = "upload" /\ Ends(c)
               /\ UNCHANGED <<path, inode, temp, anchors>>

-----------------------------------------------------------------------------
(* A shell command writes the file in place, removes it, or moves another   *)
(* one over it.                                                             *)
ShellWrites == /\ Exists
               /\ \E t \in Texts : Written(path, t)
               /\ UNCHANGED <<path, temp, op, anchors>>
ShellMoves == /\ \E t \in Texts : Create(t)
              /\ UNCHANGED <<temp, op, anchors>>
ShellRemoves == /\ Exists /\ path' = Absent
                /\ UNCHANGED <<inode, temp, op, anchors>>

FilesNext == \/ \E c \in Callers :
                   \/ ReadFile(c) \/ ReadFileEnds(c) \/ EditFile(c) \/ Snapshot(c) \/ LooksAgain(c) \/ Recheck(c)
                   \/ Rename(c) \/ RenameFails(c) \/ WriteFile(c) \/ WriteFileEnds(c)
                   \/ ReadBlob(c) \/ ChunkArrives(c) \/ Uploaded(c)
             \/ ShellWrites \/ ShellMoves \/ ShellRemoves

-----------------------------------------------------------------------------
FilesTypeOK ==
    /\ Len(inode) \in 1..MaxInodes /\ path \in 0..Len(inode)
    /\ \A i \in DOMAIN inode : /\ Content(i) \in Seq(DOMAIN Hash) /\ Len(Content(i)) > 0
                               /\ inode[i].mtime \in 0..MaxTime
    /\ \A c \in Callers : /\ anchors[c] \in Seq(DOMAIN Hash)
                          /\ op[c].tool \in {"none", "read", "edit", "write", "blob", "upload"}
                          /\ c \in temp <=> op[c].tool = "edit" /\ op[c].at = "rename"

(* An edit replaces, of the text it was made of, one run of lines by the    *)
(* lines it brings, and nothing else: the run begins and ends with lines    *)
(* that read as the agent was shown, at the place it named or, if that line *)
(* moved, the only ones that read so (hashline.ts).  Only when no line is   *)
(* left the text may differ, by a newline.  A final newline stays, and there*)
(* is a new one only where the last line went and what is then last, left   *)
(* or brought, is blank.                                                    *)
EditKeepsTheRest ==
    \A c \in temp :
      LET base == op[c].base
          Meant(i, anchor) ==
              /\ Hash[base[i]] = anchor.hash
              /\ \A k \in DOMAIN LinesOf(base) :
                    Hash[base[k]] = anchor.hash => k = i \/ i = anchor.line
      IN  \E i, j \in DOMAIN LinesOf(base) :
            /\ i <= j /\ Meant(i, op[c].from) /\ Meant(j, op[c].to)
            /\ LET above == SubSeq(base, 1, i - 1) \o Replacement(op[c].content)
                   rest == above \o SubSeq(base, j + 1, Len(base))
               IN  /\ \/ NewText(c) = rest
                      \/ rest \in {<<>>, <<Blank>>} /\ LinesOf(NewText(c)) \in {<<>>, <<Blank>>}
                   /\ EndsInNewline(base) => EndsInNewline(NewText(c))
                   /\ EndsInNewline(NewText(c)) =>
                        EndsInNewline(base) \/ (j = Len(base) /\ Last(above) = Blank)

(* "editing a file with no EOF newline never adds one" (hashline.ts): does  *)
(* not hold, in the case EditKeepsTheRest names.                            *)
NoNewlineAdded == \A c \in temp : EndsInNewline(NewText(c)) => EndsInNewline(op[c].base)

(* What an edit takes the place of is the text it was made of, except for a *)
(* change that came after its second look at the file (tools.ts).           *)
NoChangeUndone ==
    \A c \in temp : Exists /\ inode[path].mtime = op[c].mtime => Content(path) = op[c].base

(* A blob that was put together of chunks is the file as it was at one time.*)
BlobIsWhole == \A c \in Callers : op[c].tool = "upload" => op[c].got = op[c].file

FilesKept == EditKeepsTheRest /\ NoChangeUndone /\ BlobIsWhole
==============================================================================
