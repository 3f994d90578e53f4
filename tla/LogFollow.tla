------------------------------ MODULE LogFollow ------------------------------
(***************************************************************************)
(* The log follower: logsource.follow reading the access log while nginx   *)
(* writes it and logrotate replaces it.  One action per system call, so    *)
(* that a rotation may fall between any two of them.                       *)
(*                                                                         *)
(* A file is the sequence of the pieces nginx wrote to it, whole lines for *)
(* the most part.  rename-and-create takes three steps, and nginx writes   *)
(* to the old file until the third; copytruncate takes one.                *)
(***************************************************************************)
EXTENDS Integers, Sequences

CONSTANTS
    SkipHistory,    \* follow's parameter
    Torn,           \* whether a line may be seen before its newline is written
    MaxLines,       \* bound: lines nginx writes
    MaxFiles,       \* bound: files at the path, one after the other
    MaxTruncates    \* bound: copytruncate rotations

ASSUME FollowAssumption ==
    /\ {SkipHistory, Torn} \subseteq BOOLEAN
    /\ MaxLines \in Nat \ {0} /\ MaxFiles \in Nat \ {0} /\ MaxTruncates \in Nat

VARIABLES
    path,       \* the file the path names, 0 for none
    log,        \* the file nginx writes to, 0 before it starts
    content,    \* what each file holds
    made,       \* files created so far
    lines,      \* lines begun so far
    half,       \* nginx is in the middle of a line
    truncates,  \* copytruncate rotations so far
    pc,         \* the follower's next system call
    handle,     \* the file the follower has open, 0 for none
    position,   \* handle.tell()
    ahead,      \* what the handle's buffer has read beyond position
    signature,  \* the file the path named just after it was opened
    skip,       \* skip_history
    seen,       \* the lines yielded as records
    lost,       \* ghost: lines that will not be yielded any more
    cut,        \* ghost: the open file was emptied, which is not noticed yet
    misled      \* ghost: the signature is not the open file's

fileVars   == <<path, log, content, made>>
writeVars  == <<lines, half, truncates>>
followVars == <<pc, handle, position, ahead, signature, skip, seen>>
vars == <<fileVars, writeVars, followVars, lost, cut, misled>>

Files == 1..MaxFiles
Piece == [line : 1..MaxLines, head : BOOLEAN, end : BOOLEAN]
Whole(n) == [line |-> n, head |-> TRUE, end |-> TRUE]

LinesOf(s) == {s[i].line : i \in 1..Len(s)}
After(s, i) == SubSeq(s, i + 1, Len(s))
Seen == {seen[i] : i \in 1..Len(seen)}

\* The agent starts with a log of one line, or before nginx ever wrote one.
Init ==
    /\ path \in {0, 1}
    /\ log = path
    /\ content = [f \in Files |-> IF f = path THEN <<Whole(1)>> ELSE <<>>]
    /\ made = path
    /\ lines = path
    /\ half = FALSE
    /\ truncates = 0
    /\ pc = "open"
    /\ handle = 0
    /\ position = 0
    /\ ahead = <<>>
    /\ signature = 0
    /\ skip = (SkipHistory /\ path # 0)
    /\ seen = <<>>
    /\ lost = {}
    /\ cut = FALSE
    /\ misled = FALSE

-----------------------------------------------------------------------------
(* nginx and logrotate.                                                    *)

\* A piece goes to the end of the file nginx has open.  Nobody will read it
\* if that file has been renamed and the follower has left it.
Write(piece) ==
    /\ log # 0
    /\ content' = [content EXCEPT ![log] = Append(@, piece)]
    /\ lost' = IF log \in {path, handle} THEN lost ELSE lost \union {piece.line}
    /\ UNCHANGED <<path, log, made, truncates, followVars, cut, misled>>

WriteLine ==
    /\ ~half /\ lines < MaxLines
    /\ lines' = lines + 1
    /\ Write(Whole(lines + 1))
    /\ UNCHANGED half

WriteHead ==
    /\ Torn /\ ~half /\ lines < MaxLines
    /\ lines' = lines + 1
    /\ half' = TRUE
    /\ Write([line |-> lines + 1, head |-> TRUE, end |-> FALSE])

WriteTail ==
    /\ half
    /\ half' = FALSE
    /\ Write([line |-> lines, head |-> FALSE, end |-> TRUE])
    /\ UNCHANGED lines

\* The lines of f the follower has not yielded and cannot reach any more when
\* its name, or (emptied) its content, is taken away.
Unreachable(f, emptied) ==
    LinesOf(content[f]) \
        (Seen \union
         IF handle # f THEN {}
         ELSE LinesOf(ahead) \union
              IF emptied THEN {} ELSE LinesOf(After(content[f], position)))

Rename ==
    /\ path # 0 /\ made < MaxFiles
    /\ path' = 0
    /\ lost' = lost \union Unreachable(path, FALSE)
    /\ UNCHANGED <<log, content, made, writeVars, followVars, cut, misled>>

Create ==
    /\ path = 0 /\ made < MaxFiles
    /\ made' = made + 1
    /\ path' = made'
    /\ UNCHANGED <<log, content, writeVars, followVars, lost, cut, misled>>

\* nginx starts, or is told to reopen its log.
Reopen ==
    /\ ~half /\ path # 0 /\ log # path
    /\ log' = path
    /\ UNCHANGED <<path, content, made, writeVars, followVars, lost, cut, misled>>

\* copytruncate: the copy is elsewhere by now.
Truncate ==
    /\ path # 0 /\ truncates < MaxTruncates
    /\ truncates' = truncates + 1
    /\ content' = [content EXCEPT ![path] = <<>>]
    /\ lost' = lost \union Unreachable(path, TRUE)
    /\ cut' = (cut \/ handle = path)
    /\ UNCHANGED <<path, log, made, lines, half, followVars, misled>>

-----------------------------------------------------------------------------
(* The follower.                                                           *)

\* Mutant: the position of the file before is kept.
OpenKeepsPosition ==
    /\ pc = "open" /\ path # 0
    /\ handle' = path
    /\ pc' = IF skip THEN "seek" ELSE "sign"
    /\ UNCHANGED <<fileVars, writeVars, position, ahead, signature, skip, seen,
                   lost, cut, misled>>

\* While there is no file the follower yields None and tries again.
Open ==
    /\ pc = "open" /\ path # 0
    /\ handle' = path
    /\ position' = 0
    /\ pc' = IF skip THEN "seek" ELSE "sign"
    /\ UNCHANGED <<fileVars, writeVars, ahead, signature, skip, seen, lost, cut, misled>>

Seek ==
    /\ pc = "seek"
    /\ position' = Len(content[handle])
    /\ skip' = FALSE
    /\ pc' = "sign"
    /\ lost' = lost \union LinesOf(content[handle])
    /\ UNCHANGED <<fileVars, writeVars, handle, ahead, signature, seen, cut, misled>>

\* _signature asks the path, not the handle.
Sign ==
    /\ pc = "sign"
    /\ signature' = path
    /\ pc' = "read"
    /\ misled' = (path # handle)
    /\ UNCHANGED <<fileVars, writeVars, handle, position, ahead, skip, seen, lost, cut>>

\* readline returns the text up to a newline, or else to the end of the file.
Ends(s) == {i \in 1..Len(s) : s[i].end}
FirstLine(s) ==
    IF Ends(s) = {} THEN s
    ELSE SubSeq(s, 1, CHOOSE i \in Ends(s) : \A j \in Ends(s) : i <= j)

\* parse_line takes one whole line, and nothing else.
Parses(s) ==
    /\ s[1].head /\ s[Len(s)].end
    /\ \A i \in 1..Len(s) : s[i].line = s[1].line

Unread == After(content[handle], position + Len(ahead))

\* What an emptied file has taken again below the follower's place in it.
Overgrown ==
    IF cut THEN LinesOf(content[handle]) \ (Seen \union LinesOf(Unread)) ELSE {}

\* The buffer is filled from the file, by chunks, when it holds no newline.
Buffered ==
    IF Ends(ahead) # {} THEN {ahead}
    ELSE {ahead \o SubSeq(Unread, 1, k) :
            k \in {i \in 0..Len(Unread) : i = Len(Unread) \/ Ends(SubSeq(Unread, 1, i)) # {}}}

\* A line is a record, or None when it does not parse.
ReadLine ==
    /\ pc = "read"
    /\ \E text \in Buffered :
         /\ text # <<>>
         /\ LET line == FirstLine(text) IN
              /\ ahead' = After(text, Len(line))
              /\ position' = position + Len(line)
              /\ seen' = IF Parses(line) THEN Append(seen, line[1].line) ELSE seen
              /\ lost' = lost \union (IF Parses(line) THEN {} ELSE LinesOf(line))
                             \union (IF text = ahead THEN {} ELSE Overgrown)
         /\ cut' = (cut /\ text = ahead)
    /\ UNCHANGED <<fileVars, writeVars, pc, handle, signature, skip, misled>>

EndOfFile ==
    /\ pc = "read" /\ Buffered = {<<>>}
    /\ pc' = "stat"
    /\ UNCHANGED <<fileVars, writeVars, handle, position, ahead, signature, skip, seen,
                   lost, cut, misled>>

\* Mutant: a file that has not grown is taken for a new one.
RotatedAtEnd ==
    path # 0 => \/ Len(content[path]) <= position
                \/ signature # 0 /\ path # signature

\* Mutant: the identity of the file is not compared.
RotatedBySize == path # 0 => Len(content[path]) < position

\* Gone, emptied, or no longer the same file.
Rotated ==
    path # 0 => \/ Len(content[path]) < position
                \/ signature # 0 /\ path # signature

\* What nginx still wrote to a renamed file after its end was read is lost.
Leave ==
    /\ pc = "stat" /\ Rotated
    /\ handle' = 0
    /\ pc' = "open"
    /\ lost' = IF handle = path THEN lost ELSE lost \union (LinesOf(content[handle]) \ Seen)
    /\ cut' = FALSE
    /\ UNCHANGED <<fileVars, writeVars, position, ahead, signature, skip, seen, misled>>

\* Nothing new: None is yielded, and the follower sleeps.
Quiet ==
    /\ pc = "stat" /\ ~Rotated
    /\ pc' = "read"
    /\ lost' = lost \union Overgrown
    /\ cut' = FALSE
    /\ UNCHANGED <<fileVars, writeVars, handle, position, ahead, signature, skip, seen,
                   misled>>

-----------------------------------------------------------------------------

Host == WriteLine \/ WriteHead \/ WriteTail \/ Rename \/ Create \/ Reopen \/ Truncate

Follower == Open \/ Seek \/ Sign \/ ReadLine \/ EndOfFile \/ Leave \/ Quiet

Next == Host \/ Follower

Spec == Init /\ [][Next]_vars

\* The run loop asks the follower for the next record for ever.
FairSpec == Spec /\ WF_vars(Follower)

-----------------------------------------------------------------------------
(* Properties.                                                             *)

\* The types, and that the follower holds a handle exactly while it has
\* a file to read, to seek or to compare with the path.
TypeOK ==
    /\ path \in 0..MaxFiles /\ log \in 0..MaxFiles /\ made \in 0..MaxFiles
    /\ \A f \in Files : \A i \in 1..Len(content[f]) : content[f][i] \in Piece
    /\ lines \in 0..MaxLines /\ half \in BOOLEAN /\ truncates \in 0..MaxTruncates
    /\ pc \in {"open", "seek", "sign", "read", "stat"}
    /\ handle \in 0..made /\ signature \in 0..made
    /\ (handle = 0) = (pc = "open")
    /\ position \in Nat /\ \A i \in 1..Len(ahead) : ahead[i] \in Piece
    /\ {skip, cut, misled} \subseteq BOOLEAN
    /\ Seen \subseteq 1..lines /\ lost \subseteq 1..lines

\* However files are renamed, created, emptied and reopened between the
\* follower's system calls, no line is yielded twice and none is overtaken by
\* a later one: a rate is never counted from a file read again.
InOrderOnce == \A i \in 2..Len(seen) : seen[i - 1] < seen[i]

\* The causes for which a line is not yielded are all named: it was in the
\* log before the agent, it was caught half-written, its file was emptied or
\* renamed before the follower read it, nginx wrote it to the old file after
\* the follower had read that to its end, or below the place the follower
\* had in a file that was emptied and grew back.  Every other line has been
\* yielded, or lies where the follower will come to it.
Coming ==
    LinesOf(ahead)
        \union (IF handle = 0 THEN {} ELSE
                IF cut THEN LinesOf(content[handle]) ELSE LinesOf(Unread))
        \union (IF path \in {0, handle} THEN {} ELSE LinesOf(content[path]))

NoLineUnaccounted == 1..lines \subseteq Seen \union lost \union Coming

\* A line is yielded in the end, or lost for one of those causes, if no
\* rotation came between an open and its signature.
ReadInTheEnd ==
    []~misled => \A n \in 1..MaxLines : (n <= lines) ~> (n \in Seen \union lost)

\* What follow says of rotation: it does not hold the old handle through it.
SurvivesRotation == \A n \in 1..MaxLines : (n <= lines) ~> (n \in Seen \union lost)

=============================================================================
