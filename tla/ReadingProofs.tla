--------------------------- MODULE ReadingProofs ---------------------------
(***************************************************************************)
(* Theorems about the agent's reading: LogFollow, for any number of lines, *)
(* files and truncations, torn lines or whole, history skipped or read;    *)
(* and Collector, for any batch size, cap, addresses, records the backend  *)
(* refuses, and any number of batches nobody waits for.                    *)
(***************************************************************************)
EXTENDS LogFollow, Collector, Sums, SequenceTheorems

-----------------------------------------------------------------------------
(* LogFollow.                                                              *)

\* One file after the other: a line is where its successors are not yet, and
\* only a torn one is in two pieces.
Ordered(s) ==
    \A i, j \in 1..Len(s) :
        i < j => \/ s[i].line < s[j].line
                 \/ s[i].line = s[j].line /\ ~s[i].end /\ s[j].end

WellFormed ==
    /\ path \in {0, made} /\ log <= made
    /\ content \in [Files -> Seq(Piece)] /\ ahead \in Seq(Piece) /\ seen \in Seq(Nat)
    /\ half => log # 0 /\ lines # 0
    /\ ahead # <<>> => pc = "read"
    /\ cut => handle # 0

\* The lines of a file precede those of the files after it; a line that is
\* still half-written is at the place where nginx writes.
FilesInOrder ==
    /\ \A f \in Files : Ordered(content[f])
    /\ \A f \in Files : f > log => content[f] = <<>>
    /\ \A f, g \in Files : f < g =>
         \A i \in 1..Len(content[f]), j \in 1..Len(content[g]) :
            content[f][i].line < content[g][j].line
    /\ \A f \in Files : \A i \in 1..Len(content[f]) :
         /\ content[f][i].line <= lines
         /\ half /\ content[f][i].line = lines => f = log /\ ~content[f][i].end

\* What is read ahead of the follower's place precedes what it reads next,
\* though its file be emptied meanwhile.
AheadInOrder ==
    /\ Ordered(ahead)
    /\ \A i \in 1..Len(ahead) :
         /\ ahead[i].line <= lines
         /\ half /\ ahead[i].line = lines => handle = log /\ ~ahead[i].end
         /\ path \notin {0, handle} =>
              \A j \in 1..Len(content[path]) : ahead[i].line < content[path][j].line
         /\ cut => \A j \in 1..Len(content[handle]) :
              \/ ahead[i].line < content[handle][j].line
              \/ /\ ahead[i].line = content[handle][j].line
                 /\ ~ahead[i].end /\ content[handle][j].end

\* Unless its file was emptied, the follower is at its place in that file.
\* It comes to be beyond the end of a file only when nginx has left the file.
Placed ==
    /\ ~cut => \A i \in 1..Len(ahead) :
         /\ position + i <= Len(content[handle])
         /\ ahead[i] = content[handle][position + i]
    /\ handle # 0 /\ ~cut /\ log <= handle => position + Len(ahead) <= Len(content[handle])
    /\ pc \in {"read", "stat"} /\ handle = path => signature = path

\* Whatever the follower still comes to is later than what it has yielded.
SeenBefore ==
    \A k \in 1..Len(seen) :
        /\ half => seen[k] < lines
        /\ \A i \in 1..Len(ahead) : seen[k] < ahead[i].line
        /\ path \notin {0, handle} =>
             \A i \in 1..Len(content[path]) : seen[k] < content[path][i].line
        /\ handle # 0 =>
             \A i \in 1..Len(content[handle]) :
                 cut \/ position < i => seen[k] < content[handle][i].line

IInv ==
    /\ TypeOK /\ WellFormed /\ FilesInOrder /\ AheadInOrder /\ Placed /\ SeenBefore
    /\ InOrderOnce /\ NoLineUnaccounted

-----------------------------------------------------------------------------
(* The pieces of a file, by their places.                                  *)

LEMMA LinesAre ==
    ASSUME NEW s, NEW n
    PROVE  n \in LinesOf(s) <=> \E i \in 1..Len(s) : s[i].line = n
BY DEF LinesOf

LEMMA AfterIs ==
    ASSUME NEW s \in Seq(Piece), NEW k \in Nat
    PROVE  /\ After(s, k) \in Seq(Piece)
           /\ Len(After(s, k)) = IF k <= Len(s) THEN Len(s) - k ELSE 0
           /\ \A i \in 1..Len(After(s, k)) : After(s, k)[i] = s[k + i]
BY SubSeqProperties DEF After

LEMMA PrefixIs ==
    ASSUME NEW s \in Seq(Piece), NEW k \in 0..Len(s)
    PROVE  /\ SubSeq(s, 1, k) \in Seq(Piece)
           /\ Len(SubSeq(s, 1, k)) = k
           /\ \A i \in 1..k : SubSeq(s, 1, k)[i] = s[i]
BY SubSeqProperties

\* readline returns at least a piece, and none after the first newline.
LEMMA FirstLineIs ==
    ASSUME NEW s \in Seq(Piece), s # <<>>
    PROVE  \E n \in 1..Len(s) :
             /\ FirstLine(s) = SubSeq(s, 1, n)
             /\ Len(FirstLine(s)) = n
             /\ \A i \in 1..n : FirstLine(s)[i] = s[i]
             /\ \A i \in 1..(n - 1) : ~s[i].end
             /\ s[n].end \/ n = Len(s)
<1>1. Len(s) \in Nat /\ Len(s) > 0
  BY EmptySeq
<1>2. \E n \in 1..Len(s) :
        /\ FirstLine(s) = SubSeq(s, 1, n)
        /\ \A i \in 1..(n - 1) : ~s[i].end
        /\ s[n].end \/ n = Len(s)
  <2>1. CASE Ends(s) = {}
    <3>1. FirstLine(s) = SubSeq(s, 1, Len(s))
      BY <2>1, SubSeqFull DEF FirstLine
    <3>2. \A i \in 1..Len(s) : ~s[i].end
      BY <2>1 DEF Ends
    <3>3. QED
      BY <1>1, <3>1, <3>2
  <2>2. CASE Ends(s) # {}
    <3> DEFINE n == CHOOSE i \in Ends(s) : \A j \in Ends(s) : i <= j
    <3>1. Ends(s) \in SUBSET Nat
      BY <1>1 DEF Ends
    <3>2. n \in Ends(s) /\ \A j \in Ends(s) : n <= j
      BY <2>2, <3>1, LeastOf
    <3>3. FirstLine(s) = SubSeq(s, 1, n)
      BY <2>2 DEF FirstLine
    <3>4. n \in 1..Len(s) /\ s[n].end
      BY <3>2 DEF Ends
    <3>5. \A i \in 1..(n - 1) : ~s[i].end
      <4> HIDE DEF n
      <4>1. ASSUME NEW i \in 1..(n - 1), s[i].end PROVE FALSE
        <5>1. i \in Ends(s)
          BY <1>1, <3>4, <4>1 DEF Ends
        <5>2. n <= i
          BY <3>2, <5>1
        <5>3. QED
          BY <1>1, <3>4, <5>2
      <4>2. QED
        BY <4>1
    <3>6. QED
      BY <3>3, <3>4, <3>5
  <2>3. QED
    BY <2>1, <2>2
<1>3. QED
  BY <1>1, <1>2, PrefixIs

-----------------------------------------------------------------------------
(* The first state.                                                        *)

LEMMA InitInv == Init => IInv
<1> SUFFICES ASSUME Init PROVE IInv
  OBVIOUS
<1> USE FollowAssumption
<1>1. /\ Whole(1) \in Piece /\ Whole(1).line = 1 /\ Whole(1).end
      /\ <<Whole(1)>> \in Seq(Piece) /\ <<>> \in Seq(Piece)
  BY DEF Whole, Piece
<1>2. content \in [Files -> {<<Whole(1)>>, <<>>}] /\ seen = <<>> /\ ahead = <<>>
  BY DEF Init
<1>3. \A f \in Files : \A i \in 1..Len(content[f]) :
         i = 1 /\ f = path /\ path = 1 /\ content[f][i] = Whole(1)
  BY <1>2 DEF Init, Files
<1>4. WellFormed
  BY <1>1, <1>2 DEF Init, WellFormed
<1>5. FilesInOrder /\ AheadInOrder /\ Placed /\ SeenBefore /\ InOrderOnce
  BY <1>1, <1>2, <1>3 DEF Init, FilesInOrder, Ordered, AheadInOrder, Placed, SeenBefore, InOrderOnce, Files
<1>6. TypeOK
  <2>1. Seen = {}
    BY <1>2 DEF Seen
  <2>2. \A f \in Files : \A i \in 1..Len(content[f]) : content[f][i] \in Piece
    BY <1>1, <1>3
  <2>3. /\ path \in 0..MaxFiles /\ log \in 0..MaxFiles /\ made \in 0..MaxFiles
        /\ lines \in 0..MaxLines /\ truncates \in 0..MaxTruncates
        /\ handle \in 0..made /\ signature \in 0..made /\ position \in Nat
    BY DEF Init
  <2>4. /\ pc \in {"open", "seek", "sign", "read", "stat"} /\ (handle = 0) = (pc = "open")
        /\ half \in BOOLEAN /\ {skip, cut, misled} \subseteq BOOLEAN
    BY DEF Init
  <2>5. /\ \A i \in 1..Len(ahead) : ahead[i] \in Piece
        /\ Seen \subseteq 1..lines /\ lost \subseteq 1..lines
    BY <1>2, <2>1 DEF Init
  <2>6. QED
    BY <2>2, <2>3, <2>4, <2>5 DEF TypeOK
<1>7. NoLineUnaccounted
  <2>1. path = 1 => 1 \in LinesOf(content[path])
    <3>1. path = 1 => content[path] = <<Whole(1)>>
      BY DEF Init, Files
    <3>2. Len(<<Whole(1)>>) = 1 /\ <<Whole(1)>>[1] = Whole(1)
      OBVIOUS
    <3>3. QED
      BY <1>1, <3>1, <3>2, LinesAre
  <2>2. 1..lines \subseteq IF path = 1 THEN {1} ELSE {}
    BY DEF Init
  <2>3. QED
    BY <2>1, <2>2 DEF Init, NoLineUnaccounted, Coming
<1>8. QED
  BY <1>4, <1>5, <1>6, <1>7 DEF IInv

-----------------------------------------------------------------------------
(* What is still to come, by its places.                                   *)

Reached(n) ==
    \/ \E i \in 1..Len(ahead) : ahead[i].line = n
    \/ /\ handle # 0
       /\ \E i \in 1..Len(content[handle]) :
            content[handle][i].line = n /\ (cut \/ position + Len(ahead) < i)
    \/ path \notin {0, handle} /\ \E i \in 1..Len(content[path]) : content[path][i].line = n

Shaped == TypeOK /\ WellFormed

LEMMA UnreadIs ==
    Shaped /\ handle # 0 =>
        /\ Unread \in Seq(Piece)
        /\ Len(Unread) = IF position + Len(ahead) <= Len(content[handle])
                         THEN Len(content[handle]) - (position + Len(ahead)) ELSE 0
        /\ \A i \in 1..Len(Unread) : Unread[i] = content[handle][position + Len(ahead) + i]
<1> SUFFICES ASSUME Shaped, handle # 0
             PROVE  /\ content[handle] \in Seq(Piece) /\ position + Len(ahead) \in Nat
  BY AfterIs DEF Unread
<1>1. handle \in Files
  BY FollowAssumption DEF Shaped, TypeOK, Files
<1>2. QED
  BY <1>1 DEF Shaped, TypeOK, WellFormed

LEMMA ComingIs == Shaped => \A n : n \in Coming <=> Reached(n)
<1> SUFFICES ASSUME Shaped, NEW n PROVE n \in Coming <=> Reached(n)
  OBVIOUS
<1>1. n \in LinesOf(ahead) <=> \E i \in 1..Len(ahead) : ahead[i].line = n
  BY LinesAre
<1>2. n \in LinesOf(content[path]) <=> \E i \in 1..Len(content[path]) : content[path][i].line = n
  BY LinesAre
<1>3. n \in LinesOf(content[handle]) <=> \E i \in 1..Len(content[handle]) : content[handle][i].line = n
  BY LinesAre
<1>4. ASSUME handle # 0
      PROVE  n \in LinesOf(Unread) <=>
               \E i \in 1..Len(content[handle]) :
                  content[handle][i].line = n /\ position + Len(ahead) < i
  <2>1. n \in LinesOf(Unread) <=> \E i \in 1..Len(Unread) : Unread[i].line = n
    BY LinesAre
  <2>2. position + Len(ahead) \in Nat /\ Len(content[handle]) \in Nat
    BY <1>4, FollowAssumption DEF Shaped, TypeOK, WellFormed, Files
  <2>3. ASSUME NEW i \in 1..Len(content[handle]), position + Len(ahead) < i
        PROVE  /\ i - (position + Len(ahead)) \in 1..Len(Unread)
               /\ Unread[i - (position + Len(ahead))] = content[handle][i]
    BY <1>4, <2>2, <2>3, UnreadIs
  <2>4. ASSUME NEW i \in 1..Len(Unread)
        PROVE  /\ position + Len(ahead) + i \in 1..Len(content[handle])
               /\ position + Len(ahead) < position + Len(ahead) + i
               /\ Unread[i] = content[handle][position + Len(ahead) + i]
    BY <1>4, <2>2, <2>4, UnreadIs
  <2>5. QED
    BY <2>1, <2>3, <2>4
<1>5. QED
  BY <1>1, <1>2, <1>3, <1>4 DEF Coming, Reached

\* The same of the state after a step.
LEMMA ComingIsNext == Shaped' => \A n : n \in Coming' <=> Reached(n)'
<1>1. (Shaped => \A n : n \in Coming <=> Reached(n))'
  BY ComingIs, PTL
<1>2. QED
  BY <1>1

-----------------------------------------------------------------------------
(* nginx.                                                                  *)

\* What has a number is a number.
Numbers ==
    /\ MaxLines \in Nat /\ MaxFiles \in Nat /\ lines \in Nat /\ lines <= MaxLines
    /\ path \in Nat /\ log \in Nat /\ made \in Nat /\ handle \in Nat /\ position \in Nat
    /\ made <= MaxFiles /\ handle <= made
    /\ half \in BOOLEAN /\ cut \in BOOLEAN
    /\ Len(seen) \in Nat /\ Len(ahead) \in Nat
    /\ \A k \in 1..Len(seen) : seen[k] \in Nat /\ seen[k] <= lines
    /\ \A i \in 1..Len(ahead) : ahead[i] \in Piece /\ ahead[i].line \in Nat
    /\ \A f \in Files : /\ content[f] \in Seq(Piece) /\ Len(content[f]) \in Nat
                        /\ \A i \in 1..Len(content[f]) :
                             content[f][i] \in Piece /\ content[f][i].line \in Nat

LEMMA Typed == IInv => Numbers
<1> SUFFICES ASSUME IInv PROVE Numbers
  OBVIOUS
<1> USE DEF Numbers
<1> USE FollowAssumption DEF IInv
<1>1. \A p \in Piece : p.line \in Nat
  BY DEF Piece
<1>2. \A k \in 1..Len(seen) : seen[k] \in 1..lines
  BY DEF TypeOK, Seen
<1>3. /\ lines \in Nat /\ lines <= MaxLines /\ path \in Nat /\ log \in Nat /\ made \in Nat
      /\ handle \in Nat /\ position \in Nat /\ half \in BOOLEAN /\ cut \in BOOLEAN
      /\ made <= MaxFiles /\ handle <= made
  BY DEF TypeOK
<1>4. \A f \in Files : content[f] \in Seq(Piece)
  BY DEF WellFormed
<1>5. /\ Len(seen) \in Nat /\ Len(ahead) \in Nat
      /\ \A k \in 1..Len(seen) : seen[k] \in Nat /\ seen[k] <= lines
  BY <1>2, <1>3 DEF WellFormed
<1>6. \A i \in 1..Len(ahead) : ahead[i] \in Piece
  BY DEF WellFormed
<1>7. \A f \in Files : Len(content[f]) \in Nat /\ \A i \in 1..Len(content[f]) : content[f][i] \in Piece
  BY <1>4
<1>8. QED
  BY <1>1, <1>3, <1>4, <1>5, <1>6, <1>7

\* What nginx begins is later than everything before; what it completes is
\* the one line it has begun.
LEMMA LastWritten ==
    ASSUME IInv, NEW piece \in Piece,
           \/ WriteLine /\ piece = Whole(lines + 1)
           \/ WriteHead /\ piece = [line |-> lines + 1, head |-> TRUE, end |-> FALSE]
           \/ WriteTail /\ piece = [line |-> lines, head |-> FALSE, end |-> TRUE]
    PROVE  /\ Write(piece) /\ piece.line = lines'
           /\ lines' \in 1..MaxLines /\ lines <= lines' /\ lines' <= lines + 1
           /\ half' \in BOOLEAN
           /\ half' => ~piece.end /\ lines < lines'
           /\ \A f \in Files : \A i \in 1..Len(content[f]) :
                \/ content[f][i].line < lines'
                \/ content[f][i].line = lines' /\ f = log /\ ~content[f][i].end /\ piece.end
           /\ \A i \in 1..Len(ahead) :
                \/ ahead[i].line < lines'
                \/ ahead[i].line = lines' /\ handle = log /\ ~ahead[i].end /\ piece.end
           /\ \A k \in 1..Len(seen) : seen[k] < lines'
           /\ lines < lines' \/ lines' = lines
<1>1. Numbers
  BY Typed
<1> USE DEF IInv, Numbers
<1>2. CASE /\ ~half /\ lines < MaxLines /\ lines' = lines + 1 /\ half' \in BOOLEAN
           /\ Write(piece) /\ piece.line = lines' /\ (half' => ~piece.end)
  <2>1. /\ \A i \in 1..Len(ahead) : ahead[i].line < lines'
        /\ \A f \in Files : \A i \in 1..Len(content[f]) : content[f][i].line < lines'
    BY <1>1, <1>2 DEF FilesInOrder, AheadInOrder
  <2>2. \A k \in 1..Len(seen) : seen[k] < lines'
    BY <1>1, <1>2
  <2>3. lines' \in 1..MaxLines /\ lines < lines' /\ lines <= lines' /\ lines' <= lines + 1
    BY <1>1, <1>2
  <2>4. half' => ~piece.end /\ lines < lines'
    BY <1>2, <2>3
  <2>5. /\ \A f \in Files : \A i \in 1..Len(content[f]) :
             \/ content[f][i].line < lines'
             \/ content[f][i].line = lines' /\ f = log /\ ~content[f][i].end /\ piece.end
        /\ \A i \in 1..Len(ahead) :
             \/ ahead[i].line < lines'
             \/ ahead[i].line = lines' /\ handle = log /\ ~ahead[i].end /\ piece.end
    BY <2>1
  <2>6. QED
    BY <1>2, <2>2, <2>3, <2>4, <2>5
<1>3. CASE WriteLine /\ piece = Whole(lines + 1)
  <2>1. ~half /\ lines < MaxLines /\ lines' = lines + 1 /\ half' = half /\ Write(piece)
    BY <1>3 DEF WriteLine
  <2>2. piece.line = lines'
    BY <1>3, <2>1 DEF Whole
  <2>3. half' \in BOOLEAN /\ ~half'
    BY <1>1, <2>1
  <2>4. QED
    BY <1>2, <2>1, <2>2, <2>3
<1>4. CASE WriteHead /\ piece = [line |-> lines + 1, head |-> TRUE, end |-> FALSE]
  BY <1>2, <1>4 DEF WriteHead
<1>5. CASE WriteTail /\ piece = [line |-> lines, head |-> FALSE, end |-> TRUE]
  <2>1. /\ half /\ half' = FALSE /\ lines' = lines
        /\ Write(piece) /\ piece.line = lines /\ piece.end
    BY <1>5 DEF WriteTail
  <2>2. lines' \in 1..MaxLines /\ lines <= lines' /\ lines' <= lines + 1
    BY <1>1, <2>1 DEF Piece
  <2>3. \A k \in 1..Len(seen) : seen[k] < lines'
    BY <2>1 DEF SeenBefore
  <2>4. \A i \in 1..Len(ahead) :
          \/ ahead[i].line < lines'
          \/ ahead[i].line = lines' /\ handle = log /\ ~ahead[i].end /\ piece.end
    BY <1>1, <2>1 DEF AheadInOrder
  <2>5. \A f \in Files : \A i \in 1..Len(content[f]) :
          \/ content[f][i].line < lines'
          \/ content[f][i].line = lines' /\ f = log /\ ~content[f][i].end /\ piece.end
    BY <1>1, <2>1 DEF FilesInOrder
  <2>6. QED
    BY <2>1, <2>2, <2>3, <2>4, <2>5
<1>6. QED
  BY <1>3, <1>4, <1>5

LEMMA WriteInv ==
    ASSUME IInv, NEW piece \in Piece,
           \/ WriteLine /\ piece = Whole(lines + 1)
           \/ WriteHead /\ piece = [line |-> lines + 1, head |-> TRUE, end |-> FALSE]
           \/ WriteTail /\ piece = [line |-> lines, head |-> FALSE, end |-> TRUE]
    PROVE  IInv'
<1> USE DEF Numbers
<1>1. Numbers
  BY Typed
<1>2. /\ Write(piece) /\ piece.line = lines'
      /\ lines' \in 1..MaxLines /\ lines <= lines' /\ lines' <= lines + 1
      /\ half' \in BOOLEAN
      /\ half' => ~piece.end /\ lines < lines'
      /\ \A f \in Files : \A i \in 1..Len(content[f]) :
           \/ content[f][i].line < lines'
           \/ content[f][i].line = lines' /\ f = log /\ ~content[f][i].end /\ piece.end
      /\ \A i \in 1..Len(ahead) :
           \/ ahead[i].line < lines'
           \/ ahead[i].line = lines' /\ handle = log /\ ~ahead[i].end /\ piece.end
      /\ \A k \in 1..Len(seen) : seen[k] < lines'
      /\ lines < lines' \/ lines' = lines
  BY LastWritten
<1>3. /\ log \in Files /\ content' = [content EXCEPT ![log] = Append(content[log], piece)]
      /\ UNCHANGED <<path, log, made, truncates, pc, handle, position, ahead, signature, skip,
                     seen, cut, misled>>
      /\ lost' = IF log \in {path, handle} THEN lost ELSE lost \union {piece.line}
  BY <1>1, <1>2 DEF Write, Files, followVars, IInv, TypeOK
<1>4. /\ content' \in [Files -> Seq(Piece)]
      /\ \A f \in Files : f # log => content'[f] = content[f]
      /\ Len(content'[log]) = Len(content[log]) + 1
      /\ \A i \in 1..Len(content[log]) : content'[log][i] = content[log][i]
      /\ content'[log][Len(content[log]) + 1] = piece
  BY <1>1, <1>3, AppendProperties DEF IInv, WellFormed
<1>5. \A f \in Files : \A i \in 1..Len(content'[f]) :
         \/ i \in 1..Len(content[f]) /\ content'[f][i] = content[f][i]
         \/ f = log /\ i = Len(content[f]) + 1 /\ content'[f][i] = piece
  BY <1>1, <1>3, <1>4
<1>6. \A f \in Files : \A i \in 1..Len(content[f]) : i \in 1..Len(content'[f])
  BY <1>1, <1>3, <1>4
<1>7. WellFormed'
  <2>1. log # 0 /\ lines' # 0
    BY <1>2, <1>3 DEF Files
  <2>2. QED
    BY <1>3, <1>4, <2>1 DEF IInv, WellFormed
<1>8. FilesInOrder'
  <2>1. \A f \in Files : Ordered(content'[f])
    <3> SUFFICES ASSUME NEW f \in Files,
                        NEW i \in 1..Len(content'[f]), NEW j \in 1..Len(content'[f]), i < j
                 PROVE  \/ content'[f][i].line < content'[f][j].line
                        \/ /\ content'[f][i].line = content'[f][j].line
                           /\ ~content'[f][i].end /\ content'[f][j].end
      BY DEF Ordered
    <3>1. CASE j \in 1..Len(content[f])
      <4>1. i \in 1..Len(content[f]) /\ content'[f][i] = content[f][i] /\ content'[f][j] = content[f][j]
        BY <1>1, <1>5, <3>1
      <4>2. Ordered(content[f])
        BY DEF IInv, FilesInOrder
      <4>3. QED
        BY <3>1, <4>1, <4>2 DEF Ordered
    <3>2. CASE f = log /\ j = Len(content[f]) + 1 /\ content'[f][j] = piece
      <4>1. i \in 1..Len(content[f]) /\ content'[f][i] = content[f][i]
        <5>1. Len(content[f]) \in Nat /\ i # Len(content[f]) + 1
          BY <1>1, <3>2
        <5>2. QED
          BY <1>5, <5>1
      <4>2. QED
        BY <1>2, <3>2, <4>1
    <3>3. QED
      BY <1>5, <3>1, <3>2
  <2>2. \A f \in Files : f > log => content'[f] = <<>>
    BY <1>1, <1>4 DEF IInv, FilesInOrder
  <2>3. \A f, g \in Files : f < g =>
           \A i \in 1..Len(content'[f]), j \in 1..Len(content'[g]) :
              content'[f][i].line < content'[g][j].line
    <3> SUFFICES ASSUME NEW f \in Files, NEW g \in Files, f < g,
                        NEW i \in 1..Len(content'[f]), NEW j \in 1..Len(content'[g])
                 PROVE  content'[f][i].line < content'[g][j].line
      OBVIOUS
    <3>1. CASE j \in 1..Len(content[g]) /\ content'[g][j] = content[g][j]
      <4>1. content[g] # <<>> /\ g <= log
        BY <1>1, <1>3, <3>1 DEF IInv, FilesInOrder, Files
      <4>2. content'[f] = content[f]
        <5>1. f # log /\ f \in Files
          BY <1>1, <4>1 DEF Files
        <5>2. QED
          BY <1>1, <1>4, <5>1
      <4>3. QED
        BY <3>1, <4>2 DEF IInv, FilesInOrder
    <3>2. CASE g = log /\ content'[g][j] = piece
      <4>1. f # log /\ content'[f] = content[f]
        BY <1>1, <1>4, <3>2 DEF Files
      <4>2. content[f][i].line < lines'
        BY <1>2, <4>1
      <4>3. QED
        BY <1>2, <3>2, <4>1, <4>2
    <3>3. QED
      BY <1>5, <3>1, <3>2
  <2>4. \A f \in Files : \A i \in 1..Len(content'[f]) :
           /\ content'[f][i].line <= lines'
           /\ half' /\ content'[f][i].line = lines' => f = log /\ ~content'[f][i].end
    <3> SUFFICES ASSUME NEW f \in Files, NEW i \in 1..Len(content'[f])
                 PROVE  /\ content'[f][i].line <= lines'
                        /\ half' /\ content'[f][i].line = lines' => f = log /\ ~content'[f][i].end
      OBVIOUS
    <3>1. CASE i \in 1..Len(content[f]) /\ content'[f][i] = content[f][i]
      <4>1. \/ content[f][i].line < lines'
            \/ content[f][i].line = lines' /\ f = log /\ ~content[f][i].end
        BY <1>2, <3>1
      <4>2. QED
        BY <1>1, <1>2, <3>1, <4>1
    <3>2. CASE f = log /\ content'[f][i] = piece
      BY <1>2, <3>2
    <3>3. QED
      BY <1>5, <3>1, <3>2
  <2>5. QED
    BY <1>3, <2>1, <2>2, <2>3, <2>4 DEF FilesInOrder
<1>9. AheadInOrder'
  <2>1. \A i \in 1..Len(ahead) : ahead[i].line <= lines' /\ (half' => ahead[i].line # lines')
    BY <1>1, <1>2
  <2>2. path \notin {0, handle} => path \in Files /\ path # handle
    BY <1>1, <1>3 DEF IInv, WellFormed, Files
  <2>3. cut => handle \in Files
    BY <1>1 DEF IInv, WellFormed, Files
  <2>4. ASSUME NEW i \in 1..Len(ahead), path \notin {0, handle}, NEW j \in 1..Len(content'[path])
        PROVE  ahead[i].line < content'[path][j].line
    BY <1>1, <1>2, <1>5, <2>2, <2>4 DEF IInv, AheadInOrder
  <2>5. ASSUME NEW i \in 1..Len(ahead), cut, NEW j \in 1..Len(content'[handle])
        PROVE  \/ ahead[i].line < content'[handle][j].line
               \/ /\ ahead[i].line = content'[handle][j].line
                  /\ ~ahead[i].end /\ content'[handle][j].end
    <3>1. CASE j \in 1..Len(content[handle]) /\ content'[handle][j] = content[handle][j]
      BY <2>5, <3>1 DEF IInv, AheadInOrder
    <3>2. CASE content'[handle][j] = piece
      BY <1>2, <3>2
    <3>3. QED
      BY <1>5, <2>3, <2>5, <3>1, <3>2
  <2>6. QED
    BY <1>3, <2>1, <2>4, <2>5 DEF IInv, AheadInOrder, Ordered
<1>10. Placed'
  <2>1. handle # 0 => handle \in Files
    BY <1>1 DEF Files
  <2>2. ahead # <<>> => handle # 0
    BY DEF IInv, WellFormed, TypeOK
  <2>3. Len(ahead) > 0 => ahead # <<>>
    BY EmptySeq
  <2>4. \A f \in Files : Len(content[f]) <= Len(content'[f])
    BY <1>1, <1>3, <1>4
  <2>5. ASSUME ~cut, NEW i \in 1..Len(ahead)
        PROVE  position + i <= Len(content'[handle]) /\ ahead[i] = content'[handle][position + i]
    BY <1>1, <1>3, <1>4, <2>1, <2>2, <2>3, <2>4, <2>5 DEF IInv, Placed
  <2>6. handle # 0 /\ ~cut /\ log <= handle => position + Len(ahead) <= Len(content'[handle])
    BY <1>1, <1>4, <2>1, <2>4 DEF IInv, Placed
  <2>7. QED
    BY <1>3, <2>5, <2>6 DEF IInv, Placed
<1>11. SeenBefore' /\ InOrderOnce'
  <2>1. handle # 0 => handle \in Files
    BY <1>1 DEF Files
  <2>2. path \notin {0, handle} => path \in Files
    BY <1>1, <1>3 DEF IInv, WellFormed, Files
  <2>3. ASSUME NEW k \in 1..Len(seen)
        PROVE  /\ half' => seen[k] < lines'
               /\ \A i \in 1..Len(ahead) : seen[k] < ahead[i].line
               /\ path \notin {0, handle} =>
                    \A i \in 1..Len(content'[path]) : seen[k] < content'[path][i].line
               /\ handle # 0 =>
                    \A i \in 1..Len(content'[handle]) :
                        cut \/ position < i => seen[k] < content'[handle][i].line
    BY <1>1, <1>2, <1>5, <2>1, <2>2 DEF IInv, SeenBefore
  <2>4. QED
    BY <1>3, <2>3 DEF IInv, SeenBefore, InOrderOnce
<1>12. TypeOK'
  <2>1. \A f \in Files : \A i \in 1..Len(content'[f]) : content'[f][i] \in Piece
    BY <1>1, <1>5
  <2>2. Seen' \subseteq 1..lines' /\ lost' \subseteq 1..lines'
    BY <1>1, <1>2, <1>3 DEF IInv, TypeOK, Seen
  <2>3. lines' \in 0..MaxLines
    BY <1>2
  <2>4. QED
    BY <1>2, <1>3, <2>1, <2>2, <2>3 DEF IInv, TypeOK
<1>13. NoLineUnaccounted'
  <2>1. ASSUME NEW n, Reached(n) PROVE Reached(n)'
    <3>1. CASE \E i \in 1..Len(ahead) : ahead[i].line = n
      BY <1>3, <3>1 DEF Reached
    <3>2. ASSUME NEW f \in Files, NEW i \in 1..Len(content[f])
          PROVE  i \in 1..Len(content'[f]) /\ content'[f][i] = content[f][i]
      BY <1>3, <1>4, <1>6
    <3>3. CASE /\ handle # 0
               /\ \E i \in 1..Len(content[handle]) :
                    content[handle][i].line = n /\ (cut \/ position + Len(ahead) < i)
      <4>1. handle \in Files
        BY <1>1, <3>3 DEF Files
      <4>2. PICK i \in 1..Len(content[handle]) :
                   content[handle][i].line = n /\ (cut \/ position + Len(ahead) < i)
        BY <3>3
      <4>3. i \in 1..Len(content'[handle]) /\ content'[handle][i].line = n
        BY <3>2, <4>1, <4>2
      <4>4. QED
        BY <1>3, <3>3, <4>2, <4>3 DEF Reached
    <3>4. CASE path \notin {0, handle} /\ \E i \in 1..Len(content[path]) : content[path][i].line = n
      <4>1. path \in Files
        BY <1>1, <3>4 DEF Files, IInv, WellFormed
      <4>2. PICK i \in 1..Len(content[path]) : content[path][i].line = n
        BY <3>4
      <4>3. i \in 1..Len(content'[path]) /\ content'[path][i].line = n
        BY <3>2, <4>1, <4>2
      <4>4. QED
        BY <1>3, <3>4, <4>3 DEF Reached
    <3>5. QED
      BY <2>1, <3>1, <3>3, <3>4 DEF Reached
  <2>2. ASSUME NEW n, n = lines' PROVE n \in lost' \/ Reached(n)'
    <3>1. CASE log \notin {path, handle}
      BY <1>2, <1>3, <2>2, <3>1
    <3> DEFINE last == Len(content[log]) + 1
    <3>2. last \in 1..Len(content'[log]) /\ content'[log][last].line = lines'
      BY <1>1, <1>2, <1>3, <1>4
    <3>3. CASE log = handle
      <4>1. handle # 0 /\ (cut \/ position + Len(ahead) < last)
        BY <1>1, <1>3, <3>3 DEF Files, IInv, Placed
      <4>2. QED
        BY <1>3, <2>2, <3>2, <3>3, <4>1 DEF Reached
    <3>5. CASE log = path /\ log # handle
      <4>1. path \notin {0, handle}
        BY <1>1, <1>3, <3>5 DEF Files
      <4>2. QED
        BY <1>3, <2>2, <3>2, <3>5, <4>1 DEF Reached
    <3>4. QED
      BY <3>1, <3>3, <3>5
  <2>3. /\ \A n : n \in Coming => n \in Coming'
        /\ lines' \in lost' \union Coming'
    <3>1. \A n : n \in Coming <=> Reached(n)
      BY ComingIs DEF IInv, Shaped
    <3>2. \A n : n \in Coming' <=> Reached(n)'
      BY <1>7, <1>12, ComingIsNext DEF Shaped
    <3>3. QED
      BY <2>1, <2>2, <3>1, <3>2
  <2>4. Seen' = Seen /\ lost \subseteq lost'
    BY <1>3 DEF Seen
  <2>5. \A n \in 1..lines' : n \in 1..lines \/ n = lines'
    BY <1>1, <1>2
  <2>6. QED
    BY <2>3, <2>4, <2>5 DEF IInv, NoLineUnaccounted
<1>14. QED
  BY <1>7, <1>8, <1>9, <1>10, <1>11, <1>12, <1>13 DEF IInv

\* Of a step that begins no line, only the lines that were to come matter.
LEMMA Accounted ==
    ASSUME IInv, TypeOK', WellFormed', lines' = lines, Seen \subseteq Seen', lost \subseteq lost',
           \A n : Reached(n) => n \in Seen' \/ n \in lost' \/ Reached(n)'
    PROVE  NoLineUnaccounted'
<1>1. \A n : n \in Coming <=> Reached(n)
  BY ComingIs DEF IInv, Shaped
<1>2. \A n : n \in Coming' <=> Reached(n)'
  BY ComingIsNext DEF Shaped
<1>3. QED
  BY <1>1, <1>2 DEF IInv, NoLineUnaccounted

\* Every line that lies anywhere has been begun.
LEMMA Begun ==
    ASSUME IInv
    PROVE  LinesOf(ahead) \subseteq 1..lines /\ \A f \in Files : LinesOf(content[f]) \subseteq 1..lines
<1>1. \A p \in Piece : p.line \in 1..MaxLines
  BY DEF Piece
<1>2. \A i \in 1..Len(ahead) : ahead[i].line \in 1..lines
  BY <1>1, Typed DEF Numbers, IInv, AheadInOrder
<1>3. \A f \in Files : \A i \in 1..Len(content[f]) : content[f][i].line \in 1..lines
  BY <1>1, Typed DEF Numbers, IInv, FilesInOrder
<1>4. QED
  BY <1>2, <1>3 DEF LinesOf

LEMMA RenameInv ==
    ASSUME IInv, Rename
    PROVE  IInv'
<1> USE DEF IInv, Numbers
<1>1. Numbers
  BY Typed
<1>2. /\ path \in Files /\ path' = 0 /\ lost' = lost \union Unreachable(path, FALSE)
      /\ UNCHANGED <<log, content, made, lines, half, truncates, pc, handle, position, ahead,
                     signature, skip, seen, cut, misled>>
  BY <1>1 DEF Rename, writeVars, followVars, Files, WellFormed
<1>3. Seen' = Seen
  BY <1>2 DEF Seen
<1>4. WellFormed' /\ FilesInOrder' /\ AheadInOrder' /\ SeenBefore' /\ InOrderOnce'
  <2>1. WellFormed'
    BY <1>2 DEF WellFormed
  <2>2. FilesInOrder' /\ AheadInOrder'
    BY <1>2 DEF FilesInOrder, AheadInOrder
  <2>3. SeenBefore' /\ InOrderOnce'
    BY <1>2 DEF SeenBefore, InOrderOnce
  <2>4. QED
    BY <2>1, <2>2, <2>3
<1>5. Placed'
  BY <1>2 DEF Placed, TypeOK
<1>6. TypeOK'
  <2>1. lost' \subseteq 1..lines
    BY <1>2, Begun DEF Unreachable, TypeOK
  <2>2. path' \in 0..MaxFiles
    BY <1>1, <1>2
  <2>3. QED
    BY <1>2, <1>3, <2>1, <2>2 DEF TypeOK
<1>7. NoLineUnaccounted'
  <2>1. ASSUME NEW n, Reached(n) PROVE n \in Seen' \/ n \in lost' \/ Reached(n)'
    <3>1. CASE path # handle /\ \E i \in 1..Len(content[path]) : content[path][i].line = n
      <4>1. n \in LinesOf(content[path])
        BY <3>1, LinesAre
      <4>2. QED
        BY <1>2, <1>3, <3>1, <4>1 DEF Unreachable
    <3>2. CASE ~(path # handle /\ \E i \in 1..Len(content[path]) : content[path][i].line = n)
      BY <1>2, <2>1, <3>2 DEF Reached
    <3>3. QED
      BY <3>1, <3>2
  <2>2. QED
    BY <1>2, <1>3, <1>4, <1>6, <2>1, Accounted
<1>8. QED
  BY <1>4, <1>5, <1>6, <1>7

LEMMA CreateInv ==
    ASSUME IInv, Create
    PROVE  IInv'
<1> USE DEF IInv, Numbers
<1>1. Numbers
  BY Typed
<1>2. /\ path = 0 /\ path' = made + 1 /\ made' = made + 1 /\ made + 1 \in 1..MaxFiles
      /\ UNCHANGED <<log, content, lines, half, truncates, pc, handle, position, ahead,
                     signature, skip, seen, lost, cut, misled>>
  BY <1>1 DEF Create, writeVars, followVars
<1>3. Seen' = Seen /\ content[path'] = <<>> /\ handle # path'
  BY <1>1, <1>2 DEF Seen, FilesInOrder, WellFormed, Files
<1>4. \A i \in 1..Len(content[path']) : FALSE
  BY <1>3
<1>5. WellFormed' /\ FilesInOrder' /\ InOrderOnce'
  <2>1. log <= made'
    BY <1>1, <1>2 DEF WellFormed
  <2>2. QED
    BY <1>2, <2>1 DEF WellFormed, FilesInOrder, InOrderOnce
<1>6. AheadInOrder' /\ SeenBefore'
  BY <1>2, <1>4 DEF AheadInOrder, SeenBefore
<1>7. Placed'
  BY <1>2, <1>3 DEF Placed
<1>8. TypeOK'
  <2>1. path' \in 0..MaxFiles /\ made' \in 0..MaxFiles /\ handle' \in 0..made' /\ signature' \in 0..made'
    BY <1>1, <1>2 DEF TypeOK
  <2>2. QED
    BY <1>2, <1>3, <2>1 DEF TypeOK
<1>9. NoLineUnaccounted'
  <2>1. ASSUME NEW n, Reached(n) PROVE Reached(n)'
    BY <1>2, <2>1 DEF Reached
  <2>2. QED
    BY <1>2, <1>3, <1>5, <1>8, <2>1, Accounted
<1>10. QED
  BY <1>5, <1>6, <1>7, <1>8, <1>9

LEMMA ReopenInv ==
    ASSUME IInv, Reopen
    PROVE  IInv'
<1> USE DEF IInv, Numbers
<1>1. Numbers
  BY Typed
<1>2. /\ path # 0 /\ path = made /\ log' = path /\ log <= log' /\ ~half
      /\ UNCHANGED <<path, content, made, lines, half, truncates, pc, handle, position, ahead,
                     signature, skip, seen, lost, cut, misled>>
  BY <1>1 DEF Reopen, writeVars, followVars, WellFormed
<1>3. Seen' = Seen
  BY <1>2 DEF Seen
<1>4. WellFormed' /\ InOrderOnce' /\ AheadInOrder' /\ SeenBefore'
  BY <1>1, <1>2 DEF WellFormed, InOrderOnce, AheadInOrder, SeenBefore
<1>5. FilesInOrder'
  <2>1. \A f \in Files : f > log' => content'[f] = <<>>
    BY <1>1, <1>2 DEF FilesInOrder, Files
  <2>2. QED
    BY <1>2, <2>1 DEF FilesInOrder
<1>6. Placed'
  <2>1. log' <= handle => log <= handle
    BY <1>1, <1>2
  <2>2. QED
    BY <1>2, <2>1 DEF Placed
<1>7. TypeOK'
  BY <1>2, <1>3 DEF TypeOK
<1>8. NoLineUnaccounted'
  <2>1. ASSUME NEW n, Reached(n) PROVE Reached(n)'
    BY <1>2, <2>1 DEF Reached
  <2>2. QED
    BY <1>2, <1>3, <1>4, <1>7, <2>1, Accounted
<1>9. QED
  BY <1>4, <1>5, <1>6, <1>7, <1>8

LEMMA TruncateInv ==
    ASSUME IInv, Truncate
    PROVE  IInv'
<1> USE DEF IInv, Numbers
<1>1. Numbers
  BY Typed
<1>2. /\ path \in Files /\ truncates' \in 0..MaxTruncates
      /\ content' = [content EXCEPT ![path] = <<>>]
      /\ lost' = lost \union Unreachable(path, TRUE) /\ cut' = (cut \/ handle = path)
      /\ UNCHANGED <<path, log, made, lines, half, pc, handle, position, ahead, signature,
                     skip, seen, misled>>
  BY <1>1, FollowAssumption DEF Truncate, followVars, Files, WellFormed, TypeOK
<1>3. /\ Seen' = Seen /\ content' \in [Files -> Seq(Piece)] /\ cut' \in BOOLEAN
      /\ content'[path] = <<>> /\ \A i \in 1..Len(content'[path]) : FALSE
      /\ \A f \in Files : f # path => content'[f] = content[f]
  BY <1>1, <1>2 DEF Seen, WellFormed
<1>4. \A f \in Files : content'[f] # content[f] => \A i \in 1..Len(content'[f]) : FALSE
  BY <1>3
<1>5. handle # path => cut' = cut /\ (handle # 0 => content'[handle] = content[handle])
  BY <1>1, <1>2, <1>3 DEF Files
<1>6. WellFormed' /\ InOrderOnce'
  <2>1. cut' => handle # 0
    BY <1>1, <1>2 DEF WellFormed, Files
  <2>2. QED
    BY <1>2, <1>3, <2>1 DEF WellFormed, InOrderOnce
<1>7. FilesInOrder'
  <2>1. \A f \in Files : Ordered(content'[f])
    BY <1>3, <1>4 DEF FilesInOrder, Ordered
  <2>2. \A f \in Files : f > log => content'[f] = <<>>
    BY <1>3 DEF FilesInOrder
  <2>3. \A f, g \in Files : f < g =>
           \A i \in 1..Len(content'[f]), j \in 1..Len(content'[g]) :
              content'[f][i].line < content'[g][j].line
    BY <1>4 DEF FilesInOrder
  <2>4. \A f \in Files : \A i \in 1..Len(content'[f]) :
           /\ content'[f][i].line <= lines
           /\ half /\ content'[f][i].line = lines => f = log /\ ~content'[f][i].end
    BY <1>4 DEF FilesInOrder
  <2>5. QED
    BY <1>2, <2>1, <2>2, <2>3, <2>4 DEF FilesInOrder
<1>8. AheadInOrder'
  BY <1>2, <1>3, <1>5 DEF AheadInOrder, WellFormed
<1>9. SeenBefore'
  BY <1>2, <1>3, <1>5 DEF SeenBefore
<1>10. Placed'
  <2>1. CASE handle = path
    BY <1>2, <2>1 DEF Placed
  <2>2. CASE handle # path
    <3>1. ahead # <<>> => handle # 0
      BY DEF WellFormed, TypeOK
    <3>2. \A i \in 1..Len(ahead) : ahead # <<>>
      BY EmptySeq
    <3>3. QED
      BY <1>2, <1>5, <2>2, <3>1, <3>2 DEF Placed
  <2>3. QED
    BY <2>1, <2>2
<1>11. TypeOK'
  <2>1. lost' \subseteq 1..lines
    BY <1>2, Begun DEF Unreachable, TypeOK
  <2>2. \A f \in Files : \A i \in 1..Len(content'[f]) : content'[f][i] \in Piece
    BY <1>3
  <2>3. {skip, cut'} \subseteq BOOLEAN
    BY <1>3 DEF TypeOK
  <2>4. QED
    BY <1>2, <1>3, <2>1, <2>2, <2>3 DEF TypeOK
<1>12. NoLineUnaccounted'
  <2>1. ASSUME NEW n, Reached(n) PROVE n \in Seen' \/ n \in lost' \/ Reached(n)'
    <3>1. CASE \E i \in 1..Len(ahead) : ahead[i].line = n
      BY <1>2, <3>1 DEF Reached
    <3>2. CASE ~(\E i \in 1..Len(ahead) : ahead[i].line = n) /\ n \in LinesOf(content[path])
      <4>1. n \notin LinesOf(ahead)
        BY <3>2, LinesAre
      <4>2. QED
        BY <1>2, <1>3, <3>2, <4>1 DEF Unreachable
    <3>3. CASE n \notin LinesOf(content[path])
      <4>1. ~(\E i \in 1..Len(content[path]) : content[path][i].line = n)
        BY <3>3, LinesAre
      <4>2. QED
        BY <1>2, <1>5, <2>1, <4>1 DEF Reached
    <3>4. QED
      BY <3>1, <3>2, <3>3
  <2>2. QED
    BY <1>2, <1>3, <1>6, <1>11, <2>1, Accounted
<1>13. QED
  BY <1>6, <1>7, <1>8, <1>9, <1>10, <1>11, <1>12

-----------------------------------------------------------------------------
(* The follower, but for the reading.                                      *)

LEMMA OpenInv ==
    ASSUME IInv, Open
    PROVE  IInv'
<1> USE DEF IInv, Numbers
<1>1. Numbers
  BY Typed
<1>2. /\ path \in Files /\ handle = 0 /\ handle' = path /\ position' = 0
      /\ pc' \in {"seek", "sign"} /\ ahead = <<>> /\ ~cut /\ path = made
      /\ UNCHANGED <<path, log, content, made, lines, half, truncates, ahead, signature, skip,
                     seen, lost, cut, misled>>
  BY <1>1 DEF Open, fileVars, writeVars, Files, WellFormed, TypeOK
<1>3. Seen' = Seen /\ \A i \in 1..Len(ahead) : FALSE
  BY <1>2 DEF Seen
<1>4. WellFormed' /\ FilesInOrder' /\ InOrderOnce'
  BY <1>2 DEF WellFormed, FilesInOrder, InOrderOnce
<1>5. AheadInOrder'
  BY <1>2, <1>3 DEF AheadInOrder
<1>6. SeenBefore'
  BY <1>1, <1>2, <1>3 DEF SeenBefore, Files
<1>7. Placed'
  BY <1>1, <1>2, <1>3 DEF Placed
<1>8. TypeOK'
  <2>1. handle' \in 0..made' /\ (handle' = 0) = (pc' = "open") /\ position' \in Nat
    BY <1>1, <1>2 DEF Files
  <2>2. pc' \in {"open", "seek", "sign", "read", "stat"}
    BY <1>2
  <2>3. QED
    BY <1>2, <1>3, <2>1, <2>2 DEF TypeOK
<1>9. NoLineUnaccounted'
  <2>1. Len(ahead) = 0
    BY <1>2
  <2>2. ASSUME NEW n, Reached(n) PROVE Reached(n)'
    BY <1>1, <1>2, <2>1, <2>2 DEF Reached, Files
  <2>3. QED
    BY <1>2, <1>3, <1>4, <1>8, <2>2, Accounted
<1>10. QED
  BY <1>4, <1>5, <1>6, <1>7, <1>8, <1>9

LEMMA SeekInv ==
    ASSUME IInv, Seek
    PROVE  IInv'
<1> USE DEF IInv, Numbers
<1>1. Numbers
  BY Typed
<1>2. /\ handle \in Files /\ pc = "seek" /\ pc' = "sign" /\ ahead = <<>>
      /\ position' = Len(content[handle]) /\ skip' = FALSE
      /\ lost' = lost \union LinesOf(content[handle])
      /\ UNCHANGED <<path, log, content, made, lines, half, truncates, handle, ahead, signature,
                     seen, cut, misled>>
  BY <1>1 DEF Seek, fileVars, writeVars, Files, WellFormed, TypeOK
<1>3. Seen' = Seen /\ Len(ahead) = 0 /\ \A i \in 1..Len(ahead) : FALSE
  BY <1>2 DEF Seen
<1>4. WellFormed' /\ FilesInOrder' /\ InOrderOnce' /\ AheadInOrder'
  BY <1>2 DEF WellFormed, FilesInOrder, InOrderOnce, AheadInOrder
<1>5. SeenBefore'
  <2>1. \A i \in 1..Len(content[handle]) : ~(position' < i)
    BY <1>1, <1>2
  <2>2. QED
    BY <1>2, <1>3, <2>1 DEF SeenBefore
<1>6. Placed'
  BY <1>1, <1>2, <1>3 DEF Placed
<1>7. TypeOK'
  <2>1. lost' \subseteq 1..lines
    BY <1>2, Begun DEF TypeOK
  <2>2. position' \in Nat /\ {skip', cut} \subseteq BOOLEAN
    BY <1>1, <1>2 DEF TypeOK
  <2>3. QED
    BY <1>2, <1>3, <2>1, <2>2 DEF TypeOK
<1>8. NoLineUnaccounted'
  <2>1. ASSUME NEW n, Reached(n) PROVE n \in Seen' \/ n \in lost' \/ Reached(n)'
    <3>1. CASE n \in LinesOf(content[handle])
      BY <1>2, <3>1
    <3>2. CASE n \notin LinesOf(content[handle])
      <4>1. ~(\E i \in 1..Len(content[handle]) : content[handle][i].line = n)
        BY <3>2, LinesAre
      <4>2. QED
        BY <1>2, <2>1, <4>1 DEF Reached
    <3>3. QED
      BY <3>1, <3>2
  <2>2. QED
    BY <1>2, <1>3, <1>4, <1>7, <2>1, Accounted
<1>9. QED
  BY <1>4, <1>5, <1>6, <1>7, <1>8

LEMMA SignInv ==
    ASSUME IInv, Sign
    PROVE  IInv'
<1> USE DEF IInv, Numbers
<1>1. Numbers
  BY Typed
<1>2. /\ pc = "sign" /\ pc' = "read" /\ signature' = path /\ ahead = <<>>
      /\ misled' = (path # handle)
      /\ UNCHANGED <<path, log, content, made, lines, half, truncates, handle, position, ahead,
                     skip, seen, lost, cut>>
  BY DEF Sign, fileVars, writeVars, WellFormed
<1>3. Seen' = Seen
  BY <1>2 DEF Seen
<1>4. WellFormed' /\ FilesInOrder' /\ InOrderOnce' /\ AheadInOrder' /\ SeenBefore' /\ Placed'
  BY <1>2 DEF WellFormed, FilesInOrder, InOrderOnce, AheadInOrder, SeenBefore, Placed
<1>5. TypeOK'
  <2>1. misled' \in BOOLEAN
    BY <1>2
  <2>2. signature' \in 0..made /\ {skip, cut, misled'} \subseteq BOOLEAN
    BY <1>1, <1>2, <2>1 DEF WellFormed, TypeOK
  <2>3. QED
    BY <1>2, <1>3, <2>2 DEF TypeOK
<1>6. NoLineUnaccounted'
  <2>1. ASSUME NEW n, Reached(n) PROVE Reached(n)'
    BY <1>2, <2>1 DEF Reached
  <2>2. QED
    BY <1>2, <1>3, <1>4, <1>5, <2>1, Accounted
<1>7. QED
  BY <1>4, <1>5, <1>6

LEMMA EndOfFileInv ==
    ASSUME IInv, EndOfFile
    PROVE  IInv'
<1> USE DEF IInv, Numbers
<1>1. Numbers
  BY Typed
<1>2. /\ pc = "read" /\ pc' = "stat" /\ Buffered = {<<>>}
      /\ UNCHANGED <<path, log, content, made, lines, half, truncates, handle, position, ahead,
                     signature, skip, seen, lost, cut, misled>>
  BY DEF EndOfFile, fileVars, writeVars
<1>3. ahead = <<>>
  <2>1. CASE Ends(ahead) # {}
    BY <1>2, <2>1 DEF Buffered
  <2>2. CASE Ends(ahead) = {}
    <3>1. Unread \in Seq(Piece) /\ ahead \in Seq(Piece)
      BY <1>2, UnreadIs DEF Shaped, TypeOK, WellFormed
    <3>2. Len(Unread) \in 0..Len(Unread) /\ SubSeq(Unread, 1, Len(Unread)) = Unread
      BY <3>1, SubSeqFull
    <3>3. ahead \o Unread \in Buffered
      BY <2>2, <3>2 DEF Buffered
    <3>4. QED
      BY <1>2, <3>1, <3>3, ConcatEqualIffEmpty
  <2>3. QED
    BY <2>1, <2>2
<1>4. Seen' = Seen
  BY <1>2 DEF Seen
<1>5. WellFormed' /\ FilesInOrder' /\ InOrderOnce' /\ AheadInOrder' /\ SeenBefore' /\ Placed'
  BY <1>2, <1>3 DEF WellFormed, FilesInOrder, InOrderOnce, AheadInOrder, SeenBefore, Placed
<1>6. TypeOK'
  BY <1>2, <1>4 DEF TypeOK
<1>7. NoLineUnaccounted'
  <2>1. ASSUME NEW n, Reached(n) PROVE Reached(n)'
    BY <1>2, <2>1 DEF Reached
  <2>2. QED
    BY <1>2, <1>4, <1>5, <1>6, <2>1, Accounted
<1>8. QED
  BY <1>5, <1>6, <1>7

\* The file at the path is left only when it was emptied under the follower.
LEMMA LeaveInv ==
    ASSUME IInv, Leave
    PROVE  IInv'
<1> USE DEF IInv, Numbers
<1>1. Numbers
  BY Typed
<1>2. /\ pc = "stat" /\ Rotated /\ handle \in Files /\ handle' = 0 /\ pc' = "open"
      /\ ahead = <<>> /\ cut' = FALSE /\ path \in {0, made} /\ log <= made
      /\ lost' = IF handle = path THEN lost ELSE lost \union (LinesOf(content[handle]) \ Seen)
      /\ UNCHANGED <<path, log, content, made, lines, half, truncates, position, ahead,
                     signature, skip, seen, misled>>
  BY <1>1 DEF Leave, fileVars, writeVars, Files, WellFormed, TypeOK
<1>3. Seen' = Seen /\ Len(ahead) = 0 /\ \A i \in 1..Len(ahead) : FALSE
  BY <1>2 DEF Seen
<1>4. handle = path => cut
  <2>1. ASSUME handle = path PROVE Len(content[path]) < position
    BY <1>1, <1>2, <2>1 DEF Rotated, Placed, Files
  <2>2. ASSUME handle = path, ~cut PROVE position <= Len(content[path])
    BY <1>1, <1>2, <1>3, <2>2 DEF Placed, Files
  <2>3. QED
    BY <1>1, <1>2, <2>1, <2>2
<1>5. WellFormed' /\ FilesInOrder' /\ InOrderOnce'
  BY <1>2 DEF WellFormed, FilesInOrder, InOrderOnce
<1>6. AheadInOrder' /\ Placed'
  BY <1>2, <1>3 DEF AheadInOrder, Placed
<1>7. SeenBefore'
  <2>1. CASE handle = path
    BY <1>2, <1>3, <1>4, <2>1 DEF SeenBefore, Files
  <2>2. CASE handle # path
    BY <1>2, <1>3, <2>2 DEF SeenBefore
  <2>3. QED
    BY <2>1, <2>2
<1>8. TypeOK'
  <2>1. lost' \subseteq 1..lines
    BY <1>2, Begun DEF TypeOK
  <2>2. handle' \in 0..made /\ (handle' = 0) = (pc' = "open")
    BY <1>1, <1>2
  <2>3. {skip, cut'} \subseteq BOOLEAN
    BY <1>2 DEF TypeOK
  <2>4. QED
    BY <1>2, <1>3, <2>1, <2>2, <2>3 DEF TypeOK
<1>9. NoLineUnaccounted'
  <2>1. ASSUME NEW n, Reached(n) PROVE n \in Seen' \/ n \in lost' \/ Reached(n)'
    <3>1. CASE handle = path
      BY <1>2, <1>3, <2>1, <3>1 DEF Reached, Files
    <3>2. CASE handle # path /\ n \in LinesOf(content[handle])
      BY <1>2, <1>3, <3>2
    <3>3. CASE handle # path /\ n \notin LinesOf(content[handle])
      <4>1. ~(\E i \in 1..Len(content[handle]) : content[handle][i].line = n)
        BY <3>3, LinesAre
      <4>2. QED
        BY <1>2, <1>3, <2>1, <4>1 DEF Reached
    <3>4. QED
      BY <3>1, <3>2, <3>3
  <2>2. QED
    BY <1>2, <1>3, <1>5, <1>8, <2>1, Accounted
<1>10. QED
  BY <1>5, <1>6, <1>7, <1>8, <1>9

\* The follower goes on with the file it has: it is at its place in it, or
\* the file is not the one at the path, and nginx has gone on to that one.
LEMMA QuietInv ==
    ASSUME IInv, Quiet
    PROVE  IInv'
<1> USE DEF IInv, Numbers
<1>1. Numbers
  BY Typed
<1>2. /\ pc = "stat" /\ ~Rotated /\ handle \in Files /\ pc' = "read" /\ ahead = <<>>
      /\ cut' = FALSE /\ path \in {0, made} /\ log <= made /\ lost' = lost \union Overgrown
      /\ UNCHANGED <<path, log, content, made, lines, half, truncates, handle, position, ahead,
                     signature, skip, seen, misled>>
  BY <1>1 DEF Quiet, fileVars, writeVars, Files, WellFormed, TypeOK
<1>3. Seen' = Seen /\ Len(ahead) = 0 /\ \A i \in 1..Len(ahead) : FALSE
  BY <1>2 DEF Seen
<1>4. WellFormed' /\ FilesInOrder' /\ InOrderOnce'
  BY <1>2 DEF WellFormed, FilesInOrder, InOrderOnce
<1>5. AheadInOrder'
  BY <1>2, <1>3 DEF AheadInOrder
<1>6. SeenBefore'
  BY <1>2, <1>3 DEF SeenBefore
<1>7. Placed'
  <2>1. path \in Files /\ path = made /\ position <= Len(content[path])
    BY <1>1, <1>2 DEF Rotated, Files
  <2>2. log <= handle => position <= Len(content[handle])
    <3>1. CASE handle = path
      BY <2>1, <3>1
    <3>2. CASE handle # path /\ position = 0
      BY <1>1, <1>2, <3>2
    <3>3. CASE handle # path /\ position # 0
      <4>1. content[path] # <<>>
        BY <1>1, <2>1, <3>3
      <4>2. path <= log
        BY <1>1, <2>1, <4>1 DEF FilesInOrder
      <4>3. QED
        BY <1>1, <2>1, <3>3, <4>2
    <3>4. QED
      BY <3>1, <3>2, <3>3
  <2>3. handle = path => signature = path
    BY <1>2 DEF Placed
  <2>4. QED
    BY <1>1, <1>2, <1>3, <2>2, <2>3 DEF Placed
<1>8. TypeOK'
  <2>1. lost' \subseteq 1..lines
    BY <1>2, Begun DEF TypeOK, Overgrown
  <2>2. {skip, cut'} \subseteq BOOLEAN /\ pc' \in {"open", "seek", "sign", "read", "stat"}
    BY <1>2 DEF TypeOK
  <2>3. (handle = 0) = (pc' = "open")
    BY <1>1, <1>2 DEF Files
  <2>4. QED
    BY <1>2, <1>3, <2>1, <2>2, <2>3 DEF TypeOK
<1>9. NoLineUnaccounted'
  <2>1. ASSUME NEW n, Reached(n) PROVE n \in Seen' \/ n \in lost' \/ Reached(n)'
    <3>1. CASE cut /\ n \in LinesOf(content[handle]) /\ n \notin LinesOf(Unread)
      BY <1>2, <1>3, <3>1 DEF Overgrown
    <3>2. CASE n \in LinesOf(Unread)
      <4>1. PICK i \in 1..Len(Unread) : Unread[i].line = n
        BY <3>2, LinesAre
      <4>2. /\ position + i \in 1..Len(content[handle]) /\ position < position + i
            /\ Unread[i] = content[handle][position + i]
        BY <1>1, <1>2, <1>3, <4>1, UnreadIs DEF Shaped, Files
      <4>3. QED
        BY <1>1, <1>2, <1>3, <4>1, <4>2 DEF Reached, Files
    <3>3. CASE ~cut \/ n \notin LinesOf(content[handle])
      <4>1. n \notin LinesOf(content[handle]) =>
               ~(\E i \in 1..Len(content[handle]) : content[handle][i].line = n)
        BY LinesAre
      <4>2. QED
        BY <1>2, <1>3, <2>1, <3>3, <4>1 DEF Reached
    <3>4. QED
      BY <3>1, <3>2, <3>3
  <2>2. QED
    BY <1>2, <1>3, <1>4, <1>8, <2>1, Accounted
<1>10. QED
  BY <1>4, <1>5, <1>6, <1>7, <1>8, <1>9

-----------------------------------------------------------------------------
(* The reading.                                                            *)

\* What text the buffer holds once it is filled, k pieces from the file after
\* those ahead, and what taking its first line, of n pieces, leaves.
Reading(text, k, n) ==
    /\ text \in Seq(Piece) /\ k \in Nat /\ n \in 1..Len(text)
    /\ Len(text) = Len(ahead) + k
    /\ \A i \in 1..Len(ahead) : text[i] = ahead[i]
    /\ \A i \in 1..k :
         /\ position + Len(ahead) + i \in 1..Len(content[handle])
         /\ text[Len(ahead) + i] = content[handle][position + Len(ahead) + i]
    /\ k # 0 => Len(ahead) < n
    /\ ahead' \in Seq(Piece) /\ Len(ahead') = Len(text) - n
    /\ \A i \in 1..Len(ahead') : ahead'[i] = text[n + i]
    /\ position' = position + n
    /\ \/ seen' = seen /\ \A i \in 1..n : text[i].line \in lost'
       \/ /\ seen' = Append(seen, text[1].line) /\ text[n].end
          /\ \A i \in 1..n : text[i].line = text[1].line
    /\ lost \subseteq lost' /\ lost' \subseteq 1..lines
    /\ k = 0 => cut' = cut
    /\ k # 0 => cut' = FALSE /\ Overgrown \subseteq lost'

LEMMA FilledIs ==
    ASSUME IInv, pc = "read", NEW text \in Buffered
    PROVE  \E k \in Nat :
             /\ text \in Seq(Piece) /\ Len(text) = Len(ahead) + k
             /\ \A i \in 1..Len(ahead) : text[i] = ahead[i]
             /\ \A i \in 1..k :
                  /\ position + Len(ahead) + i \in 1..Len(content[handle])
                  /\ text[Len(ahead) + i] = content[handle][position + Len(ahead) + i]
             /\ k # 0 => Ends(ahead) = {}
             /\ k = 0 <=> text = ahead
<1> USE DEF Numbers
<1>1. Numbers /\ handle # 0 /\ ahead \in Seq(Piece)
  BY Typed DEF IInv, TypeOK, WellFormed
<1>2. CASE Ends(ahead) # {}
  <2>1. text = ahead
    BY <1>2 DEF Buffered
  <2>2. QED
    BY <1>1, <2>1
<1>3. CASE Ends(ahead) = {}
  <2>1. PICK k \in 0..Len(Unread) : text = ahead \o SubSeq(Unread, 1, k)
    BY <1>3 DEF Buffered
  <2>2. /\ Unread \in Seq(Piece) /\ Len(Unread) \in Nat
        /\ \A i \in 1..Len(Unread) :
             /\ position + Len(ahead) + i \in 1..Len(content[handle])
             /\ Unread[i] = content[handle][position + Len(ahead) + i]
    BY <1>1, UnreadIs DEF IInv, Shaped, Files
  <2>3. /\ SubSeq(Unread, 1, k) \in Seq(Piece) /\ Len(SubSeq(Unread, 1, k)) = k /\ k \in Nat
        /\ \A i \in 1..k : SubSeq(Unread, 1, k)[i] = Unread[i]
    BY <2>2, PrefixIs
  <2>4. /\ text \in Seq(Piece) /\ Len(text) = Len(ahead) + k
        /\ \A i \in 1..(Len(ahead) + k) :
             text[i] = IF i <= Len(ahead) THEN ahead[i] ELSE SubSeq(Unread, 1, k)[i - Len(ahead)]
    BY <1>1, <2>1, <2>3, ConcatProperties
  <2>5. \A i \in 1..Len(ahead) : text[i] = ahead[i]
    BY <1>1, <2>3, <2>4
  <2>6. ASSUME NEW i \in 1..k
        PROVE  /\ position + Len(ahead) + i \in 1..Len(content[handle])
               /\ text[Len(ahead) + i] = content[handle][position + Len(ahead) + i]
    <3>1. /\ Len(ahead) + i \in 1..(Len(ahead) + k) /\ ~(Len(ahead) + i <= Len(ahead))
          /\ Len(ahead) + i - Len(ahead) = i /\ i \in 1..Len(Unread)
      BY <1>1, <2>2, <2>3
    <3>2. text[Len(ahead) + i] = SubSeq(Unread, 1, k)[Len(ahead) + i - Len(ahead)]
      BY <2>4, <3>1
    <3>3. QED
      BY <2>2, <2>3, <3>1, <3>2
  <2>7. k = 0 <=> text = ahead
    BY <1>1, <2>1, <2>3, <2>4, ConcatEqualIffEmpty, EmptySeq
  <2>8. k \in Nat
    BY <2>3
  <2>9. QED
    BY <1>3, <2>4, <2>5, <2>6, <2>7, <2>8
<1>4. QED
  BY <1>2, <1>3

LEMMA ReadingIs ==
    ASSUME IInv, ReadLine
    PROVE  \E text, k, n : Reading(text, k, n)
<1> USE DEF Numbers
<1>1. Numbers /\ pc = "read" /\ handle \in Files
  <2>1. Numbers /\ pc = "read" /\ handle # 0
    BY Typed DEF ReadLine, IInv, TypeOK
  <2>2. QED
    BY <2>1 DEF Files
<1>2. PICK text \in Buffered :
        /\ text # <<>>
        /\ ahead' = After(text, Len(FirstLine(text)))
        /\ position' = position + Len(FirstLine(text))
        /\ seen' = IF Parses(FirstLine(text)) THEN Append(seen, FirstLine(text)[1].line) ELSE seen
        /\ lost' = lost \union (IF Parses(FirstLine(text)) THEN {} ELSE LinesOf(FirstLine(text)))
                        \union (IF text = ahead THEN {} ELSE Overgrown)
        /\ cut' = (cut /\ text = ahead)
  BY DEF ReadLine
<1>3. PICK k \in Nat :
        /\ text \in Seq(Piece) /\ Len(text) = Len(ahead) + k
        /\ \A i \in 1..Len(ahead) : text[i] = ahead[i]
        /\ \A i \in 1..k :
             /\ position + Len(ahead) + i \in 1..Len(content[handle])
             /\ text[Len(ahead) + i] = content[handle][position + Len(ahead) + i]
        /\ k # 0 => Ends(ahead) = {}
        /\ k = 0 <=> text = ahead
  BY <1>1, FilledIs
<1> DEFINE line == FirstLine(text)
<1>4. PICK n \in 1..Len(text) :
        /\ Len(line) = n
        /\ \A i \in 1..n : line[i] = text[i]
        /\ text[n].end \/ n = Len(text)
  BY <1>2, <1>3, FirstLineIs
<1> HIDE DEF line
<1>5. k # 0 => Len(ahead) < n
  <2>1. ASSUME k # 0, n \in 1..Len(ahead) PROVE FALSE
    <3>1. ~text[n].end
      BY <1>3, <2>1 DEF Ends
    <3>2. QED
      BY <1>1, <1>3, <1>4, <2>1, <3>1
  <2>2. QED
    BY <1>1, <1>3, <2>1
<1>6. /\ ahead' \in Seq(Piece) /\ Len(ahead') = Len(text) - n
      /\ \A i \in 1..Len(ahead') : ahead'[i] = text[n + i]
  <2>1. ahead' = After(text, n)
    BY <1>2, <1>4 DEF line
  <2>2. QED
    <3>1. text \in Seq(Piece) /\ n \in Nat /\ n <= Len(text) /\ Len(text) \in Nat
      BY <1>1, <1>3
    <3>2. After(text, n) \in Seq(Piece) /\ Len(After(text, n)) = Len(text) - n
          /\ \A i \in 1..Len(After(text, n)) : After(text, n)[i] = text[n + i]
      BY <3>1, AfterIs
    <3>3. QED
      BY <2>1, <3>2
<1>7. \A i \in 1..n : text[i].line \in 1..lines
  <2>1. \A i \in 1..Len(ahead) : ahead[i].line \in 1..lines
    BY Begun DEF LinesOf
  <2>2. \A i \in 1..Len(content[handle]) : content[handle][i].line \in 1..lines
    BY <1>1, Begun DEF LinesOf
  <2>3. ASSUME NEW i \in 1..Len(text)
        PROVE  text[i].line \in 1..lines
    <3>1. CASE i \in 1..Len(ahead)
      BY <1>3, <2>1, <3>1
    <3>2. CASE i - Len(ahead) \in 1..k
      <4>1. Len(ahead) + (i - Len(ahead)) = i
        BY <1>1
      <4>2. text[i] = content[handle][position + Len(ahead) + (i - Len(ahead))]
        BY <1>3, <3>2, <4>1
      <4>3. QED
        BY <1>3, <2>2, <3>2, <4>2
    <3>3. QED
      BY <1>1, <1>3, <3>1, <3>2
  <2>4. QED
    BY <1>1, <1>3, <2>3
<1>8. LinesOf(line) \subseteq 1..lines /\ \A i \in 1..n : text[i].line \in LinesOf(line)
  BY <1>4, <1>7 DEF LinesOf
<1>9. \/ seen' = seen /\ \A i \in 1..n : text[i].line \in lost'
      \/ /\ seen' = Append(seen, text[1].line) /\ text[n].end
         /\ \A i \in 1..n : text[i].line = text[1].line
  <2>1. 1 \in 1..n /\ n \in 1..n
    BY <1>1, <1>3
  <2>2. CASE Parses(line)
    <3>1. seen' = Append(seen, text[1].line)
      BY <1>2, <1>4, <2>1, <2>2 DEF line
    <3>2. text[n].end /\ \A i \in 1..n : text[i].line = text[1].line
      BY <1>4, <2>1, <2>2 DEF Parses
    <3>3. QED
      BY <3>1, <3>2
  <2>3. CASE ~Parses(line)
    <3>1. seen' = seen /\ LinesOf(line) \subseteq lost'
      BY <1>2, <2>3 DEF line
    <3>2. QED
      BY <1>8, <3>1
  <2>4. QED
    BY <2>2, <2>3
<1>10. lost \subseteq lost' /\ lost' \subseteq 1..lines
  <2>1. Overgrown \subseteq 1..lines /\ lost \subseteq 1..lines
    BY <1>1, Begun DEF Overgrown, IInv, TypeOK
  <2>2. QED
    BY <1>2, <1>8, <2>1 DEF line
<1>11. (k = 0 => cut' = cut) /\ (k # 0 => cut' = FALSE /\ Overgrown \subseteq lost')
  BY <1>1, <1>2, <1>3
<1>12. position' = position + n
  BY <1>2, <1>4 DEF line
<1>13. QED
  BY <1>3, <1>4, <1>5, <1>6, <1>9, <1>10, <1>11, <1>12 DEF Reading

LEMMA ReadLineInv ==
    ASSUME IInv, ReadLine
    PROVE  IInv'
<1> USE DEF Numbers
<1>1. Numbers /\ pc = "read" /\ handle \in Files
  <2>1. Numbers /\ pc = "read" /\ handle # 0
    BY Typed DEF ReadLine, IInv, TypeOK
  <2>2. QED
    BY <2>1 DEF Files
<1>2. PICK text, k, n : Reading(text, k, n)
  BY ReadingIs
<1>3. UNCHANGED <<path, log, content, made, lines, half, truncates, pc, handle, signature, skip,
                  misled>>
  BY DEF ReadLine, fileVars, writeVars
<1>4. /\ text \in Seq(Piece) /\ k \in Nat /\ n \in 1..Len(text) /\ Len(text) \in Nat
      /\ Len(text) = Len(ahead) + k /\ n \in Nat /\ n \in 1..n /\ 1 \in 1..n
      /\ \A i \in 1..Len(text) : text[i] \in Piece /\ text[i].line \in Nat
  <2>1. \A p \in Piece : p.line \in Nat
    BY DEF Piece
  <2>2. text \in Seq(Piece) /\ k \in Nat /\ n \in 1..Len(text) /\ Len(text) = Len(ahead) + k
    BY <1>2 DEF Reading
  <2>3. Len(text) \in Nat /\ \A i \in 1..Len(text) : text[i] \in Piece
    BY <2>2
  <2>4. QED
    BY <1>1, <2>1, <2>2, <2>3
\* A piece of the text was ahead, or is in the file.
<1>5. ASSUME NEW i \in 1..Len(text)
      PROVE  \/ i \in 1..Len(ahead) /\ text[i] = ahead[i]
             \/ /\ k # 0 /\ i > Len(ahead) /\ position + i \in 1..Len(content[handle])
                /\ text[i] = content[handle][position + i]
  <2>1. CASE i \in 1..Len(ahead)
    BY <1>2, <2>1 DEF Reading
  <2>2. CASE i \notin 1..Len(ahead)
    <3>1. /\ i - Len(ahead) \in 1..k /\ Len(ahead) + (i - Len(ahead)) = i /\ k # 0
          /\ position + Len(ahead) + (i - Len(ahead)) = position + i /\ i > Len(ahead)
      BY <1>1, <1>4, <2>2
    <3>2. QED
      BY <1>2, <3>1 DEF Reading
  <2>3. QED
    BY <2>1, <2>2
<1>6. ASSUME k # 0, NEW i \in n..Len(text)
      PROVE  /\ position + i \in 1..Len(content[handle])
             /\ text[i] = content[handle][position + i]
  BY <1>1, <1>2, <1>4, <1>5, <1>6 DEF Reading
<1>7. ASSUME k = 0, NEW i \in 1..Len(text)
      PROVE  i \in 1..Len(ahead) /\ text[i] = ahead[i]
  BY <1>5, <1>7
\* What is ahead afterwards is the rest of the text.
<1>8. ASSUME NEW i \in 1..Len(ahead')
      PROVE  n + i \in 1..Len(text) /\ n + i \in n..Len(text) /\ ahead'[i] = text[n + i]
  BY <1>2, <1>4, <1>8 DEF Reading
<1>9. ASSUME NEW i \in n..Len(text), NEW j \in n..Len(text), i < j
      PROVE  \/ text[i].line < text[j].line
             \/ text[i].line = text[j].line /\ ~text[i].end /\ text[j].end
  <2>1. CASE k = 0
    <3>1. i \in 1..Len(ahead) /\ text[i] = ahead[i] /\ j \in 1..Len(ahead) /\ text[j] = ahead[j]
      BY <1>4, <1>7, <2>1
    <3>2. Ordered(ahead)
      BY DEF IInv, AheadInOrder
    <3>3. QED
      BY <1>9, <3>1, <3>2 DEF Ordered
  <2>2. CASE k # 0
    <3>1. /\ position + i \in 1..Len(content[handle]) /\ text[i] = content[handle][position + i]
          /\ position + j \in 1..Len(content[handle]) /\ text[j] = content[handle][position + j]
          /\ position + i < position + j
      BY <1>1, <1>4, <1>6, <1>9, <2>2
    <3>2. Ordered(content[handle])
      BY <1>1 DEF IInv, FilesInOrder
    <3>3. QED
      BY <3>1, <3>2 DEF Ordered
  <2>3. QED
    BY <2>1, <2>2
<1>10. WellFormed'
  <2>1. seen' \in Seq(Nat)
    <3>1. text[1].line \in Nat
      BY <1>4
    <3>2. seen \in Seq(Nat) /\ (seen' = seen \/ seen' = Append(seen, text[1].line))
      BY <1>2 DEF Reading, IInv, WellFormed
    <3>3. QED
      BY <3>1, <3>2, AppendProperties
  <2>2. cut' => handle # 0
    BY <1>1 DEF Files
  <2>3. QED
    BY <1>1, <1>2, <1>3, <2>1, <2>2 DEF Reading, IInv, WellFormed
<1>11. FilesInOrder'
  BY <1>3 DEF IInv, FilesInOrder

<1>12. AheadInOrder'
  <2>1. Ordered(ahead')
    <3> SUFFICES ASSUME NEW i \in 1..Len(ahead'), NEW j \in 1..Len(ahead'), i < j
                 PROVE  \/ ahead'[i].line < ahead'[j].line
                        \/ /\ ahead'[i].line = ahead'[j].line
                           /\ ~ahead'[i].end /\ ahead'[j].end
      BY DEF Ordered
    <3>1. /\ n + i \in n..Len(text) /\ ahead'[i] = text[n + i]
          /\ n + j \in n..Len(text) /\ ahead'[j] = text[n + j] /\ n + i < n + j
      BY <1>4, <1>8
    <3>2. QED
      BY <1>9, <3>1
  <2>2. ASSUME NEW i \in 1..Len(ahead')
        PROVE  /\ ahead'[i].line <= lines
               /\ half /\ ahead'[i].line = lines => handle = log /\ ~ahead'[i].end
               /\ path \notin {0, handle} =>
                    \A j \in 1..Len(content[path]) : ahead'[i].line < content[path][j].line
               /\ cut' => \A j \in 1..Len(content[handle]) :
                    \/ ahead'[i].line < content[handle][j].line
                    \/ /\ ahead'[i].line = content[handle][j].line
                       /\ ~ahead'[i].end /\ content[handle][j].end
    <3>1. n + i \in 1..Len(text) /\ n + i \in n..Len(text) /\ ahead'[i] = text[n + i]
      BY <1>8
    <3>2. CASE k = 0
      <4>1. n + i \in 1..Len(ahead) /\ ahead'[i] = ahead[n + i] /\ cut' = cut
        BY <1>2, <1>7, <3>1, <3>2 DEF Reading
      <4>2. QED
        BY <4>1 DEF IInv, AheadInOrder
    <3>3. CASE k # 0
      <4>1. /\ position + (n + i) \in 1..Len(content[handle]) /\ ~cut'
            /\ ahead'[i] = content[handle][position + (n + i)]
        BY <1>2, <1>6, <3>1, <3>3 DEF Reading
      <4>2. path \notin {0, handle} => path \in Files /\ handle < path
        BY <1>1 DEF IInv, WellFormed, Files
      <4>3. QED
        BY <1>1, <4>1, <4>2 DEF IInv, FilesInOrder
    <3>4. QED
      BY <3>2, <3>3
  <2>3. QED
    BY <1>3, <2>1, <2>2 DEF AheadInOrder
<1>13. Placed'
  <2>1. position' + Len(ahead') = position + Len(ahead) + k
    BY <1>1, <1>2, <1>4 DEF Reading
  <2>2. ASSUME ~cut', NEW i \in 1..Len(ahead')
        PROVE  /\ position' + i <= Len(content[handle])
               /\ ahead'[i] = content[handle][position' + i]
    <3>1. n + i \in 1..Len(text) /\ n + i \in n..Len(text) /\ ahead'[i] = text[n + i]
      BY <1>8
    <3>2. position' + i = position + (n + i)
      BY <1>1, <1>2, <1>4 DEF Reading
    <3>3. CASE k = 0
      BY <1>2, <1>7, <2>2, <3>1, <3>2, <3>3 DEF Reading, IInv, Placed
    <3>4. CASE k # 0
      BY <1>1, <1>6, <3>1, <3>2, <3>4
    <3>5. QED
      BY <3>3, <3>4
  <2>3. handle # 0 /\ ~cut' /\ log <= handle => position' + Len(ahead') <= Len(content[handle])
    <3>1. CASE k = 0
      BY <1>1, <1>2, <2>1, <3>1 DEF Reading, IInv, Placed
    <3>2. CASE k # 0
      <4>1. position + Len(ahead) + k \in 1..Len(content[handle])
        BY <1>2, <1>4, <3>2 DEF Reading
      <4>2. QED
        BY <1>1, <2>1, <4>1
    <3>3. QED
      BY <3>1, <3>2
  <2>4. QED
    BY <1>3, <2>2, <2>3 DEF IInv, Placed
\* What is still to come is later than the line just taken, and than those
\* before it.
<1>14. ASSUME text[n].end
       PROVE  /\ half => text[n].line < lines
              /\ \A j \in (n + 1)..Len(text) : text[n].line < text[j].line
              /\ path \notin {0, handle} =>
                   \A j \in 1..Len(content[path]) : text[n].line < content[path][j].line
              /\ \A j \in 1..Len(content[handle]) :
                   cut' \/ position' < j => text[n].line < content[handle][j].line
  <2>1. \A j \in (n + 1)..Len(text) : text[n].line < text[j].line
    <3> SUFFICES ASSUME NEW j \in (n + 1)..Len(text) PROVE text[n].line < text[j].line
      OBVIOUS
    <3>1. n \in n..Len(text) /\ j \in n..Len(text) /\ n < j
      BY <1>4
    <3>2. QED
      BY <1>9, <1>14, <3>1
  <2>2. CASE k = 0
    <3>1. n \in 1..Len(ahead) /\ text[n] = ahead[n] /\ cut' = cut /\ position' = position + n
      BY <1>2, <1>4, <1>7, <2>2 DEF Reading
    <3>2. half => ahead[n].line < lines
      BY <1>1, <1>14, <3>1 DEF IInv, AheadInOrder
    <3>3. path \notin {0, handle} =>
             \A j \in 1..Len(content[path]) : ahead[n].line < content[path][j].line
      BY <3>1 DEF IInv, AheadInOrder
    <3>4. ASSUME NEW j \in 1..Len(content[handle]), cut' \/ position' < j
          PROVE  ahead[n].line < content[handle][j].line
      <4>1. CASE cut
        BY <1>14, <3>1, <4>1 DEF IInv, AheadInOrder
      <4>2. CASE ~cut
        <5>1. /\ position + n \in 1..Len(content[handle]) /\ position + n < j
              /\ ahead[n] = content[handle][position + n]
          BY <1>1, <1>4, <3>1, <3>4, <4>2 DEF IInv, Placed
        <5>2. Ordered(content[handle])
          BY <1>1 DEF IInv, FilesInOrder
        <5>3. QED
          BY <1>14, <3>1, <5>1, <5>2 DEF Ordered
      <4>3. QED
        BY <4>1, <4>2
    <3>5. QED
      BY <2>1, <3>1, <3>2, <3>3, <3>4
  <2>3. CASE k # 0
    <3>1. /\ position' \in 1..Len(content[handle]) /\ text[n] = content[handle][position']
          /\ cut' = FALSE
      BY <1>2, <1>4, <1>6, <2>3 DEF Reading
    <3>2. half => text[n].line < lines
      BY <1>1, <1>14, <3>1 DEF IInv, FilesInOrder
    <3>3. path \notin {0, handle} => path \in Files /\ handle < path
      BY <1>1 DEF IInv, WellFormed, Files
    <3>4. path \notin {0, handle} =>
             \A j \in 1..Len(content[path]) : text[n].line < content[path][j].line
      BY <1>1, <3>1, <3>3 DEF IInv, FilesInOrder
    <3>5. Ordered(content[handle])
      BY <1>1 DEF IInv, FilesInOrder
    <3>6. \A j \in 1..Len(content[handle]) : position' < j => text[n].line < content[handle][j].line
      BY <1>14, <3>1, <3>5 DEF Ordered
    <3>7. QED
      BY <2>1, <3>1, <3>2, <3>4, <3>6
  <2>4. QED
    BY <2>2, <2>3
<1>15. ASSUME NEW m \in 1..Len(seen)
       PROVE  /\ half => seen[m] < lines
              /\ \A j \in 1..Len(text) : seen[m] < text[j].line
              /\ path \notin {0, handle} =>
                   \A j \in 1..Len(content[path]) : seen[m] < content[path][j].line
              /\ \A j \in 1..Len(content[handle]) :
                   cut' \/ position' < j => seen[m] < content[handle][j].line
  <2>1. /\ half => seen[m] < lines
        /\ \A i \in 1..Len(ahead) : seen[m] < ahead[i].line
        /\ path \notin {0, handle} =>
             \A i \in 1..Len(content[path]) : seen[m] < content[path][i].line
        /\ \A i \in 1..Len(content[handle]) :
             cut \/ position < i => seen[m] < content[handle][i].line
    BY <1>1 DEF IInv, SeenBefore, Files
  <2>2. ASSUME NEW j \in 1..Len(text)
        PROVE  seen[m] < text[j].line
    <3>1. position < position + j
      BY <1>1, <1>4
    <3>2. QED
      BY <1>5, <2>1, <3>1
  <2>3. \A j \in 1..Len(content[handle]) : cut' \/ position' < j => cut \/ position < j
    BY <1>1, <1>2, <1>4 DEF Reading
  <2>4. QED
    BY <2>1, <2>2, <2>3
<1>16. /\ seen \in Seq(Nat) /\ Len(seen) \in Nat /\ Len(seen') \in {Len(seen), Len(seen) + 1}
       /\ \A m \in 1..Len(seen') :
            \/ m \in 1..Len(seen) /\ seen'[m] = seen[m]
            \/ m = Len(seen) + 1 /\ seen'[m] = text[n].line /\ text[n].end
  <2>1. seen \in Seq(Nat) /\ Len(seen) \in Nat /\ text[1].line \in Nat
    BY <1>1, <1>4 DEF IInv, WellFormed
  <2>2. CASE seen' = seen
    BY <2>1, <2>2
  <2>3. CASE seen' # seen
    <3>1. seen' = Append(seen, text[1].line) /\ text[n].end /\ text[n].line = text[1].line
      BY <1>2, <1>4, <2>3 DEF Reading
    <3>2. /\ Len(seen') = Len(seen) + 1 /\ seen'[Len(seen) + 1] = text[n].line
          /\ \A m \in 1..Len(seen) : seen'[m] = seen[m]
      BY <2>1, <3>1, AppendProperties
    <3>3. QED
      BY <2>1, <3>1, <3>2
  <2>4. QED
    BY <2>2, <2>3
<1>17. SeenBefore'
  <2> SUFFICES ASSUME NEW m \in 1..Len(seen')
               PROVE  /\ half => seen'[m] < lines
                      /\ \A i \in 1..Len(ahead') : seen'[m] < ahead'[i].line
                      /\ path \notin {0, handle} =>
                           \A i \in 1..Len(content[path]) : seen'[m] < content[path][i].line
                      /\ \A i \in 1..Len(content[handle]) :
                           cut' \/ position' < i => seen'[m] < content[handle][i].line
    BY <1>3 DEF SeenBefore
  <2>1. \A i \in 1..Len(ahead') : n + i \in (n + 1)..Len(text)
    BY <1>4, <1>8
  <2>2. CASE m \in 1..Len(seen) /\ seen'[m] = seen[m]
    BY <1>8, <1>15, <2>2
  <2>3. CASE seen'[m] = text[n].line /\ text[n].end
    BY <1>8, <1>14, <2>1, <2>3
  <2>4. QED
    BY <1>16, <2>2, <2>3
<1>18. InOrderOnce'
  <2> SUFFICES ASSUME NEW m \in 2..Len(seen') PROVE seen'[m - 1] < seen'[m]
    BY DEF InOrderOnce
  <2>1. m \in 1..Len(seen') /\ m - 1 \in 1..Len(seen) /\ seen'[m - 1] = seen[m - 1]
    <3>1. m \in 1..Len(seen') /\ m - 1 \in 1..Len(seen) /\ m - 1 \in 1..Len(seen')
      BY <1>16
    <3>2. m - 1 # Len(seen) + 1
      BY <1>16, <3>1
    <3>3. QED
      BY <1>16, <3>1, <3>2
  <2>2. CASE m \in 1..Len(seen) /\ seen'[m] = seen[m]
    <3>1. m \in 2..Len(seen)
      BY <2>2
    <3>2. QED
      BY <2>1, <2>2, <3>1 DEF IInv, InOrderOnce
  <2>3. CASE seen'[m] = text[n].line
    BY <1>4, <1>15, <2>1, <2>3
  <2>4. QED
    BY <1>16, <2>1, <2>2, <2>3
<1>19. TypeOK'
  <2>1. Seen' \subseteq 1..lines
    <3>1. \A m \in 1..Len(seen) : seen[m] \in 1..lines
      BY DEF IInv, TypeOK, Seen
    <3>2. text[n].line \in 1..lines
      <4>1. \A i \in 1..Len(ahead) : ahead[i].line \in 1..lines
        BY Begun DEF LinesOf
      <4>2. \A i \in 1..Len(content[handle]) : content[handle][i].line \in 1..lines
        BY <1>1, Begun DEF LinesOf
      <4>3. QED
        BY <1>4, <1>5, <4>1, <4>2
    <3>3. QED
      BY <1>16, <3>1, <3>2 DEF Seen
  <2>2. position' \in Nat /\ \A i \in 1..Len(ahead') : ahead'[i] \in Piece
    BY <1>1, <1>2, <1>4, <1>8 DEF Reading
  <2>3. cut' \in BOOLEAN /\ lost' \subseteq 1..lines
    BY <1>1, <1>2 DEF Reading
  <2>4. {skip, cut', misled} \subseteq BOOLEAN
    BY <2>3 DEF IInv, TypeOK
  <2>5. QED
    BY <1>3, <2>1, <2>2, <2>3, <2>4 DEF IInv, TypeOK
<1>20. NoLineUnaccounted'
  <2>1. Seen \subseteq Seen'
    <3>1. CASE seen' = seen
      BY <3>1 DEF Seen
    <3>2. CASE seen' # seen
      <4>1. seen' = Append(seen, text[1].line) /\ text[1].line \in Nat
        BY <1>2, <1>4, <3>2 DEF Reading
      <4>2. \A m \in 1..Len(seen) : m \in 1..Len(seen') /\ seen'[m] = seen[m]
        BY <1>16, <4>1, AppendProperties
      <4>3. QED
        BY <4>2 DEF Seen
    <3>3. QED
      BY <3>1, <3>2
  <2>2. ASSUME NEW i \in 1..Len(text), NEW x, x = text[i].line
        PROVE  x \in Seen' \/ x \in lost' \/ Reached(x)'
    <3>1. CASE i \in 1..n
      <4>1. CASE seen' = seen /\ text[i].line \in lost'
        BY <2>2, <4>1
      <4>2. CASE seen' = Append(seen, text[1].line) /\ text[i].line = text[1].line
        <5>1. /\ Len(seen') = Len(seen) + 1 /\ Len(seen) + 1 \in 1..Len(seen')
              /\ seen'[Len(seen) + 1] = text[1].line
          BY <1>4, <1>16, <4>2, AppendProperties
        <5>2. QED
          BY <2>2, <4>2, <5>1 DEF Seen
      <4>3. QED
        BY <1>2, <3>1, <4>1, <4>2 DEF Reading
    <3>2. CASE i \notin 1..n
      <4>1. i - n \in 1..Len(ahead') /\ n + (i - n) = i
        BY <1>1, <1>2, <1>4, <3>2 DEF Reading
      <4>2. ahead'[i - n] = text[i]
        BY <1>8, <4>1
      <4>3. QED
        BY <2>2, <4>1, <4>2 DEF Reached
    <3>3. QED
      BY <3>1, <3>2
  <2>3. position' + Len(ahead') = position + Len(ahead) + k
    BY <1>1, <1>2, <1>4 DEF Reading
  \* A line that was beyond what is read ahead.
  <2>4. ASSUME NEW j \in 1..Len(content[handle]), position + Len(ahead) < j,
               NEW x, x = content[handle][j].line
        PROVE  x \in Seen' \/ x \in lost' \/ Reached(x)'
    <3>1. CASE j <= position + Len(ahead) + k
      <4>1. /\ j - (position + Len(ahead)) \in 1..k
            /\ Len(ahead) + (j - (position + Len(ahead))) \in 1..Len(text)
            /\ position + Len(ahead) + (j - (position + Len(ahead))) = j
        BY <1>1, <1>4, <2>4, <3>1
      <4>2. text[Len(ahead) + (j - (position + Len(ahead)))] = content[handle][j]
        BY <1>2, <4>1 DEF Reading
      <4>3. QED
        BY <2>2, <2>4, <4>1, <4>2
    <3>2. CASE position + Len(ahead) + k < j
      BY <1>1, <1>3, <2>3, <2>4, <3>2 DEF Reached, Files
    <3>3. QED
      BY <1>1, <1>4, <3>1, <3>2
  <2>5. ASSUME NEW x, Reached(x) PROVE x \in Seen' \/ x \in lost' \/ Reached(x)'
    <3>1. CASE \E i \in 1..Len(ahead) : ahead[i].line = x
      <4>1. PICK i \in 1..Len(ahead) : ahead[i].line = x
        BY <3>1
      <4>2. i \in 1..Len(text) /\ text[i].line = x
        BY <1>1, <1>2, <1>4, <4>1 DEF Reading
      <4>3. QED
        BY <2>2, <4>2
    <3>2. CASE path \notin {0, handle} /\ \E i \in 1..Len(content[path]) : content[path][i].line = x
      BY <1>3, <3>2 DEF Reached
    <3>3. ASSUME NEW j \in 1..Len(content[handle]), content[handle][j].line = x,
                 cut \/ position + Len(ahead) < j
          PROVE  x \in Seen' \/ x \in lost' \/ Reached(x)'
      <4>1. CASE position + Len(ahead) < j
        BY <2>4, <3>3, <4>1
      <4>2. CASE cut /\ k = 0
        <5>1. cut'
          BY <1>2, <4>2 DEF Reading
        <5>2. QED
          BY <1>1, <1>3, <3>3, <5>1 DEF Reached, Files
      <4>3. CASE cut /\ k # 0 /\ x \in LinesOf(Unread)
        <5>1. PICK i \in 1..Len(Unread) : Unread[i].line = x
          BY <4>3, LinesAre
        <5>2. /\ position + Len(ahead) + i \in 1..Len(content[handle])
              /\ position + Len(ahead) < position + Len(ahead) + i
              /\ Unread[i] = content[handle][position + Len(ahead) + i]
          BY <1>1, <4>3, <5>1, UnreadIs DEF IInv, Shaped, Files
        <5>3. QED
          BY <2>4, <5>1, <5>2
      <4>4. CASE cut /\ k # 0 /\ x \notin LinesOf(Unread)
        <5>1. x \in LinesOf(content[handle])
          BY <3>3, LinesAre
        <5>2. x \in Seen \/ x \in Overgrown
          BY <4>4, <5>1 DEF Overgrown
        <5>3. QED
          BY <1>2, <2>1, <4>4, <5>2 DEF Reading
      <4>5. QED
        BY <3>3, <4>1, <4>2, <4>3, <4>4
    <3>4. QED
      BY <2>5, <3>1, <3>2, <3>3 DEF Reached
  <2>6. lost \subseteq lost'
    BY <1>2 DEF Reading
  <2>7. QED
    BY <1>3, <1>10, <1>19, <2>1, <2>5, <2>6, Accounted
<1>21. QED
  BY <1>10, <1>11, <1>12, <1>13, <1>17, <1>18, <1>19, <1>20 DEF IInv

-----------------------------------------------------------------------------
(* The theorems.                                                           *)

LEMMA NextInv == IInv /\ [Next]_vars => IInv'
<1> SUFFICES ASSUME IInv, [Next]_vars PROVE IInv'
  OBVIOUS
<1>1. CASE WriteLine \/ WriteHead \/ WriteTail
  <2>1. ASSUME lines < MaxLines
        PROVE  /\ Whole(lines + 1) \in Piece
               /\ [line |-> lines + 1, head |-> TRUE, end |-> FALSE] \in Piece
    BY <2>1, Typed DEF Numbers, Whole, Piece
  <2>2. ASSUME WriteTail PROVE [line |-> lines, head |-> FALSE, end |-> TRUE] \in Piece
    <3>1. half /\ \A p \in Piece : p.line \in 1..MaxLines
      BY <2>2 DEF WriteTail, Piece
    <3>2. lines \in 1..MaxLines
      BY <3>1, Typed DEF Numbers, IInv, WellFormed, SeenBefore, TypeOK
    <3>3. QED
      BY <3>2 DEF Piece
  <2>3. QED
    BY <1>1, <2>1, <2>2, WriteInv DEF WriteLine, WriteHead
<1>2. CASE UNCHANGED vars
  <2>1. UNCHANGED <<path, log, content, made, lines, half, truncates, pc, handle, position, ahead,
                    signature, skip, seen, lost, cut, misled>>
    BY <1>2 DEF vars, fileVars, writeVars, followVars
  <2>2. Seen' = Seen
    BY <2>1 DEF Seen
  <2>3. TypeOK' /\ WellFormed' /\ FilesInOrder' /\ AheadInOrder' /\ Placed' /\ SeenBefore' /\ InOrderOnce'
    BY <2>1, <2>2 DEF IInv, TypeOK, WellFormed, FilesInOrder, AheadInOrder, Placed, SeenBefore, InOrderOnce
  <2>4. ASSUME NEW n, Reached(n) PROVE Reached(n)'
    BY <2>1, <2>4 DEF Reached
  <2>5. QED
    BY <2>1, <2>2, <2>3, <2>4, Accounted DEF IInv
<1>3. QED
  BY <1>1, <1>2, RenameInv, CreateInv, ReopenInv, TruncateInv, OpenInv, SeekInv, SignInv,
     ReadLineInv, EndOfFileInv, LeaveInv, QuietInv DEF Next, Host, Follower

LEMMA Invariance == Spec => []IInv
BY InitInv, NextInv, PTL DEF Spec

\* The follower always has a handle when it reads, seeks or compares, and
\* yields no line that nginx has not begun.
THEOREM TypeCorrect == Spec => []TypeOK
BY Invariance, PTL DEF IInv

\* Whatever rotation does between the follower's calls, no line is yielded
\* twice and none after a later one.
THEOREM YieldedInOrder == Spec => []InOrderOnce
BY Invariance, PTL DEF IInv

\* The causes for which a line is never yielded are those the actions name.
THEOREM NoLineLost == Spec => []NoLineUnaccounted
BY Invariance, PTL DEF IInv

-----------------------------------------------------------------------------
(* Collector.                                                              *)

\* The buffer's batch is with the backend, and may still be answered.
Posted == phase \in {"wait", "last"} /\ ~Refused(buffer)

\* What is with the backend of the batch waited for is of the buffer, and
\* what is no longer with it has been counted; without a batch it has nothing.
Waited ==
    /\ todo[0] \subseteq ToSet(buffer)
    /\ ~Posted => todo[0] = {}
    /\ Posted => \A n \in ToSet(buffer) : n \in todo[0] \/ counted[n] > 0

\* The batches a record has still to be counted with.
Pending(n) == {i \in 0..MaxLate : n \in todo[i]}

\* Once the batches it is in are done a record is counted once for each post
\* left unanswered, and once more if the answer that cleared it, or may, did.
Balanced ==
    \A n \in Records :
        /\ counted[n] + Cardinality(Pending(n)) <=
                unanswered[n] + (IF n \in ToSet(buffer) /\ ~Posted THEN 0 ELSE 1)
        /\ n > read => counted[n] = 0

\* After the last post the buffer was answered, or it is gone.
Ended == phase = "down" => ToSet(buffer) \subseteq gone

CollectorInv == CollectorTypeOK /\ Waited /\ Balanced /\ NoRecordUnaccounted /\ Ended

-----------------------------------------------------------------------------
(* The buffer.                                                             *)

LEMMA Bounds ==
    /\ Batch \in Nat \ {0} /\ Cap \in Nat \ {0} /\ Accepts \in Nat \ {0} /\ MaxRecords \in Nat \ {0}
    /\ MaxRepeats \in Nat /\ MaxLate \in Nat
    /\ Batch <= Cap /\ Cap <= Accepts
BY CollectorAssumption

\* A sequence of consecutive records, as a set.
LEMMA Consecutive ==
    ASSUME NEW logs \in Seq(Records), NEW last \in Nat,
           \A i \in 1..Len(logs) : logs[i] = last - Len(logs) + i
    PROVE  ToSet(logs) = (last - Len(logs) + 1)..last
<1>1. Len(logs) \in Nat /\ DOMAIN logs = 1..Len(logs)
  OBVIOUS
<1>2. ASSUME NEW n \in ToSet(logs) PROVE n \in (last - Len(logs) + 1)..last
  <2>1. PICK i \in 1..Len(logs) : n = logs[i]
    BY <1>1, <1>2 DEF ToSet
  <2>2. QED
    BY <1>1, <2>1
<1>3. ASSUME NEW n \in (last - Len(logs) + 1)..last PROVE n \in ToSet(logs)
  <2>1. n - last + Len(logs) \in 1..Len(logs)
    BY <1>1
  <2>2. logs[n - last + Len(logs)] = n
    BY <1>1, <2>1
  <2>3. QED
    BY <1>1, <2>1, <2>2 DEF ToSet
<1>4. QED
  BY <1>2, <1>3

LEMMA BufferSet ==
    ASSUME CollectorTypeOK
    PROVE  /\ ToSet(buffer) = (read - Len(buffer) + 1)..read
           /\ ToSet(buffer) \subseteq Records /\ ToSet(buffer) \subseteq 1..read
           /\ Len(buffer) \in Nat /\ read \in Nat
<1>1. buffer \in Seq(Records) /\ read \in 0..MaxRecords
      /\ \A i \in 1..Len(buffer) : buffer[i] = read - Len(buffer) + i
  BY DEF CollectorTypeOK
<1>2. read \in Nat /\ Len(buffer) \in Nat
  BY <1>1, Bounds
<1>3. ToSet(buffer) = (read - Len(buffer) + 1)..read
  BY <1>1, <1>2, Consecutive
<1>4. ToSet(buffer) \subseteq Records
  BY <1>1 DEF ToSet
<1>5. ToSet(buffer) \subseteq 1..read
  BY <1>2, <1>3, <1>4, Bounds DEF Records
<1>6. QED
  BY <1>2, <1>3, <1>4, <1>5

\* What a record more makes of the buffer: it is the newest, and at most the
\* one the cap is reached with is dropped.
LEMMA Capping ==
    ASSUME CollectorTypeOK, read < MaxRecords
    PROVE  LET logs == Capped(Append(buffer, read + 1)) IN
           /\ logs \in Seq(Records) /\ Len(logs) \in Nat /\ Len(logs) <= Cap /\ Len(logs) > 0
           /\ \A i \in 1..Len(logs) : logs[i] = read + 1 - Len(logs) + i
           /\ ToSet(logs) \subseteq ToSet(buffer) \union {read + 1}
           /\ read + 1 \in ToSet(logs)
           /\ \A n \in ToSet(buffer) : n \in ToSet(logs) \/ n + Cap <= read + 1
<1> DEFINE more == Append(buffer, read + 1)
           logs == Capped(more)
<1> SUFFICES /\ logs \in Seq(Records) /\ Len(logs) \in Nat /\ Len(logs) <= Cap /\ Len(logs) > 0
             /\ \A i \in 1..Len(logs) : logs[i] = read + 1 - Len(logs) + i
             /\ ToSet(logs) \subseteq ToSet(buffer) \union {read + 1}
             /\ read + 1 \in ToSet(logs)
             /\ \A n \in ToSet(buffer) : n \in ToSet(logs) \/ n + Cap <= read + 1
  OBVIOUS
<1>1. /\ buffer \in Seq(Records) /\ read \in Nat /\ Len(buffer) \in Nat /\ Len(buffer) <= Cap
      /\ \A i \in 1..Len(buffer) : buffer[i] = read - Len(buffer) + i
  BY BufferSet DEF CollectorTypeOK
<1>2. PICK last \in Records : last = read + 1
  BY <1>1, Bounds DEF Records
<1>3. last \in Nat /\ Cap \in Nat /\ Cap > 0
  BY Bounds DEF Records
<1>4. /\ more \in Seq(Records) /\ Len(more) = Len(buffer) + 1
      /\ \A i \in 1..Len(more) : more[i] = last - Len(more) + i
  BY <1>1, <1>2, <1>3
<1> HIDE DEF more
<1>5. CASE Len(more) > Cap
  <2>1. Len(more) = Cap + 1 /\ Len(buffer) = Cap
    BY <1>1, <1>3, <1>4, <1>5
  <2>2. logs = SubSeq(more, 2, Cap + 1)
    BY <1>3, <1>5, <2>1 DEF Capped
  <2>3. logs \in Seq(Records) /\ Len(logs) = Cap /\ \A i \in 1..Cap : logs[i] = more[i + 1]
    BY <1>3, <1>4, <2>1, <2>2
  <2>4. \A i \in 1..Cap : more[i + 1] = last - Cap + i
    BY <1>3, <1>4, <2>1
  <2> HIDE DEF logs
  <2>5. \A i \in 1..Len(logs) : logs[i] = last - Len(logs) + i
    BY <2>3, <2>4
  <2>6. ToSet(logs) = (last - Cap + 1)..last
    BY <1>3, <2>3, <2>5, Consecutive
  <2>7. ToSet(buffer) = (read - Cap + 1)..read
    BY <2>1, BufferSet
  <2>8. /\ ToSet(logs) \subseteq ToSet(buffer) \union {last}
        /\ last \in ToSet(logs)
        /\ \A n \in ToSet(buffer) : n \in ToSet(logs) \/ n + Cap <= last
    BY <1>1, <1>2, <1>3, <2>6, <2>7
  <2>9. Len(logs) \in Nat /\ Len(logs) <= Cap /\ Len(logs) > 0
    BY <1>3, <2>3
  <2>10. \A i \in 1..Len(logs) : logs[i] = read + 1 - Len(logs) + i
    BY <1>1, <1>2, <1>3, <2>5, <2>9
  <2>11. /\ ToSet(logs) \subseteq ToSet(buffer) \union {read + 1}
         /\ read + 1 \in ToSet(logs)
         /\ \A n \in ToSet(buffer) : n \in ToSet(logs) \/ n + Cap <= read + 1
    BY <1>2, <2>8
  <2>12. QED
    BY <2>3, <2>9, <2>10, <2>11
<1>6. CASE ~(Len(more) > Cap)
  <2>1. logs = more
    BY <1>6 DEF Capped
  <2> HIDE DEF logs
  <2>2. /\ logs \in Seq(Records) /\ Len(logs) = Len(buffer) + 1
        /\ \A i \in 1..Len(logs) : logs[i] = last - Len(logs) + i
    BY <1>4, <2>1
  <2>3. Len(logs) <= Cap
    BY <1>1, <1>3, <1>6, <2>1, <2>2
  <2>4. ToSet(logs) = (last - Len(logs) + 1)..last
    BY <1>3, <2>2, Consecutive
  <2>5. ToSet(buffer) = (read - Len(buffer) + 1)..read
    BY BufferSet
  <2>6. ToSet(logs) = ToSet(buffer) \union {last}
    BY <1>1, <1>2, <2>2, <2>4, <2>5
  <2>7. QED
    BY <1>1, <1>2, <2>2, <2>3, <2>6
<1>7. QED
  BY <1>5, <1>6

LEMMA PendingFinite ==
    \A n : IsFiniteSet(Pending(n)) /\ Cardinality(Pending(n)) \in Nat
<1>1. IsFiniteSet(0..MaxLate)
  BY Bounds, FS_Interval
<1>2. \A n : Pending(n) \subseteq 0..MaxLate
  BY DEF Pending
<1>3. QED
  BY <1>1, <1>2, FS_Subset, FS_CardinalityType

-----------------------------------------------------------------------------
(* What is with the backend.                                               *)

\* A record not yet read is with nobody.
LEMMA NotYetRead ==
    ASSUME CollectorTypeOK, NEW n \in Records, n > read
    PROVE  Pending(n) = {} /\ Cardinality(Pending(n)) = 0
<1>1. Pending(n) = {}
  BY BufferSet DEF CollectorTypeOK, Pending
<1>2. QED
  BY <1>1, FS_EmptySet

\* A post gives the batch slot 0, which was free.
LEMMA Posting ==
    ASSUME CollectorTypeOK, todo[0] = {}, NEW logs, NEW n \in Records,
           todo' = [todo EXCEPT ![0] = IF Refused(logs) THEN {} ELSE ToSet(logs)]
    PROVE  Cardinality(Pending(n)') =
             Cardinality(Pending(n)) + (IF n \in ToSet(logs) /\ ~Refused(logs) THEN 1 ELSE 0)
<1>1. 0 \in 0..MaxLate /\ DOMAIN todo = 0..MaxLate
  BY Bounds DEF CollectorTypeOK
<1>2. 0 \notin Pending(n) /\ IsFiniteSet(Pending(n)) /\ Cardinality(Pending(n)) \in Nat
  BY PendingFinite DEF Pending
<1>3. CASE n \in ToSet(logs) /\ ~Refused(logs)
  <2>1. Pending(n)' = Pending(n) \union {0}
    BY <1>1, <1>3 DEF Pending
  <2>2. QED
    BY <1>2, <1>3, <2>1, FS_AddElement
<1>4. CASE ~(n \in ToSet(logs) /\ ~Refused(logs))
  <2>1. Pending(n)' = Pending(n)
    BY <1>1, <1>4 DEF Pending
  <2>2. QED
    BY <1>2, <1>4, <2>1
<1>5. QED
  BY <1>3, <1>4

\* A batch the agent stops waiting for takes a free slot, or none.
LEMMA Leaving ==
    ASSUME CollectorTypeOK, NEW slot \in LateSlots, NEW n \in Records
    PROVE  LET left == {i \in 0..MaxLate : n \in Detached(slot)[i]} IN
           /\ 0 \notin left /\ IsFiniteSet(left) /\ Cardinality(left) \in Nat
           /\ n \notin todo[0] \/ slot # 0 => Cardinality(left) = Cardinality(Pending(n))
           /\ n \in todo[0] /\ slot = 0 => Cardinality(left) = Cardinality(Pending(n)) - 1
<1> DEFINE left == {i \in 0..MaxLate : n \in Detached(slot)[i]}
<1> SUFFICES /\ 0 \notin left /\ IsFiniteSet(left) /\ Cardinality(left) \in Nat
             /\ n \notin todo[0] \/ slot # 0 => Cardinality(left) = Cardinality(Pending(n))
             /\ n \in todo[0] /\ slot = 0 => Cardinality(left) = Cardinality(Pending(n)) - 1
  OBVIOUS
<1>1. 0 \in 0..MaxLate /\ slot \in 0..MaxLate /\ (slot # 0 => todo[slot] = {})
  BY Bounds DEF LateSlots, Late
<1>2. \A i \in 0..MaxLate : Detached(slot)[i] =
        IF i = 0 THEN {} ELSE IF i = slot THEN todo[0] ELSE todo[i]
  BY DEF Detached
<1>3. IsFiniteSet(Pending(n)) /\ Cardinality(Pending(n)) \in Nat
  BY PendingFinite
<1>4. 0 \notin left /\ left \subseteq 0..MaxLate
  BY <1>1, <1>2
<1>5. IsFiniteSet(left) /\ Cardinality(left) \in Nat
  <2> HIDE DEF left
  <2>1. IsFiniteSet(0..MaxLate)
    BY Bounds, FS_Interval
  <2>2. IsFiniteSet(left)
    BY <1>4, <2>1, FS_Subset
  <2>3. QED
    BY <2>2, FS_CardinalityType
<1>6. CASE n \notin todo[0]
  <2>1. left = Pending(n)
    BY <1>1, <1>2, <1>6 DEF Pending
  <2>2. QED
    BY <1>4, <1>5, <1>6, <2>1
<1>7. CASE n \in todo[0]
  <2> DEFINE rest == Pending(n) \ {0}
  <2>1. 0 \in Pending(n)
    BY <1>1, <1>7 DEF Pending
  <2>2. IsFiniteSet(rest) /\ Cardinality(rest) = Cardinality(Pending(n)) - 1
    BY <1>3, <2>1, FS_RemoveElement
  <2>3. CASE slot = 0
    <3>1. left = rest
      BY <1>1, <1>2, <2>3 DEF Pending
    <3>2. QED
      BY <1>4, <1>5, <1>7, <2>2, <2>3, <3>1
  <2>4. CASE slot # 0
    <3>1. left = rest \union {slot} /\ slot \notin rest
      BY <1>1, <1>2, <1>7, <2>4 DEF Pending
    <3>2. Cardinality(left) = Cardinality(rest) + 1
      BY <2>2, <3>1, FS_AddElement
    <3>3. QED
      BY <1>3, <1>4, <1>5, <2>2, <2>4, <3>2
  <2>5. QED
    BY <2>3, <2>4
<1>8. QED
  BY <1>6, <1>7

\* What the agent stops waiting for is accounted for without its answer.
LEMMA LeftBalance ==
    ASSUME CollectorTypeOK, Waited, Balanced, phase \in {"wait", "last"},
           NEW slot \in LateSlots, Forsaken(slot), NEW n \in Records
    PROVE  /\ counted[n] + Cardinality({i \in 0..MaxLate : n \in Detached(slot)[i]}) <=
                 unanswered'[n] + (IF n \in ToSet(buffer) THEN 0 ELSE 1)
           /\ unanswered' \in [Records -> 0..MaxRepeats]
           /\ Detached(slot) \in [0..MaxLate -> SUBSET (1..read)]
<1> DEFINE size == Cardinality({i \in 0..MaxLate : n \in Detached(slot)[i]})
           had  == Cardinality(Pending(n))
<1>1. /\ n \notin todo[0] \/ slot # 0 => size = had
      /\ n \in todo[0] /\ slot = 0 => size = had - 1
      /\ size \in Nat
  BY Leaving
<1>2. had \in Nat /\ counted[n] \in Nat /\ unanswered[n] \in Nat
  BY PendingFinite, Bounds DEF CollectorTypeOK
<1>3. unanswered'[n] = IF n \in ToSet(buffer) /\ ~Refused(buffer) /\ (slot # 0 \/ n \notin todo[0])
                       THEN unanswered[n] + 1 ELSE unanswered[n]
  BY DEF Forsaken
<1>4. counted[n] + had <= unanswered[n] + (IF n \in ToSet(buffer) /\ ~Posted THEN 0 ELSE 1)
  BY DEF Balanced
<1>5. /\ todo[0] \subseteq ToSet(buffer)
      /\ Posted <=> ~Refused(buffer)
      /\ Refused(buffer) => todo[0] = {}
  BY DEF Waited, Posted
<1> HIDE DEF size, had
<1>6. counted[n] + size <= unanswered'[n] + (IF n \in ToSet(buffer) THEN 0 ELSE 1)
  <2>1. CASE n \notin ToSet(buffer)
    BY <1>1, <1>2, <1>3, <1>4, <1>5, <2>1
  <2>2. CASE n \in ToSet(buffer) /\ Refused(buffer)
    BY <1>1, <1>2, <1>3, <1>4, <1>5, <2>2
  <2>3. CASE n \in ToSet(buffer) /\ ~Refused(buffer)
    BY <1>1, <1>2, <1>3, <1>4, <1>5, <2>3
  <2>4. QED
    BY <2>1, <2>2, <2>3
<1>7. unanswered' \in [Records -> 0..MaxRepeats]
  <2>1. \A m \in Records : unanswered[m] \in Nat /\ unanswered[m] <= MaxRepeats
    BY Bounds DEF CollectorTypeOK
  <2>2. \A m \in Records : unanswered'[m] \in {unanswered[m], unanswered[m] + 1}
    BY DEF Forsaken
  <2>3. \A m \in Records : unanswered'[m] \in 0..MaxRepeats
    BY <2>1, <2>2, Bounds DEF Forsaken
  <2>4. unanswered' = [m \in Records |-> unanswered'[m]]
    BY DEF Forsaken
  <2>5. QED
    BY <2>3, <2>4
<1>8. Detached(slot) \in [0..MaxLate -> SUBSET (1..read)]
  BY Bounds DEF Detached, CollectorTypeOK
<1>9. QED
  BY <1>6, <1>7, <1>8 DEF size

-----------------------------------------------------------------------------
(* Initial states, and each action.                                        *)

LEMMA CollectorInitInv == CollectorInit => CollectorInv
<1> SUFFICES ASSUME CollectorInit PROVE CollectorInv
  OBVIOUS
<1>1. ToSet(buffer) = {} /\ ~Posted
  BY DEF CollectorInit, ToSet, Posted
<1>2. CollectorTypeOK
  BY Bounds DEF CollectorInit, CollectorTypeOK, Records
<1>3. \A n \in Records : Cardinality(Pending(n)) = 0
  <2>1. \A n \in Records : Pending(n) = {}
    BY Bounds DEF CollectorInit, Pending
  <2>2. QED
    BY <2>1, FS_EmptySet
<1>4. Waited /\ Balanced /\ NoRecordUnaccounted /\ Ended
  BY <1>1, <1>3, Bounds DEF CollectorInit, Waited, Balanced, NoRecordUnaccounted, Ended, Records
<1>5. QED
  BY <1>2, <1>4 DEF CollectorInv

\* With nothing posted, a post of a buffer that holds what it held, but for
\* what the cap dropped, and the record just read.
LEMMA FlushInv ==
    ASSUME CollectorInv, phase = "poll", NEW logs \in Seq(Records), NEW state \in {"wait", "last"},
           Flush(logs, state), Len(logs) <= Cap,
           read' \in {read, read + 1}, read' \in 0..MaxRecords,
           \A i \in 1..Len(logs) : logs[i] = read' - Len(logs) + i,
           ToSet(logs) \subseteq ToSet(buffer) \union (read + 1)..read',
           read' = read + 1 => read' \in ToSet(logs),
           \A n \in ToSet(buffer) : n \in ToSet(logs) \/ n + Cap <= read',
           UNCHANGED <<counted, healthy, unanswered, gone>>
    PROVE  CollectorInv'
<1>1. /\ CollectorTypeOK /\ Waited /\ Balanced /\ NoRecordUnaccounted
      /\ ~Posted /\ todo[0] = {}
      /\ read \in Nat /\ read' \in Nat
  BY Bounds DEF CollectorInv, Waited, Posted, CollectorTypeOK
<1>2. /\ buffer' = logs /\ phase' = state
      /\ todo' = [todo EXCEPT ![0] = IF Refused(logs) THEN {} ELSE ToSet(logs)]
  BY DEF Flush
<1>3. ToSet(logs) = (read' - Len(logs) + 1)..read' /\ ToSet(logs) \subseteq 1..read'
  <2>1. ToSet(logs) = (read' - Len(logs) + 1)..read'
    BY <1>1, Consecutive
  <2>2. ToSet(logs) \subseteq Records
    BY DEF ToSet
  <2>3. QED
    BY <1>1, <2>1, <2>2, Bounds DEF Records
<1>4. 0 \in 0..MaxLate
  BY Bounds
<1>5. CollectorTypeOK'
  <2>1. \A i \in 0..MaxLate : todo'[i] \subseteq 1..read'
    <3>1. (\A i \in 0..MaxLate : todo[i] \subseteq 1..read) /\ 1..read \subseteq 1..read'
      <4>1. 1..read \subseteq 1..read'
        BY <1>1
      <4>2. QED
        BY <1>1, <4>1 DEF CollectorTypeOK
    <3>2. \A i \in 0..MaxLate : todo'[i] = todo[i] \/ todo'[i] = {} \/ todo'[i] = ToSet(logs)
      BY <1>1, <1>2 DEF CollectorTypeOK
    <3>3. QED
      BY <1>3, <3>1, <3>2
  <2>2. todo' \in [0..MaxLate -> SUBSET (1..read')]
    BY <1>1, <1>2, <2>1 DEF CollectorTypeOK
  <2>3. gone' \subseteq 1..read'
    BY <1>1 DEF CollectorTypeOK
  <2>4. QED
    BY <1>1, <1>2, <2>2, <2>3 DEF CollectorTypeOK
<1>6. Posted' <=> ~Refused(logs)
  BY <1>2 DEF Posted, Refused
<1>7. todo'[0] = IF Refused(logs) THEN {} ELSE ToSet(logs)
  BY <1>1, <1>2, <1>4 DEF CollectorTypeOK
<1>8. Waited'
  BY <1>2, <1>6, <1>7 DEF Waited
<1>9. Balanced'
  <2> SUFFICES ASSUME NEW n \in Records
               PROVE  /\ counted[n] + Cardinality(Pending(n)') <=
                            unanswered[n] + (IF n \in ToSet(logs) /\ ~Posted' THEN 0 ELSE 1)
                      /\ n > read' => counted[n] = 0
    BY <1>2 DEF Balanced
  <2>1. Cardinality(Pending(n)') =
          Cardinality(Pending(n)) + (IF n \in ToSet(logs) /\ ~Refused(logs) THEN 1 ELSE 0)
    BY <1>1, <1>2, Posting
  <2>2. /\ counted[n] + Cardinality(Pending(n)) <= unanswered[n] + (IF n \in ToSet(buffer) THEN 0 ELSE 1)
        /\ n > read => counted[n] = 0 /\ Cardinality(Pending(n)) = 0
    BY <1>1, NotYetRead DEF Balanced
  <2>3. counted[n] \in Nat /\ unanswered[n] \in Nat /\ Cardinality(Pending(n)) \in Nat /\ n \in Nat
    BY <1>1, PendingFinite, Bounds DEF CollectorTypeOK, Records
  <2>4. CASE n \notin ToSet(logs)
    BY <1>1, <2>1, <2>2, <2>3, <2>4
  <2>5. CASE n \in ToSet(logs) /\ n \in ToSet(buffer)
    BY <1>1, <1>6, <2>1, <2>2, <2>3, <2>5
  <2>6. CASE n \in ToSet(logs) /\ n \notin ToSet(buffer)
    <3>1. n > read
      BY <1>1, <2>3, <2>6
    <3>2. counted[n] = 0 /\ Cardinality(Pending(n)) = 0
      BY <2>2, <3>1
    <3>3. CASE Refused(logs)
      BY <1>6, <2>1, <2>3, <2>6, <3>2, <3>3
    <3>4. CASE ~Refused(logs)
      BY <1>6, <2>1, <2>3, <2>6, <3>2, <3>4
    <3>5. QED
      BY <3>3, <3>4
  <2>7. QED
    BY <2>4, <2>5, <2>6
<1>10. NoRecordUnaccounted'
  <2> SUFFICES ASSUME NEW n \in 1..read'
               PROVE  n \in ToSet(logs) \union gone \/ counted[n] > 0 \/ n + Cap <= read'
    BY <1>2 DEF NoRecordUnaccounted
  <2>1. CASE n \notin 1..read
    BY <1>1, <2>1
  <2>2. CASE n \in 1..read
    BY <1>1, <2>2, Bounds DEF NoRecordUnaccounted
  <2>3. QED
    BY <2>1, <2>2
<1>11. Ended'
  BY <1>2 DEF Ended
<1>12. QED
  BY <1>5, <1>8, <1>9, <1>10, <1>11 DEF CollectorInv

LEMMA AddInv == CollectorInv /\ Add => CollectorInv'
<1> SUFFICES ASSUME CollectorInv, Add PROVE CollectorInv'
  OBVIOUS
<1> DEFINE logs == Capped(Append(buffer, read + 1))
<1>1. /\ phase = "poll" /\ read < MaxRecords /\ read' = read + 1
      /\ UNCHANGED <<counted, healthy, unanswered, gone>>
      /\ IF Len(logs) >= Batch THEN Flush(logs, "wait") ELSE buffer' = logs /\ UNCHANGED <<phase, todo>>
  BY DEF Add
<1>2. /\ CollectorTypeOK /\ Waited /\ Balanced /\ NoRecordUnaccounted
      /\ read \in Nat /\ read' \in 0..MaxRecords /\ read' \in Nat
  BY <1>1, BufferSet, Bounds DEF CollectorInv
<1>3. /\ logs \in Seq(Records) /\ Len(logs) \in Nat /\ Len(logs) <= Cap
      /\ \A i \in 1..Len(logs) : logs[i] = read' - Len(logs) + i
      /\ ToSet(logs) \subseteq ToSet(buffer) \union (read + 1)..read'
      /\ read' \in ToSet(logs)
      /\ \A n \in ToSet(buffer) : n \in ToSet(logs) \/ n + Cap <= read'
  <2>1. read + 1 \in (read + 1)..(read + 1)
    BY <1>2
  <2>2. QED
    BY <1>1, <1>2, <2>1, Capping
<1> HIDE DEF logs
<1>4. CASE Len(logs) >= Batch
  <2>1. Flush(logs, "wait")
    BY <1>1, <1>4
  <2>2. QED
    BY <1>1, <1>2, <1>3, <2>1, FlushInv
<1>5. CASE ~(Len(logs) >= Batch)
  <2>1. buffer' = logs /\ phase' = "poll" /\ todo' = todo
    BY <1>1, <1>5
  <2>2. ~Posted /\ ~Posted' /\ todo[0] = {}
    BY <1>1, <1>2, <2>1 DEF Posted, Waited
  <2>3. CollectorTypeOK'
    <3>1. 1..read \subseteq 1..read'
      BY <1>1, <1>2
    <3>2. todo' \in [0..MaxLate -> SUBSET (1..read')] /\ gone' \subseteq 1..read'
      BY <1>1, <1>2, <2>1, <3>1 DEF CollectorTypeOK
    <3>3. QED
      BY <1>1, <1>2, <1>3, <2>1, <3>2 DEF CollectorTypeOK
  <2>4. Waited'
    BY <2>1, <2>2 DEF Waited
  <2>5. Balanced'
    <3> SUFFICES ASSUME NEW n \in Records
                 PROVE  /\ counted[n] + Cardinality(Pending(n)) <=
                              unanswered[n] + (IF n \in ToSet(logs) THEN 0 ELSE 1)
                        /\ n > read' => counted[n] = 0
      BY <1>1, <2>1, <2>2 DEF Balanced, Pending
    <3>1. /\ counted[n] + Cardinality(Pending(n)) <= unanswered[n] + (IF n \in ToSet(buffer) THEN 0 ELSE 1)
          /\ n > read => counted[n] = 0 /\ Cardinality(Pending(n)) = 0
      BY <1>2, <2>2, NotYetRead DEF Balanced
    <3>2. counted[n] \in Nat /\ unanswered[n] \in Nat /\ Cardinality(Pending(n)) \in Nat /\ n \in Nat
      BY <1>2, PendingFinite, Bounds DEF CollectorTypeOK, Records
    <3>3. n \in ToSet(logs) => n \in ToSet(buffer) \/ n > read
      BY <1>2, <1>3, <3>2
    <3>4. QED
      BY <1>1, <1>2, <3>1, <3>2, <3>3
  <2>6. NoRecordUnaccounted'
    <3> SUFFICES ASSUME NEW n \in 1..read'
                 PROVE  n \in ToSet(logs) \union gone \/ counted[n] > 0 \/ n + Cap <= read'
      BY <1>1, <2>1 DEF NoRecordUnaccounted
    <3>1. CASE n \notin 1..read
      BY <1>1, <1>2, <1>3, <3>1
    <3>2. CASE n \in 1..read
      BY <1>1, <1>2, <1>3, <3>2, Bounds DEF NoRecordUnaccounted
    <3>3. QED
      BY <3>1, <3>2
  <2>7. Ended'
    BY <2>1 DEF Ended
  <2>8. QED
    BY <2>3, <2>4, <2>5, <2>6, <2>7 DEF CollectorInv
<1>6. QED
  BY <1>4, <1>5

LEMMA TimedInv == CollectorInv /\ (Tick \/ Stop) => CollectorInv'
<1> SUFFICES ASSUME CollectorInv, Tick \/ Stop PROVE CollectorInv'
  OBVIOUS
<1>1. PICK state \in {"wait", "last"} :
        phase = "poll" /\ Flush(buffer, state) /\ UNCHANGED <<read, counted, healthy, unanswered, gone>>
  BY DEF Tick, Stop
<1>2. /\ buffer \in Seq(Records) /\ Len(buffer) <= Cap /\ read \in Nat /\ read \in 0..MaxRecords
      /\ \A i \in 1..Len(buffer) : buffer[i] = read - Len(buffer) + i
  BY BufferSet DEF CollectorInv, CollectorTypeOK
<1>3. read' = read /\ read' # read + 1
  BY <1>1, <1>2
<1>4. QED
  BY <1>1, <1>2, <1>3, FlushInv

\* A record the backend is not done with, when the agent has stopped waiting.
LEMMA FailInv == CollectorInv /\ Fail => CollectorInv'
<1> SUFFICES ASSUME CollectorInv, Fail PROVE CollectorInv'
  OBVIOUS
<1>1. PICK slot \in LateSlots : Forsaken(slot) /\ todo' = Detached(slot)
  BY DEF Fail
<1>2. /\ phase \in {"wait", "last"} /\ Unposted /\ UNCHANGED <<read, buffer, counted, healthy>>
      /\ phase' \in {"poll", "down"}
  BY DEF Fail, Unposted
<1>3. CollectorTypeOK /\ Waited /\ Balanced /\ NoRecordUnaccounted
  BY DEF CollectorInv
<1>4. ~Posted'
  BY <1>2 DEF Posted
<1>5. \A n \in Records :
        counted[n] + Cardinality(Pending(n)') <= unanswered'[n] + (IF n \in ToSet(buffer) THEN 0 ELSE 1)
  BY <1>1, <1>2, <1>3, LeftBalance DEF Pending
<1>6. /\ unanswered' \in [Records -> 0..MaxRepeats]
      /\ todo' \in [0..MaxLate -> SUBSET (1..read)]
  <2>1. 1 \in Records
    BY Bounds DEF Records
  <2>2. QED
    BY <1>1, <1>2, <1>3, <2>1, LeftBalance
<1>7. gone \subseteq gone' /\ gone' \subseteq 1..read
  BY <1>2, <1>3, BufferSet DEF Unposted, CollectorTypeOK
<1>8. CollectorTypeOK'
  BY <1>2, <1>3, <1>6, <1>7 DEF CollectorTypeOK
<1>9. Waited'
  <2>1. todo'[0] = {}
    BY <1>1, Bounds DEF Detached
  <2>2. QED
    BY <1>4, <2>1 DEF Waited
<1>10. Balanced'
  BY <1>2, <1>3, <1>4, <1>5 DEF Balanced
<1>11. NoRecordUnaccounted'
  BY <1>2, <1>3, <1>7 DEF NoRecordUnaccounted
<1>12. Ended'
  BY <1>2 DEF Ended, Unposted
<1>13. QED
  BY <1>8, <1>9, <1>10, <1>11, <1>12 DEF CollectorInv

\* The batch that goes on unheard, and the same buffer posted once more.
LEMMA InterruptInv == CollectorInv /\ Interrupt => CollectorInv'
<1> SUFFICES ASSUME CollectorInv, Interrupt PROVE CollectorInv'
  OBVIOUS
<1> DEFINE sent == IF Refused(buffer) THEN {} ELSE ToSet(buffer)
<1>1. PICK slot \in LateSlots : Forsaken(slot) /\ todo' = [Detached(slot) EXCEPT ![0] = sent]
  BY DEF Interrupt
<1>2. phase = "wait" /\ phase' = "last" /\ UNCHANGED <<read, buffer, counted, healthy, gone>>
  BY DEF Interrupt
<1>3. CollectorTypeOK /\ Waited /\ Balanced /\ NoRecordUnaccounted
  BY DEF CollectorInv
<1>4. Posted' <=> ~Refused(buffer)
  BY <1>2 DEF Posted, Refused
<1>5. DOMAIN Detached(slot) = 0..MaxLate /\ 0 \in 0..MaxLate /\ sent \subseteq 1..read
  BY <1>3, BufferSet, Bounds DEF Detached
<1>6. ASSUME NEW n \in Records
      PROVE  counted[n] + Cardinality(Pending(n)') <=
               unanswered'[n] + (IF n \in ToSet(buffer) /\ ~Posted' THEN 0 ELSE 1)
  <2> DEFINE left == {i \in 0..MaxLate : n \in Detached(slot)[i]}
  <2>1. counted[n] + Cardinality(left) <= unanswered'[n] + (IF n \in ToSet(buffer) THEN 0 ELSE 1)
        /\ unanswered' \in [Records -> 0..MaxRepeats]
    BY <1>1, <1>2, <1>3, LeftBalance
  <2>2. 0 \notin left /\ IsFiniteSet(left) /\ Cardinality(left) \in Nat
    BY <1>3, Leaving
  <2>3. counted[n] \in Nat /\ unanswered'[n] \in Nat
    BY <1>3, <2>1, Bounds DEF CollectorTypeOK
  <2>4. CASE n \in sent
    <3>1. Pending(n)' = left \union {0}
      BY <1>1, <1>5, <2>4 DEF Pending
    <3>2. Cardinality(Pending(n)') = Cardinality(left) + 1
      BY <2>2, <3>1, FS_AddElement
    <3> HIDE DEF left
    <3>3. QED
      BY <1>4, <2>1, <2>2, <2>3, <2>4, <3>2
  <2>5. CASE n \notin sent
    <3>1. Pending(n)' = left
      BY <1>1, <1>5, <2>2, <2>5 DEF Pending
    <3> HIDE DEF left
    <3>2. QED
      BY <2>1, <2>2, <2>3, <3>1
  <2>6. QED
    BY <2>4, <2>5
<1>7. /\ unanswered' \in [Records -> 0..MaxRepeats]
      /\ Detached(slot) \in [0..MaxLate -> SUBSET (1..read)]
  <2>1. 1 \in Records
    BY Bounds DEF Records
  <2>2. QED
    BY <1>1, <1>2, <1>3, <2>1, LeftBalance
<1>8. CollectorTypeOK'
  BY <1>1, <1>2, <1>3, <1>5, <1>7 DEF CollectorTypeOK
<1>9. Waited'
  <2>1. todo'[0] = sent
    BY <1>1, <1>5
  <2>2. QED
    BY <1>2, <1>4, <2>1 DEF Waited
<1>10. Balanced'
  BY <1>2, <1>3, <1>6 DEF Balanced
<1>11. NoRecordUnaccounted' /\ Ended'
  BY <1>2, <1>3 DEF NoRecordUnaccounted, Ended
<1>12. QED
  BY <1>8, <1>9, <1>10, <1>11 DEF CollectorInv

LEMMA CrashInv == CollectorInv /\ Crash => CollectorInv'
<1> SUFFICES ASSUME CollectorInv, Crash PROVE CollectorInv'
  OBVIOUS
<1>1. PICK slot \in LateSlots :
        /\ IF phase = "poll" THEN UNCHANGED unanswered ELSE Forsaken(slot)
        /\ todo' = Detached(slot)
  BY DEF Crash
<1>2. /\ phase # "down" /\ phase' = "down" /\ buffer' = <<>> /\ gone' = gone \union ToSet(buffer)
      /\ UNCHANGED <<read, counted, healthy>>
  BY DEF Crash
<1>3. CollectorTypeOK /\ Waited /\ Balanced /\ NoRecordUnaccounted
  BY DEF CollectorInv
<1>4. ~Posted' /\ ToSet(buffer') = {}
  BY <1>2 DEF Posted, ToSet
<1>5. /\ \A n \in Records : counted[n] + Cardinality(Pending(n)') <= unanswered'[n] + 1
      /\ unanswered' \in [Records -> 0..MaxRepeats]
      /\ todo' \in [0..MaxLate -> SUBSET (1..read)]
  <2>1. CASE phase = "poll"
    <3>1. todo[0] = {}
      BY <1>3, <2>1 DEF Waited, Posted
    <3>2. todo' = todo
      BY <1>1, <1>3, <3>1 DEF LateSlots, Detached, CollectorTypeOK
    <3>3. unanswered' = unanswered
      BY <1>1, <2>1
    <3>4. ASSUME NEW n \in Records PROVE counted[n] + Cardinality(Pending(n)) <= unanswered[n] + 1
      <4>1. counted[n] + Cardinality(Pending(n)) <=
              unanswered[n] + (IF n \in ToSet(buffer) /\ ~Posted THEN 0 ELSE 1)
        BY <1>3 DEF Balanced
      <4>2. counted[n] \in Nat /\ unanswered[n] \in Nat /\ Cardinality(Pending(n)) \in Nat
        BY <1>3, PendingFinite, Bounds DEF CollectorTypeOK
      <4>3. QED
        BY <4>1, <4>2
    <3>5. QED
      BY <1>3, <3>2, <3>3, <3>4 DEF CollectorTypeOK, Pending
  <2>2. CASE phase # "poll"
    <3>1. phase \in {"wait", "last"} /\ Forsaken(slot)
      BY <1>1, <1>2, <1>3, <2>2 DEF CollectorTypeOK
    <3>2. \A n \in Records :
            counted[n] + Cardinality(Pending(n)') <= unanswered'[n] + (IF n \in ToSet(buffer) THEN 0 ELSE 1)
      BY <1>1, <1>3, <3>1, LeftBalance DEF Pending
    <3>3. 1 \in Records
      BY Bounds DEF Records
    <3>4. /\ unanswered' \in [Records -> 0..MaxRepeats]
          /\ todo' \in [0..MaxLate -> SUBSET (1..read)]
      BY <1>1, <1>3, <3>1, <3>3, LeftBalance
    <3>5. ASSUME NEW n \in Records PROVE counted[n] + Cardinality(Pending(n)') <= unanswered'[n] + 1
      <4>1. IsFiniteSet(0..MaxLate) /\ Pending(n)' \subseteq 0..MaxLate
        BY Bounds, FS_Interval DEF Pending
      <4>2. Cardinality(Pending(n)') \in Nat
        BY <4>1, FS_Subset, FS_CardinalityType
      <4>3. counted[n] \in Nat /\ unanswered'[n] \in Nat
        BY <1>3, <3>4, Bounds DEF CollectorTypeOK
      <4>4. QED
        BY <3>2, <4>2, <4>3
    <3>6. QED
      BY <3>4, <3>5
  <2>3. QED
    BY <2>1, <2>2
<1>6. CollectorTypeOK'
  <2>1. gone' \subseteq 1..read
    BY <1>2, <1>3, BufferSet DEF CollectorTypeOK
  <2>2. buffer' \in Seq(Records) /\ Len(buffer') = 0
    BY <1>2
  <2>3. QED
    BY <1>2, <1>3, <1>5, <2>1, <2>2, Bounds DEF CollectorTypeOK
<1>7. Waited'
  <2>1. todo'[0] = {}
    BY <1>1, Bounds DEF Detached
  <2>2. QED
    BY <1>4, <2>1 DEF Waited
<1>8. Balanced'
  BY <1>2, <1>3, <1>4, <1>5 DEF Balanced
<1>9. NoRecordUnaccounted' /\ Ended'
  BY <1>2, <1>3, <1>4 DEF NoRecordUnaccounted, Ended
<1>10. QED
  BY <1>6, <1>7, <1>8, <1>9 DEF CollectorInv

\* Emptying the buffer costs nothing once what it held is counted or gone.
LEMMA EmptyInv ==
    ASSUME CollectorInv, buffer' = <<>>, phase' \in {"poll", "down"}, todo[0] = {},
           \A n \in ToSet(buffer) : counted[n] > 0 \/ n \in gone,
           UNCHANGED <<read, todo, counted, healthy, unanswered, gone>>
    PROVE  CollectorInv'
<1>1. CollectorTypeOK /\ Waited /\ Balanced /\ NoRecordUnaccounted
  BY DEF CollectorInv
<1>2. ~Posted' /\ ToSet(buffer') = {} /\ buffer' \in Seq(Records) /\ Len(buffer') = 0
  BY DEF Posted, ToSet
<1>3. CollectorTypeOK'
  BY <1>1, <1>2, Bounds DEF CollectorTypeOK
<1>4. Waited'
  BY <1>1, <1>2 DEF Waited
<1>5. ASSUME NEW n \in Records PROVE counted[n] + Cardinality(Pending(n)) <= unanswered[n] + 1
  <2>1. counted[n] + Cardinality(Pending(n)) <=
          unanswered[n] + (IF n \in ToSet(buffer) /\ ~Posted THEN 0 ELSE 1)
    BY <1>1 DEF Balanced
  <2>2. counted[n] \in Nat /\ unanswered[n] \in Nat /\ Cardinality(Pending(n)) \in Nat
    BY <1>1, PendingFinite, Bounds DEF CollectorTypeOK
  <2>3. QED
    BY <2>1, <2>2
<1>6. Balanced'
  BY <1>1, <1>2, <1>5 DEF Balanced, Pending
<1>7. NoRecordUnaccounted' /\ Ended'
  BY <1>1, <1>2 DEF NoRecordUnaccounted, Ended
<1>8. QED
  BY <1>3, <1>4, <1>6, <1>7 DEF CollectorInv

LEMMA StartInv == CollectorInv /\ Start => CollectorInv'
<1> SUFFICES ASSUME CollectorInv, Start PROVE CollectorInv'
  OBVIOUS
<1>1. ToSet(buffer) \subseteq gone /\ todo[0] = {}
  BY DEF CollectorInv, Start, Ended, Waited, Posted
<1>2. QED
  BY <1>1, EmptyInv DEF Start

LEMMA AnswerInv == CollectorInv /\ Answer => CollectorInv'
<1> SUFFICES ASSUME CollectorInv, Answer PROVE CollectorInv'
  OBVIOUS
<1>1. \A n \in ToSet(buffer) : counted[n] > 0
  BY DEF CollectorInv, Answer, Waited, Posted
<1>2. phase' \in {"poll", "down"}
  BY DEF Answer
<1>3. QED
  BY <1>1, <1>2, EmptyInv DEF Answer

LEMMA CountInv == ASSUME CollectorInv, NEW i \in 0..MaxLate, Count(i) PROVE CollectorInv'
<1> DEFINE first == CHOOSE n \in todo[i] : \A m \in todo[i] : n <= m
           same  == {n \in todo[i] : From[n] = From[first]}
<1>1. /\ counted' = [n \in Records |-> IF n \in same THEN counted[n] + 1 ELSE counted[n]]
      /\ todo' = [todo EXCEPT ![i] = @ \ same]
      /\ UNCHANGED <<read, buffer, phase, healthy, unanswered, gone>>
  BY DEF Count
<1>2. same \subseteq todo[i]
  OBVIOUS
<1> HIDE DEF same
<1>3. CollectorTypeOK /\ Waited /\ Balanced /\ NoRecordUnaccounted
  BY DEF CollectorInv
<1>4. \A n \in Records : counted[n] \in Nat /\ counted'[n] \in Nat /\ counted'[n] >= counted[n]
  BY <1>1, <1>3 DEF CollectorTypeOK
<1>5. CollectorTypeOK'
  <2>1. todo' \in [0..MaxLate -> SUBSET (1..read)]
    BY <1>1, <1>3 DEF CollectorTypeOK
  <2>2. counted' \in [Records -> Nat]
    BY <1>1, <1>3 DEF CollectorTypeOK
  <2>3. QED
    BY <1>1, <1>3, <2>1, <2>2 DEF CollectorTypeOK
<1>6. Posted' <=> Posted
  BY <1>1 DEF Posted, Refused
<1>7. Waited'
  <2>1. todo'[0] \in {todo[0], todo[0] \ same}
    <3>1. 0 \in 0..MaxLate /\ DOMAIN todo = 0..MaxLate
      BY <1>3, Bounds DEF CollectorTypeOK
    <3>2. CASE i = 0
      BY <1>1, <3>1, <3>2
    <3>3. CASE i # 0
      BY <1>1, <3>1, <3>3
    <3>4. QED
      BY <3>2, <3>3
  <2>2. ToSet(buffer) \subseteq Records
    BY <1>3, BufferSet
  <2>3. \A n \in ToSet(buffer) : n \in todo[0] => n \in todo'[0] \/ counted'[n] > 0
    <3>1. \A n \in ToSet(buffer) \intersect same : counted'[n] > 0
      BY <1>1, <1>4, <2>2
    <3>2. QED
      BY <2>1, <3>1
  <2>4. QED
    BY <1>1, <1>3, <1>4, <1>6, <2>1, <2>2, <2>3 DEF Waited
<1>8. Balanced'
  <2> SUFFICES ASSUME NEW n \in Records
               PROVE  /\ counted'[n] + Cardinality(Pending(n)') = counted[n] + Cardinality(Pending(n))
                      /\ n > read => counted'[n] = counted[n]
    BY <1>1, <1>3, <1>6 DEF Balanced
  <2>1. IsFiniteSet(Pending(n)) /\ Cardinality(Pending(n)) \in Nat /\ counted[n] \in Nat
    BY <1>4, PendingFinite
  <2>2. CASE n \in same
    <3>1. i \in Pending(n) /\ Pending(n)' = Pending(n) \ {i}
      BY <1>1, <1>2, <1>3, <2>2 DEF Pending, CollectorTypeOK
    <3>2. Cardinality(Pending(n)') = Cardinality(Pending(n)) - 1
      BY <2>1, <3>1, FS_RemoveElement
    <3>3. n \in 1..read
      BY <1>2, <1>3, <2>2 DEF CollectorTypeOK
    <3>4. counted'[n] = counted[n] + 1 /\ ~(n > read)
      BY <1>1, <1>3, <2>2, <3>3, BufferSet
    <3>5. QED
      BY <2>1, <3>2, <3>4
  <2>3. CASE n \notin same
    <3>1. Pending(n)' = Pending(n)
      BY <1>1, <1>3, <2>3 DEF Pending, CollectorTypeOK
    <3>2. QED
      BY <1>1, <2>3, <3>1
  <2>4. QED
    BY <2>2, <2>3
<1>9. NoRecordUnaccounted'
  <2>1. 1..read \subseteq Records
    BY <1>3, Bounds DEF CollectorTypeOK, Records
  <2>2. QED
    BY <1>1, <1>3, <1>4, <2>1 DEF NoRecordUnaccounted
<1>10. Ended'
  BY <1>1 DEF Ended, CollectorInv
<1>11. QED
  BY <1>5, <1>7, <1>8, <1>9, <1>10 DEF CollectorInv

LEMMA RefuseInv == CollectorInv /\ (Refuse \/ Outage) => CollectorInv'
<1> SUFFICES ASSUME CollectorInv, Refuse \/ Outage PROVE CollectorInv'
  OBVIOUS
<1>1. CollectorTypeOK /\ Waited /\ Balanced /\ NoRecordUnaccounted /\ Ended
  BY DEF CollectorInv
<1>2. /\ UNCHANGED <<read, buffer, todo, counted, unanswered>>
      /\ gone \subseteq gone' /\ gone' \subseteq gone \union ToSet(buffer)
      /\ phase' = "down" => ToSet(buffer) \subseteq gone'
  BY <1>1 DEF Refuse, Outage, Unposted, Ended
<1>3. Posted' <=> Posted
  BY <1>1, <1>2 DEF Refuse, Outage, Unposted, Posted, Refused
<1>4. CollectorTypeOK'
  BY <1>1, <1>2, BufferSet DEF Refuse, Outage, Unposted, CollectorTypeOK
<1>5. Waited' /\ Balanced'
  BY <1>1, <1>2, <1>3 DEF Waited, Balanced, Pending
<1>6. NoRecordUnaccounted' /\ Ended'
  BY <1>1, <1>2 DEF NoRecordUnaccounted, Ended
<1>7. QED
  BY <1>4, <1>5, <1>6 DEF CollectorInv

-----------------------------------------------------------------------------
(* Theorems.                                                               *)

LEMMA StepInv == CollectorInv /\ [CollectorNext]_collectorVars => CollectorInv'
<1> SUFFICES ASSUME CollectorInv, [CollectorNext]_collectorVars PROVE CollectorInv'
  OBVIOUS
<1>1. CASE Add
  BY <1>1, AddInv
<1>2. CASE Tick \/ Stop
  BY <1>2, TimedInv
<1>3. CASE Fail
  BY <1>3, FailInv
<1>4. CASE Interrupt
  BY <1>4, InterruptInv
<1>5. CASE Crash
  BY <1>5, CrashInv
<1>6. CASE Start
  BY <1>6, StartInv
<1>7. ASSUME NEW i \in 0..MaxLate, Count(i) PROVE CollectorInv'
  BY <1>7, CountInv
<1>8. CASE Answer
  BY <1>8, AnswerInv
<1>9. CASE Refuse \/ Outage
  BY <1>9, RefuseInv
<1>10. CASE UNCHANGED collectorVars
  BY <1>10 DEF collectorVars, CollectorInv, CollectorTypeOK, Waited, Posted, Refused, Balanced, Pending, NoRecordUnaccounted, Ended
<1>11. QED
  BY <1>1, <1>2, <1>3, <1>4, <1>5, <1>6, <1>7, <1>8, <1>9, <1>10 DEF CollectorNext

LEMMA CollectorInvariance == CollectorSpec => []CollectorInv
<1>1. QED
  BY CollectorInitInv, StepInv, PTL DEF CollectorSpec

\* The buffer is always the newest records, at most as many as the backend
\* accepts, whatever fails and however often it is posted.
THEOREM CollectorTypeCorrect == CollectorSpec => []CollectorTypeOK
<1>1. CollectorInv => CollectorTypeOK
  BY DEF CollectorInv
<1>2. QED
  BY <1>1, CollectorInvariance, PTL

\* No record leaves the buffer uncounted but for the cap or with the process,
\* for any batch, cap, addresses and number of batches still being handled.
THEOREM NoRecordLost == CollectorSpec => []NoRecordUnaccounted
<1>1. CollectorInv => NoRecordUnaccounted
  BY DEF CollectorInv
<1>2. QED
  BY <1>1, CollectorInvariance, PTL

\* A record is counted again only for a post that nobody answered.
THEOREM TwiceUnanswered == CollectorSpec => []TwiceOnlyUnanswered
<1>1. CollectorInv => TwiceOnlyUnanswered
  <2> SUFFICES ASSUME CollectorInv, NEW n \in Records PROVE counted[n] <= 1 + unanswered[n]
    BY DEF TwiceOnlyUnanswered
  <2>1. counted[n] + Cardinality(Pending(n)) <=
          unanswered[n] + (IF n \in ToSet(buffer) /\ ~Posted THEN 0 ELSE 1)
    BY DEF CollectorInv, Balanced
  <2>2. counted[n] \in Nat /\ unanswered[n] \in Nat /\ Cardinality(Pending(n)) \in Nat
    BY PendingFinite, Bounds DEF CollectorInv, CollectorTypeOK
  <2>3. QED
    BY <2>1, <2>2
<1>2. QED
  BY <1>1, CollectorInvariance, PTL
=============================================================================
