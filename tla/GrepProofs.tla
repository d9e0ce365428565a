----------------------------- MODULE GrepProofs -----------------------------
(***************************************************************************)
(* grep prints the matching lines of a text, whatever the sizes of lines,  *)
(* blocks and its buffer.  First what a line is, for sequences; then what  *)
(* every step of a session does to the part of the file searched so far.   *)
(***************************************************************************)
EXTENDS ProgramsProofs, FiniteSetTheorems

-----------------------------------------------------------------------------
(* Lines of a sequence *)

\* A line ends before the first newline behind its start.
LEMMA LineAtIs ==
    ASSUME NEW X, NEW c \in Seq(X), NEW a \in 1..Len(c), NEW e \in Nat, a - 1 <= e, e <= Len(c),
           e = Len(c) \/ c[e + 1] = NL, \A k \in a..e : c[k] # NL
    PROVE  LineAt(c, a) = SubSeq(c, a, e)
  <1> DEFINE E == {x \in (a - 1)..Len(c) : x = Len(c) \/ c[x + 1] = NL}
  <1>1. a \in Nat /\ Len(c) \in Nat /\ E \in SUBSET Nat /\ e \in E
    OBVIOUS
  <1>2. FirstOf(E) \in E /\ FirstOf(E) <= e
    BY <1>1, FirstExists
  <1>3. FirstOf(E) \in Nat /\ FirstOf(E) >= a - 1
        /\ (FirstOf(E) = Len(c) \/ c[FirstOf(E) + 1] = NL)
    BY <1>1, <1>2
  <1>4. ~ (FirstOf(E) < e)
    <2> SUFFICES ASSUME FirstOf(E) < e PROVE FALSE
      OBVIOUS
    <2>1. c[FirstOf(E) + 1] = NL /\ FirstOf(E) + 1 \in a..e
      BY <1>1, <1>3
    <2> QED BY <2>1
  <1>5. FirstOf(E) = e
    BY <1>2, <1>3, <1>4
  <1> QED BY <1>5 DEF LineAt

\* A line as long as the buffer at least, and not longer, ends where that ends.
LEMMA FullLine ==
    ASSUME NEW X, NEW c \in Seq(X), NEW a \in 1..Len(c), NEW e \in Nat, a - 1 <= e, e <= Len(c),
           \A k \in a..e : c[k] # NL, Len(LineAt(c, a)) <= e - a + 1
    PROVE  e = Len(c) \/ c[e + 1] = NL
  <1> DEFINE E == {x \in (a - 1)..Len(c) : x = Len(c) \/ c[x + 1] = NL}
             x == FirstOf(E)
  <1>1. a \in Nat /\ Len(c) \in Nat /\ E \in SUBSET Nat /\ Len(c) \in E
    OBVIOUS
  <1>2. FirstOf(E) \in E
    BY <1>1, FirstExists
  <1>3. x \in Nat /\ x >= a - 1 /\ x <= Len(c) /\ (x = Len(c) \/ c[x + 1] = NL)
    BY <1>1, <1>2
  <1>4. LineAt(c, a) = SubSeq(c, a, x)
    BY DEF LineAt
  <1> HIDE DEF x
  <1>5. Len(LineAt(c, a)) = x - a + 1
    BY <1>1, <1>3, <1>4
  <1>6. x <= e
    BY <1>1, <1>3, <1>5
  <1>7. ~ (x < e)
    <2> SUFFICES ASSUME x < e PROVE FALSE
      OBVIOUS
    <2>1. c[x + 1] = NL /\ x + 1 \in a..e
      BY <1>1, <1>3
    <2> QED BY <2>1
  <1> QED BY <1>3, <1>6, <1>7

\* Places in a sequence are finitely many.
LEMMA StartsFinite ==
    ASSUME NEW X, NEW c \in Seq(X), NEW S \in SUBSET LineStarts(c)
    PROVE  IsFiniteSet(S) /\ Cardinality(S) \in Nat /\ S \subseteq 1..Len(c) /\ S \subseteq Nat
  <1>1. S \subseteq 1..Len(c) /\ Len(c) \in Nat
    BY DEF LineStarts
  <1>2. IsFiniteSet(1..Len(c))
    BY <1>1, FS_Interval
  <1>3. IsFiniteSet(S)
    BY <1>1, <1>2, FS_Subset
  <1> QED BY <1>1, <1>3, FS_CardinalityType

LEMMA SeqAsFunction ==
    ASSUME NEW Z, NEW q \in Seq(Z) PROVE q = [k \in 1..Len(q) |-> q[k]]
  <1>1. q \in [1..Len(q) -> Z]
    OBVIOUS
  <1> QED BY <1>1, Zenon

\* One more line, behind those there are.
LEMMA OneMoreLine ==
    ASSUME NEW X, NEW c \in Seq(X), NEW S \in SUBSET LineStarts(c), NEW a \in LineStarts(c),
           \A b \in S : b < a, NEW lines, LinesInOrder(lines, c, S)
    PROVE  LinesInOrder(Append(lines, LineAt(c, a)), c, S \cup {a})
  <1> DEFINE n == Cardinality(S)
  <1>1. /\ IsFiniteSet(S) /\ n \in Nat /\ S \subseteq Nat /\ a \in Nat /\ a \notin S
    BY StartsFinite DEF LineStarts
  <1>2. Cardinality(S \cup {a}) = n + 1
    BY <1>1, FS_AddElement
  <1>3. PICK from \in [1..n -> S] : /\ \A j, k \in 1..n : j < k => from[j] < from[k]
                                    /\ lines = [k \in 1..n |-> LineAt(c, from[k])]
    BY DEF LinesInOrder
  <1> HIDE DEF n
  <1> DEFINE more == [k \in 1..(n + 1) |-> IF k <= n THEN from[k] ELSE a]
  <1>4. more \in [1..(n + 1) -> S \cup {a}]
    BY <1>1, <1>3
  <1>5. ASSUME NEW j \in 1..(n + 1), NEW k \in 1..(n + 1), j < k PROVE more[j] < more[k]
    <2>1. j \in 1..n /\ more[j] = from[j] /\ from[j] \in S
      BY <1>1, <1>3, <1>5
    <2>2. CASE k <= n
      BY <1>1, <1>3, <1>5, <2>1, <2>2
    <2>3. CASE ~ (k <= n)
      BY <1>1, <2>1, <2>3
    <2> QED BY <2>2, <2>3
  <1>6. Append(lines, LineAt(c, a)) = [k \in 1..(n + 1) |-> LineAt(c, more[k])]
    <2>1. lines \in Seq({LineAt(c, b) : b \in S}) /\ Len(lines) = n
      BY <1>1, <1>3
    <2>2. \A k \in 1..(n + 1) : Append(lines, LineAt(c, a))[k] = LineAt(c, more[k])
      BY <1>1, <1>3, <2>1
    <2>3. DOMAIN Append(lines, LineAt(c, a)) = 1..(n + 1)
      BY <1>1, <2>1
    <2>4. Append(lines, LineAt(c, a)) \in Seq({LineAt(c, b) : b \in S} \cup {LineAt(c, a)})
          /\ Len(Append(lines, LineAt(c, a))) = n + 1
      BY <2>1
    <2> DEFINE app == Append(lines, LineAt(c, a))
    <2> HIDE DEF app
    <2>5. app = [k \in 1..(n + 1) |-> app[k]]
      <3>1. app \in Seq({LineAt(c, b) : b \in S} \cup {LineAt(c, a)}) /\ Len(app) = n + 1
        BY <2>4 DEF app
      <3> QED BY <3>1, SeqAsFunction
    <2>6. \A k \in 1..(n + 1) : app[k] = LineAt(c, more[k])
      BY <2>2 DEF app
    <2> HIDE DEF more
    <2>7. app = [k \in 1..(n + 1) |-> LineAt(c, more[k])]
      BY <2>5, <2>6, Zenon
    <2> QED BY <2>7 DEF app
  <1> QED BY <1>2, <1>4, <1>5, <1>6 DEF LinesInOrder

\* No line has been printed before the file is read.
LEMMA NoLines == ASSUME NEW c PROVE LinesInOrder(<<>>, c, {})
  <1>1. Cardinality({}) = 0
    BY FS_EmptySet
  <1>2. 1..0 = {}
    OBVIOUS
  <1>3. [k \in {} |-> k] \in [{} -> {}]
    OBVIOUS
  <1>4. \A f : <<>> = [k \in 1..0 |-> LineAt(c, f[k])]
    OBVIOUS
  <1> QED BY <1>1, <1>2, <1>3, <1>4 DEF LinesInOrder

\* A line that is searched and printed if it contains s: from n to e, where the
\* next one starts behind its newline or, if the buffer is full, at it.
LEMMA LineSearched ==
    ASSUME NEW X, NEW c \in Seq(X), NEW Y, NEW s \in Seq(Y), NEW lines,
           NEW n \in Nat, NEW e \in Nat, NEW m \in {e, e + 1}, n <= e, n < m, e <= Len(c), m <= Len(c),
           e = Len(c) \/ c[e + 1] = NL, \A k \in (n + 1)..e : c[k] # NL, Boundary(c, n),
           LinesInOrder(lines, c, MatchesUpTo(c, s, n))
    PROVE  LET line == SubSeq(c, n + 1, e)
           IN  /\ Boundary(c, m)
               /\ LinesInOrder(IF OccursIn(line, s) THEN Append(lines, line) ELSE lines, c,
                               MatchesUpTo(c, s, m))
  <1> DEFINE line == SubSeq(c, n + 1, e)
             before == {a \in Matches(c, s) : a <= n}
             after == {a \in Matches(c, s) : a <= m}
  <1>1. /\ Len(c) \in Nat /\ m \in Nat /\ n + 1 \in 1..Len(c)
        /\ Matches(c, s) \subseteq LineStarts(c) /\ \A a \in LineStarts(c) : a \in 1..Len(c)
    BY DEF Matches, LineStarts
  <1>2. Boundary(c, m)
    BY <1>1 DEF Boundary
  <1>3. LineAt(c, n + 1) = line
    BY <1>1, LineAtIs
  <1>4. ASSUME NEW a \in LineStarts(c), a > n, a <= m PROVE a = n + 1
    <2> SUFFICES ASSUME a # n + 1 PROVE FALSE
      OBVIOUS
    <2>1. a \in Nat /\ a - 1 \in (n + 1)..e /\ a # 1
      BY <1>1, <1>4
    <2>2. c[a - 1] = NL
      BY <1>4, <2>1 DEF LineStarts
    <2> QED BY <2>1, <2>2
  <1>5. CASE OccursIn(line, s)
    <2>1. n + 1 \in LineStarts(c)
      <3>1. e # n
        <4> SUFFICES ASSUME e = n PROVE FALSE
          OBVIOUS
        <4>1. line = <<>>
          BY <1>1
        <4>2. s # <<>> /\ Len(s) \in Nat /\ Len(s) # 0
          BY <1>5 DEF OccursIn
        <4>3. 0..(Len(line) - Len(s)) = {}
          BY <4>1, <4>2
        <4> QED BY <1>5, <4>3 DEF OccursIn
      <3>2. c[n + 1] # NL /\ n # Len(c)
        BY <1>1, <3>1
      <3>3. n = 0 \/ c[n] = NL
        BY <3>2 DEF Boundary
      <3> QED BY <1>1, <3>3 DEF LineStarts
    <2>2. n + 1 \in Matches(c, s)
      BY <1>3, <1>5, <2>1 DEF Matches
    <2>3. after = before \cup {n + 1}
      <3>1. ASSUME NEW a \in after PROVE a \in before \cup {n + 1}
        <4>1. a \in LineStarts(c) /\ a \in Nat /\ a <= m /\ a \in Matches(c, s)
          BY <1>1, <3>1
        <4> QED BY <1>4, <4>1
      <3>2. ASSUME NEW a \in before PROVE a \in after
        BY <1>1, <3>2
      <3>3. n + 1 \in after
        BY <1>1, <2>2
      <3> QED BY <3>1, <3>2, <3>3
    <2>4. before \in SUBSET LineStarts(c) /\ \A b \in before : b < n + 1
      BY <1>1
    <2> HIDE DEF before, after
    <2>5. LinesInOrder(Append(lines, LineAt(c, n + 1)), c, before \cup {n + 1})
      BY <2>1, <2>4, OneMoreLine DEF before, MatchesUpTo
    <2> QED BY <1>2, <1>3, <1>5, <2>3, <2>5 DEF after, MatchesUpTo
  <1>6. CASE ~OccursIn(line, s)
    <2>1. n + 1 \notin Matches(c, s)
      BY <1>3, <1>6 DEF Matches
    <2>2. after = before
      <3>1. ASSUME NEW a \in after PROVE a \in before
        <4>1. a \in LineStarts(c) /\ a \in Nat /\ a <= m /\ a \in Matches(c, s) /\ a # n + 1
          BY <1>1, <2>1, <3>1
        <4> QED BY <1>4, <4>1
      <3>2. ASSUME NEW a \in before PROVE a \in after
        BY <1>1, <3>2
      <3> QED BY <3>1, <3>2
    <2> HIDE DEF before, after
    <2>3. LinesInOrder(lines, c, before)
      BY DEF before, MatchesUpTo
    <2> QED BY <1>2, <1>6, <2>2, <2>3 DEF after, MatchesUpTo
  <1> QED BY <1>5, <1>6

\* s occurs in a line at some place exactly if its characters follow there.
LEMMA OccursHere ==
    ASSUME NEW X, NEW line \in Seq(X), NEW Y, NEW s \in Seq(Y), NEW j \in Nat,
           j + Len(s) <= Len(line)
    PROVE  SubSeq(line, j + 1, j + Len(s)) = s <=> \A k \in 1..Len(s) : line[j + k] = s[k]
  <1> DEFINE sub == SubSeq(line, j + 1, j + Len(s))
  <1>1. Len(s) \in Nat /\ Len(line) \in Nat
    OBVIOUS
  <1>2. sub \in Seq(X) /\ Len(sub) = Len(s) /\ \A k \in 1..Len(s) : sub[k] = line[j + k]
    <2>1. sub = [k \in 1..Len(s) |-> line[j + k]]
      BY <1>1
    <2>2. \A k \in 1..Len(s) : line[j + k] \in X
      BY <1>1
    <2> QED BY <1>1, <2>1, <2>2
  <1> HIDE DEF sub
  <1>3. ASSUME \A k \in 1..Len(s) : line[j + k] = s[k] PROVE sub = s
    <2>1. sub = [k \in 1..Len(s) |-> sub[k]] /\ s = [k \in 1..Len(s) |-> s[k]]
      BY <1>2, SeqAsFunction
    <2>2. \A k \in 1..Len(s) : sub[k] = s[k]
      BY <1>2, <1>3
    <2>3. [k \in 1..Len(s) |-> sub[k]] = [k \in 1..Len(s) |-> s[k]]
      BY <2>2, Zenon
    <2> QED BY <2>1, <2>3
  <1> QED BY <1>2, <1>3 DEF sub

-----------------------------------------------------------------------------
(* The file grep works on *)

FileBytes == {FileByte(file_array[3].inode, k) : k \in Nat}

LEMMA TheFileFacts ==
    ASSUME FSInv, Exact
    PROVE  /\ TheFile \in Seq(FileBytes) /\ Len(TheFile) = FileLength(file_array[3].inode)
           /\ \A k \in 1..Len(TheFile) : TheFile[k] = FileByte(file_array[3].inode, k - 1)
           /\ Len(TheFile) \in Nat /\ got[3] \in Seq(Byte \cup Char) /\ Len(got[3]) \in Nat
           /\ Len(got[3]) <= Len(TheFile) /\ Len(got[3]) = file_array[3].fileposition
  <1> DEFINE n == file_array[3].inode
  <1>1. FileLength(n) \in Nat
    BY InodeFacts, Constants DEF FSInv, FSTypeOK, OpenFiles, Exact
  <1>2. TheFile = [k \in 1..FileLength(n) |-> FileByte(n, k - 1)]
    BY DEF TheFile, Content
  <1>3. \A k \in 1..FileLength(n) : FileByte(n, k - 1) \in FileBytes
    BY <1>1 DEF FileBytes
  <1>4. got[3] \in Seq(Byte \cup Char) /\ Len(got[3]) \in Nat
    BY Constants DEF FSInv, FSTypeOK
  <1>5. Len(got[3]) <= FileLength(n) /\ Len(got[3]) = file_array[3].fileposition
    BY Constants DEF FSInv, ReadsFormPrefix, Exact
  <1> HIDE DEF n
  <1>6. TheFile \in Seq(FileBytes) /\ Len(TheFile) = FileLength(n)
        /\ \A k \in 1..FileLength(n) : TheFile[k] = FileByte(n, k - 1)
    BY <1>1, <1>2, <1>3
  <1> QED BY <1>1, <1>4, <1>5, <1>6 DEF n

LEMMA TheFileKept ==
    ASSUME UNCHANGED image, file_array'[3].inode = file_array[3].inode
    PROVE  TheFile' = TheFile
  BY DEF TheFile, Content, FileLength, FileByte, BlockOf

\* grep works on a file at four places only.
LEMMA NotSearching ==
    ASSUME at' \notin {"file_read", "file_got", "line", "file_close"}
    PROVE  Searching' /\ GrepExact'
  BY DEF Searching, GrepExact

\* What execute passes on is characters of the shell's buffer.
LEMMA ArgsType ==
    ASSUME ProgInv PROVE CommandArgs \in Seq(Char \cup {NUL} \cup StackByte)
  <1> DEFINE from == NameEnd + 1
             S == {j \in from..(from + BufSize) : Command(j) = NUL}
             to == FirstNul(from)
  <1>1. from \in Nat /\ BufSize \in Nat
    BY NameEndFacts, Constants
  <1>2. S \in SUBSET Nat /\ from + BufSize \in S
    BY <1>1 DEF Command
  <1>3. FirstOf(S) \in S
    BY <1>2, FirstExists
  <1>4. to \in Nat /\ to >= from
    BY <1>1, <1>3 DEF FirstNul
  <1>5. CommandArgs = [k \in 1..(to - from) |-> Command(from + k - 1)]
    BY DEF CommandArgs, CommandBytes
  <1>6. ASSUME NEW j \in Nat PROVE Command(j) \in Char \cup {NUL} \cup StackByte
    BY <1>1 DEF Command, ProgInv, ProgTypeOK
  <1> HIDE DEF from, to
  <1>7. \A k \in 1..(to - from) : Command(from + k - 1) \in Char \cup {NUL} \cup StackByte
    BY <1>1, <1>4, <1>6
  <1> QED BY <1>1, <1>4, <1>5, <1>7

-----------------------------------------------------------------------------
(* Steps outside of the search *)

LEMMA GrepInitInv == Init => GrepInv
  <1> SUFFICES ASSUME Init PROVE GrepInv
    OBVIOUS
  <1>1. at = "shell" /\ arg = <<>> /\ DOMAIN data = 0..GrepSize
    BY DEF Init, NoData
  <1>2. <<>> \in Seq(Char \cup {NUL} \cup StackByte)
    OBVIOUS
  <1> QED BY <1>1, <1>2 DEF GrepInv, GrepTypeOK, Searching, GrepExact

LEMMA ElsewhereInv ==
    ASSUME ProgInv, GrepInv,
           \/ \E line \in Lines : Type(line)
           \/ Execute \/ Halt \/ OpenDirectory \/ LsRead \/ CatOpen \/ CatRead \/ CatWrite
           \/ GrepDir \/ FileClose
    PROVE  GrepInv'
  <1>1. at' \notin {"file_read", "file_got", "line", "file_close"}
    BY DEF Type, Execute, Halt, OpenDirectory, LsRead, CatOpen, CatRead, CatWrite, GrepDir,
           FileClose, Return
  <1>2. GrepTypeOK'
    <2>1. CASE UNCHANGED <<arg, data>>
      BY <2>1 DEF GrepInv, GrepTypeOK
    <2>2. CASE Execute
      BY <2>2, ArgsType DEF Execute, GrepLocals, GrepInv, GrepTypeOK
    <2>3. CASE Halt
      <3>1. <<>> \in Seq(Char \cup {NUL} \cup StackByte)
        OBVIOUS
      <3> QED BY <2>3, <3>1 DEF Halt, NoData, GrepTypeOK
    <2>4. CASE FileClose
      BY <2>4 DEF FileClose, Session, Shell, NoData, GrepInv, GrepTypeOK
    <2> QED BY <2>1, <2>2, <2>3, <2>4
            DEF Type, OpenDirectory, LsRead, CatOpen, CatRead, CatWrite, GrepDir, Session, Shell,
                GrepLocals
  <1> QED BY <1>1, <1>2, NotSearching DEF GrepInv

LEMMA OpenedInv == ASSUME ProgInv, GrepInv, FileOpen PROVE GrepInv'
  <1>1. CASE ~Found(name)
    BY <1>1, NotSearching DEF FileOpen, Return, Session, Shell, GrepInv, GrepTypeOK
  <1>2. CASE Found(name)
    <2>1. /\ Open(3, name) /\ at' = "file_read" /\ data' = [j \in 0..GrepSize |-> garbage']
          /\ last' = 0 /\ out' = <<>> /\ arg' = arg
      BY <1>2 DEF FileOpen, Session, Shell
    <2>2. GrepTypeOK'
      BY <2>1 DEF GrepInv, GrepTypeOK
    <2>3. got'[3] = <<>>
      BY <2>1, Constants DEF Open, ProgInv, FSInv, FSTypeOK
    <2>4. ASSUME Exact' PROVE Searched'
      <3>1. FSInv'
        BY <2>1, OpenInv, Constants DEF ProgInv
      <3>2. Fresh' = 0 /\ BufferStart' = 0 /\ Current' = 0
        BY <2>1, <2>3 DEF Fresh, BufferStart, Current
      <3>3. data'[GrepSize] # NL
        BY <2>1, <2>4, Constants DEF Exact
      <3>4. MatchesUpTo(TheFile', arg', 0) = {}
        <4>1. Len(TheFile') \in Nat
          BY <2>4, <3>1, TheFileFacts
        <4> QED BY <4>1 DEF MatchesUpTo, Matches, LineStarts
      <3>5. LinesInOrder(out', TheFile', MatchesUpTo(TheFile', arg', 0))
        BY <2>1, <3>4, NoLines
      <3> QED BY <2>1, <3>2, <3>3, <3>5 DEF Searched, Boundary
    <2> QED BY <2>1, <2>2, <2>4 DEF GrepInv, Searching, GrepExact
  <1> QED BY <1>1, <1>2

\* Nothing that the search depends on changes.
LEMMA SearchKept ==
    ASSUME GrepInv, UNCHANGED <<image, at, pc, file_array, length, ret, got, broken, arg, data, out,
                                last, line_start, garbage>>,
           buf' = buf \/ pc # "user"
    PROVE  GrepInv'
  <1>1. TheFile' = TheFile
    BY TheFileKept
  <1>2. /\ Fresh' = Fresh /\ BufferStart' = BufferStart /\ Current' = Current
        /\ (GotAll' <=> GotAll) /\ GrepRoom' = GrepRoom
    BY <1>1 DEF Fresh, BufferStart, Current, GotAll, GrepRoom
  <1>3. Searched => Searched'
    BY <1>1, <1>2 DEF Searched
  <1> QED BY <1>1, <1>3 DEF GrepInv, GrepTypeOK, Searching, GrepExact, Exact

LEMMA CallInv == ASSUME ProgInv, GrepInv, FileReadCall PROVE GrepInv'
  <1>1. /\ at = "file_read" /\ at' = "file_got"
        /\ RtcRead(3) \/ RtcDisturbed(3) \/ FileRead(3, GrepRoom)
        /\ UNCHANGED <<arg, data, out, last, line_start, garbage>>
    BY DEF FileReadCall, Shell, GrepLocals
  <1>2. GrepTypeOK' /\ GrepExact'
    BY <1>1 DEF GrepInv, GrepTypeOK, GrepExact
  <1>3. CASE RtcRead(3) \/ RtcDisturbed(3)
    <2>1. file_array'[3].filetype = Rtc
      BY <1>3, RtcReturnsFacts, Constants DEF ProgInv
    <2>2. ~Exact'
      BY <2>1 DEF Exact, Rtc, Regular
    <2> QED BY <1>2, <2>2 DEF GrepInv, Searching
  <1>4. CASE FileRead(3, GrepRoom)
    <2>1. pc' = "enter" /\ length' = GrepRoom /\ UNCHANGED <<image, file_array, got, broken>>
      BY <1>4 DEF FileRead, StartRead
    <2>2. TheFile' = TheFile /\ (Exact' <=> Exact)
      BY <1>1, <2>1, TheFileKept DEF Exact
    <2>3. Fresh' = 0 /\ Fresh = 0 /\ BufferStart' = BufferStart /\ Current' = Current
          /\ GrepRoom' = GrepRoom
      BY <1>1, <2>1 DEF Fresh, BufferStart, Current, GrepRoom
    <2>4. Searched => Searched'
      BY <1>1, <2>1, <2>2, <2>3 DEF Searched
    <2> QED BY <1>1, <1>2, <2>2, <2>4 DEF GrepInv, Searching
  <1> QED BY <1>1, <1>3, <1>4

-----------------------------------------------------------------------------
(* A read *)

\* read_data returns: it has stored the bytes behind those read before, and left
\* room in the buffer only at the end of the file.
LEMMA ReturnedInv ==
    ASSUME ProgInv, GrepInv, Finish, at = "file_got", UNCHANGED progVars
    PROVE  GrepInv'
  <1>0. FSInv /\ TableTypeOK /\ ProgramState /\ ProgTypeOK /\ GrepTypeOK /\ Searching /\ GrepBuffer
    BY TypeParts DEF ProgInv, FSInv, GrepInv
  <1>1. /\ pc = "finish" /\ pc' = "user" /\ fd = 3 /\ Advance(3, ret)
        /\ IF 3 \notin broken /\ ret = Len(buf)
           THEN got' = [got EXCEPT ![3] = @ \o buf] ELSE broken' = broken \cup {3}
        /\ UNCHANGED <<image, buf, ret, at, arg, data, out, last, line_start, garbage>>
    BY <1>0 DEF Finish, ProgramState, progVars
  <1>2. GrepTypeOK' /\ GrepExact'
    BY <1>0, <1>1 DEF GrepTypeOK, GrepExact
  <1>3. ASSUME Exact', Text(TheFile)' PROVE Searched'
    <2>1. 3 \notin broken /\ ret = Len(buf) /\ got'[3] = got[3] \o buf
      BY <1>0, <1>1, <1>3, Constants DEF Exact, TableTypeOK
    <2>2. /\ file_array'[3].filetype = file_array[3].filetype
          /\ file_array'[3].inode = file_array[3].inode
      BY <1>0, <1>1, Constants, AdvanceFacts, ReadFacts DEF FSInv, FSTypeOK
    <2>3. TheFile' = TheFile /\ Exact
      BY <1>1, <1>3, <2>1, <2>2, TheFileKept DEF Exact
    <2>4. Searched
      BY <1>0, <1>1, <1>3, <2>3 DEF Searching
    <2>5. /\ TheFile \in Seq(FileBytes) /\ Len(TheFile) = FileLength(file_array[3].inode)
          /\ \A k \in 1..Len(TheFile) : TheFile[k] = FileByte(file_array[3].inode, k - 1)
          /\ Len(TheFile) \in Nat /\ got[3] \in Seq(Byte \cup Char) /\ Len(got[3]) \in Nat
          /\ Len(got[3]) <= Len(TheFile) /\ Len(got[3]) = file_array[3].fileposition
      BY <1>0, <2>3, TheFileFacts
    <2>6. /\ inode = file_array[3].inode /\ offset = Len(got[3]) /\ length = GrepRoom
          /\ buf \in Seq(Byte \cup Char) /\ Len(buf) \in Nat
      BY <1>0, <1>1, <2>4, <2>5 DEF FSInv, OpenFiles, FSTypeOK, Searched
    <2>7. /\ Len(buf) = Available(inode, offset, length) /\ ret # -1
          /\ Len(buf) > 0 => offset + Len(buf) <= FileLength(inode)
          /\ \A k \in 1..Len(buf) : buf[k] = FileByte(inode, offset + k - 1)
      <3>1. ret # -1
        BY <2>1, <2>6
      <3> QED BY <1>0, <1>1, <2>1, <3>1 DEF FSInv, ReadLoop, Stored
    <2>8. got'[3] \in Seq(Byte \cup Char) /\ Len(got'[3]) = Len(got[3]) + Len(buf)
      <3> DEFINE T == Byte \cup Char
      <3> HIDE DEF T
      <3>1. got[3] \in Seq(T) /\ buf \in Seq(T)
        BY <2>5, <2>6 DEF T
      <3>2. got[3] \o buf \in Seq(T) /\ Len(got[3] \o buf) = Len(got[3]) + Len(buf)
        BY <3>1
      <3> QED BY <2>1, <3>2 DEF T
    <2>9. last \in Nat /\ last < GrepSize /\ GrepSize \in Nat
      BY <1>0, <1>1, Constants DEF ProgTypeOK, GrepBuffer
    <2>10. Fresh = 0 /\ Fresh' = Len(buf) /\ BufferStart' = BufferStart /\ Current' = Current
           /\ BufferStart = Len(got[3]) - last
      <3>1. Fresh = 0 /\ Fresh' = Len(buf)
        BY <1>1 DEF Fresh
      <3>2. BufferStart = Len(got[3]) - last /\ BufferStart' = BufferStart
        BY <1>1, <2>5, <2>6, <2>8, <2>9, <3>1 DEF BufferStart
      <3> QED BY <1>1, <3>1, <3>2 DEF Current
    <2>11. \A k \in 1..Len(buf) : buf[k] = TheFile[BufferStart + last + k]
      <3> TAKE k \in 1..Len(buf)
      <3>0. k \in Nat /\ k > 0 /\ k <= Len(buf) /\ Len(buf) > 0
        BY <2>6
      <3>1. BufferStart + last + k = Len(got[3]) + k /\ Len(got[3]) + k \in 1..Len(TheFile)
        <4>1. Len(got[3]) + Len(buf) <= Len(TheFile)
          BY <2>5, <2>6, <2>7, <3>0
        <4>2. BufferStart + last = Len(got[3])
          BY <2>5, <2>9, <2>10
        <4> QED BY <2>5, <2>6, <3>0, <4>1, <4>2
      <3>2. TheFile[Len(got[3]) + k] = FileByte(inode, Len(got[3]) + k - 1)
        BY <2>5, <2>6, <3>1
      <3>3. buf[k] = FileByte(inode, Len(got[3]) + k - 1)
        BY <2>6, <2>7
      <3> QED BY <3>1, <3>2, <3>3
    <2>12. last + ret = GrepSize \/ GotAll'
      <3>1. Len(got'[3]) = Len(TheFile) \/ Len(buf) = GrepRoom
        BY <2>5, <2>6, <2>7, <2>8, <2>9 DEF Available, GrepRoom
      <3> QED BY <2>1, <2>3, <2>9, <3>1 DEF GotAll, GrepRoom
    <2> QED BY <1>1, <2>1, <2>3, <2>4, <2>10, <2>11, <2>12 DEF Searched
  <1> QED BY <1>2, <1>3 DEF GrepInv, Searching

LEMMA ReadingInv == ASSUME ProgInv, GrepInv, KernelStep PROVE GrepInv'
  <1>0. FSInv /\ ProgTypeOK /\ ProgramState /\ GrepTypeOK
    BY DEF ProgInv, GrepInv
  <1>1. /\ ReadStep /\ UNCHANGED progVars
        /\ UNCHANGED <<at, arg, data, out, last, line_start, garbage>>
    BY DEF KernelStep, progVars
  <1>2. /\ pc # "user" /\ UNCHANGED image
        /\ pc' # "user" => UNCHANGED <<file_array, length, got, broken>>
        /\ pc' = "user" => Finish
    BY <1>0, <1>1, ReadStepFrame DEF ProgTypeOK
  <1>3. at \in {"cat_write", "file_got"}
    BY <1>0, <1>2 DEF ProgramState
  <1>4. GrepTypeOK'
    BY <1>0, <1>1 DEF GrepTypeOK
  <1>5. CASE at = "cat_write"
    BY <1>1, <1>4, <1>5, NotSearching DEF GrepInv
  <1>6. CASE at = "file_got" /\ pc' = "user"
    BY <1>1, <1>2, <1>6, ReturnedInv
  <1>7. CASE at = "file_got" /\ pc' # "user"
    <2>1. TheFile' = TheFile /\ (Exact' <=> Exact)
      BY <1>1, <1>2, <1>7, TheFileKept DEF Exact
    <2>2. Fresh' = 0 /\ Fresh = 0 /\ BufferStart' = BufferStart /\ Current' = Current
          /\ GrepRoom' = GrepRoom
      BY <1>1, <1>2, <1>7 DEF Fresh, BufferStart, Current, GrepRoom
    <2>3. Searched => Searched'
      BY <1>1, <1>2, <1>7, <2>1, <2>2 DEF Searched
    <2>4. Searching' /\ GrepExact'
      BY <1>1, <1>7, <2>1, <2>3 DEF GrepInv, Searching, GrepExact
    <2> QED BY <1>4, <2>4 DEF GrepInv
  <1> QED BY <1>3, <1>5, <1>6, <1>7

\* grep takes what was stored into its buffer.
LEMMA GotInv == ASSUME ProgInv, GrepInv, FileGot PROVE GrepInv'
  <1>0. FSInv /\ ProgTypeOK /\ GrepBuffer /\ GrepTypeOK /\ Searching
    BY DEF ProgInv, GrepInv
  <1>1. /\ at = "file_got" /\ pc = "user" /\ UNCHANGED <<arg, out, garbage>>
        /\ UNCHANGED <<image, file_array, pc, buf, ret, got, broken>>
    BY DEF FileGot, Session, Shell, fsVars, readVars
  <1>2. CASE at' \in {"done", "lost"}
    <2>1. DOMAIN data' = 0..GrepSize
      BY <1>0 DEF FileGot, GrepTypeOK
    <2> QED BY <1>0, <1>1, <1>2, <2>1, NotSearching DEF GrepInv, GrepTypeOK
  <1>3. CASE at' = "line"
    <2>1. /\ data' = [j \in 0..GrepSize |->
                         IF j >= last /\ j < last + Len(buf) THEN buf[j - last + 1] ELSE data[j]]
          /\ last' = last + ret /\ line_start' = 0 /\ last + ret <= GrepSize
      <3>1. last \in Nat /\ ret \in Int /\ GrepSize \in Nat
        BY <1>0, Constants DEF ProgTypeOK
      <3> QED BY <1>3, <3>1 DEF FileGot, Return
    <2>2. GrepTypeOK' /\ GrepExact'
      BY <1>0, <1>1, <1>3, <2>1 DEF GrepTypeOK, GrepExact
    <2>3. ASSUME Exact', Text(TheFile)' PROVE Searched'
      <3>1. TheFile' = TheFile /\ Exact /\ (GotAll' <=> GotAll)
        BY <1>1, <2>3, TheFileKept DEF Exact, GotAll
      <3>2. Searched /\ ret = Len(buf) /\ (last + ret = GrepSize \/ GotAll)
            /\ \A k \in 1..Len(buf) : buf[k] = TheFile[BufferStart + last + k]
        BY <1>0, <1>1, <2>3, <3>1 DEF Searching, Searched
      <3>3. /\ last \in Nat /\ last < GrepSize /\ GrepSize \in Nat /\ Len(buf) \in Nat
            /\ Len(got[3]) \in Nat
        BY <1>0, <1>1, <3>1, Constants, TheFileFacts DEF ProgTypeOK, GrepBuffer, FSInv, FSTypeOK
      <3>4. /\ BufferStart \in Nat /\ BufferStart' = BufferStart /\ Current = BufferStart
            /\ Current' = BufferStart
        BY <1>1, <1>3, <2>1, <3>2, <3>3 DEF Searched, Fresh, BufferStart, Current
      <3>5. ASSUME NEW j \in 0..(last' - 1) PROVE data'[j] = TheFile[BufferStart + j + 1]
        <4>1. CASE j < last
          <5>1. data'[j] = data[j] /\ j \in 0..(last - 1) /\ BufferStart + j >= Current
            BY <2>1, <3>3, <3>4, <4>1
          <5> QED BY <3>2, <5>1 DEF Searched
        <4>2. CASE ~ (j < last)
          <5>1. data'[j] = buf[j - last + 1] /\ j - last + 1 \in 1..Len(buf)
            BY <2>1, <3>2, <3>3, <4>2
          <5>2. BufferStart + last + (j - last + 1) = BufferStart + j + 1
            BY <3>3, <3>4
          <5> QED BY <3>2, <5>1, <5>2
        <4> QED BY <4>1, <4>2
      <3>6. data'[GrepSize] # NL
        BY <2>1, <3>2, <3>3 DEF Searched
      <3>7. Boundary(TheFile, Current)
            /\ LinesInOrder(out, TheFile, MatchesUpTo(TheFile, arg, Current))
        BY <3>2 DEF Searched
      <3>8. (last' = GrepSize \/ GotAll') /\ (ret' = 0 => GotAll')
        BY <1>1, <2>1, <3>1, <3>2, <3>3
      <3> QED BY <1>1, <1>3, <3>1, <3>4, <3>5, <3>6, <3>7, <3>8 DEF Searched
    <2> QED BY <2>2, <2>3 DEF GrepInv, Searching
  <1> QED BY <1>2, <1>3 DEF FileGot, Return

-----------------------------------------------------------------------------
(* A line *)

\* What the buffer holds from the current line on, and where that line ends.
LEMMA LineFacts ==
    ASSUME ProgInv, GrepInv, at = "line", Exact, Text(TheFile)
    PROVE  /\ TheFile \in Seq(FileBytes) /\ Len(TheFile) \in Nat /\ arg \in Seq(Char \cup {NUL} \cup StackByte)
           /\ BufferStart \in Nat /\ BufferStart = Len(got[3]) - last /\ Len(got[3]) \in Nat
           /\ last \in Nat /\ line_start \in Nat
           /\ BufferStart + last <= Len(TheFile) /\ (GotAll <=> BufferStart + last = Len(TheFile))
           /\ Current = BufferStart + line_start
           /\ GrepSize \in Nat /\ GrepSize > 0 /\ last <= GrepSize
           /\ line_start # 0 => line_start < last
           /\ LineEnd \in Nat /\ line_start <= LineEnd /\ LineEnd <= last
           /\ LineEnd < last => data[LineEnd] = NL
           /\ \A j \in line_start..(LineEnd - 1) : data[j] # NL
           /\ \A j \in line_start..(last - 1) :
                 data[j] = TheFile[BufferStart + j + 1] /\ data[j] # NUL
           /\ Searched
  <1> DEFINE S == {j \in line_start..last : j = last \/ data[j] = NL}
  <1>1. FSInv /\ ProgTypeOK /\ GrepBuffer /\ GrepTypeOK /\ Searched
    BY DEF ProgInv, GrepInv, Searching
  <1>2. /\ TheFile \in Seq(FileBytes) /\ Len(TheFile) \in Nat /\ Len(got[3]) \in Nat
        /\ Len(got[3]) <= Len(TheFile)
    BY <1>1, TheFileFacts
  <1>3. /\ last \in Nat /\ line_start \in Nat /\ GrepSize \in Nat /\ GrepSize > 0
        /\ last <= GrepSize /\ (line_start # 0 => line_start < last)
    BY <1>1, Constants DEF ProgTypeOK, GrepBuffer
  <1>4. /\ BufferStart \in Nat /\ BufferStart = Len(got[3]) - last
        /\ Current = BufferStart + line_start
    BY <1>1, <1>2, <1>3 DEF Searched, BufferStart, Fresh, Current
  <1>5. /\ BufferStart + last <= Len(TheFile) /\ (GotAll <=> BufferStart + last = Len(TheFile))
    BY <1>2, <1>3, <1>4 DEF GotAll
  <1>6. S \in SUBSET Nat /\ last \in S
    BY <1>3
  <1>7. LineEnd \in S /\ \A j \in S : LineEnd <= j
    BY <1>6, FirstExists DEF LineEnd
  <1>8. LineEnd \in Nat /\ line_start <= LineEnd /\ LineEnd <= last
        /\ (LineEnd < last => data[LineEnd] = NL)
    BY <1>3, <1>7
  <1>9. ASSUME NEW j \in line_start..(LineEnd - 1) PROVE data[j] # NL
    <2>1. j \in line_start..last /\ ~ (LineEnd <= j)
      BY <1>3, <1>8
    <2> QED BY <1>7, <2>1
  <1>10. ASSUME NEW j \in line_start..(last - 1)
         PROVE  data[j] = TheFile[BufferStart + j + 1] /\ data[j] # NUL
    <2>1. j \in 0..(last - 1) /\ BufferStart + j >= Current
          /\ BufferStart + j + 1 \in 1..Len(TheFile)
      BY <1>2, <1>3, <1>4, <1>5
    <2> QED BY <1>1, <2>1 DEF Searched, Text
  <1> QED BY <1>1, <1>2, <1>3, <1>4, <1>5, <1>8, <1>9, <1>10 DEF GrepTypeOK

\* The start of a line that is not complete becomes the buffer's start.
LEMMA KeepLineInv == ASSUME ProgInv, GrepInv, KeepLine PROVE GrepInv'
  <1> DEFINE bytes == [data EXCEPT ![LineEnd] = NUL]
             S == {j \in 0..(LineEnd - line_start) : bytes[line_start + j] = NUL}
             size == FirstOf(S)
  <1>1. /\ at = "line" /\ data[LineEnd] # NL /\ ret # 0 /\ line_start # 0
        /\ data' = [j \in 0..GrepSize |-> IF j <= size THEN bytes[line_start + j] ELSE bytes[j]]
        /\ last' = last - line_start /\ at' = "file_read"
        /\ UNCHANGED <<image, file_array, got, broken, arg, out, line_start, garbage>>
    BY DEF KeepLine, LineIncomplete, Session, Shell, fsVars, readVars
  <1>2. GrepTypeOK' /\ GrepExact'
    BY <1>1 DEF GrepInv, GrepTypeOK, GrepExact
  <1>3. ASSUME Exact', Text(TheFile)' PROVE Searched'
    <2>1. TheFile' = TheFile /\ Exact
      BY <1>1, <1>3, TheFileKept DEF Exact
    <2>2. /\ BufferStart \in Nat /\ BufferStart = Len(got[3]) - last /\ Len(got[3]) \in Nat
          /\ last \in Nat /\ line_start \in Nat
          /\ Current = BufferStart + line_start
          /\ GrepSize \in Nat /\ GrepSize > 0 /\ last <= GrepSize /\ line_start < last
          /\ LineEnd = last
          /\ \A j \in line_start..(last - 1) :
                data[j] = TheFile[BufferStart + j + 1] /\ data[j] # NUL
          /\ Searched
      BY <1>1, <1>3, <2>1, LineFacts
    <2>3. DOMAIN data = 0..GrepSize
      BY DEF GrepInv, GrepTypeOK
    <2>4. bytes[last] = NUL /\ \A j \in 0..GrepSize : j # last => bytes[j] = data[j]
      BY <2>2, <2>3
    <2> HIDE DEF bytes
    <2>5. size = last - line_start
      <3>1. S \in SUBSET Nat /\ last - line_start \in S
        BY <2>2, <2>4
      <3>2. size \in S /\ size <= last - line_start
        BY <3>1, FirstExists
      <3>3. size \in Nat /\ bytes[line_start + size] = NUL
        BY <2>2, <3>2
      <3> HIDE DEF size
      <3>4. ASSUME size < last - line_start PROVE FALSE
        <4>1. last \in Nat /\ line_start \in Nat /\ GrepSize \in Nat /\ last <= GrepSize
              /\ line_start < last
          BY <2>2
        <4>2. line_start + size \in line_start..(last - 1) /\ line_start + size \in 0..GrepSize
              /\ line_start + size # last
          BY <3>3, <3>4, <4>1
        <4> QED BY <2>2, <2>4, <3>3, <4>2
      <3> QED BY <2>2, <3>2, <3>3, <3>4
    <2> HIDE DEF size
    <2>6. /\ BufferStart' = BufferStart + line_start /\ BufferStart' \in Nat /\ Current' = Current
          /\ last' \in Nat
      BY <1>1, <2>2 DEF BufferStart, Fresh, Current
    <2>7. ASSUME NEW j \in 0..(last' - 1) PROVE data'[j] = TheFile[BufferStart' + j + 1]
      <3>1. j \in 0..GrepSize /\ j <= size /\ line_start + j \in line_start..(last - 1)
            /\ line_start + j \in 0..GrepSize /\ line_start + j # last
        BY <1>1, <2>2, <2>5
      <3>2. data'[j] = data[line_start + j]
        BY <1>1, <2>4, <3>1
      <3>3. BufferStart' + j + 1 = BufferStart + (line_start + j) + 1
        <4>1. BufferStart \in Nat /\ line_start \in Nat /\ j \in Nat
          BY <2>2, <3>1
        <4> QED BY <2>6, <4>1
      <3> QED BY <2>2, <3>1, <3>2, <3>3
    <2>8. data'[GrepSize] # NL
      <3>1. data'[GrepSize] = bytes[GrepSize]
        BY <1>1, <2>2, <2>5
      <3> QED BY <2>2, <2>4, <3>1, ProgramsAssumption DEF Searched
    <2> QED BY <1>1, <2>1, <2>2, <2>6, <2>7, <2>8 DEF Searched
  <1> QED BY <1>2, <1>3 DEF GrepInv, Searching

\* The line ends at a newline or with the file, if it is not kept.
LEMMA LineComplete ==
    ASSUME ProgInv, GrepInv, at = "line", Exact, Text(TheFile), ~LineIncomplete, last # 0
    PROVE  LET e == BufferStart + LineEnd IN e = Len(TheFile) \/ TheFile[e + 1] = NL
  <1> DEFINE c == TheFile
             e == BufferStart + LineEnd
  <1>1. /\ c \in Seq(FileBytes) /\ Len(c) \in Nat /\ BufferStart \in Nat
        /\ last \in Nat /\ line_start \in Nat
        /\ BufferStart + last <= Len(c) /\ (GotAll <=> BufferStart + last = Len(c))
        /\ Current = BufferStart + line_start
        /\ GrepSize \in Nat /\ GrepSize > 0 /\ last <= GrepSize
        /\ line_start # 0 => line_start < last
        /\ LineEnd \in Nat /\ line_start <= LineEnd /\ LineEnd <= last
        /\ LineEnd < last => data[LineEnd] = NL
        /\ \A j \in line_start..(LineEnd - 1) : data[j] # NL
        /\ \A j \in line_start..(last - 1) : data[j] = c[BufferStart + j + 1]
        /\ Searched
    BY LineFacts
  <1>2. CASE LineEnd < last
    <2>1. LineEnd \in line_start..(last - 1)
      BY <1>1, <1>2
    <2> QED BY <1>1, <1>2, <2>1
  <1>3. CASE LineEnd = last /\ GotAll
    BY <1>1, <1>3
  <1>4. CASE LineEnd = last /\ ~GotAll
    <2>1. last = GrepSize /\ ret # 0 /\ data[LineEnd] # NL
      BY <1>1, <1>4 DEF Searched
    <2>2. line_start = 0 /\ Current = BufferStart
      BY <1>1, <2>1 DEF LineIncomplete
    <2> DEFINE n == BufferStart
    <2>3. e \in Nat /\ n + 1 \in 1..Len(c) /\ n < e /\ e <= Len(c) /\ e - (n + 1) + 1 = GrepSize
      BY <1>1, <1>4, <2>1
    <2>4. \A k \in (n + 1)..e : c[k] # NL
      <3> TAKE k \in (n + 1)..e
      <3>1. k - n - 1 \in line_start..(LineEnd - 1) /\ k - n - 1 \in line_start..(last - 1)
            /\ BufferStart + (k - n - 1) + 1 = k
        BY <1>1, <1>4, <2>2, <2>3
      <3> QED BY <1>1, <3>1
    <2>5. n + 1 \in LineStarts(c)
      <3>1. Boundary(c, n)
        BY <1>1, <2>2 DEF Searched
      <3>2. n + 1 \in (n + 1)..e /\ n # Len(c) /\ n \in Nat
        <4>1. n \in Nat /\ Len(c) \in Nat
          BY <1>1
        <4> HIDE DEF n, e
        <4> QED BY <2>3, <4>1
      <3>3. c[n + 1] # NL
        BY <2>4, <3>2
      <3> QED BY <2>3, <3>1, <3>2, <3>3 DEF Boundary, LineStarts
    <2>6. Len(LineAt(c, n + 1)) <= e - (n + 1) + 1
      BY <2>3, <2>5 DEF Text
    <2> HIDE DEF c, e, n
    <2> QED
      <3>1. c \in Seq(FileBytes) /\ n + 1 - 1 <= e
        BY <1>1, <2>3 DEF n
      <3>2. e = Len(c) \/ c[e + 1] = NL
        BY <2>3, <2>4, <2>6, <3>1, FullLine
      <3> QED BY <3>2 DEF c, e
  <1> QED BY <1>1, <1>2, <1>3, <1>4

\* The search of the buffer finds what occurs in the line, and the line is
\* printed as a whole.
LEMMA LineFound ==
    ASSUME ProgInv, GrepInv, at = "line", Exact, Text(TheFile)
    PROVE  LET line == SubSeq(TheFile, Current + 1, BufferStart + LineEnd)
               size == LineEnd - line_start
               S == {j \in 0..size : j = size \/ data[line_start + j] = NUL}
           IN  /\ (\E j \in line_start..(LineEnd - 1) : OccursAt(j, LineEnd)) <=> OccursIn(line, arg)
               /\ [k \in 1..FirstOf(S) |-> data[line_start + k - 1]] = line
  <1> DEFINE c == TheFile
             n == Current
             E == LineEnd
             L == E - line_start
             S == {j \in 0..L : j = L \/ data[line_start + j] = NUL}
             line == SubSeq(c, n + 1, BufferStart + E)
  <1>1. /\ c \in Seq(FileBytes) /\ Len(c) \in Nat /\ arg \in Seq(Char \cup {NUL} \cup StackByte)
        /\ BufferStart \in Nat /\ last \in Nat /\ line_start \in Nat
        /\ BufferStart + last <= Len(c) /\ n = BufferStart + line_start
        /\ E \in Nat /\ line_start <= E /\ E <= last /\ L \in Nat /\ n \in Nat
    BY LineFacts
  <1>2. \A j \in line_start..(last - 1) : data[j] = c[BufferStart + j + 1] /\ data[j] # NUL
    BY LineFacts
  <1> HIDE DEF c, n, E
  <1>3. line = [k \in 1..L |-> c[n + k]]
    BY <1>1
  <1>4. line \in Seq(FileBytes) /\ Len(line) = L
    BY <1>1
  <1>5. ASSUME NEW k \in 1..L
        PROVE  line[k] = data[line_start + k - 1] /\ data[line_start + k - 1] # NUL
               /\ c[n + k] = data[line_start + k - 1]
    <2>1. line_start + k - 1 \in line_start..(last - 1)
          /\ BufferStart + (line_start + k - 1) + 1 = n + k
      BY <1>1
    <2> QED BY <1>2, <1>3, <2>1
  <1>6. FirstOf(S) = L
    <2>1. S \in SUBSET Nat /\ L \in S
      BY <1>1
    <2>2. FirstOf(S) \in S /\ FirstOf(S) <= L
      BY <2>1, FirstExists
    <2>3. FirstOf(S) \in Nat /\ (FirstOf(S) = L \/ data[line_start + FirstOf(S)] = NUL)
      BY <2>1, <2>2
    <2> DEFINE f == FirstOf(S)
    <2> HIDE DEF f
    <2>4. ASSUME f < L, f \in Nat PROVE data[line_start + f] # NUL
      <3>1. f + 1 \in 1..L /\ line_start + (f + 1) - 1 = line_start + f
        BY <1>1, <2>4
      <3> QED BY <1>5, <3>1
    <2> QED BY <1>1, <2>2, <2>3, <2>4 DEF f
  <1>7. [k \in 1..L |-> data[line_start + k - 1]] = line
    <2>1. \A k \in 1..L : data[line_start + k - 1] = c[n + k]
      BY <1>5
    <2>2. [k \in 1..L |-> data[line_start + k - 1]] = [k \in 1..L |-> c[n + k]]
      BY <2>1, Zenon
    <2> QED BY <1>3, <2>2
  <1>8. Len(arg) \in Nat
    BY <1>1
  <1> HIDE DEF S, L, line
  <1>9. ASSUME NEW j \in Nat, j + Len(arg) <= L
        PROVE  SubSeq(line, j + 1, j + Len(arg)) = arg
                  <=> \A k \in 1..Len(arg) : data[line_start + j + k - 1] = arg[k]
    <2>1. SubSeq(line, j + 1, j + Len(arg)) = arg <=> \A k \in 1..Len(arg) : line[j + k] = arg[k]
      BY <1>1, <1>4, <1>9, OccursHere
    <2>2. \A k \in 1..Len(arg) : line[j + k] = data[line_start + j + k - 1]
      <3> TAKE k \in 1..Len(arg)
      <3>1. j + k \in 1..L /\ line_start + (j + k) - 1 = line_start + j + k - 1
        BY <1>1, <1>8, <1>9
      <3> QED BY <1>5, <3>1
    <2> QED BY <2>1, <2>2
  <1>10. ASSUME NEW j \in line_start..(E - 1), OccursAt(j, E) PROVE OccursIn(line, arg)
    <2>0. data[j] # NUL
      BY <1>1, <1>2
    <2>1. arg # <<>> /\ j + Len(arg) <= E /\ \A k \in 1..Len(arg) : data[j + k - 1] = arg[k]
      BY <1>10, <2>0 DEF OccursAt
    <2>2. /\ j - line_start \in Nat /\ (j - line_start) + Len(arg) <= L
          /\ line_start + (j - line_start) = j /\ j - line_start \in 0..(L - Len(arg))
      BY <1>1, <1>8, <2>1 DEF L
    <2>3. SubSeq(line, (j - line_start) + 1, (j - line_start) + Len(arg)) = arg
      BY <1>9, <2>1, <2>2
    <2> QED BY <1>4, <2>1, <2>2, <2>3 DEF OccursIn
  <1>11. ASSUME OccursIn(line, arg) PROVE \E j \in line_start..(E - 1) : OccursAt(j, E)
    <2>1. PICK j \in 0..(L - Len(arg)) : SubSeq(line, j + 1, j + Len(arg)) = arg
      BY <1>4, <1>11 DEF OccursIn
    <2>2. arg # <<>> /\ Len(arg) > 0
      BY <1>1, <1>11 DEF OccursIn
    <2>3. j \in Nat /\ j + Len(arg) <= L /\ line_start + j \in line_start..(E - 1)
          /\ line_start + j + Len(arg) <= E
      BY <1>1, <1>8, <2>2 DEF L
    <2>4. OccursAt(line_start + j, E)
      BY <1>9, <2>1, <2>2, <2>3 DEF OccursAt
    <2> QED BY <2>3, <2>4
  <1>12. (\E j \in line_start..(E - 1) : OccursAt(j, E)) <=> OccursIn(line, arg)
    BY <1>10, <1>11
  <1> QED BY <1>6, <1>7, <1>12 DEF S, L, line, c, n, E

\* What has been searched after a line: up to the start of the next one.
LEMMA LineHandled ==
    ASSUME ProgInv, GrepInv, SearchLine, Exact, Text(TheFile)
    PROVE  LET m == BufferStart + (IF LineEnd < last THEN LineEnd + 1 ELSE last)
           IN  /\ Boundary(TheFile, m)
               /\ LinesInOrder(out', TheFile, MatchesUpTo(TheFile, arg, m))
  <1> DEFINE c == TheFile
             n == Current
             E == LineEnd
             e == BufferStart + E
             m == BufferStart + (IF E < last THEN E + 1 ELSE last)
             line == SubSeq(c, n + 1, e)
             found == \E j \in line_start..(E - 1) : OccursAt(j, E)
             size == E - line_start
             S == {j \in 0..size : j = size \/ data[line_start + j] = NUL}
  <1>1. /\ at = "line" /\ ~LineIncomplete
        /\ out' = IF found THEN Append(out, [k \in 1..FirstOf(S) |-> data[line_start + k - 1]])
                  ELSE out
    BY DEF SearchLine
  <1>2. /\ c \in Seq(FileBytes) /\ Len(c) \in Nat /\ arg \in Seq(Char \cup {NUL} \cup StackByte)
        /\ BufferStart \in Nat /\ last \in Nat /\ line_start \in Nat
        /\ BufferStart + last <= Len(c) /\ (GotAll <=> BufferStart + last = Len(c))
        /\ n = BufferStart + line_start /\ n \in Nat
        /\ GrepSize \in Nat /\ GrepSize > 0
        /\ line_start # 0 => line_start < last
        /\ E \in Nat /\ line_start <= E /\ E <= last
    BY <1>1, LineFacts
  <1>3. /\ \A j \in line_start..(E - 1) : data[j] # NL
        /\ \A j \in line_start..(last - 1) : data[j] = c[BufferStart + j + 1]
        /\ Searched
    BY <1>1, LineFacts
  <1>4. (found <=> OccursIn(line, arg)) /\ [k \in 1..FirstOf(S) |-> data[line_start + k - 1]] = line
    BY <1>1, LineFound
  <1>5. /\ Boundary(c, n) /\ LinesInOrder(out, c, MatchesUpTo(c, arg, n))
        /\ (last = GrepSize \/ GotAll)
    BY <1>1, <1>3 DEF Searched
  <1>6. out' = IF OccursIn(line, arg) THEN Append(out, line) ELSE out
    BY <1>1, <1>4
  <1>7. CASE last = 0
    <2>1. n = m /\ E = 0 /\ line_start = 0
      BY <1>2, <1>7
    <2>2. ~found
      BY <2>1
    <2>3. out' = out
      BY <1>1, <2>2
    <2> HIDE DEF m, n
    <2> QED BY <1>5, <2>1, <2>3 DEF m
  <1>8. CASE last # 0
    <2>1. e = Len(c) \/ c[e + 1] = NL
      BY <1>1, <1>8, LineComplete
    <2>2. /\ e \in Nat /\ m \in {e, e + 1} /\ n <= e /\ n < m /\ e <= Len(c) /\ m <= Len(c)
      BY <1>2, <1>8
    <2>3. \A k \in (n + 1)..e : c[k] # NL
      <3> TAKE k \in (n + 1)..e
      <3>1. k - BufferStart - 1 \in line_start..(E - 1)
            /\ k - BufferStart - 1 \in line_start..(last - 1)
            /\ BufferStart + (k - BufferStart - 1) + 1 = k
        BY <1>2
      <3> QED BY <1>3, <3>1
    <2> HIDE DEF c, n, e, m
    <2>4. /\ Boundary(c, m)
          /\ LinesInOrder(IF OccursIn(line, arg) THEN Append(out, line) ELSE out, c,
                          MatchesUpTo(c, arg, m))
      <3>1. c \in Seq(FileBytes) /\ n \in Nat /\ arg \in Seq(Char \cup {NUL} \cup StackByte)
        BY <1>2
      <3>2. e \in Nat /\ m \in {e, e + 1} /\ n <= e /\ n < m /\ e <= Len(c) /\ m <= Len(c)
        BY <2>2
      <3> QED BY <1>5, <2>1, <2>3, <3>1, <3>2, LineSearched DEF line
    <2> QED BY <1>6, <2>4 DEF c, m
  <1> QED BY <1>7, <1>8

\* The line is searched, and the buffer left when there is no other in it.
LEMMA SearchLineInv == ASSUME ProgInv, GrepInv, SearchLine PROVE GrepInv'
  <1> DEFINE next == IF LineEnd < last THEN LineEnd + 1 ELSE last
             m == BufferStart + next
  <1>1. /\ at = "line" /\ data' = [data EXCEPT ![LineEnd] = NUL]
        /\ IF LineEnd + 1 < last
           THEN line_start' = LineEnd + 1 /\ UNCHANGED <<at, last>>
           ELSE /\ line_start' = 0 /\ last' = 0
                /\ at' = IF ret = 0 THEN "file_close" ELSE "file_read"
        /\ UNCHANGED <<image, file_array, got, broken, arg, ret, garbage>>
    BY DEF SearchLine, Session, Shell, fsVars, readVars
  <1>2. DOMAIN data = 0..GrepSize /\ GrepTypeOK'
    BY <1>1 DEF GrepInv, GrepTypeOK
  <1>3. ASSUME Exact', Text(TheFile)'
        PROVE  /\ at' \in {"line", "file_read"} => Searched'
               /\ at' = "file_close" => LinesInOrder(out', TheFile', Matches(TheFile', arg'))
    <2>1. TheFile' = TheFile /\ Exact /\ (GotAll' <=> GotAll)
      BY <1>1, <1>3, TheFileKept DEF Exact, GotAll
    <2>2. /\ Len(TheFile) \in Nat /\ BufferStart \in Nat /\ BufferStart = Len(got[3]) - last
          /\ Len(got[3]) \in Nat /\ last \in Nat /\ line_start \in Nat
          /\ (GotAll <=> BufferStart + last = Len(TheFile))
          /\ GrepSize \in Nat /\ last <= GrepSize
          /\ LineEnd \in Nat /\ line_start <= LineEnd /\ LineEnd <= last
      BY <1>1, <1>3, <2>1, LineFacts
    <2>3. /\ \A j \in line_start..(last - 1) : data[j] = TheFile[BufferStart + j + 1]
          /\ Searched
      BY <1>1, <1>3, <2>1, LineFacts
    <2>4. /\ Boundary(TheFile, m)
          /\ LinesInOrder(out', TheFile, MatchesUpTo(TheFile, arg, m))
      BY <1>3, <2>1, LineHandled
    <2>0. next \in Nat /\ next = IF LineEnd + 1 < last THEN LineEnd + 1 ELSE last
      <3>1. last \in Nat /\ LineEnd \in Nat /\ LineEnd <= last
        BY <2>2
      <3> QED BY <3>1
    <2> HIDE DEF next
    <2>5. data'[GrepSize] # NL
      BY <1>1, <1>2, <2>2, <2>3, ProgramsAssumption DEF Searched
    <2>6. (last = GrepSize \/ GotAll) /\ (ret = 0 => GotAll)
      BY <1>1, <2>3 DEF Searched
    <2>7. CASE LineEnd + 1 < last
      <3>1. at' = "line" /\ last' = last /\ line_start' = LineEnd + 1
        BY <1>1, <2>7
      <3>2. BufferStart' = BufferStart /\ Current' = m
        BY <1>1, <2>0, <2>7, <3>1 DEF BufferStart, Fresh, Current
      <3>3. ASSUME NEW j \in 0..(last' - 1), BufferStart' + j >= Current'
            PROVE  data'[j] = TheFile[BufferStart' + j + 1]
        <4>1. j \in line_start..(last - 1) /\ j # LineEnd /\ j \in 0..GrepSize
          BY <2>0, <2>2, <2>7, <3>1, <3>2, <3>3
        <4>2. data'[j] = data[j]
          BY <1>1, <1>2, <4>1
        <4> QED BY <2>3, <3>2, <4>1, <4>2
      <3> HIDE DEF m
      <3> QED BY <1>1, <2>1, <2>2, <2>4, <2>5, <2>6, <3>1, <3>2, <3>3 DEF Searched
    <2>8. CASE ~ (LineEnd + 1 < last)
      <3>1. /\ last' = 0 /\ line_start' = 0 /\ at' = IF ret = 0 THEN "file_close" ELSE "file_read"
        BY <1>1, <2>8
      <3>2. m = BufferStart + last /\ m = Len(got[3])
        <4>1. next = last
          BY <2>0, <2>8
        <4> QED BY <2>2, <4>1
      <3> HIDE DEF m
      <3>3. CASE ret # 0
        <4>1. BufferStart' = m /\ Current' = m /\ at' = "file_read" /\ m \in Nat
          BY <1>1, <2>2, <3>1, <3>2, <3>3 DEF BufferStart, Fresh, Current
        <4>2. 0..(last' - 1) = {}
          BY <3>1
        <4> QED BY <1>1, <2>1, <2>4, <2>5, <4>1, <4>2 DEF Searched
      <3>4. CASE ret = 0
        <4>1. m = Len(TheFile)
          BY <2>2, <2>6, <3>2, <3>4
        <4>2. MatchesUpTo(TheFile, arg, m) = Matches(TheFile, arg)
          BY <2>2, <4>1 DEF MatchesUpTo, Matches, LineStarts
        <4> QED BY <1>1, <2>1, <2>4, <3>1, <3>4, <4>2
      <3> QED BY <3>3, <3>4
    <2> QED BY <2>7, <2>8
  <1>4. at' \in {"line", "file_read", "file_close"}
    BY <1>1
  <1> QED BY <1>2, <1>3, <1>4 DEF GrepInv, Searching, GrepExact

-----------------------------------------------------------------------------
(* The invariant *)

\* A handler during a read of grep's: either the count is the read's, or the
\* descriptor is one the search says nothing of.
LEMMA DisturbedInv == ASSUME ProgInv, GrepInv, HandlerStep PROVE GrepInv'
  <1>0. FSInv /\ ProgramState /\ ret \in Nat \cup {-1}
    BY DEF ProgInv, ProgTypeOK
  <1>1. /\ FilesTest \/ \E eoi \in Eoi : Interrupt(eoi)
        /\ UNCHANGED <<at, arg, out, data, last, line_start, garbage>>
    BY DEF HandlerStep, Shell, GrepLocals
  <1>2. /\ pc # "user" /\ UNCHANGED <<image, file_array, pc, length, buf, got>>
        /\ broken' \in {broken, broken \cup {fd}} /\ (fd \notin broken' => ret' = ret)
    BY <1>0, <1>1, HandlerFrame
  <1>3. CASE broken' = broken /\ ret' = ret
    BY <1>1, <1>2, <1>3, SearchKept
  <1>4. CASE ~(broken' = broken /\ ret' = ret)
    <2>1. fd \in broken'
      BY <1>2, <1>4
    <2>2. (at = "cat_write" /\ fd = 2) \/ (at = "file_got" /\ fd = 3)
      BY <1>0, <1>2 DEF ProgramState
    <2>3. at' \in {"file_read", "file_got", "line", "file_close"} => ~Exact'
      BY <1>1, <2>1, <2>2 DEF Exact
    <2> QED BY <1>1, <2>3 DEF GrepInv, GrepTypeOK, Searching, GrepExact
  <1> QED BY <1>3, <1>4

\* Every step of a session preserves what is known of the search.
LEMMA GrepStepInv == ProgInv /\ GrepInv /\ [Next]_vars => GrepInv'
  <1> SUFFICES ASSUME ProgInv, GrepInv, [Next]_vars PROVE GrepInv'
    OBVIOUS
  <1>1. CASE \/ \E line \in Lines : Type(line)
             \/ Execute \/ Halt \/ OpenDirectory \/ LsRead \/ CatOpen \/ CatRead \/ CatWrite
             \/ GrepDir \/ FileClose
    BY <1>1, ElsewhereInv
  <1>2. CASE FileOpen \/ FileReadCall \/ FileGot
    BY <1>2, OpenedInv, CallInv, GotInv
  <1>3. CASE KeepLine \/ SearchLine
    BY <1>3, KeepLineInv, SearchLineInv
  <1>4. CASE KernelStep
    BY <1>4, ReadingInv
  <1>5. CASE HandlerStep
    BY <1>5, DisturbedInv
  <1>6. CASE UNCHANGED vars
    BY <1>6, SearchKept DEF vars, fsVars, readVars, progVars
  <1> QED BY <1>1, <1>2, <1>3, <1>4, <1>5, <1>6 DEF Next, ProgramStep, Lost

\* grep prints the lines of a text that contain its argument, in order and once:
\* lines cut by the buffer's end, lines that just fill it, and handlers during any
\* of the reads included, unless a count was theirs.
THEOREM GrepCorrect == Spec => []GrepExact
  <1>1. ProgInv /\ GrepInv /\ [Next]_vars => (ProgInv /\ GrepInv)'
    BY ProgStepInv, GrepStepInv
  <1>2. GrepInv => GrepExact
    BY DEF GrepInv
  <1> QED BY <1>1, <1>2, ProgInitInv, GrepInitInv, PTL DEF Spec
=============================================================================
