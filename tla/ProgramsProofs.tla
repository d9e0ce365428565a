--------------------------- MODULE ProgramsProofs ---------------------------
(***************************************************************************)
(* The properties of the shell, execute, cat, ls and grep for every image, *)
(* buffer size and command line, and any number of handlers that disturb   *)
(* its reads.  The file system's part of the invariant is                  *)
(* FileSystemProofs', which every step of a program and of its reads       *)
(* preserves; what a program has printed is then a matter of its own loop. *)
(***************************************************************************)
EXTENDS Programs, FileSystemProofs

-----------------------------------------------------------------------------
(* The constants, and what an action does not touch *)

LEMMA Constants ==
    /\ BufSize \in Nat /\ CatSize \in Nat \ {0} /\ GrepSize \in Nat \ {0}
    /\ NameSize \in Nat \ {0} /\ 2 \in Fds /\ 3 \in Fds
    /\ Blank \in Char /\ NUL \notin Char /\ Blank # NUL
    /\ Ls # Cat /\ Ls # Grep /\ Cat # Grep
  BY ProgramsAssumption, FileSystemAssumption

\* No entry in use has an empty name.
LEMMA EntryName ==
    ASSUME image \in Images, entry_counter \in Nat, ~DirectoryEnd,
           image.dentries_num \in 0..SIZE_FS_DENTRIES
    PROVE  NextName \in Seq(Char) /\ NextName # <<>>
  <1>1. entry_counter \in DentryIndex /\ entry_counter < image.dentries_num
    BY Sizes DEF DirectoryEnd, DentryIndex
  <1>2. NextName \in Seq(Char)
    BY <1>1, DentryFacts DEF NextName
  <1>3. NextName # <<>>
    BY <1>1, ProgramsAssumption DEF NextName
  <1> QED BY <1>2, <1>3

\* So a read of the directory returns 0 at its end only, and then starts it
\* again.
LEMMA DirectoryReadFacts ==
    ASSUME FSInv, NEW f \in Fds, DirectoryRead(f)
    PROVE  /\ ret' \in Nat /\ (ret' = 0 <=> DirectoryEnd)
           /\ ret' = 0 => entry_counter' = 0
           /\ ret' # 0 => buf' = NextName /\ entry_counter' = entry_counter + 1
           /\ UNCHANGED <<image, pc, got, broken>> /\ pc = "user"
           /\ \A g \in Fds : file_array'[g].filetype = file_array[g].filetype
  <1>0. TableTypeOK
    BY TypeParts DEF FSInv
  <1>1. /\ buf' = IF DirectoryEnd THEN <<>> ELSE NextName
        /\ ret' = Len(buf') /\ entry_counter' = NextEntry /\ Advance(f, ret')
        /\ UNCHANGED <<image, pc, got, broken>> /\ pc = "user"
    BY DEF DirectoryRead
  <1>2. image.dentries_num \in 0..SIZE_FS_DENTRIES /\ image \in Images /\ entry_counter \in Nat
    BY <1>0, Sizes, FileSystemAssumption DEF TableTypeOK, ImageOK
  <1>3. ~DirectoryEnd => NextName \in Seq(Char) /\ NextName # <<>>
    BY <1>2, EntryName
  <1>4. ret' \in Nat /\ (ret' = 0 <=> DirectoryEnd)
    BY <1>1, <1>3
  <1>5. \A g \in Fds : file_array'[g].filetype = file_array[g].filetype
    BY <1>0, <1>1, <1>4, AdvanceFacts
  <1> QED BY <1>1, <1>4, <1>5 DEF NextEntry

\* A handler that comes in makes the descriptor a broken one; a count of 0 still
\* leaves the directory at its start.
LEMMA DisturbedFacts ==
    ASSUME FSInv, NEW f \in Fds, DirectoryDisturbed(f)
    PROVE  /\ ret' \in Nat /\ (ret' = 0 => entry_counter' = 0)
           /\ UNCHANGED <<image, pc, got>> /\ pc = "user" /\ broken' = broken \cup {f}
           /\ \A g \in Fds : file_array'[g].filetype = file_array[g].filetype
  <1>0. TableTypeOK
    BY TypeParts DEF FSInv
  <1>1. /\ (buf' = <<>> /\ entry_counter' = 0) \/ (~DirectoryEnd /\ buf' = NextName)
        /\ ret' = Len(buf') \/ ret' \in Eoi
        /\ Advance(f, ret')
        /\ UNCHANGED <<image, pc, got>> /\ pc = "user" /\ broken' = broken \cup {f}
    BY DEF DirectoryDisturbed
  <1>2. /\ image.dentries_num \in 0..SIZE_FS_DENTRIES /\ image \in Images /\ entry_counter \in Nat
    BY <1>0, Sizes, FileSystemAssumption DEF TableTypeOK, ImageOK
  <1>3. ~DirectoryEnd => NextName \in Seq(Char) /\ NextName # <<>>
    BY <1>2, EntryName
  <1>4. Len(buf') \in Nat /\ (Len(buf') = 0 => entry_counter' = 0)
    BY <1>1, <1>3
  <1>5. \A e \in Eoi : e \in Nat /\ e # 0
    BY FileSystemAssumption DEF Eoi
  <1>6. ret' \in Nat /\ (ret' = 0 => entry_counter' = 0)
    BY <1>1, <1>4, <1>5
  <1>7. \A g \in Fds : file_array'[g].filetype = file_array[g].filetype
    BY <1>0, <1>1, <1>6, AdvanceFacts
  <1> QED BY <1>1, <1>6, <1>7

LEMMA ReadDirectoryFacts ==
    ASSUME FSInv, ReadDirectory
    PROVE  /\ FSInv' /\ ret' \in Nat /\ (ret' = 0 => entry_counter' = 0)
           /\ UNCHANGED <<image, pc, got>> /\ pc = "user"
           /\ \A g \in Fds : file_array'[g].filetype = file_array[g].filetype
           /\ DirectoryRead(2) \/ 2 \in broken'
  <1>1. CASE DirectoryRead(2)
    BY <1>1, DirectoryReadFacts, OtherReadInv, Constants
  <1>2. CASE DirectoryDisturbed(2)
    BY <1>2, DisturbedFacts, OtherReadInv, Constants DEF ReadDisturbed
  <1> QED BY <1>1, <1>2 DEF ReadDirectory

\* A read of the clock returns 0 or an EOI byte.
LEMMA RtcReturnsFacts ==
    ASSUME FSInv, NEW f \in Fds, RtcRead(f) \/ RtcDisturbed(f)
    PROVE  /\ ret' \in Nat /\ pc = "user" /\ pc' = "user" /\ file_array[f].filetype = Rtc
           /\ UNCHANGED <<image, entry_counter, got>>
           /\ \A g \in Fds : file_array'[g].filetype = file_array[g].filetype
  <1>0. TableTypeOK
    BY TypeParts DEF FSInv
  <1>1. /\ ret' \in {0} \cup Eoi /\ pc = "user" /\ pc' = "user" /\ file_array[f].filetype = Rtc
        /\ UNCHANGED <<image, entry_counter, got>> /\ Advance(f, ret')
    BY DEF RtcRead, RtcDisturbed, RtcReturns
  <1>2. ret' \in Nat
    BY <1>1, Sizes
  <1>3. \A g \in Fds : file_array'[g].filetype = file_array[g].filetype
    BY <1>0, <1>1, <1>2, AdvanceFacts
  <1> QED BY <1>1, <1>2, <1>3

\* A step of read_data works for one descriptor, and touches the tables when it
\* returns only.
LEMMA ReadStepFrame ==
    ASSUME FSInv, ret \in Nat \cup {-1}, ReadStep
    PROVE  /\ pc # "user" /\ ret' \in Nat \cup {-1}
           /\ UNCHANGED <<image, entry_counter, fd>>
           /\ pc' # "user" => UNCHANGED <<file_array, length, got, broken>>
           /\ pc' = "user" => Finish
  <1>0. length_of_file \in Nat
    BY DEF FSInv, FSTypeOK
  <1>1. CASE EnterPastEnd \/ EnterBadBlock \/ Enter
    BY <1>1 DEF EnterPastEnd, EnterBadBlock, Enter, ReturnNow, Step
  <1>2. CASE LoopEnds \/ SameBlock \/ NextBlock \/ NextBlockBad
    BY <1>2 DEF LoopEnds, SameBlock, NextBlock, NextBlockBad, ReturnNow, Step
  <1>3. CASE EndOfFile \/ CopyByte \/ LoadResult
    BY <1>0, <1>3 DEF EndOfFile, CopyByte, LoadResult, Step
  <1>4. CASE Finish
    BY <1>4 DEF Finish
  <1> QED BY <1>1, <1>2, <1>3, <1>4 DEF ReadStep

\* Parts of the invariant that say nothing of where the program has come to.
LEMMA PlainLine ==
    ASSUME CommandLine, UNCHANGED <<shellbuf, typed, longest>>, at' \notin {"execute", "main"}
    PROVE  CommandLine' /\ CommandParsed'
  BY DEF CommandLine, CommandParsed
LEMMA NotDone ==
    ASSUME at' # "done" PROVE ListingComplete' /\ CatExact'
  BY DEF ListingComplete, CatExact
LEMMA NoCat ==
    ASSUME at' \notin {"cat_read", "cat_write"} PROVE Copying'
  BY DEF Copying
LEMMA NoLs ==
    ASSUME at' # "ls_read", complete' => entry_counter' = 0 PROVE Listing'
  BY DEF Listing
LEMMA NoBuffer ==
    ASSUME at' \notin {"file_read", "file_got", "line"} PROVE GrepBuffer'
  BY DEF GrepBuffer

\* Before the first command.
LEMMA ProgInitInv == Init => ProgInv
  <1> SUFFICES ASSUME Init PROVE ProgInv
    OBVIOUS
  <1>1. FSInv
    BY InitInv DEF Init
  <1>2. PICK c \in StackByte : /\ shellbuf = [j \in 0..(BufSize - 1) |-> c]
                               /\ longest = IF c = NUL THEN 0 ELSE BufSize
    BY DEF Init
  <1>3. ProgTypeOK /\ CommandLine
    BY <1>2, Constants DEF Init, FSInit, ProgTypeOK, CommandLine, Places
  <1>4. ProgramState /\ Listing
    BY DEF Init, FSInit, FilesystemInit, ProgramState, Listing
  <1>5. CommandParsed /\ ListingComplete /\ Copying /\ CatExact /\ GrepBuffer
    BY DEF Init, CommandParsed, ListingComplete, Copying, CatExact, GrepBuffer
  <1> QED BY <1>1, <1>3, <1>4, <1>5 DEF ProgInv

-----------------------------------------------------------------------------
(* execute's parsing *)

\* What the bytes of the shell's buffer are, line and terminator.
LEMMA LineBytes ==
    ASSUME ProgTypeOK, CommandLine, at = "execute"
    PROVE  /\ Len(typed) \in Nat /\ Len(typed) < BufSize
           /\ \A j \in 0..(Len(typed) - 1) : /\ Command(j) = typed[j + 1]
                                             /\ Command(j) # NUL
           /\ Command(Len(typed)) = NUL
           /\ longest <= Len(typed) => \A j \in Nat : j >= Len(typed) => Command(j) = NUL
  <1>1. /\ typed \in Seq(Char) /\ Len(typed) \in Nat /\ Len(typed) < BufSize
        /\ BufSize \in Nat /\ longest \in Nat
    BY Constants DEF ProgTypeOK, CommandLine
  <1>2. ASSUME NEW j \in 0..(Len(typed) - 1)
        PROVE  Command(j) = typed[j + 1] /\ Command(j) # NUL
    <2>1. j < BufSize /\ shellbuf[j] = typed[j + 1]
      BY <1>1 DEF CommandLine
    <2>2. typed[j + 1] \in Char
      BY <1>1
    <2> QED BY <2>1, <2>2, Constants DEF Command
  <1>3. Command(Len(typed)) = NUL
    BY <1>1 DEF CommandLine, Command
  <1>4. ASSUME longest <= Len(typed), NEW j \in Nat, j >= Len(typed) PROVE Command(j) = NUL
    BY <1>1, <1>4 DEF CommandLine, Command
  <1> QED BY <1>1, <1>2, <1>3, <1>4

\* The first terminator from a place in the line on is the line's.
LEMMA LineTerminator ==
    ASSUME ProgTypeOK, CommandLine, at = "execute", NEW from \in 0..Len(typed)
    PROVE  FirstNul(from) = Len(typed)
  <1> DEFINE S == {j \in from..(from + BufSize) : Command(j) = NUL}
  <1>1. Len(typed) \in Nat /\ Len(typed) < BufSize /\ from \in Nat /\ BufSize \in Nat
    BY LineBytes, Constants
  <1>2. Len(typed) \in S /\ S \in SUBSET Nat
    BY <1>1, LineBytes
  <1>3. FirstOf(S) \in S /\ FirstOf(S) <= Len(typed)
    BY <1>2, FirstExists
  <1>4. FirstOf(S) \in Nat /\ Command(FirstOf(S)) = NUL
    BY <1>2, <1>3
  <1>5. ~ (FirstOf(S) < Len(typed))
    BY <1>1, <1>4, LineBytes
  <1>6. FirstOf(S) = Len(typed)
    BY <1>1, <1>3, <1>4, <1>5
  <1> QED BY <1>6 DEF FirstNul

\* The copy of the name ends at a blank or is NameSize long.
LEMMA NameEndFacts ==
    /\ NameEnd \in 0..NameSize
    /\ NameEnd = NameSize \/ Command(NameEnd) = Blank
    /\ \A j \in 0..NameSize : Command(j) = Blank => NameEnd <= j
  <1> DEFINE S == {j \in 0..NameSize : j = NameSize \/ Command(j) = Blank}
  <1>1. S \in SUBSET Nat /\ NameSize \in S
    BY Constants
  <1>2. FirstOf(S) \in S /\ \A e \in S : FirstOf(S) <= e
    BY <1>1, FirstExists
  <1>3. NameEnd = FirstOf(S)
    BY DEF NameEnd
  <1> HIDE DEF S
  <1>4. NameEnd \in S /\ \A e \in S : NameEnd <= e
    BY <1>2, <1>3
  <1> QED BY <1>4 DEF S

\* A command whose name fits is cut at its first blank, and a command without a
\* blank has arguments only if an earlier line left some behind it.
LEMMA ParsedCorrectly ==
    ASSUME ProgTypeOK, CommandLine, at = "execute", Len(CommandName) < NameSize
    PROVE  IF BlankIn(typed) # {}
           THEN LET b == FirstOf(BlankIn(typed))
                IN  /\ CommandName = SubSeq(typed, 1, b - 1)
                    /\ CommandArgs = SubSeq(typed, b + 1, Len(typed))
           ELSE CommandName = typed /\ (longest <= Len(typed) => CommandArgs = <<>>)
  <1> DEFINE n == Len(typed)
             m == IF n < NameEnd THEN n ELSE NameEnd
  <1>1. /\ n \in Nat /\ BufSize \in Nat /\ NameSize \in Nat \ {0} /\ NameEnd \in Nat
        /\ NameEnd <= NameSize /\ typed \in Seq(Char) /\ m \in Nat
    BY LineBytes, NameEndFacts, Constants DEF ProgTypeOK
  <1>2. FirstNul(0) = n
    BY <1>1, LineTerminator
  <1>3. CommandName = [k \in 1..m |-> Command(k - 1)] /\ m < NameSize
    <2>1. CommandName = CommandBytes(0, m)
      BY <1>2 DEF CommandName
    <2>2. CommandName = [k \in 1..m |-> Command(k - 1)]
      BY <1>1, <2>1 DEF CommandBytes
    <2>3. Len(CommandName) = m
      BY <1>1, <2>2
    <2> QED BY <2>2, <2>3
  <1>4. CASE BlankIn(typed) # {}
    <2> DEFINE b == FirstOf(BlankIn(typed))
    <2>1. b \in 1..n /\ typed[b] = Blank /\ \A e \in BlankIn(typed) : b <= e
      <3>1. BlankIn(typed) \in SUBSET Nat
        BY <1>1 DEF BlankIn
      <3>2. b \in BlankIn(typed) /\ \A e \in BlankIn(typed) : b <= e
        BY <1>4, <3>1, FirstExists
      <3> QED BY <3>2 DEF BlankIn
    <2> HIDE DEF b
    <2>2. Command(b - 1) = Blank /\ b - 1 \in 0..(n - 1) /\ b \in Nat
      BY <1>1, <2>1, LineBytes
    <2>3. NameEnd <= b - 1
      <3>1. CASE b - 1 <= NameSize
        BY <1>1, <2>2, <3>1, NameEndFacts
      <3>2. CASE b - 1 > NameSize
        BY <1>1, <2>2, <3>2
      <3> QED BY <1>1, <2>2, <3>1, <3>2
    <2>4. m = NameEnd /\ Command(NameEnd) = Blank
      BY <1>1, <1>3, <2>2, <2>3, NameEndFacts
    <2>5. NameEnd + 1 \in BlankIn(typed)
      BY <1>1, <2>2, <2>3, <2>4, LineBytes DEF BlankIn
    <2>6. NameEnd = b - 1
      BY <1>1, <2>1, <2>2, <2>3, <2>5
    <2>7. CommandName = SubSeq(typed, 1, b - 1)
      <3>1. \A k \in 1..(b - 1) : Command(k - 1) = typed[k]
        BY <1>1, <2>2, LineBytes
      <3> QED BY <1>1, <1>3, <2>2, <2>4, <2>6, <3>1
    <2>8. CommandArgs = SubSeq(typed, b + 1, n)
      <3>1. FirstNul(NameEnd + 1) = n /\ NameEnd + 1 = b
        BY <1>1, <2>2, <2>6, LineTerminator
      <3>2. \A k \in 1..(n - b) : Command(b + k - 1) = typed[b + k]
        <4> TAKE k \in 1..(n - b)
        <4>1. b + k - 1 \in 0..(n - 1) /\ (b + k - 1) + 1 = b + k
          BY <1>1, <2>2
        <4> QED BY <4>1, LineBytes
      <3>3. CommandArgs = [k \in 1..(n - b) |-> typed[b + k]]
        BY <3>1, <3>2 DEF CommandArgs, CommandBytes
      <3> QED BY <1>1, <2>2, <3>3
    <2> QED BY <1>4, <2>7, <2>8 DEF b
  <1>5. CASE BlankIn(typed) = {}
    <2>1. \A j \in 0..(n - 1) : Command(j) # Blank
      BY <1>1, <1>5, LineBytes DEF BlankIn
    <2>2. m = n
      BY <1>1, <1>3, <2>1, NameEndFacts
    <2>3. CommandName = typed
      <3>1. \A k \in 1..n : Command(k - 1) = typed[k]
        BY <1>1, LineBytes
      <3> QED BY <1>1, <1>3, <2>2, <3>1
    <2>4. ASSUME longest <= n PROVE CommandArgs = <<>>
      <3> DEFINE from == NameEnd + 1
                 S == {j \in from..(from + BufSize) : Command(j) = NUL}
      <3>1. from \in Nat /\ from >= n
        BY <1>1, <2>2
      <3>2. from \in S /\ S \in SUBSET Nat /\ \A e \in S : from <= e
        BY <1>1, <2>4, <3>1, LineBytes
      <3>3. FirstOf(S) = from
        <4> HIDE DEF from, S
        <4>1. FirstOf(S) \in S /\ \A e \in S : FirstOf(S) <= e
          BY <3>2, FirstExists
        <4>2. FirstOf(S) \in Nat /\ FirstOf(S) <= from /\ from <= FirstOf(S)
          BY <3>2, <4>1
        <4> QED BY <3>1, <4>2
      <3>4. FirstNul(from) = from
        BY <3>3 DEF FirstNul
      <3> QED BY <3>1, <3>4 DEF CommandArgs, CommandBytes
    <2> QED BY <1>5, <2>3, <2>4
  <1> QED BY <1>4, <1>5

-----------------------------------------------------------------------------
(* The shell *)

LEMMA TypeInv == ASSUME ProgInv, NEW line \in Lines, Type(line) PROVE ProgInv'
  <1>1. /\ at = "shell" /\ at' = IF line \in {<<>>, Exit} THEN "shell" ELSE "execute"
        /\ typed' = IF line \in {<<>>, Exit} THEN <<>> ELSE line
        /\ longest' = IF Len(line) > longest THEN Len(line) ELSE longest
        /\ shellbuf' = [j \in DOMAIN shellbuf |->
                           IF j < Len(line) THEN line[j + 1]
                           ELSE IF j = Len(line) THEN NUL ELSE shellbuf[j]]
        /\ UNCHANGED <<fsVars, prog, out, last, line_start, complete>>
        /\ UNCHANGED <<file_array, pc, fd, ret, entry_counter>>
    BY DEF Type, GrepLocals, fsVars, readVars
  <1>2. ProgTypeOK /\ ProgramState /\ CommandLine /\ Listing /\ FSInv
    BY DEF ProgInv
  <1>3. line \in Seq(Char) /\ Len(line) \in Nat /\ Len(line) < BufSize - 1 /\ BufSize \in Nat
    BY ProgramsAssumption
  <1>4. /\ DOMAIN shellbuf = 0..(BufSize - 1) /\ longest \in Nat /\ longest' \in Nat
        /\ shellbuf \in [0..(BufSize - 1) -> Char \cup {NUL} \cup StackByte]
    BY <1>1, <1>2, <1>3 DEF ProgTypeOK
  <1>5. ProgTypeOK'
    <2>1. shellbuf' \in [0..(BufSize - 1) -> Char \cup {NUL} \cup StackByte]
      <3>1. ASSUME NEW j \in 0..(BufSize - 1) PROVE shellbuf'[j] \in Char \cup {NUL} \cup StackByte
        <4>1. j < Len(line) => line[j + 1] \in Char
          BY <1>3
        <4> QED BY <1>1, <1>4, <4>1
      <3> QED BY <1>1, <1>4, <3>1
    <2>2. typed' \in Seq(Char)
      BY <1>1, <1>3
    <2> QED BY <1>1, <1>2, <1>4, <2>1, <2>2 DEF ProgTypeOK, Places
  <1>6. ProgramState'
    BY <1>1, <1>2 DEF ProgramState
  <1>7. CommandLine'
    <2>1. \A j \in 0..(BufSize - 1) : j >= longest' => shellbuf'[j] = NUL
      BY <1>1, <1>2, <1>3, <1>4 DEF CommandLine
    <2>2. at' = "execute" => /\ Len(line) < BufSize /\ typed' = line
                             /\ \A j \in 0..(Len(line) - 1) : shellbuf'[j] = line[j + 1]
                             /\ shellbuf'[Len(line)] = NUL
      BY <1>1, <1>3, <1>4
    <2> QED BY <2>1, <2>2 DEF CommandLine
  <1>8. CommandParsed'
    BY <1>1 DEF CommandParsed
  <1>9. Listing'
    BY <1>1, <1>2, NoLs DEF Listing
  <1> QED BY <1>1, <1>2, <1>5, <1>6, <1>7, <1>8, <1>9, StutterInv, NotDone, NoCat, NoBuffer
          DEF ProgInv

LEMMA ExecuteInv == ASSUME ProgInv, Execute PROVE ProgInv'
  <1>0. ProgTypeOK /\ ProgramState /\ CommandLine /\ Listing /\ FSInv
    BY DEF ProgInv
  <1>1. /\ at = "execute" /\ at' \in {"main", "shell"}
        /\ UNCHANGED <<shellbuf, longest, status, out, last, line_start, complete>>
        /\ at' = "main" => /\ CommandName \in {Ls, Cat, Grep} /\ typed' = typed
                            /\ prog' = CommandName /\ arg' = CommandArgs
        /\ at' = "shell" => typed' = <<>>
        /\ FileLoad(CommandName) \/ CheckExecutable(CommandName) \/ UNCHANGED fsVars
    BY DEF Execute, GrepLocals
  <1>2. FSInv'
    BY <1>0, <1>1, KernelReadsInv, StutterInv
  <1>3. UNCHANGED <<image, entry_counter, file_array, pc, fd, ret>>
    BY <1>1 DEF FileLoad, CheckExecutable, KernelRead, fsVars, readVars
  <1>4. ProgTypeOK'
    <2>1. typed' \in Seq(Char)
      <3>1. typed \in Seq(Char) /\ <<>> \in Seq(Char)
        BY <1>0 DEF ProgTypeOK
      <3>2. typed' = typed \/ typed' = <<>>
        BY <1>1
      <3> QED BY <3>1, <3>2
    <2>2. at' \in Places
      BY <1>1 DEF Places
    <2> QED BY <1>0, <1>1, <1>3, <2>1, <2>2 DEF ProgTypeOK
  <1>5. ProgramState'
    BY <1>0, <1>1, <1>3 DEF ProgramState
  <1>6. CommandLine'
    BY <1>0, <1>1 DEF CommandLine
  <1>7. CommandParsed'
    <2> SUFFICES ASSUME at' = "main"
                 PROVE  CommandParsed'
      BY DEF CommandParsed
    <2>1. Len(CommandName) < NameSize
      BY <1>1, ProgramsAssumption
    <2>2. IF BlankIn(typed) # {}
          THEN LET b == FirstOf(BlankIn(typed))
               IN  /\ prog' = SubSeq(typed, 1, b - 1)
                   /\ arg' = SubSeq(typed, b + 1, Len(typed))
          ELSE prog' = typed /\ (longest <= Len(typed) => arg' = <<>>)
      BY <1>0, <1>1, <2>1, ParsedCorrectly
    <2>3. typed' = typed /\ longest' = longest
      BY <1>1
    <2> QED BY <2>2, <2>3 DEF CommandParsed
  <1>8. Listing'
    BY <1>0, <1>1, <1>3, NoLs DEF Listing
  <1> QED BY <1>1, <1>2, <1>4, <1>5, <1>6, <1>7, <1>8, NotDone, NoCat, NoBuffer DEF ProgInv

LEMMA HaltInv == ASSUME ProgInv, Halt PROVE ProgInv'
  <1>0. ProgTypeOK /\ ProgramState /\ CommandLine /\ Listing /\ FSInv
    BY DEF ProgInv
  <1>1. /\ at' = "shell" /\ CloseAll /\ out' = <<>> /\ typed' = <<>> /\ last' = 0 /\ line_start' = 0
        /\ file_array' = [f \in Fds |-> Closed] /\ ret' = 0 /\ pc' = "user"
        /\ UNCHANGED <<shellbuf, longest, complete, entry_counter>>
    BY DEF Halt, CloseAll
  <1>2. FSInv'
    BY <1>0, <1>1, CloseInv
  <1>3. ProgTypeOK' /\ ProgramState' /\ CommandLine' /\ CommandParsed'
    BY <1>0, <1>1 DEF ProgTypeOK, Places, ProgramState, CommandLine, CommandParsed
  <1>4. Listing'
    BY <1>0, <1>1, NoLs DEF Listing
  <1> QED BY <1>1, <1>2, <1>3, <1>4, NotDone, NoCat, NoBuffer DEF ProgInv

-----------------------------------------------------------------------------
(* ls, and the opening of files *)

LEMMA OpenDirectoryInv == ASSUME ProgInv, OpenDirectory PROVE ProgInv'
  <1>0. ProgTypeOK /\ ProgramState /\ CommandLine /\ Listing /\ FSInv
    BY DEF ProgInv
  <1>1. /\ at = "main" /\ Open(2, <<Dot>>) /\ whole' = complete
        /\ (prog = Ls /\ at' = "ls_read") \/ (prog = Grep /\ at' = "grep_dir")
        /\ UNCHANGED <<shellbuf, prog, typed, longest, out, last, line_start, complete>>
        /\ UNCHANGED <<image, entry_counter, pc, fd, ret>> /\ pc = "user"
    BY Constants DEF OpenDirectory, Session, Shell, GrepLocals, Open, readVars
  <1>2. FSInv'
    BY <1>0, <1>1, OpenInv, Constants
  <1>3. ProgTypeOK' /\ ProgramState'
    BY <1>0, <1>1 DEF ProgTypeOK, Places, ProgramState
  <1>4. Listing'
    <2>1. complete => entry_counter = 0
      BY <1>0 DEF Listing
    <2>2. out = <<>>
      BY <1>0, <1>1 DEF ProgramState
    <2>3. image.dentries_num \in Nat
      BY <1>0, Sizes, FileSystemAssumption DEF FSInv, FSTypeOK, ImageOK
    <2>4. entry_counter = 0 => out = [k \in 1..entry_counter |-> image.dentries[k - 1].filename]
      BY <2>2
    <2> QED BY <1>1, <2>1, <2>3, <2>4 DEF Listing
  <1> QED BY <1>0, <1>1, <1>2, <1>3, <1>4, PlainLine, NotDone, NoCat, NoBuffer DEF ProgInv

LEMMA LsReadInv == ASSUME ProgInv, LsRead PROVE ProgInv'
  <1>0. ProgTypeOK /\ ProgramState /\ CommandLine /\ Listing /\ FSInv
    BY DEF ProgInv
  <1>1. /\ at = "ls_read" /\ ReadDirectory /\ complete' = (ret' = 0)
        /\ \/ ret' = 0 /\ at' = "done" /\ out' = out
           \/ ret' # 0 /\ at' = "lost"
           \/ ret' # 0 /\ at' = at /\ out' = Append(out, buf')
        /\ UNCHANGED <<shellbuf, prog, typed, longest, last, line_start, whole>>
    BY DEF LsRead, SeesEnd, Return, Shell, GrepLocals
  <1>2. /\ FSInv' /\ ret' \in Nat /\ (ret' = 0 => entry_counter' = 0)
        /\ UNCHANGED <<image, pc>> /\ pc = "user"
        /\ DirectoryRead(2) \/ 2 \in broken'
    BY <1>0, <1>1, ReadDirectoryFacts
  <1>3. prog = Ls
    BY <1>0, <1>1 DEF ProgramState
  <1>4. ProgTypeOK' /\ ProgramState'
    BY <1>0, <1>1, <1>2, <1>3 DEF ProgTypeOK, Places, ProgramState
  <1>5. image.dentries_num \in Nat /\ entry_counter \in Nat
    BY <1>0, Sizes, FileSystemAssumption DEF FSInv, FSTypeOK, ImageOK
  <1>6. ASSUME 2 \notin broken', whole
        PROVE  /\ ret' = 0 => out = [k \in 1..image.dentries_num |-> image.dentries[k - 1].filename]
               /\ (ret' # 0 /\ at' = at) =>
                     /\ entry_counter' <= image.dentries_num
                     /\ out' = [k \in 1..entry_counter' |-> image.dentries[k - 1].filename]
    <2>1. DirectoryRead(2)
      BY <1>2, <1>6
    <2>2. /\ 2 \notin broken /\ (ret' = 0 <=> DirectoryEnd)
          /\ ret' # 0 => buf' = NextName /\ entry_counter' = entry_counter + 1
      BY <1>0, <1>6, <2>1, DirectoryReadFacts, Constants
    <2>3. /\ entry_counter <= image.dentries_num
          /\ out = [k \in 1..entry_counter |-> image.dentries[k - 1].filename]
      BY <1>0, <1>1, <1>6, <2>2 DEF Listing
    <2>4. CASE ret' = 0
      BY <1>5, <2>2, <2>3, <2>4 DEF DirectoryEnd
    <2>5. CASE ret' # 0 /\ at' = at
      <3>1. entry_counter' <= image.dentries_num
        BY <1>5, <2>2, <2>5 DEF DirectoryEnd
      <3>2. out' = Append(out, image.dentries[entry_counter].filename)
        BY <1>1, <2>2, <2>5 DEF NextName
      <3> QED BY <1>5, <2>2, <2>3, <2>5, <3>1, <3>2
    <2> QED BY <2>4, <2>5
  <1>7. Listing'
    BY <1>1, <1>2, <1>6 DEF Listing
  <1>8. ListingComplete' /\ CatExact'
    BY <1>1, <1>2, <1>3, <1>6, Constants DEF ListingComplete, CatExact
  <1> QED BY <1>0, <1>1, <1>2, <1>4, <1>7, <1>8, PlainLine, NoCat, NoBuffer DEF ProgInv

-----------------------------------------------------------------------------
(* cat *)

LEMMA CatOpenInv == ASSUME ProgInv, CatOpen PROVE ProgInv'
  <1>0. ProgTypeOK /\ ProgramState /\ CommandLine /\ Listing /\ FSInv
    BY DEF ProgInv
  <1>1. /\ at = "main" /\ prog = Cat /\ whole' = complete
        /\ \/ Open(2, arg) /\ at' = "cat_read"
           \/ UNCHANGED fsVars /\ at' = "done"
        /\ UNCHANGED <<shellbuf, prog, typed, longest, out, last, line_start, complete>>
    BY DEF CatOpen, Session, Shell, GrepLocals, Return
  <1>2. FSInv'
    BY <1>0, <1>1, OpenInv, StutterInv, Constants
  <1>3. UNCHANGED <<image, entry_counter, pc, fd, ret>> /\ pc = "user"
    BY <1>0, <1>1 DEF Open, fsVars, readVars, ProgramState
  <1>4. ProgTypeOK' /\ ProgramState'
    BY <1>0, <1>1, <1>3 DEF ProgTypeOK, Places, ProgramState
  <1>5. Listing'
    BY <1>0, <1>1, <1>3, NoLs DEF Listing
  <1>6. CASE Open(2, arg) /\ at' = "cat_read"
    <2>1. got'[2] = <<>> /\ out = <<>>
      BY <1>0, <1>1, <1>6, Constants DEF ProgramState, Open, FSInv, FSTypeOK
    <2>2. Copying'
      BY <1>1, <1>6, <2>1 DEF Copying
    <2> QED BY <1>0, <1>1, <1>2, <1>4, <1>5, <1>6, <2>2, PlainLine, NotDone, NoBuffer DEF ProgInv
  <1>7. CASE UNCHANGED fsVars /\ at' = "done"
    <2>1. file_array'[2].filetype # Regular
      BY <1>0, <1>1, <1>7, Constants DEF ProgramState, Closed, Regular, fsVars
    <2>2. ListingComplete' /\ CatExact'
      BY <1>1, <2>1, Constants DEF ListingComplete, CatExact
    <2> QED BY <1>0, <1>1, <1>2, <1>4, <1>5, <1>7, <2>2, PlainLine, NoCat, NoBuffer DEF ProgInv
  <1> QED BY <1>1, <1>6, <1>7

LEMMA CatReadInv == ASSUME ProgInv, CatRead PROVE ProgInv'
  <1>0. ProgTypeOK /\ ProgramState /\ CommandLine /\ Listing /\ Copying /\ FSInv
    BY DEF ProgInv
  <1>1. /\ at = "cat_read" /\ at' = "cat_write" /\ prog = Cat
        /\ \/ DirectoryRead(2) \/ DirectoryDisturbed(2)
           \/ RtcRead(2) \/ RtcDisturbed(2)
           \/ FileRead(2, CatSize)
        /\ IF file_array[2].filetype = Directory THEN complete' = (ret' = 0) ELSE complete' = complete
        /\ UNCHANGED <<shellbuf, prog, typed, longest, out, last, line_start>>
    BY <1>0 DEF CatRead, ReadCall, ReadDisturbed, SeesEnd, Shell, GrepLocals, ProgramState
  <1>2. FSInv'
    BY <1>0, <1>1, OtherReadInv, StartInv, Constants DEF ReadDisturbed
  <1>3. CASE DirectoryRead(2) \/ DirectoryDisturbed(2)
    <2>1. /\ ret' \in Nat /\ (ret' = 0 => entry_counter' = 0) /\ pc' = "user"
          /\ file_array[2].filetype = Directory /\ file_array'[2].filetype = Directory
      BY <1>0, <1>3, DirectoryReadFacts, DisturbedFacts, Constants
         DEF DirectoryRead, DirectoryDisturbed
    <2>2. ProgTypeOK' /\ ProgramState'
      BY <1>0, <1>1, <2>1 DEF ProgTypeOK, Places, ProgramState
    <2>3. complete' => entry_counter' = 0
      BY <1>1, <2>1
    <2>4. Listing'
      BY <1>1, <2>3, NoLs
    <2>5. Copying'
      BY <2>1 DEF Copying, Directory, Regular
    <2> QED BY <1>0, <1>1, <1>2, <2>2, <2>4, <2>5, PlainLine, NotDone, NoBuffer DEF ProgInv
  <1>4. CASE RtcRead(2) \/ RtcDisturbed(2) \/ FileRead(2, CatSize)
    <2>1. /\ ret' \in Nat /\ entry_counter' = entry_counter /\ complete' = complete
          /\ \/ file_array[2].filetype = Rtc /\ pc' = "user" /\ file_array'[2].filetype = Rtc
             \/ /\ file_array[2].filetype = Regular /\ pc' = "enter" /\ fd' = 2
                /\ length' = CatSize /\ UNCHANGED <<file_array, got, broken>>
      BY <1>0, <1>1, <1>4, RtcReturnsFacts, Constants
         DEF FileRead, StartRead, Rtc, Directory, Regular
    <2>2. ProgTypeOK' /\ ProgramState'
      BY <1>0, <1>1, <2>1 DEF ProgTypeOK, Places, ProgramState
    <2>3. Listing'
      BY <1>0, <1>1, <2>1, NoLs DEF Listing
    <2>4. Copying'
      BY <1>0, <1>1, <2>1 DEF Copying, Rtc, Regular
    <2> QED BY <1>0, <1>1, <1>2, <2>2, <2>3, <2>4, PlainLine, NotDone, NoBuffer DEF ProgInv
  <1> QED BY <1>1, <1>3, <1>4

\* A read that returned 0 was at the end of the file, and what is before its
\* position is the whole of it.
LEMMA WholeFile ==
    ASSUME FSInv, NEW f \in Fds, file_array[f].filetype = Regular, f \notin broken,
           file_array[f].fileposition >= FileLength(file_array[f].inode)
    PROVE  got[f] = Content(file_array[f].inode)
  <1> DEFINE n == file_array[f].inode
  <1>1. /\ Len(got[f]) = file_array[f].fileposition /\ Len(got[f]) <= FileLength(n)
        /\ \A k \in 1..Len(got[f]) : got[f][k] = FileByte(n, k - 1)
    BY DEF FSInv, ReadsFormPrefix
  <1>2. got[f] \in Seq(Byte \cup Char)
    BY DEF FSInv, FSTypeOK
  <1>3. FileLength(n) \in Nat
    BY InodeFacts DEF FSInv, FSTypeOK, OpenFiles
  <1>4. Len(got[f]) = FileLength(n)
    BY <1>1, <1>2, <1>3
  <1> HIDE DEF n
  <1>5. got[f] = [k \in 1..FileLength(n) |-> FileByte(n, k - 1)]
    BY <1>1, <1>2, <1>4
  <1> QED BY <1>5 DEF Content, n

LEMMA CatWriteInv == ASSUME ProgInv, CatWrite PROVE ProgInv'
  <1>0. ProgTypeOK /\ ProgramState /\ CommandLine /\ Listing /\ Copying /\ FSInv
    BY DEF ProgInv
  <1>1. /\ at = "cat_write" /\ pc = "user" /\ prog = Cat
        /\ \/ ret = 0 /\ at' = "done" /\ status' = 0 /\ out' = out
           \/ ret = -1 /\ at' = "done" /\ status' = 3
           \/ ret # 0 /\ ret # -1 /\ at' = "cat_read" /\ out' = out \o FirstBytes(ret)
        /\ UNCHANGED fsVars
        /\ UNCHANGED <<shellbuf, prog, typed, longest, last, line_start, complete, whole>>
    BY <1>0 DEF CatWrite, Session, Shell, GrepLocals, Return, ProgramState
  <1>2. FSInv' /\ UNCHANGED <<image, entry_counter, file_array, pc, fd, buf, ret, got, broken>>
    BY <1>0, <1>1, StutterInv DEF fsVars, readVars
  <1>3. ProgTypeOK' /\ ProgramState'
    BY <1>0, <1>1, <1>2 DEF ProgTypeOK, Places, ProgramState
  <1>4. Listing'
    BY <1>0, <1>1, <1>2, NoLs DEF Listing
  <1>5. (file_array[2].filetype = Regular /\ 2 \notin broken) =>
            /\ ret = Len(buf) /\ got[2] = out \o buf
            /\ ret = 0 => file_array[2].fileposition >= FileLength(file_array[2].inode)
    BY <1>0, <1>1 DEF Copying
  <1>6. buf \in Bytes /\ got[2] \in Bytes
    BY <1>0, Constants DEF FSInv, FSTypeOK, Bytes
  <1>7. CASE at' = "cat_read"
    <2>1. (file_array[2].filetype = Regular /\ 2 \notin broken) => out' = got[2]
      <3> SUFFICES ASSUME file_array[2].filetype = Regular, 2 \notin broken
                   PROVE  out' = got[2]
        OBVIOUS
      <3>1. FirstBytes(ret) = buf
        BY <1>5, <1>6 DEF FirstBytes, Bytes
      <3> QED BY <1>1, <1>5, <1>7, <3>1
    <2>2. Copying'
      BY <1>2, <1>7, <2>1 DEF Copying
    <2> QED BY <1>0, <1>1, <1>2, <1>3, <1>4, <1>7, <2>2, PlainLine, NotDone, NoBuffer DEF ProgInv
  <1>8. CASE at' = "done"
    <2>1. (file_array[2].filetype = Regular /\ 2 \notin broken) =>
              status' = 0 /\ out' = Content(file_array[2].inode)
      <3> SUFFICES ASSUME file_array[2].filetype = Regular, 2 \notin broken
                   PROVE  status' = 0 /\ out' = Content(file_array[2].inode)
        OBVIOUS
      <3>1. ret = 0 /\ Len(buf) = 0 /\ status' = 0 /\ out' = out
        BY <1>1, <1>5, <1>6, <1>8 DEF Bytes
      <3>2. got[2] = Content(file_array[2].inode)
        BY <1>0, <1>5, <3>1, WholeFile, Constants
      <3>3. got[2] = out
        <4>1. buf = <<>>
          BY <1>6, <3>1 DEF Bytes
        <4> QED BY <1>5, <1>6, <4>1 DEF Bytes
      <3> QED BY <3>1, <3>2, <3>3
    <2>2. Content(file_array[2].inode)' = Content(file_array[2].inode)
      BY <1>2 DEF Content, FileLength, FileByte, BlockOf
    <2>3. ListingComplete' /\ CatExact'
      BY <1>1, <1>2, <2>1, <2>2, Constants DEF ListingComplete, CatExact
    <2> QED BY <1>0, <1>1, <1>2, <1>3, <1>4, <1>8, <2>3, PlainLine, NoCat, NoBuffer DEF ProgInv
  <1> QED BY <1>1, <1>7, <1>8

-----------------------------------------------------------------------------
(* grep *)

LEMMA GrepDirInv == ASSUME ProgInv, GrepDir PROVE ProgInv'
  <1>0. ProgTypeOK /\ ProgramState /\ CommandLine /\ FSInv
    BY DEF ProgInv
  <1>1. /\ at = "grep_dir" /\ at' \in {"done", "grep_dir", "file_open", "lost"} /\ prog = Grep
        /\ ReadDirectory /\ complete' = (ret' = 0)
        /\ UNCHANGED <<shellbuf, prog, typed, longest, out, last, line_start>>
    BY <1>0 DEF GrepDir, SeesEnd, Return, Shell, ProgramState
  <1>2. FSInv'
    BY <1>0, <1>1, ReadDirectoryFacts
  <1>3. ret' \in Nat /\ (ret' = 0 => entry_counter' = 0) /\ pc' = "user"
    BY <1>0, <1>1, ReadDirectoryFacts
  <1>4. complete' => entry_counter' = 0
    BY <1>1, <1>3
  <1>5. ProgTypeOK' /\ ProgramState'
    BY <1>0, <1>1, <1>3 DEF ProgTypeOK, Places, ProgramState
  <1>6. ListingComplete' /\ CatExact'
    BY <1>1, Constants DEF ListingComplete, CatExact
  <1> QED BY <1>0, <1>1, <1>2, <1>4, <1>5, <1>6, PlainLine, NoLs, NoCat, NoBuffer DEF ProgInv

LEMMA FileOpenInv == ASSUME ProgInv, FileOpen PROVE ProgInv'
  <1>0. ProgTypeOK /\ ProgramState /\ CommandLine /\ Listing /\ FSInv
    BY DEF ProgInv
  <1>1. /\ at = "file_open" /\ prog = Grep
        /\ \/ Open(3, name) /\ at' = "file_read" /\ last' = 0
           \/ UNCHANGED fsVars /\ at' = "done" /\ last' = last
        /\ UNCHANGED <<shellbuf, prog, typed, longest, line_start, complete>>
    BY <1>0 DEF FileOpen, Return, Session, Shell, ProgramState
  <1>2. FSInv'
    BY <1>0, <1>1, OpenInv, StutterInv, Constants
  <1>3. UNCHANGED <<entry_counter, pc, fd, ret>> /\ pc = "user"
    BY <1>0, <1>1 DEF Open, fsVars, readVars, ProgramState
  <1>4. ProgTypeOK' /\ ProgramState'
    BY <1>0, <1>1, <1>3 DEF ProgTypeOK, Places, ProgramState
  <1>5. Listing' /\ GrepBuffer'
    BY <1>0, <1>1, <1>3, Constants DEF Listing, GrepBuffer
  <1>6. ListingComplete' /\ CatExact'
    BY <1>1, Constants DEF ListingComplete, CatExact
  <1> QED BY <1>0, <1>1, <1>2, <1>4, <1>5, <1>6, PlainLine, NoCat DEF ProgInv

LEMMA FileReadCallInv == ASSUME ProgInv, FileReadCall PROVE ProgInv'
  <1>0. ProgTypeOK /\ ProgramState /\ CommandLine /\ Listing /\ GrepBuffer /\ FSInv
    BY DEF ProgInv
  <1>1. /\ at = "file_read" /\ at' = "file_got" /\ prog = Grep
        /\ RtcRead(3) \/ RtcDisturbed(3) \/ FileRead(3, GrepRoom)
        /\ UNCHANGED <<shellbuf, prog, typed, longest, out, last, line_start, complete>>
    BY <1>0 DEF FileReadCall, Shell, GrepLocals, ProgramState
  <1>2. last \in Nat /\ last < GrepSize /\ GrepRoom \in Nat
    BY <1>0, <1>1, Constants DEF ProgTypeOK, GrepBuffer, GrepRoom
  <1>3. FSInv'
    BY <1>0, <1>1, <1>2, OtherReadInv, StartInv, Constants DEF ReadDisturbed
  <1>4. /\ ret' \in Nat /\ entry_counter' = entry_counter
        /\ pc' = "user" \/ (pc' = "enter" /\ fd' = 3)
    BY <1>0, <1>1, RtcReturnsFacts, Constants DEF FileRead, StartRead
  <1>5. ProgTypeOK' /\ ProgramState'
    BY <1>0, <1>1, <1>4 DEF ProgTypeOK, Places, ProgramState
  <1>6. Listing' /\ GrepBuffer'
    BY <1>0, <1>1, <1>2, <1>4 DEF Listing, GrepBuffer
  <1> QED BY <1>0, <1>1, <1>3, <1>5, <1>6, PlainLine, NotDone, NoCat DEF ProgInv

LEMMA FileGotInv == ASSUME ProgInv, FileGot PROVE ProgInv'
  <1>0. ProgTypeOK /\ ProgramState /\ CommandLine /\ Listing /\ GrepBuffer /\ FSInv
    BY DEF ProgInv
  <1>1. /\ at = "file_got" /\ pc = "user" /\ prog = Grep /\ UNCHANGED fsVars
        /\ \/ at' = "done" /\ UNCHANGED <<last, line_start>>
           \/ /\ ret # -1 /\ last' = last + ret /\ line_start' = 0
              /\ at' = IF last + ret > GrepSize THEN "lost" ELSE "line"
        /\ UNCHANGED <<shellbuf, prog, typed, longest, out, complete>>
    BY <1>0 DEF FileGot, Return, Session, Shell, ProgramState
  <1>2. FSInv' /\ UNCHANGED <<entry_counter, pc, fd, ret>>
    BY <1>0, <1>1, StutterInv DEF fsVars, readVars
  <1>3. ProgTypeOK' /\ ProgramState'
    BY <1>0, <1>1, <1>2 DEF ProgTypeOK, Places, ProgramState
  <1>4. Listing' /\ GrepBuffer'
    BY <1>0, <1>1, <1>2, Constants DEF ProgTypeOK, Listing, GrepBuffer
  <1>5. ListingComplete' /\ CatExact'
    BY <1>1, Constants DEF ListingComplete, CatExact
  <1> QED BY <1>0, <1>1, <1>2, <1>3, <1>4, <1>5, PlainLine, NoCat DEF ProgInv

\* A line ends in the buffer, or where the buffer's bytes end.
LEMMA LineEndFacts ==
    ASSUME ProgInv, at = "line"
    PROVE  LineEnd \in Nat /\ line_start <= LineEnd /\ LineEnd <= last
  <1> DEFINE S == {j \in line_start..last : j = last \/ data[j] = NL}
  <1>1. last \in Nat /\ line_start \in Nat /\ line_start <= last
    BY DEF ProgInv, ProgTypeOK, GrepBuffer
  <1>2. S \in SUBSET Nat /\ last \in S
    BY <1>1
  <1>3. FirstOf(S) \in S
    BY <1>2, FirstExists
  <1> QED BY <1>1, <1>3 DEF LineEnd

\* The part of a line that is kept starts behind another one.
LEMMA LineInv == ASSUME ProgInv, KeepLine \/ SearchLine PROVE ProgInv'
  <1>0. ProgTypeOK /\ ProgramState /\ CommandLine /\ Listing /\ GrepBuffer /\ FSInv
    BY DEF ProgInv
  <1>1. /\ at = "line" /\ prog = Grep /\ UNCHANGED fsVars
        /\ UNCHANGED <<shellbuf, prog, typed, longest, complete>>
    BY <1>0 DEF KeepLine, SearchLine, Session, Shell, ProgramState
  <1>2. \/ at' = "file_read" /\ line_start # 0 /\ last' = last - line_start /\ UNCHANGED line_start
        \/ at' = "line" /\ LineEnd + 1 < last /\ line_start' = LineEnd + 1 /\ UNCHANGED last
        \/ at' \in {"file_read", "file_close"} /\ last' = 0 /\ line_start' = 0
    BY <1>1 DEF KeepLine, SearchLine, LineIncomplete
  <1>3. FSInv' /\ UNCHANGED <<entry_counter, pc, fd, ret>>
    BY <1>0, <1>1, StutterInv DEF fsVars, readVars
  <1>4. /\ last \in Nat /\ line_start \in Nat /\ LineEnd \in Nat /\ last <= GrepSize
        /\ line_start # 0 => line_start < last
    BY <1>0, <1>1, LineEndFacts DEF ProgTypeOK, GrepBuffer
  <1>5. last' \in Nat /\ line_start' \in Nat /\ GrepBuffer'
    BY <1>2, <1>4, Constants DEF GrepBuffer
  <1>6. ProgTypeOK' /\ ProgramState' /\ Listing'
    BY <1>0, <1>1, <1>2, <1>3, <1>5 DEF ProgTypeOK, Places, ProgramState, Listing
  <1> QED BY <1>0, <1>1, <1>2, <1>3, <1>5, <1>6, PlainLine, NotDone, NoCat DEF ProgInv

LEMMA FileCloseInv == ASSUME ProgInv, FileClose PROVE ProgInv'
  <1>0. ProgTypeOK /\ ProgramState /\ CommandLine /\ Listing /\ FSInv
    BY DEF ProgInv
  <1>1. /\ at = "file_close" /\ at' = "grep_dir" /\ prog = Grep /\ Close(3) /\ last' = 0
        /\ UNCHANGED <<shellbuf, prog, typed, longest, line_start, complete>>
        /\ UNCHANGED <<entry_counter, pc, fd, ret>>
    BY <1>0 DEF FileClose, Session, Shell, ProgramState, Close, readVars
  <1>2. FSInv'
    BY <1>0, <1>1, CloseInv, Constants
  <1>3. ProgTypeOK' /\ ProgramState' /\ Listing'
    BY <1>0, <1>1 DEF ProgTypeOK, Places, ProgramState, Listing
  <1> QED BY <1>0, <1>1, <1>2, <1>3, PlainLine, NotDone, NoCat, NoBuffer DEF ProgInv

-----------------------------------------------------------------------------
(* The kernel *)

\* read_data returns to cat: what it stored comes behind what is written, and a
\* count of 0 means that the position is at the end of the file.
LEMMA CatReturns ==
    ASSUME ProgInv, Finish, at = "cat_write", file_array'[2].filetype = Regular, 2 \notin broken'
    PROVE  /\ ret = Len(buf) /\ got'[2] = out \o buf
           /\ ret = 0 => file_array'[2].fileposition >= FileLength(file_array'[2].inode)
  <1>0. FSInv /\ Copying /\ ProgramState /\ TableTypeOK /\ ret \in Int
    BY TypeParts DEF ProgInv, FSInv, LoopTypeOK
  <1>1. /\ pc = "finish" /\ fd = 2 /\ Advance(2, ret)
        /\ IF 2 \notin broken /\ ret = Len(buf)
           THEN got' = [got EXCEPT ![2] = @ \o buf]
           ELSE broken' = broken \cup {2}
    BY <1>0 DEF Finish, ProgramState
  <1>2. 2 \notin broken /\ ret = Len(buf) /\ got'[2] = got[2] \o buf
    BY <1>0, <1>1, Constants DEF TableTypeOK
  <1>3. /\ file_array'[2].filetype = file_array[2].filetype
        /\ file_array'[2].inode = file_array[2].inode
        /\ file_array'[2].fileposition = (file_array[2].fileposition + ret) % WordSize
    BY <1>0, <1>1, Constants, AdvanceFacts
  <1>4. out = got[2] /\ length = CatSize
    BY <1>0, <1>1, <1>2, <1>3 DEF Copying
  <1>5. ASSUME ret = 0 PROVE file_array'[2].fileposition >= FileLength(file_array'[2].inode)
    <2>1. /\ inode = file_array[2].inode /\ offset = file_array[2].fileposition
          /\ offset \in 0..(WordSize - 1) /\ offset \in Nat
      BY <1>0, <1>1, ReadFacts DEF FSInv, OpenFiles, FSTypeOK
    <2>2. Available(inode, offset, CatSize) = 0
      BY <1>0, <1>1, <1>2, <1>4, <1>5 DEF FSInv, ReadLoop, Stored
    <2>3. FileLength(inode) \in Nat
      BY <1>0, <1>1, ReadFacts
    <2>4. offset >= FileLength(inode)
      BY <2>1, <2>2, <2>3, Constants DEF Available
    <2>5. (offset + 0) % WordSize = offset
      BY <2>1, SmallRemainder, Sizes
    <2> QED BY <1>3, <1>5, <2>1, <2>4, <2>5
  <1> QED BY <1>2, <1>4, <1>5

LEMMA KernelStepInv == ASSUME ProgInv, KernelStep PROVE ProgInv'
  <1>0. ProgTypeOK /\ ProgramState /\ CommandLine /\ Listing /\ Copying /\ GrepBuffer /\ FSInv
    BY DEF ProgInv
  <1>1. /\ ReadStep
        /\ UNCHANGED <<at, shellbuf, prog, arg, status, out, last, line_start, typed, longest,
                       complete, whole>>
    BY DEF KernelStep, progVars
  <1>2. FSInv'
    BY <1>0, <1>1, ReadStepInv
  <1>3. /\ pc # "user" /\ ret' \in Nat \cup {-1}
        /\ UNCHANGED <<image, entry_counter, fd>>
        /\ pc' # "user" => UNCHANGED <<file_array, length, got, broken>>
        /\ pc' = "user" => Finish
    BY <1>0, <1>1, ReadStepFrame DEF ProgTypeOK
  <1>4. (at = "cat_write" /\ fd = 2) \/ (at = "file_got" /\ fd = 3)
    BY <1>0, <1>3 DEF ProgramState
  <1>5. ProgTypeOK' /\ ProgramState' /\ Listing' /\ GrepBuffer'
    BY <1>0, <1>1, <1>3, <1>4 DEF ProgTypeOK, ProgramState, Listing, GrepBuffer
  <1>6. Copying'
    <2>1. CASE at = "file_got"
      BY <1>1, <2>1, NoCat
    <2>2. CASE at = "cat_write" /\ pc' # "user"
      BY <1>0, <1>1, <1>3, <2>2 DEF Copying
    <2>3. CASE at = "cat_write" /\ pc' = "user"
      <3>1. Finish /\ UNCHANGED <<buf, ret>>
        BY <1>3, <2>3 DEF Finish
      <3>2. (file_array'[2].filetype = Regular /\ 2 \notin broken') =>
               /\ ret' = Len(buf') /\ got'[2] = out' \o buf'
               /\ ret' = 0 => file_array'[2].fileposition
                                  >= FileLength(file_array[2].inode)'
        <4> SUFFICES ASSUME file_array'[2].filetype = Regular, 2 \notin broken'
                     PROVE  /\ ret' = Len(buf') /\ got'[2] = out' \o buf'
                            /\ ret' = 0 => file_array'[2].fileposition
                                               >= FileLength(file_array[2].inode)'
          OBVIOUS
        <4>1. /\ ret = Len(buf) /\ got'[2] = out \o buf
              /\ ret = 0 => file_array'[2].fileposition >= FileLength(file_array'[2].inode)
          BY <2>3, <3>1, CatReturns
        <4>2. FileLength(file_array[2].inode)' = FileLength(file_array'[2].inode)
          BY <1>3 DEF FileLength
        <4> QED BY <1>1, <3>1, <4>1, <4>2
      <3> QED BY <1>1, <2>3, <3>2 DEF Copying
    <2> QED BY <1>4, <2>1, <2>2, <2>3
  <1> QED BY <1>0, <1>1, <1>2, <1>4, <1>5, <1>6, PlainLine, NotDone DEF ProgInv

\* A handler leaves the program's read where it is, but for the result at its
\* end.
LEMMA HandlerFrame ==
    ASSUME FSInv, ret \in Nat \cup {-1}, FilesTest \/ \E eoi \in Eoi : Interrupt(eoi)
    PROVE  /\ FSInv' /\ pc # "user" /\ ret' \in Nat \cup {-1}
           /\ UNCHANGED <<image, entry_counter, file_array, pc, fd, length, buf, got>>
           /\ broken' \in {broken, broken \cup {fd}}
           /\ fd \notin broken' => ret' = ret
  <1>1. FSInv'
    BY HandlerInv
  <1>2. PICK eoi \in Eoi :
           /\ InEax(eoi) /\ pc # "user"
           /\ UNCHANGED <<image, entry_counter, file_array, pc, fd, length, buf, got>>
    BY DEF FilesTest, Interrupt, Eoi
  <1>3. eoi \in Nat
    BY Sizes
  <1>4. /\ ret' \in Nat \cup {-1} /\ broken' \in {broken, broken \cup {fd}}
        /\ fd \notin broken' => ret' = ret
    BY <1>2, <1>3 DEF InEax
  <1> QED BY <1>1, <1>2, <1>4

LEMMA HandlerStepInv == ASSUME ProgInv, HandlerStep PROVE ProgInv'
  <1>0. ProgTypeOK /\ ProgramState /\ CommandLine /\ Listing /\ Copying /\ GrepBuffer /\ FSInv
    BY DEF ProgInv
  <1>1. /\ FilesTest \/ \E eoi \in Eoi : Interrupt(eoi)
        /\ UNCHANGED <<at, shellbuf, prog, arg, status, out, last, line_start, typed, longest,
                       complete, whole>>
    BY DEF HandlerStep, Shell, GrepLocals
  <1>2. /\ FSInv' /\ pc # "user" /\ ret' \in Nat \cup {-1}
        /\ UNCHANGED <<image, entry_counter, file_array, pc, fd, length, buf, got>>
        /\ broken' \in {broken, broken \cup {fd}}
    BY <1>0, <1>1, HandlerFrame DEF ProgTypeOK
  <1>3. at \in {"cat_write", "file_got"}
    BY <1>0, <1>2 DEF ProgramState
  <1>4. ProgTypeOK' /\ ProgramState' /\ Listing' /\ GrepBuffer'
    BY <1>0, <1>1, <1>2, <1>3 DEF ProgTypeOK, ProgramState, Listing, GrepBuffer
  <1>5. Copying'
    BY <1>0, <1>1, <1>2 DEF Copying
  <1> QED BY <1>0, <1>1, <1>2, <1>3, <1>4, <1>5, PlainLine, NotDone DEF ProgInv

-----------------------------------------------------------------------------
(* The invariant, and what follows from it *)

\* A step that changes nothing.
LEMMA SameInv == ASSUME ProgInv, UNCHANGED vars PROVE ProgInv'
  <1>1. FSInv'
    BY StutterInv DEF ProgInv, vars
  <1>2. /\ UNCHANGED <<image, entry_counter, file_array, pc, fd, length, buf, ret, got, broken>>
        /\ UNCHANGED <<at, shellbuf, prog, arg, status, out, last, line_start, typed, longest,
                       complete, whole>>
    BY DEF vars, fsVars, readVars, progVars
  <1>3. ProgTypeOK' /\ ProgramState' /\ CommandLine' /\ Listing' /\ GrepBuffer'
    BY <1>2 DEF ProgInv, ProgTypeOK, ProgramState, CommandLine, Listing, GrepBuffer
  <1>4. CommandParsed' /\ ListingComplete'
    BY <1>2 DEF ProgInv, CommandParsed, BlankIn, ListingComplete
  <1>5. Copying' /\ CatExact'
    BY <1>2 DEF ProgInv, Copying, CatExact, Content, FileLength, FileByte, BlockOf
  <1> QED BY <1>1, <1>3, <1>4, <1>5 DEF ProgInv

\* Every step of the shell, a program, read_data and a handler preserves ProgInv.
LEMMA ProgStepInv == ProgInv /\ [Next]_vars => ProgInv'
  <1> SUFFICES ASSUME ProgInv, [Next]_vars PROVE ProgInv'
    OBVIOUS
  <1>1. ASSUME NEW line \in Lines, Type(line) PROVE ProgInv'
    BY <1>1, TypeInv
  <1>2. CASE Execute \/ Halt
    BY <1>2, ExecuteInv, HaltInv
  <1>3. CASE OpenDirectory \/ LsRead \/ CatOpen \/ CatRead \/ CatWrite
    BY <1>3, OpenDirectoryInv, LsReadInv, CatOpenInv, CatReadInv, CatWriteInv
  <1>4. CASE \/ GrepDir \/ FileOpen \/ FileReadCall \/ FileGot \/ KeepLine \/ SearchLine
             \/ FileClose
    BY <1>4, GrepDirInv, FileOpenInv, FileReadCallInv, FileGotInv, LineInv, FileCloseInv
  <1>5. CASE KernelStep \/ HandlerStep
    BY <1>5, KernelStepInv, HandlerStepInv
  <1>6. CASE UNCHANGED vars
    BY <1>6, SameInv
  <1> QED BY <1>1, <1>2, <1>3, <1>4, <1>5, <1>6 DEF Next, ProgramStep, Lost

\* ProgInv holds in every state of a session.
THEOREM SessionInvariance == Spec => []ProgInv
  BY ProgInitInv, ProgStepInv, PTL DEF Spec

\* execute starts the program the line names, with the arguments behind the
\* first blank.
THEOREM ParsingCorrect == Spec => []CommandParsed
  <1>1. ProgInv => CommandParsed
    BY DEF ProgInv
  <1> QED BY <1>1, SessionInvariance, PTL

\* ls prints the whole directory, if the program before it read it to its end and
\* no handler takes the position or a count of directory_read (files.c:243-260)
\* out of %eax.
THEOREM ListingCorrect == Spec => []ListingComplete
  <1>1. ProgInv => ListingComplete
    BY DEF ProgInv
  <1> QED BY <1>1, SessionInvariance, PTL

\* cat copies the file, whatever handlers do that leaves its reads' counts.
THEOREM CatCorrect == Spec => []CatExact
  <1>1. ProgInv => CatExact
    BY DEF ProgInv
  <1> QED BY <1>1, SessionInvariance, PTL

\* grep never asks read for zero bytes.
THEOREM GrepCanRead == Spec => []GrepHasRoom
  <1>1. ProgInv => GrepHasRoom
    BY Constants DEF ProgInv, ProgTypeOK, GrepBuffer, GrepHasRoom, GrepRoom
  <1> QED BY <1>1, SessionInvariance, PTL

\* What FileSystemProofs shows of any program holds of these, which pass read
\* sizes and names they compute themselves, with handlers at any place of their
\* reads: the bytes are the file's, and the counts those ReadExact lists.
THEOREM SessionReads ==
    Spec => [](ReadInImage /\ ReadExact /\ FailureHasBadBlock /\ ReadsFormPrefix /\ LookupExact)
  <1>1. ProgInv => ReadInImage /\ ReadExact /\ FailureHasBadBlock /\ ReadsFormPrefix /\ LookupExact
    BY InvInImage, InvExact, InvLookup DEF ProgInv, FSInv
  <1> QED BY <1>1, SessionInvariance, PTL
=============================================================================
