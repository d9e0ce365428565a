------------------------------ MODULE Programs ------------------------------
(***************************************************************************)
(* The shell and the programs cat, ls and grep (syscalls/) over the file   *)
(* system: a session of commands, execute's parsing of them and getargs    *)
(* (systemcall.c), and the programs' loops of system calls.  Every open,   *)
(* read and close is one of FileSystem's, so the reads of the programs are *)
(* read_data's steps, with handlers between any two of them.               *)
(***************************************************************************)
EXTENDS FileSystem, SequencesExt

CONSTANTS
    BufSize,     \* bytes of the shell's line buffer (1024)
    CatSize,     \* bytes cat asks for (1024)
    GrepSize,    \* BUFSIZE of grep (1024); its array has one more
    Blank, Dot, NL,
    Ls, Cat, Grep, Exit,   \* the commands' names
    Lines,       \* lines typed at the prompt, without the newline
    StackByte,   \* what uninitialised stack memory may hold
    MaxInterrupts \* bound of the model on the handlers that disturb a read

ASSUME ProgramsAssumption ==
    /\ BufSize \in Nat /\ CatSize \in Nat \ {0} /\ GrepSize \in Nat \ {0}
    /\ {Blank, Dot} \subseteq Char /\ NL \notin Char /\ NL # NUL
    /\ Ls # Cat /\ Ls # Grep /\ Cat # Grep
    /\ \A p \in {Ls, Cat, Grep} : Len(p) < NameSize
    /\ Fds = {2, 3}
    /\ Lines \subseteq Seq(Char)
    /\ \A line \in Lines : Len(line) < BufSize - 1
    /\ 1..GrepSize \cup {CatSize} \subseteq ReadSizes
    /\ \A img \in Images, d \in DentryIndex :   \* the directory, and the programs
          LET entry == img.dentries[d]
              inum == entry.inode
          IN  /\ entry.filename = <<Dot>> <=> entry.filetype = Directory
              /\ d < img.dentries_num => entry.filename # <<>>
              /\ entry.filename \in {Ls, Cat, Grep} =>
                    /\ entry.filetype = Regular
                    /\ \A b \in 0..BlockEntries :
                          b * FS_UNIT_SIZE <= img.inodes[inum].length =>
                              img.inodes[inum].data_blocks[b] < img.datablocks_num

VARIABLES
    at,          \* where the running program is
    shellbuf,    \* the shell's buf
    prog, arg,   \* the program started last, and its PCB's arg
    status,      \* what it returns
    out,         \* what it has written to the terminal
    name,        \* grep's buf: the file it works on
    data, last, line_start,   \* the locals of do_one_file
    interrupts,  \* handlers that have disturbed a read so far
    typed,       \* history: the command line being executed
    longest,     \* history: bytes of shellbuf that may not be zero
    complete,    \* history: the last directory read saw the end, or there was none
    whole,       \* history: complete when the program opened the directory
    garbage      \* history: what data held when do_one_file was called

progVars == <<at, shellbuf, prog, arg, status, out, name, data, last,
              line_start, interrupts, typed, longest, complete, whole, garbage>>
vars == <<fsVars, progVars>>

NoData == [j \in 0..GrepSize |-> NUL]

Init ==
    /\ FSInit
    /\ at = "shell"
    /\ \E c \in StackByte :
          /\ shellbuf = [j \in 0..(BufSize - 1) |-> c]
          /\ longest = IF c = NUL THEN 0 ELSE BufSize
    /\ prog = <<>> /\ arg = <<>> /\ status = 0 /\ out = <<>> /\ name = <<>>
    /\ data = NoData /\ last = 0 /\ line_start = 0
    /\ interrupts = 0
    /\ typed = <<>> /\ complete = TRUE /\ whole = TRUE /\ garbage = NUL

\* A step of a program that leaves these alone.
Shell == <<shellbuf, prog, arg, typed, longest>>
Session == <<Shell, interrupts>>
GrepLocals == <<name, data, last, line_start, garbage>>

-----------------------------------------------------------------------------
(* The shell and execute *)

\* read from the terminal, the newline replaced by a terminator; the bytes
\* behind it stay.  An empty line is ignored, and after "exit" the shell is
\* started again over the same stack.
Type(line) ==
    /\ at = "shell"
    /\ shellbuf' = [j \in DOMAIN shellbuf |->
                       IF j < Len(line) THEN line[j + 1]
                       ELSE IF j = Len(line) THEN NUL ELSE shellbuf[j]]
    /\ typed' = IF line \in {<<>>, Exit} THEN <<>> ELSE line
    /\ longest' = IF Len(line) > longest THEN Len(line) ELSE longest
    /\ at' = IF line \in {<<>>, Exit} THEN "shell" ELSE "execute"
    /\ UNCHANGED <<fsVars, prog, arg, status, out, GrepLocals, interrupts, complete, whole>>

\* The command as execute sees it: it does not know where the array ends.
Command(j) == IF j < BufSize THEN shellbuf[j] ELSE NUL
CommandBytes(from, to) == [k \in 1..(to - from) |-> Command(from + k - 1)]
FirstNul(from) == FirstOf({j \in from..(from + BufSize) : Command(j) = NUL})

\* Wrong: the blank belongs to the arguments.
CommandArgsWithBlank ==
    LET end == FirstOf({j \in 0..NameSize : j = NameSize \/ Command(j) = Blank})
    IN  CommandBytes(end, FirstNul(end))

\* command_name: up to NameSize bytes before the first blank.  The copy does not
\* stop at the terminator, but whoever uses the copy does.
NameEnd == FirstOf({j \in 0..NameSize : j = NameSize \/ Command(j) = Blank})
CommandName == CommandBytes(0, IF FirstNul(0) < NameEnd THEN FirstNul(0) ELSE NameEnd)

\* arg_buf: from behind that blank, or behind NameSize bytes, to a terminator.
CommandArgs == CommandBytes(NameEnd + 1, FirstNul(NameEnd + 1))

\* Only the three programs pass check_executable.
Execute ==
    /\ at = "execute"
    /\ \E command_name \in {CommandName} :
          IF Found(command_name) /\ command_name \in {Ls, Cat, Grep}
          THEN /\ FileLoad(command_name)
               /\ at' = "main" /\ prog' = command_name /\ arg' = CommandArgs
               /\ UNCHANGED typed
          ELSE /\ \/ CheckExecutable(command_name)
                  \/ ~Found(command_name) /\ UNCHANGED fsVars
               /\ at' = "shell" /\ typed' = <<>>
               /\ UNCHANGED <<prog, arg>>
    /\ UNCHANGED <<shellbuf, interrupts, longest, status, out, GrepLocals, complete,
                   whole>>

\* main returns, and the shell goes on when the program has halted.
Return(value) == at' = "done" /\ status' = value

Halt ==
    /\ at = "done"
    /\ CloseAll
    /\ at' = "shell"
    /\ prog' = <<>> /\ arg' = <<>> /\ status' = 0 /\ out' = <<>>
    /\ name' = <<>> /\ data' = NoData /\ last' = 0 /\ line_start' = 0 /\ garbage' = NUL
    /\ typed' = <<>> /\ whole' = TRUE
    /\ UNCHANGED <<shellbuf, interrupts, longest, complete>>

-----------------------------------------------------------------------------
(* ls *)

\* ls and grep open the directory; every image has one.
OpenDirectory ==
    /\ at = "main" /\ prog \in {Ls, Grep}
    /\ Open(2, <<Dot>>)
    /\ at' = IF prog = Ls THEN "ls_read" ELSE "grep_dir"
    /\ whole' = complete
    /\ UNCHANGED <<Session, status, out, GrepLocals, complete>>

\* A handler disturbs a call, or none does.
Disturbed == interrupts < MaxInterrupts /\ interrupts' = interrupts + 1
Undisturbed == UNCHANGED interrupts

ReadDirectory ==
    \/ DirectoryRead(2) /\ Undisturbed
    \/ DirectoryDisturbed(2) /\ Disturbed

SeesEnd == complete' = (ret' = 0)

\* ls and grep store a byte behind the name, at the place the count tells; one
\* that is no length of a name takes them beyond their array, and what they do
\* then is not followed.
BeyondName == ret' > NameSize

LsRead ==
    /\ at = "ls_read"
    /\ ReadDirectory
    /\ SeesEnd
    /\ IF ret' = 0 THEN Return(0) /\ UNCHANGED out
       ELSE IF BeyondName THEN at' = "lost" /\ UNCHANGED <<status, out>>
       ELSE out' = Append(out, buf') /\ UNCHANGED <<at, status>>
    /\ UNCHANGED <<Shell, GrepLocals, whole>>

-----------------------------------------------------------------------------
(* cat *)

\* getargs succeeds: CatSize and GrepSize are as large as the PCB's arg.
CatOpen ==
    /\ at = "main" /\ prog = Cat
    /\ IF Found(arg)
       THEN Open(2, arg) /\ at' = "cat_read" /\ UNCHANGED status
       ELSE Return(2) /\ UNCHANGED fsVars
    /\ whole' = complete
    /\ UNCHANGED <<Session, out, GrepLocals, complete>>

CatRead ==
    /\ at = "cat_read"
    /\ \/ ReadCall(2, CatSize) /\ Undisturbed
       \/ ReadDisturbed(2) /\ Disturbed
    /\ at' = "cat_write"
    /\ IF file_array[2].filetype = Directory THEN SeesEnd ELSE UNCHANGED complete
    /\ UNCHANGED <<Shell, status, out, GrepLocals, whole>>

\* The first n bytes of a program's array after a read: what the read stored,
\* then what was there before.
Stale == "stale"
FirstBytes(n) == [k \in 1..n |-> IF k <= Len(buf) THEN buf[k] ELSE Stale]

\* Wrong: as many bytes as were asked for are written.
CatWriteAll ==
    /\ at = "cat_write" /\ pc = "user"
    /\ IF ret = 0 THEN Return(0) /\ UNCHANGED out
       ELSE IF ret = -1 THEN Return(3) /\ UNCHANGED out
       ELSE out' = out \o FirstBytes(CatSize) /\ at' = "cat_read" /\ UNCHANGED status
    /\ UNCHANGED <<fsVars, Session, GrepLocals, complete, whole>>

CatWrite ==
    /\ at = "cat_write" /\ pc = "user"
    /\ IF ret = 0 THEN Return(0) /\ UNCHANGED out
       ELSE IF ret = -1 THEN Return(3) /\ UNCHANGED out
       ELSE out' = out \o FirstBytes(ret) /\ at' = "cat_read" /\ UNCHANGED status
    /\ UNCHANGED <<fsVars, Session, GrepLocals, complete, whole>>

-----------------------------------------------------------------------------
(* grep *)

GrepDir ==
    /\ at = "grep_dir"
    /\ ReadDirectory
    /\ SeesEnd
    /\ IF ret' = 0 THEN Return(0) /\ UNCHANGED name
       ELSE /\ UNCHANGED status
            /\ IF buf' # <<>> /\ buf'[1] = Dot THEN UNCHANGED <<at, name>>
               ELSE IF BeyondName THEN at' = "lost" /\ UNCHANGED name
               ELSE at' = "file_open" /\ name' = buf'
    /\ UNCHANGED <<Shell, out, data, last, line_start, garbage, whole>>

\* do_one_file.  A file that cannot be opened ends grep.
FileOpen ==
    /\ at = "file_open"
    /\ IF Found(name)
       THEN /\ Open(3, name) /\ at' = "file_read" /\ UNCHANGED status
            /\ garbage' \in StackByte
            /\ data' = [j \in 0..GrepSize |-> garbage']
            /\ last' = 0 /\ out' = <<>>
       ELSE Return(3) /\ UNCHANGED <<fsVars, garbage, data, last, out>>
    /\ UNCHANGED <<Session, name, line_start, complete, whole>>

GrepRoom == GrepSize - last

FileReadCall ==
    /\ at = "file_read"
    /\ \/ (RtcRead(3) \/ FileRead(3, GrepRoom)) /\ Undisturbed
       \/ RtcDisturbed(3) /\ Disturbed
    /\ at' = "file_got"
    /\ UNCHANGED <<Shell, status, out, GrepLocals, complete, whole>>

\* A count larger than what was asked for takes grep beyond its array; what it
\* does then is not followed.
FileGot ==
    /\ at = "file_got" /\ pc = "user"
    /\ IF ret = -1 THEN Return(3) /\ UNCHANGED <<data, last, line_start>>
       ELSE /\ data' = [j \in 0..GrepSize |->
                           IF j >= last /\ j < last + Len(buf) THEN buf[j - last + 1]
                           ELSE data[j]]
            /\ last' = last + ret
            /\ line_start' = 0
            /\ at' = IF last + ret > GrepSize THEN "lost" ELSE "line"
            /\ UNCHANGED status
    /\ UNCHANGED <<fsVars, Session, out, name, garbage, complete, whole>>

LineEnd == FirstOf({j \in line_start..last : j = last \/ data[j] = NL})

\* Wrong: the last line of a buffer counts as complete.
LineIncompleteNever == FALSE

\* Wrong: a line that fills the buffer is kept as well.
LineIncompleteFull == data[LineEnd] # NL /\ ret # 0

\* The bytes at the end of the buffer may go on in the next one.
LineIncomplete == data[LineEnd] # NL /\ ret # 0 /\ line_start # 0

\* They are moved to the front, by a copy that ends at a terminator.
KeepLine ==
    LET bytes == [data EXCEPT ![LineEnd] = NUL]
        size == FirstOf({j \in 0..(LineEnd - line_start) : bytes[line_start + j] = NUL})
    IN  /\ at = "line" /\ LineIncomplete
        /\ data' = [j \in 0..GrepSize |-> IF j <= size THEN bytes[line_start + j]
                                          ELSE bytes[j]]
        /\ last' = last - line_start
        /\ at' = "file_read"
        /\ UNCHANGED <<fsVars, Session, status, out, name, line_start, garbage,
                       complete, whole>>

\* The argument occurs at position j of a line that ends before position e; an
\* empty one, where there is a zero byte.
OccursAt(j, e) ==
    IF arg = <<>> THEN data[j] = NUL
    ELSE /\ j + Len(arg) <= e
         /\ \A k \in 1..Len(arg) : data[j + k - 1] = arg[k]

\* The line is searched, printed (up to a zero byte) and skipped.
SearchLine ==
    LET e == LineEnd
        size == FirstOf({j \in 0..(e - line_start) : j = e - line_start
                                                      \/ data[line_start + j] = NUL})
        line == [k \in 1..size |-> data[line_start + k - 1]]
    IN  /\ at = "line" /\ ~LineIncomplete
        /\ data' = [data EXCEPT ![e] = NUL]
        /\ out' = IF \E j \in line_start..(e - 1) : OccursAt(j, e)
                  THEN Append(out, line) ELSE out
        /\ IF e + 1 < last
           THEN line_start' = e + 1 /\ UNCHANGED <<at, last>>
           ELSE /\ line_start' = 0 /\ last' = 0
                /\ at' = IF ret = 0 THEN "file_close" ELSE "file_read"
        /\ UNCHANGED <<fsVars, Session, status, name, garbage, complete, whole>>

FileClose ==
    /\ at = "file_close"
    /\ Close(3)
    /\ at' = "grep_dir"
    /\ data' = NoData /\ last' = 0 /\ out' = <<>> /\ name' = <<>> /\ garbage' = NUL
    /\ UNCHANGED <<Session, status, line_start, complete, whole>>

-----------------------------------------------------------------------------

KernelStep == ReadStep /\ UNCHANGED progVars

\* Control-1, or another key or a tick, while a program reads a file.
HandlerStep ==
    /\ FilesTest \/ \E eoi \in Eoi : Interrupt(eoi)
    /\ Disturbed
    /\ UNCHANGED <<Shell, at, status, out, GrepLocals, complete, whole>>

Lost == at = "lost" /\ UNCHANGED vars

ProgramStep ==
    \/ Execute \/ Halt \/ OpenDirectory \/ LsRead
    \/ CatOpen \/ CatRead \/ CatWrite
    \/ GrepDir \/ FileOpen \/ FileReadCall \/ FileGot \/ KeepLine \/ SearchLine
    \/ FileClose

Next ==
    \/ \E line \in Lines : Type(line)
    \/ ProgramStep \/ KernelStep \/ HandlerStep \/ Lost

\* The processor goes on with the program or the read it is in.
Spec == Init /\ [][Next]_vars /\ WF_vars(ProgramStep) /\ WF_vars(KernelStep)

-----------------------------------------------------------------------------
(* Correctness *)

Content(n) == [k \in 1..FileLength(n) |-> FileByte(n, k - 1)]

\* The program started is the first word of the line, and if there is a blank
\* its arguments are what follows the first one.  Without a blank it has none,
\* provided no earlier line was longer: execute copies on behind the terminator
\* and takes what it finds there for arguments.
BlankIn(line) == {k \in 1..Len(line) : line[k] = Blank}
CommandParsed ==
    at = "main" =>
        IF BlankIn(typed) # {}
        THEN LET b == FirstOf(BlankIn(typed))
             IN  prog = SubSeq(typed, 1, b - 1) /\ arg = SubSeq(typed, b + 1, Len(typed))
        ELSE prog = typed /\ (longest <= Len(typed) => arg = <<>>)

\* ls prints every entry of the directory, in order, if the last program that
\* read the directory had read it to its end and no handler has come in while
\* directory_read had its position or its result in %eax.
ListingComplete ==
    (at = "done" /\ prog = Ls /\ whole /\ 2 \notin broken) =>
        out = [k \in 1..image.dentries_num |-> image.dentries[k - 1].filename]

\* cat writes the whole file and reports success, unless a block number is bad
\* (the one behind a file that ends on a block boundary included) or a read
\* returned the count of another file or an EOI byte.
CatExact ==
    (at = "done" /\ prog = Cat /\ file_array[2].filetype = Regular /\ 2 \notin broken) =>
        status = 0 /\ out = Content(file_array[2].inode)

\* grep prints the lines of a file that contain the argument, in order and
\* once, however lines, blocks and its buffer are cut, if the file is text
\* whose lines fit the buffer and the byte behind the buffer was no newline.
LineStarts(c) == {a \in 1..Len(c) : a = 1 \/ c[a - 1] = NL}
LineAt(c, a) ==
    SubSeq(c, a, FirstOf({e \in (a - 1)..Len(c) : e = Len(c) \/ c[e + 1] = NL}))
OccursIn(line, s) ==
    s # <<>> /\ \E j \in 0..(Len(line) - Len(s)) : SubSeq(line, j + 1, j + Len(s)) = s
Matches(c, s) == {a \in LineStarts(c) : OccursIn(LineAt(c, a), s)}
MatchesUpTo(c, s, n) == {a \in Matches(c, s) : a <= n}
LinesInOrder(lines, c, starts) ==
    LET K == 1..Cardinality(starts)
    IN  \E from \in [K -> starts] : /\ \A j, k \in K : j < k => from[j] < from[k]
                                    /\ lines = [k \in K |-> LineAt(c, from[k])]
Text(c) == /\ \A k \in 1..Len(c) : c[k] # NUL
           /\ \A a \in LineStarts(c) : Len(LineAt(c, a)) <= GrepSize
Exact == file_array[3].filetype = Regular /\ 3 \notin broken /\ garbage # NL
TheFile == Content(file_array[3].inode)
GrepExact ==
    (at = "file_close" /\ Exact /\ Text(TheFile)) =>
        LinesInOrder(out, TheFile, Matches(TheFile, arg))

\* grep never asks for no bytes, which read would answer with -1: however long
\* the lines are, the part of one that it keeps never fills its buffer.
GrepHasRoom == at = "file_read" => GrepRoom > 0

\* Every command comes back to the prompt, if handlers disturb its reads only
\* so often and it is not taken beyond its array by a count of theirs.
CommandsReturn == at = "execute" ~> at \in {"shell", "lost"}

\* What these rest on.  Where a program is, which one it is and what it has open.
Places == {"shell", "execute", "main", "ls_read", "cat_read", "cat_write", "grep_dir",
           "file_open", "file_read", "file_got", "line", "file_close", "done", "lost"}
ProgTypeOK ==
    /\ at \in Places
    /\ shellbuf \in [0..(BufSize - 1) -> Char \cup {NUL} \cup StackByte]
    /\ typed \in Seq(Char) /\ longest \in Nat
    /\ last \in Nat /\ line_start \in Nat
    /\ ret \in Nat \cup {-1}
ProgramState ==
    /\ at \in {"shell", "execute", "main"} =>
          file_array = [f \in Fds |-> Closed] /\ out = <<>>
    /\ at = "main" => prog \in {Ls, Cat, Grep}
    /\ at = "ls_read" => prog = Ls
    /\ at \in {"cat_read", "cat_write"} => prog = Cat
    /\ at \in {"grep_dir", "file_open", "file_read", "file_got", "line", "file_close"} =>
          prog = Grep
    /\ at = "lost" => prog \in {Ls, Grep}
    /\ pc # "user" => (at = "cat_write" /\ fd = 2) \/ (at = "file_got" /\ fd = 3)

\* The shell's buffer holds the line, and zeros from the longest line on.
CommandLine ==
    /\ at = "execute" =>
          /\ Len(typed) < BufSize
          /\ \A j \in 0..(Len(typed) - 1) : shellbuf[j] = typed[j + 1]
          /\ shellbuf[Len(typed)] = NUL
    /\ \A j \in 0..(BufSize - 1) : j >= longest => shellbuf[j] = NUL

\* ls has printed what lies before the directory's position.
Listing ==
    /\ complete => entry_counter = 0
    /\ (at = "ls_read" /\ whole /\ 2 \notin broken) =>
          /\ entry_counter <= image.dentries_num
          /\ out = [k \in 1..entry_counter |-> image.dentries[k - 1].filename]

\* cat has written what its reads have returned, but for the last of them.
Copying ==
    (at \in {"cat_read", "cat_write"} /\ file_array[2].filetype = Regular /\ 2 \notin broken) =>
        IF at = "cat_write" /\ pc = "user"
        THEN /\ ret = Len(buf) /\ got[2] = out \o buf
             /\ ret = 0 => file_array[2].fileposition >= FileLength(file_array[2].inode)
        ELSE out = got[2] /\ (at = "cat_write" => length = CatSize)

\* grep's line lies in the buffer.
GrepBuffer ==
    /\ at \in {"file_read", "file_got"} => last < GrepSize
    /\ at = "line" => last <= GrepSize /\ (line_start # 0 => line_start < last)

\* grep's buffer holds the bytes of the file from BufferStart on, up to what has
\* been read; those of its lines that start before the current one have been
\* searched.  After a line that fills the buffer the newline behind it is taken
\* for an empty line.
Fresh == IF at = "file_got" /\ pc = "user" THEN Len(buf) ELSE 0
BufferStart == Len(got[3]) - Fresh - last
Current == BufferStart + (IF at = "line" THEN line_start ELSE 0)
Boundary(c, n) == n \in {0, Len(c)} \/ c[n] = NL \/ c[n + 1] = NL
GotAll == Len(got[3]) = Len(TheFile)
Searched ==
    /\ BufferStart \in Nat
    /\ \A j \in 0..(last - 1) :
          BufferStart + j >= Current => data[j] = TheFile[BufferStart + j + 1]
    /\ data[GrepSize] # NL
    /\ Boundary(TheFile, Current)
    /\ LinesInOrder(out, TheFile, MatchesUpTo(TheFile, arg, Current))
    /\ (at = "file_got" /\ pc # "user") => length = GrepRoom
    /\ (at = "file_got" /\ pc = "user") =>
          /\ ret = Len(buf) /\ (last + ret = GrepSize \/ GotAll)
          /\ \A k \in 1..Len(buf) : buf[k] = TheFile[BufferStart + last + k]
    /\ at = "line" => (last = GrepSize \/ GotAll) /\ (ret = 0 => GotAll)
GrepTypeOK == arg \in Seq(Char \cup {NUL} \cup StackByte) /\ DOMAIN data = 0..GrepSize
Searching ==
    (at \in {"file_read", "file_got", "line"} /\ Exact /\ Text(TheFile)) => Searched
GrepInv == GrepTypeOK /\ Searching /\ GrepExact

\* The inductive invariant.
ProgInv == FSInv /\ ProgTypeOK /\ ProgramState /\ CommandLine /\ CommandParsed /\ Listing
           /\ ListingComplete /\ Copying /\ CatExact /\ GrepBuffer

-----------------------------------------------------------------------------
(* A statement of the repository that the code does not meet *)

\* "giving the name of the file, find the dentry that saves the file" (files.c):
\* a name that directory_read has just returned can be opened.
ListedNamesFound == at = "file_open" => Found(name)
=============================================================================
