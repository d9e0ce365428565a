------------------------------ MODULE Process ------------------------------
(***************************************************************************)
(* Processes of the kernel: the system calls of systemcall.c with the page *)
(* directories of mypaging.c they switch.  One CPU, no scheduler: execute  *)
(* suspends its caller on the caller's kernel stack and enters the new     *)
(* program with iret; halt goes back there.  Every system call enters      *)
(* through an interrupt gate; of this state the interrupt handlers let in  *)
(* by read touch only its result and the directory's position, on the way  *)
(* through %eax, so one call is one step.                                  *)
(*                                                                         *)
(* Process k owns slot k: page_directories[k-1], physical 4 MB page k+1,   *)
(* and the 8 KB block BOTTOM_STACK - k*STACK_SIZE with its PCB at the      *)
(* bottom and its kernel stack above.  Addresses inside those regions are  *)
(* abstracted to the slot they fall in; 0 is "none of them".               *)
(***************************************************************************)
EXTENDS Integers, FiniteSets

CONSTANTS
    MaxProc,        \* the limit in execute, and the page directories there are
    FileArraySize,  \* descriptors per process (8)
    WordSize,       \* fileposition is a word of this many values (2^32)
    DentryNum,      \* directory entries in the file system image
    Dentries,       \* the name in each of them
    FileType,       \* name -> "rtc", "directory", "file"
    FileLength,     \* name -> length in bytes
    NameLength,     \* name -> length of the name
    Executable,     \* names whose first bytes are the ELF magic number
    Loadable,       \* those whose data blocks are all inside the image
    Shell,          \* the program kernel.c starts
    Arg,            \* argument strings, told apart by their length
    Commands,       \* names programs try to execute or open
    NBytes,         \* sizes programs pass to read, write and getargs
    StrayCounts,    \* what a handler that interrupts a read may leave in place of
                    \* its result (see Terminal, Interrupts and FileSystem)
    Status,         \* values programs pass to halt
    MaxPending,     \* typed characters terminal_write may find in its buffer
    NoFile          \* the empty name

Slots == 1..MaxProc
Fds == 0..(FileArraySize - 1)
DentryName == {Dentries[i] : i \in 1..DentryNum}
Word == 0..(WordSize - 1)

ASSUME ConstantAssumption ==
    /\ MaxProc \in Nat \ {0}
    /\ FileArraySize \in Nat /\ FileArraySize >= 2
    /\ WordSize \in Nat \ {0}
    /\ DentryNum \in Nat
    /\ NoFile \notin DentryName
    /\ FileType \in [DentryName -> {"rtc", "directory", "file"}]
    /\ FileLength \in [DentryName -> Nat]
    /\ NameLength \in [DentryName -> Nat]
    /\ Executable \subseteq DentryName
    /\ Loadable \subseteq Executable
    /\ Shell \in Loadable
    /\ Arg \subseteq Nat /\ 0 \in Arg
    /\ NBytes \subseteq Nat
    /\ StrayCounts \subseteq Nat
    /\ Status \subseteq 0..255
    /\ MaxPending \in Nat
    /\ "stdin" \notin DentryName /\ "stdout" \notin DentryName

VARIABLES
    mode,             \* "boot"; "user": a program runs; "exception", "fault": an
                      \* exception handler spins after user code, kernel code,
                      \* faulted; "lost": a program runs in an address space
                      \* that is not its own
    counter,          \* int counter
    shell_entry_addr, \* the program whose entry point it is
    arg_size,         \* int arg_size, of the last command execute parsed
    pcb,              \* slot -> pid, parent_pid, parent_kernel_sp, arg
    file_array,       \* slot -> the PCB's descriptor table
    page_directories, \* slot -> PROGRAM_IMG frame (0 none) and VIDEO_MEM entry
    cr3,              \* the slot whose page directory is loaded
    esp0,             \* the slot tss.esp0 points into
    frame,            \* physical 4 MB page -> the program loaded there
    kstack,           \* slot -> user context suspended on its kernel stack
    cpu,              \* the user context on the processor
    entry_counter,    \* directory_read's global position
    rval,             \* what the last system call returned
    argOwner          \* history: the pid whose execute set arg_size, 0 if none

vars == <<mode, counter, shell_entry_addr, arg_size, pcb, file_array,
          page_directories, cr3, esp0, frame, kstack, cpu, entry_counter,
          rval, argOwner>>

\* What only execute and halt change.
procVars == <<counter, shell_entry_addr, pcb, cr3, esp0, frame, kstack, cpu>>

FrameNum == 2..(MaxProc + 1)
NoContext == [file |-> NoFile, pid |-> 0]
Context == [file : DentryName \cup {NoFile}, pid : 0..MaxProc]
Ops == {"NULL", "stdin_t", "stdout_t", "rtc_t", "file_t", "directory_t"}
Descriptor == [flags : {0, 1}, ops : Ops,
               name : DentryName \cup {NoFile, "STDIN", "STDOUT"}, pos : Word]

\* A slot of the descriptor table that is not in use, as execute's loop and
\* close leave it.
ClosedFd == [flags |-> 0, ops |-> "NULL", name |-> NoFile, pos |-> 0]

\* The descriptor table execute gives a process (step 5).
FreshFds ==
    [fd \in Fds |->
        IF fd = 0 THEN [flags |-> 1, ops |-> "stdin_t", name |-> "STDIN", pos |-> 0]
        ELSE IF fd = 1 THEN [flags |-> 1, ops |-> "stdout_t", name |-> "STDOUT", pos |-> 0]
        ELSE ClosedFd]

\* init_paging loads the first page directory; no process has an image yet.
InitPaging ==
    /\ page_directories = [k \in Slots |-> [img |-> 0, video |-> FALSE]]
    /\ cr3 = 1

Init ==
    /\ mode = "boot"
    /\ counter = 0
    /\ shell_entry_addr = NoFile
    /\ arg_size = 0
    /\ pcb = [k \in Slots |-> [pid |-> 0, parent_pid |-> 0,
                               parent_kernel_sp |-> 0, arg |-> 0]]
    /\ file_array = [k \in Slots |-> [fd \in Fds |-> ClosedFd]]
    /\ InitPaging
    /\ esp0 = 0             \* 0x800000, just above slot 1
    /\ frame = [f \in FrameNum |-> NoFile]
    /\ kstack = [k \in Slots |-> NoContext]
    /\ cpu = NoContext
    /\ entry_counter = 0
    /\ rval = 0
    /\ argOwner = 0

Modes == {"boot", "user", "exception", "fault", "lost"}

-----------------------------------------------------------------------------
(* execute *)

\* The slot whose kernel stack execute runs on: the boot stack ends at
\* 0x800000, inside slot 1; int 0x80 switches to tss.esp0.
CallerStack == IF mode = "boot" THEN 1 ELSE esp0

\* Wrong: the image one 4 MB page too high; the old VIDEO_MEM entry kept.
PagingTooHigh(process) == [img |-> process + 2, video |-> FALSE]
PagingNotCleared(process) ==
    [img |-> process + 1, video |-> page_directories[process].video]

\* create_paging: the page directory of a process, cleared, with its image.
PagingOf(process) == [img |-> process + 1, video |-> FALSE]

\* Wrong: the command is parsed, here to no arguments, before it is refused.
ExecuteParsesAtLimit ==
    /\ mode = "user"
    /\ counter >= MaxProc
    /\ arg_size' = 0
    /\ rval' = -1
    /\ UNCHANGED <<mode, procVars, file_array, page_directories, entry_counter,
                   argOwner>>

\* More than MaxProc processes: refused before anything is parsed.
ExecuteAtLimit ==
    /\ mode = "user"
    /\ counter >= MaxProc
    /\ rval' = -1
    /\ UNCHANGED <<mode, procVars, arg_size, file_array, page_directories,
                   entry_counter, argOwner>>

\* A NULL command.
ExecuteNull ==
    /\ mode = "user"
    /\ counter < MaxProc
    /\ rval' = -1
    /\ UNCHANGED <<mode, procVars, arg_size, file_array, page_directories,
                   entry_counter, argOwner>>

\* The arguments are parsed into the global arg_size, then the name turns out
\* to be no executable file.
ExecuteNotFound(command, a) ==
    /\ mode = "user"
    /\ counter < MaxProc
    /\ command \notin Executable
    /\ arg_size' = a
    /\ argOwner' = 0
    /\ rval' = -1
    /\ UNCHANGED <<mode, procVars, file_array, page_directories, entry_counter>>

\* Wrong: the program is loaded before the address space is switched.
LoadBeforeSwitch(dirs, dir, f) == [frame EXCEPT ![dirs[cr3].img] = f]

\* file_load writes through the address space create_paging has just loaded.
Load(dirs, dir, f) == [frame EXCEPT ![dirs[dir].img] = f]

\* The program is loaded, gets slot counter+1 and is entered with iret; the
\* caller's user context stays on the caller's kernel stack.  Boot's command has
\* no blank, so its arguments are whatever lies behind the literal.
ExecuteProgram(command, a) ==
    LET c == counter + 1
    IN  /\ mode \in {"boot", "user"}
        /\ mode = "boot" => command = Shell
        /\ counter < MaxProc
        /\ command \in Loadable
        /\ arg_size' = a
        /\ argOwner' = c
        /\ counter' = c
        /\ shell_entry_addr' = IF c = 1 THEN command ELSE shell_entry_addr
        /\ page_directories' = [page_directories EXCEPT ![c] = PagingOf(c)]
        /\ cr3' = c
        /\ frame' = Load(page_directories', cr3', command)
        /\ pcb' = [pcb EXCEPT ![c] =
                     [pid |-> c,
                      parent_pid |-> IF c = 1 THEN 0 ELSE pcb[CallerStack].pid,
                      parent_kernel_sp |-> CallerStack,
                      arg |-> a]]
        /\ file_array' = [file_array EXCEPT ![c] = FreshFds]
        /\ esp0' = c
        /\ kstack' = [kstack EXCEPT ![CallerStack] = cpu]
        /\ cpu' = [file |-> command, pid |-> c]
        /\ mode' = "user"
        /\ UNCHANGED <<entry_counter, rval>>

\* file_load fails half way: execute returns -1, but counter and cr3 are
\* already the new process's and nothing puts them back.
ExecuteLoadFails(command, a) ==
    LET c == counter + 1
    IN  /\ mode = "user"
        /\ counter < MaxProc
        /\ command \in Executable \ Loadable
        /\ arg_size' = a
        /\ argOwner' = 0
        /\ counter' = c
        /\ page_directories' = [page_directories EXCEPT ![c] = PagingOf(c)]
        /\ cr3' = c
        /\ frame' = Load(page_directories', cr3', NoFile)
        /\ rval' = -1
        /\ mode' = "lost"
        /\ UNCHANGED <<shell_entry_addr, pcb, file_array, esp0, kstack, cpu,
                       entry_counter>>

-----------------------------------------------------------------------------
(* halt *)

\* Wrong: every halt enters the shell again.
HaltAlwaysShell ==
    /\ mode = "user"
    /\ cpu' = [file |-> shell_entry_addr, pid |-> 1]
    /\ UNCHANGED <<mode, counter, shell_entry_addr, arg_size, pcb, file_array,
                   page_directories, cr3, esp0, frame, kstack, entry_counter,
                   rval, argOwner>>

\* Process 1 is entered again at shell_entry_addr; nothing is reset but the
\* screen.
HaltShell ==
    /\ mode = "user"
    /\ pcb[counter].pid = 1
    /\ cpu' = [file |-> shell_entry_addr, pid |-> 1]
    /\ UNCHANGED <<mode, counter, shell_entry_addr, arg_size, pcb, file_array,
                   page_directories, cr3, esp0, frame, kstack, entry_counter,
                   rval, argOwner>>

\* What the parent's execute returns.  halt moves its status into %al after it
\* has loaded the parent's %ebp, so the byte comes from execute's frame: the
\* top byte of a pointer into the kernel image, which is below 16 MB.
ReturnedByte(status) == 0

\* Wrong: tss.esp0 still points to the halted process's kernel stack.
HaltChildKeepsTss(status) ==
    LET p == pcb[counter]
    IN  /\ mode = "user"
        /\ p.pid # 1
        /\ counter' = counter - 1
        /\ cr3' = p.parent_pid
        /\ cpu' = kstack[p.parent_kernel_sp]
        /\ kstack' = [kstack EXCEPT ![p.parent_kernel_sp] = NoContext]
        /\ rval' = ReturnedByte(status)
        /\ UNCHANGED <<mode, shell_entry_addr, arg_size, pcb, file_array, esp0,
                       page_directories, frame, entry_counter, argOwner>>

\* Any other process: back to the parent's address space and kernel stack,
\* from which haltlabel's leave, ret and iret resume the parent.
HaltChild(status) ==
    LET p == pcb[counter]
    IN  /\ mode = "user"
        /\ p.pid # 1
        /\ counter' = counter - 1
        /\ cr3' = p.parent_pid
        /\ esp0' = counter - 1
        /\ cpu' = kstack[p.parent_kernel_sp]
        /\ kstack' = [kstack EXCEPT ![p.parent_kernel_sp] = NoContext]
        /\ rval' = ReturnedByte(status)
        /\ UNCHANGED <<mode, shell_entry_addr, arg_size, pcb, file_array,
                       page_directories, frame, entry_counter, argOwner>>

Halt(status) == HaltShell \/ HaltChild(status)

-----------------------------------------------------------------------------
(* Descriptors: open, close, read and write dispatch on the running process's *)
(* descriptor table, the one at slot counter.                                 *)

Running == file_array[counter]
InUse(fd) == fd \in Fds /\ Running[fd].flags = 1
SetFd(fd, d) == file_array' = [file_array EXCEPT ![counter][fd] = d]

\* Wrong: a table for files without a write entry.
HasWriteNoFiles(ops) == ops \in {"stdout_t", "rtc_t"}

\* The operation tables' entries that are not NULL.
HasRead(ops) == ops \in {"stdin_t", "rtc_t", "file_t", "directory_t"}
HasWrite(ops) == ops \in {"stdout_t", "rtc_t", "file_t", "directory_t"}
HasClose(ops) == ops \in {"rtc_t", "file_t", "directory_t"}

OpsOf(type) == CASE type = "file" -> "file_t"
                 [] type = "directory" -> "directory_t"
                 [] type = "rtc" -> "rtc_t"

\* Calls through a NULL pointer end in excep_PF, which never returns.
CallNull ==
    /\ mode' = "fault"
    /\ UNCHANGED <<procVars, arg_size, file_array, page_directories,
                   entry_counter, rval, argOwner>>

\* A call that only returns a value.
Return(v) ==
    /\ rval' = v
    /\ UNCHANGED <<mode, procVars, arg_size, file_array, page_directories,
                   entry_counter, argOwner>>

\* "stdin" and "stdout" are compared on five characters and both return 0.
OpenStdStream(name) ==
    /\ mode = "user"
    /\ \/ name = "stdin" /\ SetFd(0, [Running[0] EXCEPT !.ops = "stdin_t", !.flags = 1])
       \/ name = "stdout" /\ SetFd(1, [Running[1] EXCEPT !.ops = "stdout_t", !.flags = 1])
    /\ rval' = 0
    /\ UNCHANGED <<mode, procVars, arg_size, page_directories, entry_counter,
                   argOwner>>

VacantFds == {fd \in Fds : fd >= 2 /\ Running[fd].flags = 0}

OpenFile(name) ==
    /\ mode = "user"
    /\ name \in DentryName
    /\ \E fd \in VacantFds :
          /\ \A other \in VacantFds : fd <= other
          /\ SetFd(fd, [flags |-> 1, ops |-> OpsOf(FileType[name]),
                        name |-> name, pos |-> 0])
          /\ rval' = fd
    /\ UNCHANGED <<mode, procVars, arg_size, page_directories, entry_counter,
                   argOwner>>

OpenFails(name) ==
    /\ mode = "user"
    /\ name \notin {"stdin", "stdout"}
    /\ name \notin DentryName \/ VacantFds = {}
    /\ Return(-1)

Open(name) == OpenStdStream(name) \/ OpenFile(name) \/ OpenFails(name)

\* Wrong: the descriptor is marked free but keeps its file.
CloseKeepsFile(fd) ==
    /\ mode = "user"
    /\ fd >= 2 /\ InUse(fd)
    /\ SetFd(fd, [Running[fd] EXCEPT !.flags = 0])
    /\ rval' = 0
    /\ UNCHANGED <<mode, procVars, arg_size, page_directories, entry_counter,
                   argOwner>>

\* rtc_close, file_close and directory_close only return 0.
Close(fd) ==
    /\ mode = "user"
    /\ \/ (fd < 2 \/ ~InUse(fd)) /\ Return(-1)
       \/ /\ fd >= 2 /\ InUse(fd) /\ HasClose(Running[fd].ops)
          /\ SetFd(fd, ClosedFd)
          /\ rval' = 0
          /\ UNCHANGED <<mode, procVars, arg_size, page_directories,
                         entry_counter, argOwner>>
       \/ fd >= 2 /\ InUse(fd) /\ ~HasClose(Running[fd].ops) /\ CallNull

\* file_read: the file is looked up by the descriptor's name at every call.
FileRead(name, pos, n) ==
    IF n = 0 THEN -1
    ELSE IF pos >= FileLength[name] THEN 0
    ELSE IF n <= FileLength[name] - pos THEN n ELSE FileLength[name] - pos

\* directory_read returns a name's length, or 0 at the end of the directory.
DirectoryRead ==
    IF entry_counter >= DentryNum THEN 0 ELSE NameLength[Dentries[entry_counter + 1]]
NextEntry == IF entry_counter >= DentryNum THEN 0 ELSE entry_counter + 1

\* Its position after a handler has come in: that, the start, or a number the
\* handler left, incremented or not.
NextEntries == {NextEntry, 0} \cup StrayCounts \cup {n + 1 : n \in StrayCounts}

\* The values the descriptor's read function can return.  terminal_read
\* returns what has been typed, up to n bytes, or -1 (see Terminal); rtc_read
\* returns 0 after a tick (see Interrupts); a file with a block outside the
\* image may also fail; and a handler may replace any of them.
Results(d, n) ==
    CASE d.ops = "stdin_t" -> -1..n
      [] d.ops = "rtc_t" -> {0}
      [] d.ops = "file_t" -> {FileRead(d.name, d.pos, n)}
                             \cup {v \in {-1} : d.name \notin Loadable}
      [] d.ops = "directory_t" -> {DirectoryRead, 0}
ReadResults(d, n) == Results(d, n) \cup StrayCounts

\* fileposition is advanced by whatever came back, -1 included.
Advance(pos, bytes) == (pos + bytes) % WordSize

ReadDispatch(fd, n) ==
    LET d == Running[fd]
    IN  /\ HasRead(d.ops)
        /\ \E bytes \in ReadResults(d, n) :
              /\ SetFd(fd, [d EXCEPT !.pos = Advance(d.pos, bytes)])
              /\ rval' = bytes
        /\ entry_counter' \in IF d.ops = "directory_t" THEN NextEntries ELSE {entry_counter}
        /\ UNCHANGED <<mode, procVars, arg_size, page_directories, argOwner>>

Read(fd, n) ==
    /\ mode = "user"
    /\ \/ Return(-1)                 \* buf is NULL
       \/ ~InUse(fd) /\ Return(-1)
       \/ InUse(fd) /\ ReadDispatch(fd, n)
       \/ InUse(fd) /\ ~HasRead(Running[fd].ops) /\ CallNull

\* terminal_write returns what it printed, pending typed characters included;
\* rtc_write takes four bytes that hold a rate it knows; files are read only.
WriteResults(d, n) ==
    CASE d.ops = "stdout_t" -> n..(n + MaxPending)
      [] d.ops = "rtc_t" -> IF n = 4 THEN {-1, n} ELSE {-1}
      [] d.ops \in {"file_t", "directory_t"} -> {-1}

Write(fd, n) ==
    /\ mode = "user"
    /\ \/ Return(-1)                 \* buf is NULL
       \/ ~InUse(fd) /\ Return(-1)
       \/ /\ InUse(fd) /\ HasWrite(Running[fd].ops)
          /\ \E bytes \in WriteResults(Running[fd], n) : Return(bytes)
       \/ InUse(fd) /\ ~HasWrite(Running[fd].ops) /\ CallNull

-----------------------------------------------------------------------------
(* getargs, vidmap and the calls that are not implemented *)

\* The size is compared with the global arg_size, the bytes come from the PCB.
Getargs(n) ==
    /\ mode = "user"
    /\ \/ Return(-1)                 \* buf is NULL
       \/ Return(IF n < arg_size THEN -1 ELSE 0)

\* The pointer must lie in the program's 4 MB; the entry goes into the page
\* directory of slot counter.
Vidmap(inUserPage) ==
    /\ mode = "user"
    /\ \/ ~inUserPage /\ Return(-1)
       \/ /\ inUserPage
          /\ page_directories' = [page_directories EXCEPT ![counter].video = TRUE]
          /\ rval' = 0
          /\ UNCHANGED <<mode, procVars, arg_size, file_array, entry_counter,
                         argOwner>>

\* set_handler, sigreturn, and numbers asm_linkage refuses.
Unsupported == mode = "user" /\ Return(-1)

\* A program divides by zero, touches a page it has not got, ...: the handler
\* prints a line and spins with interrupts off.
UserException ==
    /\ mode = "user"
    /\ mode' = "exception"
    /\ UNCHANGED <<procVars, arg_size, file_array, page_directories,
                   entry_counter, rval, argOwner>>

\* No step leaves these modes.
Stopped == mode \in {"exception", "fault", "lost"} /\ UNCHANGED vars

Next ==
    \/ ExecuteAtLimit
    \/ ExecuteNull
    \/ \E command \in Commands, a \in Arg :
          ExecuteNotFound(command, a) \/ ExecuteLoadFails(command, a)
    \/ \E command \in Commands \cup {Shell}, a \in Arg : ExecuteProgram(command, a)
    \/ \E status \in Status : Halt(status)
    \/ \E name \in Commands : Open(name)
    \/ \E fd \in (-1)..FileArraySize : Close(fd)
    \/ \E fd \in (-1)..FileArraySize, n \in NBytes : Read(fd, n) \/ Write(fd, n)
    \/ \E n \in NBytes : Getargs(n)
    \/ \E inUserPage \in BOOLEAN : Vidmap(inUserPage)
    \/ Unsupported
    \/ UserException
    \/ Stopped

Spec == Init /\ [][Next]_vars

-----------------------------------------------------------------------------
(* Correctness *)

\* Every variable keeps the shape its C declaration gives it; in particular
\* counter never passes the page directories there are, and cr3 and esp0 never
\* leave the slots.
TypeOK ==
    /\ mode \in Modes
    /\ counter \in 0..MaxProc
    /\ shell_entry_addr \in DentryName \cup {NoFile}
    /\ arg_size \in Arg
    /\ pcb \in [Slots -> [pid : 0..MaxProc, parent_pid : 0..MaxProc,
                          parent_kernel_sp : 0..MaxProc, arg : Arg]]
    /\ file_array \in [Slots -> [Fds -> Descriptor]]
    /\ page_directories \in [Slots -> [img : FrameNum \cup {0}, video : BOOLEAN]]
    /\ cr3 \in Slots
    /\ esp0 \in 0..MaxProc
    /\ frame \in [FrameNum -> DentryName \cup {NoFile}]
    /\ kstack \in [Slots -> Context]
    /\ cpu \in Context
    /\ entry_counter \in Nat
    /\ rval \in Int
    /\ argOwner \in 0..MaxProc

\* The first process is running and the kernel has lost track of none.
Live == mode \in {"user", "exception", "fault"}

\* The processes alive are 1..counter, each the child of the one before it and
\* suspended on that one's kernel stack; the last one's page directory and
\* kernel stack are the ones the processor uses.  This is what halt relies on
\* when it finds the PCB from counter and the address space from parent_pid,
\* and what makes "counter" the running process in open, read and vidmap.
ProcessChain ==
    Live =>
        /\ counter >= 1
        /\ cr3 = counter
        /\ esp0 = counter
        /\ \A k \in 1..counter :
              /\ pcb[k].pid = k
              /\ pcb[k].parent_pid = k - 1
              /\ pcb[k].parent_kernel_sp = IF k = 1 THEN 1 ELSE k - 1
              /\ page_directories[k].img = k + 1

\* Whatever has been executed and halted, the code under the program counter
\* is the program that the loaded page directory maps, the contexts suspended
\* on the kernel stacks are still over their own images (no later load has
\* overwritten one), and the shell halt restarts is the image in slot 1.
RunsOwnImage ==
    Live =>
        /\ cpu = [file |-> frame[page_directories[cr3].img], pid |-> counter]
        /\ \A k \in 1..(counter - 1) :
              kstack[k] = [file |-> frame[page_directories[k].img], pid |-> k]
        /\ shell_entry_addr = frame[page_directories[1].img]

\* In a live process descriptors 0 and 1 are the terminal, a descriptor in use
\* dispatches to the operations of the type of the file it names, and one not
\* in use holds nothing of an earlier file or of an earlier process in the slot.
DescriptorsSound ==
    Live =>
        \A k \in 1..counter, fd \in Fds :
            LET d == file_array[k][fd]
            IN  /\ fd = 0 => d.flags = 1 /\ d.ops = "stdin_t"
                /\ fd = 1 => d.flags = 1 /\ d.ops = "stdout_t"
                /\ fd >= 2 => \/ d = ClosedFd
                              \/ /\ d.flags = 1
                                 /\ d.name \in DentryName
                                 /\ d.ops = OpsOf(FileType[d.name])

\* The only system calls that take the kernel through a NULL operation pointer
\* are write on descriptor 0 and read on descriptor 1, whatever has been opened
\* and closed before.
FaultsOnlyOnStdStreams ==
    mode = "user" =>
        \A fd \in Fds :
            InUse(fd) => /\ fd # 1 => HasRead(Running[fd].ops)
                         /\ fd # 0 => HasWrite(Running[fd].ops)
                         /\ fd >= 2 => HasClose(Running[fd].ops)

\* getargs compares the caller's size with the global arg_size.  For a process
\* that has not called execute since it was started that is the length of its
\* own arguments.
FreshArgSize ==
    (Live /\ argOwner = counter) => arg_size = pcb[counter].arg

\* What the invariants above rest on: there is no process before the first
\* execute, and arg_size was set by the running process's execute, by one of a
\* process that has halted since, or by a failed one.
BootState == mode = "boot" => counter = 0 /\ argOwner = 0
ArgOwnerOrder == Live => argOwner = 0 \/ argOwner >= counter

\* The inductive invariant.
Inv == /\ TypeOK /\ BootState /\ ProcessChain /\ RunsOwnImage
       /\ DescriptorsSound /\ ArgOwnerOrder /\ FreshArgSize

\* The chain of processes as ProcessTree sees it.
Procs ==
    [k \in 1..counter |->
        [prog |-> frame[page_directories[k].img], arg |-> pcb[k].arg,
         fds |-> file_array[k], video |-> page_directories[k].video]]

Tree == INSTANCE ProcessTree
            WITH Program <- Loadable, NoProgram <- NoFile,
                 procs <- Procs, depth <- counter

\* The system calls implement the abstract chain of processes: a new process
\* starts with fresh descriptors and no video page whatever its slot was used
\* for before, a suspended process is not touched, and halt resumes the parent.
\* A damaged image that makes file_load fail ends the correspondence; with
\* Executable = Loadable no step does, and this is Tree!ASpec.
RefinesTree ==
    Tree!AInit /\ [][Tree!ANext \/ mode' = "lost"]_(Tree!avars)

\* After a failed load everything but counter and cr3 still describes the
\* caller: its PCB, its kernel stack, its image and those of its ancestors.
LoadFailureRepairable ==
    mode = "lost" =>
        LET c == counter - 1
        IN  /\ c >= 1 /\ esp0 = c
            /\ cpu = [file |-> frame[page_directories[c].img], pid |-> c]
            /\ \A k \in 1..c : pcb[k].pid = k /\ pcb[k].parent_pid = k - 1
            /\ \A k \in 1..(c - 1) :
                  kstack[k] = [file |-> frame[page_directories[k].img], pid |-> k]

-----------------------------------------------------------------------------
(* Statements of the repository that the code does not meet *)

\* "the low byte of EBX (the status argument) is returned to the calling task"
\* (syscalls/ece391syscall.h).
HaltStatusReturned ==
    [][\A status \in Status : HaltChild(status) => rval' = status]_vars

\* TEST 7 of syscalls/ece391syserr.c: write on descriptor 0 and read on
\* descriptor 1 return -1.
StdStreamMisuseReturns == mode # "fault"
=============================================================================
