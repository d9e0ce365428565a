# Verification of the myOS kernel

This directory holds TLA+ models of the kernel in `src/student-distrib` and of
programs that run on it (`src/syscalls`, `src/fish`), the TLC configurations
that check them on small instances, and TLAPS proofs that their safety
properties hold for every value of their parameters.

## The system

A teaching kernel for one x86 processor: at most six processes, no scheduler,
a read-only file system in a boot module, a keyboard and text screen, and the
real-time clock.

| component | source | state | operations |
|---|---|---|---|
| processes, system calls | `systemcall.c`, `handler.S` | `counter`, a PCB with descriptor table and kernel stack per slot, `arg_size`, `shell_entry_addr`, `tss.esp0` | execute, halt, read, write, open, close, getargs, vidmap, set_handler, sigreturn |
| address spaces | `mypaging.c` | `page_directories[6]`, cr3 | init_paging, create_paging, the vidmap entry |
| keyboard, terminal | `keyboard.c` | the line being typed, the completed line, `readable_flag`, `backspacable_counter` | the interrupt handler's key cases, terminal_read, terminal_write |
| screen | `lib.c` | `screen_x`, `screen_y`, video memory | putc, back_space, scrolling, clear, printf |
| interrupt controllers | `i8259.c` | `master_mask`, `slave_mask`, the chips' registers | i8259_init, enable_irq, send_eoi |
| real-time clock | `rtc.c` | `rtc_interrupt_occurred`, registers A, B, C | rtc_init, rtc_handler, rtc_read, rtc_write |
| exceptions | `idt.c` | the IDT | one handler per exception; each prints and spins |
| file system | `files.c` | the image, `entry_counter`, `length_of_file`, the positions of open files | lookups, read_data, file_load, file_read, directory_read, files_test |
| boot | `kernel.c` | | PIC, file system, clock, paging, keyboard, then `execute("shell")` |
| shell, cat, ls, grep | `syscalls/` | the line buffer, grep's buffer | loops of open, read, write, close |
| fish | `fish/fish.c`, `fish/blink.S` | an array of structures, linked into a list; video memory | add_frames, a tick, add, remove, sync |

How they meet. A program enters the kernel through `int 0x80`, an interrupt
gate, and programs run with interrupts off (execute pushes the flags after
`cli`). The only system call that turns interrupts on is `read`, so the keyboard
and clock handlers run while the kernel boots and inside reads, and nowhere
else. The handlers share the line buffers with `terminal_read` and one flag with
`rtc_read`, and Control-1, a debug key, reads a file inside the keyboard handler,
which shares `length_of_file` with the read it interrupts. Their wrappers in
`handler.S` save no registers, so an interrupted computation continues with what
the handler's last `outb` left: its EOI byte in `%eax` (0x61 after a key, 0x62
after a tick) and 0x20 in `%edx`. execute suspends its caller on the caller's kernel stack; halt resumes it from there, finding
everything it needs from the global `counter` and the PCB.

The hard parts are therefore: handlers between any two instructions of a read
or of boot's enable_irq, and the registers they leave;
the consistency of `counter`, PCBs, page directories, cr3 and tss.esp0 over long
sequences of execute and halt, failed loads included; reuse of a slot by a later
process; file contents at block boundaries and at the end of a file; names
without a terminator; the one directory position all programs share; bytes an
earlier command left behind; the cursor when erasing across wraps and scrolls; and the windows
during boot in which interrupts are on. `PROJECT.json` lists them as hazards at
their lines.

## Modules

| module | models |
|---|---|
| `ProcessTree` | the abstract specification: a chain of processes, each with a program, arguments, descriptors and a video mapping; only the last one runs |
| `Process` | the system calls and address spaces; refines `ProcessTree` |
| `Terminal` | key handling, cursor, terminal_write, and terminal_read one register load or use per step |
| `Interrupts` | the two 8259s, the clock, boot from i8259_init on, enable_irq and rtc_read one register load or use per step |
| `FileSystem` | the image, lookups, open and close, directory_read, read_data one step of its loop at a time, the kernel's own reads |
| `Programs` | the shell, execute's parsing, cat, ls and grep; composes them with `FileSystem` |
| `Blink` | fish's list of blinking characters: allocation, add, remove, sync, a tick |
| `Fish` | add_frames and main, over `Blink` |
| `MCProcess`, `MCTerminal`, `MCInterrupts`, `MCPrograms`, `MCFish` | the constants of the runs |
| `ProcessProofs`, `TerminalProofs`, `InterruptsProofs`, `FileSystemProofs` | theorems about these components and their proofs |
| `ProgramsProofs`, `GrepProofs` | theorems about a session; what grep prints |
| `BlinkProofs`, `FishProofs` | lemmas about the list of blinking characters; theorems about fish |

**Process.** One system call is one action, since interrupts cannot run during
it or, in read, touch of this state only the result and the directory's
position, while they are in `%eax`: `StrayCounts` are the numbers a handler may
put there. Slot `k` stands for
`page_directories[k-1]`, physical page `k+1` and the 8 KB block with the PCB and
the kernel stack of process `k`; an address is the slot it points into. `frame`
is what is loaded in each physical page, `kstack` the user context left on each
kernel stack, `cpu` the one running. A name is a model value; arguments are
their length; a descriptor keeps flags, operation table, name and position
(modulo the word size). Mode `fault` is a call through a NULL operation, `lost`
the return of a failed load into the wrong address space: what a program does
after that is not followed. The history variable `argOwner` says whose execute
set `arg_size`.

**Terminal.** The variables are those of `keyboard.c`; `pc` is the place in
terminal_read as the kernel is compiled (no optimisation): a load of `%eax`,
then its use. A handler is one step, as it runs with interrupts off up to its
EOI. What a handler may do to a store in flight (`clobbered`) is a choice: the
store is right, goes elsewhere in the caller's buffer, or faults. Read calls
other than terminal_read are the single place `other`, where handlers may run.
History: `origin` is the first cell of the text that can be erased, `listing`
that the kernel printed over it, `quiet` that no handler has run since the copy
began.

**Interrupts.** `mask` is the kernel's copy of the two mask bytes; `imr`, `irr`
and `isr` are the chips' registers, modelled as the hardware's (external), with
fixed priorities and the cascade on line 2. The clock raises its line once until
register C is read. A handler is one step. enable_irq is its instructions as
they are compiled: the switch's jump (`jump`), the constant and the mask in
`%eax` and `%edx` (`load`), their conjunction (`and`), its store (`store`), and
for `outb` the byte (`reload`), the port (`port`) and the instruction (`outb`). A
byte is the set of its bits, so the EOI byte a handler leaves behind is anded,
stored and sent like any mask. With a tick between load and store in
keyboard_init the kernel's mask becomes 0x20 or 0x62, which opens the timer's
line; between byte and port, 0x62 goes to the controller, which closes the
keyboard's; before `outb`, the byte goes to the command port and is an EOI; at
the switch the jump goes where an entry behind the table says (place `lost`, not
followed). `torn` records that a handler came in where enable_irq had something
in a register, `damaged` that the keyboard handler ran between rtc_read's load
and its test. Damage by interrupts to the rest of a read (its return value, its
stores) is in `Terminal` and `FileSystem` and not repeated here.

**FileSystem.** `image` is what the boot module holds: directory entries, inodes
with their block numbers, data blocks. A name is its sequence of characters and
`FieldByte` the bytes memory has at an entry, so strlen and strncmp run on where
the field has no terminator. read_data is a loop over the places `enter`
(the checks before it), `next` (its test and the end of a block), `copy`,
`result` (the count is in `length_of_file`) and `finish` (the result is in
`%eax`, until read has added it to the position). Between any two of them
`FilesTest` may run, Control-1 in the keyboard handler; an image without the file
it reads leaves it an uninitialised directory entry, so any inode. At `finish`
every handler puts its EOI byte in place of the result (`InEax`).
directory_read and rtc_read are one step each, in two forms: undisturbed, and
`DirectoryDisturbed` or `RtcDisturbed`, in which a handler has come in while the
directory's position was in `%eax` to be compared or incremented, or while the
result was. EOI bytes are larger than any directory and any name
(`FileSystemAssumption`), so a position that is one counts as the end. Block
numbers in the image may be wrong, since read_data checks them; inode numbers and
lengths are those createfs can write (`ImageOK`). History: `got` joins what the
reads of a descriptor returned, `broken` marks a descriptor one of whose reads
returned something other than the number of bytes it stored (a failure, or the
count of files_test) or had a handler come in on its `%eax`.

**Programs.** One program runs at a time, so one table of descriptors is enough.
`shellbuf` is the shell's buffer, whose bytes outlive a command; execute's two
loops over it are `CommandName` and `CommandArgs`. A step of a program is the
code between two system calls; a file read is FileSystem's steps. grep's line
loop has one step per line. What a program does after a count larger than its
buffer (Control-1 or an EOI byte during grep's reads, an EOI byte during those of
ls, which stores a newline where the count says) is the place `lost` and not
followed; cat only writes what is there. `HandlerStep` is a handler during a file
read, `Disturbed` one during another call. The
names "stdin" and "stdout", which open treats specially, are in `Process`.

**Blink, Fish.** Structures are array slots, `next` a slot or 0. `order`, `age`
and `shown` are history: the list as it should be, the ticks since a structure
changed, and whose character is at a cell. add_frames takes one step per column;
its reads are those of `FileSystem` that no handler disturbs. main's own three requests
are one script of several, so removals and synchronisations happen anywhere in
the list. Place `lost`: a structure in use was handed out again and the list is
a cycle.

The definitions headed `Wrong:` are deliberately wrong variants of the one after
them; they stand in for it when the sensitivity of a property is tested and are
used nowhere else.

## Runs

Passing:

| run | what it asks | instance |
|---|---|---|
| `process_nest` | do PCBs, page directories, cr3, esp0, images and suspended contexts stay one chain; does each step implement `ProcessTree`; what is left after a failed load | the real limit of 6 processes, two programs and one whose load fails, so every depth, the limit, and slots reused by another program occur |
| `process_fd` | are descriptor tables sound, arguments fresh, slots handed on clean; which calls reach a NULL operation | 2 processes, one free descriptor, a file, a directory, the clock, the standard streams; positions modulo 2, so they wrap; a stray count that is none of the right ones |
| `terminal_edit` | do line, erasable count and cursor agree | lines of 4 characters on a 3 by 2 screen, up to 8 erasable cells: more than the screen, so text wraps, scrolls and scrolls off |
| `terminal_read` | is a readable line whole, is the copy in bounds, is an undisturbed read exact, does a read return | lines of 2 characters, reads shorter and longer than the line, interrupts at every step, EOI bytes below and above the line length |
| `programs` | is a read the bytes of the file, does it stay in the image, do reads of a descriptor add up to the file, what may fail; which names are found; how a command is parsed; do ls, cat and grep print what they should and return | nine images: files that end in the middle and at the end of a block, with a good and a bad number behind, damaged ones, an empty one, a name that fills its field, one without the file Control-1 reads; 166,000 states |
| `fish` | does the list stay sound, the screen agree with it, each character change on its tick; is every cell of the frames shown; does fish end | 36 pairs of files, damaged and missing ones, six scripts; a 3 by 2 screen with as many structures, so memory runs out, within the frames too, and a line that is longer than the screen is wide |
| `interrupts` | does rtc_read wait for its own tick and return; is the rate the one asked for; can an interrupt without a handler be taken | timer, keyboard, disk and clock, interrupts at every register access of enable_irq and rtc_read; legal and illegal frequencies and sizes; 851,000 states |

Deadlock is checked in all of them: a kernel that spins for ever is an explicit
stuttering action (`Stopped`, `Stuck`, `Spin`).

Violations, each a statement of the repository that the code does not meet:

| run | statement | what happens |
|---|---|---|
| `halt_status` | the status is returned to the parent (`ece391syscall.h`) | the byte is read from the parent's frame; the parent sees 0 |
| `std_stream` | write on 0 and read on 1 return -1 (`ece391syserr.c`) | the kernel calls address 0 and spins in the page fault handler |
| `torn_line` | terminal_read copies the stored line and clears it (`keyboard.c`) | ENTER during the copy: bytes of one line are returned, another is cleared |
| `boot_irq` | the masks determine which interrupts are enabled (`i8259.c`) | between i8259_init and the first enable_irq all lines are open; the timer ends in undef_interrupt |
| `long_name` | the dentry of a file is found by its name (`files.c`) | a name of 32 characters runs on into the file type and is never found; the shipped image has one, where grep stops |

Three more behaviours a reader should know of are part of the passing runs. An
interrupt after a read function has loaded its result makes read return an EOI
byte and, for a file, moves the position by it (`ReadCountOrEoi` and `ReadExact`
say nothing worse happens); in directory_read it can end a listing early. An
interrupt inside enable_irq leaves a wrong mask, for the rest of the kernel's run
(`UndefOnlyInBoot` and `RtcReadReturns` hold of the boots where none came). And
read adds a failed operation's -1 to the position, so a read of no bytes moves it
back (`FileReadNothing`; `ReadsFormPrefix` holds up to there, as `broken`
records).

Bounds. `MaxBackspace` caps `backspacable_counter`, which TAB can raise without
limit; the frequencies and sizes are samples on both sides of each check.
`Programs`: names of 3 bytes, blocks of 2, files of up to 3 blocks, reads of 3
bytes and a grep buffer of 4, so that blocks, reads, buffers and lines end at
different places and also together; `MaxInterrupts` = 1 handler that disturbs a
read in a session, as one damaged count or position already leads to all its
effects, and the proofs cover any number; EOI bytes of 9 and 10, beyond the 8
directory entries, the names and the files, as 0x61 and 0x62 are beyond 63
entries and 32 characters; commands longer and shorter than a name and than each
other. `Fish`: a short has 26 values, so lengths of 0,
13 and 14 are its edges; files are short enough for their locations not to wrap
(8 bytes, 3 * 8 + 1 < 26); `WAIT` is 4 ticks and the last wait 6, enough for
both halves of a period. The proofs need none of these values.

Fairness. `Terminal`: weak fairness of the reader's steps, because the processor
executes the interrupted code between interrupts. `Interrupts`: weak fairness of
the clock (it is periodic), of the reader and of taking interrupts (the processor
does at the next instruction), and strong fairness of taking the clock's: the
keyboard has priority, but keys do not arrive so fast that it always wins.
`Programs`: weak fairness of the running program and of the read it is in, since
nothing else runs; none of the keyboard. `Fish`: weak fairness of the program,
whose waits for the clock return by `RtcReadReturns`. `Process` needs none: no liveness is claimed of programs.

## Proofs

All theorems hold for every value of the constants that satisfies the named
assumptions (`ConstantAssumption`, `TerminalAssumption`, `InterruptsAssumption`,
`FileSystemAssumption`, `ProgramsAssumption`, `BlinkAssumption`,
`FishAssumption`). Apart from types and sizes these say what images createfs
makes (`ImageOK`), that a directory entry in use has a name and the one of type
directory is ".", that ls, cat and grep load, that a command line fits the
shell's buffer, and that a file's length does not wrap a position.

*Process.* `Inv` joins the type invariant, the chain (`ProcessChain`), the images
(`RunsOwnImage`), the descriptors (`DescriptorsSound`) and the arguments
(`FreshArgSize`) with two auxiliary parts: nothing exists before the first
execute (`BootState`), and `argOwner` is never an ancestor of the running
process (`ArgOwnerOrder`; without it a halt could make an old value look fresh).
Image and chain need each other: that a load does not overwrite a suspended
program follows from each live slot mapping its own page. Each conjunct is a
theorem; `LoadFailureCorrect` and `FaultsCorrect` follow from the same invariant.
`Refinement` maps the live slots to the abstract chain and shows each action to
be an abstract one or a stutter, except a failed load; `RefinementSoundImage`
removes the exception when every executable can be loaded.

*Terminal.* `Inv` adds to the properties the loop invariant of the copy
(`CopyLoop`: index and bytes stored move together, `%eax` is what was loaded as
long as no handler ran) and `ErasableCells` (the erasable cells lie between the
line's first cell and the cursor, unless the line has scrolled to the top), which
is what makes `BackspaceStaysInLine` inductive. `WriteCorrect` and
`ReadCountCorrect` are action properties from the same invariant.

*Interrupts.* `MaskState` says which lines are masked at each place of the boot
and what enable_irq has in its registers, as long as no handler has come in
there (`torn`): the kernel's mask bytes, and the controllers' as copies of them
from the first enable_irq of each on (`CopyState`);
`WaitState` that a flag that is down, or a loaded value other than 1 that no
other handler left, means a tick. They give `UndefCorrect` and `WaitCorrect`.
`ClockState` extends `RateIsAsked` to the boot, from rtc_init on; `RateRuns`,
the arithmetic behind it, takes rtc_write's frequencies value by value.

*FileSystem.* The theorems are about `FSSpec`, in which programs open, read and
close anything in any order and handlers come in at any step of a read. `FSInv`
joins the types, what a read works on (`OpenFiles`), what it has stored
(`Stored`: i bytes, those of the file from the offset on) and the loop invariant
of read_data (`ReadLoop`: block and offset in the block are those of byte
offset + i, that block is in the image, the count in `length_of_file` is i or
files_test's, and the result one of these or an EOI byte) with `FailureHasBadBlock` and `ReadsFormPrefix`. The arithmetic
of blocks, `k \div FS_UNIT_SIZE` and `k % FS_UNIT_SIZE`, is in lemmas of its own.
`ReadsCorrect` needs `ReadLoop` at the end of each read and that lengths fit a
word, so the position does not wrap. `LookupCorrect` follows from the types of
the image alone: two names compared on the length of the longer one agree
exactly if they are equal, provided the entry's name has a terminator.

*Programs.* Every step opens, closes or reads as a step of `FSSpec` may, so
`FSInv` holds of a session too and with it FileSystem's properties
(`SessionReads`). `ProgInv` adds what lies between two commands and two reads:
the shell's buffer holds the line, a terminator, and zeros from the longest
line on (`CommandLine`, which gives `CommandParsed`); ls has printed the entries
before the directory's position, unless a handler disturbed one of its reads
(`Listing`: reading to the end, however it was brought about, puts the position
back to the start, so the next listing is whole again); cat has written what its reads
returned but for the last of them (`Copying`, which with `ReadsFormPrefix` and
`ReadLoop` gives `CatExact`); grep's line lies in the buffer (`GrepBuffer`).

For grep, `Searched` says that the buffer holds the bytes of the file from
`BufferStart` on, that every matching line before `Current` has been printed,
and that `Current` is a `Boundary`: the start or end of the file, behind a
newline, or at one. The last case is a line that fills the buffer exactly: grep
searches it without having seen its newline, and takes that for an empty line
later. A line that is not kept therefore ends at a newline or with the file
(`LineComplete`, the only place where lines must fit the buffer), and a line
that is kept becomes the start of the buffer. `LineSearched` and `OneMoreLine`
are the step from one line to the next for any sequence. Without `data[GrepSize]
# NL`, the byte behind the buffer that the code reads, the invariant fails, so
`GrepExact` has it as a condition.

*Blink, Fish.* `Chained` gives the links of the structures in `order`, which the
recursive `Walk` follows: were there a position at which it does not, the one
before the least such would have the wrong link. A sequence of different slots
is no longer than the array (`ListFits`), so the walk ends. `Displayed` and
`Counting` (the countdown is the length less the age) give `ScreenKept` and
`BlinksOnTime`; `ExpiredOnTime` has the signed comparison. `FishInv` adds
`NoneAtZero`, since a structure at location 0 counts as free while it is in use,
`Reading` and `Framing`.

`Reading` ties the row and column of add_frames to the files: a file whose line
goes on is at the byte of exactly that row and column, one whose line has ended
is behind a newline of this row or at its end. Row and column of a byte are the
number of newlines before it and the bytes since the last one; that they grow
as reading does (`RowsGrow`, `SameRow`, `NextRow`, `NextColumn`), that a place
has at most one byte (`OneHere`) and nothing behind the end of a line
(`CharsBefore`) is proved for any text. `PlaceBound`, row plus column is at most
the bytes before, keeps locations below the wrap. `Framing` says the list is
`Drawn`, the visible cells before the place of reading. `ListIs` gives each cell
its position by `Rank`, the number of visible cells read before it, so no sorted
sequence is needed; `ListAdds` is one more cell. It needs both directions of the
pigeonhole: a list shorter than the array leaves a structure free
(`MemoryLeft`), one as long leaves none (`MemoryFull`), so exactly the first
`Cells` cells get one. When both files have ended no visible cell is below the
last row, and `Drawn` is all of them: `FramesCorrect`.

`Excuse` lists what can bring location 0 about: an earlier request for it, a
damaged file, and a file so long that locations may wrap modulo a short
(above 818 bytes at the real sizes). That last case was found by the proof: no
instance of the run reaches it. `Readable`, neither damaged nor too long, is also
the condition of `FramesAdded`.

*Termination.* The prover has no fairness, but that nothing goes in circles is a
statement about steps. `ReadNearsEnd`: a read of n bytes returns after at most
2n + 4 of its own steps, and no other step that happens in between changes how
many are left. `FishNearsEnd`: with undamaged files every step of fish decreases,
in lexicographic order, the part of the program, what is left of the files, the
end of the row, the requests and the ticks. What `CommandsReturn` and `FishEnds`
add is that the steps are taken and, for commands, that the programs' own loops
end.

Only model-checked: the liveness properties `ReadReturns`, `RtcReadReturns`,
`CommandsReturn` and `FishEnds` (the prover has no fairness reasoning), and the
violations. Every other property of a passing run is the statement of a theorem.
The type invariants of `Interrupts` and `FileSystem` are proved and no run
repeats them.

## Not modelled

printf's formatting and video memory except as fish writes it; bytes around user
buffers (directory_read clears 33 bytes whatever the caller's size; ls and grep
pass 33); attribute bits of page tables and descriptors; multiboot parsing;
writes that do not leave room for a full line in the keyboard buffer (cat's own
1024 bytes with a line typed ahead).

Registers. What a handler's EOI byte does to a value in `%eax` or `%edx` is
modelled for terminal_read, enable_irq, rtc_read's test, the results of all
reads, and the directory's position where it is compared and incremented. It is
left out inside the other statements that run with interrupts on: addresses and
tests in read_data's loop and in directory_read's copy of a name (where a byte of
the caller's buffer could be wrong), the dispatch in read before the operation is
called, and, at boot, init_paging, clear_screen, the rest of keyboard_init and
execute before its `cli`. The properties about what a read stores, and about the
first process, are of executions in which no interrupt hits those.

Smaller: clear_storage_buf is two steps of `Terminal` (the bytes, the counter),
not one per byte; bytes behind the shell's 1024-byte buffer, which execute would
take for arguments when the whole buffer has no terminator, are zero; fish's exit
when vidmap fails, and an open of the clock that fails, are not modelled (neither
can happen on an image with that file); the kernel's own writes to the video page
during fish are not.

Of the programs: hello,
counter, pingpong, testprint and sigtest, which print in a straight line; syserr,
a test; emulate, which runs programs on Linux; mp1_ioctl_find and `disable_irq`,
which nothing calls; `test.c`. The system calls' own model (`Process`) lets
programs make any call with any name and keeps arguments as a length; `Programs`
has their bytes.

## Plan

A composition of `Process` with `Terminal` and the clock, in which read is the
only place where handlers run, and the proof that it keeps each component's
invariant.
