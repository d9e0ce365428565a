------------------------------ MODULE Terminal ------------------------------
(***************************************************************************)
(* The terminal: the keyboard interrupt handler and its line buffers       *)
(* (keyboard.c), the cursor (lib.c), terminal_write, and terminal_read as  *)
(* the interrupt handlers see it.                                          *)
(*                                                                         *)
(* System calls enter through an interrupt gate and programs run with      *)
(* interrupts off; only read executes sti.  So the handlers run between    *)
(* the steps of a read and nowhere else: terminal_write is one step, and   *)
(* terminal_read is one step per load of a register and per use of it, as  *)
(* the kernel is compiled (no optimisation).  keyboard_helper and          *)
(* rtc_helper save no register: a handler returns with %eax holding the    *)
(* last EOI byte and %edx a port number, and the interrupted code goes on  *)
(* with those.                                                             *)
(***************************************************************************)
EXTENDS Integers, Sequences

CONSTANTS
    Char,       \* characters the keyboard tables can produce
    NUL, NL,    \* the zero byte and the newline
    LineMax,    \* characters a line can hold (128)
    BufSize,    \* BUF_SIZE (1024)
    NumCols,    \* 80
    NumRows,    \* 25
    KBD_EOI,    \* 0x61, what keyboard_interrupt_handler leaves in %eax
    RTC_EOI,    \* 0x62, what rtc_handler leaves there
    ReadSizes,  \* nbytes of terminal reads
    WriteSizes, \* nbytes of terminal writes
    MaxBackspace \* bound of the model on backspacable_counter

ASSUME TerminalAssumption ==
    /\ NL \notin Char /\ NUL # NL
    /\ LineMax \in Nat \ {0}
    /\ BufSize \in Nat /\ BufSize > LineMax
    /\ NumCols \in Nat \ {0} /\ NumRows \in Nat \ {0}
    /\ KBD_EOI \in 1..(BufSize - 1) /\ RTC_EOI \in 1..(BufSize - 1)
    /\ ReadSizes \subseteq Nat
    /\ WriteSizes \subseteq 0..BufSize   \* a longer write overruns buffer
    /\ MaxBackspace \in Nat

VARIABLES
    buffer, buffer_content_counter,          \* the line being typed
    storage_buffer, storage_buffer_counter,  \* the line ENTER completed
    readable_flag,
    backspacable_counter,
    ctrl_left_flag,
    screen_x, screen_y,
    pc,         \* where the read is; "user": no read, interrupts off;
                \* "other": interrupts on, but not in terminal_read
    nbytes, i,  \* terminal_read's parameter and loop index
    ubuf,       \* what it has stored in the caller's buffer
    eax,        \* %eax of terminal_read
    clobbered,  \* a handler has overwritten the address a store is about to use
    rval,       \* what the last read or write returned, 0 during a read
    origin,     \* history: the cell where the text that can be erased begins
    listing,    \* history: the kernel has printed something since then
    quiet       \* history: no handler has run since the copy loop began

kbdVars == <<buffer, buffer_content_counter, storage_buffer,
             storage_buffer_counter, readable_flag, backspacable_counter,
             ctrl_left_flag, screen_x, screen_y, origin, listing>>
readVars == <<pc, nbytes, i, ubuf, rval>>
vars == <<kbdVars, readVars, eax, clobbered, quiet>>

Index == 0..(BufSize - 1)
Byte == Char \cup {NUL, NL}
Empty == [k \in Index |-> NUL]
Stray == "stray"     \* a byte of the caller's buffer that was not stored

-----------------------------------------------------------------------------
(* The cursor: putc, back_space and clear of lib.c.  A cursor is <<x, y>>.  *)

Pos == NumCols * screen_y + screen_x

\* Wrong: the screen scrolls one row late.
ScrollLate(y) == IF y > NumRows THEN y - 1 ELSE y

\* terminal_scroll_down moves the rows, and the cursor, up by one.
Scroll(y) == IF y >= NumRows THEN (IF y > 0 THEN y - 1 ELSE y) ELSE y
Scrolls(y) == y >= NumRows

\* putc of a printable character: the next cell, wrapping and scrolling.
RowAfterChar == screen_y + ((screen_x + 1) \div NumCols)
Putc ==
    /\ screen_x' = (screen_x + 1) % NumCols
    /\ screen_y' = Scroll(RowAfterChar)

\* Wrong: one blank for a tab that counts as two.
PutcOnce == Putc

\* Two blanks for a tab.
RowAfterTab ==
    LET x == (screen_x + 1) % NumCols
    IN  Scroll(RowAfterChar) + ((x + 1) \div NumCols)
PutcTwice ==
    /\ screen_x' = (((screen_x + 1) % NumCols) + 1) % NumCols
    /\ screen_y' = Scroll(RowAfterTab)

\* putc('\n').
PutcNewline ==
    /\ screen_x' = 0
    /\ screen_y' = Scroll(screen_y + 1)

\* back_space: the previous cell, but nothing at the upper left corner.
BackSpace ==
    IF screen_x = 0
    THEN IF screen_y = 0
         THEN UNCHANGED <<screen_x, screen_y>>
         ELSE screen_x' = NumCols - 1 /\ screen_y' = screen_y - 1
    ELSE screen_x' = screen_x - 1 /\ UNCHANGED screen_y

ClearScreen == screen_x' = 0 /\ screen_y' = 0

\* Text of unknown length and content has been printed.
PrintText == screen_x' \in 0..(NumCols - 1) /\ screen_y' \in 0..(NumRows - 1)

\* The line's first cell scrolls with the screen, at most to the top.
OriginScrolled(rows) ==
    IF origin >= rows * NumCols THEN origin - rows * NumCols ELSE 0

\* The text that can be erased now begins at the cursor.
LineStartsHere == origin' = NumCols * screen_y' + screen_x' /\ listing' = FALSE

-----------------------------------------------------------------------------
(* The interrupt handlers *)

InterruptsOn == pc \notin {"user", "fault"}

\* What a handler does to the code it interrupted.
Clobber(eoi) ==
    /\ InterruptsOn
    /\ eax' = IF pc = "other" THEN eax ELSE eoi
    /\ clobbered' = (clobbered \/ pc \in {"copy", "ret", "other"})
    /\ quiet' = (pc = "other")
    /\ UNCHANGED readVars

\* keyboard_init
Init ==
    /\ buffer = Empty /\ buffer_content_counter = 0
    /\ storage_buffer = Empty /\ storage_buffer_counter = 0
    /\ readable_flag = 0
    /\ backspacable_counter = 0
    /\ ctrl_left_flag = 0
    /\ screen_x = 0 /\ screen_y = 0
    /\ pc = "other"             \* the kernel boots with interrupts on
    /\ nbytes = 0 /\ i = 0 /\ ubuf = <<>>
    /\ eax = 0 /\ clobbered = FALSE
    /\ rval = 0
    /\ origin = 0 /\ listing = FALSE /\ quiet = TRUE

\* Control pressed or released.
CtrlKey ==
    /\ Clobber(KBD_EOI)
    /\ ctrl_left_flag' = 1 - ctrl_left_flag
    /\ UNCHANGED <<buffer, buffer_content_counter, storage_buffer,
                   storage_buffer_counter, readable_flag,
                   backspacable_counter, screen_x, screen_y, origin, listing>>

\* Control-L clears the screen and both buffers, but not readable_flag.
CtrlL ==
    /\ Clobber(KBD_EOI)
    /\ ctrl_left_flag = 1
    /\ ClearScreen
    /\ buffer' = Empty /\ buffer_content_counter' = 0
    /\ backspacable_counter' = 0
    /\ storage_buffer' = Empty /\ storage_buffer_counter' = 0
    /\ LineStartsHere
    /\ UNCHANGED <<readable_flag, ctrl_left_flag>>

\* Control-1, -2 and -3 clear the screen and print something about the file
\* system; the line being typed is kept.
DebugKey ==
    /\ Clobber(KBD_EOI)
    /\ ctrl_left_flag = 1
    /\ PrintText
    /\ origin' = 0 /\ listing' = TRUE
    /\ UNCHANGED <<buffer, buffer_content_counter, storage_buffer,
                   storage_buffer_counter, readable_flag,
                   backspacable_counter, ctrl_left_flag>>

\* Wrong: the old line is not cleared first.
StoredLineOverOld ==
    [k \in Index |-> IF k < buffer_content_counter THEN buffer[k]
                     ELSE IF k = buffer_content_counter THEN NL ELSE storage_buffer[k]]

\* The storage buffer after ENTER: the typed characters and a newline.
StoredLine ==
    [k \in Index |-> IF k < buffer_content_counter THEN buffer[k]
                     ELSE IF k = buffer_content_counter THEN NL ELSE NUL]

Enter ==
    /\ Clobber(KBD_EOI)
    /\ PutcNewline
    /\ backspacable_counter' = 0
    /\ storage_buffer' = StoredLine
    /\ storage_buffer_counter' = buffer_content_counter + 1
    /\ readable_flag' = 1
    /\ buffer' = Empty /\ buffer_content_counter' = 0
    /\ LineStartsHere
    /\ UNCHANGED ctrl_left_flag

\* Wrong: the character disappears from the screen only.
EraseCharOnScreen == UNCHANGED <<buffer, buffer_content_counter>>

\* BACKSPACE erases a cell, and the last character typed if there is one.
EraseChar ==
    IF buffer_content_counter > 0
    THEN /\ buffer_content_counter' = buffer_content_counter - 1
         /\ buffer' = [buffer EXCEPT ![buffer_content_counter - 1] = NUL]
    ELSE UNCHANGED <<buffer, buffer_content_counter>>

Backspace ==
    /\ Clobber(KBD_EOI)
    /\ backspacable_counter > 0
    /\ BackSpace
    /\ backspacable_counter' = backspacable_counter - 1
    /\ EraseChar
    /\ UNCHANGED <<storage_buffer, storage_buffer_counter, readable_flag,
                   ctrl_left_flag, origin, listing>>

\* TAB echoes two blanks and puts nothing into the line.
Tab ==
    /\ Clobber(KBD_EOI)
    /\ backspacable_counter + 2 <= MaxBackspace
    /\ PutcTwice
    /\ backspacable_counter' = backspacable_counter + 2
    /\ origin' = OriginScrolled((IF Scrolls(RowAfterChar) THEN 1 ELSE 0)
                                + (IF Scrolls(RowAfterTab) THEN 1 ELSE 0))
    /\ UNCHANGED <<buffer, buffer_content_counter, storage_buffer,
                   storage_buffer_counter, readable_flag, ctrl_left_flag,
                   listing>>

\* A character key while the line has room; Shift and Caps Lock choose the
\* table, so any character of the tables.
Letter(c) ==
    /\ Clobber(KBD_EOI)
    /\ buffer_content_counter < LineMax
    /\ backspacable_counter + 1 <= MaxBackspace
    /\ Putc
    /\ buffer' = [buffer EXCEPT ![buffer_content_counter] = c]
    /\ buffer_content_counter' = buffer_content_counter + 1
    /\ backspacable_counter' = backspacable_counter + 1
    /\ origin' = OriginScrolled(IF Scrolls(RowAfterChar) THEN 1 ELSE 0)
    /\ UNCHANGED <<storage_buffer, storage_buffer_counter, readable_flag,
                   ctrl_left_flag, listing>>

\* Key releases, Shift, Caps Lock, function keys, BACKSPACE with nothing to
\* erase and characters beyond the end of a full line.
IgnoredKey == Clobber(KBD_EOI) /\ UNCHANGED kbdVars

\* rtc_handler, as far as the terminal can tell.
RtcTick == Clobber(RTC_EOI) /\ UNCHANGED kbdVars

Interrupt ==
    \/ CtrlKey \/ CtrlL \/ DebugKey \/ Enter \/ Backspace \/ Tab
    \/ IgnoredKey \/ RtcTick
    \/ \E c \in Char : Letter(c)

-----------------------------------------------------------------------------
(* The running program: writes, and reads of other descriptors *)

\* Wrong: the counter is left at what was printed.
WriteKeepsCount(n) ==
    LET printed == n + buffer_content_counter
    IN  /\ pc = "user"
        /\ IF printed = 0 THEN UNCHANGED <<screen_x, screen_y>> ELSE PrintText
        /\ buffer' = Empty /\ buffer_content_counter' = printed
        /\ backspacable_counter' = 0
        /\ rval' = printed
        /\ LineStartsHere
        /\ UNCHANGED <<storage_buffer, storage_buffer_counter, readable_flag,
                       ctrl_left_flag, pc, nbytes, i, ubuf, eax, clobbered,
                       quiet>>

\* terminal_write puts its bytes at the start of the line buffer but counts
\* them after the characters typed so far, prints that many and clears it all.
Write(n) ==
    LET printed == n + buffer_content_counter
    IN  /\ pc = "user"
        /\ IF printed = 0 THEN UNCHANGED <<screen_x, screen_y>> ELSE PrintText
        /\ buffer' = Empty /\ buffer_content_counter' = 0
        /\ backspacable_counter' = 0
        /\ rval' = printed
        /\ LineStartsHere
        /\ UNCHANGED <<storage_buffer, storage_buffer_counter, readable_flag,
                       ctrl_left_flag, pc, nbytes, i, ubuf, eax, clobbered,
                       quiet>>

\* The shell halts: its screen is cleared, the line being typed is kept.
ShellRestart ==
    /\ pc = "user"
    /\ ClearScreen
    /\ origin' = 0
    /\ UNCHANGED <<buffer, buffer_content_counter, storage_buffer,
                   storage_buffer_counter, readable_flag, backspacable_counter,
                   ctrl_left_flag, listing, readVars, eax, clobbered, quiet>>

\* execute refuses a seventh process with a printf.
KernelMessage ==
    /\ pc = "user"
    /\ PrintText
    /\ origin' = 0 /\ listing' = TRUE
    /\ UNCHANGED <<buffer, buffer_content_counter, storage_buffer,
                   storage_buffer_counter, readable_flag, backspacable_counter,
                   ctrl_left_flag, readVars, eax, clobbered, quiet>>

\* A step of the code outside the handlers that changes none of their state.
Goto(label) ==
    /\ pc' = label
    /\ UNCHANGED kbdVars

\* Interrupts go on for a read of a file, a directory or the clock.
OtherRead ==
    /\ pc = "user"
    /\ Goto("other")
    /\ rval' = 0
    /\ UNCHANGED <<nbytes, i, ubuf, eax, clobbered, quiet>>

\* It returns, the last step of the boot too; a handler may have damaged the
\* address of the store to fileposition.
OtherReturns ==
    /\ pc = "other"
    /\ Goto("user") \/ (clobbered /\ Goto("fault"))
    /\ clobbered' = FALSE
    /\ UNCHANGED <<nbytes, i, ubuf, eax, rval, quiet>>

-----------------------------------------------------------------------------
(* terminal_read *)

ReadCall(n) ==
    /\ pc = "user"
    /\ Goto("spin_load")
    /\ nbytes' = n /\ i' = 0 /\ ubuf' = <<>>
    /\ rval' = 0
    /\ UNCHANGED <<eax, clobbered, quiet>>

\* A load of %eax.
LoadEax(from, value, to) ==
    /\ pc = from
    /\ eax' = value
    /\ Goto(to)
    /\ UNCHANGED <<nbytes, i, ubuf, clobbered, rval, quiet>>

\* A conditional jump on %eax.
Branch(from, condition, yes, no) ==
    /\ pc = from
    /\ IF condition THEN Goto(yes) ELSE Goto(no)
    /\ UNCHANGED <<nbytes, i, ubuf, eax, clobbered, rval>>

\* Wrong: waits while there is a line.
SpinTestInverted ==
    Branch("spin_test", eax # 0, "spin_load", "check_load") /\ UNCHANGED quiet

\* while (!readable_flag);
SpinLoad == LoadEax("spin_load", readable_flag, "spin_test")
SpinTest == Branch("spin_test", eax = 0, "spin_load", "check_load") /\ UNCHANGED quiet

\* if (readable_flag)
CheckLoad == LoadEax("check_load", readable_flag, "check_test")
CheckTest ==
    /\ pc = "check_test" /\ eax # 0
    /\ Goto("loop_load")
    /\ quiet' = TRUE
    /\ UNCHANGED <<nbytes, i, ubuf, eax, clobbered, rval>>
CheckFails ==
    /\ pc = "check_test" /\ eax = 0
    /\ Goto("ret")
    /\ eax' = -1
    /\ UNCHANGED <<nbytes, i, ubuf, clobbered, rval, quiet>>

\* Wrong: one byte too many of the line, one too many for the caller.
LoopTestOneMore ==
    Branch("loop_test", i <= eax, "bound_load", "wipe") /\ UNCHANGED quiet
BoundTestOneMore ==
    Branch("bound_test", eax <= nbytes, "copy", "wipe") /\ UNCHANGED quiet

\* i < storage_buffer_counter && i < nbytes
LoopLoad == LoadEax("loop_load", storage_buffer_counter, "loop_test")
LoopTest == Branch("loop_test", i < eax, "bound_load", "wipe") /\ UNCHANGED quiet
BoundLoad == LoadEax("bound_load", i, "bound_test")
BoundTest == Branch("bound_test", eax < nbytes, "copy", "wipe") /\ UNCHANGED quiet

\* buf[i] = storage_buffer[i].  A handler in the middle of it makes the byte go
\* elsewhere in the caller's buffer or to page 0, which is not mapped.
Copy ==
    /\ pc = "copy"
    /\ \/ Goto("loop_load") /\ ubuf' = Append(ubuf, storage_buffer[i]) /\ i' = i + 1
       \/ clobbered /\ Goto("loop_load") /\ ubuf' = Append(ubuf, Stray) /\ i' = i + 1
       \/ clobbered /\ Goto("fault") /\ UNCHANGED <<ubuf, i>>
    /\ clobbered' = FALSE
    /\ UNCHANGED <<nbytes, eax, rval, quiet>>

\* clear_storage_buf: the bytes, then the counter.
Wipe ==
    /\ pc = "wipe"
    /\ pc' = "zero"
    /\ storage_buffer' = Empty
    /\ UNCHANGED <<buffer, buffer_content_counter, storage_buffer_counter,
                   readable_flag, backspacable_counter, ctrl_left_flag,
                   screen_x, screen_y, origin, listing, nbytes, i, ubuf, rval,
                   eax, clobbered, quiet>>
Zero ==
    /\ pc = "zero"
    /\ pc' = "unflag"
    /\ storage_buffer_counter' = 0
    /\ UNCHANGED <<buffer, buffer_content_counter, storage_buffer,
                   readable_flag, backspacable_counter, ctrl_left_flag,
                   screen_x, screen_y, origin, listing, nbytes, i, ubuf, rval,
                   eax, clobbered, quiet>>

\* Wrong: the size asked for is returned.
UnflagAsked ==
    /\ pc = "unflag"
    /\ pc' = "ret"
    /\ readable_flag' = 0
    /\ eax' = nbytes
    /\ clobbered' = FALSE
    /\ UNCHANGED <<buffer, buffer_content_counter, storage_buffer,
                   storage_buffer_counter, backspacable_counter,
                   ctrl_left_flag, screen_x, screen_y, origin, listing, nbytes,
                   i, ubuf, rval, quiet>>

\* readable_flag = 0; return bytse_read;
Unflag ==
    /\ pc = "unflag"
    /\ pc' = "ret"
    /\ readable_flag' = 0
    /\ eax' = i
    /\ clobbered' = FALSE
    /\ UNCHANGED <<buffer, buffer_content_counter, storage_buffer,
                   storage_buffer_counter, backspacable_counter,
                   ctrl_left_flag, screen_x, screen_y, origin, listing, nbytes,
                   i, ubuf, rval, quiet>>

\* The result is in %eax until iret; read uses registers for the address of
\* fileposition on the way.  The locals are gone.
Ret ==
    /\ pc = "ret"
    /\ \/ Goto("user") /\ rval' = eax
       \/ clobbered /\ Goto("fault") /\ UNCHANGED rval
    /\ clobbered' = FALSE
    /\ nbytes' = 0 /\ i' = 0 /\ ubuf' = <<>> /\ eax' = 0 /\ quiet' = TRUE

\* excep_PF spins with interrupts off.
Stuck == pc = "fault" /\ UNCHANGED vars

ReadStep ==
    \/ SpinLoad \/ SpinTest \/ CheckLoad \/ CheckTest \/ CheckFails
    \/ LoopLoad \/ LoopTest \/ BoundLoad \/ BoundTest \/ Copy
    \/ Wipe \/ Zero \/ Unflag \/ Ret

Next ==
    \/ Interrupt
    \/ \E n \in WriteSizes : Write(n)
    \/ ShellRestart \/ KernelMessage \/ OtherRead \/ OtherReturns
    \/ \E n \in ReadSizes : ReadCall(n)
    \/ ReadStep
    \/ Stuck

\* The processor goes on with the read between interrupts.
Spec == Init /\ [][Next]_vars /\ WF_vars(ReadStep)

-----------------------------------------------------------------------------
(* Correctness *)

Labels == {"user", "other", "spin_load", "spin_test", "check_load",
           "check_test", "loop_load", "loop_test", "bound_load", "bound_test",
           "copy", "wipe", "zero", "unflag", "ret", "fault"}
Looping == {"loop_load", "loop_test", "bound_load", "bound_test", "copy"}

\* Every variable keeps its shape: the typed line fits its limit, the stored
\* line the storage buffer, and the cursor never leaves the screen.
TypeOK ==
    /\ buffer \in [Index -> Char \cup {NUL}]
    /\ buffer_content_counter \in 0..LineMax
    /\ storage_buffer \in [Index -> Byte]
    /\ storage_buffer_counter \in 0..(LineMax + 1)
    /\ readable_flag \in {0, 1} /\ ctrl_left_flag \in {0, 1}
    /\ backspacable_counter \in Nat
    /\ screen_x \in 0..(NumCols - 1) /\ screen_y \in 0..(NumRows - 1)
    /\ pc \in Labels
    /\ nbytes \in Nat /\ i \in 0..BufSize
    /\ ubuf \in Seq(Byte \cup {Stray})
    /\ eax \in (-1)..BufSize
    /\ clobbered \in BOOLEAN
    /\ rval \in Int
    /\ origin \in Nat
    /\ listing \in BOOLEAN /\ quiet \in BOOLEAN

\* What readable_flag promises a reader: whenever it is set and terminal_read
\* is not between clearing the storage buffer and clearing the flag, the storage
\* buffer holds one whole line that ends in its only newline, or (after
\* Control-L) nothing.
StorageHoldsLine ==
    (readable_flag = 1 /\ pc \notin {"zero", "unflag"}) =>
        LET n == storage_buffer_counter
        IN  \A k \in Index : /\ k >= n => storage_buffer[k] = NUL
                             /\ k = n - 1 => storage_buffer[k] = NL
                             /\ k < n - 1 => storage_buffer[k] # NL

\* However the handlers change storage_buffer_counter and %eax under the copy
\* loop, it never reads past storage_buffer, and if none has run since the loop
\* began it stores only bytes of the line and only inside the caller's buffer.
ReadInBounds ==
    pc = "copy" => /\ i < BufSize /\ Len(ubuf) = i
                   /\ quiet => i < nbytes /\ i < storage_buffer_counter

\* A read during which no handler runs returns the stored line, or as much of
\* it as the caller has room for.
QuietCopyIsExact ==
    (pc = "wipe" /\ quiet) =>
        /\ i = IF nbytes < storage_buffer_counter THEN nbytes ELSE storage_buffer_counter
        /\ ubuf = [k \in 1..i |-> storage_buffer[k - 1]]

\* BACKSPACE can erase every character that is still in the line buffer: TAB,
\* Control-L, ENTER and writes keep backspacable_counter at least as large as
\* the number of typed characters.
ErasableText == buffer_content_counter <= backspacable_counter

\* BACKSPACE never erases what was on the screen before the line being typed
\* (the prompt), whatever wraps and scrolls happened while typing.
BackspaceStaysInLine == ~listing => Pos >= origin

\* A write that leaves room for a full line prints nothing from beyond the line
\* buffer, although terminal_write counts the characters typed and not yet
\* entered as if they came after its own.
WriteInBuffer ==
    [][\A n \in WriteSizes : (Write(n) /\ n + LineMax <= BufSize) => rval' <= BufSize]_vars

\* terminal_read returns the number of bytes it stored, or the byte with which
\* the last handler acknowledged its interrupt: between the load of the result
\* and iret nothing protects %eax.
ReadCountOrEoi ==
    [][pc = "ret" /\ pc' = "user" => rval' \in {-1, Len(ubuf), KBD_EOI, RTC_EOI}]_vars

\* A read that finds a completed line comes back, whatever keys and clock
\* interrupts arrive, unless one of them destroys an address it uses.
ReadReturns ==
    (pc \notin {"user", "other", "fault"} /\ readable_flag = 1)
        ~> pc \in {"user", "fault"}

\* What the invariants above rest on.  Of the read: the index and the bytes
\* stored move together, %eax is what was loaded unless a handler has run, and
\* a store address is at risk only where one is in use.
CopyLoop ==
    /\ pc \in {"spin_load", "spin_test", "check_load", "check_test"} =>
          i = 0 /\ ubuf = <<>>
    /\ pc \in Looping \cup {"wipe"} => Len(ubuf) = i
    /\ pc \in {"bound_load", "bound_test", "copy"} => i < BufSize
    /\ clobbered => pc \in {"copy", "ret", "other"}
    /\ (quiet /\ pc \in Looping \cup {"wipe"}) =>
          /\ i <= storage_buffer_counter /\ i <= nbytes
          /\ \A k \in 1..i : ubuf[k] = storage_buffer[k - 1]
          /\ ~clobbered
          /\ pc = "loop_test" => eax = storage_buffer_counter
          /\ pc \in {"bound_load", "bound_test", "copy"} => i < storage_buffer_counter
          /\ pc = "bound_test" => eax = i
          /\ pc = "copy" => i < nbytes
          /\ pc = "wipe" => i = storage_buffer_counter \/ i = nbytes

\* Of the screen: the cells BACKSPACE may erase all lie behind the cursor and,
\* unless the line has scrolled up to the top, after the line's first cell.
ErasableCells == (~listing /\ origin > 0) => backspacable_counter + origin <= Pos

\* The inductive invariant.
Inv == TypeOK /\ StorageHoldsLine /\ CopyLoop /\ ErasableText /\ ErasableCells

-----------------------------------------------------------------------------
(* A statement of the repository that the code does not meet *)

\* "copies the content in storage_buffer to arg buf, and clears the
\* storage_buffer" (keyboard.c): the bytes stored in the caller's buffer are
\* those of the line being cleared, not of one ENTER has replaced since.
CopiesStorage ==
    pc = "wipe" =>
        \A k \in 1..Len(ubuf) : ubuf[k] \in {storage_buffer[k - 1], Stray}
=============================================================================
