--------------------------- MODULE TerminalProofs ---------------------------
(***************************************************************************)
(* The invariants of Terminal, for every screen, line and buffer size.     *)
(* The steps fall into three groups: the interrupt handlers, which leave   *)
(* the read's variables alone but for %eax and the history flags; the      *)
(* running program's writes and messages; and the steps of terminal_read.  *)
(***************************************************************************)
EXTENDS Terminal, TLAPS

-----------------------------------------------------------------------------
(* The cursor *)

\* Moving one column to the right wraps exactly at the last column.
LEMMA ColumnStep ==
    ASSUME NEW c \in Nat \ {0}, NEW x \in 0..(c - 1)
    PROVE  /\ x + 1 < c => (x + 1) \div c = 0 /\ (x + 1) % c = x + 1
           /\ x + 1 = c => (x + 1) \div c = 1 /\ (x + 1) % c = 0
  OBVIOUS

\* One row down is NumCols cells further.
LEMMA RowStep ==
    ASSUME NEW c \in Nat, NEW y \in Int
    PROVE  /\ c * y \in Int
           /\ c * (y + 1) = c * y + c
           /\ c * (y - 1) = c * y - c
           /\ y >= 0 => c * y >= 0
           /\ y >= 1 => c * y >= c
           /\ c * 0 = 0
  OBVIOUS

\* Every cell of the screen has a number.
LEMMA CellNumber ==
    ASSUME NEW x \in 0..(NumCols - 1), NEW y \in 0..(NumRows - 1)
    PROVE  NumCols * y + x \in Nat
  <1>1. NumCols * y \in Nat
    BY RowStep, TerminalAssumption
  <1> QED BY <1>1, TerminalAssumption

CursorOK == screen_x \in 0..(NumCols - 1) /\ screen_y \in 0..(NumRows - 1)
ScrolledRows(s) == IF s THEN NumCols ELSE 0

\* The cell after <<x, y>>: one further on, and a row up if the screen scrolls.
LEMMA CellStep ==
    ASSUME NEW x \in 0..(NumCols - 1), NEW y \in 0..(NumRows - 1),
           NEW row, row = y + ((x + 1) \div NumCols)
    PROVE  /\ (x + 1) % NumCols \in 0..(NumCols - 1)
           /\ Scroll(row) \in 0..(NumRows - 1)
           /\ NumCols * y + x \in Nat
           /\ NumCols * Scroll(row) + ((x + 1) % NumCols)
                = NumCols * y + x + 1 - ScrolledRows(Scrolls(row))
  <1> USE TerminalAssumption
  <1>0. /\ NumCols * y \in Nat
        /\ NumCols * (y + 1) = NumCols * y + NumCols
    BY RowStep
  <1>1. CASE x + 1 < NumCols
    <2>1. (x + 1) \div NumCols = 0 /\ (x + 1) % NumCols = x + 1
      BY <1>1, ColumnStep
    <2>2. row = y /\ ~Scrolls(row) /\ Scroll(row) = y
      BY <2>1 DEF Scrolls, Scroll
    <2> QED BY <1>0, <1>1, <2>1, <2>2 DEF ScrolledRows
  <1>2. CASE x + 1 = NumCols
    <2>1. (x + 1) \div NumCols = 1 /\ (x + 1) % NumCols = 0
      BY <1>2, ColumnStep
    <2>2. row = y + 1
      BY <2>1
    <2>3. CASE y + 1 >= NumRows
      <3>1. Scrolls(row) /\ Scroll(row) = y
        BY <2>2, <2>3 DEF Scrolls, Scroll
      <3> QED BY <1>0, <1>2, <2>1, <3>1 DEF ScrolledRows
    <2>4. CASE ~(y + 1 >= NumRows)
      <3>1. ~Scrolls(row) /\ Scroll(row) = y + 1
        BY <2>2, <2>4 DEF Scrolls, Scroll
      <3> QED BY <1>0, <1>2, <2>1, <2>4, <3>1 DEF ScrolledRows
    <2> QED BY <2>3, <2>4
  <1> QED BY <1>1, <1>2

\* putc moves the cursor one cell on.
LEMMA PutcMoves ==
    ASSUME CursorOK, Putc
    PROVE  /\ CursorOK'
           /\ Pos \in Nat
           /\ Pos' = Pos + 1 - ScrolledRows(Scrolls(RowAfterChar))
  BY CellStep DEF CursorOK, Putc, Pos, RowAfterChar

\* TAB moves it two cells on.
LEMMA TabMoves ==
    ASSUME CursorOK, PutcTwice
    PROVE  /\ CursorOK'
           /\ Pos \in Nat
           /\ Pos' = Pos + 2 - ScrolledRows(Scrolls(RowAfterChar))
                             - ScrolledRows(Scrolls(RowAfterTab))
  <1> DEFINE x == (screen_x + 1) % NumCols
             y == Scroll(RowAfterChar)
  <1>1. /\ x \in 0..(NumCols - 1) /\ y \in 0..(NumRows - 1)
        /\ Pos \in Nat
        /\ NumCols * y + x = Pos + 1 - ScrolledRows(Scrolls(RowAfterChar))
    BY CellStep DEF CursorOK, Pos, RowAfterChar
  <1>2. RowAfterTab = y + ((x + 1) \div NumCols)
    BY DEF RowAfterTab
  <1>3. screen_x' = (x + 1) % NumCols /\ screen_y' = Scroll(RowAfterTab)
    BY DEF PutcTwice
  <1> HIDE DEF x, y
  <1>4. /\ CursorOK'
        /\ NumCols * y + x \in Nat
        /\ Pos' = NumCols * y + x + 1 - ScrolledRows(Scrolls(RowAfterTab))
    BY <1>1, <1>2, <1>3, CellStep DEF CursorOK, Pos
  <1>5. ScrolledRows(Scrolls(RowAfterChar)) \in Int /\ ScrolledRows(Scrolls(RowAfterTab)) \in Int
    BY TerminalAssumption DEF ScrolledRows
  <1> QED BY <1>1, <1>4, <1>5

\* back_space moves it one cell back, except from the upper left corner.
LEMMA BackSpaceMoves ==
    ASSUME CursorOK, BackSpace
    PROVE  /\ CursorOK'
           /\ Pos \in Nat
           /\ Pos' = IF Pos = 0 THEN 0 ELSE Pos - 1
  <1> USE TerminalAssumption
  <1>1. /\ NumCols * screen_y \in Nat
        /\ NumCols * (screen_y - 1) = NumCols * screen_y - NumCols
        /\ screen_y >= 1 => NumCols * screen_y >= NumCols
        /\ NumCols * 0 = 0
    BY RowStep DEF CursorOK
  <1>2. CASE screen_x = 0 /\ screen_y = 0
    BY <1>1, <1>2 DEF BackSpace, CursorOK, Pos
  <1>3. CASE screen_x = 0 /\ screen_y # 0
    <2>1. screen_x' = NumCols - 1 /\ screen_y' = screen_y - 1
      BY <1>3 DEF BackSpace
    <2> QED BY <1>1, <1>3, <2>1 DEF CursorOK, Pos
  <1>4. CASE screen_x # 0
    <2>1. screen_x' = screen_x - 1 /\ screen_y' = screen_y
      BY <1>4 DEF BackSpace
    <2> QED BY <1>1, <1>4, <2>1 DEF CursorOK, Pos
  <1> QED BY <1>2, <1>3, <1>4

\* The cursor stays on the screen and its cell has a number whatever else moves
\* it.
LEMMA CursorMoves ==
    ASSUME CursorOK,
           PutcNewline \/ ClearScreen \/ PrintText \/ UNCHANGED <<screen_x, screen_y>>
    PROVE  /\ CursorOK'
           /\ Pos \in Nat /\ Pos' \in Nat
  <1> USE TerminalAssumption
  <1>1. CursorOK'
    BY DEF CursorOK, PutcNewline, ClearScreen, PrintText, Scroll
  <1>2. Pos \in Nat
    BY CellNumber DEF CursorOK, Pos
  <1>3. Pos' \in Nat
    <2>1. screen_x' \in 0..(NumCols - 1) /\ screen_y' \in 0..(NumRows - 1)
      BY <1>1 DEF CursorOK
    <2>2. NumCols * screen_y' + screen_x' \in Nat
      BY <2>1, CellNumber
    <2> QED BY <2>2 DEF Pos
  <1> QED BY <1>1, <1>2, <1>3

-----------------------------------------------------------------------------
(* The interrupt handlers *)

\* The part of TypeOK about the read, and the part about the handlers' state.
ReadTypeOK ==
    /\ pc \in Labels
    /\ nbytes \in Nat /\ i \in 0..BufSize
    /\ ubuf \in Seq(Byte \cup {Stray})
    /\ eax \in (-1)..BufSize
    /\ rval \in Int
LineTypeOK ==
    /\ buffer \in [Index -> Char \cup {NUL}]
    /\ buffer_content_counter \in 0..LineMax
    /\ storage_buffer \in [Index -> Byte]
    /\ storage_buffer_counter \in 0..(LineMax + 1)
    /\ readable_flag \in {0, 1} /\ ctrl_left_flag \in {0, 1}
    /\ backspacable_counter \in Nat
    /\ origin \in Nat
HistoryTypeOK ==
    clobbered \in BOOLEAN /\ listing \in BOOLEAN /\ quiet \in BOOLEAN

LEMMA TypeParts ==
    /\ TypeOK <=> ReadTypeOK /\ LineTypeOK /\ CursorOK /\ HistoryTypeOK
    /\ TypeOK' <=> ReadTypeOK' /\ LineTypeOK' /\ CursorOK' /\ HistoryTypeOK'
  BY DEF TypeOK, ReadTypeOK, LineTypeOK, CursorOK, HistoryTypeOK

\* The history flags are set to truth values.
LEMMA HistoryType ==
    ASSUME HistoryTypeOK, [Next]_vars
    PROVE  HistoryTypeOK'
  <1>1. CASE Interrupt
    <2>1. \E eoi : Clobber(eoi)
      BY <1>1 DEF Interrupt, CtrlKey, CtrlL, DebugKey, Enter, Backspace, Tab, IgnoredKey,
                  RtcTick, Letter
    <2>2. clobbered' \in BOOLEAN /\ quiet' \in BOOLEAN
      BY <2>1 DEF Clobber
    <2>3. listing' \in BOOLEAN
      BY <1>1 DEF Interrupt, CtrlKey, CtrlL, DebugKey, Enter, Backspace, Tab, IgnoredKey,
                  RtcTick, Letter, LineStartsHere, kbdVars, HistoryTypeOK
    <2> QED BY <2>2, <2>3 DEF HistoryTypeOK
  <1>2. CASE \/ \E n \in WriteSizes : Write(n)
             \/ ShellRestart \/ KernelMessage \/ OtherRead \/ OtherReturns
             \/ \E n \in ReadSizes : ReadCall(n)
             \/ Stuck \/ UNCHANGED vars
    BY <1>2 DEF Write, ShellRestart, KernelMessage, OtherRead, OtherReturns, ReadCall, Goto,
                Stuck, vars, kbdVars, LineStartsHere, HistoryTypeOK
  <1>3. CASE ReadStep
    BY <1>3 DEF ReadStep, SpinLoad, SpinTest, CheckLoad, CheckTest, CheckFails, LoopLoad,
                LoopTest, BoundLoad, BoundTest, Copy, Wipe, Zero, Unflag, Ret, LoadEax,
                Branch, Goto, kbdVars, HistoryTypeOK
  <1> QED BY <1>1, <1>2, <1>3 DEF Next

\* A handler leaves the read where it was and takes away its quiet.
LEMMA ClobberRead ==
    ASSUME TypeOK, CopyLoop, NEW eoi \in 1..(BufSize - 1), Clobber(eoi)
    PROVE  ReadTypeOK' /\ CopyLoop'
  <1> USE TerminalAssumption
  <1>1. ReadTypeOK'
    BY DEF TypeOK, ReadTypeOK, Clobber, readVars
  <1>2. /\ UNCHANGED <<pc, nbytes, i, ubuf>>
        /\ clobbered' => pc \in {"copy", "ret", "other"}
        /\ pc \in Looping \cup {"wipe"} => ~quiet'
    BY DEF CopyLoop, Clobber, readVars, Looping
  <1>3. CopyLoop'
    BY <1>2 DEF CopyLoop
  <1> QED BY <1>1, <1>3

\* What ENTER stores is a line with its newline at the end.
LEMMA StoredLineIsLine ==
    ASSUME TypeOK
    PROVE  /\ StoredLine \in [Index -> Byte]
           /\ \A k \in Index :
                 /\ k >= buffer_content_counter + 1 => StoredLine[k] = NUL
                 /\ k = buffer_content_counter => StoredLine[k] = NL
                 /\ k < buffer_content_counter => StoredLine[k] # NL
  BY TerminalAssumption DEF TypeOK, StoredLine, Index, Byte

\* A handler that does not touch the storage buffer keeps StorageHoldsLine.
LEMMA StorageKept ==
    ASSUME StorageHoldsLine,
           UNCHANGED <<storage_buffer, storage_buffer_counter, readable_flag, pc>>
    PROVE  StorageHoldsLine'
  BY DEF StorageHoldsLine

\* The new line starts at the cursor.
LEMMA NewLineStarts ==
    ASSUME Pos' \in Nat, LineStartsHere, backspacable_counter' = 0
    PROVE  origin' \in Nat /\ ErasableCells'
  <1>1. PICK p \in Nat : Pos' = p
    OBVIOUS
  <1>2. origin' = p /\ listing' = FALSE
    BY <1>1 DEF LineStartsHere, Pos
  <1>3. backspacable_counter' + origin' <= p
    BY <1>2
  <1> QED BY <1>1, <1>2, <1>3 DEF ErasableCells

LEMMA InterruptInv ==
    ASSUME Inv, HistoryTypeOK', Interrupt
    PROVE  Inv'
  <1> USE TerminalAssumption
  <1>0. TypeOK /\ StorageHoldsLine /\ CopyLoop /\ ErasableText /\ ErasableCells
    BY DEF Inv
  <1>a. ReadTypeOK /\ LineTypeOK /\ CursorOK /\ HistoryTypeOK
    BY <1>0, TypeParts
  <1>1. ReadTypeOK' /\ CopyLoop' /\ UNCHANGED pc
    <2>1. Clobber(KBD_EOI) \/ Clobber(RTC_EOI)
      BY DEF Interrupt, CtrlKey, CtrlL, DebugKey, Enter, Backspace, Tab, IgnoredKey,
             RtcTick, Letter
    <2>2. UNCHANGED pc
      BY <2>1 DEF Clobber, readVars
    <2> QED BY <1>0, <2>1, <2>2, ClobberRead
  <1>2. SUFFICES LineTypeOK' /\ CursorOK' /\ StorageHoldsLine' /\ ErasableText' /\ ErasableCells'
    BY <1>1, TypeParts DEF Inv
  <1>3. CASE CtrlKey
    <2>1. CursorOK'
      BY <1>a, <1>3 DEF CtrlKey, CursorOK
    <2>2. LineTypeOK' /\ ErasableText' /\ ErasableCells'
      BY <1>0, <1>a, <1>3 DEF CtrlKey, LineTypeOK, ErasableText, ErasableCells, Pos
    <2>3. StorageHoldsLine'
      BY <1>0, <1>1, <1>3, StorageKept DEF CtrlKey
    <2> QED BY <2>1, <2>2, <2>3
  <1>4. CASE CtrlL
    <2>1. CursorOK' /\ Pos' \in Nat
      BY <1>a, <1>4, CursorMoves DEF CtrlL
    <2>2. origin' \in Nat /\ ErasableCells'
      BY <1>a, <1>4, <2>1, NewLineStarts DEF CtrlL
    <2>3. LineTypeOK' /\ ErasableText'
      BY <1>a, <1>4, <2>2 DEF CtrlL, LineTypeOK, ErasableText, Empty, Index, Byte
    <2>4. StorageHoldsLine'
      BY <1>4 DEF CtrlL, StorageHoldsLine, Empty, Index
    <2> QED BY <2>1, <2>2, <2>3, <2>4
  <1>5. CASE DebugKey
    <2>1. CursorOK'
      BY <1>a, <1>5, CursorMoves DEF DebugKey
    <2>2. LineTypeOK' /\ ErasableText' /\ ErasableCells'
      BY <1>0, <1>a, <1>5 DEF DebugKey, LineTypeOK, ErasableText, ErasableCells
    <2>3. StorageHoldsLine'
      BY <1>0, <1>1, <1>5, StorageKept DEF DebugKey
    <2> QED BY <2>1, <2>2, <2>3
  <1>6. CASE Enter
    <2>1. CursorOK' /\ Pos' \in Nat
      BY <1>a, <1>6, CursorMoves DEF Enter
    <2>2. origin' \in Nat /\ ErasableCells'
      BY <1>a, <1>6, <2>1, NewLineStarts DEF Enter
    <2>3. LineTypeOK' /\ ErasableText'
      BY <1>0, <1>a, <1>6, <2>2, StoredLineIsLine
         DEF Enter, LineTypeOK, ErasableText, Empty, Index, Byte
    <2>4. storage_buffer' = StoredLine /\ storage_buffer_counter' = buffer_content_counter + 1
      BY <1>6 DEF Enter
    <2>5. StorageHoldsLine'
      BY <1>0, <1>a, <2>4, StoredLineIsLine DEF StorageHoldsLine, LineTypeOK, Index
    <2> QED BY <2>1, <2>2, <2>3, <2>5
  <1>7. CASE Backspace
    <2>1. /\ CursorOK' /\ Pos \in Nat
          /\ Pos' = IF Pos = 0 THEN 0 ELSE Pos - 1
      BY <1>a, <1>7, BackSpaceMoves DEF Backspace
    <2>2. LineTypeOK' /\ ErasableText'
      BY <1>0, <1>a, <1>7 DEF Backspace, EraseChar, LineTypeOK, ErasableText, Index
    <2>3. ErasableCells'
      BY <1>0, <1>a, <1>7, <2>1 DEF Backspace, ErasableCells, LineTypeOK
    <2>4. StorageHoldsLine'
      BY <1>0, <1>1, <1>7, StorageKept DEF Backspace
    <2> QED BY <2>1, <2>2, <2>3, <2>4
  <1>8. CASE Tab
    <2>1. /\ CursorOK' /\ Pos \in Nat
          /\ Pos' = Pos + 2 - ScrolledRows(Scrolls(RowAfterChar))
                            - ScrolledRows(Scrolls(RowAfterTab))
      BY <1>a, <1>8, TabMoves DEF Tab
    <2>2. /\ origin' \in Nat
          /\ origin' > 0 => origin' = origin - ScrolledRows(Scrolls(RowAfterChar))
                                             - ScrolledRows(Scrolls(RowAfterTab))
      BY <1>a, <1>8 DEF Tab, OriginScrolled, ScrolledRows, LineTypeOK
    <2>3. LineTypeOK' /\ ErasableText'
      BY <1>0, <1>a, <1>8, <2>2 DEF Tab, LineTypeOK, ErasableText
    <2>4. ErasableCells'
      <3>1. /\ ScrolledRows(Scrolls(RowAfterChar)) \in Nat
            /\ ScrolledRows(Scrolls(RowAfterTab)) \in Nat
        BY DEF ScrolledRows
      <3>2. listing' = listing /\ backspacable_counter' = backspacable_counter + 2
        BY <1>8 DEF Tab
      <3> QED BY <1>0, <1>a, <2>1, <2>2, <3>1, <3>2 DEF ErasableCells, LineTypeOK
    <2>5. StorageHoldsLine'
      BY <1>0, <1>1, <1>8, StorageKept DEF Tab
    <2> QED BY <2>1, <2>3, <2>4, <2>5
  <1>9. ASSUME NEW c \in Char, Letter(c)
        PROVE  LineTypeOK' /\ CursorOK' /\ StorageHoldsLine' /\ ErasableText' /\ ErasableCells'
    <2>1. /\ CursorOK' /\ Pos \in Nat
          /\ Pos' = Pos + 1 - ScrolledRows(Scrolls(RowAfterChar))
      BY <1>a, <1>9, PutcMoves DEF Letter
    <2>2. /\ origin' \in Nat
          /\ origin' > 0 => origin' = origin - ScrolledRows(Scrolls(RowAfterChar))
      BY <1>a, <1>9 DEF Letter, OriginScrolled, ScrolledRows, LineTypeOK
    <2>3. LineTypeOK' /\ ErasableText'
      BY <1>0, <1>a, <1>9, <2>2 DEF Letter, LineTypeOK, ErasableText, Index
    <2>4. ErasableCells'
      <3>1. ScrolledRows(Scrolls(RowAfterChar)) \in Nat
        BY DEF ScrolledRows
      <3>2. listing' = listing /\ backspacable_counter' = backspacable_counter + 1
        BY <1>9 DEF Letter
      <3> QED BY <1>0, <1>a, <2>1, <2>2, <3>1, <3>2 DEF ErasableCells, LineTypeOK
    <2>5. StorageHoldsLine'
      BY <1>0, <1>1, <1>9, StorageKept DEF Letter
    <2> QED BY <2>1, <2>3, <2>4, <2>5
  <1>10. CASE IgnoredKey \/ RtcTick
    <2>1. UNCHANGED kbdVars
      BY <1>10 DEF IgnoredKey, RtcTick
    <2>2. CursorOK' /\ LineTypeOK' /\ ErasableText' /\ ErasableCells'
      BY <1>0, <1>a, <2>1 DEF kbdVars, CursorOK, LineTypeOK, ErasableText, ErasableCells, Pos
    <2>3. StorageHoldsLine'
      BY <1>0, <1>1, <2>1, StorageKept DEF kbdVars
    <2> QED BY <2>2, <2>3
  <1> QED BY <1>3, <1>4, <1>5, <1>6, <1>7, <1>8, <1>9, <1>10 DEF Interrupt

-----------------------------------------------------------------------------
(* The running program *)

LEMMA ProgramInv ==
    ASSUME Inv, HistoryTypeOK',
           \/ \E n \in WriteSizes : Write(n)
           \/ ShellRestart \/ KernelMessage
    PROVE  Inv'
  <1> USE TerminalAssumption
  <1>0. TypeOK /\ StorageHoldsLine /\ CopyLoop /\ ErasableText /\ ErasableCells
    BY DEF Inv
  <1>a. ReadTypeOK /\ LineTypeOK /\ CursorOK /\ HistoryTypeOK
    BY <1>0, TypeParts
  <1>1. ASSUME NEW n \in WriteSizes, Write(n) PROVE Inv'
    <2>1. CursorOK' /\ Pos' \in Nat
      <3>1. PrintText \/ UNCHANGED <<screen_x, screen_y>>
        BY <1>1 DEF Write
      <3> QED BY <1>a, <3>1, CursorMoves
    <2>2. origin' \in Nat /\ ErasableCells'
      BY <1>1, <2>1, NewLineStarts DEF Write
    <2>3. LineTypeOK' /\ ErasableText'
      BY <1>a, <1>1, <2>2 DEF Write, LineTypeOK, ErasableText, Empty, Index
    <2>4. ReadTypeOK'
      BY <1>a, <1>1 DEF Write, ReadTypeOK, LineTypeOK
    <2>5. StorageHoldsLine'
      BY <1>0, <1>1, StorageKept DEF Write
    <2>6. CopyLoop'
      BY <1>0, <1>1 DEF Write, CopyLoop, Looping
    <2> QED BY <2>1, <2>2, <2>3, <2>4, <2>5, <2>6, TypeParts DEF Inv
  <1>2. CASE ShellRestart \/ KernelMessage
    <2>1. CursorOK'
      <3>1. ClearScreen \/ PrintText
        BY <1>2 DEF ShellRestart, KernelMessage
      <3> QED BY <1>a, <3>1, CursorMoves
    <2>2. LineTypeOK' /\ ErasableText' /\ ErasableCells'
      <3>1. /\ UNCHANGED <<buffer, buffer_content_counter, storage_buffer,
                           storage_buffer_counter, readable_flag,
                           backspacable_counter, ctrl_left_flag>>
            /\ origin' = 0
        BY <1>2 DEF ShellRestart, KernelMessage
      <3> QED BY <1>0, <1>a, <3>1 DEF LineTypeOK, ErasableText, ErasableCells
    <2>3. ReadTypeOK'
      BY <1>a, <1>2 DEF ShellRestart, KernelMessage, ReadTypeOK, readVars
    <2>4. StorageHoldsLine'
      BY <1>0, <1>2, StorageKept DEF ShellRestart, KernelMessage, readVars
    <2>5. CopyLoop'
      <3>1. /\ pc = "user"
            /\ UNCHANGED <<pc, nbytes, i, ubuf, eax, clobbered, quiet>>
            /\ UNCHANGED <<storage_buffer, storage_buffer_counter>>
        BY <1>2 DEF ShellRestart, KernelMessage, readVars
      <3> QED BY <1>0, <3>1 DEF CopyLoop, Looping
    <2> QED BY <2>1, <2>2, <2>3, <2>4, <2>5, TypeParts DEF Inv
  <1> QED BY <1>1, <1>2

-----------------------------------------------------------------------------
(* The steps of a read *)

\* What a step that leaves the handlers' state alone has to keep: the read's.
LEMMA GotoInv ==
    ASSUME Inv, HistoryTypeOK', NEW label \in Labels, Goto(label), pc \notin {"zero", "unflag"},
           ReadTypeOK', CopyLoop'
    PROVE  Inv'
  <1>1. UNCHANGED kbdVars /\ pc' = label
    BY DEF Goto
  <1>2. LineTypeOK' /\ CursorOK' /\ ErasableText' /\ ErasableCells'
    BY <1>1, TypeParts
       DEF Inv, kbdVars, LineTypeOK, CursorOK, ErasableText, ErasableCells, Pos
  <1>3. StorageHoldsLine'
    BY <1>1 DEF Inv, kbdVars, StorageHoldsLine
  <1> QED BY <1>2, <1>3, TypeParts DEF Inv

LEMMA ReadInv ==
    ASSUME Inv, HistoryTypeOK',
           \/ OtherRead \/ OtherReturns
           \/ \E n \in ReadSizes : ReadCall(n)
           \/ ReadStep
    PROVE  Inv'
  <1> USE TerminalAssumption
  <1>0. TypeOK /\ StorageHoldsLine /\ CopyLoop /\ ErasableText /\ ErasableCells
    BY DEF Inv
  <1>a. ReadTypeOK /\ LineTypeOK /\ CursorOK /\ HistoryTypeOK
    BY <1>0, TypeParts
  <1>1. CASE OtherRead
    <2>1. ReadTypeOK' /\ CopyLoop'
      BY <1>0, <1>a, <1>1 DEF OtherRead, Goto, ReadTypeOK, Labels, CopyLoop, Looping
    <2> QED BY <1>1, <2>1, GotoInv DEF OtherRead, Labels
  <1>2. CASE OtherReturns
    <2>1. ReadTypeOK' /\ CopyLoop'
      BY <1>0, <1>a, <1>2 DEF OtherReturns, Goto, ReadTypeOK, Labels, CopyLoop, Looping
    <2> QED BY <1>2, <2>1, GotoInv DEF OtherReturns, Labels
  <1>3. ASSUME NEW n \in ReadSizes, ReadCall(n) PROVE Inv'
    <2>1. ReadTypeOK' /\ CopyLoop'
      BY <1>0, <1>a, <1>3 DEF ReadCall, Goto, ReadTypeOK, Labels, CopyLoop, Looping
    <2> QED BY <1>3, <2>1, GotoInv DEF ReadCall, Labels
  <1>4. CASE SpinLoad \/ CheckLoad
    <2>1. ReadTypeOK' /\ CopyLoop'
      BY <1>0, <1>a, <1>4
         DEF SpinLoad, CheckLoad, LoadEax, Goto, ReadTypeOK, LineTypeOK, Labels, CopyLoop, Looping
    <2> QED BY <1>4, <2>1, GotoInv DEF SpinLoad, CheckLoad, LoadEax, Labels
  <1>5. CASE SpinTest
    <2>1. ReadTypeOK' /\ CopyLoop'
      BY <1>0, <1>a, <1>5
         DEF SpinTest, Branch, Goto, ReadTypeOK, Labels, CopyLoop, Looping
    <2> QED BY <1>5, <2>1, GotoInv DEF SpinTest, Branch, Labels
  <1>6. CASE CheckTest
    <2>1. ReadTypeOK' /\ CopyLoop'
      BY <1>0, <1>a, <1>6
         DEF CheckTest, Goto, ReadTypeOK, LineTypeOK, Labels, CopyLoop, Looping, kbdVars
    <2> QED BY <1>6, <2>1, GotoInv DEF CheckTest, Labels
  <1>7. CASE CheckFails
    <2>1. ReadTypeOK' /\ CopyLoop'
      BY <1>0, <1>a, <1>7 DEF CheckFails, Goto, ReadTypeOK, Labels, CopyLoop, Looping
    <2> QED BY <1>7, <2>1, GotoInv DEF CheckFails, Labels
  <1>8. CASE LoopLoad
    <2>1. ReadTypeOK' /\ CopyLoop'
      BY <1>0, <1>a, <1>8
         DEF LoopLoad, LoadEax, Goto, ReadTypeOK, LineTypeOK, Labels, CopyLoop, Looping, kbdVars
    <2> QED BY <1>8, <2>1, GotoInv DEF LoopLoad, LoadEax, Labels
  <1>8a. CASE BoundLoad
    <2>1. ReadTypeOK' /\ CopyLoop'
      BY <1>0, <1>a, <1>8a
         DEF BoundLoad, LoadEax, Goto, ReadTypeOK, LineTypeOK, Labels, CopyLoop, Looping, kbdVars
    <2> QED BY <1>8a, <2>1, GotoInv DEF BoundLoad, LoadEax, Labels
  <1>9. CASE LoopTest
    <2>1. ReadTypeOK' /\ CopyLoop'
      BY <1>0, <1>a, <1>9
         DEF LoopTest, Branch, Goto, ReadTypeOK, LineTypeOK, Labels, CopyLoop, Looping, kbdVars
    <2> QED BY <1>9, <2>1, GotoInv DEF LoopTest, Branch, Labels
  <1>10. CASE BoundTest
    <2>1. ReadTypeOK' /\ CopyLoop'
      BY <1>0, <1>a, <1>10
         DEF BoundTest, Branch, Goto, ReadTypeOK, LineTypeOK, Labels, CopyLoop, Looping, kbdVars
    <2> QED BY <1>10, <2>1, GotoInv DEF BoundTest, Branch, Labels
  <1>11. CASE Copy
    <2>0. /\ i \in Index /\ Len(ubuf) = i /\ storage_buffer[i] \in Byte
          /\ ubuf \in Seq(Byte \cup {Stray})
      BY <1>0, <1>a, <1>11 DEF Copy, ReadTypeOK, LineTypeOK, CopyLoop, Looping, Index
    <2>1. /\ pc' = "loop_load" \/ pc' = "fault"
          /\ UNCHANGED <<nbytes, eax, rval, quiet, storage_buffer, storage_buffer_counter>>
          /\ ~clobbered'
      BY <1>11 DEF Copy, Goto, kbdVars
    <2>2. ASSUME NEW b \in Byte \cup {Stray}, ubuf' = Append(ubuf, b), i' = i + 1,
                 pc' = "loop_load", clobbered \/ b = storage_buffer[i]
          PROVE  ReadTypeOK' /\ CopyLoop'
      <3>1. /\ ubuf' \in Seq(Byte \cup {Stray}) /\ Len(ubuf') = i'
            /\ ubuf'[i + 1] = b
            /\ \A k \in 1..i : ubuf'[k] = ubuf[k]
        BY <2>0, <2>2 DEF Index
      <3>2. ReadTypeOK'
        BY <1>a, <2>0, <2>1, <2>2, <3>1 DEF ReadTypeOK, Labels, Index
      <3>3. CASE quiet
        <4>1. /\ ~clobbered /\ i < storage_buffer_counter /\ i < nbytes
              /\ \A k \in 1..i : ubuf[k] = storage_buffer[k - 1]
          BY <1>0, <1>11, <3>3 DEF Copy, CopyLoop, Looping
        <4>2. \A k \in 1..i' : ubuf'[k] = storage_buffer'[k - 1]
          BY <2>0, <2>1, <2>2, <3>1, <4>1 DEF Index
        <4>3. i' <= storage_buffer_counter' /\ i' <= nbytes'
          BY <1>a, <2>0, <2>1, <2>2, <4>1 DEF Index, ReadTypeOK, LineTypeOK
        <4> QED BY <2>1, <2>2, <3>1, <3>2, <4>2, <4>3 DEF CopyLoop, Looping
      <3>4. CASE ~quiet
        BY <2>1, <2>2, <3>1, <3>2, <3>4 DEF CopyLoop, Looping
      <3> QED BY <3>3, <3>4
    <2>3. ASSUME pc' = "fault", UNCHANGED <<ubuf, i>>
          PROVE  ReadTypeOK' /\ CopyLoop'
      BY <1>a, <2>1, <2>3 DEF ReadTypeOK, Labels, CopyLoop, Looping
    <2>4. ReadTypeOK' /\ CopyLoop'
      BY <1>11, <2>0, <2>2, <2>3 DEF Copy, Goto
    <2> QED BY <1>11, <2>4, GotoInv DEF Copy, Labels
  <1>12. CASE Wipe \/ Zero \/ Unflag
    <2>1. CursorOK' /\ ErasableText' /\ ErasableCells'
      BY <1>0, <1>a, <1>12
         DEF Wipe, Zero, Unflag, CursorOK, ErasableText, ErasableCells, Pos
    <2>a. ASSUME Wipe PROVE LineTypeOK'
      <3>1. Empty \in [Index -> Byte]
        BY DEF Empty, Byte
      <3> QED BY <1>a, <2>a, <3>1 DEF Wipe, LineTypeOK
    <2>b. ASSUME Zero \/ Unflag PROVE LineTypeOK'
      BY <1>a, <2>b DEF Zero, Unflag, LineTypeOK
    <2>c. LineTypeOK'
      BY <1>12, <2>a, <2>b
    <2>2. ReadTypeOK' /\ CopyLoop'
      BY <1>0, <1>a, <1>12 DEF Wipe, Zero, Unflag, ReadTypeOK, Labels, CopyLoop, Looping
    <2>3. StorageHoldsLine'
      BY <1>12 DEF Wipe, Zero, Unflag, StorageHoldsLine
    <2> QED BY <2>1, <2>c, <2>2, <2>3, TypeParts DEF Inv
  <1>13. CASE Ret
    <2>1. ReadTypeOK' /\ CopyLoop'
      BY <1>0, <1>a, <1>13 DEF Ret, Goto, ReadTypeOK, Labels, CopyLoop, Looping
    <2> QED BY <1>13, <2>1, GotoInv DEF Ret, Labels
  <1> QED BY <1>1, <1>2, <1>3, <1>4, <1>5, <1>6, <1>7, <1>8, <1>8a, <1>9, <1>10, <1>11, <1>12, <1>13
          DEF ReadStep

-----------------------------------------------------------------------------
(* The theorems *)

LEMMA InitInv == Init => Inv
  <1> USE TerminalAssumption
  <1> SUFFICES ASSUME Init PROVE Inv
    OBVIOUS
  <1>a. HistoryTypeOK /\ ~clobbered
    BY DEF Init, HistoryTypeOK
  <1>b. Empty \in [Index -> Char \cup {NUL}] /\ Empty \in [Index -> Byte]
    BY DEF Empty, Byte
  <1>1. ReadTypeOK /\ CopyLoop
    <2>1. pc = "other" /\ nbytes = 0 /\ i = 0 /\ ubuf = <<>> /\ eax = 0 /\ rval = 0
      BY DEF Init
    <2> QED BY <1>a, <2>1 DEF ReadTypeOK, Labels, CopyLoop, Looping
  <1>2. LineTypeOK /\ CursorOK /\ ErasableText /\ ErasableCells
    BY <1>b DEF Init, LineTypeOK, CursorOK, ErasableText, ErasableCells
  <1>3. StorageHoldsLine
    BY DEF Init, StorageHoldsLine
  <1> QED BY <1>a, <1>1, <1>2, <1>3, TypeParts DEF Inv

LEMMA StutterInv == Inv /\ UNCHANGED vars => Inv'
  <1> SUFFICES ASSUME Inv, UNCHANGED vars PROVE Inv'
    OBVIOUS
  <1>1. ReadTypeOK' /\ LineTypeOK' /\ CursorOK' /\ HistoryTypeOK'
    BY TypeParts
       DEF Inv, vars, kbdVars, readVars, ReadTypeOK, LineTypeOK, CursorOK, HistoryTypeOK
  <1>2. ErasableText' /\ ErasableCells'
    BY DEF Inv, vars, kbdVars, ErasableText, ErasableCells, Pos
  <1>3. StorageHoldsLine'
    BY DEF Inv, vars, kbdVars, readVars, StorageHoldsLine
  <1>4. CopyLoop'
    BY DEF Inv, vars, kbdVars, readVars, CopyLoop
  <1> QED BY <1>1, <1>2, <1>3, <1>4, TypeParts DEF Inv

\* Every key, tick, write, message and step of a read keeps the inductive
\* invariant.
THEOREM Invariance == Spec => []Inv
  <1>1. Inv /\ [Next]_vars => Inv'
    <2> SUFFICES ASSUME Inv, [Next]_vars PROVE Inv'
      OBVIOUS
    <2>1. HistoryTypeOK'
      BY HistoryType, TypeParts DEF Inv
    <2> QED BY <2>1, InterruptInv, ProgramInv, ReadInv, StutterInv DEF Next, Stuck
  <1> QED BY InitInv, <1>1, PTL DEF Spec

\* The line, the storage buffer and the cursor stay in their bounds.
THEOREM TypeCorrect == Spec => []TypeOK
  <1>1. Inv => TypeOK
    BY DEF Inv
  <1> QED BY Invariance, <1>1, PTL

\* While readable_flag is set a reader finds one whole line, or nothing.
THEOREM StorageCorrect == Spec => []StorageHoldsLine
  <1>1. Inv => StorageHoldsLine
    BY DEF Inv
  <1> QED BY Invariance, <1>1, PTL

\* The copy loop never reads past storage_buffer, and undisturbed it stays in
\* the line and in the caller's buffer.
THEOREM ReadBoundsCorrect == Spec => []ReadInBounds
  <1>1. Inv => ReadInBounds
    BY DEF Inv, CopyLoop, Looping, ReadInBounds
  <1> QED BY Invariance, <1>1, PTL

\* An undisturbed read copies the line.
THEOREM QuietCopyCorrect == Spec => []QuietCopyIsExact
  <1>1. Inv => QuietCopyIsExact
    <2> SUFFICES ASSUME Inv, pc = "wipe", quiet
                 PROVE  /\ i = IF nbytes < storage_buffer_counter THEN nbytes
                               ELSE storage_buffer_counter
                        /\ ubuf = [k \in 1..i |-> storage_buffer[k - 1]]
      BY DEF QuietCopyIsExact
    <2>1. /\ ubuf \in Seq(Byte \cup {Stray}) /\ i \in Nat /\ nbytes \in Nat
          /\ storage_buffer_counter \in Nat
      BY TerminalAssumption DEF Inv, TypeOK
    <2>2. /\ Len(ubuf) = i
          /\ i <= storage_buffer_counter /\ i <= nbytes
          /\ i = storage_buffer_counter \/ i = nbytes
          /\ \A k \in 1..i : ubuf[k] = storage_buffer[k - 1]
      BY DEF Inv, CopyLoop
    <2>3. ubuf = [k \in 1..i |-> ubuf[k]]
      BY <2>1, <2>2
    <2> QED BY <2>1, <2>2, <2>3
  <1> QED BY Invariance, <1>1, PTL

\* Every typed character can be erased again.
THEOREM ErasableCorrect == Spec => []ErasableText
  <1>1. Inv => ErasableText
    BY DEF Inv
  <1> QED BY Invariance, <1>1, PTL

\* BACKSPACE never moves the cursor back past the first cell of the line.
THEOREM BackspaceCorrect == Spec => []BackspaceStaysInLine
  <1>1. Inv => BackspaceStaysInLine
    <2> SUFFICES ASSUME Inv, ~listing PROVE Pos >= origin
      BY DEF BackspaceStaysInLine
    <2>1. CursorOK /\ LineTypeOK
      BY TypeParts DEF Inv
    <2>2. Pos \in Nat
      BY <2>1, CellNumber DEF CursorOK, Pos
    <2>3. origin \in Nat /\ backspacable_counter \in Nat
      BY <2>1 DEF LineTypeOK
    <2> QED BY <2>2, <2>3 DEF Inv, ErasableCells
  <1> QED BY Invariance, <1>1, PTL

\* terminal_write prints from the line buffer only.
THEOREM WriteCorrect == Spec => WriteInBuffer
  <1>1. ASSUME Inv, NEW n \in WriteSizes, Write(n), n + LineMax <= BufSize
        PROVE  rval' <= BufSize
    BY <1>1, TerminalAssumption DEF Inv, TypeOK, Write
  <1>2. Inv => [\A n \in WriteSizes : (Write(n) /\ n + LineMax <= BufSize)
                                          => rval' <= BufSize]_vars
    BY <1>1
  <1> QED BY Invariance, <1>2, PTL DEF WriteInBuffer

\* What a read is about to return, and where it comes from.
ResultLoaded ==
    /\ pc \in {"zero", "unflag"} => Len(ubuf) = i
    /\ pc = "ret" => eax \in {-1, Len(ubuf), KBD_EOI, RTC_EOI}

\* Handlers and the reader keep it.
LEMMA ResultInv == Inv /\ ResultLoaded /\ [Next]_vars => ResultLoaded'
  <1> SUFFICES ASSUME Inv, ResultLoaded, [Next]_vars PROVE ResultLoaded'
    OBVIOUS
  <1>1. CASE Interrupt
    <2>1. Clobber(KBD_EOI) \/ Clobber(RTC_EOI)
      BY <1>1 DEF Interrupt, CtrlKey, CtrlL, DebugKey, Enter, Backspace, Tab, IgnoredKey,
                  RtcTick, Letter
    <2> QED BY <2>1 DEF Clobber, readVars, ResultLoaded
  <1>2. CASE \/ \E n \in WriteSizes : Write(n)
             \/ ShellRestart \/ KernelMessage \/ OtherRead \/ OtherReturns
             \/ \E n \in ReadSizes : ReadCall(n)
             \/ Stuck \/ UNCHANGED vars
    BY <1>2 DEF Write, ShellRestart, KernelMessage, OtherRead, OtherReturns, ReadCall, Goto,
                Stuck, vars, readVars, ResultLoaded
  <1>3. CASE ReadStep
    BY <1>3 DEF ReadStep, SpinLoad, SpinTest, CheckLoad, CheckTest, CheckFails, LoopLoad,
                LoopTest, BoundLoad, BoundTest, Copy, Wipe, Zero, Unflag, Ret, LoadEax,
                Branch, Goto, Inv, CopyLoop, ResultLoaded
  <1> QED BY <1>1, <1>2, <1>3 DEF Next

\* A read returns the number of bytes it stored, or a handler's EOI byte.
THEOREM ReadCountCorrect == Spec => ReadCountOrEoi
  <1>1. Init => ResultLoaded
    BY DEF Init, ResultLoaded
  <1>2. ResultLoaded /\ [Next]_vars =>
            [pc = "ret" /\ pc' = "user" => rval' \in {-1, Len(ubuf), KBD_EOI, RTC_EOI}]_vars
    <2> SUFFICES ASSUME ResultLoaded, Next, pc = "ret", pc' = "user"
                 PROVE  rval' \in {-1, Len(ubuf), KBD_EOI, RTC_EOI}
      BY DEF vars
    <2>1. ~Interrupt
      BY DEF Interrupt, CtrlKey, CtrlL, DebugKey, Enter, Backspace, Tab, IgnoredKey,
             RtcTick, Letter, Clobber, readVars
    <2>2. Ret
      BY <2>1 DEF Next, Write, ShellRestart, KernelMessage, OtherRead, OtherReturns, ReadCall,
                  Stuck, ReadStep, SpinLoad, SpinTest, CheckLoad, CheckTest, CheckFails,
                  LoopLoad, LoopTest, BoundLoad, BoundTest, Copy, Wipe, Zero, Unflag, LoadEax,
                  Branch
    <2> QED BY <2>2 DEF Ret, Goto, ResultLoaded
  <1> QED BY Invariance, ResultInv, <1>1, <1>2, PTL DEF Spec, ReadCountOrEoi
=============================================================================
