-------------------------------- MODULE Fish --------------------------------
(***************************************************************************)
(* The program fish (fish.c): add_frames reads two text files side by      *)
(* side, a byte at a time, and makes every cell that is not blank in one   *)
(* of them blink between the two; main then lets them blink, tick by tick  *)
(* of the clock, and changes the list between its waits.                   *)
(*                                                                         *)
(* A read of a byte is what FileSystem says a read is when no handler      *)
(* disturbs it: the byte at the position, nothing at the end, -1 in a bad  *)
(* block, and the position moves by what was returned.                     *)
(***************************************************************************)
EXTENDS Blink

CONSTANTS
    Offset,        \* the column of the frames on the screen (40)
    FrameLength,   \* on_length and off_length of their cells (15)
    WAIT,          \* ticks of a wait (200)
    WordSize,      \* values of a file position
    Blank, NL, Digit,        \* ' ', '\n' and '0'
    Frames,        \* pairs of files: bytes, positions in bad blocks, found or not
    Scripts        \* the requests main makes between its waits

Length == 0..(Short - 1)
AddRequests == [op : {"add"}, location : Nat, on_char : Glyph, off_char : Glyph,
                on_length : Length, off_length : Length]
RemoveRequests == [op : {"remove"}, location : Nat]
SyncRequests == [op : {"sync"}, from : Nat, to : Nat]

F == {0, 1}        \* frame0.txt, frame1.txt

ASSUME FishAssumption ==
    /\ Offset \in Nat \ {0} /\ FrameLength \in 0..(Short - 1) /\ WAIT \in Nat
    /\ {Blank, Digit} \subseteq Glyph /\ NL \notin Glyph
    /\ WordSize \in Nat
    /\ Scripts \subseteq Seq(AddRequests \cup RemoveRequests \cup SyncRequests)
    /\ \A frame \in Frames, f \in F :
          /\ frame[f].bytes \in Seq(Glyph \cup {NL})
          /\ Len(frame[f].bytes) < WordSize - 1
          /\ frame[f].bad \subseteq Nat
          /\ frame[f].found \in BOOLEAN

VARIABLES
    frame,         \* the files
    at,            \* where main is
    position,      \* fileposition of fd0 and fd1
    c,             \* c0 and c1
    eof,           \* eof0 and eof1
    row, col,      \* modulo a short, as they are only used in a location
    script, made,  \* the requests, and how many main has made
    ticks          \* i of main

fileVars == <<position, c, eof>>
vars == <<blinkVars, frame, at, fileVars, row, col, script, made, ticks>>

Init ==
    /\ BlinkInit
    /\ frame \in Frames
    /\ at = "open"
    /\ position = [f \in F |-> 0]
    /\ c = [f \in F |-> Digit]
    /\ eof = [f \in F |-> FALSE]
    /\ row = 0 /\ col = 0
    /\ script \in Scripts /\ made = 0
    /\ ticks = 0

\* A request to add: a structure that is in use and counts as free is handed out
\* again and then leads to itself; what becomes of the list is not followed.
AddRequest(r, then) ==
    \/ AddFails(r) /\ at' = then /\ UNCHANGED blinkVars
    \/ mp1_ioctl_add(r) /\ at' = IF mp1_malloc \in Listed THEN "lost" ELSE then

-----------------------------------------------------------------------------
(* add_frames *)

Open ==
    /\ at = "open"
    /\ at' = IF \A f \in F : frame[f].found THEN "row" ELSE "halted"
    /\ UNCHANGED <<blinkVars, frame, fileVars, row, col, script, made, ticks>>

AtEnd(f) == position[f] >= Len(frame[f].bytes)
BadAt(f) == position[f] \in frame[f].bad

\* Wrong: a read that fails is taken for the end, and the end is not.
SeesEndOnFailure(f) == ~AtEnd(f) /\ BadAt(f)

\* num_bytes == 0; a read that fails is not told from one that succeeds.
SeesEnd(f) == AtEnd(f)

\* A file is read until its line or the file has ended.
Reads(f) == c[f] # NL
NextByte(f) ==
    IF ~Reads(f) THEN c[f]
    ELSE IF SeesEnd(f) THEN NL
    ELSE IF AtEnd(f) \/ BadAt(f) THEN c[f] ELSE frame[f].bytes[position[f] + 1]
Returned(f) == IF ~Reads(f) \/ AtEnd(f) THEN 0 ELSE IF BadAt(f) THEN -1 ELSE 1

AsCell(byte) == IF byte = NL THEN Blank ELSE byte
CellLocation == (row * Width + col + Offset) % Short

\* One round of the inner loop.
Column ==
    /\ at = "row"
    /\ c' = [f \in F |-> NextByte(f)]
    /\ position' = [f \in F |-> (position[f] + Returned(f)) % WordSize]
    /\ eof' = [f \in F |-> eof[f] \/ (Reads(f) /\ SeesEnd(f))]
    /\ IF c'[0] = NL /\ c'[1] = NL
       THEN at' = "row_end" /\ UNCHANGED <<blinkVars, col>>
       ELSE /\ col' = (col + 1) % Short
            /\ IF \E f \in F : c'[f] \notin {Blank, NL}
               THEN AddRequest([location |-> CellLocation,
                                on_char |-> AsCell(c'[0]), off_char |-> AsCell(c'[1]),
                                on_length |-> FrameLength, off_length |-> FrameLength],
                               "row")
               ELSE at' = "row" /\ UNCHANGED blinkVars
    /\ UNCHANGED <<frame, row, script, made, ticks>>

LineStart(f) == IF eof[f] THEN NL ELSE Digit

\* Wrong: the next row does not start in its first column.
RowEndKeepsCol ==
    /\ at = "row_end"
    /\ c' = [f \in F |-> LineStart(f)]
    /\ row' = (row + 1) % Short
    /\ at' = IF eof[0] /\ eof[1] THEN "framed" ELSE "row"
    /\ UNCHANGED <<blinkVars, frame, position, eof, col, script, made, ticks>>

\* A file that has ended is closed, again after every row of the other one.
RowEnd ==
    /\ at = "row_end"
    /\ c' = [f \in F |-> LineStart(f)]
    /\ row' = (row + 1) % Short
    /\ col' = 0
    /\ at' = IF eof[0] /\ eof[1] THEN "framed" ELSE "row"
    /\ UNCHANGED <<blinkVars, frame, position, eof, script, made, ticks>>

-----------------------------------------------------------------------------
(* main *)

\* The clock's rate is set.
StartClock ==
    /\ at = "framed"
    /\ at' = "wait"
    /\ UNCHANGED <<blinkVars, frame, fileVars, row, col, script, made, ticks>>

Wait == IF made = Len(script) THEN Cells ELSE WAIT

Tick ==
    /\ at = "wait" /\ ticks < Wait
    /\ mp1_rtc_tasklet
    /\ ticks' = ticks + 1
    /\ UNCHANGED <<frame, at, fileVars, row, col, script, made>>

\* A request that fails changes nothing, and main does not look.
Request ==
    /\ at = "wait" /\ ticks = Wait /\ made < Len(script)
    /\ LET r == script[made + 1]
       IN  \/ r.op = "add" /\ AddRequest(r, "wait")
           \/ r.op = "remove" /\ at' = at
              /\ IF mp1_find_helper(r.location) = NULL THEN UNCHANGED blinkVars
                 ELSE mp1_ioctl_remove(r.location)
           \/ r.op = "sync" /\ at' = at
              /\ IF NULL \in {mp1_find_helper(r.from), mp1_find_helper(r.to)}
                 THEN UNCHANGED blinkVars ELSE mp1_ioctl_sync(r.from, r.to)
    /\ made' = made + 1
    /\ ticks' = 0
    /\ UNCHANGED <<frame, fileVars, row, col, script>>

Return ==
    /\ at = "wait" /\ ticks = Wait /\ made = Len(script)
    /\ at' = "done"
    /\ UNCHANGED <<blinkVars, frame, fileVars, row, col, script, made, ticks>>

Ended == at \in {"done", "halted", "lost"} /\ UNCHANGED vars

Step == Open \/ Column \/ RowEnd \/ StartClock \/ Tick \/ Request \/ Return
Next == Step \/ Ended

\* The program runs; the clock ticks (Interrupts has why a read of it returns).
Spec == Init /\ [][Next]_vars /\ WF_vars(Step)

-----------------------------------------------------------------------------
(* Correctness *)

\* Structures keep their shape and the screen's bounds, positions their word.
TypeOK ==
    /\ BlinkTypeOK
    /\ frame \in Frames
    /\ at \in {"open", "row", "row_end", "framed", "wait", "done", "halted", "lost"}
    /\ position \in [F -> 0..(WordSize - 1)]
    /\ c \in [F -> Glyph \cup {NL}]
    /\ eof \in [F -> BOOLEAN]
    /\ row \in 0..(Short - 1) /\ col \in 0..(Short - 1)
    /\ script \in Scripts /\ made \in 0..Len(script) /\ ticks \in 0..Wait

\* As long as no structure in use has been handed out again.
ListKept == at # "lost" => ListSound
ScreenKept == at # "lost" => ScreenShowsStatus

\* The frames, cell by cell: row and column of a byte of a file, and what a file
\* has there.
RowOf(bytes, k) == Cardinality({j \in 1..(k - 1) : bytes[j] = NL})
ColOf(bytes, k) == k - 1 - Max({0} \cup {j \in 1..(k - 1) : bytes[j] = NL})
PlaceOf(bytes, k) == <<RowOf(bytes, k), ColOf(bytes, k)>>
CharAt(bytes, p) ==
    LET here == {k \in 1..Len(bytes) : bytes[k] # NL /\ PlaceOf(bytes, k) = p}
    IN  IF here = {} THEN Blank ELSE bytes[CHOOSE k \in here : TRUE]
CellOf(p) ==
    [location |-> p[1] * Width + p[2] + Offset,
     on_char |-> CharAt(frame[0].bytes, p), off_char |-> CharAt(frame[1].bytes, p)]

\* The places on the screen that are not blank in both frames, and the number of
\* them that are read before a place.
VisibleCells ==
    {p \in Location \X Location :
        CellOf(p).location < Cells /\ \E f \in F : CharAt(frame[f].bytes, p) # Blank}
Before(p, q) == p[1] < q[1] \/ (p[1] = q[1] /\ p[2] < q[2])
Rank(p) == Cardinality({q \in VisibleCells : Before(q, p)})

\* The list, from its end, is the cells of these places in the order of reading,
\* as far as there is memory for them.
FromEnd(k) ==
    LET b == blink_array[order[Len(order) + 1 - k]]
    IN  [location |-> b.location, on_char |-> b.on_char, off_char |-> b.off_char]
ListIs(places) ==
    /\ Len(order) = IF Cardinality(places) < Cells THEN Cardinality(places) ELSE Cells
    /\ \A p \in places : Rank(p) < Cells => FromEnd(Rank(p) + 1) = CellOf(p)

\* No file is damaged, or so long that locations wrap.
Readable ==
    \A f \in F : frame[f].bad = {} /\ Len(frame[f].bytes) * Width + Offset < Short

\* add_frames has put every cell of the two files into the list, whatever the
\* lengths of their lines, however many lines each has and however they end.
FramesAdded == (at = "framed" /\ Readable) => ListIs(VisibleCells)

\* fish hands out a structure in use only if main has asked for a cell at
\* location 0, a file is damaged, or one is so long that locations wrap: other
\* frames never reach that location.
Excuse ==
    \/ \E k \in 1..made : script[k].op = "add" /\ script[k].location = 0
    \/ ~Readable
NeverLost == at = "lost" => Excuse

\* fish ends if its files can be read.
FishEnds ==
    (at = "open" /\ \A f \in F : frame[f].bad = {}) ~> at \in {"done", "halted", "lost"}

\* What these rest on.  A structure at location 0 is in use only with an excuse.
NoneAtZero == \A s \in InUse : blink_array[s].location = 0 => Excuse

\* A file whose line goes on is at the byte of this row and column; one whose
\* line has ended is behind a newline of this row, or at its own end.
Reading ==
    (at \in {"open", "row", "row_end"} /\ Readable) =>
        \A f \in F :
            LET bytes == frame[f].bytes
                n == position[f]
                stop == IF eof[f] THEN n + 1 ELSE n
            IN  /\ n <= Len(bytes)
                /\ c[f] # NL => ~eof[f] /\ at # "row_end" /\ PlaceOf(bytes, n + 1) = <<row, col>>
                /\ c[f] = NL =>
                      /\ IF eof[f] THEN n = Len(bytes)
                         ELSE n > 0 /\ bytes[n] = NL /\ RowOf(bytes, n) = row
                      /\ RowOf(bytes, stop) <= row
                      /\ at # "row_end" => Before(PlaceOf(bytes, stop), <<row, col>>)

\* The cells read so far are the list.
Drawn == {p \in VisibleCells : \/ at = "framed" \/ Before(p, <<row, col>>)
                               \/ at = "row_end" /\ p[1] = row}
Framing ==
    at \in {"open", "row", "row_end", "framed"} => made = 0 /\ (Readable => ListIs(Drawn))

\* The inductive invariant.
FishInv ==
    /\ TypeOK /\ Reading /\ NeverLost /\ Framing
    /\ at # "lost" => BlinkInv /\ NoneAtZero
=============================================================================
