------------------------------- MODULE Blink -------------------------------
(***************************************************************************)
(* The list of blinking characters of the program fish: blink.S, and the   *)
(* allocation of its structures in fish.c.  The structures are linked by   *)
(* pointers, newest first; one whose location is zero counts as free.      *)
(***************************************************************************)
EXTENDS Integers, Sequences, SequencesExt

CONSTANTS
    Width, Height,   \* columns and rows of the screen (80, 25)
    Short,           \* values of an unsigned short
    Glyph,           \* characters
    Zero             \* the zero byte

Cells == Width * Height      \* cells of the screen, and structures in blink_array
Slot == 1..Cells
NULL == 0
Location == 0..(Cells - 1)

ASSUME BlinkAssumption ==
    /\ Width \in Nat \ {0} /\ Height \in Nat \ {0}
    /\ Short \in Nat /\ Cells < Short
    /\ \E half \in 1..Short : Short = 2 * half
    /\ Zero \notin Glyph

Struct == [location : Location, on_char : Glyph \cup {Zero}, off_char : Glyph \cup {Zero},
           on_length : 0..(Short - 1), off_length : 0..(Short - 1),
           countdown : 0..(Short - 1), status : {0, 1}, next : Slot \cup {NULL}]

VARIABLES
    blink_array,     \* slot -> structure
    mp1_list_head,   \* the newest structure of the list, or NULL
    vmem,            \* location -> character on the screen
    order,           \* history: the slots in use, newest first
    age,             \* history: slot -> ticks since its status changed
    shown            \* history: location -> slot whose character was put there

blinkVars == <<blink_array, mp1_list_head, vmem, order, age, shown>>

Freed == [location |-> 0, on_char |-> Zero, off_char |-> Zero, on_length |-> 0,
          off_length |-> 0, countdown |-> 0, status |-> 0, next |-> NULL]

BlinkInit ==
    /\ blink_array = [s \in Slot |-> Freed]
    /\ mp1_list_head = NULL
    /\ vmem = [l \in Location |-> Zero]
    /\ order = <<>> /\ age = [s \in Slot |-> 0]
    /\ shown = [l \in Location |-> NULL]

-----------------------------------------------------------------------------
(* Following the pointers *)

\* The n-th structure of the list, counted from 0.
Walk[n \in 0..Cells] ==
    IF n = 0 THEN mp1_list_head
    ELSE IF Walk[n - 1] = NULL THEN NULL ELSE blink_array[Walk[n - 1]].next

Listed == {s \in Slot : \E n \in 0..Cells : Walk[n] = s}

\* The first structure at a location, which it takes modulo a
\* short.
mp1_find_helper(l) ==
    LET hits == {n \in 0..Cells : /\ Walk[n] # NULL
                                  /\ blink_array[Walk[n]].location = l % Short}
    IN  IF hits = {} THEN NULL ELSE Walk[Min(hits)]

\* Wrong: a structure whose character is off counts as free.
mp1_malloc_off ==
    LET free == {s \in Slot : blink_array[s].status = 0}
    IN  IF free = {} THEN NULL ELSE Min(free)

mp1_malloc ==
    LET free == {s \in Slot : blink_array[s].location = 0}
    IN  IF free = {} THEN NULL ELSE Min(free)

-----------------------------------------------------------------------------
(* mp1_ioctl *)

\* Wrong: the cell behind the last one is accepted.
AddFailsLate(r) == r.location > Cells \/ mp1_malloc = NULL

AddFails(r) == r.location >= Cells \/ mp1_malloc = NULL

\* The structure goes to the front, on, and is shown.
mp1_ioctl_add(r) ==
    LET s == mp1_malloc
    IN  /\ ~AddFails(r)
        /\ blink_array' = [blink_array EXCEPT ![s] =
              [location |-> r.location, on_char |-> r.on_char, off_char |-> r.off_char,
               on_length |-> r.on_length, off_length |-> r.off_length,
               countdown |-> r.on_length, status |-> 1, next |-> mp1_list_head]]
        /\ mp1_list_head' = s
        /\ vmem' = [vmem EXCEPT ![r.location] = r.on_char]
        /\ order' = <<s>> \o order
        /\ age' = [age EXCEPT ![s] = 0] /\ shown' = [shown EXCEPT ![r.location] = s]

\* Wrong: the list ends at the structure taken out.
UnlinkedEnd(s, pointer) == IF pointer = s THEN NULL ELSE pointer

\* What becomes of the pointer that leads to s when s is taken out.
Unlinked(s, pointer) == IF pointer = s THEN blink_array[s].next ELSE pointer

\* The first structure at the location is taken out and freed;
\* its character stays on the screen.
mp1_ioctl_remove(l) ==
    LET s == mp1_find_helper(l)
    IN  /\ s # NULL
        /\ mp1_list_head' = Unlinked(s, mp1_list_head)
        /\ blink_array' = [t \in Slot |->
              IF t = s THEN Freed ELSE [blink_array[t] EXCEPT !.next = Unlinked(s, @)]]
        /\ order' = RemoveAt(order, CHOOSE k \in 1..Len(order) : order[k] = s)
        /\ age' = [age EXCEPT ![s] = 0]
        /\ shown' = [k \in Location |-> IF shown[k] = s THEN NULL ELSE shown[k]]
        /\ UNCHANGED vmem

\* The second structure continues as the first does.  The
\* conditional move behind its test is never taken (a test leaves no sign and no
\* overflow), so the off character is shown whatever the status is.
mp1_ioctl_sync(from, to) ==
    LET a == mp1_find_helper(from)
        b == mp1_find_helper(to)
        src == blink_array[a]
    IN  /\ a # NULL /\ b # NULL
        /\ blink_array' = [blink_array EXCEPT
              ![b].on_length = src.on_length, ![b].off_length = src.off_length,
              ![b].countdown = src.countdown, ![b].status = src.status]
        /\ vmem' = [vmem EXCEPT ![blink_array[b].location] = blink_array[b].off_char]
        /\ age' = [age EXCEPT ![b] = age[a]]
        /\ shown' = [shown EXCEPT ![blink_array[b].location] = NULL]
        /\ UNCHANGED <<mp1_list_head, order>>

-----------------------------------------------------------------------------
(* A tick *)

Decremented(s) == (blink_array[s].countdown - 1) % Short

\* Wrong: the countdown goes on at zero.
ExpiredLate(s) == Decremented(s) \notin 0..(Short \div 2 - 1)

\* jg: the countdown is compared with zero as a signed number.
Expired(s) == Decremented(s) \notin 1..(Short \div 2 - 1)

\* Wrong: the character of the state that ends is shown again.
NextCharSame(s) ==
    IF blink_array[s].status = 1 THEN blink_array[s].on_char ELSE blink_array[s].off_char

NextChar(s) ==
    IF blink_array[s].status = 1 THEN blink_array[s].off_char ELSE blink_array[s].on_char
NextLength(s) ==
    IF blink_array[s].status = 1 THEN blink_array[s].off_length ELSE blink_array[s].on_length

\* The structure whose character is the last that a walk puts at a location.
LastPoke(l) ==
    LET hits == {n \in 0..Cells : /\ Walk[n] # NULL /\ Expired(Walk[n])
                                  /\ blink_array[Walk[n]].location = l}
    IN  IF hits = {} THEN NULL ELSE Walk[Max(hits)]

mp1_rtc_tasklet ==
    /\ blink_array' = [s \in Slot |->
          IF s \notin Listed THEN blink_array[s]
          ELSE IF Expired(s)
          THEN [blink_array[s] EXCEPT !.countdown = NextLength(s), !.status = 1 - @]
          ELSE [blink_array[s] EXCEPT !.countdown = Decremented(s)]]
    /\ vmem' = [l \in Location |->
          IF LastPoke(l) = NULL THEN vmem[l] ELSE NextChar(LastPoke(l))]
    /\ age' = [s \in Slot |-> IF s \notin Listed \/ Expired(s) THEN 0 ELSE age[s] + 1]
    /\ shown' = [l \in Location |-> IF LastPoke(l) = NULL THEN shown[l] ELSE LastPoke(l)]
    /\ UNCHANGED <<mp1_list_head, order>>

-----------------------------------------------------------------------------
(* Correctness *)

\* Structures keep their shape and the screen its bounds.
BlinkTypeOK ==
    /\ blink_array \in [Slot -> Struct]
    /\ mp1_list_head \in Slot \cup {NULL}
    /\ vmem \in [Location -> Glyph \cup {Zero}]
    /\ order \in Seq(Slot)
    /\ age \in [Slot -> 0..(Short - 1)]
    /\ shown \in [Location -> Slot \cup {NULL}]

InUse == {order[k] : k \in 1..Len(order)}

\* The pointers lead through the structures in use, newest first, each once,
\* and end; no structure is lost, whatever is removed, and none in use is free.
ListSound ==
    /\ \A n \in 0..Cells : Walk[n] = IF n < Len(order) THEN order[n + 1] ELSE NULL
    /\ \A j, k \in 1..Len(order) : order[j] = order[k] => j = k
    /\ \A s \in Slot : blink_array[s].location # 0 => s \in InUse

\* The screen shows, where a structure's character was put last, the character
\* of its status, and no tick that changes a status leaves the old one there:
\* only mp1_ioctl_sync shows the wrong one, until the structure changes again.
ScreenShowsStatus ==
    \A l \in Location : shown[l] # NULL =>
        LET b == blink_array[shown[l]]
        IN  /\ shown[l] \in Listed /\ b.location = l
            /\ vmem[l] = IF b.status = 1 THEN b.on_char ELSE b.off_char

\* For how many ticks a length keeps a character: 0, and lengths over half of
\* a short's range, are as good as 1; exactly the half is not.
Lasts(len) == IF len \in 1..(Short \div 2) THEN len ELSE 1
StatusLength(b) == IF b.status = 1 THEN b.on_length ELSE b.off_length

\* A tick changes a structure's status exactly when its character has been there
\* for the ticks its length asks for, also if it was synchronised with another.
BlinksOnTime ==
    [][mp1_rtc_tasklet => \A s \in Listed :
          blink_array'[s].status # blink_array[s].status
              <=> age[s] + 1 = Lasts(StatusLength(blink_array[s]))]_blinkVars

\* What these rest on.  The links of the structures in use.
Chained ==
    /\ mp1_list_head = IF order = <<>> THEN NULL ELSE order[1]
    /\ \A k \in 1..Len(order) :
          blink_array[order[k]].next = IF k < Len(order) THEN order[k + 1] ELSE NULL
    /\ \A j, k \in 1..Len(order) : order[j] = order[k] => j = k
    /\ \A s \in Slot : blink_array[s].location # 0 => s \in InUse

\* ScreenShowsStatus, without following the pointers.
Displayed ==
    \A l \in Location : shown[l] # NULL =>
        LET b == blink_array[shown[l]]
        IN  /\ shown[l] \in InUse /\ b.location = l
            /\ vmem[l] = IF b.status = 1 THEN b.on_char ELSE b.off_char

\* The countdown is what is left of the length.
Counting ==
    \A s \in InUse :
        LET len == StatusLength(blink_array[s])
        IN  blink_array[s].countdown = len - age[s] /\ age[s] < Lasts(len)

BlinkInv == Chained /\ Displayed /\ Counting
=============================================================================
