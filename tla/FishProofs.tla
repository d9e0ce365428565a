----------------------------- MODULE FishProofs -----------------------------
(***************************************************************************)
(* The properties of fish for any screen, any two files and any requests:  *)
(* the list, the screen and the countdowns stay in order as long as no     *)
(* structure in use is handed out again, the frames alone never bring that *)
(* about, and they are in the list as the two files have them.             *)
(***************************************************************************)
EXTENDS Fish, BlinkProofs

-----------------------------------------------------------------------------
(* Constants and arithmetic *)

LEMMA SmallRemainder ==
    ASSUME NEW w \in Nat \ {0}, NEW x \in Nat, x < w PROVE x % w = x
  OBVIOUS
LEMMA Remainder ==
    ASSUME NEW w \in Nat \ {0}, NEW x \in Int PROVE x % w \in 0..(w - 1)
  OBVIOUS

\* A cell's number does not exceed that of a file all of whose bytes are lines.
LEMMA CellBound ==
    ASSUME NEW w \in Nat \ {0}, NEW r \in Nat, NEW q \in Nat, NEW n \in Nat, r + q <= n
    PROVE  r * w \in Nat /\ r * w + q <= n * w
  <1>1. r * w \in Nat /\ q * w \in Nat /\ n * w \in Nat /\ q <= q * w
    OBVIOUS
  <1>2. PICK d \in Nat : n = r + q + d
    <2>1. n - (r + q) \in Nat /\ n = r + q + (n - (r + q))
      OBVIOUS
    <2> QED BY <2>1
  <1>3. n * w = r * w + q * w + d * w /\ d * w \in Nat
    BY <1>2
  <1> QED BY <1>1, <1>3

LEMMA FrameFacts ==
    ASSUME frame \in Frames, NEW f \in F
    PROVE  /\ frame[f].bytes \in Seq(Glyph \cup {NL}) /\ Len(frame[f].bytes) \in Nat
           /\ WordSize \in Nat \ {0} /\ Len(frame[f].bytes) < WordSize - 1
           /\ frame[f].bad \subseteq Nat
  BY FishAssumption

LEMMA FishConstants ==
    /\ Offset \in Nat \ {0} /\ FrameLength \in 0..(Short - 1) /\ WAIT \in Nat
    /\ Blank \in Glyph /\ Digit \in Glyph /\ NL \notin Glyph /\ Blank # NL /\ Digit # NL
    /\ F = {0, 1}
  BY FishAssumption DEF F

\* A request of main.
LEMMA RequestFacts ==
    ASSUME script \in Scripts, NEW k \in 1..Len(script)
    PROVE  script[k].op = "add" => Requested(script[k])
  <1>1. script[k] \in AddRequests \cup RemoveRequests \cup SyncRequests
    BY FishAssumption
  <1> QED BY <1>1 DEF AddRequests, RemoveRequests, SyncRequests, Requested, Length

\* What excuses a structure that is handed out twice stays with the files, and
\* with the requests that have been made.
LEMMA ExcuseKept ==
    ASSUME UNCHANGED <<script, frame>>,
           made' = made \/ (made \in Nat /\ made' = made + 1)
    PROVE  (Excuse => Excuse') /\ (made' = made => (Excuse' <=> Excuse))
  <1>1. Readable' = Readable
    BY DEF Readable
  <1>2. 1..made \subseteq 1..made'
    OBVIOUS
  <1> QED BY <1>1, <1>2 DEF Excuse

\* Steps that leave the list alone.
LEMMA ListStutter ==
    ASSUME UNCHANGED <<blink_array, mp1_list_head, vmem, order, age, shown>>, Excuse => Excuse'
    PROVE  (BlinkTypeOK => BlinkTypeOK') /\ (BlinkInv => BlinkInv') /\ (NoneAtZero => NoneAtZero')
  <1>1. InUse' = InUse
    BY DEF InUse
  <1>2. BlinkTypeOK => BlinkTypeOK'
    BY DEF BlinkTypeOK
  <1>3. Chained => Chained'
    BY <1>1 DEF Chained
  <1>4. (Displayed => Displayed') /\ (Counting => Counting')
    BY <1>1 DEF Displayed, Counting
  <1>5. NoneAtZero => NoneAtZero'
    BY <1>1 DEF NoneAtZero
  <1> QED BY <1>2, <1>3, <1>4, <1>5 DEF BlinkInv

-----------------------------------------------------------------------------
(* Rows and columns of a text *)

Newlines(b, k) == {j \in 1..(k - 1) : b[j] = NL}
LastNewline(b, k) == Max({0} \cup Newlines(b, k))

LEMMA NewlineFacts ==
    ASSUME NEW b, NEW k \in Nat \ {0}
    PROVE  /\ IsFiniteSet(Newlines(b, k)) /\ RowOf(b, k) = Cardinality(Newlines(b, k))
           /\ RowOf(b, k) \in Nat
           /\ LastNewline(b, k) \in {0} \cup Newlines(b, k) /\ LastNewline(b, k) \in 0..(k - 1)
           /\ \A j \in Newlines(b, k) : j \in Nat /\ j <= LastNewline(b, k)
           /\ ColOf(b, k) = k - 1 - LastNewline(b, k) /\ ColOf(b, k) \in Nat
  <1> DEFINE S == {0} \cup Newlines(b, k)
  <1>1. Newlines(b, k) \subseteq 1..(k - 1) /\ k - 1 \in Nat
    BY DEF Newlines
  <1>2. IsFiniteSet(1..(k - 1))
    BY <1>1, FS_Interval
  <1>3. IsFiniteSet(Newlines(b, k))
    BY <1>1, <1>2, FS_Subset
  <1>4. RowOf(b, k) = Cardinality(Newlines(b, k)) /\ RowOf(b, k) \in Nat
    BY <1>3, FS_CardinalityType DEF RowOf, Newlines
  <1>5. S \in SUBSET (0..(k - 1)) /\ S # {}
    BY <1>1
  <1>6. Max(S) \in S /\ \A e \in S : Max(S) >= e
    BY <1>1, <1>5, MaxExists
  <1>7. LastNewline(b, k) = Max(S)
    BY DEF LastNewline
  <1>8. ColOf(b, k) = k - 1 - LastNewline(b, k)
    BY DEF ColOf, LastNewline, Newlines
  <1>9. LastNewline(b, k) \in 0..(k - 1)
    BY <1>5, <1>6, <1>7
  <1>10. \A j \in Newlines(b, k) : j \in Nat /\ j <= LastNewline(b, k)
    BY <1>1, <1>6, <1>7, <1>9
  <1> HIDE DEF S
  <1>11. ColOf(b, k) \in Nat
    BY <1>1, <1>8, <1>9
  <1> QED BY <1>3, <1>4, <1>6, <1>7, <1>8, <1>9, <1>10, <1>11 DEF S

LEMMA FirstPlace == ASSUME NEW b PROVE RowOf(b, 1) = 0 /\ ColOf(b, 1) = 0
  <1>1. Newlines(b, 1) = {}
    BY DEF Newlines
  <1>2. RowOf(b, 1) = 0
    BY <1>1, NewlineFacts, FS_EmptySet
  <1>3. LastNewline(b, 1) = 0
    BY <1>1, NewlineFacts
  <1> QED BY <1>2, <1>3, NewlineFacts

\* Rows grow, by one behind each newline.
LEMMA RowsGrow ==
    ASSUME NEW b, NEW j \in Nat \ {0}, NEW k \in Nat \ {0}, j <= k
    PROVE  /\ RowOf(b, j) <= RowOf(b, k)
           /\ \A i \in j..(k - 1) : b[i] = NL => RowOf(b, j) < RowOf(b, k)
  <1>1. Newlines(b, j) \subseteq Newlines(b, k)
    BY DEF Newlines
  <1>2. /\ RowOf(b, j) <= RowOf(b, k)
        /\ RowOf(b, j) = RowOf(b, k) => Newlines(b, j) = Newlines(b, k)
    BY <1>1, NewlineFacts, FS_Subset
  <1>3. ASSUME NEW i \in j..(k - 1), b[i] = NL PROVE RowOf(b, j) < RowOf(b, k)
    <2>1. i \in Newlines(b, k) /\ i \notin Newlines(b, j)
      BY <1>3 DEF Newlines
    <2> QED BY <1>2, <2>1, NewlineFacts
  <1> QED BY <1>2, <1>3

LEMMA NextRow ==
    ASSUME NEW b, NEW k \in Nat \ {0}, b[k] = NL
    PROVE  RowOf(b, k + 1) = RowOf(b, k) + 1 /\ ColOf(b, k + 1) = 0
  <1>1. Newlines(b, k + 1) = Newlines(b, k) \cup {k} /\ k \notin Newlines(b, k)
    BY DEF Newlines
  <1>2. RowOf(b, k + 1) = RowOf(b, k) + 1
    BY <1>1, NewlineFacts, FS_AddElement
  <1>3. LastNewline(b, k + 1) = k
    <2>1. k + 1 \in Nat \ {0} /\ k \in Newlines(b, k + 1)
      BY <1>1
    <2>2. k <= LastNewline(b, k + 1) /\ LastNewline(b, k + 1) \in 0..(k + 1 - 1)
      BY <2>1, NewlineFacts
    <2> QED BY <2>2
  <1>4. ColOf(b, k + 1) = k + 1 - 1 - LastNewline(b, k + 1)
    BY NewlineFacts
  <1> QED BY <1>2, <1>3, <1>4

\* In a row, columns count the bytes.
LEMMA SameRow ==
    ASSUME NEW b, NEW j \in Nat \ {0}, NEW k \in Nat \ {0}, j <= k, RowOf(b, j) = RowOf(b, k)
    PROVE  ColOf(b, k) = ColOf(b, j) + (k - j)
  <1>1. Newlines(b, j) = Newlines(b, k)
    <2>1. ASSUME NEW i \in Newlines(b, k) PROVE i \in Newlines(b, j)
      <3>1. i \in 1..(k - 1) /\ b[i] = NL
        BY <2>1 DEF Newlines
      <3>2. ~ (i >= j)
        <4> SUFFICES ASSUME i >= j PROVE FALSE
          OBVIOUS
        <4>1. i \in j..(k - 1)
          BY <3>1
        <4>2. RowOf(b, j) < RowOf(b, k)
          BY <3>1, <4>1, RowsGrow
        <4> QED BY <4>2, NewlineFacts
      <3> QED BY <3>1, <3>2 DEF Newlines
    <2>2. Newlines(b, j) \subseteq Newlines(b, k)
      BY DEF Newlines
    <2> QED BY <2>1, <2>2
  <1>2. LastNewline(b, j) = LastNewline(b, k)
    BY <1>1 DEF LastNewline
  <1>3. ColOf(b, k) = k - 1 - LastNewline(b, k) /\ ColOf(b, j) = j - 1 - LastNewline(b, j)
        /\ LastNewline(b, k) \in Nat
    BY NewlineFacts
  <1> QED BY <1>2, <1>3

LEMMA NextColumn ==
    ASSUME NEW b, NEW k \in Nat \ {0}, b[k] # NL
    PROVE  RowOf(b, k + 1) = RowOf(b, k) /\ ColOf(b, k + 1) = ColOf(b, k) + 1
  <1>1. Newlines(b, k + 1) = Newlines(b, k)
    BY DEF Newlines
  <1>2. RowOf(b, k + 1) = RowOf(b, k)
    BY <1>1, NewlineFacts
  <1>3. ColOf(b, k + 1) = ColOf(b, k) + (k + 1 - k)
    BY <1>2, SameRow
  <1> QED BY <1>2, <1>3, NewlineFacts

\* A byte is behind one for each row before and each column of its row.
LEMMA PlaceBound ==
    ASSUME NEW b, NEW k \in Nat \ {0} PROVE RowOf(b, k) + ColOf(b, k) <= k - 1
  <1> DEFINE l == LastNewline(b, k)
  <1>1. Newlines(b, k) \subseteq 1..l /\ l \in Nat /\ l <= k - 1 /\ ColOf(b, k) = k - 1 - l
    <2>1. \A j \in Newlines(b, k) : j \in 1..(k - 1)
      BY DEF Newlines
    <2> QED BY <2>1, NewlineFacts
  <1> HIDE DEF l
  <1>2. IsFiniteSet(1..l) /\ Cardinality(1..l) = l
    <2>1. Cardinality(1..l) = IF 1 > l THEN 0 ELSE l - 1 + 1
      BY <1>1, FS_Interval
    <2> QED BY <1>1, <2>1, FS_Interval
  <1>3. RowOf(b, k) <= l
    BY <1>1, <1>2, NewlineFacts, FS_Subset
  <1> QED BY <1>1, <1>3, NewlineFacts

\* The bytes a file has at a place: at most one.
Here(b, p) == {k \in 1..Len(b) : b[k] # NL /\ PlaceOf(b, k) = p}

LEMMA OneHere ==
    ASSUME NEW b, Len(b) \in Nat, NEW p, NEW j \in Here(b, p), NEW k \in Here(b, p) PROVE j = k
  <1>1. /\ j \in Nat \ {0} /\ k \in Nat \ {0}
        /\ PlaceOf(b, j) = p /\ PlaceOf(b, k) = p
    BY DEF Here
  <1>2. RowOf(b, j) = RowOf(b, k) /\ ColOf(b, j) = ColOf(b, k)
    BY <1>1 DEF PlaceOf
  <1>3. ColOf(b, j) \in Nat /\ ColOf(b, k) \in Nat
    BY <1>1, NewlineFacts
  <1>4. CASE j <= k
    <2>1. ColOf(b, k) = ColOf(b, j) + (k - j)
      BY <1>1, <1>2, <1>4, SameRow
    <2> QED BY <1>1, <1>2, <1>3, <2>1
  <1>5. CASE k <= j
    <2>1. ColOf(b, j) = ColOf(b, k) + (j - k)
      BY <1>1, <1>2, <1>5, SameRow
    <2> QED BY <1>1, <1>2, <1>3, <2>1
  <1> QED BY <1>1, <1>4, <1>5

LEMMA CharAtFacts ==
    ASSUME NEW b, Len(b) \in Nat, NEW p
    PROVE  /\ CharAt(b, p) # Blank => Here(b, p) # {}
           /\ \A k \in Here(b, p) : CharAt(b, p) = b[k]
  <1>1. CharAt(b, p) = IF Here(b, p) = {} THEN Blank ELSE b[CHOOSE k \in Here(b, p) : TRUE]
    BY DEF CharAt, Here
  <1>2. ASSUME NEW k \in Here(b, p) PROVE CharAt(b, p) = b[k]
    <2>1. (CHOOSE j \in Here(b, p) : TRUE) \in Here(b, p)
      BY <1>2
    <2>2. (CHOOSE j \in Here(b, p) : TRUE) = k
      BY <2>1, OneHere
    <2> QED BY <1>1, <2>2
  <1> QED BY <1>1, <1>2

\* At the place of a byte that ends no line, a text has that byte.
LEMMA CharRead ==
    ASSUME NEW b, Len(b) \in Nat, NEW k \in 1..Len(b), b[k] # NL
    PROVE  CharAt(b, PlaceOf(b, k)) = b[k]
  <1>1. k \in Here(b, PlaceOf(b, k))
    BY DEF Here
  <1> QED BY <1>1, CharAtFacts

\* A text has nothing behind the end of a line, and nothing behind its own end.
LEMMA CharsBefore ==
    ASSUME NEW b, Len(b) \in Nat, NEW e \in 1..(Len(b) + 1), NEW p, CharAt(b, p) # Blank,
           e = Len(b) + 1 \/ (b[e] = NL /\ p[1] = RowOf(b, e))
    PROVE  Before(p, PlaceOf(b, e)) /\ p[1] <= RowOf(b, e)
  <1>1. PICK k \in Here(b, p) : TRUE
    BY CharAtFacts
  <1>2. k \in 1..Len(b) /\ k \in Nat \ {0} /\ e \in Nat \ {0} /\ b[k] # NL /\ PlaceOf(b, k) = p
    BY DEF Here
  <1>3. p[1] = RowOf(b, k) /\ p[2] = ColOf(b, k)
    BY <1>2 DEF PlaceOf
  <1>4. RowOf(b, k) \in Nat /\ RowOf(b, e) \in Nat /\ ColOf(b, k) \in Nat /\ ColOf(b, e) \in Nat
    BY <1>2, NewlineFacts
  <1>5. k < e
    <2> SUFFICES ASSUME ~ (k < e) PROVE FALSE
      OBVIOUS
    <2>1. b[e] = NL /\ p[1] = RowOf(b, e) /\ e < k
      BY <1>2
    <2>2. RowOf(b, e) < RowOf(b, k)
      <3>1. e \in e..(k - 1) /\ e <= k
        BY <1>2, <2>1
      <3> QED BY <1>2, <2>1, <3>1, RowsGrow
    <2> QED BY <1>3, <1>4, <2>1, <2>2
  <1>6. RowOf(b, k) <= RowOf(b, e)
    BY <1>2, <1>5, RowsGrow
  <1>7. RowOf(b, k) = RowOf(b, e) => ColOf(b, k) < ColOf(b, e)
    <2> HAVE RowOf(b, k) = RowOf(b, e)
    <2>1. ColOf(b, e) = ColOf(b, k) + (e - k)
      BY <1>2, <1>5, SameRow
    <2> QED BY <1>2, <1>4, <1>5, <2>1
  <1> QED BY <1>3, <1>4, <1>6, <1>7 DEF Before, PlaceOf

-----------------------------------------------------------------------------
(* The memory of the list *)

LEMMA SlotsCounted ==
    ASSUME BlinkTypeOK
    PROVE  /\ order \in [1..Len(order) -> Slot] /\ Len(order) \in Nat
           /\ IsFiniteSet(1..Len(order)) /\ Cardinality(1..Len(order)) = Len(order)
           /\ IsFiniteSet(Slot) /\ Cardinality(Slot) = Cells
  <1>1. order \in [1..Len(order) -> Slot] /\ Len(order) \in Nat
    BY DEF BlinkTypeOK
  <1>2. IsFiniteSet(1..Len(order)) /\ Cardinality(1..Len(order)) = Len(order)
    <2>1. Cardinality(1..Len(order)) = IF 1 > Len(order) THEN 0 ELSE Len(order) - 1 + 1
      BY <1>1, FS_Interval
    <2> QED BY <1>1, <2>1, FS_Interval
  <1>3. IsFiniteSet(1..Cells) /\ Cardinality(1..Cells) = Cells
    <2>1. Cardinality(1..Cells) = IF 1 > Cells THEN 0 ELSE Cells - 1 + 1
      BY Sizes, FS_Interval
    <2> QED BY Sizes, <2>1, FS_Interval
  <1> QED BY <1>1, <1>2, <1>3 DEF Slot

\* As long as the list is shorter than blink_array, a structure is free.
LEMMA MemoryLeft ==
    ASSUME BlinkTypeOK, Chained, Len(order) < Cells PROVE mp1_malloc # NULL
  <1> SUFFICES ASSUME mp1_malloc = NULL PROVE FALSE
    OBVIOUS
  <1> DEFINE free == {s \in Slot : blink_array[s].location = 0}
  <1>1. free = {}
    <2> SUFFICES ASSUME free # {} PROVE FALSE
      OBVIOUS
    <2>1. free \in SUBSET Nat
      BY Sizes
    <2>2. Min(free) \in free
      BY <2>1, MinExists
    <2> QED BY <2>2, Sizes DEF mp1_malloc
  <1>2. \A s \in Slot : \E k \in 1..Len(order) : order[k] = s
    BY <1>1 DEF Chained, InUse
  <1>3. order \in Surjection(1..Len(order), Slot)
    BY <1>2, SlotsCounted DEF Surjection
  <1>4. Cells <= Len(order)
    BY <1>3, SlotsCounted, FS_Surjection
  <1> QED BY <1>4, SlotsCounted, Sizes

\* A list as long as blink_array uses all of it, and nothing is left if no
\* structure in use counts as free.
LEMMA MemoryFull ==
    ASSUME BlinkTypeOK, Chained, Len(order) = Cells, \A s \in InUse : blink_array[s].location # 0
    PROVE  mp1_malloc = NULL
  <1> SUFFICES ASSUME mp1_malloc # NULL PROVE FALSE
    OBVIOUS
  <1>1. order \in Injection(1..Len(order), Slot)
    BY SlotsCounted DEF Chained, Injection, IsInjective
  <1>2. order \in Surjection(1..Len(order), Slot)
    BY <1>1, SlotsCounted, FS_Injection
  <1>3. mp1_malloc \in Slot /\ blink_array[mp1_malloc].location = 0
    BY MallocFacts
  <1>4. \E k \in 1..Len(order) : order[k] = mp1_malloc
    BY <1>2, <1>3 DEF Surjection
  <1>5. mp1_malloc \in InUse
    BY <1>4 DEF InUse
  <1> QED BY <1>3, <1>5

-----------------------------------------------------------------------------
(* The order of reading *)

\* The cells that are read before a place.
Earlier(P) == {q \in VisibleCells : Before(q, P)}

LEMMA VisibleFacts ==
    /\ IsFiniteSet(VisibleCells)
    /\ \A p \in VisibleCells : /\ p[1] \in Nat /\ p[2] \in Nat /\ p = <<p[1], p[2]>>
                               /\ CellOf(p).location < Cells
                               /\ \E f \in F : CharAt(frame[f].bytes, p) # Blank
  <1>1. IsFiniteSet(Location \X Location)
    <2>1. IsFiniteSet(Location)
      <3>1. 0 \in Int /\ Cells - 1 \in Int
        BY Sizes
      <3> QED BY <3>1, FS_Interval DEF Location
    <2> QED BY <2>1, FS_Product
  <1>2. VisibleCells \subseteq Location \X Location
    BY DEF VisibleCells
  <1>3. IsFiniteSet(VisibleCells)
    BY <1>1, <1>2, FS_Subset
  <1>4. Location \subseteq Nat
    BY Sizes DEF Location
  <1>5. \A p \in VisibleCells : p[1] \in Nat /\ p[2] \in Nat /\ p = <<p[1], p[2]>>
    <2> TAKE p \in VisibleCells
    <2>1. p \in Location \X Location
      BY <1>2
    <2>2. PICK a \in Location, b \in Location : p = <<a, b>>
      BY <2>1
    <2> QED BY <1>4, <2>2
  <1>6. \A p \in VisibleCells : /\ CellOf(p).location < Cells
                                /\ \E f \in F : CharAt(frame[f].bytes, p) # Blank
    BY DEF VisibleCells
  <1> QED BY <1>3, <1>5, <1>6

LEMMA RankFacts ==
    ASSUME NEW P, P[1] \in Nat, P[2] \in Nat
    PROVE  /\ IsFiniteSet(Earlier(P)) /\ Cardinality(Earlier(P)) \in Nat
           /\ Rank(P) = Cardinality(Earlier(P)) /\ P \notin Earlier(P)
           /\ \A p \in Earlier(P) : Rank(p) \in Nat /\ Rank(p) < Cardinality(Earlier(P))
  <1>1. \A Q : IsFiniteSet(Earlier(Q)) /\ Cardinality(Earlier(Q)) \in Nat
    <2> TAKE Q
    <2>1. Earlier(Q) \subseteq VisibleCells
      BY DEF Earlier
    <2> QED BY <2>1, VisibleFacts, FS_Subset, FS_CardinalityType
  <1>2. \A Q : Rank(Q) = Cardinality(Earlier(Q))
    BY DEF Rank, Earlier
  <1>3. P \notin Earlier(P)
    BY DEF Earlier, Before
  <1>4. ASSUME NEW p \in Earlier(P) PROVE Rank(p) \in Nat /\ Rank(p) < Cardinality(Earlier(P))
    <2>1. p[1] \in Nat /\ p[2] \in Nat /\ Before(p, P)
      BY <1>4, VisibleFacts DEF Earlier
    <2>2. Earlier(p) \subseteq Earlier(P)
      <3>1. ASSUME NEW q \in Earlier(p) PROVE q \in Earlier(P)
        <4>1. q \in VisibleCells /\ q[1] \in Nat /\ q[2] \in Nat /\ Before(q, p)
          BY <3>1, VisibleFacts DEF Earlier
        <4>2. Before(q, P)
          BY <2>1, <4>1 DEF Before
        <4> QED BY <4>1, <4>2 DEF Earlier
      <3> QED BY <3>1
    <2>3. p \notin Earlier(p)
      BY <2>1 DEF Earlier, Before
    <2>4. /\ Cardinality(Earlier(p)) <= Cardinality(Earlier(P))
          /\ Cardinality(Earlier(P)) = Cardinality(Earlier(p)) => Earlier(P) = Earlier(p)
      BY <1>1, <2>2, FS_Subset
    <2>5. Cardinality(Earlier(p)) \in Nat /\ Cardinality(Earlier(P)) \in Nat
      BY <1>1
    <2> QED BY <1>2, <1>4, <2>3, <2>4, <2>5
  <1> QED BY <1>1, <1>2, <1>3, <1>4

\* The cells depend on the files alone.
LEMMA CellsKept ==
    ASSUME UNCHANGED frame
    PROVE  /\ VisibleCells' = VisibleCells /\ Readable' = Readable
           /\ \A p : CellOf(p)' = CellOf(p) /\ Rank(p)' = Rank(p)
  <1>1. \A p : CellOf(p)' = CellOf(p)
    BY DEF CellOf
  <1>2. VisibleCells' = VisibleCells
    BY <1>1 DEF VisibleCells
  <1>3. \A p : Rank(p)' = Rank(p)
    BY <1>2 DEF Rank
  <1> QED BY <1>1, <1>2, <1>3 DEF Readable

LEMMA ListIsKept ==
    ASSUME UNCHANGED <<blink_array, order, frame>>, NEW D, ListIs(D) PROVE ListIs(D)'
  <1>1. \A k : FromEnd(k)' = FromEnd(k)
    BY DEF FromEnd
  <1> QED BY <1>1, CellsKept DEF ListIs

\* A granted request puts its cell to the front, and the others stay.
LEMMA AddedCell ==
    ASSUME BlinkTypeOK, BlinkInv, NEW r, Requested(r), mp1_ioctl_add(r), mp1_malloc \notin InUse
    PROVE  /\ Len(order) \in Nat /\ Len(order') = Len(order) + 1
           /\ \A k \in 1..Len(order) : FromEnd(k)' = FromEnd(k)
           /\ \A k : k = Len(order) + 1 => FromEnd(k)'
                 = [location |-> r.location, on_char |-> r.on_char, off_char |-> r.off_char]
  <1> DEFINE s == mp1_malloc
             b == [location |-> r.location, on_char |-> r.on_char, off_char |-> r.off_char,
                   on_length |-> r.on_length, off_length |-> r.off_length,
                   countdown |-> r.on_length, status |-> 1, next |-> mp1_list_head]
  <1>1. s \in Slot /\ s \notin InUse
    BY AddFacts
  <1>2. blink_array' = [blink_array EXCEPT ![s] = b] /\ order' = <<s>> \o order
    BY DEF mp1_ioctl_add
  <1>3. b.location = r.location /\ b.on_char = r.on_char /\ b.off_char = r.off_char
    OBVIOUS
  <1> HIDE DEF s, b
  <1>4. order \in Seq(Slot) /\ Len(order) \in Nat /\ Len(order') = Len(order) + 1
    BY <1>1, <1>2 DEF BlinkTypeOK
  <1>5. \A k \in 1..Len(order') : order'[k] = IF k = 1 THEN s ELSE order[k - 1]
    BY <1>1, <1>2, <1>4
  <1>6. blink_array'[s] = b /\ \A t \in Slot : t # s => blink_array'[t] = blink_array[t]
    BY <1>1, <1>2 DEF BlinkTypeOK
  <1>7. ASSUME NEW k \in 1..Len(order) PROVE FromEnd(k)' = FromEnd(k)
    <2>1. /\ Len(order') + 1 - k \in 1..Len(order') /\ Len(order') + 1 - k # 1
          /\ Len(order') + 1 - k - 1 = Len(order) + 1 - k /\ Len(order) + 1 - k \in 1..Len(order)
      BY <1>4
    <2>2. order'[Len(order') + 1 - k] = order[Len(order) + 1 - k]
      BY <1>5, <2>1
    <2>3. order[Len(order) + 1 - k] \in Slot /\ order[Len(order) + 1 - k] # s
      BY <1>1, <1>4, <2>1, InUseFacts
    <2>4. blink_array'[order'[Len(order') + 1 - k]] = blink_array[order[Len(order) + 1 - k]]
      BY <1>6, <2>2, <2>3
    <2> QED BY <2>4 DEF FromEnd
  <1>8. ASSUME NEW k, k = Len(order) + 1
        PROVE  FromEnd(k)'
                   = [location |-> r.location, on_char |-> r.on_char, off_char |-> r.off_char]
    <2>1. Len(order') + 1 - k = 1 /\ 1 \in 1..Len(order')
      BY <1>4, <1>8
    <2>2. blink_array'[order'[1]] = b
      BY <1>5, <1>6, <2>1
    <2> QED BY <1>3, <2>1, <2>2 DEF FromEnd
  <1> QED BY <1>4, <1>7, <1>8

\* A request for the next cell, with no structure in use that counts as free:
\* the cell joins the list, or the memory is used up and it does not.
LEMMA ListAdds ==
    ASSUME BlinkTypeOK, BlinkInv, \A t \in InUse : blink_array[t].location # 0,
           NEW P \in VisibleCells, ListIs(Earlier(P)), NEW r, Requested(r),
           [location |-> r.location, on_char |-> r.on_char, off_char |-> r.off_char] = CellOf(P),
           NEW then, AddRequest(r, then), UNCHANGED frame,
           NEW D, D = Earlier(P) \cup {P}
    PROVE  at' = then /\ ListIs(D)'
  <1> DEFINE n == Cardinality(Earlier(P))
  <1>1. /\ n \in Nat /\ Rank(P) = n /\ Cardinality(D) = n + 1
        /\ \A p \in Earlier(P) : Rank(p) \in Nat /\ Rank(p) < n
    <2>1. P[1] \in Nat /\ P[2] \in Nat
      BY VisibleFacts
    <2>2. /\ IsFiniteSet(Earlier(P)) /\ n \in Nat /\ Rank(P) = n /\ P \notin Earlier(P)
          /\ \A p \in Earlier(P) : Rank(p) \in Nat /\ Rank(p) < n
      BY <2>1, RankFacts
    <2>3. Cardinality(Earlier(P) \cup {P}) = n + 1
      BY <2>2, FS_AddElement
    <2> QED BY <2>2, <2>3
  <1> HIDE DEF n
  <1>2. Len(order) = IF n < Cells THEN n ELSE Cells
    BY DEF ListIs, n
  <1>3. \A p \in Earlier(P) : Rank(p) < Cells => FromEnd(Rank(p) + 1) = CellOf(p)
    BY DEF ListIs
  <1>4. Cells \in Nat /\ Chained /\ Listed = InUse
    BY Sizes, ListedInUse DEF BlinkInv
  <1>5. r.location < Cells /\ r.location \in Nat
    <2>1. CellOf(P).location = r.location
      OBVIOUS
    <2> QED BY <2>1, VisibleFacts DEF Requested
  <1>6. CASE n < Cells
    <2>1. mp1_malloc # NULL
      BY <1>2, <1>4, <1>6, MemoryLeft
    <2>2. ~AddFails(r)
      BY <1>4, <1>5, <2>1 DEF AddFails
    <2>3. mp1_ioctl_add(r) /\ at' = IF mp1_malloc \in Listed THEN "lost" ELSE then
      BY <2>2 DEF AddRequest
    <2>4. mp1_malloc \notin InUse
      BY <2>1, MallocFacts
    <2>5. /\ Len(order') = n + 1 /\ Len(order) = n
          /\ \A k \in 1..n : FromEnd(k)' = FromEnd(k)
          /\ \A k : k = n + 1 => FromEnd(k)' = CellOf(P)
      BY <1>2, <1>6, <2>3, <2>4, AddedCell
    <2>6. Len(order') = IF Cardinality(D) < Cells THEN Cardinality(D) ELSE Cells
      BY <1>1, <1>4, <1>6, <2>5
    <2>7. ASSUME NEW p \in D, NEW k, k = Rank(p) PROVE FromEnd(k + 1)' = CellOf(p)
      <3>1. CASE p = P
        BY <1>1, <2>5, <2>7, <3>1
      <3>2. CASE p \in Earlier(P)
        <4>1. k \in Nat /\ k < n
          BY <1>1, <2>7, <3>2
        <4>2. k + 1 \in 1..n /\ k < Cells
          BY <1>1, <1>4, <1>6, <4>1
        <4>3. FromEnd(k + 1) = CellOf(p)
          BY <1>3, <2>7, <3>2, <4>2
        <4> QED BY <2>5, <4>2, <4>3
      <3> QED BY <3>1, <3>2
    <2>8. ListIs(D)'
      <3>1. ASSUME NEW p \in D PROVE FromEnd(Rank(p) + 1)' = CellOf(p)'
        <4>1. PICK k : k = Rank(p)
          OBVIOUS
        <4>2. FromEnd(k + 1)' = CellOf(p)' /\ Rank(p)' = k
          BY <2>7, <4>1, CellsKept
        <4> QED BY <4>2 DEF FromEnd
      <3> QED BY <2>6, <3>1 DEF ListIs
    <2> QED BY <1>4, <2>3, <2>4, <2>8
  <1>7. CASE n >= Cells
    <2>1. mp1_malloc = NULL
      BY <1>1, <1>2, <1>4, <1>7, MemoryFull
    <2>2. AddFails(r)
      BY <2>1 DEF AddFails
    <2>3. at' = then /\ UNCHANGED blinkVars
      BY <2>2 DEF AddRequest, mp1_ioctl_add
    <2>4. ListIs(D)
      <3>1. Len(order) = IF Cardinality(D) < Cells THEN Cardinality(D) ELSE Cells
        BY <1>1, <1>2, <1>4, <1>7
      <3>2. ASSUME NEW p \in D, Rank(p) < Cells PROVE FromEnd(Rank(p) + 1) = CellOf(p)
        <4>1. p # P
          BY <1>1, <1>4, <1>7, <3>2
        <4> QED BY <1>3, <3>2, <4>1
      <3> QED BY <3>1, <3>2 DEF ListIs
    <2> QED BY <2>3, <2>4, ListIsKept DEF blinkVars
  <1> QED BY <1>1, <1>4, <1>6, <1>7

-----------------------------------------------------------------------------
(* The first state *)

\* While the frames are added, main has made no request, so readable files leave
\* no excuse.
LEMMA NoExcuse ==
    ASSUME Framing, NoneAtZero, Readable, at \in {"open", "row", "row_end", "framed"}
    PROVE  made = 0 /\ ListIs(Drawn) /\ ~Excuse /\ \A s \in InUse : blink_array[s].location # 0
  <1>1. made = 0 /\ ListIs(Drawn)
    BY DEF Framing
  <1>2. 1..made = {}
    BY <1>1
  <1>3. ~Excuse
    BY <1>2 DEF Excuse
  <1> QED BY <1>1, <1>3 DEF NoneAtZero

\* Framing in the next state, from what is drawn there.
LEMMA FramingNext ==
    ASSUME made' = 0, UNCHANGED frame, NEW D, Readable => D = Drawn' /\ ListIs(D)' PROVE Framing'
  <1>1. Readable' = Readable
    BY CellsKept
  <1>2. Readable => ListIs(Drawn)'
    BY DEF ListIs
  <1> QED BY <1>1, <1>2 DEF Framing

\* Before anything is opened.
LEMMA InitInv == Init => FishInv
  <1> SUFFICES ASSUME Init PROVE FishInv
    OBVIOUS
  <1>1. frame \in Frames /\ script \in Scripts /\ order = <<>> /\ InUse = {}
    BY DEF Init, BlinkInit, InUse
  <1>2. BlinkTypeOK
    <2>1. Freed \in Struct
      BY Sizes DEF Freed, Struct, Location
    <2>2. <<>> \in Seq(Slot)
      OBVIOUS
    <2> QED BY <2>1, <2>2, Sizes DEF Init, BlinkInit, BlinkTypeOK
  <1>3. TypeOK
    <2>1. WordSize \in Nat \ {0}
      BY <1>1, FrameFacts DEF F
    <2>2. Len(script) \in Nat /\ Wait \in Nat
      BY <1>1, FishAssumption, Sizes DEF Wait
    <2>3. position \in [F -> 0..(WordSize - 1)] /\ c \in [F -> Glyph \cup {NL}]
          /\ eof \in [F -> BOOLEAN]
      BY <2>1, FishConstants DEF Init
    <2> QED BY <1>1, <1>2, <2>2, <2>3, Sizes DEF Init, TypeOK
  <1>4. Reading /\ NeverLost
    <2>1. ASSUME NEW f \in F
          PROVE  /\ position[f] = 0 /\ c[f] # NL /\ ~eof[f] /\ position[f] <= Len(frame[f].bytes)
                 /\ PlaceOf(frame[f].bytes, position[f] + 1) = <<row, col>>
      <3>1. position[f] = 0 /\ c[f] # NL /\ ~eof[f] /\ row = 0 /\ col = 0
        BY FishConstants DEF Init
      <3>2. PlaceOf(frame[f].bytes, 1) = <<0, 0>>
        BY FirstPlace DEF PlaceOf
      <3>3. Len(frame[f].bytes) \in Nat
        BY <1>1, FrameFacts
      <3> QED BY <3>1, <3>2, <3>3
    <2> QED BY <2>1 DEF Init, Reading, NeverLost
  <1>5. Framing
    <2>1. made = 0 /\ at = "open" /\ row = 0 /\ col = 0 /\ Len(order) = 0
      BY <1>1 DEF Init
    <2>2. Drawn = {}
      <3>1. ASSUME NEW p \in VisibleCells PROVE ~Before(p, <<row, col>>)
        BY <2>1, <3>1, VisibleFacts DEF Before
      <3> QED BY <2>1, <3>1 DEF Drawn
    <2>3. ListIs(Drawn)
      BY <2>1, <2>2, FS_EmptySet, Sizes DEF ListIs
    <2> QED BY <2>1, <2>3 DEF Framing
  <1>6. BlinkInv /\ NoneAtZero
    <2>1. Chained
      BY <1>1 DEF Init, BlinkInit, Chained, Freed
    <2>2. Displayed /\ Counting /\ NoneAtZero
      BY <1>1 DEF Init, BlinkInit, Displayed, Counting, NoneAtZero
    <2> QED BY <2>1, <2>2 DEF BlinkInv
  <1> QED BY <1>3, <1>4, <1>5, <1>6 DEF FishInv

-----------------------------------------------------------------------------
(* Requests to add *)

\* What FishInv says of the list, in this state and the next.
Listing == at # "lost" => BlinkInv /\ NoneAtZero
ListOK == BlinkTypeOK /\ Listing /\ NeverLost

\* A request that nothing excuses is not for location 0, and what is handed out
\* to it was not in use.
LEMMA AddRequestInv ==
    ASSUME ListOK, at # "lost", NEW r, Requested(r), r.location = 0 => Excuse',
           Excuse => Excuse', NEW then, then # "lost", AddRequest(r, then)
    PROVE  ListOK' /\ at' \in {then, "lost"}
  <1>0. BlinkTypeOK /\ BlinkInv /\ NoneAtZero
    BY DEF ListOK, Listing
  <1>1. CASE AddFails(r) /\ at' = then /\ UNCHANGED blinkVars
    <2>1. UNCHANGED <<blink_array, mp1_list_head, vmem, order, age, shown>>
      BY <1>1 DEF blinkVars
    <2>2. BlinkTypeOK' /\ BlinkInv' /\ NoneAtZero'
      BY <1>0, <2>1, ListStutter
    <2> QED BY <1>1, <2>2 DEF ListOK, Listing, NeverLost
  <1>2. CASE mp1_ioctl_add(r) /\ at' = IF mp1_malloc \in Listed THEN "lost" ELSE then
    <2>1. /\ mp1_malloc \in Slot /\ blink_array[mp1_malloc].location = 0
          /\ BlinkTypeOK' /\ InUse' = {mp1_malloc} \cup InUse
      BY <1>0, <1>2, AddFacts
    <2>2. Listed = InUse
      BY <1>0, ListedInUse DEF BlinkInv
    <2>3. CASE mp1_malloc \in InUse
      <3>1. Excuse /\ at' = "lost"
        BY <1>0, <1>2, <2>1, <2>2, <2>3 DEF NoneAtZero
      <3> QED BY <1>0, <2>1, <3>1 DEF ListOK, Listing, NeverLost
    <2>4. CASE mp1_malloc \notin InUse
      <3>1. BlinkInv' /\ at' = then
        BY <1>0, <1>2, <2>2, <2>4, AddInv
      <3>2. NoneAtZero'
        <4> SUFFICES ASSUME NEW t \in InUse', blink_array'[t].location = 0 PROVE Excuse'
          BY DEF NoneAtZero
        <4>1. CASE t = mp1_malloc
          <5>1. blink_array'[t].location = r.location
            BY <1>0, <1>2, <2>1, <4>1 DEF mp1_ioctl_add, BlinkTypeOK
          <5> QED BY <5>1
        <4>2. CASE t # mp1_malloc
          <5>1. t \in InUse /\ t \in Slot
            BY <1>0, <2>1, <4>2, InUseFacts
          <5>2. blink_array'[t] = blink_array[t]
            BY <1>0, <1>2, <2>1, <4>2, <5>1 DEF mp1_ioctl_add, BlinkTypeOK
          <5> QED BY <1>0, <5>1, <5>2 DEF NoneAtZero
        <4> QED BY <4>1, <4>2
      <3> QED BY <2>1, <3>1, <3>2 DEF ListOK, Listing, NeverLost
    <2> QED BY <2>3, <2>4
  <1> QED BY <1>1, <1>2 DEF AddRequest

-----------------------------------------------------------------------------
(* add_frames *)

\* The types of what a round of the inner loop reads.
LEMMA ColumnTypes ==
    ASSUME TypeOK, c' = [f \in F |-> NextByte(f)],
           position' = [f \in F |-> (position[f] + Returned(f)) % WordSize],
           eof' = [f \in F |-> eof[f] \/ (Reads(f) /\ SeesEnd(f))]
    PROVE  /\ c' \in [F -> Glyph \cup {NL}] /\ position' \in [F -> 0..(WordSize - 1)]
           /\ eof' \in [F -> BOOLEAN]
  <1>1. \A f \in F : NextByte(f) \in Glyph \cup {NL}
    <2> TAKE f \in F
    <2>1. /\ frame[f].bytes \in Seq(Glyph \cup {NL}) /\ Len(frame[f].bytes) \in Nat
          /\ c[f] \in Glyph \cup {NL} /\ position[f] \in Nat
      BY FrameFacts DEF TypeOK
    <2>2. ~AtEnd(f) => frame[f].bytes[position[f] + 1] \in Glyph \cup {NL}
      BY <2>1 DEF AtEnd
    <2> QED BY <2>1, <2>2 DEF NextByte
  <1>2. \A f \in F : (position[f] + Returned(f)) % WordSize \in 0..(WordSize - 1)
    <2> TAKE f \in F
    <2>1. position[f] \in Nat /\ WordSize \in Nat \ {0} /\ Returned(f) \in Int
      BY FrameFacts DEF TypeOK, Returned
    <2>2. position[f] + Returned(f) \in Int
      BY <2>1
    <2> QED BY <2>1, <2>2, Remainder
  <1>3. eof' \in [F -> BOOLEAN]
    BY Zenon DEF TypeOK
  <1> QED BY <1>1, <1>2, <1>3

\* One round reads a file no further than to this row and column.  What it holds
\* of the file then is what the file has there, nothing if its line has ended.
LEMMA ColumnReads ==
    ASSUME TypeOK, Reading, at = "row", Readable, NEW f \in F, NEW b, b = frame[f].bytes,
           NEW P, P = <<row, col>>, c' = [g \in F |-> NextByte(g)],
           position' = [g \in F |-> (position[g] + Returned(g)) % WordSize],
           eof' = [g \in F |-> eof[g] \/ (Reads(g) /\ SeesEnd(g))]
    PROVE  LET n == position'[f]
               stop == IF eof'[f] THEN n + 1 ELSE n
           IN  /\ n \in Nat /\ n <= Len(b) /\ CharAt(b, P) = AsCell(c'[f])
               /\ c'[f] # NL => /\ ~eof'[f] /\ n > 0 /\ PlaceOf(b, n) = P
                                /\ PlaceOf(b, n + 1) = <<row, col + 1>>
               /\ c'[f] = NL =>
                     /\ IF eof'[f] THEN n = Len(b)
                        ELSE n > 0 /\ b[n] = NL /\ RowOf(b, n) = row
                     /\ RowOf(b, stop) <= row
                     /\ PlaceOf(b, stop) = P \/ Before(PlaceOf(b, stop), P)
  <1>1. /\ Len(b) \in Nat /\ WordSize \in Nat \ {0}
        /\ Len(b) < WordSize - 1 /\ position[f] \in Nat /\ row \in Nat /\ col \in Nat
        /\ P[1] = row /\ P[2] = col
    BY FrameFacts, Sizes DEF TypeOK
  <1> DEFINE n == position[f]
             stop == IF eof[f] THEN n + 1 ELSE n
  <1>2. /\ n <= Len(b)
        /\ c[f] # NL => ~eof[f] /\ PlaceOf(b, n + 1) = P
        /\ c[f] = NL => /\ IF eof[f] THEN n = Len(b)
                           ELSE n > 0 /\ b[n] = NL /\ RowOf(b, n) = row
                        /\ RowOf(b, stop) <= row /\ Before(PlaceOf(b, stop), P)
    BY DEF Reading
  <1>3. ~BadAt(f)
    BY DEF Readable, BadAt
  <1>4. /\ position'[f] = (position[f] + Returned(f)) % WordSize
        /\ c'[f] = NextByte(f) /\ (eof'[f] <=> eof[f] \/ (Reads(f) /\ SeesEnd(f)))
    OBVIOUS
  \* A place where a line or the text has ended, or one behind it, is blank.
  <1>5. ASSUME NEW e \in 1..(Len(b) + 1), e = Len(b) + 1 \/ (b[e] = NL /\ RowOf(b, e) = row),
               PlaceOf(b, e) = P \/ Before(PlaceOf(b, e), P)
        PROVE  CharAt(b, P) = Blank
    <2> SUFFICES ASSUME CharAt(b, P) # Blank PROVE FALSE
      OBVIOUS
    <2>1. Before(P, PlaceOf(b, e))
      BY <1>1, <1>5, CharsBefore
    <2>2. PlaceOf(b, e)[1] \in Nat /\ PlaceOf(b, e)[2] \in Nat
      BY <1>1, NewlineFacts DEF PlaceOf
    <2> QED BY <1>1, <1>5, <2>1, <2>2 DEF Before
  <1>6. CASE ~Reads(f)
    <2>1. position'[f] = n /\ c'[f] = NL /\ c[f] = NL /\ (eof'[f] <=> eof[f])
      <3>1. Returned(f) = 0 /\ NextByte(f) = c[f] /\ c[f] = NL
        BY <1>6 DEF Returned, NextByte, Reads
      <3>2. (n + 0) % WordSize = n
        BY <1>1, <1>2, SmallRemainder
      <3> QED BY <1>4, <1>6, <3>1, <3>2
    <2>2. stop \in 1..(Len(b) + 1) /\ (stop = Len(b) + 1 \/ (b[stop] = NL /\ RowOf(b, stop) = row))
      BY <1>1, <1>2, <2>1
    <2>3. CharAt(b, P) = Blank
      BY <1>2, <1>5, <2>1, <2>2
    <2>4. AsCell(c'[f]) = Blank /\ (IF eof'[f] THEN n + 1 ELSE n) = stop
      BY <2>1 DEF AsCell
    <2> HIDE DEF n, stop
    <2> QED BY <1>1, <1>2, <2>1, <2>3, <2>4 DEF n
  <1>7. CASE Reads(f) /\ AtEnd(f)
    <2>1. position'[f] = n /\ c'[f] = NL /\ eof'[f] /\ n = Len(b) /\ PlaceOf(b, n + 1) = P
      <3>1. Returned(f) = 0 /\ NextByte(f) = NL /\ n = Len(b) /\ c[f] # NL
        BY <1>1, <1>2, <1>7 DEF Returned, NextByte, SeesEnd, AtEnd, Reads
      <3>2. (n + 0) % WordSize = n
        BY <1>1, <1>2, SmallRemainder
      <3> QED BY <1>2, <1>4, <1>7, <3>1, <3>2 DEF SeesEnd
    <2>2. CharAt(b, P) = Blank
      BY <1>1, <1>5, <2>1
    <2>3. RowOf(b, n + 1) = row /\ AsCell(c'[f]) = Blank
      BY <2>1 DEF PlaceOf, AsCell
    <2> QED BY <1>1, <2>1, <2>2, <2>3
  <1>8. CASE Reads(f) /\ ~AtEnd(f)
    <2>1. n < Len(b) /\ c[f] # NL
      BY <1>1, <1>8 DEF AtEnd, Reads
    <2>2. position'[f] = n + 1
      <3>1. Returned(f) = 1
        BY <1>3, <1>8 DEF Returned
      <3>2. (n + 1) % WordSize = n + 1
        BY <1>1, <2>1, SmallRemainder
      <3> QED BY <1>4, <3>1, <3>2
    <2>3. ~eof'[f] /\ PlaceOf(b, n + 1) = P /\ c'[f] = b[n + 1]
      BY <1>2, <1>3, <1>4, <1>8, <2>1 DEF SeesEnd, NextByte
    <2>4. n + 1 \in 1..Len(b) /\ n + 1 \in Nat \ {0} /\ n + 1 <= Len(b)
      BY <1>1, <2>1
    <2>5. RowOf(b, n + 1) = row /\ ColOf(b, n + 1) = col
      BY <2>3 DEF PlaceOf
    <2>6. CASE b[n + 1] = NL
      <3>1. CharAt(b, P) = Blank
        BY <1>1, <1>5, <2>3, <2>4, <2>5, <2>6
      <3> QED BY <1>1, <2>2, <2>3, <2>4, <2>5, <2>6, <3>1 DEF AsCell
    <2>7. CASE b[n + 1] # NL
      <3>1. CharAt(b, P) = b[n + 1]
        BY <1>1, <2>3, <2>4, <2>7, CharRead
      <3>2. PlaceOf(b, n + 1 + 1) = <<row, col + 1>>
        BY <2>4, <2>5, <2>7, NextColumn DEF PlaceOf
      <3> QED BY <1>1, <2>2, <2>3, <2>4, <2>7, <3>1, <3>2 DEF AsCell
    <2> QED BY <2>6, <2>7
  <1> QED BY <1>6, <1>7, <1>8

\* The location a round asks for is that of its cell, behind the first, as long
\* as locations do not wrap.
LEMMA ColumnLocation ==
    ASSUME TypeOK, Readable, NEW g \in F, NEW n \in Nat \ {0}, n <= Len(frame[g].bytes),
           PlaceOf(frame[g].bytes, n) = <<row, col>>
    PROVE  /\ row * Width \in Nat /\ CellLocation = row * Width + col + Offset
           /\ CellLocation # 0 /\ col + 1 < Short
  <1>1. /\ row \in Nat /\ col \in Nat /\ Offset \in Nat \ {0} /\ Width \in Nat \ {0}
        /\ Short \in Nat \ {0} /\ Len(frame[g].bytes) \in Nat
    BY Sizes, FishConstants, FrameFacts DEF TypeOK
  <1>2. Len(frame[g].bytes) * Width \in Nat /\ Len(frame[g].bytes) * Width + Offset < Short
    BY <1>1 DEF Readable
  <1>3. row + (col + 1) <= Len(frame[g].bytes)
    <2>1. RowOf(frame[g].bytes, n) = row /\ ColOf(frame[g].bytes, n) = col
      BY DEF PlaceOf
    <2>2. row + col <= n - 1
      BY <2>1, PlaceBound
    <2> QED BY <1>1, <2>2
  <1>4. row * Width \in Nat /\ row * Width + (col + 1) <= Len(frame[g].bytes) * Width
    BY <1>1, <1>3, CellBound
  <1>5. row * Width + col + Offset \in Nat /\ row * Width + col + Offset < Short
        /\ row * Width + col + Offset # 0
    BY <1>1, <1>2, <1>4
  <1>6. CellLocation = row * Width + col + Offset
    BY <1>1, <1>5, SmallRemainder DEF CellLocation
  <1> QED BY <1>1, <1>2, <1>4, <1>5, <1>6

LEMMA OpenInv == ASSUME FishInv, Open PROVE FishInv'
  <1>1. /\ at = "open" /\ at' \in {"row", "halted"}
        /\ UNCHANGED <<blink_array, mp1_list_head, vmem, order, age, shown, frame, position, c, eof,
                       row, col, script, made, ticks>>
    BY DEF Open, blinkVars, fileVars
  <1>2. TypeOK'
    BY <1>1 DEF FishInv, TypeOK, BlinkTypeOK, Wait
  <1>3. Reading' /\ NeverLost'
    BY <1>1, CellsKept DEF FishInv, Reading, NeverLost
  <1>4. BlinkInv' /\ NoneAtZero'
    BY <1>1, ListStutter, ExcuseKept DEF FishInv
  <1>5. Framing'
    <2> SUFFICES ASSUME at' = "row" PROVE Framing'
      BY <1>1 DEF Framing
    <2>1. PICK D : D = Drawn
      OBVIOUS
    <2>2. D = Drawn'
      BY <1>1, <2>1, CellsKept DEF Drawn
    <2>3. made = 0 /\ (Readable => ListIs(D))
      BY <1>1, <2>1 DEF FishInv, Framing
    <2> QED BY <1>1, <2>2, <2>3, ListIsKept, FramingNext
  <1> QED BY <1>2, <1>3, <1>4, <1>5 DEF FishInv

\* What a round is about to ask for, and when it does.
ColumnRequest ==
    [location |-> CellLocation, on_char |-> AsCell(c'[0]), off_char |-> AsCell(c'[1]),
     on_length |-> FrameLength, off_length |-> FrameLength]

LEMMA ColumnSteps ==
    ASSUME Column
    PROVE  /\ at = "row" /\ c' = [f \in F |-> NextByte(f)]
           /\ position' = [f \in F |-> (position[f] + Returned(f)) % WordSize]
           /\ eof' = [f \in F |-> eof[f] \/ (Reads(f) /\ SeesEnd(f))]
           /\ UNCHANGED <<frame, row, script, made, ticks>>
           /\ \/ at' = "row_end" /\ c'[0] = NL /\ c'[1] = NL /\ UNCHANGED <<blinkVars, col>>
              \/ /\ ~ (c'[0] = NL /\ c'[1] = NL) /\ col' = (col + 1) % Short
                 /\ \/ /\ \E f \in F : c'[f] \notin {Blank, NL}
                       /\ AddRequest(ColumnRequest, "row")
                    \/ /\ \A f \in F : c'[f] \in {Blank, NL}
                       /\ at' = "row" /\ UNCHANGED blinkVars
  BY DEF Column, ColumnRequest

\* Where a round goes that does not end the row.
LEMMA ColumnGoesOn ==
    ASSUME TypeOK, Reading, Readable, Column, ~ (c'[0] = NL /\ c'[1] = NL)
    PROVE  /\ row * Width \in Nat /\ CellLocation = row * Width + col + Offset
           /\ CellLocation # 0 /\ col' = col + 1
  <1>1. PICK P : P = <<row, col>>
    OBVIOUS
  <1>2. PICK g \in F : c'[g] # NL
    BY DEF F
  <1>3. position'[g] \in Nat \ {0} /\ position'[g] <= Len(frame[g].bytes)
        /\ PlaceOf(frame[g].bytes, position'[g]) = P
    BY <1>1, <1>2, ColumnSteps, ColumnReads
  <1>4. /\ row * Width \in Nat /\ CellLocation = row * Width + col + Offset
        /\ CellLocation # 0 /\ col + 1 < Short
    BY <1>1, <1>3, ColumnLocation
  <1>5. col \in Nat /\ Short \in Nat \ {0} /\ col' = (col + 1) % Short
    BY ColumnSteps, Sizes DEF TypeOK
  <1>6. (col + 1) % Short = col + 1
    BY <1>4, <1>5, SmallRemainder
  <1> QED BY <1>4, <1>5, <1>6

\* The cell of this round joins the list if it is visible, and no other does.
LEMMA ColumnFraming ==
    ASSUME FishInv, Column, Requested(ColumnRequest) PROVE Framing'
  <1>0. TypeOK /\ Reading /\ Framing /\ NoneAtZero /\ BlinkInv /\ BlinkTypeOK
    BY ColumnSteps DEF FishInv, TypeOK
  <1>1. /\ at = "row" /\ made' = 0 /\ UNCHANGED frame
        /\ VisibleCells' = VisibleCells /\ row' = row
    BY <1>0, ColumnSteps, CellsKept DEF Framing
  <1>2. PICK P : P = <<row, col>>
    OBVIOUS
  <1>3. row \in Nat /\ col \in Nat /\ P[1] = row /\ P[2] = col
    BY <1>0, <1>2, Sizes DEF TypeOK
  <1>4. Drawn = Earlier(P)
    BY <1>1, <1>2 DEF Drawn, Earlier
  <1>5. PICK D : D = Drawn'
    OBVIOUS
  <1> SUFFICES ASSUME Readable, at' \in {"open", "row", "row_end", "framed"} PROVE ListIs(D)'
    <2>1. at' \notin {"open", "row", "row_end", "framed"} => Framing'
      BY DEF Framing
    <2> QED BY <1>1, <1>5, <2>1, FramingNext
  <1>6. ListIs(Earlier(P)) /\ \A t \in InUse : blink_array[t].location # 0
    BY <1>0, <1>1, <1>4, NoExcuse
  <1>7. CASE at' = "row_end" /\ c'[0] = NL /\ c'[1] = NL /\ UNCHANGED <<blinkVars, col>>
    <2>1. ASSUME NEW p \in VisibleCells, p[1] = row PROVE Before(p, P)
      <3>1. PICK f \in F : CharAt(frame[f].bytes, p) # Blank
        BY VisibleFacts
      <3>2. PICK b : b = frame[f].bytes
        OBVIOUS
      <3> DEFINE stop == IF eof'[f] THEN position'[f] + 1 ELSE position'[f]
      <3>3. /\ position'[f] \in Nat /\ position'[f] <= Len(b)
            /\ IF eof'[f] THEN position'[f] = Len(b)
               ELSE position'[f] > 0 /\ b[position'[f]] = NL /\ RowOf(b, position'[f]) = row
            /\ PlaceOf(b, stop) = P \/ Before(PlaceOf(b, stop), P)
        <4>1. c'[f] = NL
          BY <1>7 DEF F
        <4> QED BY <1>0, <1>2, <3>2, <4>1, ColumnSteps, ColumnReads
      <3>4. Len(b) \in Nat
        BY <1>0, <3>2, FrameFacts DEF TypeOK
      <3>5. stop \in 1..(Len(b) + 1) /\ (stop = Len(b) + 1 \/ (b[stop] = NL /\ p[1] = RowOf(b, stop)))
        BY <2>1, <3>3, <3>4
      <3> HIDE DEF stop
      <3>6. Before(p, PlaceOf(b, stop))
        BY <3>1, <3>2, <3>4, <3>5, CharsBefore
      <3>7. /\ PlaceOf(b, stop)[1] \in Nat /\ PlaceOf(b, stop)[2] \in Nat
            /\ p[1] \in Nat /\ p[2] \in Nat
        BY <3>4, <3>5, NewlineFacts, VisibleFacts DEF PlaceOf
      <3> QED BY <1>3, <3>3, <3>6, <3>7 DEF Before
    <2>2. D = Earlier(P)
      <3>1. at' = "row_end" /\ <<row', col'>> = P
        BY <1>1, <1>2, <1>7
      <3> QED BY <1>1, <1>5, <2>1, <3>1 DEF Drawn, Earlier
    <2> QED BY <1>1, <1>6, <1>7, <2>2, ListIsKept DEF blinkVars
  <1>8. CASE ~ (c'[0] = NL /\ c'[1] = NL)
    <2>1. /\ row * Width \in Nat /\ CellLocation = row * Width + col + Offset /\ col' = col + 1
      BY <1>0, <1>8, ColumnGoesOn
    <2>2. at' = "row"
      BY <1>8, ColumnSteps DEF AddRequest
    <2>3. D = Earlier(P) \cup ({P} \cap VisibleCells)
      <3>1. \A p \in VisibleCells : Before(p, <<row', col'>>) <=> (Before(p, P) \/ p = P)
        <4> TAKE p \in VisibleCells
        <4>1. p[1] \in Nat /\ p[2] \in Nat /\ p = <<p[1], p[2]>>
          BY VisibleFacts
        <4>2. p = P <=> (p[1] = row /\ p[2] = col)
          BY <1>2, <4>1
        <4> QED BY <1>1, <1>3, <2>1, <4>1, <4>2 DEF Before
      <3> QED BY <1>1, <1>5, <2>2, <3>1 DEF Drawn, Earlier
    <2>4. CharAt(frame[0].bytes, P) = AsCell(c'[0]) /\ CharAt(frame[1].bytes, P) = AsCell(c'[1])
      <3>1. \A f \in F : CharAt(frame[f].bytes, P) = AsCell(c'[f])
        BY <1>0, <1>2, ColumnSteps, ColumnReads
      <3> QED BY <3>1 DEF F
    <2>5. CellOf(P) = [location |-> CellLocation, on_char |-> AsCell(c'[0]),
                       off_char |-> AsCell(c'[1])]
      BY <1>3, <2>1, <2>4 DEF CellOf
    <2>6. CASE AddRequest(ColumnRequest, "row") /\ P \in VisibleCells
      <3>1. D = Earlier(P) \cup {P}
        BY <2>3, <2>6
      <3>2. [location |-> ColumnRequest.location, on_char |-> ColumnRequest.on_char,
             off_char |-> ColumnRequest.off_char] = CellOf(P)
        BY <2>5 DEF ColumnRequest
      <3>3. PICK r : r = ColumnRequest
        OBVIOUS
      <3> QED BY <1>0, <1>1, <1>6, <2>6, <3>1, <3>2, <3>3, ListAdds
    <2>7. CASE P \notin VisibleCells /\ UNCHANGED blinkVars
      <3>1. D = Earlier(P)
        BY <2>3, <2>7
      <3> QED BY <1>1, <1>6, <2>7, <3>1, ListIsKept DEF blinkVars
    <2>8. CASE (\A f \in F : c'[f] \in {Blank, NL}) /\ UNCHANGED blinkVars
      <3>1. AsCell(c'[0]) = Blank /\ AsCell(c'[1]) = Blank
        BY <2>8 DEF AsCell, F
      <3>2. P \notin VisibleCells
        BY <2>4, <3>1 DEF VisibleCells, F
      <3> QED BY <2>7, <2>8, <3>2
    <2>9. CASE (\E f \in F : c'[f] \notin {Blank, NL}) /\ AddRequest(ColumnRequest, "row")
               /\ P \notin VisibleCells
      <3>1. PICK f \in F : CharAt(frame[f].bytes, P) # Blank
        BY <2>4, <2>9 DEF AsCell, F
      <3>2. CellLocation >= Cells
        <4> SUFFICES ASSUME CellLocation < Cells PROVE FALSE
          BY <1>3, <2>1, FishConstants, Sizes
        <4>1. row <= row * Width
          BY <1>3, Sizes
        <4>2. row \in Location /\ col \in Location
          BY <1>3, <2>1, <4>1, FishConstants, Sizes DEF Location
        <4>3. P \in Location \X Location /\ CellOf(P).location < Cells
          BY <1>2, <2>5, <4>2
        <4> QED BY <2>9, <3>1, <4>3 DEF VisibleCells
      <3>3. AddFails(ColumnRequest)
        BY <3>2 DEF AddFails, ColumnRequest
      <3>4. UNCHANGED blinkVars
        BY <2>9, <3>3 DEF AddRequest, mp1_ioctl_add
      <3> QED BY <2>7, <2>9, <3>4
    <2> QED BY <1>8, <2>6, <2>8, <2>9, ColumnSteps
  <1> QED BY <1>7, <1>8, ColumnSteps

LEMMA ColumnInv == ASSUME FishInv, Column PROVE FishInv'
  <1>0. TypeOK /\ Reading /\ ListOK
    BY DEF FishInv, ListOK, Listing, TypeOK
  <1>1. /\ at = "row" /\ c' = [f \in F |-> NextByte(f)]
        /\ position' = [f \in F |-> (position[f] + Returned(f)) % WordSize]
        /\ eof' = [f \in F |-> eof[f] \/ (Reads(f) /\ SeesEnd(f))]
        /\ UNCHANGED <<frame, row, script, made, ticks>> /\ (Excuse' <=> Excuse)
    BY ColumnSteps, ExcuseKept
  <1>2. /\ c' \in [F -> Glyph \cup {NL}] /\ position' \in [F -> 0..(WordSize - 1)]
        /\ eof' \in [F -> BOOLEAN]
    BY <1>0, <1>1, ColumnTypes
  <1>3. \/ at' = "row_end" /\ c'[0] = NL /\ c'[1] = NL /\ UNCHANGED <<blinkVars, col>>
        \/ /\ ~ (c'[0] = NL /\ c'[1] = NL) /\ col' = (col + 1) % Short
           /\ AddRequest(ColumnRequest, "row") \/ (at' = "row" /\ UNCHANGED blinkVars)
    BY ColumnSteps
  <1>4. row \in 0..(Short - 1) /\ col \in 0..(Short - 1) /\ row \in Nat /\ col \in Nat
        /\ Short \in Nat \ {0}
    BY <1>0, Sizes DEF TypeOK
  <1>5. Requested(ColumnRequest)
    <2>1. row * Width + col + Offset \in Int
      BY <1>4, Sizes, FishConstants
    <2>2. CellLocation \in Nat
      BY <1>4, <2>1, Remainder DEF CellLocation
    <2>3. AsCell(c'[0]) \in Glyph /\ AsCell(c'[1]) \in Glyph
      BY <1>2, FishConstants DEF AsCell, F
    <2> QED BY <2>2, <2>3, FishConstants DEF Requested, ColumnRequest
  <1>6. ListOK' /\ at' \in {"row", "row_end", "lost"}
    <2>1. CASE at' \in {"row", "row_end"} /\ UNCHANGED blinkVars
      <3>1. UNCHANGED <<blink_array, mp1_list_head, vmem, order, age, shown>>
        BY <2>1 DEF blinkVars
      <3>2. BlinkInv /\ NoneAtZero /\ BlinkTypeOK
        BY <1>0, <1>1 DEF ListOK, Listing
      <3>3. BlinkInv' /\ NoneAtZero' /\ BlinkTypeOK'
        BY <1>1, <3>1, <3>2, ListStutter
      <3> QED BY <2>1, <3>3 DEF ListOK, Listing, NeverLost
    <2>2. CASE AddRequest(ColumnRequest, "row") /\ ~ (c'[0] = NL /\ c'[1] = NL)
      <3>1. ColumnRequest.location = 0 => Excuse
        BY <1>0, <2>2, ColumnGoesOn DEF ColumnRequest, Excuse
      <3>2. PICK r : r = ColumnRequest
        OBVIOUS
      <3> QED BY <1>0, <1>1, <1>5, <2>2, <3>1, <3>2, AddRequestInv
    <2> QED BY <1>3, <2>1, <2>2
  <1>7. TypeOK'
    <2>1. BlinkTypeOK' /\ Wait' = Wait
      BY <1>1, <1>6 DEF ListOK, Wait
    <2>2. col' \in 0..(Short - 1)
      BY <1>3, <1>4, Remainder
    <2> QED BY <1>0, <1>1, <1>2, <1>6, <2>1, <2>2 DEF TypeOK
  <1>8. Reading'
    <2>1. PICK P : P = <<row, col>>
      OBVIOUS
    <2> SUFFICES ASSUME at' \in {"row", "row_end"}, Readable, NEW f \in F, NEW b, b = frame[f].bytes
                 PROVE  LET n == position'[f]
                            stop == IF eof'[f] THEN n + 1 ELSE n
                        IN  /\ n <= Len(b)
                            /\ c'[f] # NL => /\ ~eof'[f] /\ at' # "row_end"
                                             /\ PlaceOf(b, n + 1) = <<row, col'>>
                            /\ c'[f] = NL =>
                                  /\ IF eof'[f] THEN n = Len(b)
                                     ELSE n > 0 /\ b[n] = NL /\ RowOf(b, n) = row
                                  /\ RowOf(b, stop) <= row
                                  /\ at' # "row_end" => Before(PlaceOf(b, stop), <<row, col'>>)
      <3>1. Readable' = Readable /\ at' # "open"
        BY <1>1, <1>6, CellsKept
      <3> QED BY <1>1, <3>1 DEF Reading
    <2> DEFINE n == position'[f]
               stop == IF eof'[f] THEN n + 1 ELSE n
    <2>2. /\ n \in Nat /\ n <= Len(b)
          /\ c'[f] # NL => /\ ~eof'[f] /\ PlaceOf(b, n + 1) = <<row, col + 1>>
          /\ c'[f] = NL => /\ IF eof'[f] THEN n = Len(b)
                              ELSE n > 0 /\ b[n] = NL /\ RowOf(b, n) = row
                           /\ RowOf(b, stop) <= row
                           /\ PlaceOf(b, stop) = P \/ Before(PlaceOf(b, stop), P)
      BY <1>0, <1>1, <2>1, ColumnReads
    <2>3. CASE c'[0] = NL /\ c'[1] = NL
      <3>1. c'[f] = NL /\ at' = "row_end"
        BY <1>3, <2>3 DEF F
      <3> QED BY <2>2, <3>1
    <2>4. CASE ~ (c'[0] = NL /\ c'[1] = NL)
      <3>1. at' = "row" /\ col' = col + 1
        <4>1. at' # "row_end"
          BY <1>3, <2>4 DEF AddRequest
        <4> QED BY <1>0, <2>4, <4>1, ColumnGoesOn
      <3>2. c'[f] = NL => Before(PlaceOf(b, stop), <<row, col + 1>>)
        <4> HAVE c'[f] = NL
        <4>1. stop \in Nat \ {0}
          BY <2>2
        <4> HIDE DEF stop
        <4>2. PlaceOf(b, stop)[1] \in Nat /\ PlaceOf(b, stop)[2] \in Nat
          BY <4>1, NewlineFacts DEF PlaceOf
        <4>3. PlaceOf(b, stop) = P \/ Before(PlaceOf(b, stop), P)
          BY <2>2 DEF stop
        <4> QED BY <1>4, <2>1, <4>2, <4>3 DEF Before
      <3> HIDE DEF n
      <3> QED BY <2>2, <3>1, <3>2 DEF n
    <2> QED BY <2>3, <2>4
  <1>9. Framing'
    BY <1>5, ColumnFraming
  <1> QED BY <1>6, <1>7, <1>8, <1>9 DEF FishInv, ListOK, Listing

LEMMA RowEndInv == ASSUME FishInv, RowEnd PROVE FishInv'
  <1>0. TypeOK /\ Reading /\ Framing /\ BlinkTypeOK
    BY DEF FishInv, TypeOK
  <1>1. /\ at = "row_end" /\ c' = [f \in F |-> LineStart(f)] /\ row' = (row + 1) % Short
        /\ col' = 0 /\ at' = IF eof[0] /\ eof[1] THEN "framed" ELSE "row"
        /\ UNCHANGED <<blinkVars, frame, position, eof, script, made, ticks>>
        /\ UNCHANGED <<blink_array, mp1_list_head, vmem, order, age, shown>>
    BY DEF RowEnd, blinkVars
  <1>2. row \in Nat /\ col \in Nat /\ Short \in Nat \ {0}
    BY <1>0, Sizes DEF TypeOK
  <1>3. TypeOK'
    <2>1. row' \in 0..(Short - 1) /\ col' \in 0..(Short - 1)
      BY <1>1, <1>2, Remainder
    <2>2. c' \in [F -> Glyph \cup {NL}]
      BY <1>1, FishConstants DEF LineStart
    <2>3. at' \in {"framed", "row"}
      BY <1>1
    <2> QED BY <1>0, <1>1, <2>1, <2>2, <2>3 DEF TypeOK, BlinkTypeOK, Wait
  <1>4. BlinkInv' /\ NoneAtZero' /\ NeverLost'
    BY <1>1, ListStutter, ExcuseKept DEF FishInv, NeverLost
  \* Where the two files are, when both their lines have ended.
  <1>5. ASSUME Readable, NEW f \in F, NEW b, b = frame[f].bytes
        PROVE  LET n == position[f]
               IN  /\ n \in Nat /\ n <= Len(b) /\ Len(b) \in Nat
                   /\ eof[f] => n = Len(b) /\ RowOf(b, n + 1) <= row
                   /\ ~eof[f] => n > 0 /\ b[n] = NL /\ RowOf(b, n) = row
    <2>1. position[f] \in Nat /\ Len(b) \in Nat
      BY <1>0, <1>5, FrameFacts DEF TypeOK
    <2> QED BY <1>0, <1>1, <1>5, <2>1 DEF Reading
  <1>6. ASSUME Readable, at' = "row" PROVE row' = row + 1
    <2>1. PICK g \in F : ~eof[g]
      BY <1>1, <1>6 DEF F
    <2>2. PICK b : b = frame[g].bytes
      OBVIOUS
    <2>3. /\ position[g] \in Nat \ {0} /\ position[g] <= Len(b) /\ Len(b) \in Nat
          /\ RowOf(b, position[g]) = row
      BY <1>5, <1>6, <2>1, <2>2
    <2>4. row + ColOf(b, position[g]) <= position[g] - 1 /\ ColOf(b, position[g]) \in Nat
      BY <2>3, PlaceBound, NewlineFacts
    <2>5. Len(b) * Width + Offset < Short
      BY <1>6, <2>2 DEF Readable
    <2>6. Len(b) * Width \in Nat /\ Len(b) <= Len(b) * Width
      BY <2>3, Sizes
    <2>7. row + 1 < Short
      BY <1>2, <2>3, <2>4, <2>5, <2>6, FishConstants
    <2> QED BY <1>1, <1>2, <2>7, SmallRemainder
  <1>7. Reading'
    <2> SUFFICES ASSUME at' = "row", Readable, NEW f \in F, NEW b, b = frame[f].bytes
                 PROVE  LET n == position[f]
                            stop == IF eof[f] THEN n + 1 ELSE n
                        IN  /\ n <= Len(b)
                            /\ c'[f] # NL => ~eof[f] /\ PlaceOf(b, n + 1) = <<row', col'>>
                            /\ c'[f] = NL => /\ eof[f] /\ n = Len(b) /\ RowOf(b, stop) <= row'
                                             /\ Before(PlaceOf(b, stop), <<row', col'>>)
      <3>1. Readable' = Readable /\ at' \notin {"open", "row_end"}
        BY <1>1, CellsKept
      <3> QED BY <1>1, <3>1 DEF Reading
    <2>1. c'[f] = IF eof[f] THEN NL ELSE Digit
      BY <1>1 DEF LineStart
    <2>2. row' = row + 1 /\ col' = 0
      BY <1>1, <1>6
    <2>3. CASE eof[f]
      <3>1. position[f] = Len(b) /\ RowOf(b, position[f] + 1) <= row /\ position[f] \in Nat
        BY <1>5, <2>3
      <3>2. RowOf(b, position[f] + 1) \in Nat
        BY <3>1, NewlineFacts
      <3>3. RowOf(b, position[f] + 1) <= row + 1 /\ RowOf(b, position[f] + 1) < row + 1
        BY <1>2, <3>1, <3>2
      <3>4. Before(PlaceOf(b, position[f] + 1), <<row', col'>>)
        BY <2>2, <3>3 DEF Before, PlaceOf
      <3> QED BY <2>1, <2>2, <2>3, <3>1, <3>3, <3>4
    <2>4. CASE ~eof[f]
      <3>1. /\ position[f] \in Nat \ {0} /\ position[f] <= Len(b)
            /\ b[position[f]] = NL /\ RowOf(b, position[f]) = row
        BY <1>5, <2>4
      <3>2. PlaceOf(b, position[f] + 1) = <<row + 1, 0>>
        BY <3>1, NextRow DEF PlaceOf
      <3> QED BY <2>1, <2>2, <2>4, <3>1, <3>2, FishConstants
    <2> QED BY <2>3, <2>4
  \* Every cell of this row and the ones above has been read, and if both files
  \* have ended there are no others.
  <1>8. Framing'
    <2>1. PICK D : D = Drawn
      OBVIOUS
    <2>2. made = 0 /\ (Readable => ListIs(D))
      BY <1>0, <1>1, <2>1 DEF Framing
    <2>3. Readable => D = Drawn'
      <3> HAVE Readable
      <3>1. VisibleCells' = VisibleCells
        BY <1>1, CellsKept
      <3>2. \A p \in VisibleCells : p \in D <=> p[1] <= row
        <4> TAKE p \in VisibleCells
        <4>1. p[1] \in Nat /\ p[2] \in Nat
          BY VisibleFacts
        <4>2. p \in D <=> (Before(p, <<row, col>>) \/ p[1] = row)
          BY <1>1, <2>1 DEF Drawn
        <4> QED BY <1>2, <4>1, <4>2 DEF Before
      <3>3. CASE at' = "framed"
        <4>1. ASSUME NEW p \in VisibleCells PROVE p[1] <= row
          <5>1. PICK f \in F : CharAt(frame[f].bytes, p) # Blank
            BY VisibleFacts
          <5>2. PICK b : b = frame[f].bytes
            OBVIOUS
          <5>3. eof[f]
            BY <1>1, <3>3 DEF F
          <5>4. Len(b) \in Nat /\ RowOf(b, Len(b) + 1) <= row
            BY <1>5, <5>2, <5>3
          <5>5. Len(b) + 1 \in 1..(Len(b) + 1)
            BY <5>4
          <5>6. p[1] <= RowOf(b, Len(b) + 1)
            BY <5>1, <5>2, <5>4, <5>5, CharsBefore
          <5>7. p[1] \in Nat /\ RowOf(b, Len(b) + 1) \in Nat
            BY <5>4, VisibleFacts, NewlineFacts
          <5> QED BY <1>2, <5>4, <5>6, <5>7
        <4>2. Drawn' = VisibleCells
          BY <3>1, <3>3 DEF Drawn
        <4>3. D \subseteq VisibleCells
          BY <2>1 DEF Drawn
        <4> QED BY <3>2, <4>1, <4>2, <4>3
      <3>4. CASE at' = "row"
        <4>1. row' = row + 1 /\ col' = 0
          BY <1>1, <1>6, <3>4
        <4>2. \A p \in VisibleCells : Before(p, <<row', col'>>) <=> p[1] <= row
          <5> TAKE p \in VisibleCells
          <5>1. p[1] \in Nat /\ p[2] \in Nat
            BY VisibleFacts
          <5> QED BY <1>2, <4>1, <5>1 DEF Before
        <4>3. Drawn' = {p \in VisibleCells : Before(p, <<row', col'>>)}
          BY <3>1, <3>4 DEF Drawn
        <4>4. D \subseteq VisibleCells
          BY <2>1 DEF Drawn
        <4> QED BY <3>2, <4>2, <4>3, <4>4
      <3> QED BY <1>1, <3>3, <3>4
    <2> QED BY <1>1, <2>2, <2>3, ListIsKept, FramingNext
  <1> QED BY <1>3, <1>4, <1>7, <1>8 DEF FishInv

-----------------------------------------------------------------------------
(* main *)

LEMMA WaitFacts == ASSUME TypeOK PROVE Len(script) \in Nat /\ Wait \in Nat
  BY FishAssumption, Sizes DEF TypeOK, Wait

\* The clock's start and main's end change no more than where main is.
LEMMA MoveInv ==
    ASSUME FishInv, StartClock \/ Return
    PROVE  FishInv'
  <1>1. /\ at # "lost" /\ at' \in {"wait", "done"}
        /\ UNCHANGED <<blink_array, mp1_list_head, vmem, order, age, shown, frame, position, c, eof,
                       row, col, script, made, ticks>>
    BY DEF StartClock, Return, blinkVars, fileVars
  <1>2. TypeOK'
    BY <1>1 DEF FishInv, TypeOK, BlinkTypeOK, Wait
  <1>3. Reading' /\ NeverLost' /\ Framing'
    BY <1>1 DEF Reading, NeverLost, Framing
  <1>4. BlinkInv' /\ NoneAtZero'
    BY <1>1, ListStutter, ExcuseKept DEF FishInv
  <1> QED BY <1>2, <1>3, <1>4 DEF FishInv

LEMMA TickStepInv == ASSUME FishInv, Tick PROVE FishInv'
  <1>0. TypeOK /\ BlinkTypeOK /\ BlinkInv /\ NoneAtZero
    BY DEF FishInv, TypeOK, Tick
  <1>1. /\ at = "wait" /\ ticks < Wait /\ mp1_rtc_tasklet /\ ticks' = ticks + 1
        /\ UNCHANGED <<frame, at, position, c, eof, row, col, script, made>>
    BY DEF Tick, fileVars
  <1>2. /\ BlinkTypeOK' /\ BlinkInv' /\ InUse' = InUse
        /\ \A t \in InUse' : blink_array'[t].location = blink_array[t].location
    BY <1>0, <1>1, TickInv
  <1>3. TypeOK'
    <2>1. ticks' \in 0..Wait /\ Wait' = Wait
      BY <1>0, <1>1, WaitFacts DEF TypeOK, Wait
    <2> QED BY <1>0, <1>1, <1>2, <2>1 DEF TypeOK
  <1>4. NoneAtZero'
    BY <1>0, <1>1, <1>2, ExcuseKept DEF NoneAtZero
  <1>5. Reading' /\ NeverLost' /\ Framing'
    BY <1>1 DEF Reading, NeverLost, Framing
  <1> QED BY <1>2, <1>3, <1>4, <1>5 DEF FishInv

\* A request of main that is granted or fails.
LEMMA RequestInv == ASSUME FishInv, Request PROVE FishInv'
  <1> DEFINE k == made + 1
             r == script[k]
  <1>0. TypeOK /\ BlinkTypeOK /\ BlinkInv /\ NoneAtZero /\ ListOK
    BY DEF FishInv, TypeOK, Request, ListOK, Listing
  <1>1. /\ at = "wait" /\ made < Len(script) /\ made' = made + 1 /\ ticks' = 0
        /\ UNCHANGED <<frame, position, c, eof, row, col, script>>
    BY DEF Request, fileVars
  <1>2. k \in 1..Len(script) /\ made' \in 0..Len(script) /\ Len(script) \in Nat
    BY <1>0, <1>1, WaitFacts DEF TypeOK
  <1>3. Excuse => Excuse'
    BY <1>0, <1>1, ExcuseKept DEF TypeOK
  <1>4. \/ r.op = "add" /\ AddRequest(r, "wait")
        \/ at' = at /\ UNCHANGED blinkVars
        \/ at' = at /\ mp1_ioctl_remove(r.location)
        \/ at' = at /\ mp1_ioctl_sync(r.from, r.to)
    BY DEF Request
  <1>5. ListOK' /\ at' \in {"wait", "lost"}
    <2>1. CASE r.op = "add" /\ AddRequest(r, "wait")
      <3>1. Requested(r)
        BY <1>0, <1>2, <2>1, RequestFacts DEF TypeOK
      <3>2. r.location = 0 => Excuse'
        <4>1. k \in 1..made'
          BY <1>1, <1>2
        <4>2. r.location = 0 => script'[k].op = "add" /\ script'[k].location = 0
          BY <1>1, <2>1
        <4> QED BY <4>1, <4>2 DEF Excuse
      <3> HIDE DEF r
      <3> QED BY <1>0, <1>1, <1>3, <2>1, <3>1, <3>2, AddRequestInv
    <2>2. CASE at' = at /\ UNCHANGED blinkVars
      <3>1. BlinkTypeOK' /\ BlinkInv' /\ NoneAtZero'
        BY <1>0, <1>1, <1>3, <2>2, ListStutter DEF blinkVars
      <3> QED BY <1>1, <2>2, <3>1 DEF ListOK, Listing, NeverLost
    <2>3. CASE at' = at /\ mp1_ioctl_remove(r.location)
      <3>1. /\ BlinkTypeOK' /\ BlinkInv' /\ InUse' \subseteq InUse
            /\ \A t \in InUse' : blink_array'[t].location = blink_array[t].location
        BY <1>0, <2>3, RemoveInv
      <3>2. NoneAtZero'
        BY <1>0, <1>3, <3>1 DEF NoneAtZero
      <3> QED BY <1>1, <2>3, <3>1, <3>2 DEF ListOK, Listing, NeverLost
    <2>4. CASE at' = at /\ mp1_ioctl_sync(r.from, r.to)
      <3>1. /\ BlinkTypeOK' /\ BlinkInv' /\ InUse' = InUse
            /\ \A t \in InUse' : blink_array'[t].location = blink_array[t].location
        BY <1>0, <2>4, SyncInv
      <3>2. NoneAtZero'
        BY <1>0, <1>3, <3>1 DEF NoneAtZero
      <3> QED BY <1>1, <2>4, <3>1, <3>2 DEF ListOK, Listing, NeverLost
    <2> HIDE DEF r
    <2> QED BY <1>4, <2>1, <2>2, <2>3, <2>4
  <1>6. TypeOK'
    <2>1. ticks' \in 0..Wait'
      BY <1>1, <1>2, FishConstants, Sizes DEF Wait
    <2> QED BY <1>0, <1>1, <1>2, <1>5, <2>1 DEF TypeOK, ListOK
  <1>7. Reading' /\ Framing'
    BY <1>5 DEF Reading, Framing
  <1> QED BY <1>5, <1>6, <1>7 DEF FishInv, ListOK, Listing

LEMMA StutterInv == ASSUME FishInv, UNCHANGED vars PROVE FishInv'
  <1>1. UNCHANGED <<blink_array, mp1_list_head, vmem, order, age, shown, frame, at, position, c, eof,
                    row, col, script, made, ticks>>
    BY DEF vars, blinkVars, fileVars
  <1>2. TypeOK'
    BY <1>1 DEF FishInv, TypeOK, BlinkTypeOK, Wait
  <1>3. Reading' /\ NeverLost'
    BY <1>1, ExcuseKept, CellsKept DEF FishInv, Reading, NeverLost
  <1>4. at' # "lost" => BlinkInv' /\ NoneAtZero'
    BY <1>1, ListStutter, ExcuseKept DEF FishInv
  <1>5. Framing'
    <2> SUFFICES ASSUME at' \in {"open", "row", "row_end", "framed"} PROVE Framing'
      BY DEF Framing
    <2>1. PICK D : D = Drawn
      OBVIOUS
    <2>2. D = Drawn'
      BY <1>1, <2>1, CellsKept DEF Drawn
    <2>3. made = 0 /\ (Readable => ListIs(D))
      BY <1>1, <2>1 DEF FishInv, Framing
    <2> QED BY <1>1, <2>2, <2>3, ListIsKept, FramingNext
  <1> QED BY <1>2, <1>3, <1>4, <1>5 DEF FishInv

LEMMA StepInv == FishInv /\ [Next]_vars => FishInv'
  BY OpenInv, ColumnInv, RowEndInv, MoveInv, TickStepInv, RequestInv, StutterInv
  DEF Next, Step, Ended

-----------------------------------------------------------------------------
(* The way to the end *)

\* What main has left to do, most significant first: the part of the program, the
\* bytes and ends of the two files, the end of a row, the requests, the ticks.
Undamaged == \A f \in F : frame[f].bad = {}
Part == IF at = "open" THEN 4 ELSE IF at \in {"row", "row_end"} THEN 3
        ELSE IF at = "framed" THEN 2 ELSE IF at = "wait" THEN 1 ELSE 0
Left(f) == Len(frame[f].bytes) - position[f] + (IF eof[f] THEN 0 ELSE 1)
Remaining == <<Part, Left(0) + Left(1), IF at = "row_end" THEN 1 ELSE 0,
               Len(script) - made, Wait - ticks>>
Less(u, v) == \E i \in 1..5 : u[i] < v[i] /\ \A j \in 1..(i - 1) : u[j] = v[j]

\* A round of the inner loop has a file to read, and reads it no further than to
\* its end.
GoesOn ==
    Undamaged =>
        /\ \A f \in F : position[f] <= Len(frame[f].bytes)
        /\ at \in {"open", "row"} => (\A f \in F : eof[f] => c[f] = NL) /\ \E f \in F : c[f] # NL

\* A step of the program, on undamaged files, leaves less to do.
Nearer ==
    Undamaged /\ Step =>
        Remaining \in Nat \X Nat \X Nat \X Nat \X Nat /\ Less(Remaining', Remaining)

LEMMA LessAt ==
    ASSUME NEW u, NEW v,
           \/ u[1] < v[1]
           \/ u[1] = v[1] /\ u[2] < v[2]
           \/ u[1] = v[1] /\ u[2] = v[2] /\ u[3] < v[3]
           \/ u[1] = v[1] /\ u[2] = v[2] /\ u[3] = v[3] /\ u[4] < v[4]
           \/ u[1] = v[1] /\ u[2] = v[2] /\ u[3] = v[3] /\ u[4] = v[4] /\ u[5] < v[5]
    PROVE  Less(u, v)
  <1>1. /\ 1..(1 - 1) = {} /\ 1..(2 - 1) = {1} /\ 1..(3 - 1) = {1, 2} /\ 1..(4 - 1) = {1, 2, 3}
        /\ 1..(5 - 1) = {1, 2, 3, 4} /\ 1..5 = {1, 2, 3, 4, 5}
    OBVIOUS
  <1> QED BY <1>1 DEF Less

\* What a round leaves of a file: one less if it has read it.
LEMMA ColumnLeft ==
    ASSUME TypeOK, GoesOn, Undamaged, Column, NEW f \in F
    PROVE  /\ position'[f] <= Len(frame[f].bytes) /\ (eof'[f] => c'[f] = NL)
           /\ Left(f) \in Nat
           /\ Left(f)' = IF c[f] # NL THEN Left(f) - 1 ELSE Left(f)
  <1> DEFINE n == position[f]
             size == Len(frame[f].bytes)
  <1>1. /\ size \in Nat /\ WordSize \in Nat \ {0} /\ size < WordSize - 1 /\ n \in Nat
        /\ eof[f] \in BOOLEAN /\ eof'[f] \in BOOLEAN
    <2>1. eof' \in [F -> BOOLEAN]
      BY ColumnSteps, ColumnTypes
    <2> QED BY <2>1, FrameFacts DEF TypeOK
  <1>2. n <= size /\ (eof[f] => c[f] = NL) /\ ~BadAt(f)
    BY ColumnSteps DEF GoesOn, Undamaged, BadAt
  <1>3. /\ position'[f] = (n + Returned(f)) % WordSize
        /\ c'[f] = NextByte(f) /\ (eof'[f] <=> eof[f] \/ (Reads(f) /\ SeesEnd(f)))
        /\ frame' = frame
    BY ColumnSteps
  <1>4. Left(f) = size - n + (IF eof[f] THEN 0 ELSE 1)
        /\ Left(f)' = size - position'[f] + (IF eof'[f] THEN 0 ELSE 1)
    BY <1>3 DEF Left
  <1>5. (n + 0) % WordSize = n
    <2> HIDE DEF n, size
    <2>1. n < WordSize /\ n + 0 = n
      BY <1>1, <1>2
    <2> QED BY <1>1, <2>1, SmallRemainder
  <1>6. CASE ~Reads(f)
    <2>1. Returned(f) = 0 /\ NextByte(f) = c[f] /\ c[f] = NL
      BY <1>6 DEF Returned, NextByte, Reads
    <2>2. position'[f] = n /\ c'[f] = NL /\ eof'[f] = eof[f]
      BY <1>1, <1>3, <1>5, <1>6, <2>1
    <2>3. Left(f)' = Left(f)
      BY <1>4, <2>2
    <2> HIDE DEF n, size
    <2>4. Left(f) \in Nat /\ position'[f] <= size
      BY <1>1, <1>2, <1>4, <2>2
    <2> QED BY <2>1, <2>2, <2>3, <2>4 DEF size
  <1>7. CASE Reads(f) /\ AtEnd(f)
    <2>1. Returned(f) = 0 /\ NextByte(f) = NL /\ c[f] # NL
      BY <1>7 DEF Returned, NextByte, SeesEnd, Reads
    <2>2. position'[f] = n /\ c'[f] = NL /\ eof'[f] /\ ~eof[f]
      BY <1>2, <1>3, <1>5, <1>7, <2>1 DEF SeesEnd
    <2> HIDE DEF n, size
    <2> QED BY <1>1, <1>2, <1>4, <2>1, <2>2 DEF size
  <1>8. CASE Reads(f) /\ ~AtEnd(f)
    <2>1. n < size /\ c[f] # NL /\ Returned(f) = 1
      BY <1>1, <1>2, <1>8 DEF AtEnd, Reads, Returned
    <2>2. (n + 1) % WordSize = n + 1
      BY <1>1, <2>1, SmallRemainder
    <2>3. position'[f] = n + 1 /\ ~eof'[f] /\ ~eof[f]
      BY <1>2, <1>3, <1>8, <2>1, <2>2 DEF SeesEnd
    <2> HIDE DEF n, size
    <2> QED BY <1>1, <1>2, <1>4, <2>1, <2>3 DEF size
  <1> QED BY <1>6, <1>7, <1>8

\* A file to read stays.
LEMMA GoesOnKept == ASSUME FishInv, GoesOn, [Next]_vars PROVE GoesOn'
  <1>0. TypeOK
    BY DEF FishInv
  <1>1. CASE Column
    <2> SUFFICES ASSUME Undamaged
                 PROVE  /\ \A f \in F : position'[f] <= Len(frame[f].bytes)
                        /\ at' \in {"open", "row"} => /\ \A f \in F : eof'[f] => c'[f] = NL
                                                      /\ \E f \in F : c'[f] # NL
      BY <1>1, ColumnSteps DEF GoesOn, Undamaged
    <2>1. \A f \in F : position'[f] <= Len(frame[f].bytes) /\ (eof'[f] => c'[f] = NL)
      BY <1>0, <1>1, ColumnLeft
    <2>2. at' \in {"open", "row"} => \E f \in F : c'[f] # NL
      BY <1>1, ColumnSteps DEF F
    <2> QED BY <2>1, <2>2
  <1>2. CASE RowEnd
    <2>1. /\ at = "row_end" /\ c' = [f \in F |-> LineStart(f)]
          /\ at' = IF eof[0] /\ eof[1] THEN "framed" ELSE "row"
          /\ UNCHANGED <<frame, position, eof>>
      BY <1>2 DEF RowEnd
    <2>2. \A f \in F : c'[f] = IF eof[f] THEN NL ELSE Digit
      BY <2>1 DEF LineStart
    <2>3. at' \in {"open", "row"} => \E f \in F : c'[f] # NL
      BY <2>1, <2>2, FishConstants
    <2> QED BY <2>1, <2>2, <2>3 DEF GoesOn, Undamaged
  <1>3. CASE Open \/ StartClock \/ Tick \/ Request \/ Return \/ UNCHANGED vars
    <2>1. UNCHANGED <<frame, position, c, eof>>
      BY <1>3 DEF Open, StartClock, Tick, Request, Return, vars, fileVars
    <2>2. at' \in {"open", "row"} => at \in {"open", "row"}
      BY <1>3 DEF Open, StartClock, Tick, Request, AddRequest, Return, vars
    <2> QED BY <2>1, <2>2 DEF GoesOn, Undamaged
  <1> QED BY <1>1, <1>2, <1>3 DEF Next, Step, Ended

LEMMA RemainingType ==
    ASSUME TypeOK, GoesOn, Undamaged PROVE Remaining \in Nat \X Nat \X Nat \X Nat \X Nat
  <1>1. \A f \in F : Left(f) \in Nat
    <2> TAKE f \in F
    <2>1. Len(frame[f].bytes) \in Nat /\ position[f] \in Nat /\ position[f] <= Len(frame[f].bytes)
      BY FrameFacts DEF TypeOK, GoesOn
    <2> QED BY <2>1 DEF Left
  <1>2. Left(0) + Left(1) \in Nat
    <2>1. Left(0) \in Nat /\ Left(1) \in Nat
      BY <1>1 DEF F
    <2> QED BY <2>1
  <1>3. Len(script) - made \in Nat /\ Wait - ticks \in Nat
    BY WaitFacts DEF TypeOK
  <1>4. Part \in Nat
    BY DEF Part
  <1> QED BY <1>2, <1>3, <1>4 DEF Remaining

LEMMA StepNearer == ASSUME FishInv, GoesOn, Undamaged, Step PROVE Less(Remaining', Remaining)
  <1>0. TypeOK
    BY DEF FishInv
  <1>1. /\ Remaining[1] = Part /\ Remaining'[1] = Part'
        /\ Remaining[2] = Left(0) + Left(1) /\ Remaining'[2] = Left(0)' + Left(1)'
        /\ Remaining[3] = (IF at = "row_end" THEN 1 ELSE 0)
        /\ Remaining'[3] = (IF at' = "row_end" THEN 1 ELSE 0)
        /\ Remaining[4] = Len(script) - made /\ Remaining'[4] = Len(script') - made'
        /\ Remaining[5] = Wait - ticks /\ Remaining'[5] = Wait' - ticks'
    BY DEF Remaining
  <1>2. CASE Open \/ StartClock \/ Return
    <2>1. Part' < Part
      BY <1>2 DEF Open, StartClock, Return, Part
    <2> QED BY <1>1, <2>1, LessAt
  <1>3. CASE Column
    <2>1. at = "row" /\ at' \in {"row", "row_end", "lost"}
      BY <1>3, ColumnSteps DEF AddRequest
    <2>2. Left(0)' + Left(1)' < Left(0) + Left(1)
      <3>1. \A f \in F : Left(f) \in Nat /\ Left(f)' = IF c[f] # NL THEN Left(f) - 1 ELSE Left(f)
        BY <1>0, <1>3, ColumnLeft
      <3>2. c[0] # NL \/ c[1] # NL
        BY <2>1 DEF GoesOn, F
      <3>3. /\ Left(0) \in Nat /\ Left(1) \in Nat
            /\ Left(0)' = IF c[0] # NL THEN Left(0) - 1 ELSE Left(0)
            /\ Left(1)' = IF c[1] # NL THEN Left(1) - 1 ELSE Left(1)
        BY <3>1 DEF F
      <3> QED BY <3>2, <3>3
    <2>3. Part' = Part \/ Part' < Part
      BY <2>1 DEF Part
    <2> QED BY <1>1, <2>2, <2>3, LessAt
  <1>4. CASE RowEnd
    <2>1. /\ at = "row_end" /\ at' \in {"framed", "row"}
          /\ UNCHANGED <<frame, position, eof>>
      BY <1>4 DEF RowEnd
    <2>2. Part' < Part \/ (Part' = Part /\ at' = "row")
      BY <2>1 DEF Part
    <2>3. Left(0)' + Left(1)' = Left(0) + Left(1)
      BY <2>1 DEF Left
    <2>4. Remaining'[3] < Remaining[3] /\ Remaining'[2] = Remaining[2]
      BY <1>1, <2>1, <2>3
    <2> QED BY <1>1, <2>2, <2>4, LessAt
  <1>5. CASE Tick \/ Request
    <2>1. /\ at = "wait" /\ at' \in {"wait", "lost"} /\ UNCHANGED <<frame, position, eof, script>>
      BY <1>5 DEF Tick, Request, AddRequest, fileVars
    <2>2. Part' < Part \/ (Part' = Part /\ at' = "wait")
      BY <2>1 DEF Part
    <2>3. Left(0)' + Left(1)' = Left(0) + Left(1)
      BY <2>1 DEF Left
    <2>4. Remaining'[2] = Remaining[2] /\ (at' = "wait" => Remaining'[3] = Remaining[3])
      BY <1>1, <2>1, <2>3
    <2>5. CASE Request
      <3>1. made' = made + 1 /\ made \in Nat /\ Len(script) \in Nat
        BY <1>0, <2>5, WaitFacts DEF Request, TypeOK
      <3>2. Remaining'[4] < Remaining[4]
        BY <1>1, <2>1, <3>1
      <3> QED BY <1>1, <2>2, <2>4, <3>2, LessAt
    <2>6. CASE Tick
      <3>1. /\ made' = made /\ ticks' = ticks + 1 /\ at' = at
            /\ ticks \in Nat /\ Wait \in Nat /\ Len(script) \in Nat
        BY <1>0, <2>6, WaitFacts DEF Tick, TypeOK
      <3>2. Wait' = Wait
        BY <2>1, <3>1 DEF Wait
      <3>3. Remaining'[5] < Remaining[5] /\ Remaining'[4] = Remaining[4]
        BY <1>1, <2>1, <3>1, <3>2
      <3> QED BY <1>1, <2>1, <2>2, <2>4, <3>1, <3>3, LessAt
    <2> QED BY <1>5, <2>5, <2>6
  <1> QED BY <1>2, <1>3, <1>4, <1>5 DEF Step

-----------------------------------------------------------------------------
(* Theorems *)

\* Whatever fish does, the list, the countdowns, what is shown and how far the
\* files have been read keep together (add_frames and main of fish.c, blink.S).
THEOREM FishInvariance == Spec => []FishInv
  BY InitInv, StepInv, PTL DEF Spec

\* Structures, the screen and the file positions keep their types.
THEOREM FishTypes == Spec => []TypeOK
  <1>1. FishInv => TypeOK
    BY DEF FishInv
  <1> QED BY <1>1, FishInvariance, PTL

\* The list never loses or repeats a structure (mp1_ioctl_add, mp1_ioctl_remove).
THEOREM ListCorrect == Spec => []ListKept
  <1>1. FishInv => ListKept
    BY ChainedIsSound DEF FishInv, TypeOK, BlinkInv, ListKept
  <1> QED BY <1>1, FishInvariance, PTL

\* What a structure has put on the screen is the character of its status
\* (mp1_rtc_tasklet, mp1_ioctl_add).
THEOREM ScreenCorrect == Spec => []ScreenKept
  <1>1. FishInv => ScreenKept
    BY DisplayedIsShown DEF FishInv, TypeOK, BlinkInv, ScreenKept
  <1> QED BY <1>1, FishInvariance, PTL

\* mp1_malloc hands out a structure in use only after a request for location 0, or
\* with a file that is damaged or too long (mp1_malloc of fish.c).
THEOREM MemoryKept == Spec => []NeverLost
  <1>1. FishInv => NeverLost
    BY DEF FishInv
  <1> QED BY <1>1, FishInvariance, PTL

\* When add_frames returns, the list is exactly the visible cells of the two files,
\* each with its two characters, in the order of reading and as far as there is
\* memory, whatever lines the files have (add_frames of fish.c).
THEOREM FramesCorrect == Spec => []FramesAdded
  <1>1. FishInv => FramesAdded
    <2> SUFFICES ASSUME FishInv, at = "framed", Readable PROVE ListIs(VisibleCells)
      BY DEF FramesAdded
    <2>1. Drawn = VisibleCells
      BY DEF Drawn
    <2> QED BY <2>1 DEF FishInv, Framing
  <1> QED BY <1>1, FishInvariance, PTL

\* Every structure blinks at the ticks its lengths ask for (mp1_rtc_tasklet).
THEOREM BlinkingCorrect == Spec => BlinksOnTime
  <1> DEFINE OnTime == mp1_rtc_tasklet => \A s \in Listed :
                 blink_array'[s].status # blink_array[s].status
                     <=> age[s] + 1 = Lasts(StatusLength(blink_array[s]))
  <1>1. FishInv /\ [Next]_vars => [OnTime]_blinkVars
    <2> SUFFICES ASSUME FishInv, [Next]_vars, ~UNCHANGED blinkVars, mp1_rtc_tasklet,
                        NEW s \in Listed
                 PROVE  blink_array'[s].status # blink_array[s].status
                            <=> age[s] + 1 = Lasts(StatusLength(blink_array[s]))
      OBVIOUS
    <2>1. at # "lost"
      <3>1. ~UNCHANGED vars
        BY DEF vars
      <3> QED BY <3>1 DEF Next, Step, Ended, Open, Column, RowEnd, StartClock, Tick, Request, Return
    <2>2. BlinkTypeOK /\ BlinkInv /\ Chained /\ Counting
      BY <2>1 DEF FishInv, TypeOK, BlinkInv
    <2>3. s \in InUse
      BY <2>2, ListedInUse
    <2>4. blink_array'[s].status # blink_array[s].status <=> Expired(s)
      BY <2>2, <2>3, TickInv
    <2> QED BY <2>2, <2>3, <2>4, ExpiredOnTime
  <1> QED BY <1>1, FishInvariance, PTL DEF Spec, BlinksOnTime

\* With undamaged files every step of fish leaves it less to do, in an order that
\* ends: no round of add_frames is idle and none repeats.  What FishEnds adds is
\* that the steps are taken.
THEOREM FishNearsEnd == Spec => [][Nearer]_vars
  <1>1. Init => GoesOn
    <2> SUFFICES ASSUME Init PROVE GoesOn
      OBVIOUS
    <2>1. \A f \in F : position[f] = 0 /\ c[f] # NL /\ ~eof[f] /\ Len(frame[f].bytes) \in Nat
      BY FishConstants, FrameFacts DEF Init
    <2>2. 0 \in F
      BY DEF F
    <2> QED BY <2>1, <2>2 DEF GoesOn
  <1>2. FishInv /\ GoesOn /\ [Next]_vars => GoesOn'
    BY GoesOnKept
  <1>3. FishInv /\ GoesOn /\ [Next]_vars => [Nearer]_vars
    BY RemainingType, StepNearer DEF FishInv, Nearer
  <1> QED BY <1>1, <1>2, <1>3, FishInvariance, PTL DEF Spec
=============================================================================
