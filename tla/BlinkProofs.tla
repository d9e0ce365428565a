---------------------------- MODULE BlinkProofs ----------------------------
(***************************************************************************)
(* The list of blink.S for any screen, any number of structures and any    *)
(* requests: what the loops that follow the pointers find, and that every  *)
(* operation keeps the pointers, the screen and the countdowns in order.   *)
(***************************************************************************)
EXTENDS Blink, FiniteSetTheorems, SequenceTheorems, WellFoundedInduction, TLAPS

-----------------------------------------------------------------------------
(* Sizes, and the first and the last of a set of numbers *)

LEMMA Sizes ==
    /\ Width \in Nat \ {0} /\ Height \in Nat \ {0} /\ Cells \in Nat \ {0}
    /\ Short \in Nat \ {0} /\ Cells < Short
    /\ Slot \subseteq Nat \ {0} /\ NULL \notin Slot /\ Location \subseteq 0..(Short - 1)
  <1>1. Width \in Nat \ {0} /\ Height \in Nat \ {0} /\ Short \in Nat /\ Cells < Short
    BY BlinkAssumption
  <1>2. Cells \in Nat \ {0}
    BY <1>1 DEF Cells
  <1> QED BY <1>1, <1>2 DEF Slot, NULL, Location

\* Half of a short's range.
LEMMA Half ==
    /\ Short \div 2 \in Nat \ {0} /\ Short = 2 * (Short \div 2)
  <1>1. PICK half \in 1..Short : Short = 2 * half
    BY BlinkAssumption
  <1>2. Short \div 2 = half
    BY <1>1, Sizes
  <1> QED BY <1>1, <1>2, Sizes

\* A non-empty set of natural numbers has a first element, which Min is.
LEMMA MinExists ==
    ASSUME NEW S \in SUBSET Nat, S # {}
    PROVE  Min(S) \in S /\ \A e \in S : Min(S) <= e
  <1> DEFINE R == {p \in Nat \X Nat : p[1] < p[2]}
  <1>1. IsWellFoundedOn(R, Nat)
    <2>1. R = OpToRel(<, Nat)
      BY Zenon DEF OpToRel
    <2> QED BY <2>1, NatLessThanWellFounded, Zenon
  <1>2. PICK x \in S : \A y \in S : ~ (<<y, x>> \in R)
    BY <1>1, WFMin
  <1>3. \A e \in S : x <= e
    <2> TAKE e \in S
    <2>1. ~ (<<e, x>> \in R)
      BY <1>2
    <2>2. <<e, x>> \in Nat \X Nat /\ <<e, x>>[1] = e /\ <<e, x>>[2] = x
      OBVIOUS
    <2>3. ~ (e < x)
      BY <2>1, <2>2
    <2> QED BY <2>3
  <1> QED BY <1>3 DEF Min

\* A non-empty set of numbers up to m has a last element, which Max is.
LEMMA MaxExists ==
    ASSUME NEW m \in Nat, NEW S \in SUBSET (0..m), S # {}
    PROVE  Max(S) \in S /\ \A e \in S : Max(S) >= e
  <1> DEFINE D == {m - e : e \in S}
  <1>1. D \in SUBSET Nat /\ D # {}
    <2>1. \A e \in S : m - e \in Nat /\ m - e \in D
      OBVIOUS
    <2>2. D \subseteq Nat
      BY <2>1
    <2> QED BY <2>1, <2>2
  <1>2. Min(D) \in D /\ \A d \in D : Min(D) <= d
    BY <1>1, MinExists
  <1>3. PICK x \in S : Min(D) = m - x
    BY <1>2
  <1>4. \A e \in S : x >= e
    <2> TAKE e \in S
    <2>1. m - e \in D
      OBVIOUS
    <2>2. m - x <= m - e
      BY <1>2, <1>3, <2>1
    <2> QED BY <2>2
  <1> QED BY <1>4 DEF Max

-----------------------------------------------------------------------------
(* Following the pointers *)

\* The list is a sequence without repetition, so it has no more structures than
\* blink_array.
LEMMA ListFits == ASSUME BlinkTypeOK, Chained PROVE Len(order) \in Nat /\ Len(order) <= Cells
  <1>1. order \in [1..Len(order) -> Slot] /\ Len(order) \in Nat
    BY DEF BlinkTypeOK
  <1>2. /\ IsFiniteSet(1..Len(order)) /\ Cardinality(1..Len(order)) = Len(order)
        /\ IsFiniteSet(Slot) /\ Cardinality(Slot) = Cells
    <2>1. IsFiniteSet(1..Len(order)) /\ Cardinality(1..Len(order)) = Len(order)
      <3>1. Cardinality(1..Len(order)) = IF 1 > Len(order) THEN 0 ELSE Len(order) - 1 + 1
        BY <1>1, FS_Interval
      <3> QED BY <1>1, <3>1, FS_Interval
    <2>2. IsFiniteSet(1..Cells) /\ Cardinality(1..Cells) = Cells
      <3>1. Cardinality(1..Cells) = IF 1 > Cells THEN 0 ELSE Cells - 1 + 1
        BY Sizes, FS_Interval
      <3> QED BY Sizes, <3>1, FS_Interval
    <2> QED BY <2>1, <2>2 DEF Slot
  <1>3. \A j, k \in 1..Len(order) : order[j] = order[k] => j = k
    BY DEF Chained
  <1>4. ~ (Cells < Len(order))
    BY <1>1, <1>2, <1>3, FS_PigeonHole
  <1> QED BY <1>1, <1>4, Sizes

\* Walk's definition has a solution, the sequence followed by NULL.
WalkStep(w, n) ==
    IF n = 0 THEN mp1_list_head
    ELSE IF w[n - 1] = NULL THEN NULL ELSE blink_array[w[n - 1]].next
Along(n) == IF n < Len(order) THEN order[n + 1] ELSE NULL

LEMMA AlongSteps ==
    ASSUME BlinkTypeOK, Chained
    PROVE  [n \in 0..Cells |-> Along(n)]
              = [n \in 0..Cells |-> WalkStep([k \in 0..Cells |-> Along(k)], n)]
  <1> DEFINE g == [k \in 0..Cells |-> Along(k)]
  <1>1. order \in Seq(Slot) /\ Len(order) \in Nat /\ Len(order) <= Cells /\ NULL \notin Slot
        /\ Cells \in Nat
    BY ListFits, Sizes DEF BlinkTypeOK
  <1>2. ASSUME NEW n \in 0..Cells PROVE Along(n) = WalkStep(g, n)
    <2>1. CASE n = 0
      BY <1>1, <2>1 DEF Chained, Along, WalkStep
    <2>2. CASE n # 0
      <3>1. n - 1 \in 0..Cells /\ g[n - 1] = Along(n - 1) /\ n - 1 + 1 = n
        BY <1>1, <2>2
      <3>2. CASE n - 1 < Len(order)
        <4>1. n \in 1..Len(order) /\ g[n - 1] = order[n] /\ order[n] # NULL
          BY <1>1, <2>2, <3>1, <3>2 DEF Along
        <4> QED BY <2>2, <4>1 DEF Chained, WalkStep, Along
      <3>3. CASE ~ (n - 1 < Len(order))
        BY <1>1, <2>2, <3>1, <3>3 DEF Along, WalkStep
      <3> QED BY <3>2, <3>3
    <2> QED BY <2>1, <2>2
  <1> QED BY <1>2

\* So Walk is one, and there is no other: two differ in a first place.
LEMMA WalkUnfolds ==
    ASSUME BlinkTypeOK, Chained
    PROVE  Walk = [n \in 0..Cells |-> WalkStep(Walk, n)]
  <1> DEFINE P(w) == w = [n \in 0..Cells |-> IF n = 0 THEN mp1_list_head
                                             ELSE IF w[n - 1] = NULL THEN NULL
                                             ELSE blink_array[w[n - 1]].next]
  <1>1. \E w : P(w)
    BY AlongSteps DEF WalkStep
  <1>2. Walk = CHOOSE w : P(w)
    BY DEF Walk
  <1>3. P(Walk)
    BY <1>1, <1>2, Zenon
  <1> QED BY <1>3 DEF WalkStep

LEMMA WalkFollows ==
    ASSUME BlinkTypeOK, Chained
    PROVE  \A n \in 0..Cells : Walk[n] = Along(n)
  <1> DEFINE D == {n \in 0..Cells : Walk[n] # Along(n)}
  <1> SUFFICES ASSUME D # {} PROVE FALSE
    OBVIOUS
  <1>1. D \in SUBSET Nat
    BY Sizes
  <1> DEFINE m == Min(D)
  <1>2. m \in D /\ \A e \in D : m <= e
    BY <1>1, MinExists
  <1> HIDE DEF m
  <1>3. m \in 0..Cells /\ m \in Nat /\ Cells \in Nat
    BY <1>2, Sizes
  <1>4. Walk[m] = WalkStep(Walk, m)
    BY <1>3, WalkUnfolds
  <1>5. Along(m) = WalkStep([k \in 0..Cells |-> Along(k)], m)
    BY <1>3, AlongSteps
  <1>6. CASE m = 0
    BY <1>2, <1>4, <1>5, <1>6 DEF WalkStep
  <1>7. CASE m # 0
    <2>1. m - 1 \in 0..Cells /\ m - 1 \notin D
      BY <1>2, <1>3, <1>7
    <2>2. Walk[m - 1] = Along(m - 1)
      BY <2>1
    <2> QED BY <1>2, <1>4, <1>5, <1>7, <2>1, <2>2 DEF WalkStep
  <1> QED BY <1>6, <1>7

\* The structures in use, by their place in the list.
LEMMA InUseFacts ==
    ASSUME BlinkTypeOK
    PROVE  /\ \A s \in InUse : s \in Slot /\ s # NULL /\ \E k \in 1..Len(order) : order[k] = s
           /\ \A k \in 1..Len(order) : order[k] \in InUse
  <1>1. \A k \in 1..Len(order) : order[k] \in Slot
    BY DEF BlinkTypeOK
  <1> QED BY <1>1, Sizes DEF InUse

\* A walk comes through the structures in use and no others.
LEMMA WalkInUse ==
    ASSUME BlinkTypeOK, Chained
    PROVE  /\ \A n \in 0..Cells : Walk[n] # NULL => Walk[n] \in InUse
           /\ \A s \in InUse : \E n \in 0..Cells : Walk[n] = s
  <1>1. Len(order) \in Nat /\ Len(order) <= Cells /\ Cells \in Nat
    BY ListFits, Sizes
  <1>2. ASSUME NEW n \in 0..Cells, Walk[n] # NULL PROVE Walk[n] \in InUse
    <2>1. n < Len(order) /\ Walk[n] = order[n + 1]
      BY <1>2, WalkFollows DEF Along
    <2>2. n + 1 \in 1..Len(order)
      BY <1>1, <2>1
    <2> QED BY <2>1, <2>2, InUseFacts
  <1>3. ASSUME NEW s \in InUse PROVE \E n \in 0..Cells : Walk[n] = s
    <2>1. PICK k \in 1..Len(order) : order[k] = s
      BY InUseFacts
    <2>2. k - 1 \in 0..Cells /\ k - 1 < Len(order) /\ k - 1 + 1 = k
      BY <1>1
    <2>3. Walk[k - 1] = s
      BY <2>1, <2>2, WalkFollows DEF Along
    <2> QED BY <2>2, <2>3
  <1> QED BY <1>2, <1>3

LEMMA ListedInUse == ASSUME BlinkTypeOK, Chained PROVE Listed = InUse
  <1>1. ASSUME NEW s \in Listed PROVE s \in InUse
    <2>1. s \in Slot /\ \E n \in 0..Cells : Walk[n] = s
      BY <1>1 DEF Listed
    <2>2. s # NULL
      BY <2>1, Sizes
    <2> QED BY <2>1, <2>2, WalkInUse
  <1>2. ASSUME NEW s \in InUse PROVE s \in Listed
    BY <1>2, InUseFacts, WalkInUse DEF Listed
  <1> QED BY <1>1, <1>2

LEMMA ChainedIsSound == ASSUME BlinkTypeOK, Chained PROVE ListSound
  BY WalkFollows DEF Along, Chained, ListSound

LEMMA DisplayedIsShown == ASSUME BlinkTypeOK, Chained, Displayed PROVE ScreenShowsStatus
  BY ListedInUse DEF Displayed, ScreenShowsStatus

\* The search finds a structure in use, at the location asked for.
LEMMA FindFacts ==
    ASSUME BlinkTypeOK, Chained, NEW l, mp1_find_helper(l) # NULL
    PROVE  mp1_find_helper(l) \in InUse /\ mp1_find_helper(l) \in Slot
  <1> DEFINE hits == {n \in 0..Cells : /\ Walk[n] # NULL
                                        /\ blink_array[Walk[n]].location = l % Short}
  <1>1. mp1_find_helper(l) = IF hits = {} THEN NULL ELSE Walk[Min(hits)]
    BY DEF mp1_find_helper
  <1>2. hits # {} /\ hits \in SUBSET Nat
    BY <1>1, Sizes
  <1>3. Min(hits) \in hits
    BY <1>2, MinExists
  <1>4. Min(hits) \in 0..Cells /\ Walk[Min(hits)] # NULL
    BY <1>3
  <1> HIDE DEF hits
  <1> QED BY <1>1, <1>2, <1>4, WalkInUse, InUseFacts

\* The allocation finds a structure whose location is zero.
LEMMA MallocFacts ==
    ASSUME mp1_malloc # NULL
    PROVE  mp1_malloc \in Slot /\ blink_array[mp1_malloc].location = 0
  <1> DEFINE free == {s \in Slot : blink_array[s].location = 0}
  <1>1. mp1_malloc = IF free = {} THEN NULL ELSE Min(free)
    BY DEF mp1_malloc
  <1>2. free # {} /\ free \in SUBSET Nat
    BY <1>1, Sizes
  <1>3. Min(free) \in free
    BY <1>2, MinExists
  <1>4. Min(free) \in Slot /\ blink_array[Min(free)].location = 0
    BY <1>3
  <1> HIDE DEF free
  <1> QED BY <1>1, <1>2, <1>4

\* A tick puts a character at a location if a structure there has expired.
LEMMA LastPokeFacts ==
    ASSUME BlinkTypeOK, Chained, NEW l \in Location
    PROVE  /\ LastPoke(l) # NULL => /\ LastPoke(l) \in InUse /\ Expired(LastPoke(l))
                                    /\ blink_array[LastPoke(l)].location = l
           /\ LastPoke(l) = NULL =>
                 \A s \in InUse : blink_array[s].location = l => ~Expired(s)
  <1> DEFINE hits == {n \in 0..Cells : /\ Walk[n] # NULL /\ Expired(Walk[n])
                                        /\ blink_array[Walk[n]].location = l}
  <1>1. LastPoke(l) = IF hits = {} THEN NULL ELSE Walk[Max(hits)]
    BY DEF LastPoke
  <1>2. hits \in SUBSET (0..Cells) /\ Cells \in Nat
    BY Sizes
  <1>3. hits # {} => Max(hits) \in hits
    BY <1>2, MaxExists
  <1>4. hits # {} => /\ Max(hits) \in 0..Cells /\ Walk[Max(hits)] # NULL
                     /\ Expired(Walk[Max(hits)])
                     /\ blink_array[Walk[Max(hits)]].location = l
    BY <1>3
  <1>5. ASSUME NEW s \in InUse, blink_array[s].location = l, Expired(s) PROVE hits # {}
    <2>1. PICK n \in 0..Cells : Walk[n] = s
      BY WalkInUse
    <2>2. n \in hits
      BY <1>5, <2>1, InUseFacts
    <2> QED BY <2>2
  <1> HIDE DEF hits
  <1> QED BY <1>1, <1>4, <1>5, WalkInUse

-----------------------------------------------------------------------------
(* mp1_ioctl_add *)

Requested(r) ==
    /\ r.location \in Nat /\ r.on_char \in Glyph /\ r.off_char \in Glyph
    /\ r.on_length \in 0..(Short - 1) /\ r.off_length \in 0..(Short - 1)

\* What an addition does, to any structure it is handed.
LEMMA AddFacts ==
    ASSUME BlinkTypeOK, NEW r, Requested(r), mp1_ioctl_add(r)
    PROVE  /\ mp1_malloc \in Slot /\ blink_array[mp1_malloc].location = 0
           /\ r.location \in Location
           /\ BlinkTypeOK'
           /\ InUse' = {mp1_malloc} \cup InUse
  <1> DEFINE s == mp1_malloc
             b == [location |-> r.location, on_char |-> r.on_char, off_char |-> r.off_char,
                   on_length |-> r.on_length, off_length |-> r.off_length,
                   countdown |-> r.on_length, status |-> 1, next |-> mp1_list_head]
  <1>1. s # NULL /\ r.location < Cells
    BY Sizes DEF mp1_ioctl_add, AddFails, Requested
  <1>2. s \in Slot /\ blink_array[s].location = 0
    BY <1>1, MallocFacts
  <1>3. r.location \in Location
    BY <1>1, Sizes DEF Location, Requested
  <1>4. b \in Struct
    BY <1>3 DEF Requested, Struct, BlinkTypeOK
  <1> HIDE DEF b
  <1>5. /\ blink_array' = [blink_array EXCEPT ![s] = b] /\ mp1_list_head' = s
        /\ vmem' = [vmem EXCEPT ![r.location] = r.on_char]
        /\ order' = <<s>> \o order
        /\ age' = [age EXCEPT ![s] = 0] /\ shown' = [shown EXCEPT ![r.location] = s]
    BY DEF mp1_ioctl_add, b
  <1> HIDE DEF s
  <1>6. blink_array' \in [Slot -> Struct] /\ mp1_list_head' \in Slot \cup {NULL}
    BY <1>2, <1>4, <1>5 DEF BlinkTypeOK
  <1>7. vmem' \in [Location -> Glyph \cup {Zero}]
    BY <1>3, <1>5 DEF BlinkTypeOK, Requested
  <1>8. /\ order' \in Seq(Slot) /\ age' \in [Slot -> 0..(Short - 1)]
        /\ shown' \in [Location -> Slot \cup {NULL}]
    BY <1>2, <1>3, <1>5, Sizes DEF BlinkTypeOK
  <1>9. InUse' = {s} \cup InUse
    <2>1. order \in Seq(Slot) /\ Len(order) \in Nat /\ Len(order') = Len(order) + 1
      BY <1>2, <1>5 DEF BlinkTypeOK
    <2>2. \A k \in 1..Len(order') : order'[k] = IF k = 1 THEN s ELSE order[k - 1]
      BY <1>2, <1>5, <2>1
    <2>3. ASSUME NEW t \in InUse' PROVE t \in {s} \cup InUse
      <3>1. PICK k \in 1..Len(order') : order'[k] = t
        BY <2>3 DEF InUse
      <3>2. k # 1 => k - 1 \in 1..Len(order)
        BY <2>1
      <3> QED BY <2>2, <3>1, <3>2 DEF InUse
    <2>4. ASSUME NEW t \in {s} \cup InUse PROVE t \in InUse'
      <3>1. CASE t = s
        <4>1. 1 \in 1..Len(order') /\ order'[1] = s
          BY <2>1, <2>2
        <4> QED BY <3>1, <4>1 DEF InUse
      <3>2. CASE t \in InUse
        <4>1. PICK k \in 1..Len(order) : order[k] = t
          BY <3>2 DEF InUse
        <4>2. k + 1 \in 1..Len(order') /\ order'[k + 1] = t
          BY <2>1, <2>2, <4>1
        <4> QED BY <4>2 DEF InUse
      <3> QED BY <2>4, <3>1, <3>2
    <2> QED BY <2>3, <2>4
  <1> QED BY <1>2, <1>3, <1>6, <1>7, <1>8, <1>9 DEF BlinkTypeOK, s

\* A structure that was not in use goes to the front of the list, with its
\* character on the screen and its whole length to come.
LEMMA AddInv ==
    ASSUME BlinkTypeOK, BlinkInv, NEW r, Requested(r), mp1_ioctl_add(r), mp1_malloc \notin InUse
    PROVE  BlinkInv'
  <1> DEFINE s == mp1_malloc
  <1>1. s \in Slot /\ r.location \in Location /\ BlinkTypeOK' /\ InUse' = {s} \cup InUse
    BY AddFacts
  <1>2. /\ blink_array' = [blink_array EXCEPT ![s] =
              [location |-> r.location, on_char |-> r.on_char, off_char |-> r.off_char,
               on_length |-> r.on_length, off_length |-> r.off_length,
               countdown |-> r.on_length, status |-> 1, next |-> mp1_list_head]]
        /\ mp1_list_head' = s
        /\ vmem' = [vmem EXCEPT ![r.location] = r.on_char]
        /\ order' = <<s>> \o order
        /\ age' = [age EXCEPT ![s] = 0] /\ shown' = [shown EXCEPT ![r.location] = s]
    BY DEF mp1_ioctl_add
  <1>3. s \notin InUse
    OBVIOUS
  <1> HIDE DEF s
  <1>4. /\ blink_array'[s].location = r.location /\ blink_array'[s].on_char = r.on_char
        /\ blink_array'[s].countdown = r.on_length /\ blink_array'[s].on_length = r.on_length
        /\ blink_array'[s].status = 1 /\ blink_array'[s].next = mp1_list_head
        /\ age'[s] = 0
        /\ \A t \in Slot : t # s => blink_array'[t] = blink_array[t] /\ age'[t] = age[t]
    BY <1>1, <1>2 DEF BlinkTypeOK
  <1>5. \A t \in InUse : t \in Slot /\ t # s
    BY <1>3, InUseFacts
  <1>6. Chained'
    <2>1. /\ order \in Seq(Slot) /\ Len(order) \in Nat /\ Len(order') = Len(order) + 1
          /\ \A k \in 1..Len(order) : order[k] \in Slot /\ order[k] # s
      BY <1>1, <1>2, <1>5, InUseFacts DEF BlinkTypeOK
    <2>2. \A k \in 1..Len(order') : order'[k] = IF k = 1 THEN s ELSE order[k - 1]
      BY <1>1, <1>2, <2>1
    <2>3. mp1_list_head' = IF order' = <<>> THEN NULL ELSE order'[1]
      BY <1>2, <2>1, <2>2
    <2>4. ASSUME NEW k \in 1..Len(order')
          PROVE  blink_array'[order'[k]].next = IF k < Len(order') THEN order'[k + 1] ELSE NULL
      <3>1. CASE k = 1
        <4>1. order'[1] = s /\ blink_array'[s].next = mp1_list_head
          BY <1>4, <2>1, <2>2
        <4>2. CASE Len(order) = 0
          BY <2>1, <3>1, <4>1, <4>2 DEF BlinkInv, Chained
        <4>3. CASE Len(order) > 0
          <5>1. 2 \in 1..Len(order') /\ order'[2] = order[1] /\ order # <<>>
            BY <2>1, <2>2, <4>3
          <5> QED BY <2>1, <3>1, <4>1, <4>3, <5>1 DEF BlinkInv, Chained
        <4> QED BY <2>1, <4>2, <4>3
      <3>2. CASE k # 1
        <4>1. k - 1 \in 1..Len(order) /\ order'[k] = order[k - 1]
          BY <2>1, <2>2, <3>2
        <4>2. blink_array'[order'[k]] = blink_array[order[k - 1]]
          BY <1>4, <2>1, <4>1
        <4>3. k < Len(order') => k + 1 \in 1..Len(order') /\ order'[k + 1] = order[k]
          BY <2>1, <2>2
        <4>4. blink_array[order[k - 1]].next
                 = IF k - 1 < Len(order) THEN order[k - 1 + 1] ELSE NULL
          BY <4>1 DEF BlinkInv, Chained
        <4>5. (k - 1 < Len(order) <=> k < Len(order')) /\ k - 1 + 1 = k
          BY <2>1
        <4> QED BY <4>2, <4>3, <4>4, <4>5
      <3> QED BY <3>1, <3>2
    <2>5. ASSUME NEW j \in 1..Len(order'), NEW k \in 1..Len(order'), order'[j] = order'[k]
          PROVE  j = k
      <3>1. /\ j # 1 => j - 1 \in 1..Len(order)
            /\ k # 1 => k - 1 \in 1..Len(order)
        BY <2>1
      <3>2. (j = 1 <=> k = 1) /\ (j # 1 => order[j - 1] = order[k - 1])
        BY <2>1, <2>2, <2>5, <3>1
      <3>3. j # 1 => j - 1 = k - 1
        BY <3>1, <3>2 DEF BlinkInv, Chained
      <3> QED BY <3>2, <3>3
    <2>6. ASSUME NEW t \in Slot, blink_array'[t].location # 0 PROVE t \in InUse'
      BY <1>1, <1>4, <2>6 DEF BlinkInv, Chained
    <2> QED BY <2>3, <2>4, <2>5, <2>6 DEF Chained
  <1>7. Displayed'
    <2> SUFFICES ASSUME NEW l \in Location, shown'[l] # NULL
                 PROVE  /\ shown'[l] \in InUse' /\ blink_array'[shown'[l]].location = l
                        /\ vmem'[l] = IF blink_array'[shown'[l]].status = 1
                                      THEN blink_array'[shown'[l]].on_char
                                      ELSE blink_array'[shown'[l]].off_char
      BY DEF Displayed
    <2>1. CASE l = r.location
      <3>1. shown'[l] = s /\ vmem'[l] = r.on_char
        BY <1>1, <1>2, <2>1 DEF BlinkTypeOK
      <3> QED BY <1>1, <1>4, <2>1, <3>1
    <2>2. CASE l # r.location
      <3>1. shown'[l] = shown[l] /\ vmem'[l] = vmem[l]
        BY <1>1, <1>2, <2>2 DEF BlinkTypeOK
      <3>2. shown[l] \in InUse
        BY <3>1 DEF BlinkInv, Displayed
      <3>3. blink_array'[shown[l]] = blink_array[shown[l]]
        BY <1>4, <1>5, <3>2
      <3> QED BY <1>1, <3>1, <3>2, <3>3 DEF BlinkInv, Displayed
    <2> QED BY <2>1, <2>2
  <1>8. Counting'
    <2> SUFFICES ASSUME NEW t \in InUse'
                 PROVE  /\ blink_array'[t].countdown = StatusLength(blink_array'[t]) - age'[t]
                        /\ age'[t] < Lasts(StatusLength(blink_array'[t]))
      BY DEF Counting, StatusLength, Lasts
    <2>1. CASE t = s
      <3>1. StatusLength(blink_array'[t]) = r.on_length /\ r.on_length \in Nat
        BY <1>4, <2>1, Sizes DEF StatusLength, Requested
      <3>2. Lasts(r.on_length) > 0
        BY <3>1 DEF Lasts
      <3> QED BY <1>4, <2>1, <3>1, <3>2
    <2>2. CASE t \in InUse
      <3>1. blink_array'[t] = blink_array[t] /\ age'[t] = age[t]
        BY <1>4, <1>5, <2>2
      <3> QED BY <2>2, <3>1 DEF BlinkInv, Counting
    <2> QED BY <1>1, <2>1, <2>2
  <1> QED BY <1>6, <1>7, <1>8 DEF BlinkInv

-----------------------------------------------------------------------------
(* mp1_ioctl_remove *)

\* The sequence without the element at place p.
LEMMA RemovedSequence ==
    ASSUME NEW seq \in Seq(Slot), NEW p \in 1..Len(seq)
    PROVE  /\ RemoveAt(seq, p) \in Seq(Slot) /\ Len(RemoveAt(seq, p)) = Len(seq) - 1
           /\ \A k \in 1..(Len(seq) - 1) :
                 RemoveAt(seq, p)[k] = IF k < p THEN seq[k] ELSE seq[k + 1]
  <1> DEFINE left == SubSeq(seq, 1, p - 1)
             right == SubSeq(seq, p + 1, Len(seq))
  <1>1. Len(seq) \in Nat /\ p \in Nat
    OBVIOUS
  <1>2. left \in Seq(Slot) /\ Len(left) = p - 1 /\ \A k \in 1..(p - 1) : left[k] = seq[k]
    BY <1>1
  <1>3. /\ right \in Seq(Slot) /\ Len(right) = Len(seq) - p
        /\ \A k \in 1..(Len(seq) - p) : right[k] = seq[p + k]
    BY <1>1
  <1> HIDE DEF left, right
  <1>4. left \o right \in Seq(Slot) /\ Len(left \o right) = Len(seq) - 1
    <2>1. left \o right \in Seq(Slot) /\ Len(left \o right) = Len(left) + Len(right)
      BY <1>2, <1>3, ConcatProperties
    <2> QED BY <1>1, <1>2, <1>3, <2>1
  <1>5. ASSUME NEW k \in 1..(Len(seq) - 1)
        PROVE  (left \o right)[k] = IF k < p THEN seq[k] ELSE seq[k + 1]
    <2>0. k \in Nat /\ (k < p \/ k >= p)
      BY <1>1
    <2>1. CASE k < p
      BY <1>1, <1>2, <1>3, <2>1
    <2>2. CASE k >= p
      <3>1. k - (p - 1) \in 1..(Len(seq) - p) /\ p + (k - (p - 1)) = k + 1
        BY <1>1, <2>2
      <3>2. (left \o right)[k] = right[k - (p - 1)]
        BY <1>1, <1>2, <1>3, <2>2, <3>1
      <3>3. ~ (k < p)
        BY <1>1, <2>2
      <3> QED BY <1>3, <3>1, <3>2, <3>3
    <2> QED BY <2>0, <2>1, <2>2
  <1>6. RemoveAt(seq, p) = left \o right
    BY DEF RemoveAt, left, right
  <1> QED BY <1>4, <1>5, <1>6

\* The pointer to the structure is led past it, the structure is freed, and no
\* other one is lost.
LEMMA RemoveInv ==
    ASSUME BlinkTypeOK, BlinkInv, NEW l, mp1_ioctl_remove(l)
    PROVE  /\ BlinkTypeOK' /\ BlinkInv' /\ InUse' \subseteq InUse
           /\ \A t \in InUse' : blink_array'[t].location = blink_array[t].location
  <1> DEFINE s == mp1_find_helper(l)
             p == CHOOSE k \in 1..Len(order) : order[k] = s
  <1>1. s \in InUse /\ s \in Slot /\ s # NULL
    BY FindFacts DEF mp1_ioctl_remove, BlinkInv
  <1>2. /\ mp1_list_head' = Unlinked(s, mp1_list_head)
        /\ blink_array' = [t \in Slot |->
              IF t = s THEN Freed ELSE [blink_array[t] EXCEPT !.next = Unlinked(s, @)]]
        /\ order' = RemoveAt(order, p)
        /\ age' = [age EXCEPT ![s] = 0]
        /\ shown' = [k \in Location |-> IF shown[k] = s THEN NULL ELSE shown[k]]
        /\ vmem' = vmem
    BY DEF mp1_ioctl_remove
  <1>3. p \in 1..Len(order) /\ order[p] = s
    <2>1. \E k \in 1..Len(order) : order[k] = s
      BY <1>1, InUseFacts
    <2> QED BY <2>1
  <1> HIDE DEF s, p
  <1>4. /\ order \in Seq(Slot) /\ Len(order) \in Nat /\ p \in Nat
        /\ order' \in Seq(Slot) /\ Len(order') = Len(order) - 1
        /\ \A k \in 1..Len(order') : order'[k] = IF k < p THEN order[k] ELSE order[k + 1]
    <2>1. order \in Seq(Slot) /\ Len(order) \in Nat /\ p \in Nat
      BY <1>3 DEF BlinkTypeOK
    <2>2. /\ order' \in Seq(Slot) /\ Len(order') = Len(order) - 1
          /\ \A k \in 1..(Len(order) - 1) :
                order'[k] = IF k < p THEN order[k] ELSE order[k + 1]
      BY <1>2, <1>3, <2>1, RemovedSequence
    <2> QED BY <2>1, <2>2
  <1>5. \A k \in 1..Len(order) : order[k] \in Slot /\ (order[k] = s <=> k = p)
    BY <1>3, <1>4 DEF BlinkInv, Chained
  <1>6. \A k \in 1..Len(order') :
            /\ k < p => k \in 1..Len(order) /\ order'[k] = order[k] /\ k # p
            /\ ~ (k < p) => k + 1 \in 1..Len(order) /\ order'[k] = order[k + 1] /\ k + 1 # p
    BY <1>3, <1>4
  <1>7. /\ blink_array \in [Slot -> Struct] /\ mp1_list_head \in Slot \cup {NULL}
        /\ \A t \in Slot : blink_array[t] \in Struct /\ blink_array[t].next \in Slot \cup {NULL}
    BY DEF BlinkTypeOK, Struct
  <1>8. \A x \in Slot \cup {NULL} : Unlinked(s, x) \in Slot \cup {NULL}
    BY <1>1, <1>7 DEF Unlinked
  <1>9. \A t \in Slot : t # s =>
            /\ blink_array'[t] \in Struct
            /\ blink_array'[t].next = Unlinked(s, blink_array[t].next)
            /\ blink_array'[t].location = blink_array[t].location
            /\ blink_array'[t].status = blink_array[t].status
            /\ blink_array'[t].countdown = blink_array[t].countdown
            /\ blink_array'[t].on_char = blink_array[t].on_char
            /\ blink_array'[t].off_char = blink_array[t].off_char
            /\ blink_array'[t].on_length = blink_array[t].on_length
            /\ blink_array'[t].off_length = blink_array[t].off_length
    BY <1>2, <1>7, <1>8 DEF Struct
  <1>10. BlinkTypeOK'
    <2>1. Freed \in Struct
      BY Sizes DEF Freed, Struct, Location
    <2>2. blink_array' \in [Slot -> Struct]
      <3>1. \A t \in Slot : blink_array'[t] \in Struct
        BY <1>2, <1>9, <2>1
      <3> QED BY <1>2, <3>1
    <2>3. mp1_list_head' \in Slot \cup {NULL}
      BY <1>2, <1>7, <1>8
    <2>4. age' \in [Slot -> 0..(Short - 1)] /\ shown' \in [Location -> Slot \cup {NULL}]
      BY <1>1, <1>2, Sizes DEF BlinkTypeOK
    <2> QED BY <1>2, <1>4, <2>2, <2>3, <2>4 DEF BlinkTypeOK
  <1>11. InUse' \subseteq InUse /\ s \notin InUse' /\ \A t \in InUse : t # s => t \in InUse'
    <2>1. ASSUME NEW t \in InUse' PROVE t \in InUse /\ t # s
      <3>1. PICK k \in 1..Len(order') : order'[k] = t
        BY <2>1 DEF InUse
      <3> QED BY <1>5, <1>6, <3>1, InUseFacts
    <2>2. ASSUME NEW t \in InUse, t # s PROVE t \in InUse'
      <3>1. PICK k \in 1..Len(order) : order[k] = t
        BY InUseFacts
      <3>2. k # p
        BY <1>3, <2>2, <3>1
      <3>3. CASE k < p
        <4>1. k \in 1..Len(order')
          BY <1>3, <1>4, <3>3
        <4> QED BY <1>6, <3>1, <3>3, <4>1 DEF InUse
      <3>4. CASE k > p
        <4>1. k - 1 \in 1..Len(order') /\ ~ (k - 1 < p) /\ k - 1 + 1 = k
          BY <1>3, <1>4, <3>4
        <4>2. order'[k - 1] = t
          BY <1>6, <3>1, <4>1
        <4> QED BY <4>1, <4>2 DEF InUse
      <3> QED BY <1>3, <1>4, <3>2, <3>3, <3>4
    <2> QED BY <2>1, <2>2
  <1>12. \A t \in InUse' : t \in InUse /\ t \in Slot /\ t # s
    BY <1>11, InUseFacts
  <1>13. Chained'
    <2>1. \A k \in 1..Len(order) :
             blink_array[order[k]].next = IF k < Len(order) THEN order[k + 1] ELSE NULL
      BY DEF BlinkInv, Chained
    <2>2. mp1_list_head = order[1]
      BY <1>3, <1>4 DEF BlinkInv, Chained
    <2>3. mp1_list_head' = IF order' = <<>> THEN NULL ELSE order'[1]
      <3>1. CASE p = 1
        <4>1. mp1_list_head' = IF 1 < Len(order) THEN order[2] ELSE NULL
          BY <1>2, <1>3, <2>1, <2>2, <3>1 DEF Unlinked
        <4>2. CASE 1 < Len(order)
          <5>1. 1 \in 1..Len(order') /\ order'[1] = order[2] /\ order' # <<>>
            BY <1>4, <3>1, <4>2
          <5> QED BY <4>1, <4>2, <5>1
        <4>3. CASE ~ (1 < Len(order))
          BY <1>3, <1>4, <4>1, <4>3
        <4> QED BY <4>2, <4>3
      <3>2. CASE p # 1
        <4>1. mp1_list_head' = order[1]
          <5>1. order[1] # s
            BY <1>3, <1>4, <1>5, <3>2
          <5> QED BY <1>2, <2>2, <5>1 DEF Unlinked
        <4>2. 1 \in 1..Len(order') /\ 1 < p /\ order' # <<>>
          BY <1>3, <1>4, <3>2
        <4> QED BY <1>6, <4>1, <4>2
      <3> QED BY <3>1, <3>2
    <2>4. ASSUME NEW k \in 1..Len(order')
          PROVE  blink_array'[order'[k]].next = IF k < Len(order') THEN order'[k + 1] ELSE NULL
      <3>0. order'[k] \in Slot /\ order'[k] # s
        BY <1>5, <1>6
      <3>1. blink_array'[order'[k]].next = Unlinked(s, blink_array[order'[k]].next)
        BY <1>9, <3>0
      <3>2. CASE k < p - 1
        <4>1. /\ k < Len(order) /\ order'[k] = order[k] /\ k + 1 \in 1..Len(order) /\ k + 1 # p
              /\ k < Len(order') /\ k + 1 \in 1..Len(order') /\ order'[k + 1] = order[k + 1]
          BY <1>3, <1>4, <3>2
        <4>2. blink_array[order[k]].next = order[k + 1] /\ order[k + 1] # s
          BY <1>5, <1>6, <2>1, <4>1
        <4> QED BY <3>1, <4>1, <4>2 DEF Unlinked
      <3>3. CASE k = p - 1
        <4>1. k \in 1..Len(order) /\ order'[k] = order[k] /\ k < Len(order) /\ k + 1 = p
          BY <1>3, <1>4, <3>3
        <4>2. blink_array[order[k]].next = s
          BY <1>3, <2>1, <4>1
        <4>3. blink_array'[order'[k]].next = IF p < Len(order) THEN order[p + 1] ELSE NULL
          BY <1>3, <2>1, <3>1, <4>1, <4>2 DEF Unlinked
        <4>4. p < Len(order) <=> k < Len(order')
          BY <1>4, <3>3
        <4>5. p < Len(order) => order'[k + 1] = order[p + 1]
          BY <1>3, <1>4, <3>3
        <4> QED BY <4>3, <4>4, <4>5
      <3>4. CASE k >= p
        <4>1. /\ order'[k] = order[k + 1] /\ k + 1 \in 1..Len(order) /\ k \in Nat
              /\ (k + 1 < Len(order) <=> k < Len(order'))
          BY <1>3, <1>4, <3>4
        <4>2. blink_array[order[k + 1]].next
                 = IF k + 1 < Len(order) THEN order[k + 1 + 1] ELSE NULL
          BY <2>1, <4>1
        <4>3. CASE k + 1 < Len(order)
          <5>1. /\ k + 1 \in 1..Len(order') /\ order'[k + 1] = order[k + 1 + 1]
                /\ k + 1 + 1 \in 1..Len(order) /\ k + 1 + 1 # p
            BY <1>3, <1>4, <3>4, <4>3
          <5>2. order[k + 1 + 1] # s
            BY <1>5, <5>1
          <5> QED BY <3>1, <4>1, <4>2, <4>3, <5>1, <5>2 DEF Unlinked
        <4>4. CASE ~ (k + 1 < Len(order))
          BY <1>1, <3>1, <4>1, <4>2, <4>4 DEF Unlinked
        <4> QED BY <4>3, <4>4
      <3> QED BY <1>3, <1>4, <3>2, <3>3, <3>4
    <2>5. ASSUME NEW j \in 1..Len(order'), NEW k \in 1..Len(order'), order'[j] = order'[k]
          PROVE  j = k
      <3> DEFINE J == IF j < p THEN j ELSE j + 1
                 K == IF k < p THEN k ELSE k + 1
      <3>1. J \in 1..Len(order) /\ K \in 1..Len(order) /\ order[J] = order[K]
        BY <1>6, <2>5
      <3>2. J = K
        BY <3>1 DEF BlinkInv, Chained
      <3> QED BY <1>3, <1>4, <3>2
    <2>6. ASSUME NEW t \in Slot, blink_array'[t].location # 0 PROVE t \in InUse'
      <3>1. t # s
        BY <1>2, <2>6 DEF Freed
      <3>2. t \in InUse
        BY <1>9, <2>6, <3>1 DEF BlinkInv, Chained
      <3> QED BY <1>11, <3>1, <3>2
    <2> QED BY <2>3, <2>4, <2>5, <2>6 DEF Chained
  <1>14. Displayed'
    <2> SUFFICES ASSUME NEW k \in Location, shown'[k] # NULL
                 PROVE  /\ shown'[k] \in InUse' /\ blink_array'[shown'[k]].location = k
                        /\ vmem'[k] = IF blink_array'[shown'[k]].status = 1
                                      THEN blink_array'[shown'[k]].on_char
                                      ELSE blink_array'[shown'[k]].off_char
      BY DEF Displayed
    <2>1. shown'[k] = shown[k] /\ shown[k] # s
      BY <1>2
    <2>2. shown[k] \in InUse /\ shown[k] \in Slot
      BY <2>1, InUseFacts DEF BlinkInv, Displayed
    <2> QED BY <1>2, <1>9, <1>11, <2>1, <2>2 DEF BlinkInv, Displayed
  <1>15. Counting'
    <2> SUFFICES ASSUME NEW t \in InUse'
                 PROVE  /\ blink_array'[t].countdown = StatusLength(blink_array'[t]) - age'[t]
                        /\ age'[t] < Lasts(StatusLength(blink_array'[t]))
      BY DEF Counting, StatusLength, Lasts
    <2>1. age'[t] = age[t]
      BY <1>1, <1>2, <1>12 DEF BlinkTypeOK
    <2>2. StatusLength(blink_array'[t]) = StatusLength(blink_array[t])
      BY <1>9, <1>12 DEF StatusLength
    <2> QED BY <1>9, <1>12, <2>1, <2>2 DEF BlinkInv, Counting
  <1> QED BY <1>9, <1>10, <1>11, <1>12, <1>13, <1>14, <1>15 DEF BlinkInv

-----------------------------------------------------------------------------
(* mp1_ioctl_sync *)

\* The list, with structures changed in other respects than their place in it.
LEMMA ChainKept ==
    ASSUME Chained, UNCHANGED <<mp1_list_head, order>>, BlinkTypeOK,
           \A t \in Slot : /\ blink_array'[t].next = blink_array[t].next
                           /\ blink_array'[t].location = blink_array[t].location
    PROVE  Chained' /\ InUse' = InUse
  <1>1. InUse' = InUse /\ \A k \in 1..Len(order) : order[k] \in Slot
    BY DEF InUse, BlinkTypeOK
  <1> QED BY <1>1 DEF Chained

\* The second structure takes over the first one's length, status and what is
\* left of it; nothing is known of the character at its location.
LEMMA SyncInv ==
    ASSUME BlinkTypeOK, BlinkInv, NEW from, NEW to, mp1_ioctl_sync(from, to)
    PROVE  /\ BlinkTypeOK' /\ BlinkInv' /\ InUse' = InUse
           /\ \A t \in InUse' : blink_array'[t].location = blink_array[t].location
  <1> DEFINE a == mp1_find_helper(from)
             b == mp1_find_helper(to)
  <1>1. a \in InUse /\ b \in InUse /\ a \in Slot /\ b \in Slot
    BY FindFacts DEF mp1_ioctl_sync, BlinkInv
  <1>2. /\ blink_array' = [blink_array EXCEPT
              ![b].on_length = blink_array[a].on_length,
              ![b].off_length = blink_array[a].off_length,
              ![b].countdown = blink_array[a].countdown, ![b].status = blink_array[a].status]
        /\ vmem' = [vmem EXCEPT ![blink_array[b].location] = blink_array[b].off_char]
        /\ age' = [age EXCEPT ![b] = age[a]]
        /\ shown' = [shown EXCEPT ![blink_array[b].location] = NULL]
        /\ UNCHANGED <<mp1_list_head, order>>
    BY DEF mp1_ioctl_sync
  <1> HIDE DEF a, b
  <1>3. blink_array \in [Slot -> Struct] /\ blink_array[a] \in Struct /\ blink_array[b] \in Struct
    BY <1>1 DEF BlinkTypeOK
  <1>4. /\ blink_array' \in [Slot -> Struct]
        /\ blink_array'[b].next = blink_array[b].next
        /\ blink_array'[b].location = blink_array[b].location
        /\ blink_array'[b].on_length = blink_array[a].on_length
        /\ blink_array'[b].off_length = blink_array[a].off_length
        /\ blink_array'[b].countdown = blink_array[a].countdown
        /\ blink_array'[b].status = blink_array[a].status
        /\ \A t \in Slot : t # b => blink_array'[t] = blink_array[t]
    BY <1>1, <1>2, <1>3 DEF Struct
  <1>5. blink_array[b].location \in Location /\ blink_array[b].off_char \in Glyph \cup {Zero}
    BY <1>3 DEF Struct
  <1>6. BlinkTypeOK'
    BY <1>1, <1>2, <1>4, <1>5 DEF BlinkTypeOK
  <1>7. Chained' /\ InUse' = InUse
    <2>1. \A t \in Slot : /\ blink_array'[t].next = blink_array[t].next
                          /\ blink_array'[t].location = blink_array[t].location
      BY <1>4
    <2> QED BY <1>2, <2>1, ChainKept DEF BlinkInv
  <1>8. Displayed'
    <2> SUFFICES ASSUME NEW k \in Location, shown'[k] # NULL
                 PROVE  /\ shown'[k] \in InUse' /\ blink_array'[shown'[k]].location = k
                        /\ vmem'[k] = IF blink_array'[shown'[k]].status = 1
                                      THEN blink_array'[shown'[k]].on_char
                                      ELSE blink_array'[shown'[k]].off_char
      BY DEF Displayed
    <2>1. k # blink_array[b].location /\ shown'[k] = shown[k] /\ vmem'[k] = vmem[k]
      BY <1>2, <1>5 DEF BlinkTypeOK
    <2>2. shown[k] \in InUse /\ shown[k] \in Slot /\ blink_array[shown[k]].location = k
      BY <2>1, InUseFacts DEF BlinkInv, Displayed
    <2>3. blink_array'[shown[k]] = blink_array[shown[k]]
      BY <1>4, <2>1, <2>2
    <2> QED BY <1>7, <2>1, <2>2, <2>3 DEF BlinkInv, Displayed
  <1>9. Counting'
    <2> SUFFICES ASSUME NEW t \in InUse'
                 PROVE  /\ blink_array'[t].countdown = StatusLength(blink_array'[t]) - age'[t]
                        /\ age'[t] < Lasts(StatusLength(blink_array'[t]))
      BY DEF Counting, StatusLength, Lasts
    <2>1. CASE t = b
      <3>1. StatusLength(blink_array'[t]) = StatusLength(blink_array[a]) /\ age'[t] = age[a]
        BY <1>1, <1>2, <1>4, <2>1 DEF StatusLength, BlinkTypeOK
      <3> QED BY <1>1, <1>4, <2>1, <3>1 DEF BlinkInv, Counting
    <2>2. CASE t # b
      <3>1. t \in InUse /\ blink_array'[t] = blink_array[t] /\ age'[t] = age[t]
        BY <1>1, <1>2, <1>4, <1>7, <2>2, InUseFacts DEF BlinkTypeOK
      <3> QED BY <3>1 DEF BlinkInv, Counting
    <2> QED BY <2>1, <2>2
  <1> QED BY <1>4, <1>6, <1>7, <1>8, <1>9, InUseFacts DEF BlinkInv

-----------------------------------------------------------------------------
(* mp1_rtc_tasklet *)

\* A tick ends a status exactly when its length is over, 0 and what is over half
\* of a short being as good as 1.
LEMMA ExpiredOnTime ==
    ASSUME BlinkTypeOK, Counting, NEW s \in InUse
    PROVE  LET len == StatusLength(blink_array[s])
           IN  /\ Expired(s) <=> age[s] + 1 = Lasts(len)
               /\ ~Expired(s) => /\ age[s] + 1 < Lasts(len) /\ age[s] + 1 < Short
                                 /\ Decremented(s) = len - (age[s] + 1)
  <1> DEFINE len == StatusLength(blink_array[s])
             half == Short \div 2
             cd == blink_array[s].countdown
  <1>1. s \in Slot /\ blink_array[s] \in Struct
    BY InUseFacts DEF BlinkTypeOK
  <1>2. len \in 0..(Short - 1) /\ cd \in 0..(Short - 1) /\ age[s] \in Nat
    BY <1>1, Sizes DEF Struct, StatusLength, BlinkTypeOK
  <1>3. cd = len - age[s] /\ age[s] < Lasts(len)
    BY DEF Counting
  <1>4. half \in Nat \ {0} /\ Short = 2 * half /\ Short \in Nat \ {0}
    BY Half, Sizes
  <1>5. Decremented(s) = (cd - 1) % Short /\ (Expired(s) <=> Decremented(s) \notin 1..(half - 1))
    BY DEF Decremented, Expired
  <1>6. Lasts(len) = IF len \in 1..half THEN len ELSE 1
    BY DEF Lasts
  <1> HIDE DEF len, half, cd
  <1>7. /\ cd > 0 => Decremented(s) = cd - 1
        /\ cd = 0 => Decremented(s) = Short - 1
    <2>1. cd > 0 => (cd - 1) % Short = cd - 1
      BY <1>2, <1>4
    <2>2. (0 - 1) % Short = Short - 1
      BY <1>4
    <2> QED BY <1>2, <1>5, <2>1, <2>2
  <1> SUFFICES /\ Expired(s) <=> age[s] + 1 = Lasts(len)
               /\ ~Expired(s) => /\ age[s] + 1 < Lasts(len) /\ age[s] + 1 < Short
                                 /\ Decremented(s) = len - (age[s] + 1)
    BY DEF len
  <1>8. CASE len \in 1..half
    <2>1. len \in Nat /\ cd > 0 /\ Decremented(s) = len - (age[s] + 1) /\ Lasts(len) = len
      BY <1>2, <1>3, <1>4, <1>6, <1>7, <1>8
    <2>2. Expired(s) <=> age[s] + 1 = len
      BY <1>2, <1>3, <1>4, <1>5, <1>8, <2>1
    <2> QED BY <1>2, <1>3, <1>4, <1>8, <2>1, <2>2
  <1>9. CASE len \notin 1..half
    <2>1. age[s] = 0 /\ cd = len
      BY <1>2, <1>3, <1>6, <1>9
    <2>2. Decremented(s) \notin 1..(half - 1)
      BY <1>2, <1>4, <1>7, <1>9, <2>1
    <2> QED BY <1>2, <1>5, <1>6, <1>9, <2>1, <2>2
  <1> QED BY <1>8, <1>9

LEMMA TickInv ==
    ASSUME BlinkTypeOK, BlinkInv, mp1_rtc_tasklet
    PROVE  /\ BlinkTypeOK' /\ BlinkInv' /\ InUse' = InUse
           /\ \A t \in InUse' : blink_array'[t].location = blink_array[t].location
           /\ \A t \in InUse : blink_array'[t].status # blink_array[t].status <=> Expired(t)
  <1>0. Chained /\ Displayed /\ Counting
    BY DEF BlinkInv
  <1>1. /\ blink_array' = [s \in Slot |->
              IF s \notin InUse THEN blink_array[s]
              ELSE IF Expired(s)
              THEN [blink_array[s] EXCEPT !.countdown = NextLength(s), !.status = 1 - @]
              ELSE [blink_array[s] EXCEPT !.countdown = Decremented(s)]]
        /\ vmem' = [l \in Location |->
              IF LastPoke(l) = NULL THEN vmem[l] ELSE NextChar(LastPoke(l))]
        /\ age' = [s \in Slot |-> IF s \notin InUse \/ Expired(s) THEN 0 ELSE age[s] + 1]
        /\ shown' = [l \in Location |-> IF LastPoke(l) = NULL THEN shown[l] ELSE LastPoke(l)]
        /\ UNCHANGED <<mp1_list_head, order>>
    BY <1>0, ListedInUse DEF mp1_rtc_tasklet
  <1>2. \A s \in Slot : /\ blink_array[s] \in Struct
                        /\ blink_array[s].status \in {0, 1}
                        /\ NextLength(s) \in 0..(Short - 1) /\ NextChar(s) \in Glyph \cup {Zero}
                        /\ Decremented(s) \in 0..(Short - 1)
    <2> SUFFICES ASSUME NEW s \in Slot
                 PROVE  /\ blink_array[s] \in Struct
                        /\ blink_array[s].status \in {0, 1}
                        /\ NextLength(s) \in 0..(Short - 1) /\ NextChar(s) \in Glyph \cup {Zero}
                        /\ Decremented(s) \in 0..(Short - 1)
      OBVIOUS
    <2>1. blink_array[s] \in Struct
      BY DEF BlinkTypeOK
    <2>2. blink_array[s].countdown \in Int
      BY <2>1, Sizes DEF Struct
    <2>3. Decremented(s) \in 0..(Short - 1)
      BY <2>2, Sizes DEF Decremented
    <2> QED BY <2>1, <2>3 DEF Struct, NextLength, NextChar
  <1>3. \A s \in Slot :
            /\ blink_array'[s] \in Struct
            /\ blink_array'[s].next = blink_array[s].next
            /\ blink_array'[s].location = blink_array[s].location
            /\ blink_array'[s].on_char = blink_array[s].on_char
            /\ blink_array'[s].off_char = blink_array[s].off_char
            /\ blink_array'[s].on_length = blink_array[s].on_length
            /\ blink_array'[s].off_length = blink_array[s].off_length
            /\ s \in InUse => blink_array'[s].status = IF Expired(s) THEN 1 - blink_array[s].status
                                                       ELSE blink_array[s].status
            /\ s \in InUse => blink_array'[s].countdown = IF Expired(s) THEN NextLength(s)
                                                          ELSE Decremented(s)
    <2> TAKE s \in Slot
    <2>0. blink_array[s] \in Struct /\ blink_array[s].status \in {0, 1}
          /\ NextLength(s) \in 0..(Short - 1) /\ Decremented(s) \in 0..(Short - 1)
      BY <1>2
    <2>1. CASE s \notin InUse
      <3>1. blink_array'[s] = blink_array[s]
        BY <1>1, <2>1
      <3> QED BY <2>0, <2>1, <3>1
    <2>2. CASE s \in InUse /\ Expired(s)
      <3> DEFINE v == 1 - blink_array[s].status
      <3>1. blink_array'[s] = [blink_array[s] EXCEPT !.countdown = NextLength(s), !.status = v]
        BY <1>1, <2>2
      <3>2. v \in {0, 1}
        BY <2>0
      <3>3. /\ blink_array'[s].status = 1 - blink_array[s].status
            /\ blink_array'[s].countdown = NextLength(s)
        BY <2>0, <3>1 DEF Struct
      <3> HIDE DEF v
      <3> QED BY <2>0, <2>2, <3>1, <3>2, <3>3 DEF Struct
    <2>3. CASE s \in InUse /\ ~Expired(s)
      <3>1. blink_array'[s] = [blink_array[s] EXCEPT !.countdown = Decremented(s)]
        BY <1>1, <2>3
      <3> QED BY <2>0, <2>3, <3>1 DEF Struct
    <2> QED BY <2>1, <2>2, <2>3
  <1>4. Chained' /\ InUse' = InUse
    BY <1>0, <1>1, <1>3, ChainKept
  <1>5. BlinkTypeOK'
    <2>1. blink_array' \in [Slot -> Struct]
      BY <1>1, <1>3
    <2>2. vmem' \in [Location -> Glyph \cup {Zero}]
      <3>1. \A l \in Location : LastPoke(l) # NULL => LastPoke(l) \in Slot
        BY <1>0, LastPokeFacts, InUseFacts
      <3> QED BY <1>1, <1>2, <3>1 DEF BlinkTypeOK
    <2>3. age' \in [Slot -> 0..(Short - 1)]
      <3>1. \A s \in InUse : ~Expired(s) => age[s] + 1 \in 0..(Short - 1)
        <4> SUFFICES ASSUME NEW s \in InUse, ~Expired(s) PROVE age[s] + 1 \in 0..(Short - 1)
          OBVIOUS
        <4>1. age[s] \in 0..(Short - 1)
          BY InUseFacts DEF BlinkTypeOK
        <4> QED BY <1>0, <4>1, ExpiredOnTime, Sizes
      <3>2. \A s \in Slot : age'[s] \in 0..(Short - 1)
        <4> TAKE s \in Slot
        <4>1. CASE s \notin InUse \/ Expired(s)
          <5>1. age'[s] = 0
            BY <1>1, <4>1
          <5> QED BY <5>1, Sizes
        <4>2. CASE s \in InUse /\ ~Expired(s)
          BY <1>1, <3>1, <4>2
        <4> QED BY <4>1, <4>2
      <3> QED BY <1>1, <3>2
    <2>4. shown' \in [Location -> Slot \cup {NULL}]
      <3>1. \A l \in Location : LastPoke(l) # NULL => LastPoke(l) \in Slot
        BY <1>0, LastPokeFacts, InUseFacts
      <3> QED BY <1>1, <3>1 DEF BlinkTypeOK
    <2> QED BY <1>1, <2>1, <2>2, <2>3, <2>4 DEF BlinkTypeOK
  <1>6. Displayed'
    <2> SUFFICES ASSUME NEW l \in Location, shown'[l] # NULL
                 PROVE  /\ shown'[l] \in InUse' /\ blink_array'[shown'[l]].location = l
                        /\ vmem'[l] = IF blink_array'[shown'[l]].status = 1
                                      THEN blink_array'[shown'[l]].on_char
                                      ELSE blink_array'[shown'[l]].off_char
      BY DEF Displayed
    <2>1. CASE LastPoke(l) = NULL
      <3>1. shown'[l] = shown[l] /\ vmem'[l] = vmem[l]
        BY <1>1, <2>1
      <3>2. /\ shown[l] \in InUse /\ shown[l] \in Slot
            /\ blink_array[shown[l]].location = l
        BY <1>0, <3>1, InUseFacts DEF Displayed
      <3>3. ~Expired(shown[l])
        BY <1>0, <2>1, <3>2, LastPokeFacts
      <3> QED BY <1>0, <1>3, <1>4, <3>1, <3>2, <3>3 DEF Displayed
    <2>2. CASE LastPoke(l) # NULL
      <3> DEFINE t == LastPoke(l)
      <3>1. t \in InUse /\ t \in Slot /\ Expired(t) /\ blink_array[t].location = l
        BY <1>0, <2>2, LastPokeFacts, InUseFacts
      <3>2. shown'[l] = t /\ vmem'[l] = NextChar(t)
        BY <1>1, <2>2
      <3> HIDE DEF t
      <3> QED BY <1>2, <1>3, <1>4, <3>1, <3>2 DEF NextChar
    <2> QED BY <2>1, <2>2
  <1>7. Counting'
    <2> SUFFICES ASSUME NEW t \in InUse
                 PROVE  /\ blink_array'[t].countdown = StatusLength(blink_array'[t]) - age'[t]
                        /\ age'[t] < Lasts(StatusLength(blink_array'[t]))
      BY <1>4 DEF Counting, StatusLength, Lasts
    <2>0. t \in Slot
      BY InUseFacts
    <2>1. CASE Expired(t)
      <3>1. age'[t] = 0 /\ blink_array'[t].countdown = NextLength(t)
        BY <1>1, <1>3, <2>0, <2>1
      <3>2. StatusLength(blink_array'[t]) = NextLength(t)
        BY <1>2, <1>3, <2>0, <2>1 DEF StatusLength, NextLength
      <3>3. NextLength(t) \in Nat /\ Lasts(NextLength(t)) > 0
        BY <1>2, <2>0, Sizes DEF Lasts
      <3> QED BY <3>1, <3>2, <3>3
    <2>2. CASE ~Expired(t)
      <3>1. age'[t] = age[t] + 1 /\ blink_array'[t].countdown = Decremented(t)
        BY <1>1, <1>3, <2>0, <2>2
      <3>2. StatusLength(blink_array'[t]) = StatusLength(blink_array[t])
        BY <1>3, <2>0, <2>2 DEF StatusLength
      <3> QED BY <1>0, <2>2, <3>1, <3>2, ExpiredOnTime
    <2> QED BY <2>1, <2>2
  <1>8. \A t \in InUse : blink_array'[t].status # blink_array[t].status <=> Expired(t)
    BY <1>2, <1>3, InUseFacts
  <1> QED BY <1>3, <1>4, <1>5, <1>6, <1>7, <1>8, InUseFacts DEF BlinkInv
=============================================================================
