-------------------------- MODULE FileSystemProofs --------------------------
(***************************************************************************)
(* The properties of FileSystem for every image, block size, name length   *)
(* and word size, and for any program: the loop of read_data delivers the  *)
(* bytes of the file and looks at nothing else.                            *)
(***************************************************************************)
EXTENDS FileSystem, WellFoundedInduction, TLAPS

-----------------------------------------------------------------------------
(* Arithmetic of blocks, and the first of a set of numbers *)

\* Byte b * u + r of a file is byte r of its block b.
LEMMA BlockPosition ==
    ASSUME NEW u \in Nat \ {0}, NEW b \in Nat, NEW r \in 0..(u - 1)
    PROVE  (b * u + r) \div u = b /\ (b * u + r) % u = r
  OBVIOUS

\* An offset is the start of its block and the rest.
LEMMA OffsetSplit ==
    ASSUME NEW u \in Nat \ {0}, NEW o \in Nat
    PROVE  /\ o \div u \in Nat /\ o % u \in 0..(u - 1)
           /\ o = (o \div u) * u + (o % u)
  OBVIOUS

\* What lies before the end of e blocks lies in one of them.
LEMMA BlockBound ==
    ASSUME NEW u \in Nat \ {0}, NEW b \in Nat, NEW e \in Nat
    PROVE  /\ b * u < e * u => b < e
           /\ b * u <= e * u => b <= e
           /\ (b + 1) * u = b * u + u
           /\ b * u \in Nat
  OBVIOUS

\* A position in a file does not wrap.
LEMMA SmallRemainder ==
    ASSUME NEW w \in Nat \ {0}, NEW x \in Nat, x < w PROVE x % w = x
  OBVIOUS

\* A non-empty set of natural numbers has a first element, so FirstOf is it.
LEMMA FirstExists ==
    ASSUME NEW S \in SUBSET Nat, S # {}
    PROVE  FirstOf(S) \in S /\ \A e \in S : FirstOf(S) <= e
  <1> DEFINE R == {p \in Nat \X Nat : p[1] < p[2]}
  <1>1. IsWellFoundedOn(R, Nat)
    <2>1. R = OpToRel(<, Nat)
      BY Zenon DEF OpToRel
    <2> QED BY <2>1, NatLessThanWellFounded, Zenon
  <1>2. PICK x \in S : \A y \in S : ~ (<<y, x>> \in R)
    BY <1>1, WFMin
  <1>3. \A e \in S : x <= e
    <2> TAKE e \in S
    <2>1. ~ (<<e, x>> \in R)
      BY <1>2
    <2>2. <<e, x>> \in Nat \X Nat /\ <<e, x>>[1] = e /\ <<e, x>>[2] = x
      OBVIOUS
    <2>3. ~ (e < x)
      BY <2>1, <2>2
    <2> QED BY <2>3
  <1> QED BY <1>3 DEF FirstOf

-----------------------------------------------------------------------------
(* The image *)

\* What FileSystemAssumption says of an inode of the image.
LEMMA InodeFacts ==
    ASSUME image \in Images, NEW n \in Nat, n < image.inodes_num
    PROVE  /\ FileLength(n) \in Nat /\ FileLength(n) < WordSize
           /\ FileLength(n) <= BlockEntries * FS_UNIT_SIZE
           /\ \A b \in 0..BlockEntries : BlockOf(n, b) \in Nat
  <1>1. ImageOK(image)
    BY FileSystemAssumption
  <1>2. n \in 0..(image.inodes_num - 1)
    BY <1>1 DEF ImageOK
  <1>3. image.inodes[n] \in Inode
    BY <1>1, <1>2 DEF ImageOK
  <1> QED BY <1>1, <1>2, <1>3 DEF ImageOK, Inode, FileLength, BlockOf

\* A byte of a block in the image.
LEMMA DataByte ==
    ASSUME image \in Images, NEW n \in Nat, n < image.inodes_num,
           NEW b \in 0..BlockEntries, InImage(n, b), NEW r \in 0..(FS_UNIT_SIZE - 1)
    PROVE  image.data[BlockOf(n, b)][r] \in Byte
  <1>1. ImageOK(image)
    BY FileSystemAssumption
  <1>2. BlockOf(n, b) \in 0..(image.datablocks_num - 1)
    BY <1>1, InodeFacts DEF ImageOK, InImage
  <1>3. image.data[BlockOf(n, b)] \in [0..(FS_UNIT_SIZE - 1) -> Byte]
    BY <1>1, <1>2 DEF ImageOK
  <1> QED BY <1>3

\* A directory entry.
LEMMA DentryFacts ==
    ASSUME image \in Images, NEW d \in DentryIndex
    PROVE  /\ image.dentries[d] \in Dentry
           /\ image.dentries[d].filename \in Seq(Char)
           /\ image.dentries[d].filetype \in {Rtc, Directory, Regular}
           /\ image.dentries[d].inode \in Nat
           /\ image.dentries[d].inode < image.inodes_num
  <1>1. ImageOK(image)
    BY FileSystemAssumption
  <1>2. image.dentries[d] \in Dentry
    BY <1>1 DEF ImageOK
  <1> QED BY <1>1, <1>2 DEF ImageOK, Dentry

\* read_dentry_by_name returns an entry of the directory.
LEMMA FoundFacts ==
    ASSUME image \in Images, NEW fname, Found(fname)
    PROVE  \E d \in DentryIndex : DentryOf(fname) = image.dentries[d]
  <1>1. Candidates(fname) \in SUBSET Nat /\ Candidates(fname) # {}
    BY FileSystemAssumption DEF Found, Candidates, DentryIndex
  <1>2. FirstOf(Candidates(fname)) \in Candidates(fname)
    BY <1>1, FirstExists
  <1>3. FirstOf(Candidates(fname)) \in DentryIndex
    BY <1>2 DEF Candidates
  <1> QED BY <1>3 DEF DentryOf

\* How many bytes there are to read.
LEMMA AvailableFacts ==
    ASSUME image \in Images, NEW n \in Nat, n < image.inodes_num, NEW o \in Nat, NEW m \in Nat
    PROVE  /\ Available(n, o, m) \in Nat /\ Available(n, o, m) <= m
           /\ o < FileLength(n) => o + Available(n, o, m) <= FileLength(n)
  BY InodeFacts DEF Available

\* The inode of a name that is found.
LEMMA InodeOfFound ==
    ASSUME image \in Images, NEW fname, Found(fname)
    PROVE  DentryOf(fname).inode \in Nat /\ DentryOf(fname).inode < image.inodes_num
  BY FoundFacts, DentryFacts

\* What a read with interrupts off leaves in length_of_file.
LEMMA LengthAfterFacts ==
    ASSUME image \in Images, NEW n \in Nat, n < image.inodes_num, length_of_file \in Nat,
           NEW m \in Nat
    PROVE  /\ LengthAfter(n, 0, m) \in Nat
           /\ LengthAfter(n, 0, FileLength(n)) \in {length_of_file, 0, FileLength(n)}
  <1>1. FileLength(n) \in Nat
    BY InodeFacts
  <1>2. Available(n, 0, m) \in Nat /\ Available(n, 0, FileLength(n)) \in {0, FileLength(n)}
    BY <1>1 DEF Available
  <1> QED BY <1>2 DEF LengthAfter

\* files_test works on an inode of the image.
LEMMA TestInodeFacts ==
    ASSUME image \in Images, NEW n \in TestInodes
    PROVE  n \in Nat /\ n < image.inodes_num
  <1>1. CASE Found(TestFile)
    BY <1>1, InodeOfFound DEF TestInodes
  <1>2. CASE ~Found(TestFile)
    <2>1. ImageOK(image)
      BY FileSystemAssumption
    <2>2. image.inodes_num \in Nat /\ n \in 0..(image.inodes_num - 1)
      BY <1>2, <2>1 DEF TestInodes, ImageOK
    <2> QED BY <2>2
  <1> QED BY <1>1, <1>2

-----------------------------------------------------------------------------
(* The type invariant in parts: the tables, and the read *)

Entry == [filetype : {-1, Rtc, Directory, Regular}, inode : Nat, fileposition : 0..(WordSize - 1)]
Bytes == Seq(Byte \cup Char)
TableTypeOK ==
    /\ image \in Images
    /\ entry_counter \in Nat
    /\ length_of_file \in Nat
    /\ file_array \in [Fds -> Entry]
    /\ got \in [Fds -> Bytes] /\ broken \subseteq Fds
CallTypeOK ==
    /\ fd \in Fds
    /\ offset \in 0..(WordSize - 1) /\ length \in Nat
    /\ inode \in Nat
LoopTypeOK ==
    /\ pc \in Labels
    /\ i \in Nat /\ read_data_block \in Nat /\ read_data \in 0..FS_UNIT_SIZE
    /\ buf \in Bytes /\ ret \in Int

\* They make up FSTypeOK, before and after a step.
LEMMA TypeParts ==
    /\ FSTypeOK <=> TableTypeOK /\ CallTypeOK /\ LoopTypeOK
    /\ FSTypeOK' <=> TableTypeOK' /\ CallTypeOK' /\ LoopTypeOK'
  BY DEF FSTypeOK, TableTypeOK, CallTypeOK, LoopTypeOK, Entry, Bytes

\* The sizes are positive, and there is the empty sequence.
LEMMA Sizes ==
    /\ FS_UNIT_SIZE \in Nat \ {0} /\ SIZE_FS_DENTRIES \in Nat \ {0}
    /\ BlockEntries \in Nat \ {0} /\ WordSize \in Nat \ {0}
    /\ <<>> \in Bytes
    /\ Eoi \subseteq Nat
  BY FileSystemAssumption DEF Bytes, Eoi

\* What ReadsFormPrefix says of one descriptor, as a function of the image.
PrefixIn(img, g, e) ==
    /\ Len(g) = e.fileposition
    /\ Len(g) <= img.inodes[e.inode].length
    /\ \A k \in 1..Len(g) :
          g[k] = img.data[img.inodes[e.inode].data_blocks[(k - 1) \div FS_UNIT_SIZE]]
                         [(k - 1) % FS_UNIT_SIZE]
TablePrefixes(img, table, g, b) ==
    \A f \in Fds : (table[f].filetype = Regular /\ f \notin b) => PrefixIn(img, g[f], table[f])

LEMMA PrefixParts ==
    /\ ReadsFormPrefix <=> TablePrefixes(image, file_array, got, broken)
    /\ ReadsFormPrefix' <=> TablePrefixes(image', file_array', got', broken')
  BY DEF ReadsFormPrefix, TablePrefixes, PrefixIn, FileLength, FileByte, BlockOf

\* A descriptor that is closed, or stays as it was, is no new obligation.
LEMMA PrefixesKept ==
    ASSUME ReadsFormPrefix, image' = image,
           \A f \in Fds : (file_array'[f].filetype = Regular /\ f \notin broken') =>
               /\ f \notin broken /\ got'[f] = got[f]
               /\ file_array[f].filetype = Regular
               /\ file_array'[f].inode = file_array[f].inode
               /\ file_array'[f].fileposition = file_array[f].fileposition
    PROVE  ReadsFormPrefix'
  <1> SUFFICES ASSUME NEW f \in Fds, file_array'[f].filetype = Regular, f \notin broken'
               PROVE  PrefixIn(image, got'[f], file_array'[f])
    BY PrefixParts DEF TablePrefixes
  <1>1. PrefixIn(image, got[f], file_array[f])
    BY PrefixParts DEF TablePrefixes
  <1> QED BY <1>1 DEF PrefixIn

\* Nothing is open and nothing is being read when the kernel has started.
LEMMA InitInv == FSInit => FSInv
  <1> SUFFICES ASSUME FSInit PROVE FSInv
    OBVIOUS
  <1>1. TableTypeOK /\ CallTypeOK /\ LoopTypeOK
    BY Sizes DEF FSInit, FilesystemInit, TableTypeOK, CallTypeOK, LoopTypeOK, Entry, Closed,
           Labels
  <1>2. OpenFiles /\ ReadsFormPrefix
    BY DEF FSInit, OpenFiles, ReadsFormPrefix, Closed, Regular
  <1>3. Stored /\ ReadLoop /\ FailureHasBadBlock
    BY DEF FSInit, Stored, ReadLoop, FailureHasBadBlock
  <1> QED BY <1>1, <1>2, <1>3, TypeParts DEF FSInv

-----------------------------------------------------------------------------
(* Calls outside the loop *)

\* Outside a read there is nothing to show of one.
LEMMA NoRead ==
    ASSUME pc' = "user" PROVE Stored' /\ ReadLoop' /\ FailureHasBadBlock'
  BY DEF Stored, ReadLoop, FailureHasBadBlock

\* open puts a descriptor on an entry of the directory, at position 0.
LEMMA OpenInv == ASSUME FSInv, NEW f \in Fds, NEW fname, Open(f, fname) PROVE FSInv'
  <1>0. TableTypeOK /\ CallTypeOK /\ LoopTypeOK /\ OpenFiles /\ ReadsFormPrefix
    BY TypeParts DEF FSInv
  <1>1. PICK d \in DentryIndex : DentryOf(fname) = image.dentries[d]
    BY <1>0, FoundFacts DEF Open, TableTypeOK
  <1> DEFINE e == Opened(DentryOf(fname))
  <1>2. /\ e \in Entry /\ e.inode \in Nat
        /\ e.inode < image.inodes_num /\ e.fileposition = 0
    BY <1>0, <1>1, DentryFacts, Sizes DEF TableTypeOK, Opened, Entry
  <1> HIDE DEF e
  <1>3. /\ file_array' = [file_array EXCEPT ![f] = e]
        /\ got' = [got EXCEPT ![f] = <<>>] /\ broken' = broken \ {f}
        /\ pc = "user" /\ pc' = "user" /\ UNCHANGED <<image, entry_counter, length_of_file>>
        /\ UNCHANGED <<fd, inode, offset, length, i, read_data_block, read_data, buf, ret>>
    BY DEF Open, e, readVars
  <1>4. TableTypeOK' /\ CallTypeOK' /\ LoopTypeOK'
    <2>1. TableTypeOK'
      BY <1>0, <1>2, <1>3, Sizes DEF TableTypeOK
    <2>2. CallTypeOK' /\ LoopTypeOK'
      BY <1>0, <1>3 DEF CallTypeOK, LoopTypeOK
    <2> QED BY <2>1, <2>2
  <1>5. OpenFiles'
    BY <1>0, <1>2, <1>3 DEF TableTypeOK, OpenFiles
  <1>6. ReadsFormPrefix'
    <2> SUFFICES ASSUME NEW g \in Fds, file_array'[g].filetype = Regular, g \notin broken'
                 PROVE  PrefixIn(image, got'[g], file_array'[g])
      BY <1>3, PrefixParts DEF TablePrefixes
    <2>1. CASE g = f
      <3>1. got'[g] = <<>> /\ file_array'[g] = e
        BY <1>0, <1>3, <2>1 DEF TableTypeOK
      <3>2. image.inodes[e.inode].length \in Nat
        BY <1>0, <1>2, InodeFacts DEF TableTypeOK, FileLength
      <3> QED BY <3>1, <3>2, <1>2 DEF PrefixIn
    <2>2. CASE g # f
      <3>1. got'[g] = got[g] /\ file_array'[g] = file_array[g] /\ g \notin broken
        BY <1>0, <1>3, <2>2 DEF TableTypeOK
      <3> QED BY <1>0, <3>1, PrefixParts DEF TablePrefixes
    <2> QED BY <2>1, <2>2
  <1> QED BY <1>3, <1>4, <1>5, <1>6, NoRead, TypeParts DEF FSInv

\* close, one descriptor or all of them.
LEMMA CloseInv == ASSUME FSInv, CloseAll \/ \E f \in Fds : Close(f) PROVE FSInv'
  <1>0. TableTypeOK /\ CallTypeOK /\ LoopTypeOK /\ OpenFiles /\ ReadsFormPrefix
    BY TypeParts DEF FSInv
  <1>1. /\ UNCHANGED <<image, entry_counter, length_of_file>> /\ pc = "user" /\ pc' = "user"
        /\ UNCHANGED <<fd, inode, offset, length, i, read_data_block, read_data>>
        /\ buf' \in {buf, <<>>} /\ ret' \in {ret, 0}
    BY DEF CloseAll, Close, readVars
  <1>2. CallTypeOK' /\ LoopTypeOK'
    BY <1>0, <1>1, Sizes DEF CallTypeOK, LoopTypeOK
  <1>3. Closed \in Entry /\ Closed.filetype # Regular
    BY Sizes DEF Closed, Entry, Regular
  <1>4. /\ file_array' \in [Fds -> Entry] /\ got' \in [Fds -> Bytes] /\ broken' \subseteq Fds
        /\ \A f \in Fds :
              \/ file_array'[f] = Closed
              \/ /\ file_array'[f] = file_array[f] /\ got'[f] = got[f]
                 /\ f \notin broken' => f \notin broken
    <2>1. CASE CloseAll
      BY <1>3, <2>1, Sizes DEF CloseAll
    <2>2. ASSUME NEW f \in Fds, Close(f)
          PROVE  /\ file_array' \in [Fds -> Entry] /\ got' \in [Fds -> Bytes]
                 /\ broken' \subseteq Fds
                 /\ \A g \in Fds :
                      \/ file_array'[g] = Closed
                      \/ /\ file_array'[g] = file_array[g] /\ got'[g] = got[g]
                         /\ g \notin broken' => g \notin broken
      BY <1>0, <1>3, <2>2, Sizes DEF Close, TableTypeOK
    <2> QED BY <2>1, <2>2
  <1>5. TableTypeOK'
    BY <1>0, <1>1, <1>4 DEF TableTypeOK
  <1>6. OpenFiles'
    BY <1>0, <1>1, <1>3, <1>4 DEF OpenFiles
  <1>7. ReadsFormPrefix'
    BY <1>0, <1>1, <1>3, <1>4, PrefixesKept
  <1> QED BY <1>1, <1>2, <1>5, <1>6, <1>7, NoRead, TypeParts DEF FSInv

\* fileposition moves within a word and nothing else of the descriptor does.
LEMMA AdvanceFacts ==
    ASSUME TableTypeOK, NEW f \in Fds, NEW bytes \in Int, Advance(f, bytes)
    PROVE  /\ file_array' \in [Fds -> Entry]
           /\ \A g \in Fds : /\ file_array'[g].filetype = file_array[g].filetype
                             /\ file_array'[g].inode = file_array[g].inode
                             /\ g # f => file_array'[g] = file_array[g]
           /\ file_array'[f].fileposition = (file_array[f].fileposition + bytes) % WordSize
  <1> DEFINE p == (file_array[f].fileposition + bytes) % WordSize
  <1>1. file_array \in [Fds -> Entry]
    BY DEF TableTypeOK
  <1>2. file_array[f].fileposition \in Nat
    BY <1>1, Sizes DEF Entry
  <1>3. p \in 0..(WordSize - 1)
    BY <1>2, Sizes
  <1>4. file_array' = [file_array EXCEPT ![f].fileposition = p]
    BY <1>1 DEF Advance
  <1> HIDE DEF p
  <1>5. /\ file_array' \in [Fds -> Entry]
        /\ \A g \in Fds : /\ file_array'[g].filetype = file_array[g].filetype
                          /\ file_array'[g].inode = file_array[g].inode
                          /\ g # f => file_array'[g] = file_array[g]
        /\ file_array'[f].fileposition = p
    BY <1>1, <1>3, <1>4 DEF Entry
  <1> QED BY <1>5 DEF p

\* A read of a directory or of the clock, whatever disturbs it, leaves the files
\* alone.
LEMMA OtherReadInv ==
    ASSUME FSInv, NEW f \in Fds, DirectoryRead(f) \/ RtcRead(f) \/ ReadDisturbed(f) PROVE FSInv'
  <1>0. TableTypeOK /\ CallTypeOK /\ LoopTypeOK /\ OpenFiles /\ ReadsFormPrefix
    BY TypeParts DEF FSInv
  <1>1. /\ UNCHANGED <<image, length_of_file, got>>
        /\ pc = "user" /\ pc' = "user" /\ fd' = f
        /\ UNCHANGED <<inode, offset, length, i, read_data_block, read_data>>
        /\ file_array[f].filetype # Regular /\ Advance(f, ret')
        /\ broken' \in {broken, broken \cup {f}}
    BY DEF DirectoryRead, RtcRead, ReadDisturbed, DirectoryDisturbed, RtcDisturbed, RtcReturns,
           Regular, Directory, Rtc
  <1>2. /\ entry_counter' \in Nat
        /\ buf' \in Bytes /\ ret' \in Int
    <2>1. CASE RtcRead(f) \/ RtcDisturbed(f)
      BY <1>0, <2>1, Sizes DEF RtcRead, RtcDisturbed, RtcReturns, TableTypeOK
    <2>2. CASE DirectoryRead(f) \/ DirectoryDisturbed(f)
      <3>1. image.dentries_num \in 0..SIZE_FS_DENTRIES /\ entry_counter \in Nat
        <4>1. ImageOK(image)
          BY <1>0, FileSystemAssumption DEF TableTypeOK
        <4> QED BY <1>0, <4>1 DEF TableTypeOK, ImageOK
      <3>2. ~DirectoryEnd => entry_counter \in DentryIndex
        BY <3>1, Sizes DEF DirectoryEnd, DentryIndex
      <3>3. ~DirectoryEnd => NextName \in Seq(Char)
        BY <1>0, <3>2, DentryFacts DEF TableTypeOK, NextName
      <3>4. ~DirectoryEnd => NextName \in Bytes
        BY <3>3 DEF Bytes
      <3>5. buf' \in Bytes
        BY <2>2, <3>4, Sizes DEF DirectoryRead, DirectoryDisturbed
      <3>6. Len(buf') \in Nat
        BY <3>5 DEF Bytes
      <3>7. ret' \in Int
        <4>1. ret' = Len(buf') \/ ret' \in Eoi
          BY <2>2 DEF DirectoryRead, DirectoryDisturbed
        <4>2. ret' \in Nat
          BY <3>6, <4>1, Sizes, Zenon
        <4> QED BY <4>2
      <3>8. entry_counter' \in Nat
        <4>1. \/ entry_counter' \in {0, entry_counter + 1} \cup Eoi
              \/ \E e \in Eoi : entry_counter' = e + 1
          BY <2>2 DEF DirectoryRead, DirectoryDisturbed, NextEntry
        <4>2. \A e \in Eoi : e \in Nat
          BY Sizes
        <4> QED BY <3>1, <4>1, <4>2
      <3> QED BY <3>5, <3>7, <3>8
    <2> QED BY <2>1, <2>2 DEF ReadDisturbed
  <1>3. /\ file_array' \in [Fds -> Entry]
        /\ \A g \in Fds : /\ file_array'[g].filetype = file_array[g].filetype
                          /\ file_array'[g].inode = file_array[g].inode
                          /\ file_array[g].filetype = Regular =>
                                file_array'[g].fileposition = file_array[g].fileposition
    BY <1>0, <1>1, <1>2, AdvanceFacts
  <1>4. TableTypeOK' /\ CallTypeOK' /\ LoopTypeOK'
    BY <1>0, <1>1, <1>2, <1>3 DEF TableTypeOK, CallTypeOK, LoopTypeOK
  <1>5. OpenFiles'
    <2>1. \A g \in Fds : file_array'[g].filetype = Regular =>
                             file_array'[g].inode < image'.inodes_num
      <3> SUFFICES ASSUME NEW g \in Fds, file_array'[g].filetype = Regular
                   PROVE  file_array'[g].inode < image'.inodes_num
        OBVIOUS
      <3>1. file_array[g].filetype = Regular /\ file_array'[g].inode = file_array[g].inode
        BY <1>3
      <3>2. image' = image
        BY <1>1
      <3> QED BY <1>0, <3>1, <3>2 DEF OpenFiles
    <2> QED BY <1>1, <2>1 DEF OpenFiles
  <1>6. ReadsFormPrefix'
    <2>1. \A g \in Fds : (file_array'[g].filetype = Regular /\ g \notin broken') =>
               /\ g \notin broken /\ got'[g] = got[g]
               /\ file_array[g].filetype = Regular
               /\ file_array'[g].inode = file_array[g].inode
               /\ file_array'[g].fileposition = file_array[g].fileposition
      <3> TAKE g \in Fds
      <3>1. /\ file_array'[g].filetype = file_array[g].filetype
            /\ file_array'[g].inode = file_array[g].inode
            /\ file_array[g].filetype = Regular =>
                  file_array'[g].fileposition = file_array[g].fileposition
        BY <1>3
      <3>2. got' = got /\ (g \notin broken' => g \notin broken)
        BY <1>1
      <3> QED BY <3>1, <3>2
    <2> QED BY <1>0, <1>1, <2>1, PrefixesKept
  <1> QED BY <1>1, <1>4, <1>5, <1>6, NoRead, TypeParts DEF FSInv

-----------------------------------------------------------------------------
(* The loop of read_data *)

\* What a read in progress works on.
LEMMA ReadFacts ==
    ASSUME FSInv, pc # "user"
    PROVE  /\ image \in Images /\ inode \in Nat /\ inode < image.inodes_num
           /\ FileLength(inode) \in Nat /\ FileLength(inode) < WordSize
           /\ FileLength(inode) <= BlockEntries * FS_UNIT_SIZE
           /\ offset \in Nat /\ length \in Nat /\ i \in Nat
           /\ read_data_block \in Nat /\ read_data \in 0..FS_UNIT_SIZE
           /\ buf \in Bytes /\ length_of_file \in Nat
  <1>1. TableTypeOK /\ CallTypeOK /\ LoopTypeOK /\ OpenFiles
    BY TypeParts DEF FSInv
  <1>2. inode \in Nat /\ inode < image.inodes_num
    BY <1>1 DEF CallTypeOK, OpenFiles
  <1>3. offset \in Nat
    BY <1>1, Sizes DEF CallTypeOK
  <1> QED BY <1>1, <1>2, <1>3, InodeFacts DEF TableTypeOK, CallTypeOK, LoopTypeOK

\* The length of the test file depends on the image only.
TestInodesIn(img) ==
    LET found == {d \in DentryIndex : TestFile # <<>> /\ NameMatches(img.dentries[d], TestFile)}
    IN  IF found # {} THEN {img.dentries[FirstOf(found)].inode} ELSE 0..(img.inodes_num - 1)
LEMMA TestLengthsKept == ASSUME image' = image PROVE TestLengths' = TestLengths
  <1>1. TestInodes = TestInodesIn(image) /\ TestInodes' = TestInodesIn(image')
    BY DEF TestInodes, DentryOf, Found, Candidates, TestInodesIn
  <1>2. TestInodes' = TestInodes
    BY <1>1
  <1> QED BY <1>2 DEF TestLengths, FileLength

\* The bytes stored, and a bad block, as functions of the image.
StoredIn(img, n, o, m, cnt, bytes) ==
    /\ Len(bytes) = cnt /\ cnt <= m
    /\ cnt > 0 => o + cnt <= img.inodes[n].length
    /\ \A k \in 1..cnt :
          bytes[k] = img.data[img.inodes[n].data_blocks[(o + k - 1) \div FS_UNIT_SIZE]]
                             [(o + k - 1) % FS_UNIT_SIZE]
LEMMA StoredParts ==
    /\ Stored <=> (pc # "user" => StoredIn(image, inode, offset, length, i, buf))
    /\ Stored' <=> (pc' # "user" => StoredIn(image', inode', offset', length', i', buf'))
  BY DEF Stored, StoredIn, FileLength, FileByte, BlockOf

BadBlock == \E b \in Looked(inode, offset, length) : ~InImage(inode, b)
LEMMA BadBlockKept ==
    ASSUME UNCHANGED <<image, inode, offset, length>>
    PROVE  /\ BadBlock' <=> BadBlock
           /\ Refused(inode, offset, length)' <=> Refused(inode, offset, length)
  BY DEF BadBlock, Refused, Looked, InImage, BlockOf, FileLength
\* A bad block in a file that goes on at the offset makes read_data refuse it.
LEMMA BadBlockRefused ==
    ASSUME BadBlock, offset < FileLength(inode) PROVE Refused(inode, offset, length)
  BY DEF BadBlock, Refused

\* A step of read_data leaves the tables alone, and the call's parameters.
LEMMA StepKeeps ==
    ASSUME FSInv, NEW from, NEW to, Step(from, to), from # "user"
    PROVE  /\ UNCHANGED <<image, inode, offset, length>>
           /\ length_of_file' \in Nat => TableTypeOK'
           /\ CallTypeOK' /\ OpenFiles' /\ ReadsFormPrefix'
           /\ UNCHANGED <<i, buf>> => Stored'
  <1>0. TableTypeOK /\ CallTypeOK /\ OpenFiles /\ ReadsFormPrefix /\ Stored
    BY TypeParts DEF FSInv
  <1>1. /\ pc # "user"
        /\ UNCHANGED <<image, entry_counter, file_array, fd, inode, offset, length, got, broken>>
    BY DEF Step
  <1>2. (length_of_file' \in Nat => TableTypeOK') /\ CallTypeOK'
    BY <1>0, <1>1 DEF TableTypeOK, CallTypeOK
  <1>3. OpenFiles'
    BY <1>0, <1>1 DEF OpenFiles
  <1>4. ReadsFormPrefix'
    BY <1>0, <1>1, PrefixParts
  <1>5. UNCHANGED <<i, buf>> => Stored'
    BY <1>0, <1>1, StoredParts
  <1> QED BY <1>1, <1>2, <1>3, <1>4, <1>5

\* read_data returns at once, or is in the loop.
LEMMA EnterInv == ASSUME FSInv, EnterPastEnd \/ EnterBadBlock \/ Enter PROVE FSInv'
  <1>0. /\ pc = "enter" /\ length > 0 /\ i = 0
        /\ read_data_block = offset \div FS_UNIT_SIZE /\ read_data = offset % FS_UNIT_SIZE
    BY DEF EnterPastEnd, EnterBadBlock, Enter, ReturnNow, Step, FSInv, ReadLoop
  <1>1. PICK to \in {"finish", "next"} : Step("enter", to) /\ pc' = to
    BY DEF EnterPastEnd, EnterBadBlock, Enter, ReturnNow, Step
  <1>2. UNCHANGED <<i, read_data_block, read_data, buf>>
    BY DEF EnterPastEnd, EnterBadBlock, Enter, ReturnNow
  <1>3. length_of_file' \in Nat /\ ret' \in Int
    BY <1>0, ReadFacts, TypeParts
       DEF EnterPastEnd, EnterBadBlock, Enter, ReturnNow, FSInv, LoopTypeOK
  <1>4. LoopTypeOK'
    BY <1>1, <1>2, <1>3, TypeParts DEF FSInv, LoopTypeOK, Labels
  <1>5. /\ UNCHANGED <<image, inode, offset, length>>
        /\ TableTypeOK' /\ CallTypeOK' /\ OpenFiles' /\ ReadsFormPrefix' /\ Stored'
    BY <1>1, <1>2, <1>3, StepKeeps
  <1>6. /\ offset = read_data_block * FS_UNIT_SIZE + read_data
        /\ read_data < FS_UNIT_SIZE
    <2>1. offset \in Nat
      BY <1>0, ReadFacts
    <2>2. /\ offset % FS_UNIT_SIZE \in 0..(FS_UNIT_SIZE - 1)
          /\ offset = (offset \div FS_UNIT_SIZE) * FS_UNIT_SIZE + (offset % FS_UNIT_SIZE)
      BY <2>1, OffsetSplit, Sizes
    <2>3. read_data \in 0..(FS_UNIT_SIZE - 1)
      BY <1>0, <2>2
    <2> QED BY <1>0, <2>2, <2>3, Sizes
  <1>7. ReadLoop' /\ FailureHasBadBlock'
    <2>1. CASE EnterPastEnd
      <3>1. pc' = "finish" /\ ret' = 0 /\ offset >= FileLength(inode)
        BY <2>1 DEF EnterPastEnd, ReturnNow, Step
      <3>2. Available(inode, offset, length)' = 0
        BY <1>5, <3>1 DEF Available, FileLength
      <3> QED BY <1>0, <1>2, <3>1, <3>2 DEF ReadLoop, FailureHasBadBlock
    <2>2. CASE EnterBadBlock
      <3>1. pc' = "finish" /\ ret' = -1 /\ ~InImage(inode, read_data_block)
            /\ offset < FileLength(inode)
        BY <2>2 DEF EnterBadBlock, ReturnNow, Step
      <3>2. read_data_block \in Looked(inode, offset, length)
        <4> DEFINE p == read_data_block * FS_UNIT_SIZE
        <4>1. p \in Nat /\ (read_data_block + 1) * FS_UNIT_SIZE = p + FS_UNIT_SIZE
          BY <1>0, ReadFacts, BlockBound, Sizes
        <4>2. p <= BlockEntries * FS_UNIT_SIZE => read_data_block <= BlockEntries
          BY <1>0, ReadFacts, BlockBound, Sizes
        <4>3. BlockEntries * FS_UNIT_SIZE \in Nat
          BY Sizes, BlockBound
        <4>4. offset = p + read_data
          BY <1>6
        <4> HIDE DEF p
        <4>5. p < offset + length /\ offset < p + FS_UNIT_SIZE /\ p <= FileLength(inode)
              /\ read_data_block <= BlockEntries
          BY <1>0, <1>6, <3>1, <4>1, <4>2, <4>3, <4>4, ReadFacts, Sizes
        <4>6. read_data_block \in 0..BlockEntries
          BY <1>0, <4>5, ReadFacts, Sizes
        <4> QED BY <4>1, <4>5, <4>6 DEF Looked, p
      <3>3. Refused(inode, offset, length)'
        BY <1>5, <3>1, <3>2, BadBlockKept, BadBlockRefused DEF BadBlock
      <3> QED BY <3>1, <3>3 DEF ReadLoop, FailureHasBadBlock
    <2>3. CASE Enter
      <3>1. pc' = "next" /\ offset < FileLength(inode) /\ InImage(inode, read_data_block)
        BY <2>3 DEF Enter, Step
      <3>2. (offset + i) = offset
        BY <1>0, ReadFacts
      <3> QED BY <1>0, <1>2, <1>5, <1>6, <3>1, <3>2, ReadFacts
              DEF ReadLoop, FailureHasBadBlock, FileLength, InImage, BlockOf
    <2> QED BY <2>1, <2>2, <2>3
  <1> QED BY <1>4, <1>5, <1>7, TypeParts DEF FSInv

\* What there is to read does not change while it is being read.
LEMMA AvailableKept ==
    ASSUME UNCHANGED <<image, inode, offset, length>>
    PROVE  /\ Available(inode, offset, length)' = Available(inode, offset, length)
           /\ FileLength(inode)' = FileLength(inode)
           /\ TestLengths' = TestLengths
  BY TestLengthsKept DEF Available, FileLength

\* The loop ends, stays in its block or looks at the next one.
LEMMA NextInv ==
    ASSUME FSInv, LoopEnds \/ SameBlock \/ NextBlock \/ NextBlockBad PROVE FSInv'
  <1>0. /\ pc = "next"
        /\ offset < FileLength(inode) /\ offset + i <= FileLength(inode)
        /\ offset + i = read_data_block * FS_UNIT_SIZE + read_data
        /\ InImage(inode, read_data_block)
        /\ i <= length
    BY DEF LoopEnds, SameBlock, NextBlock, NextBlockBad, ReturnNow, Step, FSInv, ReadLoop, Stored
  <1>1. PICK to \in {"result", "copy", "finish"} : Step("next", to) /\ pc' = to
    BY DEF LoopEnds, SameBlock, NextBlock, NextBlockBad, ReturnNow, Step
  <1>2. UNCHANGED <<i, buf>>
    BY DEF LoopEnds, SameBlock, NextBlock, NextBlockBad, ReturnNow
  <1>3. /\ length_of_file \in Nat /\ i \in Nat /\ length \in Nat /\ offset \in Nat
        /\ read_data_block \in Nat /\ read_data \in 0..FS_UNIT_SIZE
        /\ FileLength(inode) \in Nat /\ FileLength(inode) <= BlockEntries * FS_UNIT_SIZE
    BY <1>0, ReadFacts
  <1>4. /\ length_of_file' \in Nat /\ ret' \in Int
        /\ read_data_block' \in Nat /\ read_data' \in 0..FS_UNIT_SIZE
    BY <1>3, Sizes, TypeParts
       DEF LoopEnds, SameBlock, NextBlock, NextBlockBad, ReturnNow, FSInv, LoopTypeOK
  <1>5. LoopTypeOK'
    BY <1>1, <1>2, <1>4, TypeParts DEF FSInv, LoopTypeOK, Labels
  <1>6. /\ UNCHANGED <<image, inode, offset, length>>
        /\ TableTypeOK' /\ CallTypeOK' /\ OpenFiles' /\ ReadsFormPrefix' /\ Stored'
    BY <1>1, <1>2, <1>4, StepKeeps
  <1> DEFINE p == read_data_block * FS_UNIT_SIZE
  <1>7. /\ p \in Nat
        /\ (read_data_block + 1) * FS_UNIT_SIZE = p + FS_UNIT_SIZE
        /\ (read_data_block + 1 + 1) * FS_UNIT_SIZE = p + FS_UNIT_SIZE + FS_UNIT_SIZE
        /\ (read_data_block + 1) * FS_UNIT_SIZE <= BlockEntries * FS_UNIT_SIZE
                => read_data_block + 1 <= BlockEntries
        /\ BlockEntries * FS_UNIT_SIZE \in Nat
    <2>1. read_data_block + 1 \in Nat
      BY <1>3
    <2>2. /\ (read_data_block + 1) * FS_UNIT_SIZE = p + FS_UNIT_SIZE /\ p \in Nat
      BY <1>3, Sizes, BlockBound
    <2>3. /\ (read_data_block + 1 + 1) * FS_UNIT_SIZE
                  = (read_data_block + 1) * FS_UNIT_SIZE + FS_UNIT_SIZE
          /\ (read_data_block + 1) * FS_UNIT_SIZE <= BlockEntries * FS_UNIT_SIZE
                  => read_data_block + 1 <= BlockEntries
      BY <2>1, Sizes, BlockBound
    <2>4. BlockEntries * FS_UNIT_SIZE \in Nat
      BY Sizes, BlockBound
    <2> QED BY <2>2, <2>3, <2>4
  <1>8. offset + i = p + read_data
    BY <1>0
  <1>9. ReadLoop' /\ FailureHasBadBlock'
    <2>1. CASE LoopEnds
      <3>1. pc' = "result" /\ i >= length /\ length_of_file' = i
        BY <2>1 DEF LoopEnds, Step
      <3>2. i = Available(inode, offset, length)
        BY <1>0, <1>3, <3>1 DEF Available
      <3> QED BY <1>2, <1>6, <3>1, <3>2, AvailableKept DEF ReadLoop, FailureHasBadBlock
    <2>2. CASE SameBlock
      <3>1. pc' = "copy" /\ i < length /\ read_data < FS_UNIT_SIZE
            /\ UNCHANGED <<read_data, read_data_block>>
        BY <2>2 DEF SameBlock, Step
      <3> QED BY <1>0, <1>2, <1>6, <3>1
              DEF ReadLoop, FailureHasBadBlock, FileLength, InImage, BlockOf
    <2>3. CASE NextBlock
      <3>1. pc' = "copy" /\ i < length /\ read_data >= FS_UNIT_SIZE /\ read_data' = 0
            /\ read_data_block' = read_data_block + 1 /\ InImage(inode, read_data_block + 1)
        BY <2>3 DEF NextBlock, Step
      <3>2. offset + i = p + FS_UNIT_SIZE
        BY <1>3, <1>7, <1>8, <3>1, Sizes
      <3>3. offset' + i' = read_data_block' * FS_UNIT_SIZE + read_data'
        <4>1. offset' + i' = p + FS_UNIT_SIZE
          BY <1>2, <1>6, <3>2
        <4>2. read_data_block' * FS_UNIT_SIZE = p + FS_UNIT_SIZE
          BY <1>7, <3>1
        <4> HIDE DEF p
        <4> QED BY <1>7, <3>1, <4>1, <4>2, Sizes
      <3>4. InImage(inode, read_data_block)'
        BY <1>6, <3>1 DEF InImage, BlockOf
      <3>5. /\ (offset < FileLength(inode))' /\ (offset + i <= FileLength(inode))'
            /\ i' < length' /\ read_data' < FS_UNIT_SIZE
        BY <1>0, <1>2, <1>6, <3>1, AvailableKept, Sizes
      <3> QED BY <3>1, <3>3, <3>4, <3>5 DEF ReadLoop, FailureHasBadBlock
    <2>4. CASE NextBlockBad
      <3>1. pc' = "finish" /\ ret' = -1 /\ i < length /\ read_data >= FS_UNIT_SIZE
            /\ ~InImage(inode, read_data_block + 1)
        BY <2>4 DEF NextBlockBad, ReturnNow, Step
      <3> DEFINE b == read_data_block + 1
                 q == b * FS_UNIT_SIZE
      <3>2. offset + i = q
        BY <1>3, <1>7, <1>8, <3>1, Sizes
      <3>3. q <= BlockEntries * FS_UNIT_SIZE => b <= BlockEntries
        BY <1>7
      <3>4. (b + 1) * FS_UNIT_SIZE = q + FS_UNIT_SIZE
        BY <1>7
      <3>5. q \in Nat
        BY <1>3, <3>2
      <3> HIDE DEF q
      <3>6. q < offset + length /\ offset < q + FS_UNIT_SIZE /\ q <= FileLength(inode)
            /\ b <= BlockEntries
        BY <1>0, <1>3, <1>7, <3>1, <3>2, <3>3, <3>5, Sizes
      <3>7. b \in 0..BlockEntries
        BY <1>3, <3>6, Sizes
      <3>8. b \in Looked(inode, offset, length)
        BY <3>4, <3>6, <3>7 DEF Looked, q
      <3>9. Refused(inode, offset, length)'
        BY <1>0, <1>6, <3>1, <3>8, BadBlockKept, BadBlockRefused DEF BadBlock
      <3> QED BY <3>1, <3>9 DEF ReadLoop, FailureHasBadBlock
    <2> QED BY <2>1, <2>2, <2>3, <2>4
  <1> QED BY <1>5, <1>6, <1>9, TypeParts DEF FSInv

\* The byte the loop is at is in a block of the file.
LEMMA CopyFacts ==
    ASSUME FSInv, pc = "copy", i + offset < FileLength(inode)
    PROVE  /\ read_data_block < BlockEntries /\ InImage(inode, read_data_block)
           /\ read_data < FS_UNIT_SIZE /\ i < length
           /\ (offset + i) \div FS_UNIT_SIZE = read_data_block
           /\ (offset + i) % FS_UNIT_SIZE = read_data
           /\ image.data[BlockOf(inode, read_data_block)][read_data] \in Byte
  <1>0. /\ offset + i = read_data_block * FS_UNIT_SIZE + read_data
        /\ InImage(inode, read_data_block) /\ i < length /\ read_data < FS_UNIT_SIZE
    BY DEF FSInv, ReadLoop
  <1>1. /\ image \in Images /\ inode \in Nat /\ inode < image.inodes_num
        /\ i \in Nat /\ offset \in Nat /\ read_data_block \in Nat
        /\ read_data \in 0..FS_UNIT_SIZE
        /\ FileLength(inode) \in Nat /\ FileLength(inode) <= BlockEntries * FS_UNIT_SIZE
    BY ReadFacts
  <1>2. read_data \in 0..(FS_UNIT_SIZE - 1)
    BY <1>0, <1>1, Sizes
  <1>3. /\ (offset + i) \div FS_UNIT_SIZE = read_data_block
        /\ (offset + i) % FS_UNIT_SIZE = read_data
    BY <1>0, <1>1, <1>2, BlockPosition, Sizes
  <1> DEFINE p == read_data_block * FS_UNIT_SIZE
             q == BlockEntries * FS_UNIT_SIZE
  <1>4. p \in Nat /\ q \in Nat /\ (p < q => read_data_block < BlockEntries)
    BY <1>1, BlockBound, Sizes
  <1>5. offset + i = p + read_data /\ FileLength(inode) <= q
    BY <1>0, <1>1
  <1> HIDE DEF p, q
  <1>6. read_data_block < BlockEntries
    BY <1>1, <1>2, <1>4, <1>5, Sizes
  <1>7. read_data_block \in 0..BlockEntries
    BY <1>1, <1>6, Sizes
  <1> QED BY <1>0, <1>1, <1>2, <1>3, <1>6, <1>7, DataByte
\* The file ends, or one more byte of it is stored.
LEMMA CopyInv == ASSUME FSInv, EndOfFile \/ CopyByte PROVE FSInv'
  <1>0. /\ pc = "copy"
        /\ offset < FileLength(inode) /\ offset + i <= FileLength(inode)
        /\ offset + i = read_data_block * FS_UNIT_SIZE + read_data
        /\ InImage(inode, read_data_block)
        /\ i < length /\ read_data < FS_UNIT_SIZE
        /\ StoredIn(image, inode, offset, length, i, buf)
    BY StoredParts DEF EndOfFile, CopyByte, Step, FSInv, ReadLoop
  <1>1. /\ length_of_file \in Nat /\ i \in Nat /\ length \in Nat /\ offset \in Nat
        /\ read_data_block \in Nat /\ read_data \in 0..FS_UNIT_SIZE
        /\ FileLength(inode) \in Nat /\ buf \in Bytes
    BY <1>0, ReadFacts
  <1>2. CASE EndOfFile
    <2>1. /\ pc' = "result" /\ i + offset >= FileLength(inode) /\ length_of_file' = i
          /\ UNCHANGED <<i, read_data_block, read_data, buf, ret>> /\ Step("copy", "result")
      BY <1>2 DEF EndOfFile, Step
    <2>2. LoopTypeOK'
      BY <2>1, TypeParts DEF FSInv, LoopTypeOK, Labels
    <2>3. /\ UNCHANGED <<image, inode, offset, length>>
          /\ TableTypeOK' /\ CallTypeOK' /\ OpenFiles' /\ ReadsFormPrefix' /\ Stored'
      BY <1>1, <2>1, StepKeeps
    <2>4. i = Available(inode, offset, length)
      BY <1>0, <1>1, <2>1 DEF Available
    <2>5. ReadLoop' /\ FailureHasBadBlock'
      BY <2>1, <2>3, <2>4, AvailableKept DEF ReadLoop, FailureHasBadBlock
    <2> QED BY <2>2, <2>3, <2>5, TypeParts DEF FSInv
  <1>3. CASE CopyByte
    <2> DEFINE c == image.data[BlockOf(inode, read_data_block)][read_data]
    <2>1. /\ pc' = "next" /\ i + offset < FileLength(inode) /\ buf' = Append(buf, c)
          /\ i' = i + 1 /\ read_data' = read_data + 1
          /\ UNCHANGED <<length_of_file, read_data_block, ret>> /\ Step("copy", "next")
      BY <1>3 DEF CopyByte, Step
    <2>2. c \in Byte
      BY <1>0, <2>1, CopyFacts
    <2>3. c = image.data[image.inodes[inode].data_blocks[(offset + (i + 1) - 1) \div FS_UNIT_SIZE]]
                        [(offset + (i + 1) - 1) % FS_UNIT_SIZE]
      <3>1. offset + (i + 1) - 1 = offset + i
        BY <1>1
      <3> QED BY <1>0, <2>1, <3>1, CopyFacts DEF BlockOf
    <2> HIDE DEF c
    <2>4. LoopTypeOK'
      <3>1. buf' \in Bytes
        BY <1>1, <2>1, <2>2 DEF Bytes
      <3>2. read_data' \in 0..FS_UNIT_SIZE
        BY <1>0, <1>1, <2>1, Sizes
      <3> QED BY <1>1, <2>1, <3>1, <3>2, TypeParts DEF FSInv, LoopTypeOK, Labels
    <2>5. /\ UNCHANGED <<image, inode, offset, length>>
          /\ TableTypeOK' /\ CallTypeOK' /\ OpenFiles' /\ ReadsFormPrefix'
      BY <1>1, <2>1, StepKeeps
    <2>6. Stored'
      <3>1. Len(buf') = i + 1 /\ i + 1 <= length
        BY <1>0, <1>1, <2>1, <2>2 DEF StoredIn, Bytes
      <3>2. offset + (i + 1) <= image.inodes[inode].length
        BY <1>1, <2>1 DEF FileLength
      <3>3. \A k \in 1..(i + 1) :
               buf'[k] = image.data[image.inodes[inode].data_blocks[(offset + k - 1) \div FS_UNIT_SIZE]]
                                   [(offset + k - 1) % FS_UNIT_SIZE]
        <4> TAKE k \in 1..(i + 1)
        <4>1. CASE k = i + 1
          <5>1. buf'[k] = c
            BY <1>0, <1>1, <2>1, <2>2, <4>1 DEF StoredIn, Bytes
          <5> QED BY <2>3, <4>1, <5>1
        <4>2. CASE k # i + 1
          <5>1. k \in 1..i
            BY <1>1, <4>2
          <5>2. buf'[k] = buf[k]
            BY <1>0, <1>1, <2>1, <2>2, <5>1 DEF StoredIn, Bytes
          <5> QED BY <1>0, <5>1, <5>2 DEF StoredIn
        <4> QED BY <4>1, <4>2
      <3>4. StoredIn(image, inode, offset, length, i + 1, buf')
        BY <3>1, <3>2, <3>3 DEF StoredIn
      <3> QED BY <2>1, <2>5, <3>4, StoredParts
    <2>7. ReadLoop' /\ FailureHasBadBlock'
      <3> DEFINE p == read_data_block * FS_UNIT_SIZE
      <3>1. p \in Nat /\ offset + i = p + read_data
        BY <1>0, <1>1, BlockBound, Sizes
      <3> HIDE DEF p
      <3>2. offset' + i' = p + read_data'
        BY <1>1, <2>1, <2>5, <3>1
      <3>3. offset' + i' = read_data_block' * FS_UNIT_SIZE + read_data'
        BY <2>1, <3>2 DEF p
      <3>4. InImage(inode, read_data_block)'
        BY <1>0, <2>1, <2>5 DEF InImage, BlockOf
      <3>5. (offset < FileLength(inode))' /\ (offset + i <= FileLength(inode))'
        BY <1>0, <1>1, <2>1, <2>5, AvailableKept
      <3> QED BY <2>1, <3>3, <3>4, <3>5 DEF ReadLoop, FailureHasBadBlock
    <2> QED BY <2>4, <2>5, <2>6, <2>7, TypeParts DEF FSInv
  <1> QED BY <1>2, <1>3

\* The global is read back.
LEMMA ResultInv == ASSUME FSInv, LoadResult PROVE FSInv'
  <1>0. /\ pc = "result" /\ i = Available(inode, offset, length)
        /\ length_of_file \in {i, 0} \cup TestLengths
    BY DEF LoadResult, Step, FSInv, ReadLoop
  <1>1. /\ pc' = "finish" /\ ret' = length_of_file /\ Step("result", "finish")
        /\ UNCHANGED <<length_of_file, i, read_data_block, read_data, buf>>
    BY DEF LoadResult, Step
  <1>2. length_of_file \in Nat
    BY <1>0, ReadFacts
  <1>3. LoopTypeOK'
    BY <1>1, <1>2, TypeParts DEF FSInv, LoopTypeOK, Labels
  <1>4. /\ UNCHANGED <<image, inode, offset, length>>
        /\ TableTypeOK' /\ CallTypeOK' /\ OpenFiles' /\ ReadsFormPrefix' /\ Stored'
    BY <1>1, <1>2, StepKeeps
  <1>5. ReadLoop' /\ FailureHasBadBlock'
    BY <1>0, <1>1, <1>2, <1>4, AvailableKept DEF ReadLoop, FailureHasBadBlock
  <1> QED BY <1>3, <1>4, <1>5, TypeParts DEF FSInv

\* read returns: the bytes stored follow those that the descriptor had.
LEMMA FinishInv == ASSUME FSInv, Finish PROVE FSInv'
  <1>0. /\ TableTypeOK /\ CallTypeOK /\ LoopTypeOK /\ OpenFiles /\ ReadsFormPrefix
        /\ pc = "finish" /\ StoredIn(image, inode, offset, length, i, buf)
    BY TypeParts, StoredParts DEF FSInv, Finish
  <1>1. /\ pc' = "user" /\ Advance(fd, ret)
        /\ inode' = 0 /\ offset' = 0 /\ length' = 0
        /\ i' = 0 /\ read_data_block' = 0 /\ read_data' = 0
        /\ UNCHANGED <<image, entry_counter, length_of_file, fd, buf, ret>>
    BY DEF Finish
  <1>2. \/ /\ fd \notin broken /\ ret = Len(buf)
           /\ got' = [got EXCEPT ![fd] = @ \o buf] /\ broken' = broken
        \/ got' = [got EXCEPT ![fd] = <<>>] /\ broken' = broken \cup {fd}
    BY DEF Finish
  <1>3. /\ file_array' \in [Fds -> Entry]
        /\ \A g \in Fds : /\ file_array'[g].filetype = file_array[g].filetype
                          /\ file_array'[g].inode = file_array[g].inode
                          /\ g # fd => file_array'[g] = file_array[g]
        /\ file_array'[fd].fileposition = (file_array[fd].fileposition + ret) % WordSize
    BY <1>0, <1>1, AdvanceFacts DEF CallTypeOK, LoopTypeOK
  <1>4. got' \in [Fds -> Bytes] /\ broken' \subseteq Fds
    <2>1. got[fd] \in Bytes /\ buf \in Bytes /\ fd \in Fds /\ got \in [Fds -> Bytes]
          /\ broken \subseteq Fds
      BY <1>0 DEF TableTypeOK, CallTypeOK, LoopTypeOK
    <2>2. got[fd] \o buf \in Bytes
      BY <2>1 DEF Bytes
    <2> QED BY <1>2, <2>1, <2>2, Sizes
  <1>5. TableTypeOK'
    BY <1>0, <1>1, <1>3, <1>4 DEF TableTypeOK
  <1>6. CallTypeOK' /\ LoopTypeOK'
    BY <1>0, <1>1, Sizes DEF CallTypeOK, LoopTypeOK, Labels
  <1>7. OpenFiles'
    <2>1. \A g \in Fds : file_array'[g].filetype = Regular =>
                             file_array'[g].inode < image'.inodes_num
      <3> SUFFICES ASSUME NEW g \in Fds, file_array'[g].filetype = Regular
                   PROVE  file_array'[g].inode < image'.inodes_num
        OBVIOUS
      <3>1. file_array[g].filetype = Regular /\ file_array'[g].inode = file_array[g].inode
        BY <1>3
      <3> QED BY <1>0, <1>1, <3>1 DEF OpenFiles
    <2> QED BY <1>1, <2>1 DEF OpenFiles
  <1>8. ReadsFormPrefix'
    <2> SUFFICES ASSUME NEW g \in Fds, file_array'[g].filetype = Regular, g \notin broken'
                 PROVE  PrefixIn(image, got'[g], file_array'[g])
      BY <1>1, PrefixParts DEF TablePrefixes
    <2>0. file_array[g].filetype = Regular /\ g \notin broken
      BY <1>2, <1>3
    <2>1. PrefixIn(image, got[g], file_array[g])
      BY <1>0, <2>0, PrefixParts DEF TablePrefixes
    <2>2. CASE g # fd
      <3>1. got'[g] = got[g] /\ file_array'[g] = file_array[g]
        BY <1>0, <1>2, <1>3, <2>2 DEF TableTypeOK, CallTypeOK
      <3> QED BY <2>1, <3>1
    <2>3. CASE g = fd
      <3> DEFINE old == got[fd]
                 n == FileLength(inode)
                 cell(k) == image.data[image.inodes[inode].data_blocks[k \div FS_UNIT_SIZE]]
                                      [k % FS_UNIT_SIZE]
      <3>1. fd \in Fds /\ old \in Bytes /\ buf \in Bytes
        BY <1>0 DEF TableTypeOK, CallTypeOK, LoopTypeOK
      <3>2. ret = Len(buf) /\ got'[fd] = old \o buf
        BY <1>0, <1>2, <2>3, <3>1 DEF TableTypeOK
      <3>3. inode = file_array[fd].inode /\ offset = file_array[fd].fileposition
        BY <1>0 DEF OpenFiles
      <3>4. n \in Nat /\ n < WordSize /\ offset \in Nat /\ i \in Nat
        BY <1>0, ReadFacts
      <3>5. Len(old) = offset /\ Len(old) <= n /\ \A k \in 1..Len(old) : old[k] = cell(k - 1)
        BY <2>1, <2>3, <3>3 DEF PrefixIn, FileLength
      <3>6. Len(buf) = i /\ (i > 0 => offset + i <= n)
            /\ \A k \in 1..i : buf[k] = cell(offset + k - 1)
        BY <1>0 DEF StoredIn, FileLength
      <3>7. offset + i <= n
        BY <3>4, <3>5, <3>6
      <3>8. (offset + ret) % WordSize = offset + i
        <4>1. offset + ret = offset + i /\ offset + i \in Nat /\ offset + i < WordSize
          BY <3>2, <3>4, <3>6, <3>7, Sizes
        <4> QED BY <4>1, SmallRemainder, Sizes
      <3>9. file_array'[fd].fileposition = offset + i /\ file_array'[fd].inode = inode
        BY <1>3, <3>1, <3>3, <3>8
      <3> HIDE DEF old, n, cell
      <3>10. Len(old \o buf) = offset + i
        <4>1. Len(old \o buf) = Len(old) + Len(buf)
          BY <3>1 DEF Bytes
        <4> QED BY <3>5, <3>6, <4>1
      <3>11. \A k \in 1..(offset + i) : (old \o buf)[k] = cell(k - 1)
        <4> TAKE k \in 1..(offset + i)
        <4>1. CASE k <= offset
          BY <3>1, <3>4, <3>5, <3>6, <4>1 DEF Bytes
        <4>2. CASE k > offset
          <5>1. (old \o buf)[k] = buf[k - offset]
            BY <3>1, <3>4, <3>5, <3>6, <4>2 DEF Bytes
          <5>2. k - offset \in 1..i /\ offset + (k - offset) - 1 = k - 1
            BY <3>4, <4>2
          <5>3. buf[k - offset] = cell(offset + (k - offset) - 1)
            BY <3>6, <5>2
          <5> QED BY <5>1, <5>2, <5>3
        <4>3. k <= offset \/ k > offset
          BY <3>4
        <4> QED BY <4>1, <4>2, <4>3
      <3> QED BY <2>3, <3>2, <3>7, <3>9, <3>10, <3>11 DEF PrefixIn, n, cell, FileLength
    <2> QED BY <2>2, <2>3
  <1> QED BY <1>1, <1>5, <1>6, <1>7, <1>8, NoRead, TypeParts DEF FSInv
\* read of a regular file starts: nothing is stored yet.
LEMMA StartInv ==
    ASSUME FSInv, NEW f \in Fds, NEW n \in Nat, FileReadNothing(f) \/ FileRead(f, n) PROVE FSInv'
  <1>0. TableTypeOK /\ CallTypeOK /\ LoopTypeOK /\ OpenFiles /\ ReadsFormPrefix
    BY TypeParts DEF FSInv
  <1>1. PICK m \in Nat : /\ StartRead(f, m)
                         /\ \/ pc' = "finish" /\ ret' = -1 /\ m = 0
                            \/ pc' = "enter" /\ ret' = 0 /\ m > 0
    BY DEF FileReadNothing, FileRead
  <1>2. /\ pc = "user" /\ file_array[f].filetype = Regular
        /\ fd' = f /\ inode' = file_array[f].inode /\ offset' = file_array[f].fileposition
        /\ length' = m /\ i' = 0 /\ buf' = <<>>
        /\ read_data_block' = offset' \div FS_UNIT_SIZE /\ read_data' = offset' % FS_UNIT_SIZE
        /\ UNCHANGED <<image, entry_counter, length_of_file, file_array, got, broken>>
    BY <1>1 DEF StartRead
  <1>3. offset' \in 0..(WordSize - 1) /\ inode' \in Nat
    BY <1>0, <1>2 DEF TableTypeOK, Entry
  <1>4. TableTypeOK' /\ CallTypeOK'
    BY <1>0, <1>2, <1>3 DEF TableTypeOK, CallTypeOK
  <1>5. LoopTypeOK'
    <2>1. offset' \in Nat
      BY <1>3, Sizes
    <2>2. read_data_block' \in Nat /\ read_data' \in 0..(FS_UNIT_SIZE - 1)
      BY <1>2, <2>1, OffsetSplit, Sizes
    <2> QED BY <1>1, <1>2, <2>2, Sizes DEF LoopTypeOK, Labels
  <1>6. OpenFiles'
    BY <1>0, <1>2 DEF OpenFiles
  <1>7. ReadsFormPrefix'
    BY <1>0, <1>2, PrefixParts
  <1>8. Stored' /\ ReadLoop' /\ FailureHasBadBlock'
    <2>1. StoredIn(image', inode', offset', length', i', buf')
      BY <1>2 DEF StoredIn
    <2>2. Stored'
      BY <2>1, StoredParts
    <2>3. pc' = "finish" => Refused(inode, offset, length)' /\ ret' = -1
      BY <1>1, <1>2 DEF Refused
    <2> QED BY <1>1, <1>2, <2>2, <2>3 DEF ReadLoop, FailureHasBadBlock
  <1> QED BY <1>4, <1>5, <1>6, <1>7, <1>8, TypeParts DEF FSInv

-----------------------------------------------------------------------------
(* The kernel's own reads, and handlers *)

\* They change length_of_file, and the result while it is in %eax.
LEMMA GlobalInv ==
    ASSUME FSInv, length_of_file' \in Nat,
           pc # "user" => length_of_file' \in {length_of_file, 0} \cup TestLengths,
           UNCHANGED <<image, entry_counter, file_array, got, pc, fd, inode, offset,
                       length, i, read_data_block, read_data, buf>>,
           \/ UNCHANGED <<ret, broken>>
           \/ pc = "finish" /\ ret' \in Eoi /\ broken' = broken \cup {fd}
    PROVE  FSInv'
  <1>0. /\ TableTypeOK /\ CallTypeOK /\ LoopTypeOK /\ OpenFiles /\ ReadsFormPrefix
        /\ Stored /\ ReadLoop /\ FailureHasBadBlock
    BY TypeParts DEF FSInv
  <1>1. ret' \in Int /\ broken' \subseteq Fds /\ (ret' = ret \/ ret' # -1)
    <2>1. ret \in Int /\ broken \subseteq Fds /\ fd \in Fds
      BY <1>0 DEF TableTypeOK, CallTypeOK, LoopTypeOK
    <2>2. ret' = ret \/ ret' \in Nat
      BY Sizes
    <2> QED BY <2>1, <2>2
  <1>2. TableTypeOK' /\ CallTypeOK' /\ LoopTypeOK'
    BY <1>0, <1>1 DEF TableTypeOK, CallTypeOK, LoopTypeOK
  <1>3. OpenFiles'
    BY <1>0 DEF OpenFiles
  <1>4. ReadsFormPrefix'
    BY <1>0, PrefixesKept
  <1>5. Stored'
    BY <1>0, StoredParts
  <1>6. /\ FileLength(inode)' = FileLength(inode)
        /\ Available(inode, offset, length)' = Available(inode, offset, length)
        /\ TestLengths' = TestLengths
        /\ Refused(inode, offset, length)' <=> Refused(inode, offset, length)
        /\ InImage(inode, read_data_block)' <=> InImage(inode, read_data_block)
    BY AvailableKept, BadBlockKept DEF InImage, BlockOf
  <1>7. FailureHasBadBlock'
    BY <1>0, <1>1, <1>6 DEF FailureHasBadBlock
  <1>8. ReadLoop'
    <2>1. pc' = "result" => /\ i' = Available(inode, offset, length)'
                            /\ length_of_file' \in {i', 0} \cup TestLengths'
      BY <1>0, <1>6 DEF ReadLoop
    <2>2. (pc' = "finish" /\ ~Refused(inode, offset, length)') =>
             /\ i' = Available(inode, offset, length)'
             /\ ret' \in {i', 0} \cup TestLengths' \cup Eoi
      BY <1>0, <1>6 DEF ReadLoop
    <2>3. (pc' = "finish" /\ fd' \notin broken' /\ ret' # -1) =>
             i' = Available(inode, offset, length)'
      BY <1>0, <1>6 DEF ReadLoop
    <2>4. /\ pc' = "enter" => /\ length' > 0 /\ i' = 0
                              /\ read_data_block' = offset' \div FS_UNIT_SIZE
                              /\ read_data' = offset' % FS_UNIT_SIZE
          /\ pc' \in {"next", "copy"} =>
                /\ offset' < FileLength(inode)' /\ offset' + i' <= FileLength(inode)'
                /\ offset' + i' = read_data_block' * FS_UNIT_SIZE + read_data'
                /\ InImage(inode, read_data_block)'
          /\ pc' = "copy" => i' < length' /\ read_data' < FS_UNIT_SIZE
      BY <1>0, <1>6 DEF ReadLoop
    <2> QED BY <2>1, <2>2, <2>3, <2>4 DEF ReadLoop, Eoi
  <1> QED BY <1>2, <1>3, <1>4, <1>5, <1>7, <1>8, TypeParts DEF FSInv

\* check_executable and file_load of any name.
LEMMA KernelReadsInv ==
    ASSUME FSInv, \E fname : CheckExecutable(fname) \/ FileLoad(fname) PROVE FSInv'
  <1>1. PICK fname : CheckExecutable(fname) \/ FileLoad(fname)
    OBVIOUS
  <1> DEFINE n == DentryOf(fname).inode
  <1>2. pc = "user" /\ Found(fname) /\ image \in Images /\ length_of_file \in Nat
    BY <1>1 DEF CheckExecutable, FileLoad, FSInv, FSTypeOK
  <1>3. n \in Nat /\ n < image.inodes_num
    BY <1>2, InodeOfFound
  <1>4. MagicSize \in Nat /\ FileLength(n) \in Nat
    BY <1>2, <1>3, InodeFacts, FileSystemAssumption
  <1>5. PICK m \in Nat : KernelRead(n, m)
    BY <1>1, <1>4 DEF CheckExecutable, FileLoad
  <1> HIDE DEF n
  <1>6. LengthAfter(n, 0, m) \in Nat
    BY <1>2, <1>3, LengthAfterFacts
  <1> QED BY <1>2, <1>5, <1>6, GlobalInv DEF KernelRead, readVars

\* files_test during a read, and any handler at its end.
LEMMA HandlerInv == ASSUME FSInv, FilesTest \/ \E eoi \in Eoi : Interrupt(eoi) PROVE FSInv'
  <1>0. image \in Images /\ length_of_file \in Nat
    BY DEF FSInv, FSTypeOK
  <1>1. ASSUME NEW eoi \in Eoi, InEax(eoi)
        PROVE  \/ UNCHANGED <<ret, broken>>
               \/ pc = "finish" /\ ret' \in Eoi /\ broken' = broken \cup {fd}
    BY <1>1 DEF InEax
  <1>2. CASE FilesTest
    <2>1. EoiKey \in Eoi
      BY DEF Eoi
    <2>2. ASSUME NEW n \in TestInodes, length_of_file' = LengthAfter(n, 0, FileLength(n))
          PROVE  length_of_file' \in Nat /\ length_of_file' \in {length_of_file, 0} \cup TestLengths
      <3>1. n \in Nat /\ n < image.inodes_num
        BY <1>0, TestInodeFacts
      <3>2. FileLength(n) \in Nat /\ FileLength(n) \in TestLengths
        BY <1>0, <3>1, InodeFacts DEF TestLengths
      <3>3. LengthAfter(n, 0, FileLength(n)) \in {length_of_file, 0, FileLength(n)}
        BY <1>0, <3>1, LengthAfterFacts
      <3> QED BY <1>0, <2>2, <3>2, <3>3
    <2>3. length_of_file' \in Nat /\ length_of_file' \in {length_of_file, 0} \cup TestLengths
      BY <1>0, <1>2, <2>2 DEF FilesTest
    <2>4. /\ UNCHANGED <<image, entry_counter, file_array, got, pc, fd, inode, offset,
                         length, i, read_data_block, read_data, buf>>
          /\ InEax(EoiKey)
      BY <1>2 DEF FilesTest
    <2> QED BY <1>1, <2>1, <2>3, <2>4, GlobalInv
  <1>3. ASSUME NEW eoi \in Eoi, Interrupt(eoi) PROVE FSInv'
    <2>1. /\ UNCHANGED <<image, entry_counter, length_of_file, file_array, got, pc, fd, inode,
                         offset, length, i, read_data_block, read_data, buf>>
          /\ InEax(eoi)
      BY <1>3 DEF Interrupt
    <2> QED BY <1>0, <1>1, <2>1, GlobalInv
  <1> QED BY <1>2, <1>3

-----------------------------------------------------------------------------
(* The invariant, and what follows from it *)

LEMMA ReadStepInv == ASSUME FSInv, ReadStep PROVE FSInv'
  BY EnterInv, NextInv, CopyInv, ResultInv, FinishInv DEF ReadStep

\* A step of something else leaves the file system alone.
LEMMA StutterInv == ASSUME FSInv, UNCHANGED fsVars PROVE FSInv'
  <1>1. UNCHANGED <<image, entry_counter, length_of_file, file_array, got, broken, pc, fd,
                    inode, offset, length, i, read_data_block, read_data, buf, ret>>
    BY DEF fsVars, readVars
  <1>2. length_of_file' \in Nat
    BY <1>1 DEF FSInv, FSTypeOK
  <1> QED BY <1>1, <1>2, GlobalInv

\* Every step of any program, of read_data and of the kernel preserves FSInv.
LEMMA StepInv == FSInv /\ [FSNext]_fsVars => FSInv'
  <1> SUFFICES ASSUME FSInv, [FSNext]_fsVars PROVE FSInv'
    OBVIOUS
  <1>1. ASSUME NEW f \in Fds, NEW name \in Names, Open(f, name) PROVE FSInv'
    BY <1>1, OpenInv
  <1>2. ASSUME NEW f \in Fds, Close(f) \/ FileReadNothing(f) \/ ReadDisturbed(f) PROVE FSInv'
    BY <1>2, CloseInv, StartInv, OtherReadInv
  <1>3. CASE CloseAll
    BY <1>3, CloseInv
  <1>4. ASSUME NEW f \in Fds, NEW n \in ReadSizes, ReadCall(f, n) PROVE FSInv'
    <2>1. n \in Nat
      BY FileSystemAssumption
    <2> QED BY <1>4, <2>1, OtherReadInv, StartInv DEF ReadCall
  <1>5. CASE ReadStep
    BY <1>5, ReadStepInv
  <1>6. CASE \E fname \in Names : CheckExecutable(fname) \/ FileLoad(fname)
    BY <1>6, KernelReadsInv
  <1>7. CASE FilesTest \/ \E eoi \in Eoi : Interrupt(eoi)
    BY <1>7, HandlerInv
  <1>8. CASE UNCHANGED fsVars
    BY <1>8, StutterInv
  <1> QED BY <1>1, <1>2, <1>3, <1>4, <1>5, <1>6, <1>7, <1>8 DEF FSNext

\* FSInv holds in every state of the file system, whatever the programs do.
THEOREM Invariance == FSSpec => []FSInv
  BY InitInv, StepInv, PTL DEF FSSpec
\* A read's position stays in its block, a descriptor's in its word, and every
\* variable of files.c keeps its type.
THEOREM TypeCorrect == FSSpec => []FSTypeOK
  <1>1. FSInv => FSTypeOK
    BY DEF FSInv
  <1> QED BY <1>1, Invariance, PTL

\* What the invariant says of a byte about to be copied.
LEMMA InvInImage == FSInv => ReadInImage
  <1> SUFFICES ASSUME FSInv PROVE ReadInImage
    OBVIOUS
  <1>1. pc # "user" => Len(buf) = i /\ i <= length
    BY DEF FSInv, Stored
  <1>2. pc = "copy" /\ i + offset < FileLength(inode) =>
           /\ read_data_block < BlockEntries /\ InImage(inode, read_data_block)
           /\ read_data < FS_UNIT_SIZE /\ i < length
    BY CopyFacts
  <1> QED BY <1>1, <1>2 DEF ReadInImage

\* read_data takes bytes from the file's blocks in the image only and stores at
\* most as many as it was asked for.
THEOREM ReadStaysInImage == FSSpec => []ReadInImage
  BY InvInImage, Invariance, PTL

LEMMA InvExact == FSInv => ReadExact
  BY DEF FSInv, Stored, ReadLoop, ReadExact

\* A read whose block numbers are good has stored the bytes of the file it was to
\* store, whatever handlers came in; the count is theirs, one files_test left
\* (files.c:138-143) or an EOI byte (handler.S:147-153).
THEOREM ReadCorrect == FSSpec => []ReadExact
  BY InvExact, Invariance, PTL

\* read_data fails only for a block number that is out of range.
THEOREM FailureCorrect == FSSpec => []FailureHasBadBlock
  <1>1. FSInv => FailureHasBadBlock
    BY DEF FSInv
  <1> QED BY <1>1, Invariance, PTL

\* Successive reads of a descriptor return the file from its start on.
THEOREM ReadsCorrect == FSSpec => []ReadsFormPrefix
  <1>1. FSInv => ReadsFormPrefix
    BY DEF FSInv
  <1> QED BY <1>1, Invariance, PTL

-----------------------------------------------------------------------------
(* The end of a read *)

\* How many steps of its own a read takes at most until it returns.
StepsLeft ==
    CASE pc = "user" -> 0
      [] pc = "finish" -> 1
      [] pc = "result" -> 2
      [] pc = "copy" -> 2 * (length - i) + 2
      [] pc = "next" -> 2 * (length - i) + 3
      [] pc = "enter" -> 2 * length + 4

\* Each of these steps counts, and nothing else that happens during a read,
\* interrupts included, changes how many are left.
ReadGoesOn ==
    pc # "user" =>
        /\ StepsLeft \in 1..(2 * length + 4)
        /\ IF ReadStep THEN StepsLeft' < StepsLeft ELSE StepsLeft' = StepsLeft

LEMMA StepsLeftFacts ==
    ASSUME FSInv, pc # "user"
    PROVE  /\ pc \in {"enter", "next", "copy", "result", "finish"}
           /\ length \in Nat /\ i \in Nat /\ i <= length /\ (pc = "copy" => i < length)
           /\ pc = "enter" => i = 0
           /\ StepsLeft \in 1..(2 * length + 4)
  <1>1. pc \in {"enter", "next", "copy", "result", "finish"}
    BY DEF FSInv, FSTypeOK, Labels
  <1>2. /\ length \in Nat /\ i \in Nat /\ i <= length /\ (pc = "copy" => i < length)
        /\ pc = "enter" => i = 0
    BY ReadFacts DEF FSInv, Stored, ReadLoop
  <1>3. StepsLeft \in 1..(2 * length + 4)
    BY <1>1, <1>2 DEF StepsLeft
  <1> QED BY <1>1, <1>2, <1>3

LEMMA ReadStepCounts ==
    ASSUME FSInv, ReadStep PROVE pc # "user" /\ StepsLeft' < StepsLeft
  <1>1. pc # "user"
    BY DEF ReadStep, EnterPastEnd, EnterBadBlock, Enter, LoopEnds, SameBlock, NextBlock,
           NextBlockBad, EndOfFile, CopyByte, LoadResult, Finish, ReturnNow, Step
  <1>2. /\ length \in Nat /\ i \in Nat /\ i <= length /\ (pc = "copy" => i < length)
        /\ pc = "enter" => i = 0
    BY <1>1, StepsLeftFacts
  <1>3. CASE EnterPastEnd \/ EnterBadBlock \/ NextBlockBad
    <2>1. pc \in {"enter", "next"} /\ pc' = "finish"
      BY <1>3 DEF EnterPastEnd, EnterBadBlock, NextBlockBad, ReturnNow, Step
    <2> QED BY <1>2, <2>1 DEF StepsLeft
  <1>4. CASE Enter
    <2>1. pc = "enter" /\ pc' = "next" /\ i' = i /\ length' = length
      BY <1>4 DEF Enter, Step
    <2> QED BY <1>2, <2>1 DEF StepsLeft
  <1>5. CASE LoopEnds \/ EndOfFile
    <2>1. pc \in {"next", "copy"} /\ pc' = "result"
      BY <1>5 DEF LoopEnds, EndOfFile, Step
    <2> QED BY <1>2, <2>1 DEF StepsLeft
  <1>6. CASE SameBlock \/ NextBlock
    <2>1. pc = "next" /\ pc' = "copy" /\ i' = i /\ length' = length
      BY <1>6 DEF SameBlock, NextBlock, Step
    <2> QED BY <1>2, <2>1 DEF StepsLeft
  <1>7. CASE CopyByte
    <2>1. pc = "copy" /\ pc' = "next" /\ i' = i + 1 /\ length' = length
      BY <1>7 DEF CopyByte, Step
    <2> QED BY <1>2, <2>1 DEF StepsLeft
  <1>8. CASE LoadResult
    <2>1. pc = "result" /\ pc' = "finish"
      BY <1>8 DEF LoadResult, Step
    <2> QED BY <2>1 DEF StepsLeft
  <1>9. CASE Finish
    <2>1. pc = "finish" /\ pc' = "user"
      BY <1>9 DEF Finish
    <2> QED BY <2>1 DEF StepsLeft
  <1> QED BY <1>1, <1>3, <1>4, <1>5, <1>6, <1>7, <1>8, <1>9 DEF ReadStep

\* Only read_data itself and handlers run during a read.
LEMMA DuringRead ==
    ASSUME [FSNext]_fsVars, pc # "user", ~ReadStep PROVE UNCHANGED <<pc, i, length>>
  <1>1. CASE FilesTest
    BY <1>1 DEF FilesTest
  <1>2. CASE \E eoi \in Eoi : Interrupt(eoi)
    BY <1>2 DEF Interrupt
  <1>3. CASE UNCHANGED fsVars
    BY <1>3 DEF fsVars, readVars
  <1> QED BY <1>1, <1>2, <1>3 DEF FSNext, Open, Close, CloseAll, FileReadNothing, ReadCall,
             DirectoryRead, RtcRead, FileRead, StartRead, CheckExecutable, FileLoad,
             ReadDisturbed, DirectoryDisturbed, RtcDisturbed, RtcReturns

\* Whatever interrupts it, a read of n bytes returns after at most 2n + 4 of its
\* own steps (read_data of files.c): the loop never copies a byte twice or waits.
THEOREM ReadNearsEnd == FSSpec => [][ReadGoesOn]_fsVars
  <1>1. FSInv /\ [FSNext]_fsVars => [ReadGoesOn]_fsVars
    <2> SUFFICES ASSUME FSInv, [FSNext]_fsVars, pc # "user"
                 PROVE  /\ StepsLeft \in 1..(2 * length + 4)
                        /\ IF ReadStep THEN StepsLeft' < StepsLeft ELSE StepsLeft' = StepsLeft
      BY DEF ReadGoesOn
    <2>1. StepsLeft \in 1..(2 * length + 4)
      BY StepsLeftFacts
    <2>2. ReadStep => StepsLeft' < StepsLeft
      BY ReadStepCounts
    <2>3. ~ReadStep => StepsLeft' = StepsLeft
      BY DuringRead DEF StepsLeft
    <2> QED BY <2>1, <2>2, <2>3
  <1> QED BY <1>1, Invariance, PTL DEF FSSpec

-----------------------------------------------------------------------------
(* The lookup *)

\* strncmp on the longer length of two names, one of which is shorter than its
\* field, returns 0 for equal names only: the first byte that differs comes
\* before either's terminator or is it.
LEMMA MatchIsEquality ==
    ASSUME NEW d \in Dentry, NEW name \in Seq(Char), Len(d.filename) < NameSize
    PROVE  NameMatches(d, name) <=> d.filename = name
  <1> DEFINE w == d.filename
             m == IF Len(name) > Len(w) THEN Len(name) ELSE Len(w)
             D == {j \in 0..(m - 1) : FieldByte(d, j) # StringByte(name, j)}
  <1>0. /\ w \in Seq(Char) /\ Len(w) \in Nat /\ Len(name) \in Nat /\ m \in Nat
        /\ NameSize \in Nat /\ NUL \notin Char /\ TypeByte \notin Char
    BY FileSystemAssumption DEF Dentry
  <1>1. NameMatches(d, name) <=> StrncmpZero(d, name, m)
    <2>1. FieldLength(d) = Len(w)
      BY <1>0 DEF FieldLength
    <2> QED BY <2>1 DEF NameMatches
  <1>2. \A j \in Nat : /\ j < Len(w) => FieldByte(d, j) = w[j + 1] /\ FieldByte(d, j) \in Char
                       /\ j >= Len(w) => FieldByte(d, j) \in {NUL, TypeByte}
                       /\ j < Len(name) => /\ StringByte(name, j) = name[j + 1]
                                            /\ StringByte(name, j) \in Char
                       /\ j >= Len(name) => StringByte(name, j) = NUL
    <2> TAKE j \in Nat
    <2>1. j < Len(w) => w[j + 1] \in Char
      BY <1>0
    <2>2. j < Len(name) => name[j + 1] \in Char
      BY <1>0
    <2> QED BY <1>0, <2>1, <2>2 DEF FieldByte, StringByte
  <1>3. ASSUME w = name PROVE StrncmpZero(d, name, m)
    BY <1>0, <1>2, <1>3 DEF StrncmpZero
  <1>4. ASSUME w # name PROVE ~StrncmpZero(d, name, m)
    <2>1. D # {}
      <3>1. CASE Len(w) = Len(name)
        <4>1. PICK j \in 1..Len(w) : w[j] # name[j]
          BY <1>0, <1>4, <3>1
        <4>2. j - 1 \in 0..(m - 1) /\ j - 1 < Len(w) /\ j - 1 < Len(name) /\ (j - 1) + 1 = j
              /\ j - 1 \in Nat
          BY <1>0, <3>1
        <4>3. FieldByte(d, j - 1) # StringByte(name, j - 1)
          BY <1>2, <4>1, <4>2
        <4> QED BY <4>2, <4>3
      <3>2. CASE Len(w) < Len(name)
        <4>1. Len(w) \in 0..(m - 1)
          BY <1>0, <3>2
        <4>2. FieldByte(d, Len(w)) # StringByte(name, Len(w))
          BY <1>0, <1>2, <3>2
        <4> QED BY <4>1, <4>2
      <3>3. CASE Len(w) > Len(name)
        <4>1. Len(name) \in 0..(m - 1)
          BY <1>0, <3>3
        <4>2. FieldByte(d, Len(name)) # StringByte(name, Len(name))
          BY <1>0, <1>2, <3>3
        <4> QED BY <4>1, <4>2
      <3> QED BY <1>0, <3>1, <3>2, <3>3
    <2>2. D \in SUBSET Nat
      BY <1>0
    <2> DEFINE j == FirstOf(D)
    <2>3. j \in D /\ \A e \in D : j <= e
      BY <2>1, <2>2, FirstExists
    <2>4. j \in 0..(m - 1) /\ FieldByte(d, j) # StringByte(name, j)
      BY <2>3
    <2> HIDE DEF j
    <2>5. ASSUME NEW k \in 0..(j - 1)
          PROVE  FieldByte(d, k) = StringByte(name, k) /\ FieldByte(d, k) # NUL
      <3>1. k \in Nat /\ k \in 0..(m - 1) /\ k < j
        BY <1>0, <2>4
      <3>2. k \notin D
        BY <1>0, <2>2, <2>3, <2>4, <3>1
      <3>3. FieldByte(d, k) = StringByte(name, k)
        BY <3>1, <3>2
      <3>4. k < Len(name) \/ k < Len(w)
        BY <1>0, <3>1
      <3> QED BY <1>0, <1>2, <3>1, <3>3, <3>4
    <2> QED BY <2>4, <2>5 DEF StrncmpZero
  <1> QED BY <1>1, <1>3, <1>4

LEMMA InvLookup == FSInv => LookupExact
  <1> SUFFICES ASSUME FSInv, NEW name \in Names, name # <<>>
               PROVE  {d \in Candidates(name) : Len(image.dentries[d].filename) < NameSize}
                        = {d \in DentryIndex : /\ image.dentries[d].filename = name
                                               /\ Len(name) < NameSize}
    BY DEF LookupExact
  <1>1. image \in Images /\ name \in Seq(Char)
    BY FileSystemAssumption DEF FSInv, FSTypeOK
  <1>2. ASSUME NEW d \in DentryIndex, Len(image.dentries[d].filename) < NameSize
        PROVE  NameMatches(image.dentries[d], name) <=> image.dentries[d].filename = name
    BY <1>1, <1>2, DentryFacts, MatchIsEquality
  <1> QED BY <1>2 DEF Candidates

\* read_dentry_by_name finds a name shorter than its field under exactly that
\* name.
THEOREM LookupCorrect == FSSpec => []LookupExact
  BY InvLookup, Invariance, PTL
=============================================================================
