----------------------------- MODULE FileSystem -----------------------------
(***************************************************************************)
(* The read-only file system of files.c and the part of read, open and     *)
(* close (systemcall.c) that keeps a position in a file.  read runs with   *)
(* interrupts on, so read_data is a loop of several steps.  The handlers   *)
(* have two ways into this state: Control-1, whose files_test reads a file *)
(* of its own and leaves its length in the global length_of_file, and      *)
(* %eax, in which a clock or keyboard handler leaves its last EOI byte     *)
(* (handler.S) where a result or the directory's position had been.        *)
(*                                                                         *)
(* A string is the sequence of its characters; a directory entry keeps it  *)
(* in NameSize bytes, without a terminator if it fills them.               *)
(***************************************************************************)
EXTENDS Integers, Sequences

CONSTANTS
    FS_UNIT_SIZE,      \* bytes in a block (4096)
    SIZE_FS_DENTRIES,  \* entries in the boot block (63)
    NameSize,          \* bytes of a file name (32)
    BlockEntries,      \* data block numbers in an inode (1023)
    WordSize,          \* values of a uint32_t
    Char,              \* bytes a name can have
    NUL,               \* the zero byte
    TypeByte,          \* the low byte of a filetype that is not zero
    Byte,              \* bytes a file can have
    Images,            \* images the boot loader may have loaded
    TestFile,          \* "frame0.txt"
    Fds,               \* descriptors of the process that reads
    EoiKey, EoiClock,  \* what the handlers leave in %eax (0x61, 0x62)
    MagicSize,         \* bytes check_executable looks at (4)
    Names,             \* names programs pass to open, "stdin" and "stdout"
                       \* excepted (Process has those)
    ReadSizes          \* sizes they pass to read

Rtc == 0
Directory == 1
Regular == 2
DentryIndex == 0..(SIZE_FS_DENTRIES - 1)
Dentry == [filename : Seq(Char), filetype : {Rtc, Directory, Regular}, inode : Nat]
Inode == [length : Nat,
          data_blocks : [0..BlockEntries -> Nat]]  \* the last: the word behind it

\* What createfs writes.  Block numbers may be wrong: read_data checks them.
ImageOK(img) ==
    /\ img.dentries_num \in 0..SIZE_FS_DENTRIES
    /\ img.inodes_num \in Nat
    /\ img.datablocks_num \in Nat
    /\ img.dentries \in [DentryIndex -> Dentry]
    /\ \A d \in DentryIndex : /\ Len(img.dentries[d].filename) <= NameSize
                              /\ img.dentries[d].inode < img.inodes_num
    /\ img.inodes \in [0..(img.inodes_num - 1) -> Inode]
    /\ \A n \in 0..(img.inodes_num - 1) :
          /\ img.inodes[n].length <= BlockEntries * FS_UNIT_SIZE
          /\ img.inodes[n].length < WordSize
    /\ img.data \in [0..(img.datablocks_num - 1) -> [0..(FS_UNIT_SIZE - 1) -> Byte]]

ASSUME FileSystemAssumption ==
    /\ FS_UNIT_SIZE \in Nat \ {0}
    /\ SIZE_FS_DENTRIES \in Nat \ {0}
    /\ NameSize \in Nat \ {0}
    /\ BlockEntries \in Nat \ {0}
    /\ WordSize \in Nat \ {0}
    /\ NUL \notin Char /\ TypeByte \notin Char /\ TypeByte # NUL
    /\ \A img \in Images : ImageOK(img)
    /\ Names \subseteq Seq(Char)
    /\ TestFile \in Seq(Char)
    /\ MagicSize \in Nat /\ ReadSizes \subseteq Nat
    /\ {EoiKey, EoiClock} \subseteq Nat
    /\ \A e \in {EoiKey, EoiClock} : SIZE_FS_DENTRIES < e /\ NameSize < e

VARIABLES
    image,           \* what my_boot_block, dentries, inodes and st_data describe
    entry_counter,   \* the next entry directory_read returns
    length_of_file,  \* int length_of_file
    file_array,      \* descriptor -> file and position, or Closed
    pc,              \* where the read is; "user": there is none
    fd, inode, offset, length,          \* its parameters
    i, read_data_block, read_data,      \* the locals of read_data
    buf,             \* the bytes stored in the caller's buffer
    ret,             \* the value being returned
    got,             \* history: descriptor -> bytes its reads have returned
    broken           \* history: descriptors a read of which a handler disturbed
                     \* or returned something else than the bytes it stored

readVars == <<pc, fd, inode, offset, length, i, read_data_block, read_data, buf, ret>>
fsVars == <<image, entry_counter, length_of_file, file_array, readVars, got, broken>>

Eoi == {EoiKey, EoiClock}
Closed == [filetype |-> -1, inode |-> 0, fileposition |-> 0]

FileLength(n) == image.inodes[n].length
BlockOf(n, b) == image.inodes[n].data_blocks[b]
InImage(n, b) == BlockOf(n, b) < image.datablocks_num

\* The file an inode describes: byte k is in the block its number selects.
FileByte(n, k) == image.data[BlockOf(n, k \div FS_UNIT_SIZE)][k % FS_UNIT_SIZE]

\* How many bytes a read of n bytes at offset o of a file has to deliver.
Available(ino, o, n) ==
    IF o >= FileLength(ino) THEN 0
    ELSE IF n <= FileLength(ino) - o THEN n ELSE FileLength(ino) - o

\* The block entries such a read looks at, one behind the file's last included
\* when the file ends on a block boundary and the read does not end there.
Looked(ino, o, n) ==
    {b \in 0..BlockEntries : /\ b * FS_UNIT_SIZE < o + n /\ o < (b + 1) * FS_UNIT_SIZE
                             /\ b * FS_UNIT_SIZE <= FileLength(ino)}

\* The reads read_data refuses: one of these block numbers is out of range.
Refused(ino, o, n) ==
    n = 0 \/ (o < FileLength(ino) /\ \E b \in Looked(ino, o, n) : ~InImage(ino, b))

-----------------------------------------------------------------------------
(* Looking a name up *)

\* The bytes from a directory entry's filename on, and of a C string.
FieldByte(d, j) ==
    IF j < Len(d.filename) THEN d.filename[j + 1]
    ELSE IF j = NameSize /\ d.filetype # Rtc THEN TypeByte ELSE NUL
StringByte(s, j) == IF j < Len(s) THEN s[j + 1] ELSE NUL

\* strlen: a name that fills its field goes on in the filetype.
FieldLength(d) ==
    IF Len(d.filename) = NameSize /\ d.filetype # Rtc THEN NameSize + 1
    ELSE Len(d.filename)

\* strncmp(dentry's filename, s, n) == 0: no byte differs before a terminator.
StrncmpZero(d, s, n) ==
    ~ \E j \in 0..(n - 1) :
          /\ FieldByte(d, j) # StringByte(s, j)
          /\ \A k \in 0..(j - 1) : /\ FieldByte(d, k) = StringByte(s, k)
                                   /\ FieldByte(d, k) # NUL

\* Wrong: as many bytes as the name asked for has, so a prefix is found.
NameMatchesPrefix(d, fname) == StrncmpZero(d, fname, Len(fname))

\* The names are compared on as many bytes as the longer one has.
NameMatches(d, fname) ==
    StrncmpZero(d, fname,
                IF Len(fname) > FieldLength(d) THEN Len(fname) ELSE FieldLength(d))

\* read_dentry_by_name: the entries the loop can stop at, all of the boot block
\* searched; the empty name is refused.
Candidates(fname) ==
    {d \in DentryIndex : fname # <<>> /\ NameMatches(image.dentries[d], fname)}
FirstOf(S) == CHOOSE d \in S : \A e \in S : d <= e
Found(fname) == Candidates(fname) # {}
DentryOf(fname) == image.dentries[FirstOf(Candidates(fname))]

-----------------------------------------------------------------------------
(* filesystem_init, open and close *)

\* filesystem_init with a module; boot checks that there is one.
FilesystemInit ==
    /\ image \in Images
    /\ entry_counter = 0

FSInit ==
    /\ FilesystemInit
    /\ length_of_file = 0
    /\ file_array = [f \in Fds |-> Closed]
    /\ pc = "user"
    /\ fd \in Fds
    /\ inode = 0 /\ offset = 0 /\ length = 0
    /\ i = 0 /\ read_data_block = 0 /\ read_data = 0
    /\ buf = <<>> /\ ret = 0
    /\ got = [f \in Fds |-> <<>>] /\ broken = {}

Opened(d) == [filetype |-> d.filetype, inode |-> d.inode, fileposition |-> 0]

Open(f, name) ==
    /\ pc = "user"
    /\ file_array[f] = Closed
    /\ Found(name)
    /\ file_array' = [file_array EXCEPT ![f] = Opened(DentryOf(name))]
    /\ got' = [got EXCEPT ![f] = <<>>] /\ broken' = broken \ {f}
    /\ UNCHANGED <<image, entry_counter, length_of_file, readVars>>

Close(f) ==
    /\ pc = "user"
    /\ file_array' = [file_array EXCEPT ![f] = Closed]
    /\ got' = [got EXCEPT ![f] = <<>>] /\ broken' = broken \ {f}
    /\ UNCHANGED <<image, entry_counter, length_of_file, readVars>>

\* A program halts, its buffers are gone; the next one in its slot gets a fresh
\* table.
CloseAll ==
    /\ pc = "user"
    /\ file_array' = [f \in Fds |-> Closed]
    /\ buf' = <<>> /\ ret' = 0
    /\ got' = [f \in Fds |-> <<>>] /\ broken' = {}
    /\ UNCHANGED <<image, entry_counter, length_of_file, pc, fd, inode, offset,
                   length, i, read_data_block, read_data>>

-----------------------------------------------------------------------------
(* read of a directory *)

\* directory_read hands out entry_counter's name, whoever asks; it stores
\* NameSize + 1 bytes, the terminators included, whatever the caller's size is.
DirectoryEnd == image.dentries_num <= entry_counter
NextName == image.dentries[entry_counter].filename

\* Wrong: the end of the directory does not start it again.
NextEntryStays == IF DirectoryEnd THEN entry_counter ELSE entry_counter + 1

NextEntry == IF DirectoryEnd THEN 0 ELSE entry_counter + 1

\* Wrong: the position stays.
AdvanceNot(f, bytes) == UNCHANGED file_array

\* fileposition moves by whatever the operation returned, -1 included.
Advance(f, bytes) ==
    file_array' = [file_array EXCEPT ![f].fileposition = (@ + bytes) % WordSize]

DirectoryRead(f) ==
    /\ pc = "user"
    /\ file_array[f].filetype = Directory
    /\ fd' = f
    /\ buf' = IF DirectoryEnd THEN <<>> ELSE NextName
    /\ ret' = Len(buf')
    /\ entry_counter' = NextEntry
    /\ Advance(f, ret')
    /\ UNCHANGED <<image, length_of_file, pc, inode, offset, length, i,
                   read_data_block, read_data, got, broken>>

\* A handler comes in while the position is in %eax: to be compared, where an
\* EOI byte counts as the end, or to be incremented; or while the result is.
DirectoryDisturbed(f) ==
    /\ pc = "user"
    /\ file_array[f].filetype = Directory
    /\ fd' = f
    /\ \/ buf' = <<>> /\ entry_counter' = 0
       \/ /\ ~DirectoryEnd
          /\ buf' = NextName
          /\ entry_counter' \in {entry_counter + 1} \cup Eoi \cup {e + 1 : e \in Eoi}
    /\ ret' \in {Len(buf')} \cup Eoi
    /\ Advance(f, ret')
    /\ broken' = broken \cup {f}
    /\ UNCHANGED <<image, length_of_file, pc, inode, offset, length, i,
                   read_data_block, read_data, got>>

\* rtc_read returns 0 after a tick and stores nothing.
RtcReturns(f, value) ==
    /\ pc = "user"
    /\ file_array[f].filetype = Rtc
    /\ fd' = f
    /\ buf' = <<>> /\ ret' = value
    /\ Advance(f, value)
    /\ UNCHANGED <<image, entry_counter, length_of_file, pc, inode, offset,
                   length, i, read_data_block, read_data, got>>
RtcRead(f) == RtcReturns(f, 0) /\ UNCHANGED broken
RtcDisturbed(f) == \E e \in Eoi : RtcReturns(f, e) /\ broken' = broken \cup {f}

-----------------------------------------------------------------------------
(* read of a regular file: file_read and read_data *)

\* The parameters of file_read and the locals of read_data.
StartRead(f, n) ==
    /\ pc = "user"
    /\ file_array[f].filetype = Regular
    /\ fd' = f
    /\ inode' = file_array[f].inode
    /\ offset' = file_array[f].fileposition
    /\ length' = n
    /\ i' = 0
    /\ read_data_block' = offset' \div FS_UNIT_SIZE
    /\ read_data' = offset' % FS_UNIT_SIZE
    /\ buf' = <<>>
    /\ UNCHANGED <<image, entry_counter, length_of_file, file_array, got, broken>>

\* file_read refuses a size of zero; the file is there, as it has been opened.
FileReadNothing(f) == StartRead(f, 0) /\ pc' = "finish" /\ ret' = -1
FileRead(f, n) == n > 0 /\ StartRead(f, n) /\ pc' = "enter" /\ ret' = 0

\* A step of read_data that stores nothing in a global.
Step(from, to) ==
    /\ pc = from /\ pc' = to
    /\ UNCHANGED <<image, entry_counter, file_array, fd, inode, offset, length,
                   got, broken>>

\* Where read_data returns FAIL or 0 without going through length_of_file.
ReturnNow(from, value) ==
    /\ Step(from, "finish")
    /\ ret' = value
    /\ UNCHANGED <<i, read_data_block, read_data, buf>>

\* Wrong: the last data block counts as out of range.
EnterBadBlockEarly ==
    /\ ReturnNow("enter", -1)
    /\ offset < FileLength(inode)
    /\ BlockOf(inode, read_data_block) >= image.datablocks_num - 1
    /\ length_of_file' = 0

\* The offset is compared with the file's length first, then the block checked.
EnterPastEnd ==
    /\ ReturnNow("enter", 0)
    /\ offset >= FileLength(inode)
    /\ UNCHANGED length_of_file
EnterBadBlock ==
    /\ ReturnNow("enter", -1)
    /\ offset < FileLength(inode)
    /\ ~InImage(inode, read_data_block)
    /\ length_of_file' = 0
Enter ==
    /\ Step("enter", "next")
    /\ offset < FileLength(inode)
    /\ InImage(inode, read_data_block)
    /\ UNCHANGED <<length_of_file, i, read_data_block, read_data, buf, ret>>

\* Wrong: the next block is not checked, or not reached.
NextBlockUnchecked ==
    /\ Step("next", "copy")
    /\ i < length
    /\ read_data >= FS_UNIT_SIZE
    /\ read_data' = 0
    /\ read_data_block' = read_data_block + 1
    /\ UNCHANGED <<length_of_file, i, buf, ret>>
NextBlockSame ==
    /\ Step("next", "copy")
    /\ i < length
    /\ read_data >= FS_UNIT_SIZE
    /\ read_data' = 0
    /\ InImage(inode, read_data_block + 1)
    /\ UNCHANGED <<length_of_file, i, read_data_block, buf, ret>>

\* The loop's test, and the end of a block: the next one is looked at before
\* anything tells whether the file goes on.
LoopEnds ==
    /\ Step("next", "result")
    /\ i >= length
    /\ length_of_file' = i
    /\ UNCHANGED <<i, read_data_block, read_data, buf, ret>>
SameBlock ==
    /\ Step("next", "copy")
    /\ i < length
    /\ read_data < FS_UNIT_SIZE
    /\ UNCHANGED <<length_of_file, i, read_data_block, read_data, buf, ret>>
NextBlock ==
    /\ Step("next", "copy")
    /\ i < length
    /\ read_data >= FS_UNIT_SIZE
    /\ read_data' = 0
    /\ read_data_block' = read_data_block + 1
    /\ InImage(inode, read_data_block + 1)
    /\ UNCHANGED <<length_of_file, i, buf, ret>>
NextBlockBad ==
    /\ ReturnNow("next", -1)
    /\ i < length
    /\ read_data >= FS_UNIT_SIZE
    /\ ~InImage(inode, read_data_block + 1)
    /\ UNCHANGED length_of_file

EndOfFile ==
    /\ Step("copy", "result")
    /\ i + offset >= FileLength(inode)
    /\ length_of_file' = i
    /\ UNCHANGED <<i, read_data_block, read_data, buf, ret>>

CopyByte ==
    /\ Step("copy", "next")
    /\ i + offset < FileLength(inode)
    /\ buf' = Append(buf, image.data[BlockOf(inode, read_data_block)][read_data])
    /\ i' = i + 1
    /\ read_data' = read_data + 1
    /\ UNCHANGED <<length_of_file, read_data_block, ret>>

\* return length_of_file;
LoadResult ==
    /\ Step("result", "finish")
    /\ ret' = length_of_file
    /\ UNCHANGED <<length_of_file, i, read_data_block, read_data, buf>>

\* Back in read: the position moves, the call returns and its locals are gone.
Finish ==
    /\ pc = "finish" /\ pc' = "user"
    /\ Advance(fd, ret)
    /\ IF fd \notin broken /\ ret = Len(buf)
       THEN got' = [got EXCEPT ![fd] = @ \o buf] /\ UNCHANGED broken
       ELSE got' = [got EXCEPT ![fd] = <<>>] /\ broken' = broken \cup {fd}
    /\ inode' = 0 /\ offset' = 0 /\ length' = 0
    /\ i' = 0 /\ read_data_block' = 0 /\ read_data' = 0
    /\ UNCHANGED <<image, entry_counter, length_of_file, fd, buf, ret>>

-----------------------------------------------------------------------------
(* Reads of the kernel's own, with interrupts off *)

\* What a read_data that nothing interrupts leaves in length_of_file: nothing
\* new at the end of the file and when a block but the first is bad.
LengthAfter(ino, o, n) ==
    IF o >= FileLength(ino) THEN length_of_file
    ELSE IF ~InImage(ino, o \div FS_UNIT_SIZE) THEN 0
    ELSE IF \E b \in Looked(ino, o, n) : ~InImage(ino, b) THEN length_of_file
    ELSE Available(ino, o, n)

KernelRead(ino, n) ==
    /\ length_of_file' = LengthAfter(ino, 0, n)
    /\ UNCHANGED <<image, entry_counter, file_array, readVars, got, broken>>

\* check_executable, and file_load of a whole program.
CheckExecutable(fname) ==
    /\ pc = "user" /\ Found(fname)
    /\ KernelRead(DentryOf(fname).inode, MagicSize)
FileLoad(fname) ==
    /\ pc = "user" /\ Found(fname)
    /\ KernelRead(DentryOf(fname).inode, FileLength(DentryOf(fname).inode))

-----------------------------------------------------------------------------
(* Handlers that come in during a read of a file *)

\* The inode of TestFile.  If there is none files_test takes the number from an
\* uninitialised entry.
TestInodes == IF Found(TestFile) THEN {DentryOf(TestFile).inode} ELSE 0..(image.inodes_num - 1)
TestLengths == {FileLength(n) : n \in TestInodes}

\* The result is in %eax from the end of read_data until read has stored it.
InEax(eoi) ==
    IF pc = "finish" THEN ret' = eoi /\ broken' = broken \cup {fd}
    ELSE UNCHANGED <<ret, broken>>

\* A tick, or a key other than Control-1.  What it would find in a register
\* inside a statement of read_data is left out.
Interrupt(eoi) ==
    /\ pc = "finish"
    /\ InEax(eoi)
    /\ UNCHANGED <<image, entry_counter, length_of_file, file_array, pc, fd, inode,
                   offset, length, i, read_data_block, read_data, buf, got>>

\* Control-1: files_test reads the whole of TestFile, or nothing for an inode
\* number beyond the image's.  At other times than during a read of a file it
\* changes nothing that is used.
FilesTest ==
    /\ pc # "user"
    /\ \/ \E n \in TestInodes : length_of_file' = LengthAfter(n, 0, FileLength(n))
       \/ ~Found(TestFile) /\ length_of_file' \in {length_of_file, 0}
    /\ InEax(EoiKey)
    /\ UNCHANGED <<image, entry_counter, file_array, pc, fd, inode, offset, length, i,
                   read_data_block, read_data, buf, got>>

-----------------------------------------------------------------------------

ReadCall(f, n) == DirectoryRead(f) \/ RtcRead(f) \/ FileRead(f, n)
ReadDisturbed(f) == DirectoryDisturbed(f) \/ RtcDisturbed(f)

ReadStep ==
    \/ EnterPastEnd \/ EnterBadBlock \/ Enter
    \/ LoopEnds \/ SameBlock \/ NextBlock \/ NextBlockBad
    \/ EndOfFile \/ CopyByte \/ LoadResult \/ Finish

\* Any program.
FSNext ==
    \/ \E f \in Fds, name \in Names : Open(f, name)
    \/ \E f \in Fds : Close(f) \/ FileReadNothing(f) \/ ReadDisturbed(f)
    \/ CloseAll
    \/ \E f \in Fds, n \in ReadSizes : ReadCall(f, n)
    \/ ReadStep
    \/ \E fname \in Names : CheckExecutable(fname) \/ FileLoad(fname)
    \/ FilesTest
    \/ \E eoi \in Eoi : Interrupt(eoi)

FSSpec == FSInit /\ [][FSNext]_fsVars
-----------------------------------------------------------------------------
(* Correctness *)

Labels == {"user", "enter", "next", "copy", "result", "finish"}

\* Every variable keeps the shape its C declaration gives it; a read's
\* position stays in a block.
FSTypeOK ==
    /\ image \in Images
    /\ entry_counter \in Nat
    /\ length_of_file \in Nat
    /\ file_array \in [Fds -> [filetype : {-1, Rtc, Directory, Regular},
                              inode : Nat,
                              fileposition : 0..(WordSize - 1)]]
    /\ pc \in Labels
    /\ fd \in Fds
    /\ offset \in 0..(WordSize - 1) /\ length \in Nat
    /\ i \in Nat /\ read_data_block \in Nat /\ read_data \in 0..FS_UNIT_SIZE
    /\ inode \in Nat
    /\ buf \in Seq(Byte \cup Char) /\ ret \in Int
    /\ got \in [Fds -> Seq(Byte \cup Char)] /\ broken \subseteq Fds

\* read_data never takes a byte from outside the image's data blocks, nor one
\* through an entry behind the inode's block list, and never stores more than
\* the caller asked for, however offset, length and block boundary meet.
ReadInImage ==
    /\ pc # "user" => Len(buf) <= length
    /\ (pc = "copy" /\ i + offset < FileLength(inode)) =>
          /\ read_data_block < BlockEntries /\ InImage(inode, read_data_block)
          /\ read_data < FS_UNIT_SIZE
          /\ Len(buf) < length

\* A read whose block numbers are good has stored exactly the bytes of the file
\* from the offset on, as many as there are up to the size asked for, whatever
\* handlers came in between its statements.  The count it returns is theirs
\* unless Control-1 has put files_test's into the global length_of_file after
\* read_data stored its own, or any handler its EOI byte into %eax.
ReadExact ==
    (pc = "finish" /\ ~Refused(inode, offset, length)) =>
        /\ Len(buf) = Available(inode, offset, length)
        /\ \A k \in 1..Len(buf) : buf[k] = FileByte(inode, offset + k - 1)
        /\ ret \in {Len(buf), 0} \cup TestLengths \cup Eoi

\* A read fails only for a size of zero or because a block number is out of
\* range: one of the file's, or the one in the entry behind its last block when
\* the file ends on a block boundary and the read goes beyond its end.
FailureHasBadBlock == (pc = "finish" /\ ret = -1) => Refused(inode, offset, length)

\* What successive reads of a descriptor return, put together, is the file from
\* its start to the descriptor's position, with no gap and no repetition, as
\* long as each of them returned the number of bytes it stored and no handler
\* came in while that was in %eax.
ReadsFormPrefix ==
    \A f \in Fds :
        (file_array[f].filetype = Regular /\ f \notin broken) =>
            /\ Len(got[f]) = file_array[f].fileposition
            /\ Len(got[f]) <= FileLength(file_array[f].inode)
            /\ \A k \in 1..Len(got[f]) :
                  got[f][k] = FileByte(file_array[f].inode, k - 1)

\* A name shorter than its field is found exactly under that name, at the first
\* entry that has it: no prefix, no longer name and no unused entry matches.
LookupExact ==
    \A name \in Names \ {<<>>} :
        {d \in Candidates(name) : Len(image.dentries[d].filename) < NameSize}
            = {d \in DentryIndex : /\ image.dentries[d].filename = name
                                   /\ Len(name) < NameSize}

\* What these rest on.  An open file has an inode, and a read works on that of
\* its descriptor, from the descriptor's position on.
OpenFiles ==
    /\ \A f \in Fds : file_array[f].filetype = Regular =>
          file_array[f].inode < image.inodes_num
    /\ pc # "user" => /\ file_array[fd].filetype = Regular
                      /\ inode = file_array[fd].inode
                      /\ offset = file_array[fd].fileposition

\* The loop: i bytes of the file are stored, and block and offset in the block
\* are those of the next one.
Stored ==
    pc # "user" => /\ Len(buf) = i /\ i <= length
                   /\ i > 0 => offset + i <= FileLength(inode)
                   /\ \A k \in 1..i : buf[k] = FileByte(inode, offset + k - 1)
ReadLoop ==
    /\ pc = "enter" => /\ length > 0 /\ i = 0
                       /\ read_data_block = offset \div FS_UNIT_SIZE
                       /\ read_data = offset % FS_UNIT_SIZE
    /\ pc \in {"next", "copy"} =>
          /\ offset < FileLength(inode) /\ offset + i <= FileLength(inode)
          /\ offset + i = read_data_block * FS_UNIT_SIZE + read_data
          /\ InImage(inode, read_data_block)
    /\ pc = "copy" => i < length /\ read_data < FS_UNIT_SIZE
    /\ pc = "result" => /\ i = Available(inode, offset, length)
                        /\ length_of_file \in {i, 0} \cup TestLengths
    /\ (pc = "finish" /\ ~Refused(inode, offset, length)) =>
          /\ i = Available(inode, offset, length)
          /\ ret \in {i, 0} \cup TestLengths \cup Eoi
    /\ (pc = "finish" /\ fd \notin broken /\ ret # -1) =>
          i = Available(inode, offset, length)

\* The inductive invariant.
FSInv == FSTypeOK /\ OpenFiles /\ Stored /\ ReadLoop /\ FailureHasBadBlock /\ ReadsFormPrefix
=============================================================================
