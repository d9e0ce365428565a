--------------------------- MODULE ProcessProofs ---------------------------
(***************************************************************************)
(* Proofs that the process subsystem keeps its invariants and implements   *)
(* ProcessTree for every number of processes and descriptors, every file   *)
(* system image and every set of arguments.                                *)
(***************************************************************************)
EXTENDS Process, TLAPS

\* fileposition stays a word whatever a read function returns.
LEMMA AdvanceType ==
    ASSUME NEW pos \in Word, NEW bytes \in Int
    PROVE  Advance(pos, bytes) \in Word
  BY ConstantAssumption, SMT DEF Advance, Word

\* The descriptor table execute builds is well formed.
LEMMA FreshFdsType ==
    /\ ClosedFd \in Descriptor
    /\ FreshFds \in [Fds -> Descriptor]
  BY ConstantAssumption DEF ClosedFd, FreshFds, Fds, Descriptor, Ops, Word

\* Every read function returns an integer.
LEMMA ReadResultsType ==
    ASSUME TypeOK, NEW d \in Descriptor, NEW n \in NBytes,
           HasRead(d.ops), d.ops = "file_t" => d.name \in DentryName,
           NEW bytes \in ReadResults(d, n)
    PROVE  bytes \in Int
  <1>1. n \in Nat
    BY ConstantAssumption
  <1>0. CASE bytes \in StrayCounts
    BY <1>0, ConstantAssumption
  <1> SUFFICES ASSUME bytes \in Results(d, n)
               PROVE  bytes \in Int
    BY <1>0 DEF ReadResults
  <1>2. CASE d.ops = "stdin_t"
    BY <1>1, <1>2 DEF Results
  <1>3. CASE d.ops = "rtc_t"
    BY <1>3 DEF Results
  <1>4. CASE d.ops = "file_t"
    <2>1. FileLength[d.name] \in Nat /\ d.pos \in Nat
      BY <1>4, ConstantAssumption DEF Descriptor, Word
    <2>2. bytes = FileRead(d.name, d.pos, n) \/ bytes = -1
      BY <1>4 DEF Results
    <2> QED BY <1>1, <2>1, <2>2 DEF FileRead
  <1>5. CASE d.ops = "directory_t"
    <2>1. bytes = DirectoryRead \/ bytes = 0
      BY <1>5 DEF Results
    <2>2. CASE entry_counter >= DentryNum
      BY <2>1, <2>2 DEF DirectoryRead
    <2>3. CASE ~(entry_counter >= DentryNum)
      <3>1. entry_counter + 1 \in 1..DentryNum
        BY <2>3, ConstantAssumption DEF TypeOK
      <3>2. Dentries[entry_counter + 1] \in DentryName
        BY <3>1 DEF DentryName
      <3> QED BY <2>1, <2>3, <3>2, ConstantAssumption DEF DirectoryRead
    <2> QED BY <2>2, <2>3
  <1> QED BY <1>2, <1>3, <1>4, <1>5 DEF HasRead

\* The operation table of a file is never the terminal's and never NULL.
LEMMA OpsOfType ==
    ASSUME NEW name \in DentryName
    PROVE  OpsOf(FileType[name]) \in {"rtc_t", "file_t", "directory_t"}
  <1>1. FileType[name] \in {"rtc", "directory", "file"}
    BY ConstantAssumption
  <1> QED BY <1>1 DEF OpsOf

\* The state before the first execute satisfies the invariant.
LEMMA InitInv == Init => Inv
  <1> SUFFICES ASSUME Init PROVE Inv
    OBVIOUS
  <1>1. TypeOK
    <2>1. ClosedFd \in Descriptor
      BY FreshFdsType
    <2>2. file_array \in [Slots -> [Fds -> Descriptor]]
      BY <2>1 DEF Init, InitPaging
    <2>3. 1 \in Slots /\ 0 \in 0..MaxProc /\ NoContext \in Context
      BY ConstantAssumption DEF Slots, Context, NoContext
    <2>4. pcb \in [Slots -> [pid : 0..MaxProc, parent_pid : 0..MaxProc,
                            parent_kernel_sp : 0..MaxProc, arg : Arg]]
      BY <2>3, ConstantAssumption DEF Init, InitPaging
    <2>5. page_directories \in [Slots -> [img : FrameNum \cup {0}, video : BOOLEAN]]
      BY DEF Init, InitPaging
    <2>6. frame \in [FrameNum -> DentryName \cup {NoFile}] /\ kstack \in [Slots -> Context]
      BY <2>3 DEF Init, InitPaging
    <2> QED BY <2>2, <2>3, <2>4, <2>5, <2>6, ConstantAssumption DEF Init, InitPaging, TypeOK, Modes
  <1>2. mode = "boot" /\ counter = 0 /\ argOwner = 0
    BY DEF Init, InitPaging
  <1>3. BootState /\ ~Live
    BY <1>2 DEF BootState, Live
  <1> QED BY <1>1, <1>3 DEF Inv, ProcessChain, RunsOwnImage, DescriptorsSound,
             ArgOwnerOrder, FreshArgSize

\* Calls that only return a value, and NULL calls, touch nothing else.
LEMMA ReturnInv ==
    ASSUME Inv, mode = "user", NEW v \in Int, Return(v)
    PROVE  Inv'
  <1> USE DEF Inv, Return, procVars
  <1>1. TypeOK'
    BY DEF TypeOK
  <1>2. (BootState /\ ProcessChain /\ RunsOwnImage)'
    BY DEF BootState, ProcessChain, RunsOwnImage, Live
  <1>3. (DescriptorsSound /\ ArgOwnerOrder /\ FreshArgSize)'
    BY DEF DescriptorsSound, ArgOwnerOrder, FreshArgSize, Live
  <1> QED BY <1>1, <1>2, <1>3

\* So do the steps into an exception handler.
LEMMA StopInv ==
    ASSUME Inv, mode = "user", CallNull \/ UserException
    PROVE  Inv'
  <1> USE DEF Inv, CallNull, UserException, procVars
  <1>1. TypeOK'
    BY DEF TypeOK, Modes
  <1>2. (BootState /\ ProcessChain /\ RunsOwnImage)'
    BY DEF BootState, ProcessChain, RunsOwnImage, Live
  <1>3. (DescriptorsSound /\ ArgOwnerOrder /\ FreshArgSize)'
    BY DEF DescriptorsSound, ArgOwnerOrder, FreshArgSize, Live
  <1> QED BY <1>1, <1>2, <1>3

\* While a program runs there is a running process.
LEMMA UserState ==
    ASSUME Inv, mode = "user"
    PROVE  TypeOK /\ Live /\ counter \in Slots /\ counter \in 1..counter
  <1>1. TypeOK /\ Live /\ counter >= 1
    BY DEF Inv, ProcessChain, Live
  <1>2. counter \in 0..MaxProc
    BY <1>1 DEF TypeOK
  <1> QED BY <1>1, <1>2, ConstantAssumption DEF Slots

\* A step that changes one descriptor of the running process, to a value a
\* descriptor of its number may have, keeps the invariant.
LEMMA SetFdInv ==
    ASSUME Inv, mode = "user", NEW fd \in Fds, NEW d \in Descriptor,
           SetFd(fd, d), entry_counter' \in Nat, rval' \in Int,
           UNCHANGED <<mode, procVars, arg_size, page_directories, argOwner>>,
           fd = 0 => d.flags = 1 /\ d.ops = "stdin_t",
           fd = 1 => d.flags = 1 /\ d.ops = "stdout_t",
           fd >= 2 => \/ d = ClosedFd
                      \/ /\ d.flags = 1
                         /\ d.name \in DentryName
                         /\ d.ops = OpsOf(FileType[d.name])
    PROVE  Inv'
  <1> USE DEF Inv, procVars
  <1>0. counter \in Slots /\ Live
    BY ConstantAssumption DEF TypeOK, ProcessChain, Live, Slots
  <1>1. file_array' = [file_array EXCEPT ![counter][fd] = d]
    BY DEF SetFd
  <1>2. TypeOK'
    <2>1. file_array' \in [Slots -> [Fds -> Descriptor]]
      BY <1>0, <1>1 DEF TypeOK
    <2> QED BY <2>1 DEF TypeOK
  <1>3. (BootState /\ ProcessChain /\ RunsOwnImage)'
    BY DEF BootState, ProcessChain, RunsOwnImage, Live
  <1>4. DescriptorsSound'
    <2> SUFFICES ASSUME NEW k \in 1..counter, NEW g \in Fds
                 PROVE  LET e == file_array'[k][g]
                        IN  /\ g = 0 => e.flags = 1 /\ e.ops = "stdin_t"
                            /\ g = 1 => e.flags = 1 /\ e.ops = "stdout_t"
                            /\ g >= 2 => \/ e = ClosedFd
                                         \/ /\ e.flags = 1
                                            /\ e.name \in DentryName
                                            /\ e.ops = OpsOf(FileType[e.name])
      BY <1>0 DEF DescriptorsSound
    <2>1. k \in Slots
      BY <1>0, ConstantAssumption DEF Slots
    <2>2. CASE k = counter /\ g = fd
      <3>1. file_array'[k][g] = d
        BY <1>0, <1>1, <2>1, <2>2 DEF TypeOK
      <3> QED BY <2>2, <3>1
    <2>3. CASE ~(k = counter /\ g = fd)
      <3>1. file_array'[k][g] = file_array[k][g]
        BY <1>0, <1>1, <2>1, <2>3 DEF TypeOK
      <3> QED BY <1>0, <3>1 DEF DescriptorsSound
    <2> QED BY <2>2, <2>3
  <1>5. (ArgOwnerOrder /\ FreshArgSize)'
    BY DEF ArgOwnerOrder, FreshArgSize, Live
  <1> QED BY <1>2, <1>3, <1>4, <1>5

\* The process that execute starts joins the chain over its own image.
LEMMA ExecuteProgramInv ==
    ASSUME Inv, NEW command, NEW a \in Arg, ExecuteProgram(command, a)
    PROVE  Inv'
  <1> DEFINE c == counter + 1
  <1> USE DEF Inv
  <1>1. /\ c \in Slots /\ c + 1 \in FrameNum /\ counter \in Nat
        /\ command \in DentryName
        /\ CallerStack \in Slots /\ CallerStack = IF c = 1 THEN 1 ELSE counter
    <2>1. c \in Slots /\ c + 1 \in FrameNum /\ counter \in Nat /\ command \in DentryName
      BY ConstantAssumption DEF ExecuteProgram, TypeOK, Slots, FrameNum
    <2>2. CASE mode = "boot"
      BY <2>1, <2>2, ConstantAssumption DEF BootState, CallerStack, Slots
    <2>3. CASE mode = "user"
      BY <2>1, <2>3 DEF ProcessChain, Live, CallerStack, TypeOK, Slots
    <2> QED BY <2>1, <2>2, <2>3 DEF ExecuteProgram
  <1>2. /\ mode' = "user" /\ counter' = c /\ cr3' = c /\ esp0' = c
        /\ arg_size' = a /\ argOwner' = c
        /\ shell_entry_addr' = IF c = 1 THEN command ELSE shell_entry_addr
        /\ cpu' = [file |-> command, pid |-> c]
        /\ UNCHANGED <<entry_counter, rval>>
        /\ file_array' = [file_array EXCEPT ![c] = FreshFds]
        /\ kstack' = [kstack EXCEPT ![CallerStack] = cpu]
    BY DEF ExecuteProgram
  <1>3. page_directories' = [page_directories EXCEPT ![c] = [img |-> c + 1, video |-> FALSE]]
    BY DEF ExecuteProgram, PagingOf
  <1>4. frame' = [frame EXCEPT ![c + 1] = command]
    <2>1. frame' = [frame EXCEPT ![page_directories'[c].img] = command]
      BY DEF ExecuteProgram, Load
    <2>2. page_directories'[c].img = c + 1
      BY <1>1, <1>3 DEF TypeOK
    <2> QED BY <2>1, <2>2
  <1>5. pcb' = [pcb EXCEPT ![c] =
                 [pid |-> c, parent_pid |-> IF c = 1 THEN 0 ELSE pcb[CallerStack].pid,
                  parent_kernel_sp |-> CallerStack, arg |-> a]]
    BY DEF ExecuteProgram
  <1>6. pcb[CallerStack].pid \in 0..MaxProc /\ (c # 1 => pcb[CallerStack].pid = counter)
    <2>1. pcb[CallerStack].pid \in 0..MaxProc
      BY <1>1 DEF TypeOK
    <2>2. ASSUME c # 1 PROVE mode = "user"
      BY <1>1, <2>2 DEF ExecuteProgram, BootState
    <2>3. ASSUME c # 1 PROVE pcb[CallerStack].pid = counter
      BY <1>1, <2>2, <2>3 DEF ProcessChain, Live
    <2> QED BY <2>1, <2>3
  <1>7. TypeOK'
    <2>1. /\ mode' \in Modes /\ counter' \in 0..MaxProc /\ arg_size' \in Arg
          /\ cr3' \in Slots /\ esp0' \in 0..MaxProc /\ argOwner' \in 0..MaxProc
          /\ entry_counter' \in Nat /\ rval' \in Int
      BY <1>1, <1>2 DEF TypeOK, Modes, Slots
    <2>2. cpu' \in Context /\ shell_entry_addr' \in DentryName \cup {NoFile}
      BY <1>1, <1>2 DEF TypeOK, Context, Slots
    <2>3. file_array' \in [Slots -> [Fds -> Descriptor]]
      BY <1>1, <1>2, FreshFdsType DEF TypeOK
    <2>4. kstack' \in [Slots -> Context]
      BY <1>1, <1>2 DEF TypeOK
    <2>5. page_directories' \in [Slots -> [img : FrameNum \cup {0}, video : BOOLEAN]]
      BY <1>1, <1>3 DEF TypeOK
    <2>6. frame' \in [FrameNum -> DentryName \cup {NoFile}]
      BY <1>1, <1>4 DEF TypeOK
    <2>7. pcb' \in [Slots -> [pid : 0..MaxProc, parent_pid : 0..MaxProc,
                             parent_kernel_sp : 0..MaxProc, arg : Arg]]
      <3>1. /\ c \in 0..MaxProc /\ CallerStack \in 0..MaxProc
            /\ (IF c = 1 THEN 0 ELSE pcb[CallerStack].pid) \in 0..MaxProc
        BY <1>1, <1>6, ConstantAssumption DEF Slots
      <3>2. [pid |-> c, parent_pid |-> IF c = 1 THEN 0 ELSE pcb[CallerStack].pid,
             parent_kernel_sp |-> CallerStack, arg |-> a]
              \in [pid : 0..MaxProc, parent_pid : 0..MaxProc,
                   parent_kernel_sp : 0..MaxProc, arg : Arg]
        BY <3>1
      <3> QED BY <1>5, <3>2 DEF TypeOK
    <2> QED BY <2>1, <2>2, <2>3, <2>4, <2>5, <2>6, <2>7 DEF TypeOK
  <1>8. BootState' /\ Live' /\ ArgOwnerOrder'
    BY <1>1, <1>2 DEF BootState, Live, ArgOwnerOrder
  <1>9. FreshArgSize'
    BY <1>1, <1>2, <1>5 DEF FreshArgSize, TypeOK
  <1>10. \A k \in 1..counter : /\ k \in Slots /\ k # c /\ k + 1 \in FrameNum /\ k + 1 # c + 1
                               /\ mode = "user"
    BY <1>1, ConstantAssumption DEF TypeOK, Slots, FrameNum, ExecuteProgram, BootState
  <1>11. ProcessChain'
    <2> SUFFICES ASSUME NEW k \in 1..c
                 PROVE  /\ pcb'[k].pid = k
                        /\ pcb'[k].parent_pid = k - 1
                        /\ pcb'[k].parent_kernel_sp = IF k = 1 THEN 1 ELSE k - 1
                        /\ page_directories'[k].img = k + 1
      BY <1>1, <1>2 DEF ProcessChain
    <2>1. CASE k = c
      BY <1>1, <1>3, <1>5, <1>6, <2>1 DEF TypeOK
    <2>2. CASE k # c
      <3>1. k \in 1..counter
        BY <1>1, <2>2
      <3>2. pcb'[k] = pcb[k] /\ page_directories'[k] = page_directories[k]
        BY <1>3, <1>5, <1>10, <3>1 DEF TypeOK
      <3> QED BY <1>10, <3>1, <3>2 DEF ProcessChain, Live
    <2> QED BY <2>1, <2>2
  <1>12. RunsOwnImage'
    <2>1. page_directories'[c].img = c + 1 /\ frame'[c + 1] = command
      BY <1>1, <1>3, <1>4 DEF TypeOK
    <2>2. \A k \in 1..counter : /\ page_directories[k].img = k + 1
                                /\ page_directories'[k].img = k + 1
                                /\ frame'[k + 1] = frame[k + 1]
      BY <1>1, <1>3, <1>4, <1>10 DEF TypeOK, ProcessChain, Live
    <2>3. cpu' = [file |-> frame'[page_directories'[cr3'].img], pid |-> counter']
      BY <1>2, <2>1
    <2>4. \A k \in 1..(counter' - 1) :
            kstack'[k] = [file |-> frame'[page_directories'[k].img], pid |-> k]
      <3> SUFFICES ASSUME NEW k \in 1..counter
                   PROVE  kstack'[k] = [file |-> frame'[k + 1], pid |-> k]
        BY <1>1, <1>2, <2>2
      <3>1. CASE k = counter
        <4>1. CallerStack = counter
          BY <1>1, <3>1
        <4>2. cpu = [file |-> frame[counter + 1], pid |-> counter]
          BY <1>10, <2>2, <3>1 DEF RunsOwnImage, ProcessChain, Live
        <4> QED BY <1>1, <1>2, <1>10, <2>2, <3>1, <4>1, <4>2 DEF TypeOK
      <3>2. CASE k # counter
        <4>1. k \in 1..(counter - 1) /\ CallerStack # k
          BY <1>1, <3>2
        <4>2. kstack'[k] = kstack[k]
          BY <1>1, <1>2, <1>10, <4>1 DEF TypeOK
        <4> QED BY <1>10, <2>2, <4>1, <4>2 DEF RunsOwnImage, Live
      <3> QED BY <3>1, <3>2
    <2>5. shell_entry_addr' = frame'[page_directories'[1].img]
      <3>1. CASE c = 1
        BY <1>2, <2>1, <3>1
      <3>2. CASE c # 1
        <4>1. 1 \in 1..counter
          BY <1>1, <3>2
        <4> QED BY <1>2, <1>10, <2>2, <3>2, <4>1 DEF RunsOwnImage, Live
      <3> QED BY <3>1, <3>2
    <2> QED BY <2>3, <2>4, <2>5 DEF RunsOwnImage
  <1>13. DescriptorsSound'
    <2> SUFFICES ASSUME NEW k \in 1..c, NEW fd \in Fds
                 PROVE  LET d == file_array'[k][fd]
                        IN  /\ fd = 0 => d.flags = 1 /\ d.ops = "stdin_t"
                            /\ fd = 1 => d.flags = 1 /\ d.ops = "stdout_t"
                            /\ fd >= 2 => \/ d = ClosedFd
                                          \/ /\ d.flags = 1
                                             /\ d.name \in DentryName
                                             /\ d.ops = OpsOf(FileType[d.name])
      BY <1>2 DEF DescriptorsSound
    <2>1. CASE k = c
      <3>1. file_array'[k][fd] = FreshFds[fd]
        BY <1>1, <1>2, <2>1 DEF TypeOK
      <3> QED BY <3>1 DEF FreshFds, Fds
    <2>2. CASE k # c
      <3>1. k \in 1..counter
        BY <1>1, <2>2
      <3>2. file_array'[k] = file_array[k]
        BY <1>1, <1>2, <1>10, <3>1 DEF TypeOK
      <3> QED BY <1>10, <3>1, <3>2 DEF DescriptorsSound, Live
    <2> QED BY <2>1, <2>2
  <1> QED BY <1>7, <1>8, <1>9, <1>11, <1>12, <1>13

\* A load that fails leaves no live state behind.
LEMMA ExecuteLoadFailsInv ==
    ASSUME Inv, NEW command, NEW a \in Arg, ExecuteLoadFails(command, a)
    PROVE  Inv'
  <1> DEFINE c == counter + 1
  <1> USE DEF Inv
  <1>1. c \in Slots /\ c + 1 \in FrameNum
    BY ConstantAssumption DEF ExecuteLoadFails, TypeOK, Slots, FrameNum
  <1>2. /\ mode' = "lost" /\ counter' = c /\ cr3' = c /\ arg_size' = a
        /\ argOwner' = 0 /\ rval' = -1
        /\ UNCHANGED <<shell_entry_addr, pcb, file_array, esp0, kstack, cpu, entry_counter>>
    BY DEF ExecuteLoadFails
  <1>3. page_directories' = [page_directories EXCEPT ![c] = [img |-> c + 1, video |-> FALSE]]
    BY DEF ExecuteLoadFails, PagingOf
  <1>4. frame' = [frame EXCEPT ![c + 1] = NoFile]
    <2>1. frame' = [frame EXCEPT ![page_directories'[c].img] = NoFile]
      BY DEF ExecuteLoadFails, Load
    <2>2. page_directories'[c].img = c + 1
      BY <1>1, <1>3 DEF TypeOK
    <2> QED BY <2>1, <2>2
  <1>5. TypeOK'
    <2>1. page_directories' \in [Slots -> [img : FrameNum \cup {0}, video : BOOLEAN]]
      BY <1>1, <1>3 DEF TypeOK
    <2>2. frame' \in [FrameNum -> DentryName \cup {NoFile}]
      BY <1>1, <1>4 DEF TypeOK
    <2>3. counter' \in 0..MaxProc /\ argOwner' \in 0..MaxProc /\ mode' \in Modes
      BY <1>1, <1>2, ConstantAssumption DEF Slots, Modes
    <2> QED BY <1>1, <1>2, <2>1, <2>2, <2>3 DEF TypeOK
  <1>6. ~Live' /\ BootState'
    BY <1>2 DEF Live, BootState
  <1> QED BY <1>5, <1>6 DEF ProcessChain, RunsOwnImage, DescriptorsSound,
             ArgOwnerOrder, FreshArgSize

\* Leaving a process resumes its parent over the parent's image.
LEMMA HaltChildInv ==
    ASSUME Inv, NEW status, HaltChild(status)
    PROVE  Inv'
  <1> DEFINE p == counter - 1
  <1> USE DEF Inv
  <1>1. /\ mode = "user" /\ Live /\ counter \in Slots
        /\ pcb[counter].pid = counter /\ pcb[counter].parent_pid = p
        /\ pcb[counter].pid # 1
    <2>1. counter \in 1..counter
      BY DEF HaltChild, ProcessChain, Live, TypeOK
    <2> QED BY <2>1 DEF HaltChild, ProcessChain, Live, TypeOK, Slots
  <1>2. p \in Slots /\ p \in 1..counter /\ p \in 1..(counter - 1) /\ counter \in Nat
    BY <1>1, ConstantAssumption DEF Slots
  <1>3. pcb[counter].parent_kernel_sp = p
    BY <1>1, <1>2 DEF ProcessChain
  <1>4. /\ mode' = "user" /\ counter' = p /\ cr3' = p /\ esp0' = p
        /\ cpu' = kstack[p]
        /\ kstack' = [kstack EXCEPT ![p] = NoContext]
        /\ rval' = 0
        /\ UNCHANGED <<shell_entry_addr, arg_size, pcb, file_array,
                       page_directories, frame, entry_counter, argOwner>>
    BY <1>1, <1>3 DEF HaltChild, ReturnedByte
  <1>5. NoContext \in Context /\ kstack[p] \in Context
    BY <1>2, ConstantAssumption DEF NoContext, Context, TypeOK
  <1>6. TypeOK'
    <2>1. kstack' \in [Slots -> Context]
      BY <1>4, <1>5 DEF TypeOK
    <2>2. p \in 0..MaxProc
      BY <1>2 DEF Slots
    <2> QED BY <1>2, <1>4, <1>5, <2>1, <2>2 DEF TypeOK, Modes
  <1>7. BootState' /\ Live'
    BY <1>4 DEF BootState, Live
  <1>8. ProcessChain'
    <2>1. \A k \in 1..p : k \in 1..counter
      BY <1>2
    <2> QED BY <1>1, <1>2, <1>4, <2>1 DEF ProcessChain
  <1>9. RunsOwnImage'
    <2>1. cpu' = [file |-> frame'[page_directories'[cr3'].img], pid |-> counter']
      BY <1>1, <1>2, <1>4 DEF RunsOwnImage
    <2>2. \A k \in 1..(p - 1) : k \in 1..(counter - 1) /\ k # p /\ k \in Slots
      BY <1>1, <1>2, ConstantAssumption DEF Slots
    <2>3. \A k \in 1..(p - 1) : kstack'[k] = kstack[k]
      BY <1>4, <2>2 DEF TypeOK
    <2> QED BY <1>1, <1>4, <2>1, <2>2, <2>3 DEF RunsOwnImage
  <1>10. DescriptorsSound'
    <2>1. \A k \in 1..p : k \in 1..counter
      BY <1>2
    <2> QED BY <1>1, <1>4, <2>1 DEF DescriptorsSound
  <1>11. ArgOwnerOrder' /\ FreshArgSize'
    <2>1. argOwner = 0 \/ argOwner >= counter
      BY <1>1 DEF ArgOwnerOrder
    <2>2. argOwner' # counter' /\ (argOwner' = 0 \/ argOwner' >= counter')
      BY <1>2, <1>4, <2>1 DEF TypeOK
    <2> QED BY <2>2 DEF ArgOwnerOrder, FreshArgSize
  <1> QED BY <1>6, <1>7, <1>8, <1>9, <1>10, <1>11

\* The shell starts over in place.
LEMMA HaltShellInv ==
    ASSUME Inv, HaltShell
    PROVE  Inv'
  <1> USE DEF Inv
  <1>1. mode = "user" /\ Live /\ counter \in 1..counter /\ counter = 1
    BY DEF HaltShell, ProcessChain, Live, TypeOK
  <1>2. /\ cpu' = [file |-> shell_entry_addr, pid |-> 1]
        /\ UNCHANGED <<mode, counter, shell_entry_addr, arg_size, pcb, file_array,
                       page_directories, cr3, esp0, frame, kstack, entry_counter,
                       rval, argOwner>>
    BY DEF HaltShell
  <1>3. TypeOK'
    <2>1. 1 \in 0..MaxProc /\ shell_entry_addr \in DentryName \cup {NoFile}
      BY ConstantAssumption DEF TypeOK
    <2>2. cpu' \in Context
      BY <1>2, <2>1 DEF Context
    <2> QED BY <1>2, <2>2 DEF TypeOK
  <1>4. (BootState /\ ProcessChain)'
    BY <1>2 DEF BootState, ProcessChain, Live
  <1>5. RunsOwnImage'
    BY <1>1, <1>2 DEF RunsOwnImage, ProcessChain, Live
  <1>6. (DescriptorsSound /\ ArgOwnerOrder /\ FreshArgSize)'
    BY <1>2 DEF DescriptorsSound, ArgOwnerOrder, FreshArgSize, Live
  <1> QED BY <1>3, <1>4, <1>5, <1>6

\* A command that is not found changes arg_size and nothing else that matters.
LEMMA ExecuteNotFoundInv ==
    ASSUME Inv, NEW command, NEW a \in Arg, ExecuteNotFound(command, a)
    PROVE  Inv'
  <1> USE DEF Inv, procVars
  <1>1. /\ mode = "user" /\ arg_size' = a /\ argOwner' = 0 /\ rval' = -1
        /\ UNCHANGED <<mode, procVars, file_array, page_directories, entry_counter>>
    BY DEF ExecuteNotFound
  <1>2. TypeOK'
    BY <1>1, ConstantAssumption DEF TypeOK
  <1>3. (BootState /\ ProcessChain /\ RunsOwnImage /\ DescriptorsSound)'
    BY <1>1 DEF BootState, ProcessChain, RunsOwnImage, DescriptorsSound, Live
  <1>4. counter >= 1 /\ counter \in Nat
    BY <1>1 DEF ProcessChain, Live, TypeOK
  <1>5. (ArgOwnerOrder /\ FreshArgSize)'
    BY <1>1, <1>4 DEF ArgOwnerOrder, FreshArgSize
  <1> QED BY <1>2, <1>3, <1>5

\* open either returns a value or fills one descriptor.
LEMMA OpenInv ==
    ASSUME Inv, NEW name, Open(name)
    PROVE  Inv'
  <1>0. mode = "user" /\ TypeOK /\ Live /\ counter \in Slots /\ counter \in 1..counter
    <2>1. mode = "user"
      BY DEF Open, OpenStdStream, OpenFile, OpenFails
    <2> QED BY <2>1, UserState
  <1>1. 0 \in Fds /\ 1 \in Fds
    BY ConstantAssumption DEF Fds
  <1>2. \A fd \in Fds : Running[fd] \in Descriptor
    BY <1>0 DEF Running, TypeOK
  <1>3. CASE OpenStdStream(name)
    <2>1. CASE name = "stdin"
      <3> DEFINE d == [Running[0] EXCEPT !.ops = "stdin_t", !.flags = 1]
      <3>1. d \in Descriptor /\ d.flags = 1 /\ d.ops = "stdin_t"
        BY <1>1, <1>2 DEF Descriptor, Ops
      <3>2. SetFd(0, d) /\ rval' = 0 /\ entry_counter' \in Nat
        BY <1>0, <1>3, <2>1 DEF OpenStdStream, TypeOK
      <3>3. UNCHANGED <<mode, procVars, arg_size, page_directories, argOwner>>
        BY <1>3 DEF OpenStdStream
      <3> HIDE DEF d
      <3> QED BY <1>0, <1>1, <3>1, <3>2, <3>3, SetFdInv
    <2>2. CASE name = "stdout"
      <3> DEFINE d == [Running[1] EXCEPT !.ops = "stdout_t", !.flags = 1]
      <3>1. d \in Descriptor /\ d.flags = 1 /\ d.ops = "stdout_t"
        BY <1>1, <1>2 DEF Descriptor, Ops
      <3>2. SetFd(1, d) /\ rval' = 0 /\ entry_counter' \in Nat
        BY <1>0, <1>3, <2>2 DEF OpenStdStream, TypeOK
      <3>3. UNCHANGED <<mode, procVars, arg_size, page_directories, argOwner>>
        BY <1>3 DEF OpenStdStream
      <3> HIDE DEF d
      <3> QED BY <1>0, <1>1, <3>1, <3>2, <3>3, SetFdInv
    <2> QED BY <1>3, <2>1, <2>2 DEF OpenStdStream
  <1>4. CASE OpenFile(name)
    <2> DEFINE d == [flags |-> 1, ops |-> OpsOf(FileType[name]), name |-> name, pos |-> 0]
    <2>1. PICK fd \in VacantFds : SetFd(fd, d) /\ rval' = fd
      BY <1>4 DEF OpenFile
    <2>2. fd \in Fds /\ fd >= 2 /\ fd \in Int
      BY <2>1, ConstantAssumption DEF VacantFds, Fds
    <2>3. name \in DentryName
      BY <1>4 DEF OpenFile
    <2>4. OpsOf(FileType[name]) \in Ops
      BY <2>3, OpsOfType DEF Ops
    <2>5. 0 \in Word
      BY ConstantAssumption DEF Word
    <2>6. d \in Descriptor
      BY <2>3, <2>4, <2>5 DEF Descriptor
    <2>7. /\ UNCHANGED <<mode, procVars, arg_size, page_directories, argOwner>>
          /\ entry_counter' \in Nat
      BY <1>0, <1>4 DEF OpenFile, TypeOK
    <2>8. d.flags = 1 /\ d.name \in DentryName /\ d.ops = OpsOf(FileType[d.name])
      BY <2>3
    <2>9. SetFd(fd, d) /\ rval' \in Int
      BY <2>1, <2>2
    <2> HIDE DEF d
    <2> QED BY <1>0, <2>2, <2>6, <2>7, <2>8, <2>9, SetFdInv
  <1>5. CASE OpenFails(name)
    BY <1>0, <1>5, ReturnInv DEF OpenFails
  <1> QED BY <1>3, <1>4, <1>5 DEF Open

\* close empties one descriptor above 1.
LEMMA CloseInv ==
    ASSUME Inv, NEW fd \in (-1)..FileArraySize, Close(fd)
    PROVE  Inv'
  <1>0. mode = "user" /\ TypeOK
    BY DEF Close, Inv
  <1>1. CASE Return(-1)
    BY <1>0, <1>1, ReturnInv
  <1>2. CASE CallNull
    BY <1>0, <1>2, StopInv
  <1>3. CASE /\ fd >= 2 /\ InUse(fd) /\ SetFd(fd, ClosedFd) /\ rval' = 0
             /\ UNCHANGED <<mode, procVars, arg_size, page_directories,
                            entry_counter, argOwner>>
    <2>1. fd \in Fds /\ ClosedFd \in Descriptor /\ entry_counter' \in Nat
      BY <1>0, <1>3, FreshFdsType DEF InUse, TypeOK
    <2>2. fd # 0 /\ fd # 1
      BY <1>3
    <2> QED BY <1>0, <1>3, <2>1, <2>2, SetFdInv
  <1> QED BY <1>1, <1>2, <1>3 DEF Close

\* read moves one descriptor's position.
LEMMA ReadInv ==
    ASSUME Inv, NEW fd \in (-1)..FileArraySize, NEW n \in NBytes, Read(fd, n)
    PROVE  Inv'
  <1>0. mode = "user" /\ TypeOK /\ Live /\ counter \in Slots /\ counter \in 1..counter
    BY UserState DEF Read
  <1>1. CASE Return(-1)
    BY <1>0, <1>1, ReturnInv
  <1>2. CASE CallNull
    BY <1>0, <1>2, StopInv
  <1>3. CASE InUse(fd) /\ ReadDispatch(fd, n)
    <2> DEFINE r == Running[fd]
    <2>1. fd \in Fds /\ r \in Descriptor /\ r.flags = 1 /\ HasRead(r.ops)
      BY <1>0, <1>3 DEF InUse, Running, ReadDispatch, TypeOK
    <2>2. PICK bytes \in ReadResults(r, n) :
              SetFd(fd, [r EXCEPT !.pos = Advance(r.pos, bytes)]) /\ rval' = bytes
      BY <1>3 DEF ReadDispatch
    <2>3. /\ fd = 0 => r.ops = "stdin_t"
          /\ fd = 1 => r.ops = "stdout_t"
          /\ fd >= 2 => \/ r = ClosedFd
                        \/ r.name \in DentryName /\ r.ops = OpsOf(FileType[r.name])
      BY <1>0, <2>1 DEF Inv, DescriptorsSound, Running
    <2>4. fd >= 2 => r.name \in DentryName /\ r.ops = OpsOf(FileType[r.name])
      BY <2>1, <2>3 DEF ClosedFd
    <2>5. fd = 0 \/ fd = 1 \/ fd >= 2
      BY <2>1, ConstantAssumption DEF Fds
    <2>6. r.ops = "file_t" => r.name \in DentryName
      BY <2>3, <2>4, <2>5
    <2>7. bytes \in Int
      BY <1>0, <2>1, <2>2, <2>6, ReadResultsType
    <2> DEFINE d == [r EXCEPT !.pos = Advance(r.pos, bytes)]
    <2>8. Advance(r.pos, bytes) \in Word
      BY <2>1, <2>7, AdvanceType DEF Descriptor
    <2>9. d \in Descriptor /\ d.flags = 1 /\ d.ops = r.ops /\ d.name = r.name
      BY <2>1, <2>8 DEF Descriptor
    <2>10. entry_counter' \in Nat
      <3>1. entry_counter' \in NextEntries \/ entry_counter' = entry_counter
        BY <1>3 DEF ReadDispatch
      <3>2. \A k \in StrayCounts : k \in Nat /\ k + 1 \in Nat
        BY ConstantAssumption
      <3>3. entry_counter \in Nat /\ NextEntry \in Nat
        BY <1>0 DEF Inv, TypeOK, NextEntry
      <3>4. NextEntries \subseteq Nat
        BY <3>2, <3>3 DEF NextEntries
      <3> QED BY <3>1, <3>3, <3>4
    <2>11. UNCHANGED <<mode, procVars, arg_size, page_directories, argOwner>>
      BY <1>3 DEF ReadDispatch
    <2>12. SetFd(fd, d) /\ rval' \in Int
      BY <2>2, <2>7
    <2> HIDE DEF d
    <2> QED BY <1>0, <2>1, <2>3, <2>4, <2>9, <2>10, <2>11, <2>12, SetFdInv
  <1> QED BY <1>1, <1>2, <1>3 DEF Read

\* write changes no descriptor.
LEMMA WriteInv ==
    ASSUME Inv, NEW fd \in (-1)..FileArraySize, NEW n \in NBytes, Write(fd, n)
    PROVE  Inv'
  <1>0. mode = "user" /\ n \in Nat
    BY ConstantAssumption DEF Write
  <1>1. CASE Return(-1)
    BY <1>0, <1>1, ReturnInv
  <1>2. CASE CallNull
    BY <1>0, <1>2, StopInv
  <1>3. CASE /\ InUse(fd) /\ HasWrite(Running[fd].ops)
             /\ \E bytes \in WriteResults(Running[fd], n) : Return(bytes)
    <2> DEFINE o == Running[fd].ops
    <2>1. PICK bytes \in WriteResults(Running[fd], n) : Return(bytes)
      BY <1>3
    <2>2. CASE o = "stdout_t"
      <3>1. bytes \in n..(n + MaxPending)
        BY <2>1, <2>2 DEF WriteResults
      <3>2. bytes \in Int
        BY <3>1
      <3> QED BY <1>0, <2>1, <3>2, ReturnInv
    <2>3. CASE o = "rtc_t"
      <3>1. bytes \in (IF n = 4 THEN {-1, n} ELSE {-1})
        BY <2>1, <2>3 DEF WriteResults
      <3>2. bytes \in Int
        BY <1>0, <3>1
      <3> QED BY <1>0, <2>1, <3>2, ReturnInv
    <2>4. CASE o \in {"file_t", "directory_t"}
      <3>1. bytes \in {-1}
        BY <2>1, <2>4 DEF WriteResults
      <3> QED BY <1>0, <2>1, <3>1, ReturnInv
    <2> QED BY <1>3, <2>2, <2>3, <2>4 DEF HasWrite
  <1> QED BY <1>1, <1>2, <1>3 DEF Write

\* vidmap changes the running process's page directory, not its image entry.
LEMMA VidmapInv ==
    ASSUME Inv, NEW inUserPage, Vidmap(inUserPage)
    PROVE  Inv'
  <1>0. mode = "user" /\ TypeOK /\ Live /\ counter \in Slots
    BY ConstantAssumption DEF Vidmap, Inv, TypeOK, ProcessChain, Live, Slots
  <1>1. CASE Return(-1)
    BY <1>0, <1>1, ReturnInv
  <1>2. CASE /\ page_directories' = [page_directories EXCEPT ![counter].video = TRUE]
             /\ rval' = 0
             /\ UNCHANGED <<mode, procVars, arg_size, file_array, entry_counter, argOwner>>
    <2> USE DEF Inv, procVars
    <2>1. page_directories' \in [Slots -> [img : FrameNum \cup {0}, video : BOOLEAN]]
      BY <1>0, <1>2 DEF TypeOK
    <2>2. \A k \in Slots : page_directories'[k].img = page_directories[k].img
      BY <1>0, <1>2 DEF TypeOK
    <2>3. \A k \in 1..counter : k \in Slots
      BY <1>0, ConstantAssumption DEF Slots
    <2>4. TypeOK'
      BY <1>2, <2>1 DEF TypeOK
    <2>5. (BootState /\ ProcessChain)'
      BY <1>0, <1>2, <2>2, <2>3 DEF BootState, ProcessChain, Live
    <2>6. RunsOwnImage'
      <3>1. \A k \in 1..(counter - 1) : k \in Slots
        BY <1>0, ConstantAssumption DEF Slots
      <3>2. cr3 \in Slots /\ 1 \in Slots
        BY ConstantAssumption DEF TypeOK, Slots
      <3> QED BY <1>0, <1>2, <2>2, <3>1, <3>2 DEF RunsOwnImage, Live
    <2>7. (DescriptorsSound /\ ArgOwnerOrder /\ FreshArgSize)'
      BY <1>2 DEF DescriptorsSound, ArgOwnerOrder, FreshArgSize, Live
    <2> QED BY <2>4, <2>5, <2>6, <2>7
  <1> QED BY <1>1, <1>2 DEF Vidmap

\* Every step keeps the invariant.
LEMMA NextInv == Inv /\ [Next]_vars => Inv'
  <1> SUFFICES ASSUME Inv, [Next]_vars PROVE Inv'
    OBVIOUS
  <1>1. CASE ExecuteAtLimit \/ ExecuteNull \/ Unsupported
    <2>1. mode = "user" /\ Return(-1)
      BY <1>1 DEF ExecuteAtLimit, ExecuteNull, Unsupported, Return
    <2> QED BY <2>1, ReturnInv
  <1>2. ASSUME NEW command \in Commands, NEW a \in Arg,
               ExecuteNotFound(command, a) \/ ExecuteLoadFails(command, a)
        PROVE  Inv'
    BY <1>2, ExecuteNotFoundInv, ExecuteLoadFailsInv
  <1>3. ASSUME NEW command \in Commands \cup {Shell}, NEW a \in Arg,
               ExecuteProgram(command, a)
        PROVE  Inv'
    BY <1>3, ExecuteProgramInv
  <1>4. ASSUME NEW status \in Status, Halt(status)
        PROVE  Inv'
    BY <1>4, HaltShellInv, HaltChildInv DEF Halt
  <1>5. ASSUME NEW name \in Commands, Open(name)
        PROVE  Inv'
    BY <1>5, OpenInv
  <1>6. ASSUME NEW fd \in (-1)..FileArraySize, Close(fd)
        PROVE  Inv'
    BY <1>6, CloseInv
  <1>7. ASSUME NEW fd \in (-1)..FileArraySize, NEW n \in NBytes,
               Read(fd, n) \/ Write(fd, n)
        PROVE  Inv'
    BY <1>7, ReadInv, WriteInv
  <1>8. ASSUME NEW n \in NBytes, Getargs(n)
        PROVE  Inv'
    <2>1. mode = "user" /\ \E v \in {-1, 0} : Return(v)
      BY <1>8 DEF Getargs
    <2> QED BY <2>1, ReturnInv
  <1>9. ASSUME NEW inUserPage \in BOOLEAN, Vidmap(inUserPage)
        PROVE  Inv'
    BY <1>9, VidmapInv
  <1>10. CASE UserException
    BY <1>10, StopInv DEF UserException
  <1>11. CASE UNCHANGED vars
    <2> USE DEF vars, Inv
    <2>1. TypeOK'
      BY <1>11 DEF TypeOK
    <2>2. (BootState /\ ProcessChain /\ RunsOwnImage)'
      BY <1>11 DEF BootState, ProcessChain, RunsOwnImage, Live
    <2>3. (DescriptorsSound /\ ArgOwnerOrder /\ FreshArgSize)'
      BY <1>11 DEF DescriptorsSound, ArgOwnerOrder, FreshArgSize, Live
    <2> QED BY <2>1, <2>2, <2>3
  <1> QED BY <1>1, <1>2, <1>3, <1>4, <1>5, <1>6, <1>7, <1>8, <1>9, <1>10, <1>11
      DEF Next, Stopped

\* The invariant holds in every reachable state.
THEOREM Invariance == Spec => []Inv
  BY InitInv, NextInv, PTL DEF Spec

\* Type correctness: counter never leaves 0..MaxProc, so execute never indexes
\* past the page directories, and cr3 is always one of them.
THEOREM TypeCorrect == Spec => []TypeOK
  <1>1. Inv => TypeOK
    BY DEF Inv
  <1> QED BY <1>1, Invariance, PTL

\* halt, open, read and vidmap find the running process at slot counter.
THEOREM ChainCorrect == Spec => []ProcessChain
  <1>1. Inv => ProcessChain
    BY DEF Inv
  <1> QED BY <1>1, Invariance, PTL

\* A program only ever runs over its own image, and halt returns to a parent
\* that is still over its own.
THEOREM ImageCorrect == Spec => []RunsOwnImage
  <1>1. Inv => RunsOwnImage
    BY DEF Inv
  <1> QED BY <1>1, Invariance, PTL

\* Descriptor tables never hold a stale or a mismatched operation table.
THEOREM DescriptorsCorrect == Spec => []DescriptorsSound
  <1>1. Inv => DescriptorsSound
    BY DEF Inv
  <1> QED BY <1>1, Invariance, PTL

\* getargs checks a new process's size against its own arguments.
THEOREM ArgSizeCorrect == Spec => []FreshArgSize
  <1>1. Inv => FreshArgSize
    BY DEF Inv
  <1> QED BY <1>1, Invariance, PTL

\* A failed load spares everything but counter and cr3.
THEOREM LoadFailureCorrect == Spec => []LoadFailureRepairable
  <1>1. Init => LoadFailureRepairable
    BY DEF Init, InitPaging, LoadFailureRepairable
  <1>2. ASSUME Inv, LoadFailureRepairable, [Next]_vars
        PROVE  LoadFailureRepairable'
    <2>1. CASE UNCHANGED vars
      BY <1>2, <2>1 DEF vars, LoadFailureRepairable
    <2>2. ASSUME NEW command \in Commands, NEW a \in Arg, ExecuteLoadFails(command, a)
          PROVE  LoadFailureRepairable'
      <3> DEFINE c == counter + 1
      <3>1. /\ mode = "user" /\ counter' = c
            /\ UNCHANGED <<pcb, esp0, kstack, cpu>>
            /\ page_directories' = [page_directories EXCEPT ![c] = PagingOf(c)]
            /\ frame' = [frame EXCEPT ![page_directories'[c].img] = NoFile]
        BY <2>2 DEF ExecuteLoadFails, Load
      <3>2. counter \in Slots /\ Live /\ TypeOK /\ c \in Slots
        BY <1>2, <2>2, <3>1, UserState, ConstantAssumption DEF ExecuteLoadFails, Slots
      <3>3. page_directories'[c].img = c + 1
        BY <3>1, <3>2 DEF TypeOK, PagingOf
      <3>4. \A k \in 1..counter : /\ page_directories[k].img = k + 1
                                  /\ page_directories'[k].img = k + 1
                                  /\ frame'[k + 1] = frame[k + 1]
        <4> SUFFICES ASSUME NEW k \in 1..counter
                     PROVE  /\ page_directories[k].img = k + 1
                            /\ page_directories'[k].img = k + 1
                            /\ frame'[k + 1] = frame[k + 1]
          OBVIOUS
        <4>1. k \in Slots /\ k # c /\ k + 1 # c + 1 /\ k + 1 \in FrameNum
          BY <3>2, ConstantAssumption DEF Slots, FrameNum
        <4>2. page_directories[k].img = k + 1
          BY <1>2, <3>2 DEF Inv, ProcessChain
        <4> QED BY <3>1, <3>2, <3>3, <4>1, <4>2 DEF TypeOK
      <3>5. counter \in 1..counter /\ counter \in Nat /\ c - 1 = counter
        BY <3>2, ConstantAssumption DEF Slots
      <3>6. counter >= 1 /\ esp0' = counter
        BY <1>2, <3>1, <3>2 DEF Inv, ProcessChain
      <3>7. cpu' = [file |-> frame'[page_directories'[counter].img], pid |-> counter]
        BY <1>2, <3>1, <3>2, <3>4, <3>5 DEF Inv, RunsOwnImage, ProcessChain
      <3>8. \A k \in 1..counter : pcb'[k].pid = k /\ pcb'[k].parent_pid = k - 1
        BY <1>2, <3>1, <3>2 DEF Inv, ProcessChain
      <3>9. \A k \in 1..(counter - 1) :
              kstack'[k] = [file |-> frame'[page_directories'[k].img], pid |-> k]
        <4>1. \A k \in 1..(counter - 1) : k \in 1..counter
          BY <3>5
        <4> QED BY <1>2, <3>1, <3>2, <3>4, <4>1 DEF Inv, RunsOwnImage
      <3> QED BY <3>1, <3>5, <3>6, <3>7, <3>8, <3>9 DEF LoadFailureRepairable
    <2>3. CASE mode' # "lost"
      BY <2>3 DEF LoadFailureRepairable
    <2> QED BY <1>2, <2>1, <2>2, <2>3
        DEF Next, Stopped, ExecuteAtLimit, ExecuteNull, ExecuteNotFound, ExecuteProgram,
            Halt, HaltShell, HaltChild, Open, OpenStdStream, OpenFile, OpenFails, Close,
            Read, ReadDispatch, Write, Getargs, Vidmap, Unsupported, UserException,
            CallNull, Return
  <1> QED BY <1>1, <1>2, Invariance, PTL DEF Spec

\* Only write on descriptor 0 and read on descriptor 1 call a NULL operation.
THEOREM FaultsCorrect == Spec => []FaultsOnlyOnStdStreams
  <1>1. Inv => FaultsOnlyOnStdStreams
    <2> SUFFICES ASSUME Inv, mode = "user", NEW fd \in Fds, InUse(fd)
                 PROVE  /\ fd # 1 => HasRead(Running[fd].ops)
                        /\ fd # 0 => HasWrite(Running[fd].ops)
                        /\ fd >= 2 => HasClose(Running[fd].ops)
      BY DEF FaultsOnlyOnStdStreams
    <2>0. Live /\ counter \in 1..counter
      BY UserState
    <2>1. Running[fd] # ClosedFd
      BY DEF InUse, ClosedFd
    <2>2. /\ fd = 0 => Running[fd].ops = "stdin_t"
          /\ fd = 1 => Running[fd].ops = "stdout_t"
          /\ fd >= 2 => \/ Running[fd] = ClosedFd
                        \/ /\ Running[fd].name \in DentryName
                           /\ Running[fd].ops = OpsOf(FileType[Running[fd].name])
      BY <2>0 DEF Inv, DescriptorsSound, Running
    <2>3. fd = 0 \/ fd = 1 \/ fd >= 2
      BY ConstantAssumption DEF Fds
    <2>4. fd >= 2 => Running[fd].ops \in {"rtc_t", "file_t", "directory_t"}
      BY <2>1, <2>2, OpsOfType
    <2> QED BY <2>2, <2>3, <2>4 DEF HasRead, HasWrite, HasClose
  <1> QED BY <1>1, Invariance, PTL

\* A step that leaves the chain, the images and the arguments of the running
\* process alone, and the resources of every other process, is an ASyscall.
LEMMA SyscallStep ==
    ASSUME Inv, mode = "user",
           UNCHANGED <<counter, pcb, frame, cpu>>,
           \A k \in 1..counter : page_directories'[k].img = page_directories[k].img,
           \A k \in 1..(counter - 1) : /\ file_array'[k] = file_array[k]
                                       /\ page_directories'[k] = page_directories[k]
    PROVE  Tree!ASyscall
  <1>1. counter \in Nat /\ counter >= 1 /\ counter \in 1..counter
    BY UserState, ConstantAssumption DEF Slots
  <1>2. \A k \in 1..(counter - 1) : k \in 1..counter
    BY <1>1
  <1>3. \A k \in 1..(counter - 1) : Procs'[k] = Procs[k]
    BY <1>2 DEF Procs
  <1>4. Procs'[counter].prog = Procs[counter].prog /\ Procs'[counter].arg = Procs[counter].arg
    BY <1>1 DEF Procs
  <1>5. DOMAIN Procs' = 1..counter
    BY DEF Procs
  <1> QED BY <1>1, <1>3, <1>4, <1>5 DEF Tree!ASyscall

\* execute is the abstract execute.
LEMMA ExecuteStep ==
    ASSUME Inv, NEW command, NEW a \in Arg, ExecuteProgram(command, a)
    PROVE  Tree!AExecute(command, a)
  <1> DEFINE c == counter + 1
  <1>1. /\ counter \in Nat /\ counter < MaxProc /\ TypeOK /\ c \in Slots /\ c + 1 \in FrameNum
        /\ counter' = c /\ cpu' = [file |-> command, pid |-> c]
        /\ page_directories' = [page_directories EXCEPT ![c] = [img |-> c + 1, video |-> FALSE]]
        /\ frame' = [frame EXCEPT ![page_directories'[c].img] = command]
        /\ file_array' = [file_array EXCEPT ![c] = FreshFds]
    <2>1. counter < MaxProc
      BY DEF ExecuteProgram
    <2>2. TypeOK /\ counter \in 0..MaxProc
      BY DEF Inv, TypeOK
    <2>3. counter \in Nat /\ c \in Slots /\ c + 1 \in FrameNum
      BY <2>1, <2>2, ConstantAssumption DEF Slots, FrameNum
    <2> QED BY <2>1, <2>2, <2>3 DEF ExecuteProgram, PagingOf, Load
  <1>2. pcb' = [pcb EXCEPT ![c] =
                 [pid |-> c, parent_pid |-> IF c = 1 THEN 0 ELSE pcb[CallerStack].pid,
                  parent_kernel_sp |-> CallerStack, arg |-> a]]
    BY DEF ExecuteProgram
  <1>3. /\ page_directories'[c] = [img |-> c + 1, video |-> FALSE]
        /\ frame'[c + 1] = command /\ file_array'[c] = FreshFds /\ pcb'[c].arg = a
    BY <1>1, <1>2 DEF TypeOK
  <1>4. ASSUME NEW k \in 1..counter
        PROVE  /\ page_directories'[k] = page_directories[k]
               /\ frame'[page_directories[k].img] = frame[page_directories[k].img]
               /\ file_array'[k] = file_array[k] /\ pcb'[k] = pcb[k]
    <2>1. k \in Slots /\ k # c /\ k + 1 \in FrameNum /\ k + 1 # c + 1
      BY <1>1, <1>4, ConstantAssumption DEF Slots, FrameNum
    <2>2. Live
      BY <1>1, <1>4 DEF Inv, BootState, Live, ExecuteProgram
    <2>3. page_directories[k].img = k + 1
      BY <1>4, <2>2 DEF Inv, ProcessChain
    <2> QED BY <1>1, <1>2, <1>3, <2>1, <2>3 DEF TypeOK
  <1>5. Procs' = [k \in 1..c |-> IF k = c THEN Tree!Fresh(command, a) ELSE Procs[k]]
    <2>1. Procs' = [k \in 1..c |-> [prog |-> frame'[page_directories'[k].img],
                                    arg |-> pcb'[k].arg, fds |-> file_array'[k],
                                    video |-> page_directories'[k].video]]
      BY <1>1 DEF Procs
    <2>2. ASSUME NEW k \in 1..c
          PROVE  [prog |-> frame'[page_directories'[k].img], arg |-> pcb'[k].arg,
                  fds |-> file_array'[k], video |-> page_directories'[k].video]
                 = IF k = c THEN Tree!Fresh(command, a) ELSE Procs[k]
      <3>1. CASE k = c
        <4>1. page_directories'[k].img = c + 1 /\ page_directories'[k].video = FALSE
          BY <1>3, <3>1
        <4>2. frame'[page_directories'[k].img] = command
          BY <1>3, <4>1
        <4> QED BY <1>3, <3>1, <4>1, <4>2 DEF Tree!Fresh
      <3>2. CASE k # c
        <4>1. k \in 1..counter
          BY <1>1, <3>2
        <4> QED BY <1>4, <3>2, <4>1 DEF Procs
      <3> QED BY <3>1, <3>2
    <2> QED BY <2>1, <2>2
  <1> QED BY <1>1, <1>5 DEF Tree!AExecute

\* halt of a process other than the first is the abstract halt.
LEMMA HaltStep ==
    ASSUME Inv, NEW status, HaltChild(status)
    PROVE  Tree!AHalt
  <1> DEFINE p == counter - 1
  <1>1. mode = "user"
    BY DEF HaltChild
  <1>2. Live /\ counter \in Slots /\ counter \in 1..counter
    BY <1>1, UserState
  <1>3. pcb[counter].pid = counter /\ counter # 1
    BY <1>2 DEF HaltChild, Inv, ProcessChain
  <1>4. counter \in Nat /\ counter > 1 /\ p \in 1..p /\ p \in 1..counter
    BY <1>2, <1>3, ConstantAssumption DEF Slots
  <1>5. pcb[counter].parent_kernel_sp = p
    BY <1>2, <1>3 DEF Inv, ProcessChain
  <1>6. counter' = p /\ cpu' = kstack[p]
        /\ UNCHANGED <<pcb, file_array, page_directories, frame>>
    BY <1>5 DEF HaltChild
  <1>7. kstack[p] = [file |-> frame[page_directories[p].img], pid |-> p]
    BY <1>2, <1>4 DEF Inv, RunsOwnImage
  <1>8. cpu' = [file |-> Procs[p].prog, pid |-> p]
    BY <1>4, <1>6, <1>7 DEF Procs
  <1>9. Procs' = [k \in 1..p |-> Procs[k]]
    <2>1. \A k \in 1..p : k \in 1..counter
      BY <1>4
    <2>2. Procs' = [k \in 1..p |-> [prog |-> frame[page_directories[k].img],
                                    arg |-> pcb[k].arg, fds |-> file_array[k],
                                    video |-> page_directories[k].video]]
      BY <1>6 DEF Procs
    <2> QED BY <2>1, <2>2 DEF Procs
  <1> QED BY <1>4, <1>6, <1>8, <1>9 DEF Tree!AHalt

\* A restart of the shell changes nothing the chain shows.
LEMMA RestartStep ==
    ASSUME Inv, HaltShell
    PROVE  UNCHANGED Tree!avars
  <1>1. mode = "user"
    BY DEF HaltShell
  <1>2. Live /\ counter \in 1..counter
    BY <1>1, UserState
  <1>3. counter = 1
    BY <1>2 DEF HaltShell, Inv, ProcessChain
  <1>4. cpu' = cpu
    BY <1>2, <1>3 DEF HaltShell, Inv, RunsOwnImage, ProcessChain
  <1> QED BY <1>4 DEF HaltShell, Tree!avars, Procs

\* Every other system call is an ASyscall.
LEMMA OtherStep ==
    ASSUME Inv, mode = "user",
           \/ UNCHANGED <<counter, pcb, frame, cpu, page_directories, file_array>>
           \/ /\ \E fd \in Fds : \E d : SetFd(fd, d)
              /\ UNCHANGED <<counter, pcb, frame, cpu, page_directories>>
           \/ /\ page_directories' = [page_directories EXCEPT ![counter].video = TRUE]
              /\ UNCHANGED <<counter, pcb, frame, cpu, file_array>>
    PROVE  Tree!ASyscall
  <1>1. TypeOK /\ counter \in Slots
    BY UserState
  <1>2. \A k \in 1..counter : k \in Slots
    BY <1>1, ConstantAssumption DEF Slots
  <1>3. \A k \in 1..(counter - 1) : k \in Slots /\ k # counter
    BY <1>1, ConstantAssumption DEF Slots
  <1>4. UNCHANGED <<counter, pcb, frame, cpu>>
    OBVIOUS
  <1>5. \A k \in 1..counter : page_directories'[k].img = page_directories[k].img
    BY <1>1, <1>2 DEF TypeOK
  <1>6. \A k \in 1..(counter - 1) : page_directories'[k] = page_directories[k]
    BY <1>1, <1>3 DEF TypeOK
  <1>7. \A k \in 1..(counter - 1) : file_array'[k] = file_array[k]
    BY <1>1, <1>3 DEF TypeOK, SetFd
  <1> QED BY <1>4, <1>5, <1>6, <1>7, SyscallStep

\* Every step maps to a step of ProcessTree, or to none, unless a load fails.
LEMMA TreeStep ==
    ASSUME Inv, [Next]_vars
    PROVE  (Tree!ANext \/ mode' = "lost") \/ UNCHANGED Tree!avars
  <1>1. ASSUME mode = "user",
               UNCHANGED <<counter, pcb, frame, cpu, page_directories, file_array>>
        PROVE  Tree!ANext
    BY <1>1, OtherStep DEF Tree!ANext
  <1>2. ASSUME mode = "user", NEW fd \in Fds, NEW d, SetFd(fd, d),
               UNCHANGED <<counter, pcb, frame, cpu, page_directories>>
        PROVE  Tree!ANext
    BY <1>2, OtherStep DEF Tree!ANext
  <1> DEFINE Goal == (Tree!ANext \/ mode' = "lost") \/ UNCHANGED Tree!avars
  <1>3. CASE ExecuteAtLimit \/ ExecuteNull \/ Unsupported \/ UserException
    BY <1>1, <1>3 DEF ExecuteAtLimit, ExecuteNull, Unsupported, UserException, Return, procVars
  <1>4. ASSUME NEW command \in Commands, NEW a \in Arg,
               ExecuteNotFound(command, a) \/ ExecuteLoadFails(command, a)
        PROVE  Goal
    BY <1>1, <1>4 DEF ExecuteNotFound, ExecuteLoadFails, procVars
  <1>5. ASSUME NEW command \in Commands \cup {Shell}, NEW a \in Arg,
               ExecuteProgram(command, a)
        PROVE  Goal
    <2>1. command \in Loadable
      BY <1>5 DEF ExecuteProgram
    <2> QED BY <1>5, <2>1, ExecuteStep DEF Tree!ANext
  <1>6. ASSUME NEW status \in Status, Halt(status)
        PROVE  Goal
    BY <1>6, HaltStep, RestartStep DEF Halt, Tree!ANext
  <1>7. ASSUME NEW name \in Commands, Open(name)
        PROVE  Goal
    <2>1. CASE OpenStdStream(name)
      <3>1. 0 \in Fds /\ 1 \in Fds
        BY ConstantAssumption DEF Fds
      <3>2. mode = "user" /\ UNCHANGED <<counter, pcb, frame, cpu, page_directories>>
        BY <2>1 DEF OpenStdStream, procVars
      <3>3. \E fd \in {0, 1} : \E d : SetFd(fd, d)
        BY <2>1 DEF OpenStdStream
      <3> QED BY <1>2, <3>1, <3>2, <3>3
    <2>2. CASE OpenFile(name)
      <3>1. mode = "user" /\ UNCHANGED <<counter, pcb, frame, cpu, page_directories>>
        BY <2>2 DEF OpenFile, procVars
      <3>2. \E fd \in Fds : \E d : SetFd(fd, d)
        BY <2>2 DEF OpenFile, VacantFds
      <3> QED BY <1>2, <3>1, <3>2
    <2>3. CASE OpenFails(name)
      BY <1>1, <2>3 DEF OpenFails, Return, procVars
    <2> QED BY <1>7, <2>1, <2>2, <2>3 DEF Open
  <1>8. ASSUME NEW fd \in (-1)..FileArraySize, Close(fd)
        PROVE  Goal
    <2>0. mode = "user"
      BY <1>8 DEF Close
    <2>1. CASE Return(-1) \/ CallNull
      BY <1>1, <2>0, <2>1 DEF Return, CallNull, procVars
    <2>2. CASE InUse(fd) /\ SetFd(fd, ClosedFd) /\ UNCHANGED <<procVars, page_directories>>
      BY <1>2, <2>0, <2>2 DEF InUse, procVars
    <2> QED BY <1>8, <2>1, <2>2 DEF Close
  <1>9. ASSUME NEW fd \in (-1)..FileArraySize, NEW n \in NBytes,
               Read(fd, n) \/ Write(fd, n)
        PROVE  Goal
    <2>0. mode = "user"
      BY <1>9 DEF Read, Write
    <2>1. ASSUME \E v : Return(v) PROVE Goal
      BY <1>1, <2>0, <2>1 DEF Return, procVars
    <2>2. CASE CallNull
      BY <1>1, <2>0, <2>2 DEF CallNull, procVars
    <2>3. CASE InUse(fd) /\ ReadDispatch(fd, n)
      <3>1. fd \in Fds /\ UNCHANGED <<counter, pcb, frame, cpu, page_directories>>
        BY <2>3 DEF InUse, ReadDispatch, procVars
      <3>2. \E d : SetFd(fd, d)
        BY <2>3 DEF ReadDispatch
      <3> QED BY <1>2, <2>0, <3>1, <3>2
    <2> QED BY <1>9, <2>1, <2>2, <2>3 DEF Read, Write
  <1>10. ASSUME NEW n \in NBytes, Getargs(n)
         PROVE  Goal
    BY <1>1, <1>10 DEF Getargs, Return, procVars
  <1>11. ASSUME NEW inUserPage \in BOOLEAN, Vidmap(inUserPage)
         PROVE  Goal
    <2>1. CASE Return(-1)
      BY <1>1, <1>11, <2>1 DEF Vidmap, Return, procVars
    <2>2. CASE /\ page_directories' = [page_directories EXCEPT ![counter].video = TRUE]
               /\ UNCHANGED <<procVars, file_array>>
      BY <1>11, <2>2, OtherStep DEF Vidmap, procVars, Tree!ANext
    <2> QED BY <1>11, <2>1, <2>2 DEF Vidmap
  <1>12. CASE UNCHANGED vars
    BY <1>12 DEF vars, Tree!avars, Procs
  <1> HIDE DEF Goal
  <1>13. Goal
    BY <1>3, <1>4, <1>5, <1>6, <1>7, <1>8, <1>9, <1>10, <1>11, <1>12 DEF Next, Stopped, Goal
  <1> QED BY <1>13 DEF Goal

\* The process subsystem implements the abstract chain of processes.
THEOREM Refinement == Spec => RefinesTree
  <1>1. Init => Tree!AInit
    <2> SUFFICES ASSUME Init PROVE Tree!AInit
      OBVIOUS
    <2>1. counter = 0 /\ cpu = [file |-> NoFile, pid |-> 0]
      BY DEF Init, InitPaging, NoContext
    <2>2. Procs = [k \in 1..0 |-> Tree!Fresh(NoFile, 0)]
      <3>1. \A k \in 1..0 : FALSE
        OBVIOUS
      <3> QED BY <2>1, <3>1 DEF Procs
    <2> QED BY <2>1, <2>2 DEF Tree!AInit
  <1>2. Inv /\ [Next]_vars => [Tree!ANext \/ mode' = "lost"]_(Tree!avars)
    BY TreeStep
  <1> QED BY <1>1, <1>2, Invariance, PTL DEF Spec, RefinesTree

\* On an image whose executables can all be loaded no step is excepted.
THEOREM RefinementSoundImage ==
    ASSUME Executable \subseteq Loadable
    PROVE  Spec => Tree!ASpec
  <1> DEFINE NotLost == mode # "lost"
  <1>1. Init => NotLost
    BY DEF Init, InitPaging
  <1>2. ASSUME NotLost, [Next]_vars
        PROVE  NotLost'
    <2>1. \A command, a : ~ExecuteLoadFails(command, a)
      BY DEF ExecuteLoadFails
    <2> QED BY <1>2, <2>1
        DEF Next, Stopped, ExecuteAtLimit, ExecuteNull, ExecuteNotFound, ExecuteProgram,
            Halt, HaltShell, HaltChild, Open, OpenStdStream, OpenFile, OpenFails, Close,
            Read, ReadDispatch, Write, Getargs, Vidmap, Unsupported, UserException,
            CallNull, Return, vars
  <1>3. ASSUME NotLost', [Tree!ANext \/ mode' = "lost"]_(Tree!avars)
        PROVE  [Tree!ANext]_(Tree!avars)
    BY <1>3
  <1>4. Spec => []NotLost
    <2> HIDE DEF NotLost
    <2> QED BY <1>1, <1>2, PTL DEF Spec
  <1> HIDE DEF NotLost
  <1> QED BY <1>3, <1>4, Refinement, PTL DEF RefinesTree, Tree!ASpec
=============================================================================
