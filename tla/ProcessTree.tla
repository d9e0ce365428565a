---------------------------- MODULE ProcessTree ----------------------------
(***************************************************************************)
(* What the process subsystem promises, without page directories, kernel   *)
(* stacks or process control blocks: processes form a chain, only the last *)
(* one runs, execute puts a fresh process on the end of the chain, halt    *)
(* takes it off and resumes its parent exactly as it was suspended, and a  *)
(* system call of the running process never touches a suspended one.       *)
(* Process.tla implements this specification.                              *)
(***************************************************************************)
EXTENDS Integers

CONSTANTS
    MaxProc,    \* how many processes can be alive
    Program,    \* the programs that can be run
    Arg,        \* the argument strings
    FreshFds,   \* the descriptor table every process starts with
    NoProgram   \* what the processor runs before the first process

VARIABLES
    procs,      \* the chain: procs[1] is the root, the last one runs
    depth,      \* its length
    cpu         \* the user context on the processor: whose, of which program

avars == <<procs, depth, cpu>>

\* A process that has just been started.
Fresh(f, a) == [prog |-> f, arg |-> a, fds |-> FreshFds, video |-> FALSE]

AInit ==
    /\ depth = 0
    /\ procs = [k \in 1..0 |-> Fresh(NoProgram, 0)]
    /\ cpu = [file |-> NoProgram, pid |-> 0]

\* The running process (the boot code, for the first) starts a program.
AExecute(f, a) ==
    /\ depth < MaxProc
    /\ depth' = depth + 1
    /\ procs' = [k \in 1..(depth + 1) |->
                    IF k = depth + 1 THEN Fresh(f, a) ELSE procs[k]]
    /\ cpu' = [file |-> f, pid |-> depth + 1]

\* The running process ends; its parent goes on where it called execute.
AHalt ==
    /\ depth > 1
    /\ depth' = depth - 1
    /\ procs' = [k \in 1..(depth - 1) |-> procs[k]]
    /\ cpu' = [file |-> procs[depth - 1].prog, pid |-> depth - 1]

\* Any other system call changes the resources of the running process only.
ASyscall ==
    /\ depth > 0
    /\ DOMAIN procs' = 1..depth
    /\ \A k \in 1..(depth - 1) : procs'[k] = procs[k]
    /\ procs'[depth].prog = procs[depth].prog
    /\ procs'[depth].arg = procs[depth].arg
    /\ UNCHANGED <<depth, cpu>>

ANext ==
    \/ \E f \in Program, a \in Arg : AExecute(f, a)
    \/ AHalt
    \/ ASyscall

ASpec == AInit /\ [][ANext]_avars
=============================================================================
