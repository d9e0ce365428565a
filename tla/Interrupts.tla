----------------------------- MODULE Interrupts -----------------------------
(***************************************************************************)
(* Hardware interrupts: the two 8259 controllers as i8259.c programs them, *)
(* the real-time clock (rtc.c), the boot sequence that brings both up      *)
(* (kernel.c), and rtc_read waiting for a tick.                            *)
(*                                                                         *)
(* An interrupt is taken between two steps of the kernel whenever          *)
(* interrupts are on.  Its handler runs with interrupts off to its         *)
(* send_eoi, and after that only returns, so it is one step.  Handlers     *)
(* save no registers (handler.S): %eax and %edx are what send_eoi left in  *)
(* them, and enable_irq and rtc_read have a step for each use they make of *)
(* them.  A byte is the set of its bits.                                   *)
(***************************************************************************)
EXTENDS Integers, FiniteSets

CONSTANTS
    Devices,     \* IRQ lines of the devices that may interrupt
    Frequencies, \* what programs ask of rtc_write
    WriteSizes   \* the nbytes they ask it with

TIMER_IRQ == 0
KEYBOARD_IRQ == 1
SLAVE == 2
RTC_IRQ == 8
Master == 0..7
Slave == 8..15
Irqs == Master \cup Slave
Bit == 0..7
Bits(n) == {b \in Bit : (n \div 2^b) % 2 = 1}   \* of a number below 256

ASSUME InterruptsAssumption ==
    /\ Devices \subseteq Irqs \ {SLAVE, RTC_IRQ}
    /\ Frequencies \subseteq Int
    /\ WriteSizes \subseteq Int

VARIABLES
    mask,        \* master_mask and slave_mask: the lines whose bit is set
    imr, irr, isr, \* the controllers' mask, request and in-service registers
    rate,        \* register A of the clock: its periodic rate
    pie,         \* register B: periodic interrupts enabled
    regC,        \* register C: an interrupt that has not been acknowledged
    rtc_interrupt_occurred,
    pc,          \* where the kernel is
    iflag,       \* interrupts are on
    irq_num,     \* the parameter of enable_irq
    eax, edx,    \* the registers enable_irq and rtc_read work in
    hz,          \* history: the frequency last asked for and accepted
    ticked,      \* history: the clock has ticked since rtc_read set its flag
    damaged,     \* history: another handler changed %eax under rtc_read's test
    torn         \* history: a handler changed a register enable_irq was using

pic == <<mask, imr, irr, isr>>
clock == <<rate, pie, regC>>
cpu == <<irq_num, eax, edx>>
history == <<ticked, damaged, torn>>
reader == <<cpu, history>>
vars == <<pic, clock, reader, rtc_interrupt_occurred, pc, iflag, hz>>

EOI(n) == {5, 6} \cup Bits(n)                   \* 0x60 | n
CommandPort == {5}                              \* 0x20, of the master
DataPort(n) == IF n \in Master THEN {0, 5} ELSE {0, 5, 7}   \* 0x21, 0xA1

Init ==
    /\ mask = Irqs
    /\ imr = Irqs /\ irr = {} /\ isr = {}
    /\ rate = 6 /\ pie = FALSE /\ regC = FALSE  \* as the BIOS leaves it
    /\ rtc_interrupt_occurred = 0
    /\ pc = "i8259_init" /\ iflag = FALSE
    /\ irq_num = 0 /\ eax = {} /\ edx = {}
    /\ hz = 1024 /\ ticked = FALSE /\ damaged = FALSE /\ torn = FALSE

-----------------------------------------------------------------------------
(* The devices and the controllers *)

\* A device other than the clock raises its line.
Raise(n) ==
    /\ n \notin irr
    /\ irr' = irr \cup {n}
    /\ UNCHANGED <<mask, imr, isr, clock, reader, rtc_interrupt_occurred, pc,
                   iflag, hz>>

\* The clock raises its line once, until register C is read.
Tick ==
    /\ pie /\ rate # 0 /\ ~regC
    /\ regC' = TRUE
    /\ irr' = irr \cup {RTC_IRQ}
    /\ UNCHANGED <<mask, imr, isr, rate, pie, reader, rtc_interrupt_occurred,
                   pc, iflag, hz>>

\* Priorities: the slave's lines all sit between the master's 2 and 3.
Rank(n) == IF n \in Master THEN 16 * n ELSE 16 * SLAVE + (n - 7)

Deliverable(n) ==
    /\ n \in irr \ imr
    /\ n \in Slave => SLAVE \notin imr
    /\ \A s \in isr : Rank(n) < Rank(s)

\* The processor acknowledges the most urgent request, and eoi ends it.
Acknowledge(n, eoi) ==
    /\ iflag
    /\ Deliverable(n)
    /\ \A m \in irr : Deliverable(m) => Rank(n) <= Rank(m)
    /\ irr' = irr \ {n}
    /\ isr' = (isr \cup {n} \cup (IF n \in Slave THEN {SLAVE} ELSE {})) \ eoi
    /\ UNCHANGED <<mask, imr>>

-----------------------------------------------------------------------------
(* i8259.c *)

\* ICW1 clears the controllers' masks; master_mask and slave_mask stay 0xff.
I8259Init ==
    /\ pc = "i8259_init"
    /\ pc' = "rtc_init"
    /\ imr' = {} /\ irr' = {} /\ isr' = {}
    /\ UNCHANGED <<mask, clock, reader, rtc_interrupt_occurred, iflag, hz>>

\* The lines of a controller, and the byte of a set of lines that is its.
Half(n) == IF n \in Master THEN Master ELSE Slave
First(n) == IF n \in Master THEN 0 ELSE 8
ByteOf(lines, n) == {b \in Bit : First(n) + b \in lines}
LinesOf(byte, n) == {First(n) + b : b \in byte}
WithHalf(lines, byte, n) == (lines \ Half(n)) \cup LinesOf(byte, n)

\* enable_irq(n), called with interrupts on: the switch jumps through %eax.
EnableIrq(label, n) ==
    /\ pc = label /\ pc' = "jump"
    /\ irq_num' = n
    /\ eax' = Bits(n)
    /\ UNCHANGED <<pic, clock, edx, history, rtc_interrupt_occurred, iflag, hz>>

\* A step of enable_irq that works in the registers only.
Register(from, to, a, d) ==
    /\ pc = from /\ pc' = to
    /\ eax' = a /\ edx' = d
    /\ UNCHANGED <<pic, clock, irq_num, history, rtc_interrupt_occurred, iflag, hz>>

\* What lies where an EOI byte sends the switch is not followed.
Jump == Register("jump", IF eax = Bits(irq_num) THEN "load" ELSE "lost", eax, edx)

\* master_mask = constant & master_mask, or slave_mask: load, and, store.
LoadMask == Register("load", "and", Bit \ {irq_num - First(irq_num)}, ByteOf(mask, irq_num))
AndMask == Register("and", "store", eax \cap edx, edx)
StoreMask ==
    /\ pc = "store" /\ pc' = "reload"
    /\ mask' = WithHalf(mask, eax, irq_num)
    /\ UNCHANGED <<imr, irr, isr, clock, reader, rtc_interrupt_occurred, iflag, hz>>

\* outb of the mask: the byte, the port, and the instruction itself.
LoadByte == Register("reload", "port", ByteOf(mask, irq_num), edx)
LoadPort == Register("port", "outb", eax, DataPort(irq_num))

\* Where boot goes on after enable_irq(n).
After(n) == CASE n = SLAVE -> "enable_rtc"
              [] n = RTC_IRQ -> "keyboard_init"
              [] n = KEYBOARD_IRQ -> "execute"

\* Wrong: one bit of the controller's mask instead of the whole byte.
OutOneBit ==
    /\ pc = "outb" /\ pc' = After(irq_num)
    /\ imr' = imr \ {irq_num}
    /\ UNCHANGED <<mask, irr, isr, clock, reader, rtc_interrupt_occurred, iflag, hz>>

\* A whole mask byte goes to the controller; after a handler it is the
\* handler's EOI again, to the port of the handler's EOI.
OutMask ==
    /\ pc = "outb" /\ pc' = After(irq_num)
    /\ IF edx = DataPort(irq_num)
       THEN imr' = WithHalf(imr, eax, irq_num) /\ UNCHANGED isr
       ELSE isr' = {n \in isr : EOI(n) # eax} /\ UNCHANGED imr
    /\ UNCHANGED <<mask, irr, clock, reader, rtc_interrupt_occurred, iflag, hz>>

EnableStep == Jump \/ LoadMask \/ AndMask \/ StoreMask \/ LoadByte \/ LoadPort \/ OutMask

\* Wrong: the master is not told.
SendEoiSlaveOnly(n) == {n}

\* send_eoi: the in-service bits it clears.
SendEoi(n) == IF n \in Master THEN {n} ELSE {n, SLAVE}

-----------------------------------------------------------------------------
(* The handlers *)

\* Where enable_irq has something in a register that it is going to use.
InRegisters == {"jump", "and", "store", "port", "outb"}

\* When a handler returns the registers are those of its last outb.
Clobber(eoi) ==
    /\ eax' = eoi /\ edx' = CommandPort
    /\ torn' = (torn \/ pc \in InRegisters)
    /\ UNCHANGED irq_num

RtcHandler ==
    /\ Acknowledge(RTC_IRQ, SendEoi(RTC_IRQ))
    /\ regC' = FALSE
    /\ rtc_interrupt_occurred' = 0
    /\ ticked' = TRUE
    /\ Clobber(EOI(SLAVE))
    /\ UNCHANGED <<rate, pie, pc, iflag, hz, damaged>>

KeyboardHandler ==
    /\ Acknowledge(KEYBOARD_IRQ, SendEoi(KEYBOARD_IRQ))
    /\ Clobber(EOI(KEYBOARD_IRQ))
    /\ damaged' = (damaged \/ pc = "test")
    /\ UNCHANGED <<clock, rtc_interrupt_occurred, pc, iflag, hz, ticked>>

\* undef_interrupt, the handler of every other line: cli, and spin.
UndefInterrupt(n) ==
    /\ n \notin {KEYBOARD_IRQ, RTC_IRQ}
    /\ Acknowledge(n, {})
    /\ pc' = "hung" /\ iflag' = FALSE
    /\ UNCHANGED <<clock, reader, rtc_interrupt_occurred, hz>>

\* while (1);
Spin == pc \in {"hung", "lost"} /\ UNCHANGED vars

Handler ==
    \/ RtcHandler
    \/ KeyboardHandler
    \/ \E n \in Devices : UndefInterrupt(n)

-----------------------------------------------------------------------------
(* The boot, from i8259_init on *)

\* rtc_init up to its sti: periodic interrupts, twice a second.
RtcInit ==
    /\ pc = "rtc_init"
    /\ pc' = "enable_slave"
    /\ pie' = TRUE /\ rate' = 15
    /\ hz' = 2
    /\ iflag' = TRUE
    /\ UNCHANGED <<pic, regC, reader, rtc_interrupt_occurred>>

EnableSlave == EnableIrq("enable_slave", SLAVE)
EnableRtc == EnableIrq("enable_rtc", RTC_IRQ)
KeyboardInit == EnableIrq("keyboard_init", KEYBOARD_IRQ)

\* execute turns interrupts off for the program it starts.
Execute ==
    /\ pc = "execute"
    /\ pc' = "user" /\ iflag' = FALSE
    /\ UNCHANGED <<pic, clock, reader, rtc_interrupt_occurred, hz>>

Boot ==
    \/ I8259Init \/ RtcInit \/ EnableSlave \/ EnableRtc \/ KeyboardInit \/ EnableStep
    \/ Execute

-----------------------------------------------------------------------------
(* rtc_write and rtc_read *)

\* Wrong: counted from 17 instead of 16.
RateOneMore(f) == IF f = 0 THEN 0 ELSE 17 - (CHOOSE k \in 1..10 : 2^k = f)

\* The rate for a frequency: 15 for 2 Hz, up to 6 for 1024 Hz.
Rate(f) == IF f = 0 THEN 0 ELSE 16 - (CHOOSE k \in 1..10 : 2^k = f)
Legal == {0} \cup {2^k : k \in 1..10}

\* Any other size or frequency is refused and changes nothing.
RtcWrite(f, nbytes) ==
    /\ pc = "user"
    /\ nbytes = 4 /\ f \in Legal
    /\ rate' = Rate(f)
    /\ hz' = f
    /\ UNCHANGED <<pic, pie, regC, reader, rtc_interrupt_occurred, pc, iflag>>

\* The system call read turns interrupts on, whatever it reads.
ReadOf(label) ==
    /\ pc = "user"
    /\ pc' = label /\ iflag' = TRUE
    /\ UNCHANGED <<pic, clock, reader, rtc_interrupt_occurred, hz>>
RtcRead == ReadOf("arm")
OtherRead == ReadOf("other")

\* Wrong: waits for whatever value the flag has.
ArmNot ==
    /\ pc = "arm"
    /\ pc' = "poll"
    /\ ticked' = FALSE /\ damaged' = FALSE
    /\ UNCHANGED <<pic, clock, cpu, torn, iflag, hz, rtc_interrupt_occurred>>

\* rtc_interrupt_occurred = 1;
Arm ==
    /\ pc = "arm"
    /\ pc' = "poll"
    /\ rtc_interrupt_occurred' = 1
    /\ ticked' = FALSE /\ damaged' = FALSE
    /\ UNCHANGED <<pic, clock, cpu, torn, iflag, hz>>

\* while (rtc_interrupt_occurred == 1), a load and a test.
Load ==
    /\ pc = "poll"
    /\ pc' = "test"
    /\ eax' = Bits(rtc_interrupt_occurred)
    /\ UNCHANGED <<pic, clock, irq_num, edx, history, rtc_interrupt_occurred, iflag, hz>>
Test ==
    /\ pc = "test"
    /\ pc' = IF eax = Bits(1) THEN "poll" ELSE "return"
    /\ UNCHANGED <<pic, clock, reader, rtc_interrupt_occurred, iflag, hz>>

\* iret restores the program's flags.
Return ==
    /\ pc \in {"return", "other"}
    /\ pc' = "user" /\ iflag' = FALSE
    /\ UNCHANGED <<pic, clock, reader, rtc_interrupt_occurred, hz>>

ReadStep == Arm \/ Load \/ Test \/ Return

Next ==
    \/ \E n \in Devices : Raise(n)
    \/ Tick
    \/ Handler \/ Spin
    \/ Boot
    \/ \E f \in Frequencies, n \in WriteSizes : RtcWrite(f, n)
    \/ RtcRead \/ OtherRead
    \/ ReadStep

\* The clock ticks, the processor goes on, and it takes the interrupts that wait;
\* the clock's too when that is again and again the most urgent one: keys are
\* not pressed so fast that the keyboard is always waiting.
Spec ==
    /\ Init /\ [][Next]_vars
    /\ WF_vars(Tick) /\ WF_vars(ReadStep)
    /\ WF_vars(Handler) /\ SF_vars(RtcHandler)

-----------------------------------------------------------------------------
(* Correctness *)

Enabling == {"jump", "load", "and", "store", "reload", "port", "outb"}
BootLabels == {"i8259_init", "rtc_init", "enable_slave", "enable_rtc",
               "keyboard_init", "execute"} \cup Enabling
Waiting == {"arm", "poll", "test", "return"}

\* The types of the registers and counters, and of the flags.
RegistersOK ==
    /\ mask \subseteq Irqs /\ imr \subseteq Irqs
    /\ irr \subseteq Irqs /\ isr \subseteq Irqs
    /\ rate \in 0..15
    /\ rtc_interrupt_occurred \in {0, 1}
    /\ pc \in BootLabels \cup Waiting \cup {"user", "other", "hung", "lost"}
    /\ irq_num \in Irqs /\ eax \subseteq Bit /\ edx \subseteq Bit
    /\ hz \in Int
FlagsOK ==
    /\ pie \in BOOLEAN /\ regC \in BOOLEAN
    /\ iflag \in BOOLEAN
    /\ ticked \in BOOLEAN /\ damaged \in BOOLEAN /\ torn \in BOOLEAN

\* Every variable keeps its type; in particular rtc_write never puts a rate
\* beyond four bits into register A, where it would change other bits.
TypeOK == RegistersOK /\ FlagsOK

\* Once rtc_init has enabled its lines no interrupt without a handler is
\* taken any more, although i8259_init never writes the masks: the bytes
\* enable_irq writes cover every other line of both controllers, unless a
\* handler has come in where enable_irq held a mask or a port in a register.
InRtcInit == \/ pc \in {"enable_slave", "enable_rtc"}
             \/ pc \in Enabling /\ irq_num \in {SLAVE, RTC_IRQ}
UndefOnlyInBoot == [][(pc' = "hung" /\ ~torn) => InRtcInit \/ pc = "hung"]_vars

\* rtc_read comes back only after a tick that happened since it set its flag,
\* however long ago the last one was, unless another handler has changed %eax
\* between its load and its test.
WaitsForTick == (pc = "return" /\ ~damaged) => ticked

\* The clock runs at the frequency the last successful rtc_write asked for,
\* 2 Hz before the first: 32768 >> (rate - 1), and 0 turns it off.
FrequencyOf(r) == IF r = 0 THEN 0 ELSE 32768 \div 2^(r - 1)
RateIsAsked == pc \notin BootLabels => hz = FrequencyOf(rate)

\* rtc_read comes back if the clock is not turned off, however often it is
\* called and whatever keys are pressed: each tick is acknowledged in the clock
\* and in both controllers, so the next one arrives; unless boot has left a
\* wrong mask behind.
RtcReadReturns == (pc \in Waiting /\ rate # 0 /\ ~torn) ~> pc = "user"

\* What these rest on.  Interrupts stay off before the masks matter, and
\* enable_irq is called for the three lines.
BootState ==
    /\ pc \in {"i8259_init", "rtc_init"} => ~iflag
    /\ pc \in Enabling => irq_num \in {SLAVE, RTC_IRQ, KEYBOARD_IRQ}

\* If no handler has come in between, the masks are those of the lines enabled
\* so far, and the registers hold what enable_irq has put there.
EnabledBefore(n) == CASE n = SLAVE -> {}
                      [] n = RTC_IRQ -> {SLAVE}
                      [] n = KEYBOARD_IRQ -> {SLAVE, RTC_IRQ}
Enabled ==
    IF pc \in {"i8259_init", "rtc_init", "enable_slave"} THEN {}
    ELSE IF pc \in {"jump", "load", "and", "store"} THEN EnabledBefore(irq_num)
    ELSE IF pc \in {"reload", "port", "outb"} THEN EnabledBefore(irq_num) \cup {irq_num}
    ELSE IF pc = "enable_rtc" THEN {SLAVE}
    ELSE IF pc = "keyboard_init" THEN {SLAVE, RTC_IRQ}
    ELSE {SLAVE, RTC_IRQ, KEYBOARD_IRQ}
RegisterState ==
    /\ pc = "jump" => eax = Bits(irq_num)
    /\ pc = "and" => /\ edx = ByteOf(mask, irq_num)
                     /\ eax = Bit \ {irq_num - First(irq_num)}
    /\ pc = "store" => eax = ByteOf(mask, irq_num) \ {irq_num - First(irq_num)}
    /\ pc \in {"port", "outb"} => eax = ByteOf(mask, irq_num)
    /\ pc = "outb" => edx = DataPort(irq_num)
    /\ pc # "lost"

\* The controllers' masks are copies of the kernel's from the first enable_irq
\* of each on.
CopyState ==
    /\ pc = "enable_rtc" \/ (pc \in Enabling /\ irq_num = RTC_IRQ) =>
          imr \cap Master = mask \cap Master
    /\ pc \in Enabling /\ irq_num = KEYBOARD_IRQ => imr = Irqs \ {SLAVE, RTC_IRQ}
    /\ pc \in {"keyboard_init", "execute", "user", "other"} \cup Waiting => imr = mask
MaskState == (~torn /\ pc # "hung") => mask = Irqs \ Enabled /\ RegisterState /\ CopyState

\* The flag rtc_read set is down, or was seen down, only after a tick.
WaitState ==
    /\ (pc \in {"poll", "test"} /\ rtc_interrupt_occurred = 0) => ticked
    /\ (pc = "test" /\ eax # Bits(1) /\ ~damaged) => ticked
    /\ WaitsForTick

\* rtc_init sets the clock before it lets interrupts in, one of which may hang.
ClockState == pc \notin {"i8259_init", "rtc_init"} => hz = FrequencyOf(rate)

\* The inductive invariant.
Inv == TypeOK /\ BootState /\ MaskState /\ WaitState /\ ClockState

-----------------------------------------------------------------------------
(* A statement of the repository that the code does not meet *)

\* "Interrupt masks to determine which interrupts are enabled and disabled"
\* (i8259.c): no interrupt is taken while its bit of the mask is set.
MasksDecide == [][\A n \in irr \ irr' : n \notin mask \/ pc = "i8259_init"]_vars
=============================================================================
