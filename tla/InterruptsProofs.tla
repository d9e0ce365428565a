-------------------------- MODULE InterruptsProofs --------------------------
(***************************************************************************)
(* Proofs about Interrupts, for every set of devices, frequencies and      *)
(* sizes.                                                                  *)
(***************************************************************************)
EXTENDS Interrupts, TLAPS

\* A frequency that rtc_write accepts has one of the sixteen rates.
LEMMA RateType == \A f \in Legal : Rate(f) \in 0..15
  <1> SUFFICES ASSUME NEW f \in Legal, f # 0
               PROVE  Rate(f) \in 0..15
    BY DEF Rate
  <1> DEFINE k0 == CHOOSE k \in 1..10 : 2^k = f
  <1>1. \E k \in 1..10 : 2^k = f
    BY DEF Legal
  <1>2. k0 \in 1..10
    BY <1>1
  <1>3. Rate(f) = 16 - k0
    BY DEF Rate
  <1> HIDE DEF k0
  <1> QED BY <1>2, <1>3

\* The lines of the two controllers are different ones.
LEMMA Lines ==
    /\ KEYBOARD_IRQ \in Master /\ SLAVE \in Master /\ RTC_IRQ \in Slave
    /\ KEYBOARD_IRQ # SLAVE
    /\ \A n \in Slave : n \notin Master
    /\ \A n : n \in Irqs <=> n \in Master \/ n \in Slave
  BY DEF KEYBOARD_IRQ, SLAVE, RTC_IRQ, Master, Slave, Irqs

\* A byte has the bits it has, whatever number it is of.
LEMMA ByteTypes ==
    /\ \A n : Bits(n) \subseteq Bit /\ EOI(n) \subseteq Bit /\ DataPort(n) \subseteq Bit
    /\ \A lines, n : ByteOf(lines, n) \subseteq Bit
    /\ CommandPort \subseteq Bit
  BY DEF Bits, EOI, DataPort, ByteOf, CommandPort, Bit

\* A set of lines with the byte of one controller replaced: the other
\* controller's lines stay, and a line of this one is in it with its bit.
LEMMA HalfFacts ==
    ASSUME NEW lines \in SUBSET Irqs, NEW byte \in SUBSET Bit, NEW n \in Irqs
    PROVE  /\ WithHalf(lines, byte, n) \subseteq Irqs
           /\ \A m \in Irqs : m \notin Half(n) =>
                 (m \in WithHalf(lines, byte, n) <=> m \in lines)
           /\ \A m \in Half(n) : m \in WithHalf(lines, byte, n) <=> m - First(n) \in byte
           /\ \A m \in Half(n) : m \in lines <=> m - First(n) \in ByteOf(lines, n)
           /\ Half(n) \subseteq Irqs /\ n \in Half(n)
  <1>1. \A m : m \in LinesOf(byte, n) <=> \E b \in byte : m = First(n) + b
    BY DEF LinesOf
  <1>2. \A m \in Half(n) : m \in Int /\ m - First(n) \in Bit /\ First(n) + (m - First(n)) = m
    BY DEF Half, First, Master, Slave, Bit
  <1>3. \A b \in Bit : First(n) + b \in Half(n) /\ (First(n) + b) - First(n) = b
    BY DEF Half, First, Master, Slave, Bit
  <1>4. Half(n) \subseteq Irqs /\ n \in Half(n)
    BY DEF Half, Irqs
  <1>5. \A m : m \in WithHalf(lines, byte, n)
               <=> (m \in lines /\ m \notin Half(n)) \/ m \in LinesOf(byte, n)
    BY DEF WithHalf
  <1>6. \A m \in LinesOf(byte, n) : m \in Half(n) /\ m - First(n) \in byte
    BY <1>1, <1>3
  <1>7. \A m \in Half(n) : m - First(n) \in byte => m \in LinesOf(byte, n)
    BY <1>1, <1>2
  <1>8. \A m \in Half(n) : m \in lines <=> m - First(n) \in ByteOf(lines, n)
    BY <1>2 DEF ByteOf
  <1> QED BY <1>4, <1>5, <1>6, <1>7, <1>8

\* An acknowledged interrupt leaves the masks alone and the registers inside
\* the sixteen lines.
LEMMA AcknowledgeType ==
    ASSUME RegistersOK, NEW n \in Irqs, NEW eoi, Acknowledge(n, eoi)
    PROVE  /\ irr' \subseteq Irqs /\ isr' \subseteq Irqs
           /\ mask' = mask /\ imr' = imr
           /\ n \in irr \ imr
  <1>1. mask' = mask /\ imr' = imr /\ n \in irr \ imr
    BY DEF Acknowledge, Deliverable
  <1>2. irr' = irr \ {n}
    BY DEF Acknowledge
  <1>3. isr' = (isr \cup {n} \cup (IF n \in Slave THEN {SLAVE} ELSE {})) \ eoi
    BY DEF Acknowledge
  <1>4. \A x \in isr' : x \in isr \/ x = n \/ x = SLAVE
    BY <1>3
  <1> QED BY <1>1, <1>2, <1>4, Lines DEF RegistersOK

\* Every step keeps the registers in their types.
LEMMA RegistersStep ==
    ASSUME RegistersOK, BootState, [Next]_vars
    PROVE  RegistersOK'
  <1>1. ASSUME NEW n \in Devices, Raise(n)
        PROVE  RegistersOK'
    BY <1>1, InterruptsAssumption DEF RegistersOK, Raise, clock, reader, cpu
  <1>2. CASE Tick
    BY <1>2, Lines DEF RegistersOK, Tick, reader, cpu
  <1>3. CASE RtcHandler
    BY <1>3, AcknowledgeType, Lines, ByteTypes DEF RegistersOK, RtcHandler, Clobber
  <1>4. CASE KeyboardHandler
    BY <1>4, AcknowledgeType, Lines, ByteTypes DEF RegistersOK, KeyboardHandler, Clobber, clock
  <1>5. ASSUME NEW n \in Devices, UndefInterrupt(n)
        PROVE  RegistersOK'
    <2>1. n \in Irqs
      BY InterruptsAssumption
    <2> QED BY <1>5, <2>1, AcknowledgeType DEF RegistersOK, UndefInterrupt, clock, reader, cpu
  <1>6. CASE I8259Init \/ RtcInit \/ Execute
    BY <1>6 DEF RegistersOK, I8259Init, RtcInit, Execute, BootLabels, pic, clock, reader, cpu
  <1>10. CASE EnableSlave \/ EnableRtc \/ KeyboardInit
    BY <1>10, Lines, ByteTypes
    DEF RegistersOK, EnableSlave, EnableRtc, KeyboardInit, EnableIrq, BootLabels, Enabling,
        pic, clock
  <1>11. CASE Jump \/ LoadMask \/ AndMask \/ LoadByte \/ LoadPort
    <2>1. /\ eax' \subseteq Bit /\ edx' \subseteq Bit
          /\ pc' \in Enabling \cup {"lost"}
      BY <1>11, ByteTypes
      DEF RegistersOK, Jump, LoadMask, AndMask, LoadByte, LoadPort, Register, Enabling
    <2>2. UNCHANGED <<pic, clock, irq_num, rtc_interrupt_occurred, hz>>
      BY <1>11 DEF Jump, LoadMask, AndMask, LoadByte, LoadPort, Register
    <2> QED BY <2>1, <2>2 DEF RegistersOK, BootLabels, pic, clock
  <1>12. CASE StoreMask
    <2>1. mask' \subseteq Irqs
      BY <1>12, HalfFacts DEF StoreMask, RegistersOK
    <2> QED BY <1>12, <2>1
            DEF StoreMask, RegistersOK, BootLabels, Enabling, clock, reader, cpu
  <1>13. CASE OutMask
    <2>1. imr' \subseteq Irqs /\ isr' \subseteq Irqs
      <3>1. WithHalf(imr, eax, irq_num) \subseteq Irqs
        BY HalfFacts DEF RegistersOK
      <3> QED BY <1>13, <3>1 DEF OutMask, RegistersOK
    <2>2. pc' \in BootLabels \/ irq_num \notin {SLAVE, RTC_IRQ, KEYBOARD_IRQ}
      BY <1>13 DEF OutMask, After, BootLabels, SLAVE, RTC_IRQ, KEYBOARD_IRQ
    <2>3. irq_num \in {SLAVE, RTC_IRQ, KEYBOARD_IRQ}
      BY <1>13 DEF OutMask, BootState, Enabling
    <2> QED BY <1>13, <2>1, <2>2, <2>3 DEF OutMask, RegistersOK, clock, reader, cpu
  <1>7. ASSUME NEW f \in Frequencies, NEW n \in WriteSizes, RtcWrite(f, n)
        PROVE  RegistersOK'
    BY <1>7, RateType, InterruptsAssumption DEF RegistersOK, RtcWrite, pic, reader, cpu
  <1>8. CASE RtcRead \/ OtherRead \/ ReadStep
    BY <1>8, ByteTypes
    DEF RegistersOK, RtcRead, OtherRead, ReadOf, ReadStep, Arm, Load, Test,
        Return, Waiting, pic, clock, reader, cpu
  <1>9. CASE UNCHANGED vars
    BY <1>9 DEF RegistersOK, vars, pic, clock, reader, cpu
  <1> QED BY <1>1, <1>2, <1>3, <1>4, <1>5, <1>6, <1>7, <1>8, <1>9, <1>10, <1>11, <1>12, <1>13
          DEF Next, Boot, EnableStep, Handler, Spin

\* Every step keeps the flags Boolean.
LEMMA FlagsStep ==
    ASSUME FlagsOK, [Next]_vars
    PROVE  FlagsOK'
  <1> USE DEF FlagsOK, pic, clock, reader, history
  <1>1. CASE UNCHANGED <<clock, iflag, ticked, damaged, torn>>
    BY <1>1
  <1>2. CASE Tick
    BY <1>2, Zenon DEF Tick
  <1>3. CASE RtcHandler
    BY <1>3, Zenon DEF RtcHandler, Clobber
  <1>4. CASE KeyboardHandler
    BY <1>4, Zenon DEF KeyboardHandler, Clobber
  <1>5. ASSUME NEW n \in Devices, UndefInterrupt(n)
        PROVE  FlagsOK'
    BY <1>5, Zenon DEF UndefInterrupt
  <1>6. CASE RtcInit
    BY <1>6, Zenon DEF RtcInit
  <1>7. CASE Execute \/ Return
    BY <1>7, Zenon DEF Execute, Return
  <1>8. CASE RtcRead \/ OtherRead
    BY <1>8, Zenon DEF RtcRead, OtherRead, ReadOf
  <1>9. CASE Arm
    BY <1>9, Zenon DEF Arm
  <1>10. ASSUME NEW f \in Frequencies, NEW n \in WriteSizes, RtcWrite(f, n)
         PROVE  FlagsOK'
    BY <1>10, Zenon DEF RtcWrite
  <1> QED BY <1>1, <1>2, <1>3, <1>4, <1>5, <1>6, <1>7, <1>8, <1>9, <1>10
          DEF Next, Boot, Handler, Spin, ReadStep, Raise, I8259Init, EnableSlave,
              EnableRtc, KeyboardInit, EnableIrq, EnableStep, Jump, LoadMask, AndMask, StoreMask,
              LoadByte, LoadPort, OutMask, Register, Load, Test, vars

\* Interrupts stay off until rtc_init turns them on, and enable_irq knows its line.
LEMMA BootStep ==
    ASSUME BootState, [Next]_vars
    PROVE  BootState'
  <1> USE DEF BootState, Enabling
  <1>1. ASSUME UNCHANGED <<pc, iflag, irq_num>>
        PROVE  BootState'
    BY <1>1
  <1>2. ASSUME NEW n \in Devices, UndefInterrupt(n)
        PROVE  BootState'
    BY <1>2 DEF UndefInterrupt
  <1>3. CASE I8259Init \/ RtcInit \/ EnableSlave \/ EnableRtc \/ KeyboardInit \/ Execute
    BY <1>3 DEF I8259Init, RtcInit, EnableSlave, EnableRtc, KeyboardInit, EnableIrq, Execute
  <1>4. CASE EnableStep
    BY <1>4 DEF EnableStep, Jump, LoadMask, AndMask, StoreMask, LoadByte, LoadPort, OutMask,
                Register, After, reader, cpu, SLAVE, RTC_IRQ, KEYBOARD_IRQ
  <1>5. CASE RtcRead \/ OtherRead \/ ReadStep
    BY <1>5 DEF RtcRead, OtherRead, ReadOf, ReadStep, Arm, Load, Test, Return
  <1> QED BY <1>1, <1>2, <1>3, <1>4, <1>5
          DEF Next, Boot, Handler, Spin, Raise, Tick, RtcHandler, KeyboardHandler, Clobber,
              RtcWrite, vars, reader, cpu

\* The lines enable_irq is called for, and what has been enabled before each.
LEMMA Order ==
    /\ EnabledBefore(SLAVE) = {} /\ EnabledBefore(RTC_IRQ) = {SLAVE}
    /\ EnabledBefore(KEYBOARD_IRQ) = {SLAVE, RTC_IRQ}
    /\ After(SLAVE) = "enable_rtc" /\ After(RTC_IRQ) = "keyboard_init"
    /\ After(KEYBOARD_IRQ) = "execute"
    /\ SLAVE # RTC_IRQ /\ RTC_IRQ # KEYBOARD_IRQ /\ SLAVE # KEYBOARD_IRQ
    /\ {SLAVE, RTC_IRQ, KEYBOARD_IRQ} \subseteq Irqs
    /\ \A n \in {SLAVE, KEYBOARD_IRQ} : Half(n) = Master
    /\ Half(RTC_IRQ) = Slave
  BY DEF EnabledBefore, After, SLAVE, RTC_IRQ, KEYBOARD_IRQ, Irqs, Master, Slave, Half

\* A handler that comes in where enable_irq has nothing in a register changes
\* nothing of this.
LEMMA MaskHandler ==
    ASSUME MaskState, RtcHandler \/ KeyboardHandler
    PROVE  MaskState'
  <1>1. UNCHANGED <<mask, imr, pc, irq_num>> /\ torn' = (torn \/ pc \in InRegisters)
    BY DEF RtcHandler, KeyboardHandler, Clobber, Acknowledge
  <1>2. CASE torn'
    BY <1>2 DEF MaskState
  <1>3. CASE ~torn'
    <2>1. ~torn /\ pc \notin InRegisters
      BY <1>1, <1>3
    <2> QED BY <1>1, <2>1 DEF MaskState, RegisterState, CopyState, Enabled, InRegisters
  <1> QED BY <1>2, <1>3

\* The steps of enable_irq, if no handler has come in: the bit of the line
\* leaves the mask, and the mask goes to the controller.
LEMMA MaskEnable ==
    ASSUME RegistersOK, BootState, MaskState, EnableStep
    PROVE  MaskState'
  <1> SUFFICES ASSUME ~torn', pc' # "hung" PROVE MaskState'
    BY DEF MaskState
  <1>0. /\ pc \in Enabling /\ irq_num' = irq_num /\ ~torn /\ irq_num \in Irqs
        /\ irq_num \in {SLAVE, RTC_IRQ, KEYBOARD_IRQ}
    BY Order DEF EnableStep, Jump, LoadMask, AndMask, StoreMask, LoadByte, LoadPort, OutMask,
           Register, Enabling, reader, cpu, history, BootState
  <1>1. mask = Irqs \ Enabled /\ RegisterState /\ CopyState
    BY <1>0 DEF MaskState, Enabling
  <1> DEFINE bit == irq_num - First(irq_num)
  <1>2. CASE Jump \/ LoadMask \/ AndMask \/ LoadByte \/ LoadPort
    <2>1. UNCHANGED <<mask, imr>>
      BY <1>2 DEF Jump, LoadMask, AndMask, LoadByte, LoadPort, Register, pic
    <2>2. pc' # "lost"
      BY <1>1, <1>2 DEF Jump, LoadMask, AndMask, LoadByte, LoadPort, Register, RegisterState
    <2>3. /\ pc' \in Enabling
          /\ pc' \in {"jump", "load", "and", "store"} <=> pc \in {"jump", "load", "and", "store"}
      BY <1>2, <2>2 DEF Jump, LoadMask, AndMask, LoadByte, LoadPort, Register, Enabling
    <2>4. Enabled' = Enabled
      BY <1>0, <2>3 DEF Enabled, EnabledBefore, Enabling
    <2>5. CopyState'
      BY <1>0, <1>1, <2>1, <2>3 DEF CopyState, Enabling, Waiting
    <2>6. ByteOf(mask, irq_num)' = ByteOf(mask, irq_num)
      BY <1>0, <2>1 DEF ByteOf, First
    <2>7. ByteOf(mask, irq_num) \subseteq Bit
      BY ByteTypes
    <2>8. (Bit \ {bit}) \cap ByteOf(mask, irq_num) = ByteOf(mask, irq_num) \ {bit}
      BY <2>7
    <2>9. RegisterState'
      <3>1. CASE Jump
        BY <2>2, <3>1 DEF Jump, Register, RegisterState
      <3>2. CASE LoadMask
        BY <1>0, <2>6, <3>2 DEF LoadMask, Register, RegisterState
      <3>3. CASE AndMask
        BY <1>0, <1>1, <2>6, <2>8, <3>3 DEF AndMask, Register, RegisterState
      <3>4. CASE LoadByte
        BY <1>0, <2>6, <3>4 DEF LoadByte, Register, RegisterState
      <3>5. CASE LoadPort
        BY <1>0, <1>1, <2>6, <3>5 DEF LoadPort, Register, RegisterState
      <3> QED BY <1>2, <3>1, <3>2, <3>3, <3>4, <3>5
    <2> QED BY <1>1, <2>1, <2>4, <2>5, <2>9 DEF MaskState
  <1>3. CASE StoreMask
    <2>1. /\ pc = "store" /\ pc' = "reload" /\ imr' = imr
          /\ mask' = WithHalf(mask, eax, irq_num)
      BY <1>3 DEF StoreMask
    <2>2. eax = ByteOf(mask, irq_num) \ {bit}
      BY <1>1, <2>1 DEF RegisterState
    <2>3. \A m \in Irqs : m \in mask' <=> m \in mask /\ m # irq_num
      <3>1. mask \in SUBSET Irqs /\ eax \in SUBSET Bit
        BY DEF RegistersOK
      <3>2. \A m \in Irqs : m \notin Half(irq_num) => (m \in mask' <=> m \in mask)
        BY <1>0, <2>1, <3>1, HalfFacts
      <3>3. \A m \in Half(irq_num) : m \in mask' <=> m - First(irq_num) \in eax
        BY <1>0, <2>1, <3>1, HalfFacts
      <3>4. \A m \in Half(irq_num) :
               m \in mask <=> m - First(irq_num) \in ByteOf(mask, irq_num)
        BY <1>0, <3>1, HalfFacts
      <3>5. \A m \in Half(irq_num) : m - First(irq_num) = bit <=> m = irq_num
        BY <1>0 DEF Half, First, Master, Slave, Irqs
      <3>6. irq_num \in Half(irq_num)
        BY <1>0, <3>1, HalfFacts
      <3> QED BY <2>2, <3>2, <3>3, <3>4, <3>5, <3>6
    <2>4. mask' \subseteq Irqs
      BY <1>0, <2>1, HalfFacts DEF RegistersOK
    <2>5. mask' = mask \ {irq_num}
      BY <2>3, <2>4 DEF RegistersOK
    <2>6. Enabled = EnabledBefore(irq_num) /\ Enabled' = EnabledBefore(irq_num) \cup {irq_num}
      BY <1>0, <2>1 DEF Enabled, EnabledBefore
    <2>7. mask' = Irqs \ Enabled'
      BY <1>1, <2>5, <2>6
    <2>8. CopyState'
      <3>1. CASE irq_num = RTC_IRQ
        <4>1. RTC_IRQ \notin Master
          BY Lines
        <4>2. imr \cap Master = mask \cap Master
          BY <1>1, <2>1, <3>1 DEF CopyState, Enabling
        <4>3. imr' \cap Master = mask' \cap Master
          BY <2>1, <2>5, <3>1, <4>1, <4>2
        <4> QED BY <1>0, <2>1, <3>1, <4>3, Order DEF CopyState, Waiting
      <3>2. CASE irq_num # RTC_IRQ
        BY <1>0, <1>1, <2>1, <3>2 DEF CopyState, Enabling, Waiting
      <3> QED BY <3>1, <3>2
    <2>9. RegisterState'
      BY <2>1 DEF RegisterState
    <2> QED BY <2>7, <2>8, <2>9 DEF MaskState
  <1>4. CASE OutMask
    <2>1. pc = "outb" /\ pc' = After(irq_num) /\ mask' = mask
      BY <1>4 DEF OutMask
    <2>2. eax = ByteOf(mask, irq_num)
      BY <1>1, <2>1 DEF RegisterState
    <2>9. imr' = WithHalf(imr, eax, irq_num)
      BY <1>1, <1>4, <2>1 DEF OutMask, RegisterState
    <2>3. \A m \in Irqs : m \in imr' <=> IF m \in Half(irq_num) THEN m \in mask ELSE m \in imr
      <3>1. mask \in SUBSET Irqs /\ eax \in SUBSET Bit /\ imr \in SUBSET Irqs
        BY DEF RegistersOK
      <3>2. \A m \in Irqs : m \notin Half(irq_num) => (m \in imr' <=> m \in imr)
        BY <1>0, <2>9, <3>1, HalfFacts
      <3>3. \A m \in Half(irq_num) : m \in imr' <=> m - First(irq_num) \in eax
        BY <1>0, <2>9, <3>1, HalfFacts
      <3>4. \A m \in Half(irq_num) :
               m \in mask <=> m - First(irq_num) \in ByteOf(mask, irq_num)
        BY <1>0, <3>1, HalfFacts
      <3> QED BY <2>2, <3>2, <3>3, <3>4
    <2>4. imr' \subseteq Irqs
      BY <1>0, <2>9, HalfFacts DEF RegistersOK
    <2>5. mask = Irqs \ (EnabledBefore(irq_num) \cup {irq_num})
      BY <1>1, <2>1 DEF Enabled
    <2>6. CASE irq_num = SLAVE
      <3>1. pc' = "enable_rtc" /\ Half(irq_num) = Master /\ mask = Irqs \ {SLAVE}
        BY <2>1, <2>5, <2>6, Order
      <3>2. imr' \cap Master = mask' \cap Master
        BY <2>1, <2>3, <2>4, <3>1, Lines DEF RegistersOK
      <3> QED BY <2>1, <3>1, <3>2 DEF MaskState, RegisterState, CopyState, Enabled, Enabling,
                                      Waiting
    <2>7. CASE irq_num = RTC_IRQ
      <3>1. /\ pc' = "keyboard_init" /\ Half(irq_num) = Slave
            /\ mask = Irqs \ {SLAVE, RTC_IRQ}
        BY <2>1, <2>5, <2>7, Order
      <3>2. imr \cap Master = mask \cap Master
        BY <1>1, <2>1, <2>7 DEF CopyState, Enabling
      <3>3. \A m \in Irqs : m \in imr' <=> m \in mask
        BY <2>3, <3>1, <3>2, Lines
      <3>4. imr' = mask'
        BY <2>1, <2>4, <3>3 DEF RegistersOK
      <3> QED BY <2>1, <3>1, <3>4 DEF MaskState, RegisterState, CopyState, Enabled, Enabling
    <2>8. CASE irq_num = KEYBOARD_IRQ
      <3>1. /\ pc' = "execute" /\ Half(irq_num) = Master
            /\ mask = Irqs \ {SLAVE, RTC_IRQ, KEYBOARD_IRQ}
        BY <2>1, <2>5, <2>8, Order
      <3>2. imr = Irqs \ {SLAVE, RTC_IRQ}
        BY <1>1, <2>1, <2>8 DEF CopyState, Enabling
      <3>3. \A m \in Irqs : m \in imr' <=> m \in mask
        BY <2>3, <3>1, <3>2, Lines
      <3>4. imr' = mask'
        BY <2>1, <2>4, <3>3 DEF RegistersOK
      <3> QED BY <2>1, <3>1, <3>4 DEF MaskState, RegisterState, CopyState, Enabled, Enabling
    <2> QED BY <1>0, <2>6, <2>7, <2>8
  <1> QED BY <1>2, <1>3, <1>4 DEF EnableStep

\* Every step keeps the masks those of the lines enabled so far.
LEMMA MaskStep ==
    ASSUME RegistersOK, BootState, MaskState, [Next]_vars
    PROVE  MaskState'
  <1> USE DEF Enabling, Waiting
  <1>1. ASSUME UNCHANGED <<mask, imr, pc, irq_num, eax, edx, torn>>
        PROVE  MaskState'
    BY <1>1 DEF MaskState, Enabled, RegisterState, CopyState, ByteOf, First
  <1>2. ASSUME NEW n \in Devices, UndefInterrupt(n)
        PROVE  MaskState'
    BY <1>2 DEF MaskState, UndefInterrupt
  <1>3. CASE I8259Init
    BY <1>3 DEF MaskState, I8259Init, Enabled, RegisterState, CopyState, reader, history
  <1>4. CASE RtcInit
    BY <1>4 DEF MaskState, RtcInit, Enabled, RegisterState, CopyState, pic, reader, history
  <1>5. CASE EnableSlave \/ EnableRtc \/ KeyboardInit
    <2>1. /\ pc' = "jump" /\ UNCHANGED <<mask, imr, torn>>
          /\ \/ pc = "enable_slave" /\ irq_num' = SLAVE
             \/ pc = "enable_rtc" /\ irq_num' = RTC_IRQ
             \/ pc = "keyboard_init" /\ irq_num' = KEYBOARD_IRQ
      BY <1>5 DEF EnableSlave, EnableRtc, KeyboardInit, EnableIrq, pic, history
    <2>2. Enabled' = Enabled
      BY <2>1, Order DEF Enabled
    <2>3. RegisterState'
      <3>1. eax' = Bits(irq_num)'
        BY <1>5 DEF EnableSlave, EnableRtc, KeyboardInit, EnableIrq, Bits
      <3> QED BY <2>1, <3>1 DEF RegisterState
    <2>4. ~torn => CopyState'
      BY <2>1, Order DEF MaskState, CopyState, Enabled
    <2> QED BY <2>1, <2>2, <2>3, <2>4 DEF MaskState
  <1>6. CASE Execute \/ RtcRead \/ OtherRead \/ ReadStep
    <2>1. UNCHANGED <<mask, imr, torn>>
      BY <1>6 DEF Execute, RtcRead, OtherRead, ReadOf, ReadStep, Arm, Load, Test, Return, pic,
                  reader, history
    <2>2. /\ pc \in {"execute", "user", "other"} \cup Waiting
          /\ pc' \in {"user", "other"} \cup Waiting
      BY <1>6 DEF Execute, RtcRead, OtherRead, ReadOf, ReadStep, Arm, Load, Test, Return
    <2> QED BY <2>1, <2>2 DEF MaskState, Enabled, RegisterState, CopyState
  <1> QED BY <1>1, <1>2, <1>3, <1>4, <1>5, <1>6, MaskHandler, MaskEnable
          DEF Next, Boot, Handler, Spin, Raise, Tick, RtcWrite, vars, pic, reader, cpu, history

\* Every step keeps rtc_read from seeing its flag down before a tick.
LEMMA WaitStep ==
    ASSUME RegistersOK, BootState, WaitState, [Next]_vars
    PROVE  WaitState'
  <1> USE DEF WaitState, WaitsForTick
  <1>1. ASSUME UNCHANGED <<rtc_interrupt_occurred, pc, eax, ticked, damaged>>
        PROVE  WaitState'
    BY <1>1
  <1>2. CASE RtcHandler
    BY <1>2 DEF RtcHandler, Clobber
  <1>3. CASE KeyboardHandler
    BY <1>3 DEF KeyboardHandler, Clobber
  <1>4. ASSUME NEW n \in Devices, UndefInterrupt(n)
        PROVE  WaitState'
    BY <1>4 DEF UndefInterrupt
  <1>5. CASE Boot \/ RtcRead \/ OtherRead \/ Return
    BY <1>5 DEF Boot, I8259Init, RtcInit, EnableSlave, EnableRtc, KeyboardInit, EnableIrq,
                EnableStep, Jump, LoadMask, AndMask, StoreMask, LoadByte, LoadPort, OutMask,
                Register, After, Execute, RtcRead, OtherRead, ReadOf, Return,
                SLAVE, RTC_IRQ, KEYBOARD_IRQ, BootState, Enabling
  <1>6. CASE Arm
    BY <1>6 DEF Arm
  <1>7. CASE Load
    BY <1>7 DEF Load, RegistersOK, history
  <1>8. CASE Test
    BY <1>8 DEF Test, reader, cpu, history
  <1> QED BY <1>1, <1>2, <1>3, <1>4, <1>5, <1>6, <1>7, <1>8
          DEF Next, Handler, Spin, ReadStep, Raise, Tick, RtcWrite, vars, reader, cpu, history

\* The rate for a frequency makes the clock run at that frequency.
LEMMA RateRuns == \A f \in Legal : FrequencyOf(Rate(f)) = f
  <1> SUFFICES ASSUME NEW f \in Legal, f # 0
               PROVE  FrequencyOf(Rate(f)) = f
    <2>1. \A r : r = 0 => FrequencyOf(r) = 0
      BY DEF FrequencyOf
    <2>2. \A f : f = 0 => Rate(f) = 0
      BY DEF Rate
    <2> QED BY <2>1, <2>2
  <1> DEFINE k0 == CHOOSE k \in 1..10 : 2^k = f
  <1>1. k0 \in 1..10 /\ 2^k0 = f
    <2>1. \E k \in 1..10 : 2^k = f
      BY DEF Legal
    <2> QED BY <2>1
  <1>2. Rate(f) = 16 - k0
    BY DEF Rate
  <1> HIDE DEF k0
  <1>3. FrequencyOf(Rate(f)) = 32768 \div 2^(15 - k0)
    <2>1. Rate(f) # 0 /\ Rate(f) - 1 = 15 - k0
      BY <1>1, <1>2
    <2> QED BY <2>1 DEF FrequencyOf
  <1>4. k0 \in {1, 2, 3, 4, 5, 6, 7, 8, 9, 10}
    BY <1>1
  <1>5. CASE k0 = 1
    <2>1. 15 - 1 = 14 /\ 2^1 = 2 /\ 2^14 = 16384 /\ 32768 \div 16384 = 2
      OBVIOUS
    <2> QED BY <1>1, <1>3, <1>5, <2>1
  <1>6. CASE k0 = 2
    <2>1. 15 - 2 = 13 /\ 2^2 = 4 /\ 2^13 = 8192 /\ 32768 \div 8192 = 4
      OBVIOUS
    <2> QED BY <1>1, <1>3, <1>6, <2>1
  <1>7. CASE k0 = 3
    <2>1. 15 - 3 = 12 /\ 2^3 = 8 /\ 2^12 = 4096 /\ 32768 \div 4096 = 8
      OBVIOUS
    <2> QED BY <1>1, <1>3, <1>7, <2>1
  <1>8. CASE k0 = 4
    <2>1. 15 - 4 = 11 /\ 2^4 = 16 /\ 2^11 = 2048 /\ 32768 \div 2048 = 16
      OBVIOUS
    <2> QED BY <1>1, <1>3, <1>8, <2>1
  <1>9. CASE k0 = 5
    <2>1. 15 - 5 = 10 /\ 2^5 = 32 /\ 2^10 = 1024 /\ 32768 \div 1024 = 32
      OBVIOUS
    <2> QED BY <1>1, <1>3, <1>9, <2>1
  <1>10. CASE k0 = 6
    <2>1. 15 - 6 = 9 /\ 2^6 = 64 /\ 2^9 = 512 /\ 32768 \div 512 = 64
      OBVIOUS
    <2> QED BY <1>1, <1>3, <1>10, <2>1
  <1>11. CASE k0 = 7
    <2>1. 15 - 7 = 8 /\ 2^7 = 128 /\ 2^8 = 256 /\ 32768 \div 256 = 128
      OBVIOUS
    <2> QED BY <1>1, <1>3, <1>11, <2>1
  <1>12. CASE k0 = 8
    <2>1. 15 - 8 = 7 /\ 2^8 = 256 /\ 2^7 = 128 /\ 32768 \div 128 = 256
      OBVIOUS
    <2> QED BY <1>1, <1>3, <1>12, <2>1
  <1>13. CASE k0 = 9
    <2>1. 15 - 9 = 6 /\ 2^9 = 512 /\ 2^6 = 64 /\ 32768 \div 64 = 512
      OBVIOUS
    <2> QED BY <1>1, <1>3, <1>13, <2>1
  <1>14. CASE k0 = 10
    <2>1. 15 - 10 = 5 /\ 2^10 = 1024 /\ 2^5 = 32 /\ 32768 \div 32 = 1024
      OBVIOUS
    <2> QED BY <1>1, <1>3, <1>14, <2>1
  <1> QED BY <1>4, <1>5, <1>6, <1>7, <1>8, <1>9, <1>10, <1>11, <1>12, <1>13, <1>14

\* The clock is set by rtc_init and by what rtc_write accepts.
LEMMA ClockStep ==
    ASSUME BootState, ClockState, [Next]_vars
    PROVE  ClockState'
  <1> USE DEF ClockState
  <1>1. ASSUME UNCHANGED <<rate, hz>>, pc' = pc \/ pc \notin {"i8259_init", "rtc_init"}
        PROVE  ClockState'
    BY <1>1
  <1>2. CASE I8259Init
    BY <1>2 DEF I8259Init
  <1>3. CASE RtcInit
    <2>1. 2^14 = 16384 /\ 32768 \div 16384 = 2
      OBVIOUS
    <2>2. FrequencyOf(15) = 32768 \div 2^14
      BY DEF FrequencyOf
    <2> QED BY <1>3, <2>1, <2>2 DEF RtcInit
  <1>4. ASSUME NEW f \in Frequencies, NEW n \in WriteSizes, RtcWrite(f, n)
        PROVE  ClockState'
    <2>1. f \in Legal /\ rate' = Rate(f) /\ hz' = f
      BY <1>4 DEF RtcWrite
    <2> QED BY <2>1, RateRuns
  <1>5. ASSUME NEW n \in Devices, UndefInterrupt(n)
        PROVE  ClockState'
    <2>1. iflag /\ UNCHANGED <<rate, hz>>
      BY <1>5 DEF UndefInterrupt, Acknowledge, clock
    <2>2. pc \notin {"i8259_init", "rtc_init"}
      BY <2>1 DEF BootState
    <2> QED BY <1>1, <2>1, <2>2
  <1>6. CASE RtcHandler \/ KeyboardHandler
    BY <1>1, <1>6 DEF RtcHandler, KeyboardHandler, clock
  <1>7. CASE Execute \/ RtcRead \/ OtherRead \/ ReadStep
    BY <1>1, <1>7 DEF Execute, RtcRead, OtherRead, ReadOf, ReadStep, Arm, Load, Test, Return, clock
  <1>8. CASE EnableSlave \/ EnableRtc \/ KeyboardInit \/ EnableStep
    BY <1>1, <1>8 DEF EnableSlave, EnableRtc, KeyboardInit, EnableIrq, EnableStep, Jump, LoadMask,
                      AndMask, StoreMask, LoadByte, LoadPort, OutMask, Register, clock
  <1> QED BY <1>1, <1>2, <1>3, <1>4, <1>5, <1>6, <1>7, <1>8
          DEF Next, Handler, Boot, Spin, Raise, Tick, vars, clock

\* The inductive invariant holds in every reachable state.
THEOREM Invariance == Spec => []Inv
  <1>1. Init => RegistersOK /\ BootState /\ MaskState /\ WaitState /\ ClockState
    <2> SUFFICES ASSUME Init PROVE RegistersOK /\ BootState /\ MaskState /\ WaitState /\ ClockState
      OBVIOUS
    <2>1. RegistersOK
      BY DEF Init, RegistersOK, BootLabels, Irqs, Master
    <2>2. BootState /\ WaitState /\ ClockState
      BY DEF Init, BootState, Enabling, WaitState, WaitsForTick, ClockState
    <2>3. MaskState
      BY DEF Init, MaskState, Enabled, RegisterState, CopyState, Enabling, Waiting
    <2> QED BY <2>1, <2>2, <2>3
  <1>2. Init => FlagsOK
    BY Zenon DEF Init, FlagsOK
  <1>3. Inv /\ [Next]_vars => Inv'
    BY RegistersStep, FlagsStep, BootStep, MaskStep, WaitStep, ClockStep DEF Inv, TypeOK
  <1>4. Init => Inv
    BY <1>1, <1>2 DEF Inv, TypeOK
  <1> QED BY <1>3, <1>4, PTL DEF Spec

\* Types, for every set of devices.
THEOREM TypeCorrect == Spec => []TypeOK
  BY Invariance, PTL DEF Inv

\* rtc_read waits for a tick unless another handler damages its test.
THEOREM WaitCorrect == Spec => []WaitsForTick
  BY Invariance, PTL DEF Inv, WaitState

\* The clock runs at the frequency rtc_write was last asked for.
THEOREM RateCorrect == Spec => []RateIsAsked
  <1>1. Inv => RateIsAsked
    BY DEF Inv, ClockState, RateIsAsked, BootLabels
  <1> QED BY <1>1, Invariance, PTL

\* After rtc_init no device can interrupt the kernel without a handler, if no
\* handler has come in where enable_irq had its mask or port in a register.
THEOREM UndefCorrect == Spec => UndefOnlyInBoot
  <1> DEFINE P == (pc' = "hung" /\ ~torn) => InRtcInit \/ pc = "hung"
  <1>1. ASSUME Inv, Next
        PROVE  P
    <2>1. ASSUME NEW n \in Devices, UndefInterrupt(n), ~torn, ~InRtcInit, pc # "hung"
          PROVE  FALSE
      <3>1. n \notin imr
        BY <2>1 DEF UndefInterrupt, Acknowledge, Deliverable
      <3>2. n \in Irqs \ {SLAVE, RTC_IRQ, KEYBOARD_IRQ}
        BY <2>1, InterruptsAssumption DEF UndefInterrupt
      <3>3. iflag
        BY <2>1 DEF UndefInterrupt, Acknowledge
      <3>4. pc \notin {"i8259_init", "rtc_init"}
        BY <1>1, <3>3 DEF Inv, BootState
      <3>5. mask = Irqs \ Enabled /\ RegisterState /\ CopyState
        BY <1>1, <2>1 DEF Inv, MaskState
      <3>6. CASE pc \in Enabling
        <4>1. irq_num = KEYBOARD_IRQ
          BY <1>1, <2>1, <3>6 DEF Inv, BootState, InRtcInit
        <4>2. imr = Irqs \ {SLAVE, RTC_IRQ}
          BY <3>5, <3>6, <4>1 DEF CopyState
        <4> QED BY <3>1, <3>2, <4>2
      <3>7. CASE pc \notin Enabling
        <4>1. pc \in {"keyboard_init", "execute", "user", "other"} \cup Waiting
          BY <1>1, <2>1, <3>4, <3>5, <3>7
          DEF Inv, TypeOK, RegistersOK, BootLabels, InRtcInit, RegisterState
        <4>2. imr = mask
          BY <3>5, <4>1 DEF CopyState
        <4>3. Enabled \subseteq {SLAVE, RTC_IRQ, KEYBOARD_IRQ}
          BY <4>1 DEF Enabled, Waiting
        <4> QED BY <3>1, <3>2, <3>5, <4>2, <4>3
      <3> QED BY <3>6, <3>7
    <2>2. ASSUME NEW n \in Devices, UndefInterrupt(n)
          PROVE  P
      BY <2>1, <2>2
    <2>3. ASSUME pc' # "hung" \/ UNCHANGED pc
          PROVE  P
      BY <2>3
    <2> HIDE DEF P
    <2>4. CASE Boot
      <3>1. pc' # "hung"
        BY <1>1, <2>4
        DEF Boot, I8259Init, RtcInit, EnableSlave, EnableRtc, KeyboardInit, EnableIrq, EnableStep,
            Jump, LoadMask, AndMask, StoreMask, LoadByte, LoadPort, OutMask, Register, After,
            Execute, Inv, BootState, Enabling, SLAVE, RTC_IRQ, KEYBOARD_IRQ
      <3> QED BY <2>3, <3>1
    <2>5. CASE RtcRead \/ OtherRead \/ ReadStep
      BY <2>3, <2>5 DEF RtcRead, OtherRead, ReadOf, ReadStep, Arm, Load, Test, Return
    <2> QED BY <1>1, <2>2, <2>3, <2>4, <2>5
            DEF Next, Handler, Spin, Raise, Tick, RtcHandler, KeyboardHandler, RtcWrite, vars
  <1>2. ASSUME Inv, [Next]_vars
        PROVE  [P]_vars
    BY <1>1, <1>2
  <1> QED BY <1>2, Invariance, PTL DEF Spec, UndefOnlyInBoot
=============================================================================
