------------------------------ MODULE BiosProofs ------------------------------
(***************************************************************************)
(* The safety of the BIOS's boot, for every address space, RAM base, set   *)
(* of RAM sizes and set of scan codes, and of the keyboard controller it   *)
(* extends.                                                                *)
(*                                                                         *)
(* One fact carries all of it: until the driver's write-back a key press   *)
(* raises an exception, and no exception but the probing loop's own fault  *)
(* is ever returned from.  So a boot that is still going on has not been   *)
(* touched by a key, and where it is determines what memory, the bus, the  *)
(* screen and the controller hold.                                         *)
(***************************************************************************)
EXTENDS Bios, TLAPS

(***************************************************************************)
(* Type correctness and the buffers' promises of the keyboard controller   *)
(* by itself, for every set of bits kept and of data bytes sent.           *)
(***************************************************************************)
\* Constants a register can be set to are bytes.
LEMMA ConstantBytes ==
    /\ {} \in Byte
    /\ TestPassed \in Byte
    /\ {FPIRQ, FPCLK, SPCLK} \in Byte
  BY BitsAssumption DEF Byte, TestPassed, FPIRQ, FPCLK, SPCLK

LEMMA InitType == Init => TypeOK
  BY ConstantBytes DEF Init, TypeOK, Command

LEMMA ReadDataType == TypeOK /\ ReadData => TypeOK'
  BY ConstantBytes DEF TypeOK, ReadData, regs

LEMMA ReadStatusType == TypeOK /\ ReadStatus => TypeOK'
  BY DEF TypeOK, ReadStatus, regs

LEMMA WriteDataType ==
    ASSUME TypeOK, NEW v \in Byte, WriteData(v) PROVE TypeOK'
  <1> DEFINE taken == IF "INP_FULL" \in stat THEN in ELSE v
  <1>1. taken \in Byte
    BY DEF TypeOK
  <1>2. in' \in Byte /\ cfg' \in Byte /\ cop' \in Byte
    BY <1>1 DEF TypeOK, WriteData
  <1>3. fpo' \in Byte /\ spo' \in Byte /\ spi' \in Byte
    BY <1>1 DEF TypeOK, WriteData
  <1>4. out' \in Byte /\ raised' \in {"NONE", "KBC", "RESET"}
    BY DEF TypeOK, WriteData
  <1>5. stat' \subseteq {"OUT_FULL", "INP_FULL"} /\ cmd' \in Command
    BY DEF TypeOK, WriteData, Command
  <1> QED BY <1>2, <1>3, <1>4, <1>5 DEF TypeOK

LEMMA WriteCommandType ==
    ASSUME TypeOK, NEW c \in Command, WriteCommand(c) PROVE TypeOK'
  <1>1. c \in Answering => Answer(c) \in Byte
    BY ConstantBytes DEF TypeOK, Answer, Answering
  <1>2. out' \in Byte /\ stat' \subseteq {"OUT_FULL", "INP_FULL"}
    BY <1>1 DEF TypeOK, WriteCommand
  <1>3. cfg' \in Byte
    BY BitsAssumption DEF TypeOK, WriteCommand, Configured, Byte, FPCLK, SPCLK
  <1>4. {in', cop', fpo', spo', spi'} \subseteq Byte
    BY DEF TypeOK, WriteCommand, regs
  <1>5. cmd' \in Command /\ raised' \in {"NONE", "KBC", "RESET"}
    BY DEF WriteCommand
  <1> QED BY <1>2, <1>3, <1>4, <1>5 DEF TypeOK

LEMMA KeyDownType ==
    ASSUME TypeOK, NEW k \in Sent, KeyDown(k) PROVE TypeOK'
  BY SentAssumption DEF TypeOK, KeyDown, regs

LEMMA NextType == TypeOK /\ [Next]_kbcVars => TypeOK'
  <1> SUFFICES ASSUME TypeOK, [Next]_kbcVars PROVE TypeOK'
    OBVIOUS
  <1>1. CASE ReadData
    BY <1>1, ReadDataType
  <1>2. CASE ReadStatus
    BY <1>2, ReadStatusType
  <1>3. ASSUME NEW v \in Sent, WriteData(v) PROVE TypeOK'
    BY <1>3, SentAssumption, WriteDataType
  <1>4. ASSUME NEW c \in Command, WriteCommand(c) PROVE TypeOK'
    BY <1>4, WriteCommandType
  <1>5. ASSUME NEW k \in Sent, KeyDown(k) PROVE TypeOK'
    BY <1>5, KeyDownType
  <1>6. CASE UNCHANGED kbcVars
    BY <1>6 DEF kbcVars, TypeOK
  <1> QED BY <1>1, <1>2, <1>3, <1>4, <1>5, <1>6 DEF Next

\* The registers of the controller hold what they may hold, whatever ports
\* the guest writes and whatever keys are pressed.
THEOREM ControllerTypeCorrect == Spec => []TypeOK
  BY InitType, NextType, PTL DEF Spec
------------------------------------------------------------------------------
\* A step that leaves the output buffer unmarked has emptied it: OUT_FULL is
\* lowered by the read alone, and every byte put in raises it.
LEMMA NextEmpty == EmptyReadsZero /\ [Next]_kbcVars => EmptyReadsZero'
  <1> SUFFICES ASSUME EmptyReadsZero, [Next]_kbcVars, "OUT_FULL" \notin stat'
               PROVE  out' = {}
    BY DEF EmptyReadsZero
  <1>1. CASE ReadData
    BY <1>1 DEF ReadData
  <1>2. CASE ReadStatus \/ UNCHANGED kbcVars
    BY <1>2 DEF ReadStatus, kbcVars, EmptyReadsZero
  <1>3. ASSUME NEW v \in Sent, WriteData(v) PROVE out' = {}
    <2>1. out' = out /\ ("OUT_FULL" \in stat <=> "OUT_FULL" \in stat')
      BY <1>3 DEF WriteData
    <2> QED BY <2>1 DEF EmptyReadsZero
  <1>4. ASSUME NEW c \in Command, WriteCommand(c) PROVE out' = {}
    BY <1>4 DEF WriteCommand, EmptyReadsZero
  <1>5. ASSUME NEW k \in Sent, KeyDown(k) PROVE out' = {}
    BY <1>5 DEF KeyDown, EmptyReadsZero
  <1> QED BY <1>1, <1>2, <1>3, <1>4, <1>5 DEF Next

\* An output buffer not marked full reads as 0, so no byte is read twice.
THEOREM NothingReadTwice == Spec => []EmptyReadsZero
  <1>1. Init => EmptyReadsZero
    BY DEF Init, EmptyReadsZero
  <1> QED BY <1>1, NextEmpty, PTL DEF Spec
------------------------------------------------------------------------------
\* What StrayByteTaken asks of a step.
StrayStep ==
    "INP_FULL" \in stat =>
      /\ in' = in
      /\ "INP_FULL" \notin stat' =>
            /\ cmd \in Parameterised
            /\ in = CASE cmd = "WRAM0" -> cfg'
                      [] cmd = "WCOP" -> cop'
                      [] cmd = "WFPO" -> fpo'
                      [] cmd = "WSPO" -> spo'
                      [] cmd = "WSPI" -> spi'

LEMMA NextStray == [Next]_kbcVars => StrayStep
  <1> SUFFICES ASSUME [Next]_kbcVars, "INP_FULL" \in stat PROVE StrayStep
    BY DEF StrayStep
  <1>1. ASSUME in' = in, "INP_FULL" \in stat' PROVE StrayStep
    BY <1>1 DEF StrayStep
  <1>2. CASE ReadData
    BY <1>1, <1>2 DEF ReadData
  <1>3. CASE ReadStatus \/ UNCHANGED kbcVars
    BY <1>1, <1>3 DEF ReadStatus, kbcVars
  <1>4. ASSUME NEW v \in Sent, WriteData(v) PROVE StrayStep
    <2>1. in' = in
      BY <1>4 DEF WriteData
    <2>2. CASE cmd \notin Parameterised
      BY <1>1, <1>4, <2>1, <2>2 DEF WriteData
    <2>3. CASE cmd \in Parameterised
      <3>1. /\ cmd = "WRAM0" => cfg' = in
            /\ cmd = "WCOP" => cop' = in
            /\ cmd = "WFPO" => fpo' = in
            /\ cmd = "WSPO" => spo' = in
            /\ cmd = "WSPI" => spi' = in
        BY <1>4 DEF WriteData
      <3> QED BY <2>1, <2>3, <3>1 DEF StrayStep, Parameterised
    <2> QED BY <2>2, <2>3
  <1>5. ASSUME NEW c \in Command, WriteCommand(c) PROVE StrayStep
    BY <1>1, <1>5 DEF WriteCommand
  <1>6. ASSUME NEW k \in Sent, KeyDown(k) PROVE StrayStep
    BY <1>1, <1>6 DEF KeyDown
  <1> QED BY <1>2, <1>3, <1>4, <1>5, <1>6 DEF Next

\* A stray data byte is neither lost nor replaced: it waits for the next
\* parameterised command's data and is taken in its place.
THEOREM StrayByteWaits == Spec => StrayByteTaken
  <1>1. [Next]_kbcVars => [StrayStep]_kbcVars
    BY NextStray
  <1> QED BY <1>1, PTL DEF Spec, StrayByteTaken, StrayStep
------------------------------------------------------------------------------

\* The boot up to the write-back, and behind it.
Early == {"boot", "detect", "probe", "sized", "store", "nextSlot", "selectIdent",
          "readIdent", "selectClass", "readClass", "disableFirst", "disableSecond",
          "askConfig", "readConfig", "beginWrite", "writeConfig"}
Late == {"selfTest", "readTest", "leave"}

\* The two passages through the handlers that belong to the boot: from the
\* reset, and from the fault that ends the probing.
FromReset == pc = "dispatch" /\ cause = "RESET"
FromProbe == pc \in {"dispatch", "nomap"} /\ cause = "MMU_NOMAP" /\ probing

Booting == pc \in Early \/ FromReset \/ FromProbe

PowerOn == {FPIRQ, FPCLK, SPCLK}

\* The controller: untouched up to the write-back, then without its interrupt.
ControllerInv ==
    /\ Booting => cfg = PowerOn /\ "INP_FULL" \notin stat
    /\ pc = "readConfig" => out = PowerOn
    /\ pc \in {"beginWrite", "writeConfig"} => x10 = PowerOn
    /\ pc = "writeConfig" => cmd = "WRAM0"
    /\ pc \in Late => cfg = {FPCLK, SPCLK} /\ raised = "NONE"

\* What the probing loop finds.
Bytes ==
    IF RamBase + machine.ram >= AddressSpace THEN 0 ELSE 4 * ((machine.ram + 3) \div 4)

BeforePci == {"boot", "detect", "probe", "sized", "store"}

\* The memory: the loop has not passed the end, and only its fault is taken
\* for it.
MemoryInv ==
    /\ probing => pc \in Handling \cup {"probe", "sized"}
    /\ FromReset => ~probing
    /\ pc = "nomap" => cause = "MMU_NOMAP"
    /\ FromProbe \/ pc = "sized" => xpc = "probe" /\ cause = "MMU_NOMAP" /\ a0 = Bytes
    /\ pc = "probe" => probing /\ a0 % 4 = 0 /\ a0 <= Bytes
    /\ pc = "store" => a0 = Bytes
    /\ pc \notin Handling \cup BeforePci => memSize = BinToBcd(Bytes \div 1024)

\* The line printed for the device in a slot.
Named(s) ==
    LET d == DescriptorAt(s)
    IN  IF d.class = 1 THEN <<s, "msd", d.subclass>> ELSE <<s, "class", d.class>>

From(k) == {s \in Registered : s >= k}
ListedFrom(k) == {Named(s) : s \in From(k)}

InSlot == {"selectIdent", "readIdent", "selectClass", "readClass"}

\* The bus: the slots from the top down to the one at hand have been looked at.
PciInv ==
    /\ FromReset \/ FromProbe \/ pc \in BeforePci => listed = {}
    /\ pc = "nextSlot" => listed = ListedFrom(slot)
    /\ pc \in InSlot => slot \in Slots /\ listed = ListedFrom(slot + 1)
    /\ pc = "readIdent" => pciAddr = ConfigAddress(0, slot, 0)
    /\ pc \in {"selectClass", "readClass"} => slot \in Registered
    /\ pc = "readClass" => pciAddr = ConfigAddress(0, slot, 8)
    /\ pc \in KeyboardSteps => listed = ListedFrom(0)

\* A text t that fits when it is printed from line ln and column col on, and
\* leaves the cursor at line l and column c.
Ends(t, ln, col, l, c) ==
    IF t = <<>> THEN ln = l /\ col = c
    ELSE /\ ln + Len(t) - 1 = l
         /\ \A i \in 1 .. Len(t) : t[i] <= Width
         /\ col + t[1] <= Width
         /\ c = IF Len(t) = 1 THEN col + t[1] ELSE t[Len(t)]

\* Lines printed for the slots from k on.
Printed(k) == IF k = 0 THEN 3 ELSE IF k = 1 THEN 2 ELSE IF k <= 4 THEN 1 ELSE 0

\* The screen: each location has its place for the cursor.
ScreenInv ==
    /\ FromReset \/ FromProbe \/ pc = "boot" => text = <<>>
    /\ FromProbe \/ pc \in {"detect", "probe", "sized"} => Ends(text, line, column, 6, 30)
    /\ pc = "store" => Ends(text, line, column, 7, 0)
    /\ pc = "nextSlot" => Ends(text, line, column, 9 + Printed(slot), 0)
    /\ pc \in {"selectIdent", "readIdent"} => Ends(text, line, column, 9 + Printed(slot + 1), 0)
    /\ pc \in {"selectClass", "readClass"} => Ends(text, line, column, 9 + Printed(slot + 1), 4)
    /\ pc \in {"disableFirst", "disableSecond", "askConfig", "readConfig"} => Ends(text, line, column, 13, 36)
    /\ pc \in {"beginWrite", "writeConfig"} \cup Late => Ends(text, line, column, 14, 0)

BootInv == BiosTypeOK /\ ControllerInv /\ MemoryInv /\ PciInv /\ ScreenInv
------------------------------------------------------------------------------
(***************************************************************************)
(* bios_bin_to_bcd, by its eight turns.                                    *)
(***************************************************************************)
Turn(s) == [num |-> s.num \div 10,
            bcd |-> s.bcd + (s.num % 10) * 2 ^ s.count,
            count |-> s.count + 4]

State(q, b, c) == [num |-> q, bcd |-> b, count |-> c]

\* One turn takes the low decimal digit and puts it at place c.
LEMMA TurnValue ==
    ASSUME NEW n, NEW b, NEW c
    PROVE  Turn(State(n, b, c)) = State(n \div 10, b + (n % 10) * 2 ^ c, c + 4)
  <1> DEFINE s == State(n, b, c)
  <1>1. s.num = n /\ s.bcd = b /\ s.count = c
    BY DEF State
  <1> HIDE DEF s
  <1>2. Turn(s) = State(s.num \div 10, s.bcd + (s.num % 10) * 2 ^ s.count, s.count + 4)
    BY Zenon DEF Turn, State
  <1> QED BY <1>1, <1>2, Zenon DEF s

LEMMA LowDigit ==
    ASSUME NEW n \in Nat
    PROVE  \E q \in Nat, d \in 0 .. 9 : q = n \div 10 /\ d = n % 10 /\ n = 10 * q + d
  OBVIOUS

LEMMA Powers ==
    /\ 2 ^ 0 = 1 /\ 2 ^ 4 = 16 /\ 2 ^ 8 = 256 /\ 2 ^ 12 = 4096
    /\ 2 ^ 16 = 65536 /\ 2 ^ 20 = 1048576 /\ 2 ^ 24 = 16777216 /\ 2 ^ 28 = 268435456
    /\ {2 ^ 0, 2 ^ 4, 2 ^ 8, 2 ^ 12, 2 ^ 16, 2 ^ 20, 2 ^ 24, 2 ^ 28} \subseteq Nat
  OBVIOUS

LEMMA Powers10 ==
    /\ 10 ^ 0 = 1 /\ 10 ^ 1 = 10 /\ 10 ^ 2 = 100 /\ 10 ^ 3 = 1000
    /\ 10 ^ 4 = 10000 /\ 10 ^ 5 = 100000 /\ 10 ^ 6 = 1000000
  OBVIOUS

LEMMA Powers16 ==
    /\ 16 ^ 0 = 1 /\ 16 ^ 1 = 16 /\ 16 ^ 2 = 256 /\ 16 ^ 3 = 4096
    /\ 16 ^ 4 = 65536 /\ 16 ^ 5 = 1048576 /\ 16 ^ 6 = 16777216 /\ 16 ^ 7 = 268435456
    /\ 16 ^ 8 = 4294967296
  OBVIOUS

EightTurns(s) == Turn(Turn(Turn(Turn(Turn(Turn(Turn(Turn(s))))))))

\* Eight turns, read as hexadecimal: the digits are the decimal ones of n.
LEMMA EightTurnsDigits ==
    ASSUME NEW n \in Nat, NEW b, b = EightTurns(State(n, 0, 0)).bcd
    PROVE  /\ b \in Nat /\ b < 16 ^ 8
           /\ \A d \in 0 .. 6 : (b \div 16 ^ d) % 16 = (n \div 10 ^ d) % 10
  <1>1. /\ 0 + 4 = 4 /\ 4 + 4 = 8 /\ 8 + 4 = 12 /\ 12 + 4 = 16
        /\ 16 + 4 = 20 /\ 20 + 4 = 24 /\ 24 + 4 = 28 /\ 28 + 4 = 32
    OBVIOUS
  <1>2. PICK q1 \in Nat, d0 \in 0 .. 9 :
            q1 = n \div 10 /\ d0 = n % 10 /\ n = 10 * q1 + d0
    BY LowDigit, Zenon
  <1>3. PICK b1 \in Nat : b1 = 0 + d0 * 2 ^ 0
    BY Powers
  <1>4. Turn(State(n, 0, 0)) = State(q1, b1, 4)
    <2>1. Turn(State(n, 0, 0)) = State(n \div 10, 0 + (n % 10) * 2 ^ 0, 0 + 4)
      BY TurnValue, Zenon
    <2> QED BY <1>1, <1>2, <1>3, <2>1, Zenon
  <1>5. PICK q2 \in Nat, d1 \in 0 .. 9 :
            q2 = q1 \div 10 /\ d1 = q1 % 10 /\ q1 = 10 * q2 + d1
    BY LowDigit, Zenon
  <1>6. PICK b2 \in Nat : b2 = b1 + d1 * 2 ^ 4
    BY Powers
  <1>7. Turn(State(q1, b1, 4)) = State(q2, b2, 8)
    <2>1. Turn(State(q1, b1, 4)) = State(q1 \div 10, b1 + (q1 % 10) * 2 ^ 4, 4 + 4)
      BY TurnValue, Zenon
    <2> QED BY <1>1, <1>5, <1>6, <2>1, Zenon
  <1>8. PICK q3 \in Nat, d2 \in 0 .. 9 :
            q3 = q2 \div 10 /\ d2 = q2 % 10 /\ q2 = 10 * q3 + d2
    BY LowDigit, Zenon
  <1>9. PICK b3 \in Nat : b3 = b2 + d2 * 2 ^ 8
    BY Powers
  <1>10. Turn(State(q2, b2, 8)) = State(q3, b3, 12)
    <2>1. Turn(State(q2, b2, 8)) = State(q2 \div 10, b2 + (q2 % 10) * 2 ^ 8, 8 + 4)
      BY TurnValue, Zenon
    <2> QED BY <1>1, <1>8, <1>9, <2>1, Zenon
  <1>11. PICK q4 \in Nat, d3 \in 0 .. 9 :
            q4 = q3 \div 10 /\ d3 = q3 % 10 /\ q3 = 10 * q4 + d3
    BY LowDigit, Zenon
  <1>12. PICK b4 \in Nat : b4 = b3 + d3 * 2 ^ 12
    BY Powers
  <1>13. Turn(State(q3, b3, 12)) = State(q4, b4, 16)
    <2>1. Turn(State(q3, b3, 12)) = State(q3 \div 10, b3 + (q3 % 10) * 2 ^ 12, 12 + 4)
      BY TurnValue, Zenon
    <2> QED BY <1>1, <1>11, <1>12, <2>1, Zenon
  <1>14. PICK q5 \in Nat, d4 \in 0 .. 9 :
            q5 = q4 \div 10 /\ d4 = q4 % 10 /\ q4 = 10 * q5 + d4
    BY LowDigit, Zenon
  <1>15. PICK b5 \in Nat : b5 = b4 + d4 * 2 ^ 16
    BY Powers
  <1>16. Turn(State(q4, b4, 16)) = State(q5, b5, 20)
    <2>1. Turn(State(q4, b4, 16)) = State(q4 \div 10, b4 + (q4 % 10) * 2 ^ 16, 16 + 4)
      BY TurnValue, Zenon
    <2> QED BY <1>1, <1>14, <1>15, <2>1, Zenon
  <1>17. PICK q6 \in Nat, d5 \in 0 .. 9 :
            q6 = q5 \div 10 /\ d5 = q5 % 10 /\ q5 = 10 * q6 + d5
    BY LowDigit, Zenon
  <1>18. PICK b6 \in Nat : b6 = b5 + d5 * 2 ^ 20
    BY Powers
  <1>19. Turn(State(q5, b5, 20)) = State(q6, b6, 24)
    <2>1. Turn(State(q5, b5, 20)) = State(q5 \div 10, b5 + (q5 % 10) * 2 ^ 20, 20 + 4)
      BY TurnValue, Zenon
    <2> QED BY <1>1, <1>17, <1>18, <2>1, Zenon
  <1>20. PICK q7 \in Nat, d6 \in 0 .. 9 :
            q7 = q6 \div 10 /\ d6 = q6 % 10 /\ q6 = 10 * q7 + d6
    BY LowDigit, Zenon
  <1>21. PICK b7 \in Nat : b7 = b6 + d6 * 2 ^ 24
    BY Powers
  <1>22. Turn(State(q6, b6, 24)) = State(q7, b7, 28)
    <2>1. Turn(State(q6, b6, 24)) = State(q6 \div 10, b6 + (q6 % 10) * 2 ^ 24, 24 + 4)
      BY TurnValue, Zenon
    <2> QED BY <1>1, <1>20, <1>21, <2>1, Zenon
  <1>23. PICK q8 \in Nat, d7 \in 0 .. 9 :
            q8 = q7 \div 10 /\ d7 = q7 % 10 /\ q7 = 10 * q8 + d7
    BY LowDigit, Zenon
  <1>24. PICK b8 \in Nat : b8 = b7 + d7 * 2 ^ 28
    BY Powers
  <1>25. Turn(State(q7, b7, 28)) = State(q8, b8, 32)
    <2>1. Turn(State(q7, b7, 28)) = State(q7 \div 10, b7 + (q7 % 10) * 2 ^ 28, 28 + 4)
      BY TurnValue, Zenon
    <2> QED BY <1>1, <1>23, <1>24, <2>1, Zenon
  <1>26. b = b8
    <2>1. EightTurns(State(n, 0, 0)) = State(q8, b8, 32)
      BY <1>4, <1>7, <1>10, <1>13, <1>16, <1>19, <1>22, <1>25, Zenon DEF EightTurns
    <2>2. State(q8, b8, 32).bcd = b8
      BY DEF State
    <2> QED BY <2>1, <2>2, Zenon
  <1>27. b = d0 + 16 * d1 + 256 * d2 + 4096 * d3 + 65536 * d4 + 1048576 * d5
               + 16777216 * d6 + 268435456 * d7
    BY <1>3, <1>6, <1>9, <1>12, <1>15, <1>18, <1>21, <1>24, <1>26, Powers
  <1>28. /\ b \in Nat /\ b < 4294967296
         /\ (b \div 1) % 16 = d0 /\ (b \div 16) % 16 = d1 /\ (b \div 256) % 16 = d2
         /\ (b \div 4096) % 16 = d3 /\ (b \div 65536) % 16 = d4
         /\ (b \div 1048576) % 16 = d5 /\ (b \div 16777216) % 16 = d6
    <2>1. b \div 16 = d1 + 16 * d2 + 256 * d3 + 4096 * d4 + 65536 * d5 + 1048576 * d6
                        + 16777216 * d7
      BY <1>27
    <2>2. b \div 256 = d2 + 16 * d3 + 256 * d4 + 4096 * d5 + 65536 * d6 + 1048576 * d7
      BY <1>27
    <2>3. b \div 4096 = d3 + 16 * d4 + 256 * d5 + 4096 * d6 + 65536 * d7
      BY <1>27
    <2>4. b \div 65536 = d4 + 16 * d5 + 256 * d6 + 4096 * d7
      BY <1>27
    <2>5. b \div 1048576 = d5 + 16 * d6 + 256 * d7
      BY <1>27
    <2>6. b \div 16777216 = d6 + 16 * d7
      BY <1>27
    <2>7. b \in Nat /\ b < 4294967296 /\ (b \div 1) % 16 = d0
      BY <1>27
    <2>8. (b \div 16) % 16 = d1 /\ (b \div 256) % 16 = d2 /\ (b \div 4096) % 16 = d3
      BY <2>1, <2>2, <2>3
    <2>9. (b \div 65536) % 16 = d4 /\ (b \div 1048576) % 16 = d5 /\ (b \div 16777216) % 16 = d6
      BY <2>4, <2>5, <2>6
    <2> QED BY <2>7, <2>8, <2>9, SMT
  <1>29. /\ (n \div 1) % 10 = d0 /\ (n \div 10) % 10 = d1 /\ (n \div 100) % 10 = d2
         /\ (n \div 1000) % 10 = d3 /\ (n \div 10000) % 10 = d4
         /\ (n \div 100000) % 10 = d5 /\ (n \div 1000000) % 10 = d6
    <2>1. /\ n = 10 * q1 + d0 /\ q1 = 10 * q2 + d1 /\ q2 = 10 * q3 + d2
          /\ q3 = 10 * q4 + d3 /\ q4 = 10 * q5 + d4 /\ q5 = 10 * q6 + d5
          /\ q6 = 10 * q7 + d6
      BY <1>2, <1>5, <1>8, <1>11, <1>14, <1>17, <1>20, Zenon
    <2>2. n \div 10 = q1 /\ n \div 100 = q2 /\ n \div 1000 = q3
      BY <2>1
    <2>3. n \div 10000 = q4 /\ n \div 100000 = q5 /\ n \div 1000000 = q6
      BY <2>1
    <2>4. /\ q1 % 10 = d1 /\ q2 % 10 = d2 /\ q3 % 10 = d3
          /\ q4 % 10 = d4 /\ q5 % 10 = d5 /\ q6 % 10 = d6
      BY <2>1
    <2> QED BY <2>1, <2>2, <2>3, <2>4
  <1>30. ASSUME NEW d \in 0 .. 6
         PROVE  (b \div 16 ^ d) % 16 = (n \div 10 ^ d) % 10
    <2>1. d = 0 \/ d = 1 \/ d = 2 \/ d = 3 \/ d = 4 \/ d = 5 \/ d = 6
      OBVIOUS
    <2>2. /\ (b \div 16 ^ 0) % 16 = (n \div 10 ^ 0) % 10
          /\ (b \div 16 ^ 1) % 16 = (n \div 10 ^ 1) % 10
          /\ (b \div 16 ^ 2) % 16 = (n \div 10 ^ 2) % 10
          /\ (b \div 16 ^ 3) % 16 = (n \div 10 ^ 3) % 10
          /\ (b \div 16 ^ 4) % 16 = (n \div 10 ^ 4) % 10
          /\ (b \div 16 ^ 5) % 16 = (n \div 10 ^ 5) % 10
          /\ (b \div 16 ^ 6) % 16 = (n \div 10 ^ 6) % 10
      BY <1>28, <1>29, Powers10, Powers16, SMT
    <2> QED BY <2>1, <2>2, Zenon
  <1> QED BY <1>28, <1>30, Powers16, SMT

\* The loop of eight turns is well defined.
LEMMA BinToBcdTurns ==
    ASSUME NEW num \in Nat
    PROVE  BinToBcd(num) = EightTurns(State(num, 0, 0)).bcd
  <1> DEFINE s0 == State(num, 0, 0)
             s1 == Turn(s0)  s2 == Turn(s1)  s3 == Turn(s2)  s4 == Turn(s3)
             s5 == Turn(s4)  s6 == Turn(s5)  s7 == Turn(s6)  s8 == Turn(s7)
             IsLoop(f) == f = [n \in 0 .. 8 |-> IF n = 0 THEN s0 ELSE Turn(f[n - 1])]
             g == [n \in 0 .. 8 |-> IF n = 0 THEN s0 ELSE IF n = 1 THEN s1 ELSE IF n = 2 THEN s2
                                    ELSE IF n = 3 THEN s3 ELSE IF n = 4 THEN s4
                                    ELSE IF n = 5 THEN s5 ELSE IF n = 6 THEN s6
                                    ELSE IF n = 7 THEN s7 ELSE s8]
             loop == CHOOSE f : IsLoop(f)
  <1>1. BinToBcd(num) = loop[8].bcd
    BY DEF BinToBcd, Turn, State
  <1>2. /\ s1 = Turn(s0) /\ s2 = Turn(s1) /\ s3 = Turn(s2) /\ s4 = Turn(s3)
        /\ s5 = Turn(s4) /\ s6 = Turn(s5) /\ s7 = Turn(s6) /\ s8 = Turn(s7)
    OBVIOUS
  <1> HIDE DEF s0, s1, s2, s3, s4, s5, s6, s7, s8
  <1>3. /\ g[0] = s0 /\ g[1] = s1 /\ g[2] = s2 /\ g[3] = s3 /\ g[4] = s4
        /\ g[5] = s5 /\ g[6] = s6 /\ g[7] = s7
    OBVIOUS
  <1>4. \A n \in 0 .. 8 : g[n] = IF n = 0 THEN s0 ELSE Turn(g[n - 1])
    <2> SUFFICES ASSUME NEW n \in 0 .. 8 PROVE g[n] = IF n = 0 THEN s0 ELSE Turn(g[n - 1])
      OBVIOUS
    <2>1. CASE n = 0
      BY <2>1
    <2>2. CASE n \in 1 .. 4
      BY <1>2, <1>3, <2>2
    <2>3. CASE n \in 5 .. 8
      BY <1>2, <1>3, <2>3
    <2> QED BY <2>1, <2>2, <2>3
  <1>5. IsLoop(g)
    <2>1. g = [n \in 0 .. 8 |-> g[n]]
      OBVIOUS
    <2> HIDE DEF g
    <2> QED BY <1>4, <2>1
  <1>6. IsLoop(loop)
    <2> HIDE DEF IsLoop, g
    <2> QED BY <1>5
  <1> HIDE DEF loop
  <1>7. loop[0] = s0 /\ \A n \in 1 .. 8 : loop[n] = Turn(loop[n - 1])
    BY <1>6
  <1>8. loop[1] = Turn(loop[0]) /\ loop[2] = Turn(loop[1]) /\ loop[3] = Turn(loop[2])
    BY <1>7
  <1>9. loop[4] = Turn(loop[3]) /\ loop[5] = Turn(loop[4]) /\ loop[6] = Turn(loop[5])
    BY <1>7
  <1>10. loop[7] = Turn(loop[6]) /\ loop[8] = Turn(loop[7])
    BY <1>7
  <1> HIDE DEF g, IsLoop
  <1>11. loop[8] = s8
    <2>1. loop[0] = s0
      BY <1>7
    <2>2. loop[1] = s1 /\ loop[2] = s2 /\ loop[3] = s3
      BY <1>2, <1>8, <2>1
    <2>3. loop[4] = s4 /\ loop[5] = s5 /\ loop[6] = s6
      BY <1>2, <1>9, <2>2
    <2> QED BY <1>2, <1>10, <2>3
  <1>12. s8 = EightTurns(s0)
    BY <1>2, Zenon DEF EightTurns
  <1> QED BY <1>1, <1>11, <1>12, Zenon DEF s0

\* The result of the loop.
LEMMA BinToBcdDigits ==
    ASSUME NEW n \in Nat
    PROVE  /\ BinToBcd(n) \in Nat /\ BinToBcd(n) < 16 ^ 8
           /\ \A d \in 0 .. 6 : (BinToBcd(n) \div 16 ^ d) % 16 = (n \div 10 ^ d) % 10
  <1> DEFINE b == BinToBcd(n)
  <1>1. b = EightTurns(State(n, 0, 0)).bcd
    BY BinToBcdTurns
  <1> HIDE DEF b
  <1> QED BY <1>1, EightTurnsDigits DEF b

\* IntegerLength finds a length.
LEMMA IntegerLengthType ==
    ASSUME NEW n \in Nat, n < 16 ^ 8 PROVE IntegerLength(n) \in 1 .. 8
  <1> DEFINE Is(d) == n < 16 ^ d /\ (d = 1 \/ n >= 16 ^ (d - 1))
  <1>1. \E d \in 1 .. 8 : Is(d)
    <2>1. CASE n < 16
      BY <2>1, Powers16
    <2>2. CASE n >= 16 /\ n < 256
      <3>1. Is(2)
        BY <2>2, Powers16
      <3> QED BY <3>1
    <2>3. CASE n >= 256 /\ n < 4096
      <3>1. Is(3)
        BY <2>3, Powers16
      <3> QED BY <3>1
    <2>4. CASE n >= 4096 /\ n < 65536
      <3>1. Is(4)
        BY <2>4, Powers16
      <3> QED BY <3>1
    <2>5. CASE n >= 65536 /\ n < 1048576
      <3>1. Is(5)
        BY <2>5, Powers16
      <3> QED BY <3>1
    <2>6. CASE n >= 1048576 /\ n < 16777216
      <3>1. Is(6)
        BY <2>6, Powers16
      <3> QED BY <3>1
    <2>7. CASE n >= 16777216 /\ n < 268435456
      <3>1. Is(7)
        BY <2>7, Powers16
      <3> QED BY <3>1
    <2>8. CASE n >= 268435456
      <3>1. Is(8)
        BY <2>8, Powers16
      <3> QED BY <3>1
    <2> QED BY <2>1, <2>2, <2>3, <2>4, <2>5, <2>6, <2>7, <2>8
  <1>2. IntegerLength(n) = CHOOSE d \in 1 .. 8 : Is(d)
    BY DEF IntegerLength
  <1> HIDE DEF Is
  <1> QED BY <1>1, <1>2
------------------------------------------------------------------------------
LEMMA InitBoot == InitBios => BootInv
  <1> SUFFICES ASSUME InitBios PROVE BootInv
    OBVIOUS
  <1>1. BiosTypeOK
    <2>1. TypeOK /\ x10 \in Byte
      BY InitType, ConstantBytes DEF InitBios
    <2>2. 0 \in 0 .. AddressSpace - 1 /\ 0 \in 0 .. Width /\ 0 \in 0 .. LastLine
      BY MemoryAssumption DEF Width, LastLine
    <2>3. text \in Seq(Nat) /\ listed \subseteq Slots \X Names \X Nat /\ slot \in 0 .. 32
      BY DEF InitBios
    <2> QED BY <2>1, <2>2, <2>3 DEF InitBios, BiosTypeOK, Location, Handling
  <1>2. ControllerInv
    BY DEF InitBios, Init, ControllerInv, Booting, Early, Late, PowerOn, FromReset, FromProbe
  <1>3. MemoryInv
    BY DEF InitBios, MemoryInv, FromReset, FromProbe, Handling, BeforePci
  <1>4. PciInv
    BY DEF InitBios, PciInv, FromReset, FromProbe, BeforePci, InSlot, KeyboardSteps
  <1>5. ScreenInv
    BY DEF InitBios, ScreenInv, FromReset, FromProbe, Late
  <1> QED BY <1>1, <1>2, <1>3, <1>4, <1>5 DEF BootInv

\* What the loop finds ends in the address space, and is a whole number of words.
LEMMA BytesRange ==
    BiosTypeOK =>
      /\ machine.ram \in 0 .. AddressSpace - 1
      /\ Bytes \in 0 .. AddressSpace - 1 /\ Bytes % 4 = 0
      /\ Bytes \div 1024 \in Nat
      /\ \/ RamBase + machine.ram >= AddressSpace /\ Bytes = 0
         \/ /\ RamBase + machine.ram < AddressSpace /\ RamBase + Bytes <= AddressSpace
            /\ machine.ram <= Bytes /\ Bytes < machine.ram + 4
  <1> DEFINE words == (machine.ram + 3) \div 4
  <1> SUFFICES ASSUME BiosTypeOK
               PROVE  /\ machine.ram \in 0 .. AddressSpace - 1
                      /\ Bytes \in 0 .. AddressSpace - 1 /\ Bytes % 4 = 0
                      /\ Bytes \div 1024 \in Nat
                      /\ \/ RamBase + machine.ram >= AddressSpace /\ Bytes = 0
                         \/ /\ RamBase + machine.ram < AddressSpace
                            /\ RamBase + Bytes <= AddressSpace
                            /\ machine.ram <= Bytes /\ Bytes < machine.ram + 4
    OBVIOUS
  <1>1. machine.ram \in 0 .. AddressSpace - 1
    BY MemoryAssumption DEF BiosTypeOK
  <1>2. /\ RamBase \in 1 .. AddressSpace - 1 /\ RamBase % 4 = 0
        /\ AddressSpace \in Nat /\ AddressSpace % 4 = 0
    BY MemoryAssumption
  <1>3. /\ words \in Nat
        /\ machine.ram <= 4 * words /\ 4 * words < machine.ram + 4
    BY <1>1
  <1>4. Bytes = IF RamBase + machine.ram >= AddressSpace THEN 0 ELSE 4 * words
    BY DEF Bytes
  <1> HIDE DEF words
  <1>5. (4 * words) % 4 = 0
    BY <1>3
  <1>6. ASSUME RamBase + machine.ram < AddressSpace
        PROVE  RamBase + 4 * words <= AddressSpace
    BY <1>1, <1>2, <1>3, <1>6
  <1>7. Bytes \in 0 .. AddressSpace - 1 /\ Bytes % 4 = 0
    BY <1>1, <1>2, <1>3, <1>4, <1>5, <1>6
  <1>8. Bytes \div 1024 \in Nat
    BY <1>7
  <1> QED BY <1>1, <1>2, <1>3, <1>4, <1>6, <1>7, <1>8

LEMMA WelcomeStep == BootInv /\ Welcome => BootInv'
  <1> SUFFICES ASSUME BootInv, Welcome PROVE BootInv'
    OBVIOUS
  <1> USE DEF BootInv, Welcome, Step, cursor, screenVars, memoryVars, pciVars, kbcVars
  <1>1. BiosTypeOK'
    BY DEF BiosTypeOK, TypeOK, Location, Handling, KeyboardSteps, Width, LastLine, WELCOME_MSG
  <1>2. ControllerInv'
    BY DEF ControllerInv, Booting, Early, Late, FromReset, FromProbe
  <1>3. MemoryInv'
    BY DEF MemoryInv, FromReset, FromProbe, Handling, BeforePci, Bytes
  <1>4. PciInv'
    BY DEF PciInv, FromReset, FromProbe, BeforePci, InSlot, KeyboardSteps
  <1>5. ScreenInv'
    BY DEF ScreenInv, FromReset, FromProbe, Late, Ends, WELCOME_MSG, Width
  <1> QED BY <1>1, <1>2, <1>3, <1>4, <1>5

LEMMA BeginDetectionStep == BootInv /\ BeginDetection => BootInv'
  <1> SUFFICES ASSUME BootInv, BeginDetection PROVE BootInv'
    OBVIOUS
  <1> USE DEF BootInv, BeginDetection, Step, cursor, screenVars, memoryVars, pciVars, kbcVars
  <1>1. Bytes \in Nat
    BY BytesRange
  <1>2. BiosTypeOK'
    BY <1>1, MemoryAssumption DEF BiosTypeOK, TypeOK, Location, Handling, KeyboardSteps
  <1>3. ControllerInv'
    BY <1>1 DEF ControllerInv, Booting, Early, Late, FromReset, FromProbe
  <1>4. MemoryInv'
    BY <1>1 DEF MemoryInv, FromReset, FromProbe, Handling, BeforePci, Bytes
  <1>5. PciInv'
    BY <1>1 DEF PciInv, FromReset, FromProbe, BeforePci, InSlot, KeyboardSteps
  <1>6. ScreenInv'
    BY <1>1 DEF ScreenInv, FromReset, FromProbe, Late, Ends
  <1> QED BY <1>2, <1>3, <1>4, <1>5, <1>6

LEMMA DispatchStep == BootInv /\ Dispatch => BootInv'
  <1> SUFFICES ASSUME BootInv, Dispatch PROVE BootInv'
    OBVIOUS
  <1> USE DEF BootInv, Dispatch, Handler, External, CauseKbc, Step, cursor, screenVars, memoryVars, pciVars, kbcVars
  <1>1. \/ cause = "RESET" /\ pc' = "boot"
        \/ cause = "MMU_NOMAP" /\ pc' = "nomap"
        \/ cause = "KBC" /\ pc' = "unknown"
    BY DEF BiosTypeOK
  <1>2. BiosTypeOK'
    BY <1>1, MemoryAssumption DEF BiosTypeOK, TypeOK, Location, Handling, KeyboardSteps
  <1>3. ControllerInv'
    BY <1>1 DEF ControllerInv, Booting, Early, Late, FromReset, FromProbe
  <1>4. MemoryInv'
    BY <1>1 DEF MemoryInv, FromReset, FromProbe, Handling, BeforePci, Bytes
  <1>5. PciInv'
    BY <1>1 DEF PciInv, FromReset, FromProbe, BeforePci, InSlot, KeyboardSteps
  <1>6. ScreenInv'
    BY <1>1 DEF ScreenInv, FromReset, FromProbe, Late, Ends
  <1> QED BY <1>2, <1>3, <1>4, <1>5, <1>6

LEMMA NoMapStep == BootInv /\ NoMap => BootInv'
  <1> SUFFICES ASSUME BootInv, NoMap PROVE BootInv'
    OBVIOUS
  <1> USE DEF BootInv, NoMap, Step, cursor, screenVars, memoryVars, pciVars, kbcVars
  <1>1. \/ pc' = "sized" /\ FromProbe
        \/ pc' = "locked" /\ ~FromProbe
    BY DEF MemoryInv, FromProbe
  <1>2. BiosTypeOK'
    BY <1>1 DEF BiosTypeOK, TypeOK, Location, Handling, KeyboardSteps, MMU_NOMAP_MSG
  <1>3. ControllerInv'
    BY <1>1 DEF ControllerInv, Booting, Early, Late, FromReset, FromProbe
  <1>4. MemoryInv'
    BY <1>1 DEF MemoryInv, FromReset, FromProbe, Handling, BeforePci, Bytes
  <1>5. PciInv'
    BY <1>1 DEF PciInv, FromReset, FromProbe, BeforePci, InSlot, KeyboardSteps
  <1>6. ScreenInv'
    BY <1>1 DEF ScreenInv, FromReset, FromProbe, Late, Ends
  <1> QED BY <1>2, <1>3, <1>4, <1>5, <1>6

LEMMA ReportStep == BootInv /\ Report => BootInv'
  <1> SUFFICES ASSUME BootInv, Report PROVE BootInv'
    OBVIOUS
  <1> USE DEF BootInv, Report, Step, cursor, screenVars, memoryVars, pciVars, kbcVars
  <1>1. BiosTypeOK'
    BY DEF BiosTypeOK, TypeOK, Location, Handling, KeyboardSteps, UNKNOWN_EXC_MSG, UNHANDLED_SYSCALL_MSG
  <1>2. ControllerInv'
    BY DEF ControllerInv, Booting, Early, Late, FromReset, FromProbe
  <1>3. MemoryInv'
    BY DEF MemoryInv, FromReset, FromProbe, Handling, BeforePci, Bytes
  <1>4. PciInv'
    BY DEF PciInv, FromReset, FromProbe, BeforePci, InSlot, KeyboardSteps
  <1>5. ScreenInv'
    BY DEF ScreenInv, FromReset, FromProbe, Late, Ends
  <1> QED BY <1>1, <1>2, <1>3, <1>4, <1>5

\* The number printed for a size has at most eight digits.
LEMMA SizeLength ==
    ASSUME NEW n \in Nat
    PROVE  IntegerLength(BinToBcd(n)) \in 1 .. 8
  BY BinToBcdDigits, IntegerLengthType

LEMMA SizedStep == BootInv /\ Sized => BootInv'
  <1> SUFFICES ASSUME BootInv, Sized PROVE BootInv'
    OBVIOUS
  <1> USE DEF BootInv, Sized, Step, cursor, screenVars, memoryVars, pciVars, kbcVars
  <1>1. a0 \div 1024 \in Nat
    BY BytesRange DEF MemoryInv
  <1>2. PICK n \in 2 .. 9 : text' = <<n, 0>>
    BY <1>1, SizeLength
  <1>3. text' \in Seq(Nat)
    BY <1>2
  <1>4. BiosTypeOK'
    BY <1>1, <1>2, <1>3 DEF BiosTypeOK, TypeOK, Location, Handling, KeyboardSteps
  <1>5. ControllerInv'
    BY <1>1, <1>2, <1>3 DEF ControllerInv, Booting, Early, Late, FromReset, FromProbe
  <1>6. MemoryInv'
    BY <1>1, <1>2, <1>3 DEF MemoryInv, FromReset, FromProbe, Handling, BeforePci, Bytes
  <1>7. PciInv'
    BY <1>1, <1>2, <1>3 DEF PciInv, FromReset, FromProbe, BeforePci, InSlot, KeyboardSteps
  <1>8. ScreenInv'
    BY <1>1, <1>2, <1>3 DEF ScreenInv, FromReset, FromProbe, Late, Ends, Width
  <1> QED BY <1>4, <1>5, <1>6, <1>7, <1>8

LEMMA StoreSizeStep == BootInv /\ StoreSize => BootInv'
  <1> SUFFICES ASSUME BootInv, StoreSize PROVE BootInv'
    OBVIOUS
  <1> USE DEF BootInv, StoreSize, Step, cursor, screenVars, memoryVars, pciVars, kbcVars
  <1>1. a0 = Bytes /\ Bytes \div 1024 \in Nat
    BY BytesRange DEF MemoryInv
  <1>2. memSize' \in Nat
    BY <1>1, BinToBcdDigits
  <1>3. BiosTypeOK'
    BY <1>1, <1>2 DEF BiosTypeOK, TypeOK, Location, Handling, KeyboardSteps, PCI_ENUMERATE_MSG
  <1>4. ControllerInv'
    BY <1>1, <1>2 DEF ControllerInv, Booting, Early, Late, FromReset, FromProbe
  <1>5. MemoryInv'
    BY <1>1, <1>2 DEF MemoryInv, FromReset, FromProbe, Handling, BeforePci, Bytes
  <1>6. PciInv'
    BY <1>1, <1>2 DEF PciInv, FromReset, FromProbe, BeforePci, InSlot, KeyboardSteps, ListedFrom, From, Registered
  <1>7. ScreenInv'
    BY <1>1, <1>2 DEF ScreenInv, FromReset, FromProbe, Late, Ends, PCI_ENUMERATE_MSG, Printed, Width
  <1> QED BY <1>3, <1>4, <1>5, <1>6, <1>7

LEMMA NextSlotStep == BootInv /\ NextSlot => BootInv'
  <1> SUFFICES ASSUME BootInv, NextSlot PROVE BootInv'
    OBVIOUS
  <1> USE DEF BootInv, NextSlot, Step, cursor, screenVars, memoryVars, pciVars, kbcVars
  <1>1. \/ slot = 0 /\ slot' = 0 /\ pc' = "disableFirst" /\ text' = KEYB_INIT_MSG
        \/ slot' + 1 = slot /\ slot' \in Slots /\ pc' = "selectIdent" /\ text' = <<>>
    BY DEF BiosTypeOK, Slots
  <1>2. BiosTypeOK'
    BY <1>1 DEF BiosTypeOK, TypeOK, Location, Handling, KeyboardSteps, KEYB_INIT_MSG
  <1>3. ControllerInv'
    BY <1>1 DEF ControllerInv, Booting, Early, Late, FromReset, FromProbe
  <1>4. MemoryInv'
    BY <1>1 DEF MemoryInv, FromReset, FromProbe, Handling, BeforePci, Bytes
  <1>5. PciInv'
    BY <1>1 DEF PciInv, FromReset, FromProbe, BeforePci, InSlot, KeyboardSteps
  <1>6. ScreenInv'
    BY <1>1 DEF ScreenInv, FromReset, FromProbe, Late, Ends, Printed, KEYB_INIT_MSG, Width
  <1> QED BY <1>2, <1>3, <1>4, <1>5, <1>6

\* The controller of the PCI bus is the device that answers its two ports.
LEMMA PciOwnsItsPorts == PortOwner(CFG_ADDR) = "pci" /\ PortOwner(CFG_DATA) = "pci"
  <1> SUFFICES ASSUME NEW p \in {CFG_ADDR, CFG_DATA} PROVE PortOwner(p) = "pci"
    OBVIOUS
  <1> DEFINE hits == {i \in DOMAIN IoDevices : p \in IoDevices[i].ports}
  <1>1. hits = {1}
    BY DEF IoDevices, CFG_ADDR, CFG_DATA
  <1>2. PortOwner(p) = IF hits = {} THEN "nobody"
                       ELSE IoDevices[CHOOSE i \in hits : \A j \in hits : i <= j].name
    BY DEF PortOwner
  <1> HIDE DEF hits
  <1>3. (CHOOSE i \in hits : \A j \in hits : i <= j) = 1
    BY <1>1
  <1>4. PortOwner(p) = IoDevices[1].name
    BY <1>1, <1>2, <1>3
  <1> QED BY <1>4 DEF IoDevices

\* What the bus makes of the addresses the enumeration composes.
LEMMA AddressParts ==
    ASSUME NEW s \in Slots, NEW r \in {0, 8}
    PROVE  /\ ConfigAddress(0, s, r) \in Nat
           /\ BusOf(ConfigAddress(0, s, r)) = 0
           /\ SlotOf(ConfigAddress(0, s, r)) = s
           /\ WordOf(ConfigAddress(0, s, r)) = r \div 4
  <1> DEFINE addr == ConfigAddress(0, s, r)
  <1>1. addr = 2048 * s + r
    BY DEF ConfigAddress, Slots
  <1> HIDE DEF addr
  <1>2. addr \div 65536 = 0 /\ addr \div 2048 = s /\ addr % 256 = r
    BY <1>1 DEF Slots
  <1>3. addr \in Nat /\ 0 % 256 = 0 /\ s % 32 = s
    BY <1>1 DEF Slots
  <1>4. BusOf(addr) = 0 /\ SlotOf(addr) = s /\ WordOf(addr) = r \div 4
    BY <1>2, <1>3 DEF BusOf, SlotOf, WordOf
  <1> QED BY <1>3, <1>4 DEF addr

\* The identity word of a slot, and the class word of a device.
LEMMA IdentWord ==
    ASSUME NEW s \in Slots
    PROVE  ConfigData(ConfigAddress(0, s, 0)) = AllOnes <=> s \notin Registered
  <1>1. CASE s \notin Registered
    BY <1>1, AddressParts DEF ConfigData
  <1>2. CASE s \in Registered
    <2>1. ConfigData(ConfigAddress(0, s, 0)) = <<DescriptorAt(s).devid, DescriptorAt(s).vendor>>
      BY <1>2, AddressParts DEF ConfigData
    <2>2. DescriptorAt(s).vendor = 32902
      BY <1>2 DEF Registered, DescriptorAt, Keyboard, Display, Storage
    <2> QED BY <1>2, <2>1, <2>2 DEF AllOnes
  <1> QED BY <1>1, <1>2

LEMMA ClassWord ==
    ASSUME NEW s \in Registered
    PROVE  LET class == ConfigData(ConfigAddress(0, s, 8))[1] \div 256
           IN  /\ <<s, IF class = 1 THEN "msd" ELSE "class", class>> = Named(s)
               /\ class \in Nat
  <1>1. s \in Slots
    BY DEF Slots, Registered
  <1>2. ConfigData(ConfigAddress(0, s, 8)) =
          <<DescriptorAt(s).class * 256 + DescriptorAt(s).subclass, 0>>
    BY <1>1, AddressParts DEF ConfigData
  <1>3. s = 0 \/ s = 1 \/ s = 4
    BY DEF Registered
  <1> QED BY <1>2, <1>3 DEF DescriptorAt, Keyboard, Display, Storage, Named

LEMMA SelectIdentStep == BootInv /\ Select("selectIdent", 0, "readIdent") => BootInv'
  <1> SUFFICES ASSUME BootInv, Select("selectIdent", 0, "readIdent") PROVE BootInv'
    OBVIOUS
  <1> USE DEF BootInv, Select, Step, cursor, screenVars, memoryVars, pciVars, kbcVars
  <1>1. slot \in Slots /\ pciAddr' = ConfigAddress(0, slot, 0) /\ pciAddr' \in Nat
    BY PciOwnsItsPorts, AddressParts DEF PciInv, InSlot
  <1>2. BiosTypeOK'
    BY <1>1 DEF BiosTypeOK, TypeOK, Location, Handling, KeyboardSteps
  <1>3. ControllerInv'
    BY <1>1 DEF ControllerInv, Booting, Early, Late, FromReset, FromProbe
  <1>4. MemoryInv'
    BY <1>1 DEF MemoryInv, FromReset, FromProbe, Handling, BeforePci, Bytes
  <1>5. PciInv'
    BY <1>1 DEF PciInv, FromReset, FromProbe, BeforePci, InSlot, KeyboardSteps
  <1>6. ScreenInv'
    BY <1>1 DEF ScreenInv, FromReset, FromProbe, Late, Ends
  <1> QED BY <1>2, <1>3, <1>4, <1>5, <1>6

LEMMA SelectClassStep == BootInv /\ Select("selectClass", 8, "readClass") => BootInv'
  <1> SUFFICES ASSUME BootInv, Select("selectClass", 8, "readClass") PROVE BootInv'
    OBVIOUS
  <1> USE DEF BootInv, Select, Step, cursor, screenVars, memoryVars, pciVars, kbcVars
  <1>1. slot \in Slots /\ pciAddr' = ConfigAddress(0, slot, 8) /\ pciAddr' \in Nat
    BY PciOwnsItsPorts, AddressParts DEF PciInv, InSlot
  <1>2. BiosTypeOK'
    BY <1>1 DEF BiosTypeOK, TypeOK, Location, Handling, KeyboardSteps
  <1>3. ControllerInv'
    BY <1>1 DEF ControllerInv, Booting, Early, Late, FromReset, FromProbe
  <1>4. MemoryInv'
    BY <1>1 DEF MemoryInv, FromReset, FromProbe, Handling, BeforePci, Bytes
  <1>5. PciInv'
    BY <1>1 DEF PciInv, FromReset, FromProbe, BeforePci, InSlot, KeyboardSteps
  <1>6. ScreenInv'
    BY <1>1 DEF ScreenInv, FromReset, FromProbe, Late, Ends
  <1> QED BY <1>2, <1>3, <1>4, <1>5, <1>6

\* A slot adds its line if a device is registered there.
LEMMA SlotListed ==
    ASSUME NEW s \in Slots
    PROVE  /\ s \notin Registered => ListedFrom(s) = ListedFrom(s + 1) /\ Printed(s) = Printed(s + 1)
           /\ s \in Registered => /\ ListedFrom(s) = ListedFrom(s + 1) \cup {Named(s)}
                                /\ Printed(s) = Printed(s + 1) + 1
  <1>1. CASE s \notin Registered
    <2>1. From(s) = From(s + 1)
      BY <1>1 DEF From, Registered, Slots
    <2> QED BY <1>1, <2>1 DEF ListedFrom, Printed, Registered, Slots
  <1>2. CASE s \in Registered
    <2>1. From(s) = From(s + 1) \cup {s}
      BY <1>2 DEF From, Registered, Slots
    <2> QED BY <1>2, <2>1 DEF ListedFrom, Printed, Registered, Slots
  <1> QED BY <1>1, <1>2

LEMMA ReadIdentStep == BootInv /\ ReadIdent => BootInv'
  <1> SUFFICES ASSUME BootInv, ReadIdent PROVE BootInv'
    OBVIOUS
  <1> USE DEF BootInv, ReadIdent, Step, cursor, screenVars, memoryVars, pciVars, kbcVars
  <1>1. /\ slot \in Slots
        /\ \/ slot \notin Registered /\ pc' = "nextSlot" /\ text' = <<>>
           \/ slot \in Registered /\ pc' = "selectClass" /\ text' = TAB
    BY PciOwnsItsPorts, IdentWord DEF PciInv, InSlot, Incoming
  <1>2. BiosTypeOK'
    BY <1>1 DEF BiosTypeOK, TypeOK, Location, Handling, KeyboardSteps, TAB
  <1>3. ControllerInv'
    BY <1>1 DEF ControllerInv, Booting, Early, Late, FromReset, FromProbe
  <1>4. MemoryInv'
    BY <1>1 DEF MemoryInv, FromReset, FromProbe, Handling, BeforePci, Bytes
  <1>5. PciInv'
    BY <1>1, SlotListed DEF PciInv, FromReset, FromProbe, BeforePci, InSlot, KeyboardSteps
  <1>6. ScreenInv'
    <2>1. line = 9 + Printed(slot + 1) /\ column = 0 /\ Printed(slot + 1) \in Nat
      BY DEF ScreenInv, Ends, Printed
    <2>2. slot \notin Registered => Printed(slot) = Printed(slot + 1)
      BY <1>1, SlotListed
    <2> QED BY <1>1, <2>1, <2>2 DEF ScreenInv, FromReset, FromProbe, Late, Ends, TAB, Width
  <1> QED BY <1>2, <1>3, <1>4, <1>5, <1>6

\* What is listed is a device in its slot.
LEMMA NamedType ==
    ASSUME NEW s \in Registered PROVE Named(s) \in Slots \X Names \X Nat
  <1>1. s = 0 \/ s = 1 \/ s = 4
    BY DEF Registered
  <1> QED BY <1>1 DEF Named, DescriptorAt, Keyboard, Display, Storage, Slots, Names

LEMMA ReadClassStep == BootInv /\ ReadClass => BootInv'
  <1> SUFFICES ASSUME BootInv, ReadClass PROVE BootInv'
    OBVIOUS
  <1> USE DEF BootInv, ReadClass, Step, cursor, screenVars, memoryVars, pciVars, kbcVars
  <1>1. slot \in Slots
    BY DEF PciInv, InSlot
  <1>2. slot \in Registered /\ listed' = listed \cup {Named(slot)}
    BY PciOwnsItsPorts, ClassWord DEF PciInv, InSlot, Incoming
  <1>3. listed' \subseteq Slots \X Names \X Nat
    BY <1>1, <1>2, NamedType DEF BiosTypeOK
  <1>4. BiosTypeOK'
    BY <1>1, <1>2, <1>3 DEF BiosTypeOK, TypeOK, Location, Handling, KeyboardSteps, DEVICE_LINE
  <1>5. ControllerInv'
    BY <1>1, <1>2, <1>3 DEF ControllerInv, Booting, Early, Late, FromReset, FromProbe
  <1>6. MemoryInv'
    BY <1>1, <1>2, <1>3 DEF MemoryInv, FromReset, FromProbe, Handling, BeforePci, Bytes
  <1>7. PciInv'
    BY <1>1, <1>2, <1>3, SlotListed DEF PciInv, FromReset, FromProbe, BeforePci, InSlot, KeyboardSteps
  <1>8. ScreenInv'
    <2>1. line = 9 + Printed(slot + 1) /\ column = 4 /\ Printed(slot + 1) \in Nat
      BY DEF ScreenInv, Ends, Printed
    <2>2. Printed(slot) = Printed(slot + 1) + 1
      BY <1>1, <1>2, SlotListed
    <2> QED BY <2>1, <2>2 DEF ScreenInv, FromReset, FromProbe, Late, Ends, DEVICE_LINE, Width
  <1> QED BY <1>4, <1>5, <1>6, <1>7, <1>8

\* An address in a word.
LEMMA Wraps ==
    ASSUME NEW n \in Nat, NEW m \in Nat \ {0}
    PROVE  /\ n < m => n % m = n
           /\ (n >= m /\ n < 2 * m) => n % m = n - m
  <1>1. ASSUME n < m PROVE n % m = n
    BY <1>1
  <1>2. ASSUME n >= m, n < 2 * m PROVE n % m = n - m
    <2> DEFINE q == n \div m
    <2>1. n = m * q + (n % m) /\ n % m \in 0 .. m - 1 /\ q \in Int
      OBVIOUS
    <2> HIDE DEF q
    <2>2. ~(q <= 0)
      <3> SUFFICES ASSUME q <= 0 PROVE FALSE
        OBVIOUS
      <3>1. m * q <= 0
        BY <2>1
      <3> QED BY <1>2, <2>1, <3>1
    <2>3. ~(q >= 2)
      <3> SUFFICES ASSUME q >= 2 PROVE FALSE
        OBVIOUS
      <3>1. m * q >= 2 * m
        BY <2>1
      <3> QED BY <1>2, <2>1, <3>1
    <2>4. q = 1
      BY <2>1, <2>2, <2>3
    <2> QED BY <2>1, <2>4
  <1> QED BY <1>1, <1>2

LEMMA ProbeStep == BootInv /\ Probe => BootInv'
  <1> SUFFICES ASSUME BootInv, Probe PROVE BootInv'
    OBVIOUS
  <1> USE DEF BootInv, Probe, Raise, cursor, screenVars, memoryVars, pciVars, kbcVars
  <1>1. /\ probing /\ a0 \in 0 .. Bytes /\ a0 % 4 = 0
        /\ machine.ram \in 0 .. AddressSpace - 1
        /\ Bytes \in 0 .. AddressSpace - 1 /\ Bytes % 4 = 0
        /\ \/ RamBase + machine.ram >= AddressSpace /\ Bytes = 0
           \/ /\ RamBase + machine.ram < AddressSpace /\ RamBase + Bytes <= AddressSpace
              /\ machine.ram <= Bytes /\ Bytes < machine.ram + 4
    BY BytesRange DEF MemoryInv, BiosTypeOK
  <1>2. InRam((RamBase + a0) % AddressSpace) <=> a0 < Bytes
    <2> DEFINE top == RamBase + machine.ram
               addr == RamBase + a0
    <2>1. /\ RamBase \in 1 .. AddressSpace - 1 /\ AddressSpace \in Nat \ {0}
          /\ top \in Nat /\ addr \in Nat /\ top < 2 * AddressSpace
      BY <1>1, MemoryAssumption
    <2>2. /\ \A n \in Nat : n < AddressSpace => n % AddressSpace = n
          /\ \A n \in Nat : (n >= AddressSpace /\ n < 2 * AddressSpace)
                               => n % AddressSpace = n - AddressSpace
      BY <2>1, Wraps
    <2>3. \A x : InRam(x) <=> x >= RamBase /\ x < top % AddressSpace
      BY DEF InRam
    <2>4. CASE top >= AddressSpace
      <3>1. Bytes = 0 /\ a0 = 0 /\ addr = RamBase
        BY <1>1, <2>1, <2>4
      <3>2. top % AddressSpace = top - AddressSpace /\ top - AddressSpace < RamBase
        <4>1. top - AddressSpace < RamBase
          BY <1>1, <2>1
        <4> HIDE DEF top
        <4> QED BY <2>1, <2>2, <2>4, <4>1
      <3>3. addr % AddressSpace = RamBase
        BY <2>1, <2>2, <3>1
      <3> HIDE DEF top
      <3>4. ~InRam(RamBase)
        BY <2>1, <2>3, <3>2
      <3> QED BY <3>1, <3>3, <3>4
    <2>5. CASE top < AddressSpace
      <3>1. top % AddressSpace = top
        <4> HIDE DEF top
        <4> QED BY <2>1, <2>2, <2>5
      <3>2. RamBase + Bytes <= AddressSpace /\ machine.ram <= Bytes /\ Bytes < machine.ram + 4
        BY <1>1, <2>1, <2>5
      <3>3. CASE addr < AddressSpace
        <4>1. addr % AddressSpace = addr
          <5> HIDE DEF addr
          <5> QED BY <2>1, <2>2, <3>3
        <4>2. InRam(addr) <=> a0 < machine.ram
          <5>1. InRam(addr) <=> addr >= RamBase /\ addr < top
            BY <2>3, <3>1
          <5> QED BY <1>1, <2>1, <5>1
        <4>3. a0 < machine.ram <=> a0 < Bytes
          BY <1>1, <3>2
        <4> QED BY <4>1, <4>2, <4>3
      <3>4. CASE addr >= AddressSpace
        <4>1. a0 = Bytes /\ addr = AddressSpace
          BY <1>1, <2>1, <3>2, <3>4
        <4>2. addr % AddressSpace = 0
          <5> HIDE DEF addr
          <5> QED BY <2>1, <2>2, <4>1
        <4>3. ~InRam(0)
          BY <2>1, <2>3
        <4> QED BY <1>1, <4>1, <4>2, <4>3
      <3> QED BY <1>1, <2>1, <3>3, <3>4
    <2> QED BY <1>1, <2>1, <2>4, <2>5
  <1>3. \/ /\ a0' = a0 + 4 /\ a0' % 4 = 0 /\ a0' \in 0 .. Bytes
           /\ UNCHANGED <<pc, text, cause, xpc>>
        \/ a0 = Bytes /\ Raise("MMU_NOMAP") /\ UNCHANGED a0
    BY <1>1, <1>2
  <1>4. a0' \in 0 .. AddressSpace - 1 /\ TypeOK'
    <2>1. a0' \in 0 .. Bytes
      BY <1>1, <1>3
    <2>2. TypeOK'
      BY DEF BiosTypeOK, TypeOK
    <2> QED BY <1>1, <2>1, <2>2, MemoryAssumption
  <1>5. BiosTypeOK'
    BY <1>1, <1>2, <1>3, <1>4 DEF BiosTypeOK, TypeOK, Location, Handling, KeyboardSteps
  <1>6. ControllerInv'
    BY <1>1, <1>2, <1>3, <1>4 DEF ControllerInv, Booting, Early, Late, FromReset, FromProbe
  <1>7. MemoryInv'
    <2>1. Bytes' = Bytes
      BY DEF Bytes
    <2>2. CASE a0' = a0 + 4
      <3>1. a0' % 4 = 0 /\ a0' \in 0 .. Bytes /\ pc' = pc /\ probing' = probing
        BY <1>1, <1>3, <2>2
      <3>2. pc = "probe"
        OBVIOUS
      <3>3. ~FromReset' /\ ~FromProbe'
        BY <3>1, <3>2 DEF FromReset, FromProbe
      <3>4. a0' <= Bytes'
        BY <1>1, <2>1, <3>1
      <3> HIDE DEF Probe
      <3> QED BY <1>1, <3>1, <3>2, <3>3, <3>4 DEF MemoryInv, Handling, BeforePci
    <2>3. CASE a0' # a0 + 4
      BY <1>3, <2>1, <2>3 DEF MemoryInv, FromReset, FromProbe, Handling, BeforePci
    <2> QED BY <2>2, <2>3
  <1>8. PciInv'
    BY <1>1, <1>2, <1>3, <1>4 DEF PciInv, FromReset, FromProbe, BeforePci, InSlot, KeyboardSteps
  <1>9. ScreenInv'
    BY <1>1, <1>2, <1>3, <1>4 DEF ScreenInv, FromReset, FromProbe, Late, Ends
  <1> QED BY <1>5, <1>6, <1>7, <1>8, <1>9

LEMMA DisableFirstStep == BootInv /\ SendCommand("disableFirst", "FPDI", "disableSecond") => BootInv'
  <1> SUFFICES ASSUME BootInv, SendCommand("disableFirst", "FPDI", "disableSecond") PROVE BootInv'
    OBVIOUS
  <1> USE DEF BootInv, SendCommand, Step, cursor, screenVars, memoryVars, pciVars, kbcVars
  <1>1. TypeOK'
    BY WriteCommandType DEF BiosTypeOK, Command, Parameterised
  <1>2. BiosTypeOK'
    BY <1>1 DEF BiosTypeOK, Location, Handling, KeyboardSteps
  <1>3. ControllerInv'
    BY <1>1 DEF ControllerInv, Booting, Early, Late, FromReset, FromProbe, WriteCommand, Configured, Answer, Answering, PowerOn, FPIRQ, FPCLK, SPCLK
  <1>4. MemoryInv'
    BY <1>1 DEF MemoryInv, FromReset, FromProbe, Handling, BeforePci, Bytes
  <1>5. PciInv'
    BY <1>1 DEF PciInv, FromReset, FromProbe, BeforePci, InSlot, KeyboardSteps
  <1>6. ScreenInv'
    BY <1>1 DEF ScreenInv, FromReset, FromProbe, Late, Ends
  <1> QED BY <1>2, <1>3, <1>4, <1>5, <1>6

LEMMA DisableSecondStep == BootInv /\ SendCommand("disableSecond", "SPDI", "askConfig") => BootInv'
  <1> SUFFICES ASSUME BootInv, SendCommand("disableSecond", "SPDI", "askConfig") PROVE BootInv'
    OBVIOUS
  <1> USE DEF BootInv, SendCommand, Step, cursor, screenVars, memoryVars, pciVars, kbcVars
  <1>1. TypeOK'
    BY WriteCommandType DEF BiosTypeOK, Command, Parameterised
  <1>2. BiosTypeOK'
    BY <1>1 DEF BiosTypeOK, Location, Handling, KeyboardSteps
  <1>3. ControllerInv'
    BY <1>1 DEF ControllerInv, Booting, Early, Late, FromReset, FromProbe, WriteCommand, Configured, Answer, Answering, PowerOn, FPIRQ, FPCLK, SPCLK
  <1>4. MemoryInv'
    BY <1>1 DEF MemoryInv, FromReset, FromProbe, Handling, BeforePci, Bytes
  <1>5. PciInv'
    BY <1>1 DEF PciInv, FromReset, FromProbe, BeforePci, InSlot, KeyboardSteps
  <1>6. ScreenInv'
    BY <1>1 DEF ScreenInv, FromReset, FromProbe, Late, Ends
  <1> QED BY <1>2, <1>3, <1>4, <1>5, <1>6

LEMMA AskConfigStep == BootInv /\ SendCommand("askConfig", "RRAM0", "readConfig") => BootInv'
  <1> SUFFICES ASSUME BootInv, SendCommand("askConfig", "RRAM0", "readConfig") PROVE BootInv'
    OBVIOUS
  <1> USE DEF BootInv, SendCommand, Step, cursor, screenVars, memoryVars, pciVars, kbcVars
  <1>1. TypeOK'
    BY WriteCommandType DEF BiosTypeOK, Command, Parameterised
  <1>2. BiosTypeOK'
    BY <1>1 DEF BiosTypeOK, Location, Handling, KeyboardSteps
  <1>3. ControllerInv'
    BY <1>1 DEF ControllerInv, Booting, Early, Late, FromReset, FromProbe, WriteCommand, Configured, Answer, Answering, PowerOn, FPIRQ, FPCLK, SPCLK
  <1>4. MemoryInv'
    BY <1>1 DEF MemoryInv, FromReset, FromProbe, Handling, BeforePci, Bytes
  <1>5. PciInv'
    BY <1>1 DEF PciInv, FromReset, FromProbe, BeforePci, InSlot, KeyboardSteps
  <1>6. ScreenInv'
    BY <1>1 DEF ScreenInv, FromReset, FromProbe, Late, Ends
  <1> QED BY <1>2, <1>3, <1>4, <1>5, <1>6

LEMMA BeginWriteStep == BootInv /\ SendCommand("beginWrite", "WRAM0", "writeConfig") => BootInv'
  <1> SUFFICES ASSUME BootInv, SendCommand("beginWrite", "WRAM0", "writeConfig") PROVE BootInv'
    OBVIOUS
  <1> USE DEF BootInv, SendCommand, Step, cursor, screenVars, memoryVars, pciVars, kbcVars
  <1>1. TypeOK'
    BY WriteCommandType DEF BiosTypeOK, Command, Parameterised
  <1>2. BiosTypeOK'
    BY <1>1 DEF BiosTypeOK, Location, Handling, KeyboardSteps
  <1>3. ControllerInv'
    BY <1>1 DEF ControllerInv, Booting, Early, Late, FromReset, FromProbe, WriteCommand, Configured, Answer, Answering, PowerOn, FPIRQ, FPCLK, SPCLK
  <1>4. MemoryInv'
    BY <1>1 DEF MemoryInv, FromReset, FromProbe, Handling, BeforePci, Bytes
  <1>5. PciInv'
    BY <1>1 DEF PciInv, FromReset, FromProbe, BeforePci, InSlot, KeyboardSteps
  <1>6. ScreenInv'
    BY <1>1 DEF ScreenInv, FromReset, FromProbe, Late, Ends
  <1> QED BY <1>2, <1>3, <1>4, <1>5, <1>6

LEMMA SelfTestStep == BootInv /\ SendCommand("selfTest", "CNTEST", "readTest") => BootInv'
  <1> SUFFICES ASSUME BootInv, SendCommand("selfTest", "CNTEST", "readTest") PROVE BootInv'
    OBVIOUS
  <1> USE DEF BootInv, SendCommand, Step, cursor, screenVars, memoryVars, pciVars, kbcVars
  <1>1. TypeOK'
    BY WriteCommandType DEF BiosTypeOK, Command, Parameterised
  <1>2. BiosTypeOK'
    BY <1>1 DEF BiosTypeOK, Location, Handling, KeyboardSteps
  <1>3. ControllerInv'
    BY <1>1 DEF ControllerInv, Booting, Early, Late, FromReset, FromProbe, WriteCommand, Configured, Answer, Answering, PowerOn, FPIRQ, FPCLK, SPCLK
  <1>4. MemoryInv'
    BY <1>1 DEF MemoryInv, FromReset, FromProbe, Handling, BeforePci, Bytes
  <1>5. PciInv'
    BY <1>1 DEF PciInv, FromReset, FromProbe, BeforePci, InSlot, KeyboardSteps
  <1>6. ScreenInv'
    BY <1>1 DEF ScreenInv, FromReset, FromProbe, Late, Ends
  <1> QED BY <1>2, <1>3, <1>4, <1>5, <1>6

LEMMA ReadConfigStep == BootInv /\ ReadPort("readConfig", "beginWrite", KEYB_CHANNEL_MSG) => BootInv'
  <1> SUFFICES ASSUME BootInv, ReadPort("readConfig", "beginWrite", KEYB_CHANNEL_MSG) PROVE BootInv'
    OBVIOUS
  <1> USE DEF BootInv, ReadPort, Step, cursor, screenVars, memoryVars, pciVars, kbcVars
  <1>1. TypeOK' /\ out \in Byte
    BY ReadDataType DEF BiosTypeOK, TypeOK
  <1>2. BiosTypeOK'
    BY <1>1 DEF BiosTypeOK, Location, Handling, KeyboardSteps, KEYB_CHANNEL_MSG
  <1>3. ControllerInv'
    BY <1>1 DEF ControllerInv, Booting, Early, Late, FromReset, FromProbe, ReadData
  <1>4. MemoryInv'
    BY <1>1 DEF MemoryInv, FromReset, FromProbe, Handling, BeforePci, Bytes
  <1>5. PciInv'
    BY <1>1 DEF PciInv, FromReset, FromProbe, BeforePci, InSlot, KeyboardSteps
  <1>6. ScreenInv'
    BY <1>1 DEF ScreenInv, FromReset, FromProbe, Late, Ends, KEYB_CHANNEL_MSG, Width
  <1> QED BY <1>2, <1>3, <1>4, <1>5, <1>6

LEMMA ReadTestStep == BootInv /\ ReadPort("readTest", "leave", <<>>) => BootInv'
  <1> SUFFICES ASSUME BootInv, ReadPort("readTest", "leave", <<>>) PROVE BootInv'
    OBVIOUS
  <1> USE DEF BootInv, ReadPort, Step, cursor, screenVars, memoryVars, pciVars, kbcVars
  <1>1. TypeOK' /\ out \in Byte
    BY ReadDataType DEF BiosTypeOK, TypeOK
  <1>2. BiosTypeOK'
    BY <1>1 DEF BiosTypeOK, Location, Handling, KeyboardSteps
  <1>3. ControllerInv'
    BY <1>1 DEF ControllerInv, Booting, Early, Late, FromReset, FromProbe, ReadData
  <1>4. MemoryInv'
    BY <1>1 DEF MemoryInv, FromReset, FromProbe, Handling, BeforePci, Bytes
  <1>5. PciInv'
    BY <1>1 DEF PciInv, FromReset, FromProbe, BeforePci, InSlot, KeyboardSteps
  <1>6. ScreenInv'
    BY <1>1 DEF ScreenInv, FromReset, FromProbe, Late, Ends
  <1> QED BY <1>2, <1>3, <1>4, <1>5, <1>6

LEMMA WriteBackStep == BootInv /\ WriteBack => BootInv'
  <1> SUFFICES ASSUME BootInv, WriteBack PROVE BootInv'
    OBVIOUS
  <1> USE DEF BootInv, WriteBack, Step, cursor, screenVars, memoryVars, pciVars, kbcVars
  <1>1. IrqAndTranslationOff(x10) = {FPCLK, SPCLK} /\ {FPCLK, SPCLK} \in Byte
    BY BitsAssumption DEF ControllerInv, IrqAndTranslationOff, PowerOn, FPIRQ, FPCLK, SPCLK, Byte
  <1>2. TypeOK'
    BY <1>1, WriteDataType DEF BiosTypeOK
  <1>3. BiosTypeOK'
    BY <1>1, <1>2 DEF BiosTypeOK, Location, Handling, KeyboardSteps
  <1>4. ControllerInv'
    BY <1>1, <1>2 DEF ControllerInv, Booting, Early, Late, FromReset, FromProbe, WriteData, Parameterised, FPCLK, SPCLK
  <1>5. MemoryInv'
    BY <1>1, <1>2 DEF MemoryInv, FromReset, FromProbe, Handling, BeforePci, Bytes
  <1>6. PciInv'
    BY <1>1, <1>2 DEF PciInv, FromReset, FromProbe, BeforePci, InSlot, KeyboardSteps
  <1>7. ScreenInv'
    BY <1>1, <1>2 DEF ScreenInv, FromReset, FromProbe, Late, Ends
  <1> QED BY <1>3, <1>4, <1>5, <1>6, <1>7

LEMMA LeaveStep == BootInv /\ Leave => BootInv'
  <1> SUFFICES ASSUME BootInv, Leave PROVE BootInv'
    OBVIOUS
  <1> USE DEF BootInv, Leave, Raise, cursor, screenVars, memoryVars, pciVars, kbcVars
  <1>1. ~probing
    BY DEF MemoryInv, Handling
  <1>2. TypeOK'
    BY DEF BiosTypeOK, TypeOK
  <1>3. BiosTypeOK'
    BY <1>1, <1>2 DEF BiosTypeOK, Location, Handling, KeyboardSteps
  <1>4. ControllerInv'
    BY <1>1, <1>2 DEF ControllerInv, Booting, Early, Late, FromReset, FromProbe
  <1>5. MemoryInv'
    BY <1>1, <1>2 DEF MemoryInv, FromReset, FromProbe, Handling, BeforePci, Bytes
  <1>6. PciInv'
    BY <1>1, <1>2 DEF PciInv, FromReset, FromProbe, BeforePci, InSlot, KeyboardSteps
  <1>7. ScreenInv'
    BY <1>1, <1>2 DEF ScreenInv, FromReset, FromProbe, Late, Ends
  <1> QED BY <1>3, <1>4, <1>5, <1>6, <1>7

\* Facts of arithmetic about lengths and columns.
LEMMA Interval ==
    /\ \A n \in Nat : n <= 80 => n \in 0 .. 80
    /\ \A n \in 0 .. 80 : n <= 80 /\ (n > 0 \/ n = 0)
    /\ \A n \in Nat \ {0} : n > 1 \/ n = 1
    /\ \A n \in 0 .. 24 : n < 24 => n + 1 \in 0 .. 24
  OBVIOUS

\* A text that fits still fits when some of it is out, and ends where it did.
LEMMA EndsKept ==
    ASSUME BiosTypeOK, PrintLine, NEW l \in 0 .. LastLine - 1, NEW c \in 0 .. Width,
           Ends(text, line, column, l, c)
    PROVE  pc' = pc /\ Ends(text', line', column', l, c)
  <1>1. /\ text \in Seq(Nat) /\ text # <<>> /\ Len(text) \in Nat \ {0}
        /\ column \in 0 .. 80 /\ line \in 0 .. 24 /\ l < 24
    BY DEF BiosTypeOK, PrintLine, Width, LastLine
  <1>2. /\ line + Len(text) - 1 = l /\ column + text[1] <= 80
        /\ \A i \in 1 .. Len(text) : text[i] \in 0 .. 80
        /\ c = IF Len(text) = 1 THEN column + text[1] ELSE text[Len(text)]
    <2>1. /\ line + Len(text) - 1 = l /\ column + text[1] <= 80
          /\ \A i \in 1 .. Len(text) : text[i] <= 80
          /\ c = IF Len(text) = 1 THEN column + text[1] ELSE text[Len(text)]
      BY <1>1, Zenon DEF Ends, Width
    <2>2. \A i \in 1 .. Len(text) : text[i] \in Nat
      BY <1>1
    <2>3. \A i \in 1 .. Len(text) : text[i] \in 0 .. 80
      BY <2>1, <2>2, Interval, Zenon
    <2> QED BY <2>1, <2>3, Zenon
  <1>3. 1 \in 1 .. Len(text) /\ text[1] \in 0 .. 80
    BY <1>1, <1>2
  <1>4. CASE text[1] > 0
    <2>1. /\ column' = column + text[1] /\ text' = [text EXCEPT ![1] = 0]
          /\ line' = line /\ pc' = pc
      BY <1>1, <1>2, <1>3, <1>4 DEF PrintLine, Characters, Width
    <2>2. /\ Len(text') = Len(text) /\ text'[1] = 0 /\ text' # <<>>
          /\ \A i \in 2 .. Len(text) : text'[i] = text[i]
      BY <1>1, <1>3, <2>1
    <2>3. \A i \in 1 .. Len(text') : text'[i] <= 80
      <3> SUFFICES ASSUME NEW i \in 1 .. Len(text') PROVE text'[i] <= 80
        OBVIOUS
      <3>1. CASE i = 1
        BY <2>2, <3>1
      <3>2. CASE i # 1
        <4>1. i \in 2 .. Len(text) /\ i \in 1 .. Len(text)
          BY <1>1, <2>2, <3>2
        <4>2. text'[i] = text[i] /\ text[i] \in 0 .. 80
          BY <1>2, <2>2, <4>1, Zenon
        <4> QED BY <4>2, Interval, Zenon
      <3> QED BY <3>1, <3>2
    <2>4. column' + text'[1] <= 80
      BY <1>1, <1>2, <1>3, <2>1, <2>2
    <2>5. c = IF Len(text') = 1 THEN column' + text'[1] ELSE text'[Len(text')]
      BY <1>1, <1>2, <1>3, <2>1, <2>2
    <2> QED BY <1>2, <2>1, <2>2, <2>3, <2>4, <2>5 DEF Ends, Width
  <1>5. CASE text[1] = 0 /\ Len(text) > 1
    <2>1. line < 24
      BY <1>1, <1>2, <1>5
    <2>2. column' = 0 /\ line' = line + 1 /\ text' = Tail(text) /\ pc' = pc
      BY <1>1, <1>5, <2>1 DEF PrintLine, Newline, LastLine
    <2>3. /\ Len(text') = Len(text) - 1
          /\ \A i \in 1 .. Len(text') : text'[i] = text[i + 1] /\ i + 1 \in 1 .. Len(text)
      BY <1>1, <1>5, <2>2
    <2>4. /\ text' # <<>>
          /\ \A i \in 1 .. Len(text') : text'[i] \in 0 .. 80
          /\ 1 \in 1 .. Len(text') /\ Len(text') \in 1 .. Len(text')
      <3>1. Len(text') \in Nat \ {0}
        BY <1>1, <1>5, <2>3
      <3>2. \A i \in 1 .. Len(text') : text'[i] \in 0 .. 80
        BY <1>2, <2>3, Zenon
      <3>3. text' # <<>>
        BY <3>1
      <3> QED BY <3>1, <3>2, <3>3
    <2>5. line' + Len(text') - 1 = l /\ column' + text'[1] <= 80
      <3>1. line' + Len(text') - 1 = l
        BY <1>1, <1>2, <2>2, <2>3
      <3>2. text'[1] \in 0 .. 80
        BY <2>4
      <3>3. 0 + text'[1] <= 80
        BY <3>2
      <3> QED BY <2>2, <3>1, <3>3, Zenon
    <2>6. c = IF Len(text') = 1 THEN column' + text'[1] ELSE text'[Len(text')]
      <3>1. c = text[Len(text)]
        BY <1>2, <1>5
      <3>2. text'[Len(text')] = text[Len(text') + 1]
        BY <2>3, <2>4, Zenon
      <3>3. Len(text') + 1 = Len(text)
        BY <1>1, <2>3
      <3>4. c = text'[Len(text')]
        BY <3>1, <3>2, <3>3, Zenon
      <3>5. c = 0 + c
        OBVIOUS
      <3> QED BY <2>2, <3>4, <3>5, Zenon
    <2> QED BY <2>2, <2>4, <2>5, <2>6 DEF Ends, Width
  <1>6. CASE text[1] = 0 /\ Len(text) = 1
    <2>1. text' = <<>> /\ column' = column /\ line' = line /\ pc' = pc
      BY <1>1, <1>6 DEF PrintLine, cursor
    <2>2. Len(text) = 1
      BY <1>6
    <2>3. line = l /\ column = c
      BY <1>1, <1>2, <1>6, <2>2
    <2> QED BY <2>1, <2>3 DEF Ends
  <1>7. Len(text) > 1 \/ Len(text) = 1
    BY <1>1, Interval, Zenon
  <1>8. text[1] > 0 \/ text[1] = 0
    BY <1>3, Interval, Zenon
  <1> QED BY <1>4, <1>5, <1>6, <1>7, <1>8, Zenon

\* Printing is a matter of the cursor; only in the exception handling may it
\* come to the scroll.
LEMMA PrintLineType == BiosTypeOK /\ PrintLine => BiosTypeOK'
  <1> SUFFICES ASSUME BiosTypeOK, PrintLine PROVE BiosTypeOK'
    OBVIOUS
  <1>1. /\ text \in Seq(Nat) /\ text # <<>> /\ text[1] \in Nat /\ Len(text) \in Nat \ {0}
        /\ column \in 0 .. 80 /\ line \in 0 .. 24
    BY DEF BiosTypeOK, PrintLine, Width, LastLine
  <1>2. /\ text' \in Seq(Nat) /\ column' \in 0 .. 80 /\ line' \in 0 .. 24
        /\ pc' = pc \/ pc' = "scroll"
    <2>1. ASSUME NEW rest \in Seq(Nat), Newline(rest)
          PROVE  /\ text' \in Seq(Nat) /\ column' \in 0 .. 80 /\ line' \in 0 .. 24
                 /\ pc' = pc \/ pc' = "scroll"
      <3>0. line \in 0 .. 24
        BY <1>1
      <3>1. line' \in 0 .. 24
        <4>1. (line < LastLine /\ line' = line + 1) \/ line' = line
          BY <2>1, Zenon DEF Newline
        <4> QED BY <3>0, <4>1, Interval, Zenon DEF LastLine
      <3>2. text' = rest \/ text' = <<>>
        BY <2>1, Zenon DEF Newline
      <3>3. text' \in Seq(Nat)
        <4>1. <<>> \in Seq(Nat)
          OBVIOUS
        <4> QED BY <2>1, <3>2, <4>1, Zenon
      <3>4. column' = 0 /\ (pc' = pc \/ pc' = "scroll")
        BY <2>1 DEF Newline
      <3> QED BY <3>1, <3>3, <3>4
    <2>2. CASE text[1] > 0
      <3> DEFINE n == IF column + text[1] <= Width THEN text[1] ELSE Width - column
      <3>1. n \in Nat /\ text[1] - n \in Nat /\ column + n \in 0 .. 80
        <4>1. column \in 0 .. 80 /\ text[1] \in Nat
          BY <1>1
        <4> QED BY <2>2, <4>1 DEF Width
      <3>2. CASE n = 0
        BY <1>1, <2>1, <2>2, <3>2 DEF PrintLine, Characters
      <3>3. CASE n # 0
        <4>1. /\ column' = column + n /\ text' = [text EXCEPT ![1] = text[1] - n]
              /\ line' = line /\ pc' = pc
          BY <1>1, <2>2, <3>3 DEF PrintLine, Characters
        <4> HIDE DEF n
        <4> QED BY <1>1, <3>1, <4>1
      <3> QED BY <3>2, <3>3
    <2>3. CASE text[1] = 0 /\ Len(text) > 1
      <3>1. Newline(Tail(text)) /\ Tail(text) \in Seq(Nat)
        BY <1>1, <2>3 DEF PrintLine
      <3> QED BY <2>1, <3>1
    <2>4. CASE text[1] = 0 /\ Len(text) <= 1
      <3>1. text' = <<>> /\ column' = column /\ line' = line /\ pc' = pc
        BY <1>1, <2>4 DEF PrintLine, cursor
      <3> QED BY <1>1, <3>1
    <2>5. text[1] \in Nat /\ Len(text) \in Nat
      BY <1>1
    <2> QED BY <2>2, <2>3, <2>4, <2>5
  <1>3. UNCHANGED <<kbcVars, machine, cause, xpc, memoryVars, pciVars, x10>>
    BY DEF PrintLine
  <1>4. TypeOK'
    BY <1>3 DEF BiosTypeOK, TypeOK, kbcVars
  <1>5. /\ pc' \in Location /\ column' \in 0 .. Width /\ line' \in 0 .. LastLine
    BY <1>2 DEF BiosTypeOK, Location, Handling, Width, LastLine
  <1> QED BY <1>2, <1>3, <1>4, <1>5 DEF BiosTypeOK, memoryVars, pciVars

LEMMA PrintLineStep == BootInv /\ PrintLine => BootInv'
  <1> SUFFICES ASSUME BootInv, PrintLine PROVE BootInv'
    OBVIOUS
  <1> USE DEF BootInv
  <1>1. BiosTypeOK'
    BY PrintLineType
  <1>2. /\ text # <<>>
        /\ UNCHANGED <<kbcVars, machine, cause, xpc, memoryVars, pciVars, x10>>
    BY DEF PrintLine
  <1>3. CASE pc \in Handling
    <2>1. ~FromReset /\ ~FromProbe
      BY <1>2 DEF ScreenInv
    <2>2. pc' = pc \/ pc' = "scroll"
      BY DEF PrintLine, Characters, Newline
    <2>3. ~FromReset' /\ ~FromProbe' /\ pc' \in Handling
      BY <1>2, <1>3, <2>1, <2>2 DEF FromReset, FromProbe, Handling, memoryVars
    <2>4. ControllerInv'
      BY <2>3 DEF ControllerInv, Booting, Early, Late, Handling
    <2>5. MemoryInv'
      BY <1>2, <2>2, <2>3 DEF MemoryInv, Handling, BeforePci
    <2>6. PciInv'
      BY <2>3 DEF PciInv, BeforePci, InSlot, KeyboardSteps, Handling
    <2>7. ScreenInv'
      BY <2>3 DEF ScreenInv, Late, Handling
    <2> QED BY <1>1, <2>4, <2>5, <2>6, <2>7
  <1>4. CASE pc \notin Handling
    <2>1. /\ Printed(slot) \in 0 .. 3 /\ Printed(slot + 1) \in 0 .. 3
      BY DEF Printed
    <2>2. pc # "boot" /\ pc \in Location
      BY <1>2 DEF ScreenInv, BiosTypeOK
    <2>3. pc' = pc
      <3>1. ASSUME NEW l \in 0 .. LastLine - 1, NEW c \in 0 .. Width,
                   Ends(text, line, column, l, c)
            PROVE  pc' = pc
        BY <3>1, EndsKept
      <3>2. /\ {6, 7, 13, 14, 9 + Printed(slot), 9 + Printed(slot + 1)} \subseteq 0 .. LastLine - 1
            /\ {0, 4, 30, 36} \subseteq 0 .. Width
        BY <2>1 DEF LastLine, Width
      <3> QED BY <1>4, <2>2, <3>1, <3>2 DEF ScreenInv, Location, Handling, KeyboardSteps, Late
    <2>4. ControllerInv'
      BY <1>2, <2>3 DEF ControllerInv, Booting, Early, Late, FromReset, FromProbe, kbcVars, memoryVars
    <2>5. MemoryInv'
      BY <1>2, <2>3 DEF MemoryInv, FromReset, FromProbe, memoryVars, Bytes
    <2>6. PciInv'
      BY <1>2, <2>3 DEF PciInv, FromReset, FromProbe, pciVars, memoryVars
    <2>7. ScreenInv'
      <3>1. ASSUME NEW l \in 0 .. LastLine - 1, NEW c \in 0 .. Width,
                   Ends(text, line, column, l, c)
            PROVE  Ends(text', line', column', l, c)
        BY <3>1, EndsKept
      <3>2. slot' = slot
        BY <1>2 DEF pciVars
      <3>3. ~FromReset' /\ ~FromProbe' /\ pc # "boot"
        BY <1>2, <1>4, <2>3 DEF FromReset, FromProbe, Handling, ScreenInv
      <3>4. /\ {6, 7, 13, 14, 9 + Printed(slot), 9 + Printed(slot + 1)} \subseteq 0 .. LastLine - 1
            /\ {0, 4, 30, 36} \subseteq 0 .. Width
        BY <2>1 DEF LastLine, Width
      <3> QED BY <2>3, <3>1, <3>2, <3>3, <3>4 DEF ScreenInv
    <2> QED BY <1>1, <2>4, <2>5, <2>6, <2>7
  <1> QED BY <1>3, <1>4

\* Until the write-back every key press raises its exception; behind it none does.
LEMMA KeyPressRaises ==
    ASSUME BootInv, KeyPress
    PROVE  /\ Booting => raised' = "KBC"
           /\ pc \in Late => raised' = "NONE"
  BY DEF BootInv, ControllerInv, KeyPress, KeyDown, PowerOn, FPIRQ, FPCLK, SPCLK

LEMMA KeyPressStep == BootInv /\ KeyPress => BootInv'
  <1> SUFFICES ASSUME BootInv, KeyPress PROVE BootInv'
    OBVIOUS
  <1> USE DEF BootInv, cursor, screenVars, memoryVars, pciVars
  <1>1. TypeOK' /\ cfg' = cfg
    <2>1. PICK k \in Sent : KeyDown(k)
      BY DEF KeyPress
    <2>2. TypeOK'
      BY <2>1, KeyDownType DEF BiosTypeOK
    <2> QED BY <2>1, <2>2 DEF KeyDown
  <1>2. UNCHANGED <<machine, cursor, memoryVars, pciVars, x10>>
    BY DEF KeyPress
  <1>3. CASE raised' = "KBC"
    <2>1. cause' = "KBC" /\ xpc' = pc /\ pc' = "dispatch" /\ text' = <<>>
      BY <1>3 DEF KeyPress, Raise
    <2>2. ~FromReset' /\ ~FromProbe'
      BY <2>1 DEF FromReset, FromProbe
    <2>3. BiosTypeOK'
      BY <1>1, <1>2, <2>1 DEF BiosTypeOK, Location, Handling
    <2>4. ControllerInv'
      BY <2>1, <2>2 DEF ControllerInv, Booting, Early, Late
    <2>5. MemoryInv'
      BY <2>1, <2>2 DEF MemoryInv, Handling
    <2>6. PciInv'
      BY <2>1, <2>2 DEF PciInv, BeforePci, InSlot, KeyboardSteps
    <2>7. ScreenInv'
      BY <2>1, <2>2 DEF ScreenInv, Late
    <2> QED BY <2>3, <2>4, <2>5, <2>6, <2>7
  <1>4. CASE raised' # "KBC"
    <2>1. UNCHANGED <<cause, xpc, pc, text>> /\ ~Booting /\ ~FromReset /\ ~FromProbe
      BY <1>4, KeyPressRaises DEF KeyPress, Booting
    <2>2. ~Booting' /\ ~FromReset' /\ ~FromProbe'
      BY <1>2, <2>1 DEF Booting, FromReset, FromProbe
    <2>3. BiosTypeOK'
      BY <1>1, <1>2, <2>1 DEF BiosTypeOK
    <2>4. ControllerInv'
      BY <1>1, <2>1, <2>2, KeyPressRaises DEF ControllerInv, Booting, Early
    <2>5. MemoryInv'
      BY <1>2, <2>1, <2>2 DEF MemoryInv, Bytes
    <2>6. PciInv'
      BY <1>2, <2>1, <2>2 DEF PciInv
    <2>7. ScreenInv'
      BY <1>2, <2>1, <2>2 DEF ScreenInv
    <2> QED BY <2>3, <2>4, <2>5, <2>6, <2>7
  <1> QED BY <1>3, <1>4

LEMMA StutterStep == BootInv /\ UNCHANGED biosVars => BootInv'
  <1> SUFFICES ASSUME BootInv, UNCHANGED biosVars PROVE BootInv'
    OBVIOUS
  <1> USE DEF BootInv, biosVars, kbcVars, cursor, screenVars, memoryVars, pciVars
  <1>1. BiosTypeOK'
    BY DEF BiosTypeOK, TypeOK
  <1>2. ControllerInv'
    BY DEF ControllerInv, Booting, FromReset, FromProbe
  <1>3. MemoryInv'
    BY DEF MemoryInv, FromReset, FromProbe, Bytes
  <1>4. PciInv'
    BY DEF PciInv, FromReset, FromProbe
  <1>5. ScreenInv'
    BY DEF ScreenInv, FromReset, FromProbe
  <1> QED BY <1>1, <1>2, <1>3, <1>4, <1>5

LEMMA BootStep == BootInv /\ [NextBios]_biosVars => BootInv'
  <1>1. BootInv /\ KeyboardDriver => BootInv'
    BY DisableFirstStep, DisableSecondStep, AskConfigStep, ReadConfigStep, BeginWriteStep,
       WriteBackStep, SelfTestStep, ReadTestStep, LeaveStep, Zenon DEF KeyboardDriver
  <1>2. BootInv /\ Guest => BootInv'
    BY <1>1, PrintLineStep, DispatchStep, NoMapStep, ReportStep, WelcomeStep,
       BeginDetectionStep, ProbeStep, SizedStep, StoreSizeStep, NextSlotStep, SelectIdentStep,
       ReadIdentStep, SelectClassStep, ReadClassStep, Zenon DEF Guest
  <1> QED BY <1>2, KeyPressStep, StutterStep, Zenon DEF NextBios

LEMMA BootAlways == SpecBios => []BootInv
  BY InitBoot, BootStep, PTL DEF SpecBios
------------------------------------------------------------------------------
\* The registers, memory cells and cursor of the boot hold what they may hold,
\* whatever keys are pressed.
THEOREM BiosTypeCorrect == SpecBios => []BiosTypeOK
  <1>1. BootInv => BiosTypeOK
    BY DEF BootInv
  <1> QED BY <1>1, BootAlways, PTL

\* What is taken for the end of the memory is the fault of the probing loop.
THEOREM EndOfMemoryByProbe == SpecBios => []EndFoundByProbe
  <1>1. BootInv => EndFoundByProbe
    BY DEF BootInv, MemoryInv, EndFoundByProbe
  <1> QED BY <1>1, BootAlways, PTL

\* The size kept is that of the RAM, for every address space and base of whole
\* words and every size of a word, those past the top included.
THEOREM MemorySizeKept == SpecBios => []MemorySized
  <1>1. BootInv => MemorySized
    <2> SUFFICES ASSUME BootInv, pc \notin Handling \cup BeforePci PROVE MemorySized
      BY DEF MemorySized, BeforePci
    <2> DEFINE kib == Bytes \div 1024
    <2>1. memSize = BinToBcd(kib) /\ kib \in Nat
      BY BytesRange DEF BootInv, MemoryInv
    <2> HIDE DEF kib
    <2>2. \A d \in 0 .. 6 : (BinToBcd(kib) \div 16 ^ d) % 16 = (kib \div 10 ^ d) % 10
      BY <2>1, BinToBcdDigits
    <2>3. \A d \in 0 .. 6 : (memSize \div 16 ^ d) % 16 = (kib \div 10 ^ d) % 10
      BY <2>1, <2>2, Zenon
    <2> QED BY <2>3, Zenon DEF MemorySized, Bytes, kib
  <1> QED BY <1>1, BootAlways, PTL

\* The keyboard driver starts with exactly the registered devices listed.
THEOREM DevicesAllListed == SpecBios => []DevicesListed
  <1>1. BootInv => DevicesListed
    <2> SUFFICES ASSUME BootInv, pc \in KeyboardSteps PROVE listed = {Named(s) : s \in Registered}
      BY Zenon DEF DevicesListed, Named
    <2>1. From(0) = Registered
      BY DEF From, Registered
    <2> QED BY <2>1 DEF BootInv, PciInv, ListedFrom
  <1> QED BY <1>1, BootAlways, PTL

\* No line of the boot's own output is broken, and none of it scrolls.
THEOREM BootFits == SpecBios => []BootFitsScreen
  <1>1. BootInv => BootFitsScreen
    <2> SUFFICES ASSUME BootInv, pc \notin Handling, text # <<>>
                 PROVE  column + text[1] <= Width /\ line + Len(text) - 1 < LastLine
      BY DEF BootFitsScreen
    <2>1. Printed(slot) \in 0 .. 3 /\ Printed(slot + 1) \in 0 .. 3
      BY DEF Printed
    <2>2. pc # "boot" /\ pc \in Location
      BY DEF BootInv, ScreenInv, BiosTypeOK
    <2>3. ASSUME NEW l \in 0 .. LastLine - 1, NEW c, Ends(text, line, column, l, c)
          PROVE  column + text[1] <= Width /\ line + Len(text) - 1 < LastLine
      <3>1. column + text[1] <= Width /\ line + Len(text) - 1 = l
        BY <2>3, Zenon DEF Ends
      <3>2. l < LastLine
        BY DEF LastLine
      <3> QED BY <3>1, <3>2, Zenon
    <2>4. {6, 7, 13, 14, 9 + Printed(slot), 9 + Printed(slot + 1)} \subseteq 0 .. LastLine - 1
      BY <2>1 DEF LastLine
    <2> QED BY <2>2, <2>3, <2>4 DEF BootInv, ScreenInv, Location, Handling, KeyboardSteps, Late
  <1> QED BY <1>1, BootAlways, PTL

\* Past its write-back the driver has left the configuration it found, less the
\* interrupt, whatever keys are pressed meanwhile.
THEOREM ConfigurationLeft == SpecBios => []ConfigurationKept
  <1>1. BootInv => ConfigurationKept
    BY DEF BootInv, ControllerInv, Late, ConfigurationKept
  <1> QED BY <1>1, BootAlways, PTL

\* From the write-back on no step of the machine, a key press included, raises
\* the keyboard's exception.
THEOREM QuietDriver == SpecBios => QuietAfterWriteBack
  <1>1. ASSUME BootInv, [NextBios]_biosVars, pc \in Late PROVE raised' # "KBC"
    <2>1. CASE KeyPress
      BY <1>1, <2>1, KeyPressRaises
    <2>2. CASE Guest
      <3>1. raised = "NONE"
        BY <1>1 DEF BootInv, ControllerInv
      <3>2. raised' = raised \/ ReadData \/ WriteCommand("CNTEST")
        BY <1>1, <2>2 DEF Guest, PrintLine, Dispatch, NoMap, Report, Welcome, BeginDetection,
           Probe, Sized, StoreSize, NextSlot, Select, ReadIdent, ReadClass, KeyboardDriver,
           SendCommand, ReadPort, WriteBack, Leave, Step, Late, kbcVars
      <3> QED BY <3>1, <3>2 DEF ReadData, WriteCommand
    <2>3. CASE UNCHANGED biosVars
      BY <1>1, <2>3 DEF BootInv, ControllerInv, biosVars, kbcVars
    <2> QED BY <1>1, <2>1, <2>2, <2>3 DEF NextBios
  <1>2. BootInv /\ [NextBios]_biosVars => [(pc \in Late) => raised' # "KBC"]_biosVars
    BY <1>1
  <1>3. [][(pc \in Late) => raised' # "KBC"]_biosVars => QuietAfterWriteBack
    BY PTL DEF QuietAfterWriteBack, Late
  <1> QED BY <1>2, <1>3, BootAlways, PTL DEF SpecBios
=============================================================================
