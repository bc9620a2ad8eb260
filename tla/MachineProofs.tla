--------------------------- MODULE MachineProofs ---------------------------
(***************************************************************************)
(* A processor that takes its instructions from memory and computes with   *)
(* its registers does what the core allows, for every word size, program   *)
(* and initial registers; the results of its shifts and rotations; and how *)
(* far the pc runs ahead of a call.                                        *)
(*                                                                         *)
(* The first follows case by case from what a word decodes to              *)
(* (EveryWordDecodes): each data path ends in the write, the flush or the  *)
(* exception of one action of the core, with operands the core may choose. *)
(***************************************************************************)
EXTENDS Machine, CpuProofs, DecodeProofs

Registers == [0 .. 30 -> Word]

LEMMA DataIsWord == Data = Word
  BY MachineAssumption

LEMMA ValueType ==
    ASSUME NEW f \in Prepared, regs \in Registers, NEW n \in RegisterNumber
    PROVE  Value(f, n) \in Word
  BY DEF Value, Prepared, Processor, Registers, RegisterNumber

LEMMA OperandInWord ==
    ASSUME NEW f \in Prepared, regs \in Registers, NEW x \in OperandType
    PROVE  Operand(f, x) \in Word
  BY ValueType DEF Operand, OperandType

LEMMA StoredType ==
    ASSUME regs \in Registers, NEW n, NEW v \in Word
    PROVE  Stored(n, v) \in Registers
  BY DEF Stored, Registers

LEMMA KindType == \A n : RegisterKind(n) \in Register
  BY DEF RegisterKind, Register

LEMMA WriteFinishes ==
    ASSUME regs \in Registers, NEW f, NEW n, NEW v \in Word, Write(f, n, v)
    PROVE  /\ Finish(f, WriteRegister(f.cpu, RegisterKind(n), v))
           /\ regs' \in Registers
  BY StoredType DEF Write, Finish

LEMMA OnlyFinishes ==
    ASSUME regs \in Registers, NEW f, NEW c, Only(f, c)
    PROVE  Finish(f, c) /\ regs' \in Registers
  BY DEF Only, Finish

LEMMA EndsDies ==
    ASSUME regs \in Registers, NEW f, NEW how, Ends(f, how)
    PROVE  Die(f, how) /\ regs' \in Registers
  BY DEF Ends, Die
------------------------------------------------------------------------------
(***************************************************************************)
(* Each data path is an action of the core.                                *)
(***************************************************************************)
\* A state in which hv2_execute finds a word to execute.
Executing(f) == f \in Prepared /\ IsInstruction(f) /\ regs \in Registers

LEMMA AluRefines ==
    ASSUME NEW f, f \in Prepared, regs \in Registers, NEW i \in AluForm, AluStep(f, i)
    PROVE  \E v \in Word : Write(f, i.d, v)
  <1>1. PICK k \in DOMAIN AluTable : i.fn = AluTable[k]
    BY DEF AluForm
  <1>2. i.d \in RegisterNumber /\ i.s0 \in OperandType /\ i.s1 \in OperandType
    BY DEF AluForm
  <1> DEFINE s0 == Operand(f, i.s0)  s1 == Operand(f, i.s1)
             v == AluResult(i.fn, Value(f, i.d), s0, s1)
  <1>3. s0 \in Word /\ s1 \in Word /\ Value(f, i.d) \in Word
    BY <1>2, OperandInWord, ValueType
  <1>4. ~DividesByZero(i.fn, s1) /\ Write(f, i.d, v)
    BY DEF AluStep
  <1>5. v \in Word
    <2> HIDE DEF s0, s1
    <2> QED BY <1>1, <1>3, <1>4, AluResultType
  <1> QED BY <1>4, <1>5

LEMMA BranchRefines ==
    ASSUME NEW f, Executing(f), NEW i, BranchForm(i), BranchStep(f, i)
    PROVE  BranchImmediate(f) /\ regs' \in Registers
  <1>1. i.offset \in Data /\ f.cpu.pc \in Word
    BY DataIsWord DEF BranchForm, Executing, Prepared, Processor
  <1>2. Link(f) \in Word
    BY <1>1 DEF Link
  <1>3. regs \in Registers /\ Stored(30, Link(f)) \in Registers
    BY <1>2, StoredType DEF Executing
  <1>4. CASE Holds(i.cond, Value(f, i.d), Value(f, i.s0))
    <2>1. /\ cpu' = WriteRegister(f.cpu, "pc", Plus(f.cpu.pc, i.offset))
          /\ bus' = f.bus /\ host' = host
          /\ regs' = IF i.link THEN Stored(30, Link(f)) ELSE regs
      BY <1>4 DEF BranchStep
    <2> QED BY <1>1, <1>3, <2>1 DEF BranchImmediate, Finish, Executing
  <1>5. CASE ~Holds(i.cond, Value(f, i.d), Value(f, i.s0))
    <2>1. Only(f, f.cpu)
      BY <1>5 DEF BranchStep
    <2> QED BY <1>3, <2>1, OnlyFinishes DEF BranchImmediate, Executing
  <1> QED BY <1>4, <1>5

LEMMA JumpRefines ==
    ASSUME NEW f, Executing(f), NEW i, JumpForm(i), JumpStep(f, i)
    PROVE  BranchRegister(f) /\ regs' \in Registers
  <1> DEFINE v == Value(f, i.s1)
  <1>1. v \in Word /\ f.cpu.pc \in Word /\ regs \in Registers
    BY ValueType DEF JumpForm, Executing, Prepared, Processor
  <1>2. Plus(f.cpu.pc, v) \in Word
    BY <1>1, PlusType
  <1>3. \/ Only(f, f.cpu) \/ Write(f, 31, v) \/ Write(f, 31, Plus(f.cpu.pc, v))
    BY DEF JumpStep
  <1>4. RegisterKind(31) = "pc"
    BY DEF RegisterKind
  <1> HIDE DEF v
  <1>5. CASE Only(f, f.cpu)
    BY <1>1, <1>5, OnlyFinishes DEF BranchRegister, Executing
  <1>6. CASE Write(f, 31, v)
    <2>1. Finish(f, WriteRegister(f.cpu, "pc", v)) /\ regs' \in Registers
      BY <1>1, <1>4, <1>6, WriteFinishes
    <2> QED BY <1>1, <2>1, DataIsWord DEF BranchRegister, Executing
  <1>7. CASE Write(f, 31, Plus(f.cpu.pc, v))
    <2>1. Finish(f, WriteRegister(f.cpu, "pc", Plus(f.cpu.pc, v))) /\ regs' \in Registers
      BY <1>1, <1>2, <1>4, <1>7, WriteFinishes
    <2> QED BY <1>1, <2>1, DataIsWord DEF BranchRegister, Executing
  <1> QED BY <1>3, <1>5, <1>6, <1>7

LEMMA InvalidRefines ==
    ASSUME NEW f, Executing(f), NEW d,
           Only(f, Flush(Exception(f.cpu, "INVALID_COPX"), RegisterKind(d)))
    PROVE  InvalidCop(f) /\ regs' \in Registers
  BY OnlyFinishes, KindType DEF InvalidCop, Executing

LEMMA MoveToCopRefines ==
    ASSUME NEW f, Executing(f), NEW i, MoveToCopStep(f, i)
    PROVE  (MoveToCop(f) \/ InvalidCop(f)) /\ regs' \in Registers
  <1> DEFINE cr == CopName(i.copn, i.copr)
  <1>1. CASE cr = "none"
    <2>1. Only(f, Flush(Exception(f.cpu, "INVALID_COPX"), RegisterKind(i.d)))
      BY <1>1 DEF MoveToCopStep
    <2> QED BY <2>1, InvalidRefines
  <1>2. CASE cr # "none"
    <2>1. /\ cr \in Writable
          /\ \E c \in CopHolding(f.cpu, cr, Value(f, i.d)) :
                Only(f, Flush(c, RegisterKind(i.d)))
      BY <1>2 DEF MoveToCopStep
    <2> HIDE DEF cr
    <2>2. PICK c \in CopWritten(f.cpu, cr) : Only(f, Flush(c, RegisterKind(i.d)))
      BY <2>1 DEF CopHolding
    <2>3. Finish(f, Flush(c, RegisterKind(i.d))) /\ regs' \in Registers
      BY <2>2, OnlyFinishes DEF Executing
    <2> QED BY <2>1, <2>3, KindType DEF MoveToCop, Executing
  <1> QED BY <1>1, <1>2

LEMMA MoveFromCopRefines ==
    ASSUME NEW f, Executing(f), NEW i, MoveFromCopStep(f, i)
    PROVE  (MoveFromCop(f) \/ InvalidCop(f)) /\ regs' \in Registers
  <1> DEFINE cr == CopName(i.copn, i.copr)
  <1>1. CASE cr = "none"
    <2>1. Only(f, Flush(Exception(f.cpu, "INVALID_COPX"), RegisterKind(i.d)))
      BY <1>1 DEF MoveFromCopStep
    <2> QED BY <2>1, InvalidRefines
  <1>2. CASE cr # "none"
    <2>1. PICK v \in CopValue(f.cpu, cr) : Write(f, i.d, v)
      BY <1>2 DEF MoveFromCopStep
    <2>2. v \in Word
      BY DEF CopValue, Executing, Prepared, Processor
    <2>3. Finish(f, WriteRegister(f.cpu, RegisterKind(i.d), v)) /\ regs' \in Registers
      BY <2>1, <2>2, WriteFinishes DEF Executing
    <2> QED BY <2>2, <2>3, KindType, DataIsWord DEF MoveFromCop, Executing
  <1> QED BY <1>1, <1>2

LEMMA AddressType ==
    ASSUME NEW mode \in 0 .. 5, NEW base \in Word, NEW index \in Word, NEW imm \in Nat
    PROVE  Address(mode, base, index, imm) \in Word
  <1> DEFINE offset == CASE mode \in {0, 1} -> (index * imm) % W
                         [] mode \in {2, 3} -> ShiftLeft(index, imm)
                         [] OTHER -> imm % W
  <1>1. index * imm \in Int /\ imm \in Int
    BY WAssumption DEF Word
  <1>2. (index * imm) % W \in Word /\ imm % W \in Word /\ ShiftLeft(index, imm) \in Word
    BY <1>1, ModWord, ShiftLeftType
  <1>3. offset \in Word
    BY <1>2
  <1>4. Plus(base, offset) \in Word /\ Minus(base, offset) \in Word
    <2> HIDE DEF offset
    <2> QED BY <1>3, PlusType, MinusType
  <1> QED BY <1>4 DEF Address

LEMMA AddressOfType ==
    ASSUME NEW f, Executing(f), NEW i, MemoryForm(i)
    PROVE  AddressOf(f, i) \in Word /\ i.size \in Size /\ i.d \in RegisterNumber
  <1>1. /\ i.mode \in 0 .. 5 /\ i.imm \in Nat /\ i.index \in OperandType
        /\ i.s0 \in RegisterNumber /\ i.size \in Size /\ i.d \in RegisterNumber
    BY DEF MemoryForm, TransferSize, Size
  <1>2. Value(f, i.s0) \in Word /\ Operand(f, i.index) \in Word
    BY <1>1, ValueType, OperandInWord DEF Executing
  <1> QED BY <1>1, <1>2, AddressType DEF AddressOf

LEMMA LoadRefines ==
    ASSUME NEW f, Executing(f), NEW i, MemoryForm(i), LoadStep(f, i)
    PROVE  Load(f) /\ regs' \in Registers
  <1>1. /\ AddressOf(f, i) \in Data /\ i.size \in Size /\ RegisterKind(i.d) \in Register
    BY AddressOfType, DataIsWord, KindType
  <1>2. PICK r \in Access(f.cpu, AddressOf(f, i), i.size), v \in Word :
               /\ r.dev = 0 => v = 0
               /\ cpu' = WriteRegister(r.cpu, RegisterKind(i.d), v)
               /\ bus' = f.bus \cup OnBus("read", r)
               /\ regs' = Stored(i.d, v)
               /\ host' = host
    BY DEF LoadStep
  <1>3. v \in Data \cup {0}
    BY DataIsWord
  <1>4. regs' \in Registers
    BY <1>2, StoredType DEF Executing
  <1> QED BY <1>1, <1>2, <1>3, <1>4 DEF Load, Executing

LEMMA StoreRefines ==
    ASSUME NEW f, Executing(f), NEW i, MemoryForm(i), StoreStep(f, i)
    PROVE  Store(f) /\ regs' \in Registers
  <1>1. AddressOf(f, i) \in Data /\ i.size \in Size
    BY AddressOfType, DataIsWord
  <1>2. PICK r \in Access(f.cpu, AddressOf(f, i), i.size) :
               /\ cpu' = r.cpu
               /\ bus' = f.bus \cup OnBus("write", r)
               /\ host' = host /\ regs' = regs
    BY DEF StoreStep
  <1>3. cpu' = IF FALSE THEN Exception(r.cpu, "RESET") ELSE r.cpu
    BY <1>2
  <1> QED BY <1>1, <1>2, <1>3 DEF Store, Executing

LEMMA TrapRefines ==
    ASSUME NEW f, Executing(f), NEW i, TrapStep(f, i)
    PROVE  (SystemTrap(f) \/ IllegalInstruction(f)) /\ regs' \in Registers
  <1>1. TrapCause[i.case] \in {"SYSCALL", "TPL", "DEBUG", "SEXCEPT", "ILLEGAL_INSTR"}
    BY DEF TrapStep, TrapCause
  <1>2. Finish(f, Exception(f.cpu, TrapCause[i.case])) /\ regs' \in Registers
    BY OnlyFinishes DEF TrapStep, Executing
  <1> QED BY <1>1, <1>2 DEF SystemTrap, IllegalInstruction, Executing

LEMMA SysretRefines ==
    ASSUME NEW f, Executing(f), NEW i, SysretStep(f, i)
    PROVE  Sysret(f) /\ regs' \in Registers
  BY OnlyFinishes DEF SysretStep, Sysret, Executing

\* The steps that write one register, with a value that fits it.
LEMMA WritesRefine ==
    ASSUME NEW f, Executing(f), NEW i,
           \/ i \in AluForm /\ AluStep(f, i)
           \/ MemoryForm(i) /\ LeaStep(f, i)
           \/ LoadImmediateForm(i) /\ LoadImmediateStep(f, i)
           \/ SetCondStep(f, i)
    PROVE  (Alu(f) \/ LoadEffectiveAddress(f)) /\ regs' \in Registers
  <1>1. \E v \in Word : Write(f, i.d, v)
    <2>1. CASE i \in AluForm /\ AluStep(f, i)
      BY <2>1, AluRefines DEF Executing
    <2>2. CASE MemoryForm(i) /\ LeaStep(f, i)
      BY <2>2, AddressOfType DEF LeaStep
    <2>3. CASE LoadImmediateForm(i) /\ LoadImmediateStep(f, i)
      BY <2>3 DEF LoadImmediateForm, LoadImmediateStep
    <2>4. CASE SetCondStep(f, i)
      BY <2>4, SmallWords DEF SetCondStep
    <2> QED BY <2>1, <2>2, <2>3, <2>4
  <1>2. PICK v \in Word : Write(f, i.d, v)
    BY <1>1
  <1>3. Finish(f, WriteRegister(f.cpu, RegisterKind(i.d), v)) /\ regs' \in Registers
    BY <1>2, WriteFinishes DEF Executing
  <1> QED BY <1>3, KindType, DataIsWord DEF Alu, Executing

LEMMA EndingRefines ==
    ASSUME NEW f, Executing(f), NEW i, Crash(f, i) \/ ExitStep(f, i)
    PROVE  (AluDivideByZero(f) \/ DebugExit(f)) /\ regs' \in Registers
  BY EndsDies DEF Crash, ExitStep, AluDivideByZero, DebugExit, Executing

LEMMA InstructionRefines ==
    ASSUME NEW f, Executing(f), NEW w, MachineExecute(f, Decoded(w))
    PROVE  Execute(f) /\ regs' \in Registers
  <1> DEFINE i == Decoded(w)
  <1>1. \/ i \in AluForm \/ BranchForm(i) \/ JumpForm(i) \/ MemoryForm(i)
        \/ ExchangeForm(i) \/ LoadImmediateForm(i) \/ SetCondForm(i) \/ BareForm(i)
    BY EveryWordDecodes
  <1>2. i \in AluForm => i.case = "alu"
    BY DEF AluForm
  <1>3. MachineExecute(f, i)
    OBVIOUS
  <1> HIDE DEF i
  <1>4. CASE AluStep(f, i) \/ LeaStep(f, i) \/ LoadImmediateStep(f, i) \/ SetCondStep(f, i)
    <2>1. \/ i \in AluForm /\ AluStep(f, i)
          \/ MemoryForm(i) /\ LeaStep(f, i)
          \/ LoadImmediateForm(i) /\ LoadImmediateStep(f, i)
          \/ SetCondStep(f, i)
      BY <1>1, <1>2, <1>4 DEF AluStep, LeaStep, LoadImmediateStep, BranchForm, JumpForm,
         MemoryForm, ExchangeForm, LoadImmediateForm, SetCondForm, BareForm
    <2> QED BY <2>1, WritesRefine DEF Execute
  <1>5. CASE Crash(f, i) \/ ExitStep(f, i)
    BY <1>5, EndingRefines DEF Execute
  <1>6. CASE BranchStep(f, i)
    <2>1. BranchForm(i)
      BY <1>1, <1>2, <1>6 DEF BranchStep, JumpForm, MemoryForm, ExchangeForm,
         LoadImmediateForm, SetCondForm, BareForm
    <2> QED BY <1>6, <2>1, BranchRefines DEF Execute
  <1>7. CASE JumpStep(f, i)
    <2>1. JumpForm(i)
      BY <1>1, <1>2, <1>7 DEF JumpStep, BranchForm, MemoryForm, ExchangeForm,
         LoadImmediateForm, SetCondForm, BareForm
    <2> QED BY <1>7, <2>1, JumpRefines DEF Execute
  <1>8. CASE LoadStep(f, i) \/ StoreStep(f, i)
    <2>1. MemoryForm(i)
      BY <1>1, <1>2, <1>8 DEF LoadStep, StoreStep, BranchForm, JumpForm, ExchangeForm,
         LoadImmediateForm, SetCondForm, BareForm
    <2> QED BY <1>8, <2>1, LoadRefines, StoreRefines DEF Execute
  <1>9. CASE MoveToCopStep(f, i) \/ MoveFromCopStep(f, i)
    BY <1>9, MoveToCopRefines, MoveFromCopRefines DEF Execute
  <1>10. CASE TrapStep(f, i) \/ SysretStep(f, i)
    BY <1>10, TrapRefines, SysretRefines DEF Execute
  <1>11. CASE NothingStep(f, i)
    <2>1. Finish(f, f.cpu) /\ regs' \in Registers
      BY <1>11, OnlyFinishes DEF NothingStep, Executing
    <2> QED BY <2>1 DEF CopInstruction, Execute, Executing
  <1> QED BY <1>3, <1>4, <1>5, <1>6, <1>7, <1>8, <1>9, <1>10, <1>11 DEF MachineExecute

\* The nop that the processor makes up writes register 0, which nobody sees.
LEMMA NopRefines ==
    ASSUME NEW f, f \in Prepared, regs \in Registers, IsNop(f),
           NEW w \in Opcodes(f.cpu.pipe[2]), MachineExecute(f, Decoded(w))
    PROVE  Execute(f) /\ regs' \in Registers
  <1> DEFINE i == Decoded(w)
  <1>1. w = {}
    BY DEF Opcodes, IsNop
  <1>2. i \in AluForm /\ i.fn = "add" /\ i.d = 0 /\ i.case = "alu"
    BY <1>1, NothingDecodes
  <1>3. MachineExecute(f, i)
    OBVIOUS
  <1> HIDE DEF i
  <1>4. AluStep(f, i)
    BY <1>2, <1>3 DEF MachineExecute, Crash, DividesByZero, BranchStep, JumpStep, MoveToCopStep,
       MoveFromCopStep, TrapStep, TrapCause, ExitStep, SysretStep, LoadStep, StoreStep, LeaStep,
       LoadImmediateStep, SetCondStep, NothingStep
  <1>5. PICK v \in Word : Write(f, 0, v)
    BY <1>2, <1>4, AluRefines
  <1>6. Finish(f, WriteRegister(f.cpu, RegisterKind(0), v)) /\ regs' \in Registers
    BY <1>5, WriteFinishes
  <1>7. WriteRegister(f.cpu, RegisterKind(0), v) = f.cpu
    BY DEF WriteRegister, RegisterKind, Flush
  <1> QED BY <1>6, <1>7 DEF Nop, Execute
------------------------------------------------------------------------------
MachineInv == TypeOK /\ regs \in Registers

LEMMA StepRefines ==
    ASSUME MachineInv, NEW f \in Fetched, NEW w \in Opcodes(f.cpu.pipe[2]),
           MachineExecute(f, Decoded(w))
    PROVE  Execute(f) /\ regs' \in Registers
  <1>1. f \in Prepared /\ regs \in Registers
    BY FetchedType DEF MachineInv
  <1>2. CASE IsNop(f)
    BY <1>1, <1>2, NopRefines
  <1>3. CASE ~IsNop(f)
    <2>1. Executing(f)
      BY <1>1, <1>3 DEF Executing, IsInstruction
    <2> QED BY <2>1, InstructionRefines
  <1> QED BY <1>2, <1>3

LEMMA NextRefines ==
    MachineInv /\ [MachineNext]_machineVars => [Next]_vars /\ MachineInv'
  <1> SUFFICES ASSUME MachineInv, [MachineNext]_machineVars
               PROVE  [Next]_vars /\ regs' \in Registers
    BY NextType DEF MachineInv
  <1>1. CASE MachineCycle
    <2>1. host = "running"
      BY <1>1 DEF MachineCycle
    <2> PICK f \in Fetched : \E w \in Opcodes(f.cpu.pipe[2]) : MachineExecute(f, Decoded(w))
      BY <1>1 DEF MachineCycle
    <2>2. PICK w \in Opcodes(f.cpu.pipe[2]) : MachineExecute(f, Decoded(w))
      OBVIOUS
    <2>3. Execute(f) /\ regs' \in Registers
      BY <2>2, StepRefines
    <2> QED BY <2>1, <2>3 DEF Cycle, Next
  <1>2. CASE MachineInterrupt
    BY <1>2 DEF MachineInterrupt, Next, MachineInv
  <1>3. CASE UNCHANGED machineVars
    BY <1>3 DEF machineVars, vars, MachineInv
  <1> QED BY <1>1, <1>2, <1>3 DEF MachineNext

LEMMA InitRefines == MachineInit => Init /\ MachineInv
  <1> SUFFICES ASSUME MachineInit PROVE regs \in Registers
    BY InitType DEF MachineInit, MachineInv
  <1> QED BY MachineAssumption DEF MachineInit, Registers

LEMMA AlwaysMachine == MachineSpec => []MachineInv
  <1> QED BY InitRefines, NextRefines, PTL DEF MachineSpec

\* Every step of a program in memory is a step of the core: hv2_execute has a
\* case for every word, none with an operand outside the registers, and none
\* that forgets the flush, the exception or the wrap the core goes on with.
THEOREM ProgramsImplementCore == MachineSpec => ImplementsCore
  <1> QED BY InitRefines, NextRefines, PTL DEF MachineSpec, ImplementsCore, Spec
------------------------------------------------------------------------------
(***************************************************************************)
(* What the shifts and rotations computed.                                 *)
(***************************************************************************)
\* The operation recorded, if it is one of the ALU, has the ALU's result.
Recorded(r) ==
    \/ r = NoOperation
    \/ r.op = "link"
    \/ /\ r.s0 \in Word /\ r.s1 \in Word
       /\ \E d \in Word : r.value = AluResult(r.op, d, r.s0, r.s1)

LEMMA ExecuteRecords ==
    ASSUME MachineInv, NEW f \in Prepared, NEW w, MachineExecute(f, Decoded(w))
    PROVE  Recorded(last')
  <1> DEFINE i == Decoded(w)
  <1>1. CASE AluStep(f, i)
    <2>1. i.case = "alu"
      BY <1>1 DEF AluStep
    <2>2. i \in AluForm
      <3>1. \/ i \in AluForm \/ BranchForm(i) \/ JumpForm(i) \/ MemoryForm(i)
            \/ ExchangeForm(i) \/ LoadImmediateForm(i) \/ SetCondForm(i) \/ BareForm(i)
        BY EveryWordDecodes
      <3> HIDE DEF i
      <3> QED BY <2>1, <3>1 DEF BranchForm, JumpForm, MemoryForm, ExchangeForm,
             LoadImmediateForm, SetCondForm, BareForm
    <2> HIDE DEF i
    <2>3. i.d \in RegisterNumber /\ i.s0 \in OperandType /\ i.s1 \in OperandType
      BY <2>2 DEF AluForm
    <2>4. Operand(f, i.s0) \in Word /\ Operand(f, i.s1) \in Word /\ Value(f, i.d) \in Word
      BY <2>3, ValueType, OperandInWord DEF MachineInv
    <2>5. LET s0 == Operand(f, i.s0)
              s1 == Operand(f, i.s1)
          IN  last' = [op |-> i.fn, s0 |-> s0, s1 |-> s1,
                       value |-> AluResult(i.fn, Value(f, i.d), s0, s1)]
      BY <1>1 DEF AluStep, Record
    <2> QED BY <2>4, <2>5 DEF Recorded
  <1>2. CASE BranchStep(f, i)
    <2>1. Unrecorded \/ \E s0, s1, v : Record("link", s0, s1, v)
      BY <1>2 DEF BranchStep
    <2> QED BY <2>1 DEF Unrecorded, Record, Recorded
  <1>3. CASE ~AluStep(f, i) /\ ~BranchStep(f, i)
    <2>1. MachineExecute(f, i)
      OBVIOUS
    <2> HIDE DEF i
    <2>2. Unrecorded
      BY <1>3, <2>1 DEF MachineExecute, Crash, JumpStep, MoveToCopStep, MoveFromCopStep,
         TrapStep, ExitStep, SysretStep, LoadStep, StoreStep, LeaStep, LoadImmediateStep,
         SetCondStep, NothingStep
    <2> QED BY <2>2 DEF Unrecorded, Recorded
  <1> QED BY <1>1, <1>2, <1>3

LEMMA NextRecords ==
    MachineInv /\ Recorded(last) /\ [MachineNext]_machineVars => Recorded(last')
  <1> SUFFICES ASSUME MachineInv, Recorded(last), [MachineNext]_machineVars
               PROVE  Recorded(last')
    OBVIOUS
  <1>1. CASE MachineCycle
    <2> PICK f \in Fetched : \E w \in Opcodes(f.cpu.pipe[2]) : MachineExecute(f, Decoded(w))
      BY <1>1 DEF MachineCycle
    <2>1. PICK w \in Opcodes(f.cpu.pipe[2]) : MachineExecute(f, Decoded(w))
      OBVIOUS
    <2>2. f \in Prepared
      BY FetchedType DEF MachineInv
    <2> QED BY <2>1, <2>2, ExecuteRecords
  <1>2. CASE MachineInterrupt
    BY <1>2 DEF MachineInterrupt, Unrecorded, Recorded
  <1>3. CASE UNCHANGED machineVars
    BY <1>3 DEF machineVars
  <1> QED BY <1>1, <1>2, <1>3 DEF MachineNext

LEMMA AlwaysRecorded == MachineSpec => []Recorded(last)
  <1>1. MachineInit => Recorded(last)
    BY DEF MachineInit, Recorded
  <1>2. Recorded(last') <=> Recorded(last)'
    BY DEF Recorded
  <1> QED BY <1>1, <1>2, NextRecords, AlwaysMachine, PTL DEF MachineSpec

LEMMA RecordedDivides == Recorded(last) => ShiftIsFloorDivision
  <1> SUFFICES ASSUME Recorded(last), last.op = "asr"
               PROVE  Signed(last.value) = Signed(last.s0) \div Weight[last.s1 % WordBits]
    BY DEF ShiftIsFloorDivision
  <1>1. last.s0 \in Word /\ last.s1 \in Word /\ last.value = Asr(last.s0, last.s1)
    BY DEF Recorded, NoOperation, AluResult
  <1>2. last.s1 \in Nat
    BY <1>1, WAssumption DEF Word
  <1>3. \A v : Signed(v) = SignedValue(v)
    BY DEF Signed, SignedValue
  <1> QED BY <1>1, <1>2, <1>3, AsrDivides

LEMMA RecordedTurns == Recorded(last) => RotationsLoseNothing
  <1> SUFFICES ASSUME Recorded(last), last.op \in {"rol", "ror"}, NEW i \in BitNumber
               PROVE  LET by == IF last.op = "rol" THEN last.s1 ELSE -last.s1
                      IN  i \in BitsOf(last.s0) <=> ((i + by) % WordBits) \in BitsOf(last.value)
    BY DEF RotationsLoseNothing
  <1>1. last.s0 \in Word /\ last.s1 \in Word
        /\ last.value = IF last.op = "rol" THEN Rol(last.s0, last.s1) ELSE Ror(last.s0, last.s1)
    BY DEF Recorded, NoOperation, AluResult
  <1>2. last.s1 \in Nat
    BY <1>1, WAssumption DEF Word
  <1>3. CASE last.op = "rol"
    BY <1>1, <1>2, <1>3, RolMovesBits
  <1>4. CASE last.op = "ror"
    BY <1>1, <1>2, <1>4, RorMovesBits
  <1> QED BY <1>3, <1>4

\* Whatever program runs, every asr it executes, by any count, divides the
\* signed number by a power of two and rounds down: hv2_execute shifts
\* unsigned and makes up the sign with a shifted mask.
THEOREM ShiftsDivide == MachineSpec => []ShiftIsFloorDivision
  <1> QED BY AlwaysRecorded, RecordedDivides, PTL

\* Every rol and ror moves each bit by the count around the word, at count 0
\* and at counts beyond the width too, where the two shifts hv2_execute puts
\* together are by the full width or more.
THEOREM RotationsTurn == MachineSpec => []RotationsLoseNothing
  <1> QED BY AlwaysRecorded, RecordedTurns, PTL
------------------------------------------------------------------------------
(***************************************************************************)
(* How far the pc is ahead of the words in the pipeline.  A sysret moves   *)
(* it and leaves the two words behind where they are; each cycle replaces  *)
(* one of them, and shadow counts those left.                              *)
(***************************************************************************)
LEMMA ModAdds ==
    ASSUME NEW a \in Int, NEW b \in Int PROVE ((a % W) + b) % W = (a + b) % W
  <1> DEFINE r == a % W  q == a \div W  x == r + b  s == x % W  k == x \div W  y == a + b
  <1>1. W \in Nat \ {0}
    BY Widths
  <1>2. a = W * q + r /\ r \in 0 .. W - 1 /\ q \in Int
    BY <1>1, Divided
  <1>3. x \in Int
    BY <1>2
  <1>4. x = W * k + s /\ s \in 0 .. W - 1 /\ k \in Int
    <2> HIDE DEF x
    <2> QED BY <1>1, <1>3, Divided
  <1>5. y = W * (q + k) + s /\ q + k \in Int
    <2>1. x = r + b /\ y = a + b
      OBVIOUS
    <2> HIDE DEF x, y, q, r, s, k
    <2> QED BY <1>1, <1>2, <1>4, <2>1
  <1>6. y % W = s
    <2> DEFINE t == q + k
    <2> HIDE DEF q, k, s, y
    <2>1. y = W * t + s /\ t \in Int
      BY <1>5
    <2> HIDE DEF t
    <2> QED BY <1>1, <1>4, <2>1, Quotient
  <1> QED BY <1>6

LEMMA ThreeWords ==
    ASSUME NEW a \in Word PROVE Succ(Succ(Succ(a))) = Plus(a, 12)
  <1>1. a \in Int /\ a + 4 \in Int /\ a + 8 \in Int /\ (a + 4) + 4 = a + 8 /\ (a + 8) + 4 = a + 12
    BY WAssumption DEF Word
  <1> DEFINE b == a + 4  c == a + 8
  <1>2. b \in Int /\ c \in Int /\ b + 4 = c /\ c + 4 = a + 12
    BY <1>1
  <1>3. ((b % W) + 4) % W = (b + 4) % W /\ ((c % W) + 4) % W = (c + 4) % W
    <2>1. \A x \in Int : ((x % W) + 4) % W = (x + 4) % W
      BY ModAdds
    <2> HIDE DEF b, c
    <2> QED BY <1>2, <2>1, Zenon
  <1>4. Succ(a) = b % W
    BY DEF Succ, Plus
  <1>5. Succ(Succ(a)) = c % W
    BY <1>2, <1>3, <1>4 DEF Succ, Plus
  <1>6. Succ(Succ(Succ(a))) = (a + 12) % W
    BY <1>2, <1>3, <1>5 DEF Succ, Plus
  <1> QED BY <1>6 DEF Plus

Next1(c) == c.pipe[0].kind = "word" => c.pc = Succ(c.pipe[0].at)
Next2(c) == c.pipe[1].kind = "word" => c.pc = Succ(Succ(c.pipe[1].at))

Ahead(c, s) ==
    /\ c \in Flushing /\ s \in 0 .. 2
    /\ s < 2 => Next1(c)
    /\ s = 0 => Next2(c)

LEMMA EmptyAhead ==
    ASSUME NEW c \in Flushing, c.pipe = EmptyPipe, NEW s \in 0 .. 2 PROVE Ahead(c, s)
  <1>1. c.pipe[0].kind # "word" /\ c.pipe[1].kind # "word"
    BY DEF EmptyPipe, Bubble
  <1> QED BY <1>1 DEF Ahead, Next1, Next2

\* The shadow an instruction that is no sysret leaves.
Passed(s) == IF s > 0 THEN s - 1 ELSE 0

\* A fetch puts a word the pc is just behind of in slot 0; the word it brings to
\* the end is three behind the pc, unless it is in the shadow.
LEMMA FetchedAhead ==
    ASSUME TypeOK, Ahead(cpu, shadow), NEW f \in Fetched
    PROVE  /\ Ahead(f.cpu, Passed(shadow))
           /\ (shadow = 0 /\ f.cpu.pipe[2].kind = "word") =>
                 f.cpu.pc = Plus(f.cpu.pipe[2].at, 12)
  <1>1. cpu \in Flushing /\ shadow \in 0 .. 2 /\ Passed(shadow) \in 0 .. 2
    BY DEF Ahead, Passed
  <1>2. CASE FetchedQuietly(f)
    <2>1. /\ f.cpu \in Flushing /\ f.cpu.pc = Succ(cpu.pc)
          /\ f.cpu.pipe[0] = At(cpu.pc) /\ f.cpu.pipe[1] = cpu.pipe[0]
          /\ f.cpu.pipe[2] = cpu.pipe[1]
      BY <1>2 DEF FetchedQuietly
    <2>2. Next1(f.cpu)
      BY <2>1, AtFields DEF Next1
    <2>3. Passed(shadow) = 0 => Next2(f.cpu)
      BY <1>1, <2>1 DEF Passed, Ahead, Next1, Next2
    <2>4. cpu.pipe[1].at \in Word
      BY DEF TypeOK, Processor, Slot
    <2>5. (shadow = 0 /\ f.cpu.pipe[2].kind = "word") =>
             f.cpu.pc = Succ(Succ(Succ(f.cpu.pipe[2].at)))
      BY <2>1 DEF Ahead, Next2
    <2> QED BY <1>1, <2>1, <2>2, <2>3, <2>4, <2>5, ThreeWords DEF Ahead
  <1>3. CASE \E n \in 1 .. 3, w \in {Stray, Zero} : FetchedFaulting(f, n, w)
    <2>1. /\ f.cpu \in Flushing /\ f.cpu.pipe[0] \in {Stray, Zero}
          /\ f.cpu.pipe[1] = Bubble /\ f.cpu.pipe[2] = Bubble
      BY <1>3 DEF FetchedFaulting
    <2>2. /\ f.cpu.pipe[0].kind # "word" /\ f.cpu.pipe[1].kind # "word"
          /\ f.cpu.pipe[2].kind # "word"
      BY <2>1 DEF Stray, Zero, Bubble
    <2> QED BY <1>1, <2>1, <2>2 DEF Ahead, Next1, Next2
  <1> QED BY <1>1, <1>2, <1>3, FetchedOrder

\* Only a sysret takes the pc away from the words in the pipeline.
Together(c, d) ==
    /\ d \in Flushing
    /\ (d.pipe = c.pipe /\ d.pc = c.pc) \/ d.pipe = EmptyPipe

LEMMA TogetherAhead ==
    ASSUME NEW c, NEW d, Together(c, d), NEW s, Ahead(c, s) PROVE Ahead(d, s)
  <1>1. CASE d.pipe = c.pipe /\ d.pc = c.pc
    BY <1>1 DEF Together, Ahead, Next1, Next2
  <1>2. CASE d.pipe = EmptyPipe
    BY <1>2, EmptyAhead DEF Together, Ahead
  <1> QED BY <1>1, <1>2 DEF Together

LEMMA FlushTogether ==
    ASSUME NEW c, NEW d, Together(c, d), NEW x PROVE Together(c, Flush(d, x))
  <1>1. Flush(d, x) \in Flushing /\ (x = "pc" => Flush(d, x).pipe = EmptyPipe)
    BY FlushFlushing DEF Together
  <1>2. x # "pc" => Flush(d, x) = d
    BY DEF Flush
  <1> QED BY <1>1, <1>2 DEF Together

LEMMA WriteTogether ==
    ASSUME NEW c, NEW d, Together(c, d), NEW x, NEW v \in Word
    PROVE  Together(c, WriteRegister(d, x, v))
  <1>1. WriteRegister(d, x, v) \in Flushing
    BY WriteRegisterFlushing DEF Together
  <1>2. CASE x = "pc"
    <2>1. [d EXCEPT !.pc = v] \in Flushing
      BY DEF Together, Flushing, Processor
    <2>2. WriteRegister(d, x, v) = Flush([d EXCEPT !.pc = v], "pc")
      BY <1>2 DEF WriteRegister
    <2> QED BY <1>1, <2>1, <2>2, FlushFlushing DEF Together
  <1>3. CASE x # "pc"
    BY <1>3 DEF WriteRegister, Flush
  <1> QED BY <1>2, <1>3

LEMMA AccessTogether ==
    ASSUME NEW c \in Flushing, NEW va, NEW size, NEW r \in Access(c, va, size)
    PROVE  Together(c, r.cpu)
  BY AccessOutcome DEF Outcome, Together

\* What an instruction other than sysret does to the processor.
LEMMA ExecuteTogether ==
    ASSUME "cr0" \notin Writable, MachineInv, NEW f \in Prepared, f.cpu \in Flushing,
           NEW w, MachineExecute(f, Decoded(w)), Decoded(w).case # "sysret"
    PROVE  Together(f.cpu, cpu')
  <1> DEFINE i == Decoded(w)
  <1>1. \/ i \in AluForm \/ BranchForm(i) \/ JumpForm(i) \/ MemoryForm(i)
        \/ ExchangeForm(i) \/ LoadImmediateForm(i) \/ SetCondForm(i) \/ BareForm(i)
    BY EveryWordDecodes
  <1>2. i \in AluForm => i.case = "alu"
    BY DEF AluForm
  <1>3. MachineExecute(f, i) /\ i.case # "sysret"
    OBVIOUS
  <1> HIDE DEF i
  <1>4. Together(f.cpu, f.cpu)
    BY DEF Together
  <1>5. regs \in Registers /\ f.cpu.pc \in Word
    BY DEF MachineInv, Prepared, Processor
  <1>6. ASSUME NEW n, NEW v \in Word, Write(f, n, v) PROVE Together(f.cpu, cpu')
    BY <1>4, <1>6, WriteTogether DEF Write
  <1>7. ASSUME NEW cause \in Cause, NEW x
        PROVE  /\ Together(f.cpu, Exception(f.cpu, cause))
               /\ Together(f.cpu, Flush(Exception(f.cpu, cause), x))
    <2>1. Together(f.cpu, Exception(f.cpu, cause))
      BY ExceptionFlushing DEF Together
    <2> QED BY <2>1, FlushTogether
  <1>8. {"INVALID_COPX", "SYSCALL", "TPL", "DEBUG", "SEXCEPT", "ILLEGAL_INSTR"} \subseteq Cause
    BY DEF Cause
  <1>9. CASE AluStep(f, i)
    <2>1. i \in AluForm
      BY <1>1, <1>9 DEF AluStep, BranchForm, JumpForm, MemoryForm, ExchangeForm,
         LoadImmediateForm, SetCondForm, BareForm
    <2>2. \E v \in Word : Write(f, i.d, v)
      BY <1>5, <1>9, <2>1, AluRefines
    <2> QED BY <1>6, <2>2
  <1>10. CASE BranchStep(f, i)
    <2>1. BranchForm(i)
      BY <1>1, <1>2, <1>10 DEF BranchStep, JumpForm, MemoryForm, ExchangeForm,
         LoadImmediateForm, SetCondForm, BareForm
    <2>2. Plus(f.cpu.pc, i.offset) \in Word
      BY <1>5, <2>1, PlusType DEF BranchForm
    <2>3. cpu' = f.cpu \/ cpu' = WriteRegister(f.cpu, "pc", Plus(f.cpu.pc, i.offset))
      BY <1>10 DEF BranchStep, Only
    <2> QED BY <1>4, <2>2, <2>3, WriteTogether
  <1>11. CASE JumpStep(f, i)
    <2>1. JumpForm(i)
      BY <1>1, <1>2, <1>11 DEF JumpStep, BranchForm, MemoryForm, ExchangeForm,
         LoadImmediateForm, SetCondForm, BareForm
    <2> DEFINE v == Value(f, i.s1)
    <2>2. v \in Word /\ Plus(f.cpu.pc, v) \in Word
      BY <1>5, <2>1, ValueType, PlusType DEF JumpForm
    <2>3. Only(f, f.cpu) \/ Write(f, 31, v) \/ Write(f, 31, Plus(f.cpu.pc, v))
      BY <1>11 DEF JumpStep
    <2> HIDE DEF v
    <2> QED BY <1>4, <1>6, <2>2, <2>3 DEF Only
  <1>12. CASE MoveToCopStep(f, i)
    <2> DEFINE cr == CopName(i.copn, i.copr)
    <2>1. CASE cr = "none"
      BY <1>7, <1>8, <1>12, <2>1 DEF MoveToCopStep, Only
    <2>2. CASE cr # "none"
      <3>1. /\ cr \in Writable
            /\ \E c \in CopWritten(f.cpu, cr) : cpu' = Flush(c, RegisterKind(i.d))
        BY <1>12, <2>2 DEF MoveToCopStep, Only, CopHolding
      <3> HIDE DEF cr
      <3>2. PICK c \in CopWritten(f.cpu, cr) : cpu' = Flush(c, RegisterKind(i.d))
        BY <3>1
      <3>3. Together(f.cpu, c)
        BY <3>1, CopWrittenEffect DEF Together
      <3> QED BY <3>2, <3>3, FlushTogether
    <2> QED BY <2>1, <2>2
  <1>13. CASE MoveFromCopStep(f, i)
    <2> DEFINE cr == CopName(i.copn, i.copr)
    <2>1. CASE cr = "none"
      BY <1>7, <1>8, <1>13, <2>1 DEF MoveFromCopStep, Only
    <2>2. CASE cr # "none"
      <3>1. PICK v \in CopValue(f.cpu, cr) : Write(f, i.d, v)
        BY <1>13, <2>2 DEF MoveFromCopStep
      <3>2. v \in Word
        BY DEF CopValue, Prepared, Processor
      <3> QED BY <1>6, <3>1, <3>2
    <2> QED BY <2>1, <2>2
  <1>14. CASE TrapStep(f, i)
    <2>1. TrapCause[i.case] \in Cause
      BY <1>8, <1>14 DEF TrapStep, TrapCause
    <2> QED BY <1>7, <1>14, <2>1 DEF TrapStep, Only
  <1>15. CASE LoadStep(f, i)
    <2>1. PICK r \in Access(f.cpu, AddressOf(f, i), i.size), v \in Word :
                 cpu' = WriteRegister(r.cpu, RegisterKind(i.d), v)
      BY <1>15 DEF LoadStep
    <2>2. Together(f.cpu, r.cpu)
      BY AccessTogether
    <2> QED BY <2>1, <2>2, WriteTogether
  <1>16. CASE StoreStep(f, i)
    <2>1. PICK r \in Access(f.cpu, AddressOf(f, i), i.size) : cpu' = r.cpu
      BY <1>16 DEF StoreStep
    <2> QED BY <2>1, AccessTogether
  <1>17. CASE LeaStep(f, i)
    <2>1. MemoryForm(i)
      BY <1>1, <1>2, <1>17 DEF LeaStep, BranchForm, JumpForm, ExchangeForm,
         LoadImmediateForm, SetCondForm, BareForm
    <2>2. AddressOf(f, i) \in Word
      <3>1. /\ i.mode \in 0 .. 5 /\ i.imm \in Nat
            /\ Value(f, i.s0) \in Word /\ Operand(f, i.index) \in Word
        BY <1>5, <2>1, ValueType, OperandInWord DEF MemoryForm
      <3> QED BY <3>1, AddressType DEF AddressOf
    <2> QED BY <1>6, <1>17, <2>2 DEF LeaStep
  <1>18. CASE LoadImmediateStep(f, i)
    <2>1. i.value \in Word
      BY <1>1, <1>2, <1>18 DEF LoadImmediateStep, BranchForm, JumpForm, MemoryForm,
         ExchangeForm, LoadImmediateForm, SetCondForm, BareForm
    <2> QED BY <1>6, <1>18, <2>1 DEF LoadImmediateStep
  <1>19. CASE SetCondStep(f, i)
    BY <1>6, <1>19, SmallWords DEF SetCondStep
  <1>20. CASE Crash(f, i) \/ ExitStep(f, i) \/ NothingStep(f, i)
    BY <1>4, <1>20 DEF Crash, ExitStep, NothingStep, Ends, Only
  <1> QED BY <1>3, <1>9, <1>10, <1>11, <1>12, <1>13, <1>14, <1>15, <1>16, <1>17, <1>18,
             <1>19, <1>20 DEF MachineExecute, SysretStep

LEMMA SysretAhead ==
    ASSUME MachineInv, NEW f \in Prepared, f.cpu \in Flushing, NEW i, SysretStep(f, i)
    PROVE  Ahead(cpu', 2)
  <1> DEFINE down == PrivilegeDown(f.cpu)
  <1>1. cpu' = [down EXCEPT !.pc = down.xpc]
    BY DEF SysretStep, Only
  <1>2. down \in Flushing
    BY PrivilegeFlushing
  <1> HIDE DEF down
  <1>3. cpu' \in Flushing
    BY <1>1, <1>2 DEF Flushing, Processor
  <1> QED BY <1>3 DEF Ahead

\* A call takes its link from the pc the fetch left, and says where it was.
LEMMA LinkRecorded ==
    ASSUME NEW f, NEW w, MachineExecute(f, Decoded(w)), last'.op = "link"
    PROVE  \/ /\ f.cpu.pipe[2].kind = "word" /\ shadow = 0
              /\ last'.s0 = f.cpu.pipe[2].at /\ last'.value = f.cpu.pc
           \/ \E i \in AluForm : i.fn = "link"
  <1> DEFINE i == Decoded(w)
  <1>1. MachineExecute(f, i)
    OBVIOUS
  <1>2. \/ i \in AluForm \/ BranchForm(i) \/ JumpForm(i) \/ MemoryForm(i)
        \/ ExchangeForm(i) \/ LoadImmediateForm(i) \/ SetCondForm(i) \/ BareForm(i)
    BY EveryWordDecodes
  <1> HIDE DEF i
  <1>3. CASE AluStep(f, i)
    <2>1. i \in AluForm
      BY <1>2, <1>3 DEF AluStep, BranchForm, JumpForm, MemoryForm, ExchangeForm,
         LoadImmediateForm, SetCondForm, BareForm
    <2>2. last'.op = i.fn
      BY <1>3 DEF AluStep, Record
    <2> QED BY <2>1, <2>2
  <1>4. CASE BranchStep(f, i)
    <2>1. \/ Unrecorded
          \/ /\ f.cpu.pipe[2].kind = "word" /\ shadow = 0
             /\ Record("link", f.cpu.pipe[2].at, 0, Link(f))
      BY <1>4 DEF BranchStep
    <2> QED BY <2>1 DEF Unrecorded, NoOperation, Record, Link
  <1>5. CASE ~AluStep(f, i) /\ ~BranchStep(f, i)
    <2>1. Unrecorded
      BY <1>1, <1>5 DEF MachineExecute, Crash, JumpStep, MoveToCopStep, MoveFromCopStep,
         TrapStep, ExitStep, SysretStep, LoadStep, StoreStep, LeaStep, LoadImmediateStep,
         SetCondStep, NothingStep
    <2> QED BY <2>1 DEF Unrecorded, NoOperation
  <1> QED BY <1>3, <1>4, <1>5

LinkInv == Ahead(cpu, shadow) /\ LinkLeadsByPipeline

LEMMA CycleLinks ==
    ASSUME "cr0" \notin Writable, MachineInv, LinkInv, MachineCycle PROVE LinkInv'
  <1> PICK f \in Fetched : \E w \in Opcodes(f.cpu.pipe[2]) :
             /\ MachineExecute(f, Decoded(w))
             /\ shadow' = IF Decoded(w).case = "sysret" THEN 2
                          ELSE IF shadow > 0 THEN shadow - 1 ELSE 0
    BY DEF MachineCycle
  <1>1. PICK w \in Opcodes(f.cpu.pipe[2]) :
             /\ MachineExecute(f, Decoded(w))
             /\ shadow' = IF Decoded(w).case = "sysret" THEN 2
                          ELSE IF shadow > 0 THEN shadow - 1 ELSE 0
    OBVIOUS
  <1>2. f \in Prepared
    BY FetchedType DEF MachineInv
  <1>3. /\ Ahead(f.cpu, Passed(shadow))
        /\ (shadow = 0 /\ f.cpu.pipe[2].kind = "word") =>
              f.cpu.pc = Plus(f.cpu.pipe[2].at, 12)
    BY FetchedAhead DEF LinkInv, MachineInv
  <1>4. f.cpu \in Flushing
    BY <1>3 DEF Ahead
  <1>5. Ahead(cpu', shadow')
    <2> DEFINE i == Decoded(w)
    <2>1. MachineExecute(f, i) /\ shadow' = IF i.case = "sysret" THEN 2 ELSE Passed(shadow)
      BY <1>1 DEF Passed
    <2>2. CASE i.case = "sysret"
      <3> HIDE DEF i
      <3>1. SysretStep(f, i)
        BY <2>1, <2>2 DEF MachineExecute, AluStep, Crash, BranchStep, JumpStep, MoveToCopStep,
           MoveFromCopStep, TrapStep, TrapCause, ExitStep, LoadStep, StoreStep, LeaStep,
           LoadImmediateStep, SetCondStep, NothingStep
      <3> QED BY <1>2, <1>4, <2>1, <2>2, <3>1, SysretAhead
    <2>3. CASE i.case # "sysret"
      <3>1. Together(f.cpu, cpu')
        BY <1>1, <1>2, <1>4, <2>3, ExecuteTogether
      <3> QED BY <1>3, <2>1, <2>3, <3>1, TogetherAhead
    <2> QED BY <2>2, <2>3
  <1>6. ASSUME last'.op = "link" PROVE last'.value = Plus(last'.s0, 12)
    <2>1. \A i \in AluForm : i.fn # "link"
      BY DEF AluForm, AluTable
    <2> QED BY <1>1, <1>3, <1>6, <2>1, LinkRecorded
  <1> QED BY <1>5, <1>6 DEF LinkInv, LinkLeadsByPipeline

LEMMA NextLinks ==
    ASSUME "cr0" \notin Writable, MachineInv, LinkInv, [MachineNext]_machineVars
    PROVE  LinkInv'
  <1>1. CASE MachineCycle
    BY <1>1, CycleLinks
  <1>2. CASE MachineInterrupt
    <2>1. cpu' = Exception(cpu, "KBC") /\ shadow' = shadow /\ last' = NoOperation
      BY <1>2 DEF MachineInterrupt, Interrupt, Unrecorded
    <2>2. cpu \in Flushing /\ shadow \in 0 .. 2 /\ "KBC" \in Cause
      BY DEF LinkInv, Ahead, Cause
    <2>3. cpu' \in Flushing /\ cpu'.pipe = EmptyPipe
      BY <2>1, <2>2, ExceptionFlushing
    <2>4. Ahead(cpu', shadow')
      BY <2>1, <2>2, <2>3, EmptyAhead
    <2> QED BY <2>1, <2>4 DEF LinkInv, LinkLeadsByPipeline, NoOperation
  <1>3. CASE UNCHANGED machineVars
    BY <1>3 DEF machineVars, LinkInv, LinkLeadsByPipeline, Ahead, Next1, Next2
  <1> QED BY <1>1, <1>2, <1>3 DEF MachineNext

\* As long as flushing stays on, the link of every bl is three words ahead of
\* the bl itself, after any jump, trap, key press or failed fetch: hv2_flush,
\* hv2_cycle and hv2_execute together keep the pc in step with the pipeline,
\* but for the two words a sysret leaves behind.
THEOREM LinksLead ==
    ASSUME "cr0" \notin Writable PROVE MachineSpec => []LinkLeadsByPipeline
  <1>1. MachineInit => LinkInv
    <2> SUFFICES ASSUME MachineInit PROVE LinkInv
      OBVIOUS
    <2>1. cpu = ResetProcessor /\ shadow = 0 /\ last = NoOperation /\ cpu \in Processor
      BY InitType DEF MachineInit, Init, TypeOK
    <2>2. cpu \in Flushing /\ cpu.pipe = EmptyPipe
      BY <2>1 DEF Flushing, ResetProcessor
    <2>3. Ahead(cpu, shadow)
      BY <2>1, <2>2, EmptyAhead
    <2> QED BY <2>1, <2>3 DEF LinkInv, LinkLeadsByPipeline, NoOperation
  <1>2. MachineInv /\ LinkInv /\ [MachineNext]_machineVars => LinkInv'
    BY NextLinks
  <1>3. LinkInv => LinkLeadsByPipeline
    BY DEF LinkInv
  <1> QED BY <1>1, <1>2, <1>3, AlwaysMachine, PTL DEF MachineSpec
=============================================================================
