------------------------------ MODULE Machine ------------------------------
(***************************************************************************)
(* The processor running a program: Cpu leaves open which word is executed *)
(* and what its registers hold, this module takes both from the memory and *)
(* the register file, decodes the word and computes the result.            *)
(*                                                                         *)
(* Fetching, exceptions, privilege and flushing are the operators of the   *)
(* core; what is new is the data: hv2_execute with its operands.           *)
(***************************************************************************)
EXTENDS Decode, Cpu

CONSTANT Boots  \* contents of the ROM, and the registers the run starts with

VARIABLES
    regs,           \* the general registers, r[0] to r[30]
    rom,            \* the words of the ROM
    last,           \* the data operation executed last, and
    shadow          \* how many words behind a sysret are still to come, both
                    \* for the properties

machineVars == <<cpu, host, bus, regs, rom, last, shadow>>

ASSUME MachineAssumption ==
    /\ Boots \subseteq [rom : Seq(Instruction), regs : [0 .. 30 -> Word]]
    /\ \A b \in Boots : b.regs[0] = 0
    /\ Data = Word                              \* the registers hold anything,
    /\ Writable \cap {"ctrl", "map"} = {}       \* translation stays off

NoOperation == [op |-> "none", s0 |-> 0, s1 |-> 0, value |-> 0]

MachineInit ==
    /\ Init
    /\ \E b \in Boots : regs = b.regs /\ rom = b.rom
    /\ last = NoOperation
    /\ shadow = 0
------------------------------------------------------------------------------
\* The 32 bits at byte address a of the ROM.
ReadRom(a) ==
    {i \in 0 .. 31 : ((8 * a + i) % 32) \in rom[((8 * a + i) \div 32) + 1]}

\* What a pipeline slot holds.  A fetch from an odd address is reported and
\* delivers what is there.
Opcodes(slot) ==
    CASE slot.kind = "word" -> {ReadRom(slot.at)}
      [] slot.kind = "stray" -> {ReadRom(a) : a \in 0 .. 4 * Len(rom) - 4}
      [] OTHER -> {{}}

\* r[n]; the pc is already behind the word fetched last.
Value(f, n) == IF n = 31 THEN f.cpu.pc ELSE regs[n]
Operand(f, x) == IF x.kind = "register" THEN Value(f, x.n) ELSE x.n

RegisterKind(n) == IF n = 31 THEN "pc" ELSE "other"

\* r[0] is cleared at the end of every instruction.
Stored(n, v) == IF n \in 1 .. 30 THEN [regs EXCEPT ![n] = v] ELSE regs

\* Mutant: the flush is left to the other instructions.
WriteUnflushed(f, n, v) ==
    /\ cpu' = IF n = 31 THEN [f.cpu EXCEPT !.pc = v] ELSE f.cpu
    /\ regs' = Stored(n, v)
    /\ bus' = f.bus
    /\ UNCHANGED <<host, rom>>

\* Register n := v, and the flush.
Write(f, n, v) ==
    /\ cpu' = WriteRegister(f.cpu, RegisterKind(n), v)
    /\ regs' = Stored(n, v)
    /\ bus' = f.bus
    /\ UNCHANGED <<host, rom>>

\* The instruction touches no general register.
Only(f, c) == cpu' = c /\ bus' = f.bus /\ UNCHANGED <<host, regs, rom>>

Ends(f, how) == cpu' = f.cpu /\ host' = how /\ bus' = f.bus /\ UNCHANGED <<regs, rom>>

Record(op, s0, s1, v) == last' = [op |-> op, s0 |-> s0, s1 |-> s1, value |-> v]
Unrecorded == last' = NoOperation
------------------------------------------------------------------------------
AluStep(f, i) ==
    LET s0 == Operand(f, i.s0)
        s1 == Operand(f, i.s1)
        v == AluResult(i.fn, Value(f, i.d), s0, s1)
    IN  /\ i.case = "alu"
        /\ ~DividesByZero(i.fn, s1)
        /\ Write(f, i.d, v)
        /\ Record(i.fn, s0, s1, v)

\* Division by 0, and the operators and conditions outside their tables.
Crash(f, i) ==
    /\ \/ i.case = "alu" /\ DividesByZero(i.fn, Operand(f, i.s1))
       \/ i.case = "outside"
    /\ Ends(f, "crashed")
    /\ Unrecorded

\* Mutant: the link is taken before the fetch advances the pc.
LinkEarly(f) == Minus(f.cpu.pc, 4)
Link(f) == f.cpu.pc

BranchStep(f, i) ==
    /\ i.case = "branch"
    /\ IF Holds(i.cond, Value(f, i.d), Value(f, i.s0))
       THEN LET linked == IF i.link THEN Stored(30, Link(f)) ELSE regs
            IN  /\ cpu' = WriteRegister(f.cpu, "pc", Plus(f.cpu.pc, i.offset))
                /\ bus' = f.bus
                /\ regs' = linked
                /\ UNCHANGED <<host, rom>>
                /\ IF i.link /\ f.cpu.pipe[2].kind = "word" /\ shadow = 0
                   THEN Record("link", f.cpu.pipe[2].at, 0, Link(f))
                   ELSE Unrecorded
       ELSE Only(f, f.cpu) /\ Unrecorded

JumpStep(f, i) ==
    /\ i.case = "jump"
    /\ LET v == Value(f, i.s1)
       IN  IF Holds(i.cond, Value(f, i.d), Value(f, i.s0))
           THEN Write(f, 31, IF i.relative THEN Plus(f.cpu.pc, v) ELSE v)
           ELSE Only(f, f.cpu)
    /\ Unrecorded
------------------------------------------------------------------------------
Cop0 == <<"cr0", "cr1", "xcause", "xhaddr", "xpc">>
Cop4 == <<"ctrl", "msel">>

\* hv2_get_cop_register; the map window is 512 registers, four maps, wide.
CopName(n, r) ==
    CASE n = 0 /\ r + 1 \in DOMAIN Cop0 -> Cop0[r + 1]
      [] n = 4 /\ r + 1 \in DOMAIN Cop4 -> Cop4[r + 1]
      [] n = 4 /\ r \in 16 .. 527 -> "map"
      [] OTHER -> "none"

\* Of the states a write to register cr may lead to, those of the value v.
CopHolding(c, cr, v) ==
    {x \in CopWritten(c, cr) :
        /\ cr = "cr0" => x.xflush = (3 \in BitsOf(v))
        /\ cr = "xhaddr" => x.xhaddr = v
        /\ cr = "xpc" => x.xpc = v}

\* The programs write no coprocessor register outside Writable.
MoveToCopStep(f, i) ==
    /\ i.case = "mtcr"
    /\ LET cr == CopName(i.copn, i.copr)
       IN  IF cr = "none"
           THEN Only(f, Flush(Exception(f.cpu, "INVALID_COPX"), RegisterKind(i.d)))
           ELSE /\ cr \in Writable
                /\ \E c \in CopHolding(f.cpu, cr, Value(f, i.d)) :
                      Only(f, Flush(c, RegisterKind(i.d)))
    /\ Unrecorded

\* What reading it may return; causes and flags are not numbers here.
CopValue(c, cr) ==
    CASE cr = "xpc" -> {c.xpc}
      [] cr = "xhaddr" -> {c.xhaddr}
      [] OTHER -> Word

MoveFromCopStep(f, i) ==
    /\ i.case = "mfcr"
    /\ LET cr == CopName(i.copn, i.copr)
       IN  IF cr = "none"
           THEN Only(f, Flush(Exception(f.cpu, "INVALID_COPX"), RegisterKind(i.d)))
           ELSE \E v \in CopValue(f.cpu, cr) : Write(f, i.d, v)
    /\ Unrecorded
------------------------------------------------------------------------------
TrapCause == [syscall |-> "SYSCALL", tpl |-> "TPL", debug |-> "DEBUG",
              excep |-> "SEXCEPT", illegal |-> "ILLEGAL_INSTR"]

TrapStep(f, i) ==
    /\ i.case \in DOMAIN TrapCause
    /\ Only(f, Exception(f.cpu, TrapCause[i.case]))
    /\ Unrecorded

ExitStep(f, i) == i.case = "exit" /\ Ends(f, "exited") /\ Unrecorded

SysretStep(f, i) ==
    /\ i.case = "sysret"
    /\ LET down == PrivilegeDown(f.cpu)
       IN  Only(f, [down EXCEPT !.pc = down.xpc])
    /\ Unrecorded

AddressOf(f, i) == Address(i.mode, Value(f, i.s0), Operand(f, i.index), i.imm)

\* Memory may return anything; no device returns 0.
LoadStep(f, i) ==
    /\ i.case = "load"
    /\ \E r \in Access(f.cpu, AddressOf(f, i), i.size), v \in Word :
         /\ r.dev = 0 => v = 0
         /\ cpu' = WriteRegister(r.cpu, RegisterKind(i.d), v)
         /\ bus' = f.bus \cup OnBus("read", r)
         /\ regs' = Stored(i.d, v)
    /\ UNCHANGED <<host, rom>>
    /\ Unrecorded

\* The ROM ignores the value.
StoreStep(f, i) ==
    /\ i.case = "store"
    /\ \E r \in Access(f.cpu, AddressOf(f, i), i.size) :
         /\ cpu' = r.cpu
         /\ bus' = f.bus \cup OnBus("write", r)
    /\ UNCHANGED <<host, regs, rom>>
    /\ Unrecorded

LeaStep(f, i) == i.case = "lea" /\ Write(f, i.d, AddressOf(f, i)) /\ Unrecorded

LoadImmediateStep(f, i) == i.case = "li" /\ Write(f, i.d, i.value) /\ Unrecorded

SetCondStep(f, i) ==
    /\ i.case = "setcond"
    /\ Write(f, i.d, IF Holds(i.cond, Operand(f, i.s0), Operand(f, i.s1)) THEN 1 ELSE 0)
    /\ Unrecorded

\* COP instructions and the fourth load and store operation do nothing.
NothingStep(f, i) == i.case \in {"cop", "none"} /\ Only(f, f.cpu) /\ Unrecorded
------------------------------------------------------------------------------
MachineExecute(f, i) ==
    \/ AluStep(f, i) \/ Crash(f, i)
    \/ BranchStep(f, i) \/ JumpStep(f, i)
    \/ MoveToCopStep(f, i) \/ MoveFromCopStep(f, i)
    \/ TrapStep(f, i) \/ ExitStep(f, i) \/ SysretStep(f, i)
    \/ LoadStep(f, i) \/ StoreStep(f, i) \/ LeaStep(f, i)
    \/ LoadImmediateStep(f, i) \/ SetCondStep(f, i) \/ NothingStep(f, i)

MachineCycle ==
    /\ host = "running"
    /\ \E f \in Fetched : \E w \in Opcodes(f.cpu.pipe[2]) :
         LET i == Decoded(w)
         IN  /\ MachineExecute(f, i)
             /\ shadow' = IF i.case = "sysret" THEN 2
                          ELSE IF shadow > 0 THEN shadow - 1 ELSE 0

MachineInterrupt == Interrupt /\ Unrecorded /\ UNCHANGED <<regs, rom, shadow>>

MachineNext == MachineCycle \/ MachineInterrupt

MachineSpec == MachineInit /\ [][MachineNext]_machineVars
------------------------------------------------------------------------------
\* Every step of the running program is one the core allows: no word decodes
\* to something the actions of Cpu leave out, and none of the data paths
\* forgets the flush or the exception Cpu goes with it.
ImplementsCore == Spec

Signed(v) == IF IsNegative(v) THEN v - W ELSE v

\* asr divides by the power of two and rounds down, for negative numbers too,
\* for each count: the mask it fills in is as wide as the shift.
ShiftIsFloorDivision ==
    last.op = "asr" =>
        Signed(last.value) = Signed(last.s0) \div Weight[last.s1 % WordBits]

\* A rotation moves each bit and loses none, at count 0 and at counts beyond
\* the width too, where the code shifts by the full width or more.
RotationsLoseNothing ==
    last.op \in {"rol", "ror"} =>
        LET by == IF last.op = "rol" THEN last.s1 ELSE -last.s1
        IN  \A i \in BitNumber :
                i \in BitsOf(last.s0) <=> ((i + by) % WordBits) \in BitsOf(last.value)

\* With flushing on, bl leaves in lr an address two words behind the next
\* instruction, which is what the BIOS's returns through lr - 8 rely on: the pc is
\* ahead of the word executed by the length of the pipeline after any jump,
\* trap, key press or failed fetch; only the two words behind a sysret, which
\* are executed at its target's pc, are apart.
LinkLeadsByPipeline ==
    last.op = "link" => last.value = Plus(last.s0, 12)
=============================================================================
