------------------------------- MODULE Decode -------------------------------
(***************************************************************************)
(* From an instruction word to what hv2_execute does with it: the field    *)
(* extractors of hv2/hv2.cpp and the cases of its switch.                  *)
(*                                                                         *)
(* An instruction word is the set of its bits that are 1.  Fields are      *)
(* taken at their true places; a register may be narrower than 32 bits, an *)
(* immediate then keeps its low bits.                                      *)
(***************************************************************************)
EXTENDS Alu

CONSTANT ExitCode   \* argument of the debug instruction that ends the emulator

ASSUME ExitCodeAssumption == ExitCode \in Nat

Instruction == SUBSET (0 .. 31)

\* First bit and width of each field: the functions hv2_d_*.
Place ==
    [instr   |-> <<27, 5>>,  d        |-> <<22, 5>>,  s0      |-> <<17, 5>>,
     s1      |-> <<12, 5>>,  s2       |-> <<7, 5>>,
     alu_op  |-> <<2, 4>>,   alu_i    |-> <<1, 1>>,   alu_sx  |-> <<0, 1>>,
     alu_imm |-> <<6, 16>>,
     brn_c   |-> <<1, 1>>,   brn_i    |-> <<0, 1>>,   brn_imm16 |-> <<1, 16>>,
     brn_l   |-> <<0, 1>>,
     cpe_copr |-> <<12, 10>>, cpe_copn |-> <<8, 5>>,  cpe_op  |-> <<0, 5>>,
     sys_imm24 |-> <<0, 24>>, sys_op  |-> <<24, 3>>,
     lsl_imm10 |-> <<7, 10>>, lsl_size |-> <<5, 2>>,  lsl_op  |-> <<3, 2>>,
     lsl_mode |-> <<0, 3>>,
     li_imm16 |-> <<6, 16>>, li_sx    |-> <<5, 1>>,   li_shift |-> <<0, 5>>,
     sci_imm16 |-> <<1, 16>>, sci_sx  |-> <<0, 1>>,   scr_op  |-> <<2, 4>>]

Field(w, place) ==
    Number({i \in 0 .. place[2] - 1 : place[1] + i \in w})

Get(w, f) == Field(w, Place[f])
Flag(w, f) == Get(w, f) = 1
------------------------------------------------------------------------------
\* An operand is a register by number or a value.
R(n) == [kind |-> "register", n |-> n]
V(v) == [kind |-> "value", n |-> v]

\* sign_extend16_if
Immediate(v, sx) ==
    IF sx THEN SignExtend(v, HalfBits) ELSE v % Weight[HalfBits]

\* The 17 bits of a branch offset, the top one out of the instruction number.
BranchOffset(w, instr) ==
    SignExtend((Get(w, "brn_imm16") % Weight[HalfBits])
                 + (IF instr >= 16 THEN Weight[HalfBits] ELSE 0), HalfBits + 1)

\* The 11 bits of a fixed address, the top one out of the mode.
FixedOffset(w, mode) == Get(w, "lsl_imm10") + (IF mode \in {6, 7} THEN 1024 ELSE 0)

\* hv2_cond_table is indexed with the condition less one, whatever it is.
Cond(n) == IF n \in DOMAIN CondTable THEN CondTable[n] ELSE "outside"

BranchImmediateInstr == {2, 4, 6, 8, 10, 12, 18, 20, 22, 24, 26, 28}
SetCondImmediateInstr == {19, 21, 23, 25, 27, 29}

SystemTable == <<"syscall", "tpl", "tpl", "tpl", "tpl", "debug", "excep", "sysret">>
LoadStoreTable == <<"load", "store", "lea", "none">>
SizeTable == <<"BYTE", "SHORT", "LONG", "EXEC">>

Branch(w, instr) ==
    [case |-> "branch", cond |-> Cond((instr \div 2) % 8), d |-> Get(w, "d"),
     s0 |-> Get(w, "s0"), link |-> Flag(w, "brn_l"), offset |-> BranchOffset(w, instr)]

AluInstruction(w) ==
    [case |-> "alu", fn |-> AluTable[Get(w, "alu_op") + 1], d |-> Get(w, "d"),
     s0 |-> IF Flag(w, "alu_i") THEN R(Get(w, "d")) ELSE R(Get(w, "s0")),
     s1 |-> IF Flag(w, "alu_i")
            THEN V(Immediate(Get(w, "alu_imm"), Flag(w, "alu_sx")))
            ELSE R(Get(w, "s1"))]

LoadStore(w) ==
    LET mode == Get(w, "lsl_mode")
        fixed == mode \in 4 .. 7
    IN  [case |-> LoadStoreTable[Get(w, "lsl_op") + 1],
         size |-> SizeTable[Get(w, "lsl_size") + 1],
         d |-> Get(w, "d"), s0 |-> Get(w, "s0"),
         mode |-> IF mode \in {6, 7} THEN mode - 2 ELSE mode,
         index |-> IF fixed THEN V(0) ELSE R(Get(w, "s1")),
         imm |-> IF fixed THEN FixedOffset(w, mode) ELSE Get(w, "s2")]

System(w) ==
    LET name == SystemTable[Get(w, "sys_op") + 1]
        c == Get(w, "sys_imm24")
    IN  CASE name \in {"syscall", "excep"} -> [case |-> name, c |-> c]
          [] name = "debug" -> [case |-> IF c = ExitCode THEN "exit" ELSE name, c |-> c]
          [] name = "tpl" -> [case |-> name, level |-> Get(w, "sys_op") - 1]
          [] OTHER -> [case |-> name]

Exchange(w) ==
    LET op == Get(w, "cpe_op")
    IN  IF op > 1 THEN [case |-> "outside"]
        ELSE [case |-> IF op = 0 THEN "mtcr" ELSE "mfcr", d |-> Get(w, "d"),
              copn |-> Get(w, "cpe_copn"), copr |-> Get(w, "cpe_copr")]

\* Set if condition: the immediate form compares the NUMBER of its register.
SetCond(cond, w, a, b) ==
    IF cond = "outside" THEN [case |-> "outside"]
    ELSE [case |-> "setcond", cond |-> cond, d |-> Get(w, "d"), s0 |-> a, s1 |-> b]

\* The one decoded bit of the condition: 1 is eq, 0 is outside the table.
RegisterBranch(w) ==
    IF Cond(Get(w, "brn_c")) = "outside" THEN [case |-> "outside"]
    ELSE [case |-> "jump", cond |-> Cond(Get(w, "brn_c")), d |-> Get(w, "d"),
          s0 |-> Get(w, "s0"), s1 |-> Get(w, "s1"), relative |-> Flag(w, "brn_i")]

\* What hv2_execute does with the word.
Decoded(w) ==
    LET instr == Get(w, "instr")
    IN  CASE instr = 0 -> AluInstruction(w)
          [] instr \in BranchImmediateInstr -> Branch(w, instr)
          [] instr = 13 -> RegisterBranch(w)
          [] instr = 14 -> Exchange(w)
          [] instr \in {30, 31} -> [case |-> "cop"]
          [] instr = 15 -> System(w)
          [] instr = 16 -> LoadStore(w)
          [] instr = 17 ->
                [case |-> "li", d |-> Get(w, "d"),
                 value |-> ShiftLeft(Immediate(Get(w, "li_imm16"), Flag(w, "li_sx")),
                                     Get(w, "li_shift"))]
          [] instr \in SetCondImmediateInstr ->
                SetCond(Cond((instr \div 2) % 8), w, V(Get(w, "s0")),
                        V(Immediate(Get(w, "sci_imm16"), Flag(w, "sci_sx"))))
          [] instr = 11 ->
                SetCond(Cond(Get(w, "scr_op")), w, R(Get(w, "s0")), R(Get(w, "s1")))
          [] OTHER -> [case |-> "illegal"]
=============================================================================
