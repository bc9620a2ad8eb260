---------------------------- MODULE Disassembly ----------------------------
(***************************************************************************)
(* The disassembler of hv2/disas.cpp, as hv2f_disassemble_elf drives it:   *)
(* one word after the other, each printed on a line.                       *)
(*                                                                         *)
(* It has extractors and tables of its own, so nothing but the same author *)
(* keeps it in step with hv2_execute.  A text is the sequence of its       *)
(* pieces: words, registers by number, and numbers with their format.      *)
(***************************************************************************)
EXTENDS Decode, Sequences

CONSTANTS
    Words,      \* the instruction words looked at
    MaxLines    \* bound: words disassembled one after the other

ASSUME DisassemblyAssumption ==
    /\ Words \subseteq Instruction
    /\ MaxLines \in Nat

VARIABLES
    vaddr,  \* the address the next line is printed with
    word,   \* the word disassembled last
    text    \* its mnemonic and operands

disVars == <<vaddr, word, text>>
------------------------------------------------------------------------------
\* Its own copy of the extractors: the functions hv2d_d_*.
DisPlace ==
    [instr   |-> <<27, 5>>,  d        |-> <<22, 5>>,  s0      |-> <<17, 5>>,
     s1      |-> <<12, 5>>,  s2       |-> <<7, 5>>,
     alu_op  |-> <<2, 4>>,   alu_i    |-> <<1, 1>>,   alu_sx  |-> <<0, 1>>,
     alu_imm |-> <<6, 16>>,
     brn_imm16 |-> <<1, 16>>, brn_l   |-> <<0, 1>>,
     cpe_copr |-> <<12, 10>>, cpe_copn |-> <<8, 5>>,  cpe_op  |-> <<0, 5>>,
     sys_imm24 |-> <<0, 24>>, sys_op  |-> <<24, 3>>,
     lsl_imm10 |-> <<7, 10>>, lsl_size |-> <<5, 2>>,  lsl_op  |-> <<3, 2>>,
     lsl_mode |-> <<0, 3>>,
     li_imm16 |-> <<6, 16>>, li_sx    |-> <<5, 1>>,   li_shift |-> <<0, 5>>,
     scr_op   |-> <<2, 4>>]

\* Its own case lists too.  Mutant: the last condition, bit 4 set, is left out.
DisBranchShort == {2, 4, 6, 8, 10, 12, 18, 20, 22, 24, 26}
DisBranchInstr == {2, 4, 6, 8, 10, 12, 18, 20, 22, 24, 26, 28}
DisSetCondInstr == {19, 21, 23, 25, 27, 29}

\* Mutant: the low bit of the displacement of a load is dropped.
SeeShort(w, f) == Field(w, IF f = "lsl_imm10" THEN <<8, 9>> ELSE DisPlace[f])

See(w, f) == Field(w, DisPlace[f])
Sees(w, f) == See(w, f) = 1

\* An unknown key of one of the maps gives the empty string.
Lookup(table, n) == IF n + 1 \in DOMAIN table THEN table[n + 1] ELSE ""

AluMnemonic == <<"add", "sub", "mul", "mla", "div", "mod", "and", "or",
                 "xor", "lsl", "lsr", "asr", "sx.b", "sx.s", "rol", "ror">>
CcCond == <<"", "eq", "ne", "gt", "ge", "lt", "le">>
CopxMnemonic == <<"mtcr", "mfcr">>
SysMnemonic == <<"syscall", "tpl0", "tpl1", "tpl2", "tpl3", "debug", "excep">>
LslMnemonic == <<"load", "store", "lea">>
LslSize == <<".b", ".s", ".l", ".x">>

\* A piece of text: a word, a register, a number and its format.
T(s) == [piece |-> "text", n |-> 0, text |-> s]
Reg(n) == [piece |-> "register", n |-> n, text |-> ""]
Num(n, fmt) == [piece |-> "number", n |-> n, text |-> fmt]
------------------------------------------------------------------------------
DisAlu(w) ==
    LET stem == Lookup(AluMnemonic, See(w, "alu_op"))
    IN  IF Sees(w, "alu_i")
        THEN [mnemonic |-> <<T(stem), T(IF Sees(w, "alu_sx") THEN ".s" ELSE ".u")>>,
              operands |-> <<Reg(See(w, "d")), Num(See(w, "alu_imm"), "x4")>>]
        ELSE [mnemonic |-> <<T(stem)>>,
              operands |-> <<Reg(See(w, "d")), Reg(See(w, "s0")), Reg(See(w, "s1"))>>]

DisBranch(w, instr) ==
    [mnemonic |-> <<T(IF Sees(w, "brn_l") THEN "bl" ELSE "b"),
                    T(Lookup(CcCond, (instr \div 2) % 8))>>,
     operands |-> <<Reg(See(w, "d")), Reg(See(w, "s0")),
                    Num(SignExtend((See(w, "brn_imm16") % Weight[HalfBits])
                          + (IF instr >= 16 THEN Weight[HalfBits] ELSE 0), HalfBits + 1), "x")>>]

DisExchange(w) ==
    LET op == See(w, "cpe_op")
        cop == <<Num(See(w, "cpe_copn"), "u"), Num(See(w, "cpe_copr"), "u")>>
    IN  [mnemonic |-> <<T(Lookup(CopxMnemonic, op))>>,
         operands |-> IF op = 1 THEN <<Reg(See(w, "d"))>> \o cop
                                ELSE cop \o <<Reg(See(w, "d"))>>]

DisSystem(w) ==
    [mnemonic |-> <<T(Lookup(SysMnemonic, See(w, "sys_op")))>>,
     operands |-> <<Num(See(w, "sys_imm24"), "x")>>]

\* The part in brackets.
DisAddress(w) ==
    LET mode == See(w, "lsl_mode")
        s0 == Reg(See(w, "s0"))
        sign == T(IF mode % 2 = 0 THEN "+" ELSE "-")
    IN  IF mode \in 4 .. 7
        THEN <<s0, sign, Num(See(w, "lsl_imm10") + (IF mode \in {6, 7} THEN 1024 ELSE 0), "x")>>
        ELSE <<s0, sign, Reg(See(w, "s1")), T(IF mode \in {0, 1} THEN "*" ELSE ":"),
               Num(See(w, "s2"), "x")>>

DisLoadStore(w) ==
    LET op == See(w, "lsl_op")
        d == <<Reg(See(w, "d"))>>
        address == <<T("[")>> \o DisAddress(w) \o <<T("]")>>
    IN  [mnemonic |-> <<T(Lookup(LslMnemonic, op)), T(LslSize[See(w, "lsl_size") + 1])>>,
         operands |-> IF op = 1 THEN address \o d ELSE d \o address]

DisLoadImmediate(w) ==
    LET half == See(w, "li_imm16") % Weight[HalfBits]
        value == IF Sees(w, "li_sx") THEN SignExtend(half, HalfBits) ELSE half
    IN  [mnemonic |-> <<T("li")>>,
         operands |-> <<Reg(See(w, "d")), Num(ShiftLeft(value, See(w, "li_shift")), "x8")>>]

DisSetCond(w) ==
    [mnemonic |-> <<T("s"), T(Lookup(CcCond, See(w, "scr_op")))>>,
     operands |-> <<Reg(See(w, "d")), Reg(See(w, "s0")), Reg(See(w, "s1"))>>]

\* Mnemonic and operands of a word; the word 0 is a nop, whatever it encodes.
Text(w) ==
    LET instr == See(w, "instr")
    IN  CASE w = {} -> [mnemonic |-> <<T("nop")>>, operands |-> <<>>]
          [] w # {} /\ instr = 0 -> DisAlu(w)
          [] instr \in DisBranchInstr -> DisBranch(w, instr)
          [] instr = 13 -> [mnemonic |-> <<T("BRR to-do")>>, operands |-> <<T("to-do")>>]
          [] instr = 14 -> DisExchange(w)
          [] instr = 15 -> DisSystem(w)
          [] instr = 16 -> DisLoadStore(w)
          [] instr = 17 -> DisLoadImmediate(w)
          [] instr \in DisSetCondInstr ->
                [mnemonic |-> <<T("SCI to-do")>>, operands |-> <<T("to-do")>>]
          [] instr = 11 -> DisSetCond(w)
          [] OTHER -> [mnemonic |-> <<T("")>>, operands |-> <<>>]

------------------------------------------------------------------------------
DisInit ==
    /\ vaddr = 0
    /\ word = {}
    /\ text = Text({})

\* hv2d_disassemble; the layout of the line is left out.
Disassemble(w) ==
    /\ vaddr < 4 * MaxLines
    /\ word' = w
    /\ text' = Text(w)
    /\ vaddr' = Succ(vaddr)

DisNext == \E w \in Words : Disassemble(w)

SpecDis == DisInit /\ [][DisNext]_disVars
------------------------------------------------------------------------------
\* The disassembler has no name for branch register, set if condition
\* immediate, sysret and what its maps do not hold.
IsNamed(t) == t.mnemonic[1].text \notin {"", "BRR to-do", "SCI to-do"}

\* Whoever sees the same line twice may rely on it: two words printed alike do
\* the same to the processor.  Each field the core decodes and each table it
\* goes by has to reach the line, from a decoder written a second time.
SameLineSameInstruction ==
    [][ (IsNamed(text') /\ text' = text) => (Decoded(word') = Decoded(word)) ]_disVars

\* A word that raises ILLEGAL_INSTR has no name, and the words the core does
\* execute have one but for the known gaps: the two case lists, of hv2_execute
\* and of the disassembler, cover the same instruction numbers.
NamesTellLegality ==
    LET case == Decoded(word).case
    IN  /\ (case = "illegal") => ~IsNamed(text)
        /\ ~IsNamed(text) =>
              case \in {"illegal", "cop", "jump", "setcond", "sysret", "none", "outside"}
=============================================================================
