------------------------- MODULE DisassemblyProofs -------------------------
(***************************************************************************)
(* The disassembler tells the truth about hv2_execute, for every set of    *)
(* words, their length in the file and every width of a register.          *)
(*                                                                         *)
(* Its extractors take the same bits (SeesAlike).  The first piece of a    *)
(* line tells the kind of instruction (Opening); for each kind, the pieces *)
(* of the line determine what the core decodes.                            *)
(***************************************************************************)
EXTENDS Disassembly, DecodeProofs

LEMMA SeesAlike ==
    ASSUME NEW w
    PROVE  /\ See(w, "instr") = Get(w, "instr") /\ See(w, "d") = Get(w, "d")
           /\ See(w, "s0") = Get(w, "s0") /\ See(w, "s1") = Get(w, "s1")
           /\ See(w, "s2") = Get(w, "s2") /\ See(w, "alu_op") = Get(w, "alu_op")
           /\ (Sees(w, "alu_i") <=> Flag(w, "alu_i")) /\ (Sees(w, "alu_sx") <=> Flag(w, "alu_sx"))
           /\ See(w, "alu_imm") = Get(w, "alu_imm") /\ See(w, "brn_imm16") = Get(w, "brn_imm16")
           /\ (Sees(w, "brn_l") <=> Flag(w, "brn_l")) /\ See(w, "cpe_copr") = Get(w, "cpe_copr")
           /\ See(w, "cpe_copn") = Get(w, "cpe_copn") /\ See(w, "cpe_op") = Get(w, "cpe_op")
           /\ See(w, "sys_imm24") = Get(w, "sys_imm24") /\ See(w, "sys_op") = Get(w, "sys_op")
           /\ See(w, "lsl_imm10") = Get(w, "lsl_imm10") /\ See(w, "lsl_size") = Get(w, "lsl_size")
           /\ See(w, "lsl_op") = Get(w, "lsl_op") /\ See(w, "lsl_mode") = Get(w, "lsl_mode")
           /\ See(w, "li_imm16") = Get(w, "li_imm16") /\ (Sees(w, "li_sx") <=> Flag(w, "li_sx"))
           /\ See(w, "li_shift") = Get(w, "li_shift") /\ See(w, "scr_op") = Get(w, "scr_op")
  BY DEF See, Sees, Get, Flag, DisPlace, Place

LEMMA PieceText == \A s : T(s).text = s
  BY DEF T

LEMMA SamePieces ==
    /\ \A s, t : T(s) = T(t) => s = t
    /\ \A m, n : Reg(m) = Reg(n) => m = n
    /\ \A m, n, f, g : Num(m, f) = Num(n, g) => m = n
    /\ \A m, n, f : Reg(m) # Num(n, f)
  BY DEF T, Reg, Num
------------------------------------------------------------------------------
(***************************************************************************)
(* How a line begins.                                                      *)
(***************************************************************************)
AluNames == {"add", "sub", "mul", "mla", "div", "mod", "and", "or",
             "xor", "lsl", "lsr", "asr", "sx.b", "sx.s", "rol", "ror"}
SysNames == {"syscall", "tpl0", "tpl1", "tpl2", "tpl3", "debug", "excep"}
LslNames == {"load", "store", "lea"}
CopxNames == {"mtcr", "mfcr"}

Begins(w) == Text(w).mnemonic[1].text

\* The instruction numbers of the other lines.
Nameless == {1, 3, 5, 7, 9, 13, 19, 21, 23, 25, 27, 29, 30, 31}

LEMMA CaseNumbers ==
    /\ BranchImmediateInstr = DisBranchInstr /\ SetCondImmediateInstr = DisSetCondInstr
    /\ RegisterNumber = {0, 11, 14, 15, 16, 17} \cup DisBranchInstr \cup Nameless
  BY DEF BranchImmediateInstr, DisBranchInstr, SetCondImmediateInstr, DisSetCondInstr,
     RegisterNumber, Nameless

\* The text of a word by its instruction number.
LEMMA TextOf ==
    ASSUME NEW w, NEW n, n = Get(w, "instr")
    PROVE  /\ w = {} => Text(w) = [mnemonic |-> <<T("nop")>>, operands |-> <<>>]
           /\ w # {} /\ n = 0 => Text(w) = DisAlu(w)
           /\ n \in DisBranchInstr => Text(w) = DisBranch(w, n)
           /\ n = 14 => Text(w) = DisExchange(w)
           /\ n = 15 => Text(w) = DisSystem(w)
           /\ n = 16 => Text(w) = DisLoadStore(w)
           /\ n = 17 => Text(w) = DisLoadImmediate(w)
           /\ n = 11 => Text(w) = DisSetCond(w)
           /\ n \in Nameless => Begins(w) \in {"", "BRR to-do", "SCI to-do"}
  <1> DEFINE nop == [mnemonic |-> <<T("nop")>>, operands |-> <<>>]
             brr == [mnemonic |-> <<T("BRR to-do")>>, operands |-> <<T("to-do")>>]
             sci == [mnemonic |-> <<T("SCI to-do")>>, operands |-> <<T("to-do")>>]
             none == [mnemonic |-> <<T("")>>, operands |-> <<>>]
             t == Text(w)
  <1>1. w = {} => n = 0
    BY EmptyFields
  <1>2. See(w, "instr") = n
    BY SeesAlike
  <1>3. t = CASE w = {} -> nop
              [] w # {} /\ n = 0 -> DisAlu(w)
              [] n \in DisBranchInstr -> DisBranch(w, n)
              [] n = 13 -> brr
              [] n = 14 -> DisExchange(w)
              [] n = 15 -> DisSystem(w)
              [] n = 16 -> DisLoadStore(w)
              [] n = 17 -> DisLoadImmediate(w)
              [] n \in DisSetCondInstr -> sci
              [] n = 11 -> DisSetCond(w)
              [] OTHER -> none
    BY <1>2 DEF Text
  <1>4. /\ nop.mnemonic = <<T("nop")>> /\ none.mnemonic = <<T("")>>
        /\ brr.mnemonic = <<T("BRR to-do")>> /\ sci.mnemonic = <<T("SCI to-do")>>
    OBVIOUS
  <1> HIDE DEF nop, brr, sci, none, t
  <1>5. {0, 11, 14, 15, 16, 17} \cap (DisBranchInstr \cup DisSetCondInstr) = {}
    BY DEF DisBranchInstr, DisSetCondInstr
  <1>6. DisBranchInstr \cap DisSetCondInstr = {} /\ 13 \notin DisBranchInstr
    BY DEF DisBranchInstr, DisSetCondInstr
  <1>7. w = {} => t = nop
    BY <1>1, <1>3, <1>5
  <1>8. w # {} /\ n = 0 => t = DisAlu(w)
    BY <1>1, <1>3, <1>5
  <1>9. n \in DisBranchInstr => t = DisBranch(w, n)
    BY <1>1, <1>3, <1>5, <1>6
  <1>10. /\ n = 14 => t = DisExchange(w)
         /\ n = 15 => t = DisSystem(w)
         /\ n = 16 => t = DisLoadStore(w)
         /\ n = 17 => t = DisLoadImmediate(w)
         /\ n = 11 => t = DisSetCond(w)
    BY <1>1, <1>3, <1>5
  <1>11. ASSUME n \in Nameless PROVE t \in {none, brr, sci}
    <2>1. w # {} /\ n \notin {0, 11, 14, 15, 16, 17} /\ n \notin DisBranchInstr
      BY <1>1, <1>11 DEF Nameless, DisBranchInstr
    <2> QED BY <1>3, <2>1
  <1>12. \A s : <<T(s)>>[1].text = s
    BY PieceText
  <1>13. n \in Nameless => t.mnemonic[1].text \in {"", "BRR to-do", "SCI to-do"}
    BY <1>4, <1>11, <1>12
  <1> QED BY <1>7, <1>8, <1>9, <1>10, <1>13 DEF t, nop, Begins

\* The first piece of a line is that of its kind.
LEMMA Opening ==
    ASSUME NEW w, NEW n, n = Get(w, "instr")
    PROVE  /\ w = {} => Begins(w) = "nop"
           /\ w # {} /\ n = 0 => Begins(w) \in AluNames /\ Begins(w) = AluTable[Get(w, "alu_op") + 1]
           /\ n \in DisBranchInstr => Begins(w) = IF Flag(w, "brn_l") THEN "bl" ELSE "b"
           /\ n = 14 => Begins(w) = Lookup(CopxMnemonic, Get(w, "cpe_op"))
           /\ n = 15 => Begins(w) = Lookup(SysMnemonic, Get(w, "sys_op"))
           /\ n = 16 => Begins(w) = Lookup(LslMnemonic, Get(w, "lsl_op"))
           /\ n = 17 => Begins(w) = "li"
           /\ n = 11 => Begins(w) = "s"
  <1>1. w = {} => Begins(w) = "nop"
    <2>1. w = {} => Text(w).mnemonic = <<T("nop")>>
      <3>1. w = {} => Text(w) = [mnemonic |-> <<T("nop")>>, operands |-> <<>>]
        BY TextOf
      <3> QED BY <3>1
    <2> QED BY <2>1, PieceText DEF Begins
  <1>2. w # {} /\ n = 0 => Begins(w) \in AluNames /\ Begins(w) = AluTable[Get(w, "alu_op") + 1]
    <2>1. w # {} /\ n = 0 => Begins(w) = Lookup(AluMnemonic, Get(w, "alu_op"))
      <3>1. DisAlu(w).mnemonic[1] = T(Lookup(AluMnemonic, Get(w, "alu_op")))
        BY SeesAlike DEF DisAlu
      <3> QED BY <3>1, TextOf, PieceText DEF Begins
    <2>2. Get(w, "alu_op") + 1 \in 1 .. 16
      BY FieldTypes
    <2>3. \A k \in 1 .. 16 : AluMnemonic[k] \in AluNames /\ AluMnemonic[k] = AluTable[k]
      BY DEF AluMnemonic, AluNames, AluTable
    <2>4. Lookup(AluMnemonic, Get(w, "alu_op")) = AluMnemonic[Get(w, "alu_op") + 1]
      <3>1. DOMAIN AluMnemonic = 1 .. 16
        BY DEF AluMnemonic
      <3> QED BY <2>2, <3>1 DEF Lookup
    <2> QED BY <2>1, <2>2, <2>3, <2>4
  <1>3. n \in DisBranchInstr => Begins(w) = IF Flag(w, "brn_l") THEN "bl" ELSE "b"
    <2>1. DisBranch(w, n).mnemonic[1] = T(IF Flag(w, "brn_l") THEN "bl" ELSE "b")
      BY SeesAlike DEF DisBranch
    <2> QED BY <2>1, TextOf, PieceText DEF Begins
  <1>4. n = 14 => Begins(w) = Lookup(CopxMnemonic, Get(w, "cpe_op"))
    <2>1. DisExchange(w).mnemonic[1] = T(Lookup(CopxMnemonic, Get(w, "cpe_op")))
      BY SeesAlike DEF DisExchange
    <2> QED BY <2>1, TextOf, PieceText DEF Begins
  <1>5. n = 15 => Begins(w) = Lookup(SysMnemonic, Get(w, "sys_op"))
    <2>1. DisSystem(w).mnemonic[1] = T(Lookup(SysMnemonic, Get(w, "sys_op")))
      BY SeesAlike DEF DisSystem
    <2> QED BY <2>1, TextOf, PieceText DEF Begins
  <1>6. n = 16 => Begins(w) = Lookup(LslMnemonic, Get(w, "lsl_op"))
    <2>1. DisLoadStore(w).mnemonic[1] = T(Lookup(LslMnemonic, Get(w, "lsl_op")))
      BY SeesAlike DEF DisLoadStore
    <2> QED BY <2>1, TextOf, PieceText DEF Begins
  <1>7. n = 17 => Begins(w) = "li"
    <2>1. DisLoadImmediate(w).mnemonic[1] = T("li")
      BY DEF DisLoadImmediate
    <2> QED BY <2>1, TextOf, PieceText DEF Begins
  <1>8. n = 11 => Begins(w) = "s"
    <2>1. DisSetCond(w).mnemonic[1] = T("s")
      BY DEF DisSetCond
    <2> QED BY <2>1, TextOf, PieceText DEF Begins
  <1> QED BY <1>1, <1>2, <1>3, <1>4, <1>5, <1>6, <1>7, <1>8

LEMMA LookupNames ==
    /\ \A k \in RegisterNumber :
          Lookup(CopxMnemonic, k) = (CASE k = 0 -> "mtcr" [] k = 1 -> "mfcr" [] OTHER -> "")
    /\ \A k \in 0 .. 7 : Lookup(SysMnemonic, k) \in SysNames \cup {""}
    /\ \A k \in 0 .. 7 : Lookup(SysMnemonic, k) = "" => k = 7
    /\ \A k \in 0 .. 3 :
          Lookup(LslMnemonic, k) = (CASE k = 0 -> "load" [] k = 1 -> "store" [] k = 2 -> "lea"
                                      [] OTHER -> "")
  BY DEF Lookup, CopxMnemonic, SysMnemonic, LslMnemonic, SysNames, RegisterNumber
------------------------------------------------------------------------------
(***************************************************************************)
(* What the core decodes, by instruction number.                           *)
(***************************************************************************)
LEMMA DecodedOf ==
    ASSUME NEW w, NEW n, n = Get(w, "instr")
    PROVE  /\ n = 0 => Decoded(w) = AluInstruction(w)
           /\ n \in DisBranchInstr => Decoded(w) = Branch(w, n)
           /\ n = 14 => Decoded(w) = Exchange(w)
           /\ n = 15 => Decoded(w) = System(w)
           /\ n = 16 => Decoded(w) = LoadStore(w)
           /\ n = 17 => Decoded(w) = [case |-> "li", d |-> Get(w, "d"),
                                      value |-> ShiftLeft(Immediate(Get(w, "li_imm16"),
                                                                    Flag(w, "li_sx")),
                                                          Get(w, "li_shift"))]
           /\ n = 11 => Decoded(w) = SetCond(Cond(Get(w, "scr_op")), w,
                                             R(Get(w, "s0")), R(Get(w, "s1")))
           /\ n \in Nameless =>
                 Decoded(w).case \in {"illegal", "cop", "jump", "setcond", "outside"}
  <1> DEFINE li == [case |-> "li", d |-> Get(w, "d"),
                    value |-> ShiftLeft(Immediate(Get(w, "li_imm16"), Flag(w, "li_sx")),
                                        Get(w, "li_shift"))]
             immediate == SetCond(Cond((n \div 2) % 8), w, V(Get(w, "s0")),
                                  V(Immediate(Get(w, "sci_imm16"), Flag(w, "sci_sx"))))
             register == SetCond(Cond(Get(w, "scr_op")), w, R(Get(w, "s0")), R(Get(w, "s1")))
             cop == [case |-> "cop"]
             illegal == [case |-> "illegal"]
             i == Decoded(w)
  <1>1. i = CASE n = 0 -> AluInstruction(w)
              [] n \in DisBranchInstr -> Branch(w, n)
              [] n = 13 -> RegisterBranch(w)
              [] n = 14 -> Exchange(w)
              [] n \in {30, 31} -> cop
              [] n = 15 -> System(w)
              [] n = 16 -> LoadStore(w)
              [] n = 17 -> li
              [] n \in DisSetCondInstr -> immediate
              [] n = 11 -> register
              [] OTHER -> illegal
    BY CaseNumbers DEF Decoded
  <1>2. /\ cop.case = "cop" /\ illegal.case = "illegal"
        /\ immediate.case \in {"setcond", "outside"}
        /\ RegisterBranch(w).case \in {"jump", "outside"}
    BY DEF SetCond, RegisterBranch
  <1>3. {0, 11, 13, 14, 15, 16, 17, 30, 31} \cap (DisBranchInstr \cup DisSetCondInstr) = {}
    BY DEF DisBranchInstr, DisSetCondInstr
  <1>4. DisBranchInstr \cap DisSetCondInstr = {}
    BY DEF DisBranchInstr, DisSetCondInstr
  <1> HIDE DEF li, immediate, register, cop, illegal, i
  <1>5. n = 0 => i = AluInstruction(w)
    BY <1>1, <1>3
  <1>6. n \in DisBranchInstr => i = Branch(w, n)
    BY <1>1, <1>3, <1>4
  <1>7. /\ n = 14 => i = Exchange(w)
        /\ n = 15 => i = System(w)
        /\ n = 16 => i = LoadStore(w)
        /\ n = 17 => i = li
        /\ n = 11 => i = register
    BY <1>1, <1>3
  <1>8. n \in Nameless => i.case \in {"illegal", "cop", "jump", "setcond", "outside"}
    <2> SUFFICES ASSUME n \in Nameless PROVE i \in {illegal, cop, immediate, RegisterBranch(w)}
      BY <1>2
    <2>1. n \notin {0, 11, 14, 15, 16, 17} /\ n \notin DisBranchInstr
      BY DEF Nameless, DisBranchInstr
    <2> QED BY <1>1, <1>3, <2>1
  <1> QED BY <1>5, <1>6, <1>7, <1>8 DEF i, li, register

LEMMA DecodedCases ==
    ASSUME NEW w, NEW n, n = Get(w, "instr")
    PROVE  LET case == Decoded(w).case
           IN  /\ n = 0 => case = "alu"
               /\ n \in DisBranchInstr => case = "branch"
               /\ n = 14 => case = (CASE Get(w, "cpe_op") = 0 -> "mtcr"
                                      [] Get(w, "cpe_op") = 1 -> "mfcr"
                                      [] OTHER -> "outside")
               /\ n = 15 => /\ case \in {"syscall", "excep", "debug", "exit", "tpl", "sysret"}
                            /\ Get(w, "sys_op") = 7 => case = "sysret"
               /\ n = 16 => /\ case \in {"load", "store", "lea", "none"}
                            /\ Get(w, "lsl_op") = 3 => case = "none"
               /\ n = 17 => case = "li"
               /\ n = 11 => case \in {"setcond", "outside"}
  <1>1. AluInstruction(w).case = "alu"
    BY DEF AluInstruction
  <1>2. Branch(w, n).case = "branch"
    BY DEF Branch
  <1>3. Exchange(w).case = (CASE Get(w, "cpe_op") = 0 -> "mtcr" [] Get(w, "cpe_op") = 1 -> "mfcr"
                              [] OTHER -> "outside")
    BY FieldTypes DEF Exchange, RegisterNumber
  <1>4. /\ System(w).case \in {"syscall", "excep", "debug", "exit", "tpl", "sysret"}
        /\ Get(w, "sys_op") = 7 => System(w).case = "sysret"
    <2>1. Get(w, "sys_op") + 1 \in 1 .. 8
      BY FieldTypes
    <2>2. /\ \A k \in 1 .. 8 : SystemTable[k] \in {"syscall", "excep", "debug", "tpl", "sysret"}
          /\ SystemTable[7 + 1] = "sysret"
      BY DEF SystemTable
    <2> QED BY <2>1, <2>2 DEF System
  <1>5. /\ LoadStore(w).case \in {"load", "store", "lea", "none"}
        /\ Get(w, "lsl_op") = 3 => LoadStore(w).case = "none"
    BY FieldTypes DEF LoadStore, LoadStoreTable
  <1>6. SetCond(Cond(Get(w, "scr_op")), w, R(Get(w, "s0")), R(Get(w, "s1"))).case
           \in {"setcond", "outside"}
    BY DEF SetCond
  <1> QED BY <1>1, <1>2, <1>3, <1>4, <1>5, <1>6, DecodedOf
------------------------------------------------------------------------------
\* The line printed last is that of the word it was printed for.
Printed == text = Text(word)

LEMMA AlwaysPrinted == SpecDis => []Printed
  <1>1. DisInit => Printed
    BY DEF DisInit, Printed
  <1>2. Printed /\ [DisNext]_disVars => Printed'
    BY DEF Printed, DisNext, Disassemble, disVars, Text, DisAlu, DisBranch, DisExchange,
       DisSystem, DisLoadStore, DisLoadImmediate, DisSetCond
  <1> QED BY <1>1, <1>2, PTL DEF SpecDis

Unnamed == {"", "BRR to-do", "SCI to-do"}

LEMMA NamesTell ==
    ASSUME NEW w
    PROVE  LET case == Decoded(w).case
           IN  /\ case = "illegal" => Begins(w) \in Unnamed
               /\ Begins(w) \in Unnamed =>
                    case \in {"illegal", "cop", "jump", "setcond", "sysret", "none", "outside"}
  <1> DEFINE n == Get(w, "instr")  case == Decoded(w).case  b == Begins(w)
  <1>1. n \in {0, 11, 14, 15, 16, 17} \cup DisBranchInstr \cup Nameless
    BY FieldTypes, CaseNumbers
  <1>2. /\ Get(w, "cpe_op") \in RegisterNumber /\ Get(w, "sys_op") \in 0 .. 7
        /\ Get(w, "lsl_op") \in 0 .. 3
    BY FieldTypes
  <1> SUFFICES /\ case = "illegal" => b \in Unnamed
               /\ b \in Unnamed =>
                    case \in {"illegal", "cop", "jump", "setcond", "sysret", "none", "outside"}
    OBVIOUS
  <1>3. CASE n \in Nameless
    <2>1. b \in Unnamed
      BY <1>3, TextOf DEF Unnamed
    <2>2. case \in {"illegal", "cop", "jump", "setcond", "outside"}
      BY <1>3, DecodedOf
    <2> HIDE DEF b, case
    <2> QED BY <2>1, <2>2
  <1>4. CASE n \in {0, 11, 17} \cup DisBranchInstr
    <2>1. case # "illegal"
      BY <1>4, DecodedCases
    <2>2. w = {} \/ (w # {} /\ n = 0) \/ n \in {11, 17} \cup DisBranchInstr
      BY <1>4
    <2>3. b \in {"nop", "b", "bl", "li", "s"} \cup AluNames
      BY <2>2, Opening
    <2>4. b \notin Unnamed
      <3> HIDE DEF b
      <3> QED BY <2>3 DEF AluNames, Unnamed
    <2> QED BY <2>1, <2>4
  <1>5. CASE n = 14
    <2>1. b = (CASE Get(w, "cpe_op") = 0 -> "mtcr" [] Get(w, "cpe_op") = 1 -> "mfcr"
                 [] OTHER -> "")
      BY <1>2, <1>5, Opening, LookupNames
    <2>2. case = (CASE Get(w, "cpe_op") = 0 -> "mtcr" [] Get(w, "cpe_op") = 1 -> "mfcr"
                    [] OTHER -> "outside")
      BY <1>5, DecodedCases
    <2> HIDE DEF b, case
    <2> QED BY <2>1, <2>2 DEF Unnamed
  <1>6. CASE n = 15
    <2>1. b \in SysNames \cup {""} /\ (b = "" => Get(w, "sys_op") = 7)
      BY <1>2, <1>6, Opening, LookupNames
    <2>2. /\ case \in {"syscall", "excep", "debug", "exit", "tpl", "sysret"}
          /\ Get(w, "sys_op") = 7 => case = "sysret"
      BY <1>6, DecodedCases
    <2> HIDE DEF b, case
    <2> QED BY <2>1, <2>2 DEF Unnamed, SysNames
  <1>7. CASE n = 16
    <2>1. b = (CASE Get(w, "lsl_op") = 0 -> "load" [] Get(w, "lsl_op") = 1 -> "store"
                 [] Get(w, "lsl_op") = 2 -> "lea" [] OTHER -> "")
      BY <1>2, <1>7, Opening, LookupNames
    <2>2. /\ case \in {"load", "store", "lea", "none"}
          /\ Get(w, "lsl_op") = 3 => case = "none"
      BY <1>7, DecodedCases
    <2> HIDE DEF b, case
    <2>3. b \in LslNames \cup {""} /\ (b = "" => Get(w, "lsl_op") = 3)
      <3>1. Get(w, "lsl_op") \in {0, 1, 2, 3}
        BY <1>2
      <3> QED BY <2>1, <3>1 DEF LslNames
    <2> QED BY <2>2, <2>3 DEF Unnamed, LslNames
  <1> QED BY <1>1, <1>3, <1>4, <1>5, <1>6, <1>7

\* hv2_execute and the disassembler agree on what an instruction is: no word
\* that raises ILLEGAL_INSTR gets a name, and a word without one is illegal or
\* in a known gap, for all the 2^32 words and not only those the run prints.
THEOREM NamesTellTruth == SpecDis => []NamesTellLegality
  <1>1. Printed => NamesTellLegality
    BY NamesTell DEF Printed, NamesTellLegality, IsNamed, Begins, Unnamed
  <1> QED BY <1>1, AlwaysPrinted, PTL
------------------------------------------------------------------------------
(***************************************************************************)
(* Two words printed alike.                                                *)
(***************************************************************************)
\* The first piece tells the kind of instruction.
LEMMA Kinds ==
    ASSUME NEW w, NEW n, n = Get(w, "instr"), Begins(w) \notin Unnamed
    PROVE  /\ Begins(w) \in {"nop", "b", "bl", "li", "s"} \cup AluNames \cup SysNames
                              \cup LslNames \cup CopxNames
           /\ Begins(w) = "nop" => w = {}
           /\ Begins(w) \in AluNames => w # {} /\ n = 0
           /\ Begins(w) \in {"b", "bl"} => n \in DisBranchInstr
           /\ Begins(w) \in CopxNames => n = 14
           /\ Begins(w) \in SysNames => n = 15
           /\ Begins(w) \in LslNames => n = 16
           /\ Begins(w) = "li" => n = 17
           /\ Begins(w) = "s" => n = 11
  <1> DEFINE b == Begins(w)
  <1>1. n \in {0, 11, 14, 15, 16, 17} \cup DisBranchInstr
    <2>1. n \in RegisterNumber
      BY FieldTypes
    <2> QED BY <2>1, CaseNumbers, TextOf DEF Unnamed
  <1>2. /\ w = {} => b = "nop"
        /\ w # {} /\ n = 0 => b \in AluNames
        /\ n \in DisBranchInstr => b \in {"b", "bl"}
        /\ n = 17 => b = "li"
        /\ n = 11 => b = "s"
    BY Opening
  <1>3. n = 14 => b \in CopxNames
    <2>1. Get(w, "cpe_op") \in RegisterNumber
      BY FieldTypes
    <2>2. \A k \in RegisterNumber : Lookup(CopxMnemonic, k) \in CopxNames \cup {""}
      BY LookupNames DEF CopxNames
    <2> QED BY <2>1, <2>2, Opening DEF Unnamed
  <1>4. n = 15 => b \in SysNames
    <2>1. Get(w, "sys_op") \in 0 .. 7
      BY FieldTypes
    <2> QED BY <2>1, LookupNames, Opening DEF Unnamed
  <1>5. n = 16 => b \in LslNames
    <2>1. Get(w, "lsl_op") \in 0 .. 3
      BY FieldTypes
    <2>2. \A k \in 0 .. 3 : Lookup(LslMnemonic, k) \in LslNames \cup {""}
      BY LookupNames DEF LslNames
    <2> QED BY <2>1, <2>2, Opening DEF Unnamed
  <1> HIDE DEF b
  <1> QED BY <1>1, <1>2, <1>3, <1>4, <1>5 DEF b, AluNames, SysNames, LslNames, CopxNames

LEMMA SameAlu ==
    ASSUME NEW w, NEW x, DisAlu(w) = DisAlu(x),
           AluTable[Get(w, "alu_op") + 1] = AluTable[Get(x, "alu_op") + 1]
    PROVE  AluInstruction(w) = AluInstruction(x)
  <1>1. DisAlu(w).mnemonic = DisAlu(x).mnemonic /\ DisAlu(w).operands = DisAlu(x).operands
    OBVIOUS
  <1>2. \A v : /\ Flag(v, "alu_i") =>
                    /\ Len(DisAlu(v).mnemonic) = 2
                    /\ DisAlu(v).mnemonic[2] = T(IF Flag(v, "alu_sx") THEN ".s" ELSE ".u")
                    /\ DisAlu(v).operands[2] = Num(Get(v, "alu_imm"), "x4")
               /\ ~Flag(v, "alu_i") =>
                    /\ Len(DisAlu(v).mnemonic) = 1
                    /\ DisAlu(v).operands[2] = Reg(Get(v, "s0"))
                    /\ DisAlu(v).operands[3] = Reg(Get(v, "s1"))
               /\ DisAlu(v).operands[1] = Reg(Get(v, "d"))
    BY SeesAlike DEF DisAlu
  <1>3. Get(w, "d") = Get(x, "d") /\ (Flag(w, "alu_i") <=> Flag(x, "alu_i"))
    BY <1>1, <1>2, SamePieces
  <1>4. CASE Flag(w, "alu_i")
    <2>1. Get(w, "alu_imm") = Get(x, "alu_imm")
      BY <1>1, <1>2, <1>3, <1>4, SamePieces
    <2>2. Flag(w, "alu_sx") <=> Flag(x, "alu_sx")
      BY <1>1, <1>2, <1>3, <1>4, SamePieces
    <2>3. Immediate(Get(w, "alu_imm"), Flag(w, "alu_sx"))
            = Immediate(Get(x, "alu_imm"), Flag(x, "alu_sx"))
      BY <2>1, <2>2 DEF Immediate
    <2> QED BY <1>3, <1>4, <2>3 DEF AluInstruction
  <1>5. CASE ~Flag(w, "alu_i")
    <2>1. Get(w, "s0") = Get(x, "s0") /\ Get(w, "s1") = Get(x, "s1")
      BY <1>1, <1>2, <1>3, <1>5, SamePieces
    <2> QED BY <1>3, <1>5, <2>1 DEF AluInstruction
  <1> QED BY <1>4, <1>5

\* What a map gives for an unknown key: the empty text, no name in any table.
NoName == ""

LEMMA Looked ==
    /\ \A t, n : Lookup(t, n) = IF n + 1 \in DOMAIN t THEN t[n + 1] ELSE NoName
    /\ \A s \in {"eq", "ne", "gt", "ge", "lt", "le"} \cup SysNames : s # NoName
  BY Zenon DEF Lookup, NoName, SysNames

LEMMA ConditionNames ==
    /\ \A i \in 1 .. 6 : Lookup(CcCond, i) = Cond(i) /\ Cond(i) # NoName
    /\ \A i \in 0 .. 15 : i \notin 1 .. 6 => Lookup(CcCond, i) = NoName /\ Cond(i) = "outside"
  <1>1. DOMAIN CcCond = 1 .. 7 /\ DOMAIN CondTable = 1 .. 6
    BY DEF CcCond, CondTable
  <1>2. \A i \in 1 .. 6 : CondTable[i] \in {"eq", "ne", "gt", "ge", "lt", "le"}
    BY DEF CondTable
  <1>3. /\ CcCond[1] = NoName /\ CcCond[2] = CondTable[1] /\ CcCond[3] = CondTable[2]
        /\ CcCond[4] = CondTable[3] /\ CcCond[5] = CondTable[4] /\ CcCond[6] = CondTable[5]
        /\ CcCond[7] = CondTable[6]
    <2>1. \A a, b, c, d, e, f, g :
             LET t == <<a, b, c, d, e, f, g>>
             IN  t[1] = a /\ t[2] = b /\ t[3] = c /\ t[4] = d /\ t[5] = e /\ t[6] = f /\ t[7] = g
      OBVIOUS
    <2>2. CcCond = <<NoName, "eq", "ne", "gt", "ge", "lt", "le">>
      BY Zenon DEF CcCond, NoName
    <2> QED BY <2>1, <2>2 DEF CondTable
  <1>4. ASSUME NEW i \in 1 .. 6 PROVE Lookup(CcCond, i) = Cond(i) /\ Cond(i) # NoName
    <2>1. CcCond[i + 1] = CondTable[i]
      BY <1>3
    <2> QED BY <1>1, <1>2, <2>1, Looked DEF Cond
  <1>5. ASSUME NEW i \in 0 .. 15, i \notin 1 .. 6
        PROVE  Lookup(CcCond, i) = NoName /\ Cond(i) = "outside"
    BY <1>1, <1>3, <1>5, Looked DEF Cond
  <1> QED BY <1>4, <1>5

LEMMA SameCondition ==
    \A j, k \in 0 .. 15 : Lookup(CcCond, j) = Lookup(CcCond, k) => Cond(j) = Cond(k)
  BY ConditionNames

LEMMA SameBranch ==
    ASSUME NEW w, NEW x, NEW n \in DisBranchInstr, NEW m \in DisBranchInstr,
           DisBranch(w, n) = DisBranch(x, m)
    PROVE  Branch(w, n) = Branch(x, m)
  <1>1. \A v, i : /\ DisBranch(v, i).mnemonic[1] = T(IF Flag(v, "brn_l") THEN "bl" ELSE "b")
                  /\ DisBranch(v, i).mnemonic[2] = T(Lookup(CcCond, (i \div 2) % 8))
                  /\ DisBranch(v, i).operands[1] = Reg(Get(v, "d"))
                  /\ DisBranch(v, i).operands[2] = Reg(Get(v, "s0"))
                  /\ DisBranch(v, i).operands[3] = Num(BranchOffset(v, i), "x")
    BY SeesAlike DEF DisBranch, BranchOffset
  <1>2. /\ Flag(w, "brn_l") <=> Flag(x, "brn_l")
        /\ Get(w, "d") = Get(x, "d") /\ Get(w, "s0") = Get(x, "s0")
        /\ BranchOffset(w, n) = BranchOffset(x, m)
    BY <1>1, SamePieces
  <1>3. Lookup(CcCond, (n \div 2) % 8) = Lookup(CcCond, (m \div 2) % 8)
    BY <1>1, SamePieces
  <1>4. \A i \in DisBranchInstr : (i \div 2) % 8 \in 0 .. 15
    BY DEF DisBranchInstr
  <1>5. Cond((n \div 2) % 8) = Cond((m \div 2) % 8)
    BY <1>3, <1>4, SameCondition
  <1>6. \A v, i : Branch(v, i) = [case |-> "branch", cond |-> Cond((i \div 2) % 8),
                                 d |-> Get(v, "d"), s0 |-> Get(v, "s0"),
                                 link |-> Get(v, "brn_l") = 1, offset |-> BranchOffset(v, i)]
    BY DEF Branch, Flag
  <1>7. (Get(w, "brn_l") = 1) = (Get(x, "brn_l") = 1)
    BY <1>2 DEF Flag
  <1> QED BY <1>2, <1>5, <1>6, <1>7

LEMMA SameExchange ==
    ASSUME NEW w, NEW x, DisExchange(w) = DisExchange(x),
           Get(w, "cpe_op") \in {0, 1}
    PROVE  Exchange(w) = Exchange(x)
  <1>1. Get(w, "cpe_op") \in RegisterNumber /\ Get(x, "cpe_op") \in RegisterNumber
    BY FieldTypes
  <1>2. ASSUME NEW v PROVE DisExchange(v).mnemonic[1] = T(Lookup(CopxMnemonic, Get(v, "cpe_op")))
    BY SeesAlike DEF DisExchange
  <1>3. Lookup(CopxMnemonic, Get(w, "cpe_op")) = Lookup(CopxMnemonic, Get(x, "cpe_op"))
    BY <1>2, SamePieces
  <1>4. Get(w, "cpe_op") = Get(x, "cpe_op") /\ Get(w, "cpe_op") \in {0, 1}
    BY <1>1, <1>3, LookupNames
  <1>5. ASSUME NEW v, Get(v, "cpe_op") = 1
        PROVE  /\ DisExchange(v).operands[1] = Reg(Get(v, "d"))
               /\ DisExchange(v).operands[2] = Num(Get(v, "cpe_copn"), "u")
               /\ DisExchange(v).operands[3] = Num(Get(v, "cpe_copr"), "u")
    <2>1. DisExchange(v).operands = <<Reg(Get(v, "d"))>> \o <<Num(Get(v, "cpe_copn"), "u"),
                                                             Num(Get(v, "cpe_copr"), "u")>>
      BY <1>5, SeesAlike DEF DisExchange
    <2> QED BY <2>1
  <1>6. ASSUME NEW v, Get(v, "cpe_op") = 0
        PROVE  /\ DisExchange(v).operands[1] = Num(Get(v, "cpe_copn"), "u")
               /\ DisExchange(v).operands[2] = Num(Get(v, "cpe_copr"), "u")
               /\ DisExchange(v).operands[3] = Reg(Get(v, "d"))
    <2>1. DisExchange(v).operands = <<Num(Get(v, "cpe_copn"), "u"), Num(Get(v, "cpe_copr"), "u")>>
                                      \o <<Reg(Get(v, "d"))>>
      BY <1>6, SeesAlike DEF DisExchange
    <2> QED BY <2>1
  <1>7. DisExchange(w).operands = DisExchange(x).operands
    OBVIOUS
  <1>8. /\ Get(w, "d") = Get(x, "d") /\ Get(w, "cpe_copn") = Get(x, "cpe_copn")
        /\ Get(w, "cpe_copr") = Get(x, "cpe_copr")
    BY <1>4, <1>5, <1>6, <1>7, SamePieces
  <1> QED BY <1>4, <1>8 DEF Exchange

LEMMA SystemNames ==
    \A j, k \in 0 .. 7 : Lookup(SysMnemonic, j) = Lookup(SysMnemonic, k) => j = k
  <1>1. ASSUME NEW j \in 1 .. 7
        PROVE  /\ SysMnemonic[j] # NoName
               /\ \A k \in 1 .. 7 : SysMnemonic[j] = SysMnemonic[k] => j = k
    <2>1. SysMnemonic[j] \in SysNames
      BY DEF SysMnemonic, SysNames
    <2> QED BY <2>1, Looked DEF SysMnemonic
  <1>2. DOMAIN SysMnemonic = 1 .. 7
    BY DEF SysMnemonic
  <1>3. ASSUME NEW k \in 0 .. 7
        PROVE  IF k = 7 THEN Lookup(SysMnemonic, k) = NoName
               ELSE Lookup(SysMnemonic, k) = SysMnemonic[k + 1]
    BY <1>2, Looked
  <1>4. ASSUME NEW j \in 0 .. 7, NEW k \in 0 .. 7,
               Lookup(SysMnemonic, j) = Lookup(SysMnemonic, k)
        PROVE  j = k
    <2>1. \A i \in 0 .. 7 : i # 7 => i + 1 \in 1 .. 7 /\ Lookup(SysMnemonic, i) # NoName
      BY <1>1, <1>3
    <2>2. CASE j # 7 /\ k # 7
      <3>1. j + 1 \in 1 .. 7 /\ k + 1 \in 1 .. 7
        BY <2>2
      <3>2. SysMnemonic[j + 1] = SysMnemonic[k + 1]
        BY <1>3, <1>4, <2>2
      <3>3. j + 1 = k + 1
        BY <1>1, <3>1, <3>2
      <3> QED BY <3>3
    <2> QED BY <1>3, <1>4, <2>1, <2>2
  <1> QED BY <1>4

LEMMA SameSystem ==
    ASSUME NEW w, NEW x, DisSystem(w) = DisSystem(x),
           Get(w, "sys_op") # 7
    PROVE  System(w) = System(x)
  <1>1. Get(w, "sys_op") \in 0 .. 7 /\ Get(x, "sys_op") \in 0 .. 7
    BY FieldTypes
  <1>2. ASSUME NEW v
        PROVE  /\ DisSystem(v).mnemonic[1] = T(Lookup(SysMnemonic, Get(v, "sys_op")))
               /\ DisSystem(v).operands[1] = Num(Get(v, "sys_imm24"), "x")
    BY SeesAlike DEF DisSystem
  <1>3. /\ Lookup(SysMnemonic, Get(w, "sys_op")) = Lookup(SysMnemonic, Get(x, "sys_op"))
        /\ Get(w, "sys_imm24") = Get(x, "sys_imm24")
    BY <1>2, SamePieces
  <1>5. Get(w, "sys_op") = Get(x, "sys_op")
    BY <1>1, <1>3, SystemNames
  <1> QED BY <1>3, <1>5 DEF System

LEMMA SameLoadImmediate ==
    ASSUME NEW w, NEW x, DisLoadImmediate(w) = DisLoadImmediate(x)
    PROVE  /\ Get(w, "d") = Get(x, "d")
           /\ ShiftLeft(Immediate(Get(w, "li_imm16"), Flag(w, "li_sx")), Get(w, "li_shift"))
                = ShiftLeft(Immediate(Get(x, "li_imm16"), Flag(x, "li_sx")), Get(x, "li_shift"))
  <1>1. ASSUME NEW v
        PROVE  /\ DisLoadImmediate(v).operands[1] = Reg(Get(v, "d"))
               /\ DisLoadImmediate(v).operands[2] =
                    Num(ShiftLeft(Immediate(Get(v, "li_imm16"), Flag(v, "li_sx")),
                                  Get(v, "li_shift")), "x8")
    <2>1. SignExtend(See(v, "li_imm16") % Weight[HalfBits], HalfBits)
            = SignExtend(See(v, "li_imm16"), HalfBits)
      <3> DEFINE half == See(v, "li_imm16")  m == Weight[HalfBits]
      <3>1. half \in Nat /\ m \in Nat \ {0}
        BY SeesAlike, FieldTypes, Widths, WeightPositive
      <3>2. (half % m) % m = half % m
        <4> HIDE DEF half, m
        <4>1. half % m \in 0 .. m - 1
          BY <3>1
        <4> QED BY <3>1, <4>1
      <3> QED BY <3>2 DEF SignExtend
    <2>2. Immediate(Get(v, "li_imm16"), Flag(v, "li_sx"))
            = IF Sees(v, "li_sx") THEN SignExtend(See(v, "li_imm16") % Weight[HalfBits], HalfBits)
              ELSE See(v, "li_imm16") % Weight[HalfBits]
      BY <2>1, SeesAlike DEF Immediate
    <2> QED BY <2>2, SeesAlike DEF DisLoadImmediate
  <1> QED BY <1>1, SamePieces

LEMMA SameSetCond ==
    ASSUME NEW w, NEW x, DisSetCond(w) = DisSetCond(x)
    PROVE  SetCond(Cond(Get(w, "scr_op")), w, R(Get(w, "s0")), R(Get(w, "s1")))
             = SetCond(Cond(Get(x, "scr_op")), x, R(Get(x, "s0")), R(Get(x, "s1")))
  <1>1. \A v : /\ DisSetCond(v).mnemonic[2] = T(Lookup(CcCond, Get(v, "scr_op")))
               /\ DisSetCond(v).operands[1] = Reg(Get(v, "d"))
               /\ DisSetCond(v).operands[2] = Reg(Get(v, "s0"))
               /\ DisSetCond(v).operands[3] = Reg(Get(v, "s1"))
    BY SeesAlike DEF DisSetCond
  <1>2. /\ Get(w, "d") = Get(x, "d") /\ Get(w, "s0") = Get(x, "s0") /\ Get(w, "s1") = Get(x, "s1")
        /\ Lookup(CcCond, Get(w, "scr_op")) = Lookup(CcCond, Get(x, "scr_op"))
    BY <1>1, SamePieces
  <1>3. Cond(Get(w, "scr_op")) = Cond(Get(x, "scr_op"))
    BY <1>2, FieldTypes, SameCondition
  <1> QED BY <1>2, <1>3 DEF SetCond

\* What stands around an address in brackets does not hide its pieces.
LEMMA Bracketed ==
    ASSUME NEW S, NEW a \in Seq(S), NEW l \in S, NEW r \in S, NEW d \in S
    PROVE  LET b == <<l>> \o a \o <<r>>
           IN  /\ Len(<<d>> \o b) = Len(a) + 3 /\ (<<d>> \o b)[1] = d
               /\ Len(b \o <<d>>) = Len(a) + 3 /\ (b \o <<d>>)[Len(a) + 3] = d
               /\ \A i \in 1 .. Len(a) : (<<d>> \o b)[i + 2] = a[i] /\ (b \o <<d>>)[i + 1] = a[i]
  <1> DEFINE b == <<l>> \o a \o <<r>>
  <1>1. /\ <<l>> \in Seq(S) /\ <<r>> \in Seq(S) /\ <<d>> \in Seq(S)
        /\ Len(<<l>>) = 1 /\ Len(<<r>>) = 1 /\ Len(<<d>>) = 1 /\ <<d>>[1] = d
    OBVIOUS
  <1>2. <<l>> \o a \in Seq(S) /\ Len(<<l>> \o a) = Len(a) + 1 /\ Len(a) \in Nat
    BY <1>1
  <1>3. b \in Seq(S) /\ Len(b) = Len(a) + 2
    BY <1>1, <1>2
  <1>4. \A i \in 1 .. Len(a) : b[i + 1] = a[i]
    <2> TAKE i \in 1 .. Len(a)
    <2>1. (<<l>> \o a)[i + 1] = a[i]
      BY <1>1
    <2>2. i + 1 \in 1 .. Len(<<l>> \o a)
      BY <1>2
    <2> QED BY <1>1, <1>2, <2>1, <2>2
  <1> HIDE DEF b
  <1>5. /\ Len(<<d>> \o b) = Len(a) + 3 /\ Len(b \o <<d>>) = Len(a) + 3
        /\ (<<d>> \o b)[1] = d /\ (b \o <<d>>)[Len(a) + 3] = d
    BY <1>1, <1>2, <1>3
  <1>6. \A i \in 1 .. Len(a) : (<<d>> \o b)[i + 2] = a[i] /\ (b \o <<d>>)[i + 1] = a[i]
    <2> TAKE i \in 1 .. Len(a)
    <2>1. i + 1 \in 1 .. Len(b)
      BY <1>2, <1>3
    <2> QED BY <1>1, <1>2, <1>3, <1>4, <2>1
  <1> QED BY <1>5, <1>6 DEF b

LEMMA LoadStoreNames ==
    \A j \in 0 .. 2, k \in 0 .. 3 : Lookup(LslMnemonic, j) = Lookup(LslMnemonic, k) => j = k
  <1>1. DOMAIN LslMnemonic = 1 .. 3
    BY DEF LslMnemonic
  <1>2. ASSUME NEW j \in 1 .. 3
        PROVE  LslMnemonic[j] # NoName /\ \A k \in 1 .. 3 : LslMnemonic[j] = LslMnemonic[k] => j = k
    <2>1. LslMnemonic[j] \in {"load", "store", "lea"}
      BY DEF LslMnemonic
    <2>2. \A s \in {"load", "store", "lea"} : s # NoName
      BY Zenon DEF NoName
    <2> QED BY <2>1, <2>2 DEF LslMnemonic
  <1>3. ASSUME NEW j \in 0 .. 2, NEW k \in 0 .. 3, Lookup(LslMnemonic, j) = Lookup(LslMnemonic, k)
        PROVE  j = k
    <2>1. Lookup(LslMnemonic, j) = LslMnemonic[j + 1] /\ j + 1 \in 1 .. 3
      BY <1>1, Looked
    <2>2. Lookup(LslMnemonic, k) = IF k = 3 THEN NoName ELSE LslMnemonic[k + 1]
      BY <1>1, Looked
    <2>3. k # 3
      BY <1>2, <1>3, <2>1, <2>2
    <2>4. k + 1 \in 1 .. 3
      BY <2>3
    <2>5. LslMnemonic[j + 1] = LslMnemonic[k + 1]
      BY <1>3, <2>1, <2>2, <2>3, Zenon
    <2>6. j + 1 = k + 1
      BY <1>2, <2>1, <2>4, <2>5
    <2> QED BY <2>6
  <1> QED BY <1>3

\* The addresses of two words, each with its mode and offset.
LEMMA SameAddress ==
    ASSUME NEW w, NEW x, Len(DisAddress(w)) = Len(DisAddress(x)),
           \A i \in 1 .. Len(DisAddress(w)) : DisAddress(w)[i] = DisAddress(x)[i]
    PROVE  /\ Get(w, "s0") = Get(x, "s0")
           /\ LoadStore(w).mode = LoadStore(x).mode
           /\ LoadStore(w).index = LoadStore(x).index
           /\ LoadStore(w).imm = LoadStore(x).imm
  <1> DEFINE m(v) == Get(v, "lsl_mode")
             fixed(v) == m(v) \in 4 .. 7
             A(v) == DisAddress(v)
  <1>1. ASSUME NEW v PROVE m(v) \in 0 .. 7
    BY FieldTypes
  <1>2. ASSUME NEW v, fixed(v)
        PROVE  /\ Len(A(v)) = 3 /\ A(v)[1] = Reg(Get(v, "s0"))
               /\ A(v)[2] = T(IF m(v) % 2 = 0 THEN "+" ELSE "-")
               /\ A(v)[3] = Num(FixedOffset(v, m(v)), "x")
    <2>1. A(v) = <<Reg(Get(v, "s0")), T(IF m(v) % 2 = 0 THEN "+" ELSE "-"),
                   Num(FixedOffset(v, m(v)), "x")>>
      BY <1>2, SeesAlike DEF DisAddress, FixedOffset
    <2> HIDE DEF A
    <2> QED BY <2>1
  <1>3. ASSUME NEW v, ~fixed(v)
        PROVE  /\ Len(A(v)) = 5 /\ A(v)[1] = Reg(Get(v, "s0"))
               /\ A(v)[2] = T(IF m(v) % 2 = 0 THEN "+" ELSE "-")
               /\ A(v)[3] = Reg(Get(v, "s1"))
               /\ A(v)[4] = T(IF m(v) \in {0, 1} THEN "*" ELSE ":")
               /\ A(v)[5] = Num(Get(v, "s2"), "x")
    <2>1. A(v) = <<Reg(Get(v, "s0")), T(IF m(v) % 2 = 0 THEN "+" ELSE "-"), Reg(Get(v, "s1")),
                   T(IF m(v) \in {0, 1} THEN "*" ELSE ":"), Num(Get(v, "s2"), "x")>>
      BY <1>3, SeesAlike DEF DisAddress
    <2> HIDE DEF A
    <2> QED BY <2>1
  <1>4. ASSUME NEW v, fixed(v)
        PROVE  /\ LoadStore(v).mode = IF m(v) \in {6, 7} THEN m(v) - 2 ELSE m(v)
               /\ LoadStore(v).index = V(0) /\ LoadStore(v).imm = FixedOffset(v, m(v))
    BY <1>4 DEF LoadStore
  <1>5. ASSUME NEW v, ~fixed(v)
        PROVE  /\ LoadStore(v).mode = m(v)
               /\ LoadStore(v).index = R(Get(v, "s1")) /\ LoadStore(v).imm = Get(v, "s2")
    BY <1>1, <1>5 DEF LoadStore
  <1>6. \A i \in 1 .. Len(A(w)) : A(w)[i] = A(x)[i]
    OBVIOUS
  <1>7. Len(A(w)) = Len(A(x))
    OBVIOUS
  <1>8. m(w) \in 0 .. 7 /\ m(x) \in 0 .. 7
    BY <1>1
  <1> HIDE DEF A
  <1>9. fixed(w) <=> fixed(x)
    <2>1. ASSUME NEW v PROVE (fixed(v) /\ Len(A(v)) = 3) \/ (~fixed(v) /\ Len(A(v)) = 5)
      BY <1>2, <1>3
    <2>2. /\ (fixed(w) /\ Len(A(w)) = 3) \/ (~fixed(w) /\ Len(A(w)) = 5)
          /\ (fixed(x) /\ Len(A(x)) = 3) \/ (~fixed(x) /\ Len(A(x)) = 5)
      BY <2>1
    <2>3. 3 # 5
      OBVIOUS
    <2> QED BY <1>7, <2>2, <2>3, Zenon
  <1>10. CASE fixed(w)
    <2>1. /\ Get(w, "s0") = Get(x, "s0") /\ FixedOffset(w, m(w)) = FixedOffset(x, m(x))
          /\ (m(w) % 2 = 0) <=> (m(x) % 2 = 0)
      BY <1>2, <1>6, <1>9, <1>10, SamePieces
    <2>2. LoadStore(w).mode = LoadStore(x).mode
      BY <1>4, <1>8, <1>9, <1>10, <2>1
    <2> QED BY <1>4, <1>9, <1>10, <2>1, <2>2
  <1>11. CASE ~fixed(w)
    <2>1. /\ Get(w, "s0") = Get(x, "s0") /\ Get(w, "s1") = Get(x, "s1")
          /\ Get(w, "s2") = Get(x, "s2")
          /\ (m(w) % 2 = 0) <=> (m(x) % 2 = 0)
          /\ (m(w) \in {0, 1}) <=> (m(x) \in {0, 1})
      BY <1>3, <1>6, <1>9, <1>11, SamePieces
    <2>2. \A j, k \in 0 .. 3 :
             ((j % 2 = 0) <=> (k % 2 = 0)) /\ ((j \in {0, 1}) <=> (k \in {0, 1})) => j = k
      OBVIOUS
    <2>3. m(w) \in 0 .. 3 /\ m(x) \in 0 .. 3
      BY <1>8, <1>9, <1>11
    <2>4. m(w) = m(x)
      <3> HIDE DEF m
      <3> QED BY <2>1, <2>2, <2>3
    <2>5. ~fixed(w) /\ ~fixed(x)
      BY <1>9, <1>11
    <2>6. ASSUME NEW v, ~fixed(v)
          PROVE  LoadStore(v).index = R(Get(v, "s1")) /\ LoadStore(v).imm = Get(v, "s2")
                   /\ LoadStore(v).mode = m(v)
      BY <1>5, <2>6
    <2> HIDE DEF m, fixed
    <2> QED BY <2>1, <2>4, <2>5, <2>6
  <1> QED BY <1>10, <1>11

LEMMA SameLoadStore ==
    ASSUME NEW w, NEW x, DisLoadStore(w) = DisLoadStore(x), Get(w, "lsl_op") # 3
    PROVE  LoadStore(w) = LoadStore(x)
  <1> DEFINE op(v) == Get(v, "lsl_op")
             size(v) == Get(v, "lsl_size")
             A(v) == DisAddress(v)
             d(v) == Reg(Get(v, "d"))
             o(v) == DisLoadStore(v).operands
  <1>1. ASSUME NEW v PROVE op(v) \in 0 .. 3 /\ size(v) \in 0 .. 3
    BY FieldTypes
  <1>2. ASSUME NEW v
        PROVE  /\ DisLoadStore(v).mnemonic[1] = T(Lookup(LslMnemonic, op(v)))
               /\ DisLoadStore(v).mnemonic[2] = T(LslSize[size(v) + 1])
    BY SeesAlike DEF DisLoadStore
  <1>3. op(w) = op(x)
    <2>1. Lookup(LslMnemonic, op(w)) = Lookup(LslMnemonic, op(x))
      BY <1>2, SamePieces
    <2>2. op(w) \in 0 .. 2 /\ op(x) \in 0 .. 3
      BY <1>1
    <2> QED BY <2>1, <2>2, LoadStoreNames
  <1>4. size(w) = size(x)
    <2>1. LslSize[size(w) + 1] = LslSize[size(x) + 1]
      BY <1>2, SamePieces
    <2>2. size(w) + 1 \in 1 .. 4 /\ size(x) + 1 \in 1 .. 4
      BY <1>1
    <2>3. \A j, k \in 1 .. 4 : LslSize[j] = LslSize[k] => j = k
      BY DEF LslSize
    <2>4. size(w) + 1 = size(x) + 1
      BY <2>1, <2>2, <2>3
    <2> QED BY <1>1, <2>4
  <1>5. ASSUME NEW v
        PROVE  /\ Len(A(v)) \in Nat /\ Len(o(v)) = Len(A(v)) + 3
               /\ op(v) = 1 => /\ o(v)[Len(A(v)) + 3] = d(v)
                               /\ \A i \in 1 .. Len(A(v)) : o(v)[i + 1] = A(v)[i]
               /\ op(v) # 1 => /\ o(v)[1] = d(v)
                               /\ \A i \in 1 .. Len(A(v)) : o(v)[i + 2] = A(v)[i]
    <2> DEFINE l == T("[")  r == T("]")
               b == <<l>> \o A(v) \o <<r>>
    <2>1. o(v) = IF op(v) = 1 THEN b \o <<d(v)>> ELSE <<d(v)>> \o b
      BY SeesAlike DEF DisLoadStore
    <2>2. PICK S : A(v) \in Seq(S) /\ {l, r, d(v)} \subseteq S
      <3> DEFINE s0 == Reg(See(v, "s0"))
                 sign == T(IF See(v, "lsl_mode") % 2 = 0 THEN "+" ELSE "-")
                 n == Num(See(v, "lsl_imm10") + (IF See(v, "lsl_mode") \in {6, 7} THEN 1024 ELSE 0),
                          "x")
                 s1 == Reg(See(v, "s1"))
                 link == T(IF See(v, "lsl_mode") \in {0, 1} THEN "*" ELSE ":")
                 s2 == Num(See(v, "s2"), "x")
                 P == {s0, sign, n, s1, link, s2, l, r, d(v)}
      <3>1. A(v) = IF See(v, "lsl_mode") \in 4 .. 7 THEN <<s0, sign, n>>
                   ELSE <<s0, sign, s1, link, s2>>
        BY DEF DisAddress
      <3> HIDE DEF s0, sign, n, s1, link, s2, l, r, A, d
      <3>2. <<s0, sign, n>> \in Seq(P) /\ <<s0, sign, s1, link, s2>> \in Seq(P)
        OBVIOUS
      <3>3. A(v) \in Seq(P) /\ {l, r, d(v)} \subseteq P
        BY <3>1, <3>2
      <3> QED BY <3>3
    <2> HIDE DEF l, r, A, d, o, op
    <2>3. /\ Len(<<d(v)>> \o b) = Len(A(v)) + 3 /\ (<<d(v)>> \o b)[1] = d(v)
          /\ Len(b \o <<d(v)>>) = Len(A(v)) + 3 /\ (b \o <<d(v)>>)[Len(A(v)) + 3] = d(v)
          /\ \A i \in 1 .. Len(A(v)) : /\ (<<d(v)>> \o b)[i + 2] = A(v)[i]
                                       /\ (b \o <<d(v)>>)[i + 1] = A(v)[i]
      BY <2>2, Bracketed
    <2>4. Len(A(v)) \in Nat
      BY <2>2
    <2> HIDE DEF b
    <2> QED BY <2>1, <2>3, <2>4
  <1>6. o(w) = o(x)
    OBVIOUS
  <1> HIDE DEF A, d, o, op, size
  <1>7. Len(A(w)) = Len(A(x))
    BY <1>5, <1>6
  <1>8. d(w) = d(x)
    BY <1>3, <1>5, <1>6, <1>7
  <1>9. \A i \in 1 .. Len(A(w)) : A(w)[i] = A(x)[i]
    <2> TAKE i \in 1 .. Len(A(w))
    <2>1. op(w) = 1 => A(w)[i] = o(w)[i + 1] /\ A(x)[i] = o(x)[i + 1]
      BY <1>3, <1>5, <1>7
    <2>2. op(w) # 1 => A(w)[i] = o(w)[i + 2] /\ A(x)[i] = o(x)[i + 2]
      BY <1>3, <1>5, <1>7
    <2> QED BY <1>6, <2>1, <2>2
  <1>10. /\ Get(w, "s0") = Get(x, "s0") /\ LoadStore(w).mode = LoadStore(x).mode
         /\ LoadStore(w).index = LoadStore(x).index /\ LoadStore(w).imm = LoadStore(x).imm
    BY <1>7, <1>9, SameAddress DEF A
  <1>11. Get(w, "d") = Get(x, "d")
    BY <1>8, SamePieces DEF d
  <1>12. ASSUME NEW v
         PROVE  LoadStore(v) = [case |-> LoadStoreTable[op(v) + 1], size |-> SizeTable[size(v) + 1],
                                d |-> Get(v, "d"), s0 |-> Get(v, "s0"),
                                mode |-> LoadStore(v).mode, index |-> LoadStore(v).index,
                                imm |-> LoadStore(v).imm]
    BY DEF LoadStore, op, size
  <1> QED BY <1>3, <1>4, <1>10, <1>11, <1>12
------------------------------------------------------------------------------
\* A line with a name is not that of a reserved operation.
LEMMA NamedOperations ==
    ASSUME NEW w, Begins(w) \notin Unnamed
    PROVE  /\ Get(w, "instr") = 14 => Get(w, "cpe_op") \in {0, 1}
           /\ Get(w, "instr") = 15 => Get(w, "sys_op") # 7
           /\ Get(w, "instr") = 16 => Get(w, "lsl_op") # 3
  <1> DEFINE b == Begins(w)
  <1>1. b # NoName
    BY Zenon DEF NoName, Unnamed
  <1>2. /\ Get(w, "instr") = 14 => b = Lookup(CopxMnemonic, Get(w, "cpe_op"))
        /\ Get(w, "instr") = 15 => b = Lookup(SysMnemonic, Get(w, "sys_op"))
        /\ Get(w, "instr") = 16 => b = Lookup(LslMnemonic, Get(w, "lsl_op"))
    BY Opening
  <1>3. Get(w, "cpe_op") \in RegisterNumber
    BY FieldTypes
  <1>4. \A k \in RegisterNumber : k \notin {0, 1} => k + 1 \notin DOMAIN CopxMnemonic
    BY DEF CopxMnemonic, RegisterNumber
  <1>5. 7 + 1 \notin DOMAIN SysMnemonic /\ 3 + 1 \notin DOMAIN LslMnemonic
    BY DEF SysMnemonic, LslMnemonic
  <1> HIDE DEF b
  <1> QED BY <1>1, <1>2, <1>3, <1>4, <1>5, Looked

\* Words printed alike decode alike.
LEMMA SameLine ==
    ASSUME NEW w, NEW x, Text(w) = Text(x), Begins(w) \notin Unnamed
    PROVE  Decoded(w) = Decoded(x)
  <1> DEFINE n == Get(w, "instr")  m == Get(x, "instr")
  <1> DEFINE b == Begins(w)
  <1>1. Begins(x) = b
    BY DEF Begins
  <1>2. /\ b \in {"nop", "b", "bl", "li", "s"} \cup AluNames \cup SysNames
                   \cup LslNames \cup CopxNames
        /\ b = "nop" => w = {} /\ x = {}
        /\ b \in AluNames => w # {} /\ n = 0 /\ x # {} /\ m = 0
        /\ b \in {"b", "bl"} => n \in DisBranchInstr /\ m \in DisBranchInstr
        /\ b \in CopxNames => n = 14 /\ m = 14
        /\ b \in SysNames => n = 15 /\ m = 15
        /\ b \in LslNames => n = 16 /\ m = 16
        /\ b = "li" => n = 17 /\ m = 17
        /\ b = "s" => n = 11 /\ m = 11
    BY <1>1, Kinds
  <1>3. CASE b = "nop"
    BY <1>2, <1>3
  <1>4. CASE b \in AluNames
    <2>1. DisAlu(w) = DisAlu(x)
      BY <1>2, <1>4, TextOf
    <2>2. AluTable[Get(w, "alu_op") + 1] = AluTable[Get(x, "alu_op") + 1]
      BY <1>1, <1>2, <1>4, Opening
    <2>3. AluInstruction(w) = AluInstruction(x)
      BY <2>1, <2>2, SameAlu
    <2> QED BY <1>2, <1>4, <2>3, DecodedOf
  <1>5. CASE b \in {"b", "bl"}
    <2>1. DisBranch(w, n) = DisBranch(x, m)
      BY <1>2, <1>5, TextOf
    <2>2. Branch(w, n) = Branch(x, m)
      BY <1>2, <1>5, <2>1, SameBranch
    <2> QED BY <1>2, <1>5, <2>2, DecodedOf
  <1>6. CASE b \in CopxNames
    <2>1. DisExchange(w) = DisExchange(x)
      BY <1>2, <1>6, TextOf
    <2>2. Exchange(w) = Exchange(x)
      BY <1>2, <1>6, <2>1, SameExchange, NamedOperations
    <2> QED BY <1>2, <1>6, <2>2, DecodedOf
  <1>7. CASE b \in SysNames
    <2>1. DisSystem(w) = DisSystem(x)
      BY <1>2, <1>7, TextOf
    <2>2. System(w) = System(x)
      BY <1>2, <1>7, <2>1, SameSystem, NamedOperations
    <2> QED BY <1>2, <1>7, <2>2, DecodedOf
  <1>8. CASE b \in LslNames
    <2>1. DisLoadStore(w) = DisLoadStore(x)
      BY <1>2, <1>8, TextOf
    <2>2. LoadStore(w) = LoadStore(x)
      BY <1>2, <1>8, <2>1, SameLoadStore, NamedOperations
    <2> QED BY <1>2, <1>8, <2>2, DecodedOf
  <1>9. CASE b = "li"
    <2>1. DisLoadImmediate(w) = DisLoadImmediate(x)
      BY <1>2, <1>9, TextOf
    <2> QED BY <1>2, <1>9, <2>1, SameLoadImmediate, DecodedOf
  <1>10. CASE b = "s"
    <2>1. DisSetCond(w) = DisSetCond(x)
      BY <1>2, <1>10, TextOf
    <2> QED BY <1>2, <1>10, <2>1, SameSetCond, DecodedOf
  <1> HIDE DEF b
  <1> QED BY <1>2, <1>3, <1>4, <1>5, <1>6, <1>7, <1>8, <1>9, <1>10

\* Two words printed as the same line, "nop" to "excep", do the same to the
\* processor: the decoder of disas.cpp, written a second time, loses no field
\* that hv2_execute goes by, whatever words the file holds.
THEOREM SameLineSame == SpecDis => SameLineSameInstruction
  <1>1. ASSUME Printed, Printed', IsNamed(text'), text' = text
        PROVE  Decoded(word') = Decoded(word)
    <2>1. Text(word') = Text(word) /\ Begins(word') \notin Unnamed
      BY <1>1 DEF Printed, IsNamed, Begins, Unnamed
    <2> QED BY <2>1, SameLine
  <1>2. Printed /\ Printed' =>
          [(IsNamed(text') /\ text' = text) => (Decoded(word') = Decoded(word))]_disVars
    BY <1>1
  <1> QED BY <1>2, AlwaysPrinted, PTL DEF SameLineSameInstruction
=============================================================================
