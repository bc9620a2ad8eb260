----------------------------- MODULE MCMachine -----------------------------
EXTENDS Machine

MCDevices == <<[start |-> 0, end |-> 12]>>

\* An assembler: value v in the field that starts at bit p.
Enc(v, p) == {p + i : i \in {j \in 0 .. 15 : (v \div 2 ^ j) % 2 = 1}}
Of(instr, d, s0, s1) == Enc(instr, 27) \cup Enc(d, 22) \cup Enc(s0, 17) \cup Enc(s1, 12)

AluR(op, d, s0, s1) == Of(0, d, s0, s1) \cup Enc(op, 2)
AluI(op, d, imm) == Of(0, d, 0, 0) \cup Enc(op, 2) \cup {0, 1} \cup Enc(imm, 6)
Bl(cond, d, s0, offset) == Of(2 * cond, d, s0, 0) \cup {0} \cup Enc(offset, 1)
Brr(cond, relative, s1) == Of(13, 0, 0, s1) \cup Enc(cond, 1) \cup relative
Mtcr(copn, r, d) == Of(14, d, 0, 0) \cup Enc(copn, 8) \cup Enc(r, 12)
Mfcr(copn, r, d) == Mtcr(copn, r, d) \cup {0}
Sys(op, c) == Enc(15, 27) \cup Enc(op, 24) \cup Enc(c, 0)
Fixed(op, size, d, s0, off) == Of(16, d, s0, 0) \cup Enc(op, 3) \cup Enc(size, 5) \cup {2} \cup Enc(off, 7)
Scaled(op, mode, d, s0, s1) == Of(16, d, s0, s1) \cup Enc(op, 3) \cup Enc(2, 5) \cup Enc(mode, 0) \cup {7}
Li(d, imm) == Of(17, d, 0, 0) \cup Enc(imm, 6)

\* One of each, with the program counter as an operand wherever that differs.
Transfers ==
    {AluR(0, 31, 1, 1), Bl(1, 0, 0, 65532), Bl(1, 0, 0, 65528), Brr(1, {}, 30),
     Mtcr(0, 3, 1), Mtcr(0, 4, 31), Mfcr(0, 4, 31), Mtcr(9, 0, 1), Sys(0, 1), Sys(7, 0),
     Fixed(0, 2, 31, 1, 0), Li(31, 4)}

Others ==
    {AluI(0, 1, 4), AluR(4, 3, 1, 0), AluR(3, 2, 1, 1), Fixed(0, 1, 3, 1, 7), Bl(2, 0, 0, 4), Bl(3, 1, 2, 65524),
     Brr(1, {0}, 1), Brr(0, {}, 1), Mtcr(0, 4, 1), Mtcr(0, 1, 1), Mfcr(0, 3, 3),
     Mfcr(4, 9, 31), Mtcr(0, 0, 0) \cup {1}, Enc(30, 27),
     Sys(1, 0), Sys(5, 0), Sys(5, 2), Sys(6, 0), Fixed(1, 0, 1, 0, 3),
     Fixed(2, 2, 31, 1, 0), Fixed(3, 2, 1, 1, 0), Scaled(2, 0, 3, 1, 2),
     Scaled(2, 3, 3, 1, 2), Li(1, 7), Of(19, 3, 0, 0), Of(11, 3, 1, 2) \cup Enc(3, 2),
     Of(11, 3, 1, 2), Enc(1, 27)}

Registers(a, b) == [n \in 0 .. 30 |-> CASE n = 1 -> a [] n = 2 -> b [] OTHER -> 0]

\* Two transfers of control and a call, each other instruction alone, and the
\* shifts of all numbers by all counts.
MCBoots ==
    [rom : {<<a, b, Bl(1, 0, 0, 65528)>> : a \in Transfers, b \in Transfers}
            \cup {<<a, {}, Bl(1, 0, 0, 65528)>> : a \in Others},
     regs : {Registers(8, 3)}]
    \cup [rom : {<<AluR(op, 3, 1, 2), Sys(5, 2), {}>> : op \in {11, 14, 15}},
          regs : {Registers(a, b) : a \in Word, b \in Word}]
    \cup [rom : {<<AluR(op, 3, 1, 2), Sys(5, 2), {}>> : op \in 0 .. 15},
          regs : {Registers(11, 6)}]
=============================================================================
