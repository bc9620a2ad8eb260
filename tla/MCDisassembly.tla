--------------------------- MODULE MCDisassembly ---------------------------
EXTENDS Disassembly

\* Every instruction number with at most one more bit set; the ALU's immediate
\* forms and the fixed and sized loads and stores with one more again.
Number32 == {{i \in 27 .. 31 : (n \div 2 ^ (i - 27)) % 2 = 1} : n \in 0 .. 31}
AtMostOne == {{}} \cup {{i} : i \in 0 .. 26}
AluModes == {{1}, {0, 1}}
LslModes == {{31} \cup m : m \in {{0}, {2}, {1, 2}, {3}, {4}}}

MCWords ==
    {n \cup b : n \in Number32, b \in AtMostOne}
    \cup {m \cup b : m \in AluModes \cup LslModes, b \in AtMostOne}
    \cup {{27, 29, 30, 1, 2}, {27, 29, 30, 2}, {27, 29, 30, 2, 3}}
=============================================================================
