-------------------------------- MODULE Alu --------------------------------
(***************************************************************************)
(* The data paths of hv2/hv2.cpp: the sixteen ALU operations, the six      *)
(* conditions, sign extension and the address modes of loads and stores.   *)
(*                                                                         *)
(* A word is a number below W; where the code works on its bits the model  *)
(* does so too, on the set of the bits that are 1.                         *)
(***************************************************************************)
EXTENDS Hv2, FiniteSetsExt

CONSTANTS
    WordBits,   \* bits of a register, 32 in the code
    HalfBits,   \* ... of an immediate and of what sx.s extends, 16
    ByteBits    \* ... of what sx.b extends, 8

\* What bit i of a word counts for.
Weight[i \in Nat] == IF i = 0 THEN 1 ELSE 2 * Weight[i - 1]

ASSUME BitsAssumption ==
    /\ {WordBits, HalfBits, ByteBits} \subseteq Nat \ {0}
    /\ ByteBits <= HalfBits /\ HalfBits < WordBits
    /\ W = Weight[WordBits]

BitNumber == 0 .. WordBits - 1

BitsOf(v) == {i \in BitNumber : (v \div Weight[i]) % 2 = 1}
Number(bits) == MapThenSumSet(LAMBDA i : Weight[i], bits)
Complement(bits) == BitNumber \ bits

IsNegative(v) == v >= W \div 2
------------------------------------------------------------------------------
(***************************************************************************)
(* The code shifts by any register value.  Both builds leave that to the   *)
(* x86 shift, which takes the count modulo the width; the rotations rely   *)
(* on it when they shift by the full width.                                *)
(***************************************************************************)
ShiftLeft(v, s) == Number({i \in BitNumber : i - (s % WordBits) \in BitsOf(v)})
ShiftRight(v, s) == v \div Weight[s % WordBits]

\* Mutant: the sign is not filled in.
AsrUnsigned(v, s) == ShiftRight(v, s)

Asr(v, s) ==
    IF IsNegative(v)
    THEN Number(BitsOf(ShiftRight(v, s)) \cup Complement(BitsOf(ShiftRight(W - 1, s))))
    ELSE ShiftRight(v, s)

\* Mutant: the bits that leave at the top are not brought in at the bottom.
RolLossy(v, r) == ShiftLeft(v, r)

Rol(v, r) ==
    LET n == r % WordBits
    IN  Number(BitsOf(ShiftLeft(v, n)) \cup BitsOf(ShiftRight(v, WordBits - n)))

Ror(v, r) ==
    LET n == r % WordBits
    IN  Number(BitsOf(ShiftRight(v, n)) \cup BitsOf(ShiftLeft(v, WordBits - n)))

\* The low n bits of v, bit n - 1 copied into all the others.
SignExtend(v, n) ==
    LET low == v % Weight[n]
    IN  IF low >= Weight[n - 1] THEN W - Weight[n] + low ELSE low
------------------------------------------------------------------------------
AluTable == <<"add", "sub", "mul", "mla", "div", "mod", "and", "or",
              "xor", "lsl", "lsr", "asr", "sx.b", "sx.s", "rol", "ror">>

\* div and mod by 0 end the emulator.
DividesByZero(op, s1) == op \in {"div", "mod"} /\ s1 = 0

\* What the operation stores, given what the destination held.
AluResult(op, d, s0, s1) ==
    CASE op = "add"  -> Plus(s0, s1)
      [] op = "sub"  -> Minus(s0, s1)
      [] op = "mul"  -> (s0 * s1) % W
      [] op = "mla"  -> Plus(d, s0 * s1)
      [] op = "div"  -> s0 \div s1
      [] op = "mod"  -> s0 % s1
      [] op = "and"  -> Number(BitsOf(s0) \cap BitsOf(s1))
      [] op = "or"   -> Number(BitsOf(s0) \cup BitsOf(s1))
      [] op = "xor"  -> Number(SymDiff(BitsOf(s0), BitsOf(s1)))
      [] op = "lsl"  -> ShiftLeft(s0, s1)
      [] op = "lsr"  -> ShiftRight(s0, s1)
      [] op = "asr"  -> Asr(s0, s1)
      [] op = "sx.b" -> SignExtend(s0, ByteBits)
      [] op = "sx.s" -> SignExtend(s0, HalfBits)
      [] op = "rol"  -> Rol(s0, s1)
      [] op = "ror"  -> Ror(s0, s1)

CondTable == <<"eq", "ne", "gt", "ge", "lt", "le">>

\* The comparisons are unsigned.
Holds(cond, a, b) ==
    CASE cond = "eq" -> a = b
      [] cond = "ne" -> a # b
      [] cond = "gt" -> a > b
      [] cond = "ge" -> a >= b
      [] cond = "lt" -> a < b
      [] cond = "le" -> a <= b

\* The address of a load, a store or a lea: mode 0 to 3 with an index register
\* scaled or shifted, the others with an immediate already put together.
Address(mode, base, index, imm) ==
    LET offset == CASE mode \in {0, 1} -> (index * imm) % W
                    [] mode \in {2, 3} -> ShiftLeft(index, imm)
                    [] OTHER -> imm % W
    IN  IF mode % 2 = 0 THEN Plus(base, offset) ELSE Minus(base, offset)
=============================================================================
