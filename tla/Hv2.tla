-------------------------------- MODULE Hv2 --------------------------------
(***************************************************************************)
(* The state of the emulated processor, struct hv2_t (hv2/hv2.hpp), and    *)
(* the arithmetic of its 32-bit words.                                     *)
(*                                                                         *)
(* The general registers r[0..30] are data: their reads are arbitrary      *)
(* words wherever the model needs one, so the record keeps only r[31], the *)
(* program counter.  A pipeline slot keeps where its word was fetched from *)
(* and not the word: memory may hold anything, so the word is chosen when  *)
(* it is executed.                                                         *)
(***************************************************************************)
EXTENDS Integers

CONSTANTS
    W,          \* number of words a register can hold, 2^32 in the code
    NEntries    \* entries of one address map, 32 in the code

ASSUME WAssumption == W \in Nat /\ W >= 16 /\ W % 4 = 0
ASSUME NEntriesAssumption == NEntries \in Nat \ {0}

Word == 0 .. W - 1

\* Unsigned 32-bit addition and subtraction wrap around.
Plus(a, b) == (a + b) % W
Minus(a, b) == (a - b) % W

\* The address of the instruction after the one at a.
Succ(a) == Plus(a, 4)

PrivilegeLevel == 0 .. 3

\* The flag bits of cop4_ctrl.
CtrlFlag == {"ENABLE", "ENABLE_ON_TPL1", "DISABLE_ON_TPL0", "REMAP_ON_PLT",
             "RWALIGN_EXC"}

Attr == {"EXEC", "WRITE", "READ"}

MapEntry == [paddr : Word, vaddr : Word, size : Word, attr : SUBSET Attr]

Cause == {"RESET", "SYSCALL", "DEBUG", "SEXCEPT", "TPL", "ILLEGAL_INSTR",
          "INVALID_COPX", "MMU_NOMAP", "MMU_PROT_READ", "MMU_PROT_EXEC",
          "MMU_XALIGN", "MMU_RWALIGN", "KBC", "NONE"}

(***************************************************************************)
(* What a pipeline slot holds: the word fetched from virtual address `at'  *)
(* ("word"), the word a faulting fetch delivered all the same ("stray"),   *)
(* the 0 that a fetch from an address with no device returns ("zero"), or  *)
(* the 0 a reset or a flush left behind ("bubble").  The last two are the  *)
(* same word to the code, a nop.                                           *)
(***************************************************************************)
Slot == [kind : {"word", "stray", "zero", "bubble"}, at : Word]

At(a) == [kind |-> "word", at |-> a]
Stray == [kind |-> "stray", at |-> 0]
Zero == [kind |-> "zero", at |-> 0]
Bubble == [kind |-> "bubble", at |-> 0]

EmptyPipe == [i \in 0 .. 2 |-> Bubble]

Map == [0 .. NEntries - 1 -> MapEntry]

Processor ==
    [pc     : Word,                 \* r[31]
     pipe   : [0 .. 2 -> Slot],     \* pipeline[0] is the word fetched last
     pl     : PrivilegeLevel,
     xflush : BOOLEAN,              \* XFLUSH_ON_FT bit of cop0_cr0
     xpc    : Word,
     xcause : Cause,
     xhaddr : Word,
     ctrl   : SUBSET CtrlFlag,
     msel   : Word,
     cmap   : PrivilegeLevel,       \* cop4_i_cmap
     maps   : [PrivilegeLevel -> Map]]

\* hv2_reset clears the structure and records the cause; the XFLUSH_ON_FT
\* bit is what main sets right after it.
ResetProcessor ==
    [pc     |-> 0,
     pipe   |-> EmptyPipe,
     pl     |-> 0,
     xflush |-> TRUE,
     xpc    |-> 0,
     xcause |-> "RESET",
     xhaddr |-> 0,
     ctrl   |-> {},
     msel   |-> 0,
     cmap   |-> 0,
     maps   |-> [m \in PrivilegeLevel |->
                    [e \in 0 .. NEntries - 1 |->
                        [paddr |-> 0, vaddr |-> 0, size |-> 0, attr |-> {}]]]]
=============================================================================
