----------------------------- MODULE ByteMemory -----------------------------
(***************************************************************************)
(* What the guest may rely on of the memory map: a cell for each address   *)
(* some memory answers, of which a load returns what was last stored.      *)
(* Accesses that leave the memory they start in are left open.             *)
(***************************************************************************)
EXTENDS Integers

CONSTANTS
    Address,    \* the physical addresses
    ByteValues, \* number of values of a byte, 256 in the code
    ReadOnly    \* owners of cells that a store leaves alone

VARIABLES
    cells,      \* owner and content of each address, owner "none" without one
    access      \* the last access: what, where, how many bytes, which value

memoryVars == <<cells, access>>

\* A value starts with its least byte.
Weight[i \in 0 .. 3] == IF i = 0 THEN 1 ELSE ByteValues * Weight[i - 1]
ByteOf(v, i) == (v \div Weight[i]) % ByteValues

MemoryInit ==
    /\ cells = [a \in Address |-> [owner |-> "none", byte |-> 0]]
    /\ access = [op |-> "none", at |-> 0, bytes |-> 0, value |-> 0]

\* Memory is there from one moment on, with any contents.
Attach ==
    /\ \A a \in Address : cells[a].owner = "none"
    /\ UNCHANGED access

\* All n bytes from a on belong to one memory.
Whole(a, n) ==
    \A i \in 0 .. n - 1 :
        /\ a + i \in Address
        /\ cells[a + i].owner # "none"
        /\ cells[a + i].owner = cells[a].owner

Load ==
    /\ access'.op = "load"
    /\ UNCHANGED cells
    /\ Whole(access'.at, access'.bytes) =>
          \A i \in 0 .. access'.bytes - 1 :
              ByteOf(access'.value, i) = cells[access'.at + i].byte
    /\ cells[access'.at].owner = "none" => access'.value = 0

\* A store changes its own bytes, all of them, and nothing else.
Store ==
    LET a == access'.at
        owner == cells[a].owner
        own == {b \in a .. a + access'.bytes - 1 : b \in Address /\ cells[b].owner = owner}
    IN  /\ access'.op = "store"
        /\ cells' = IF owner \in ReadOnly \cup {"none"} THEN cells
                    ELSE [b \in Address |->
                             IF b \in own
                             THEN [owner |-> owner, byte |-> ByteOf(access'.value, b - a)]
                             ELSE cells[b]]

Forget == access'.op = "none" /\ UNCHANGED cells

MemoryNext == Load \/ Store \/ Forget \/ Attach

MemorySpec == MemoryInit /\ [][MemoryNext]_memoryVars
=============================================================================
