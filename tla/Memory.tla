------------------------------- MODULE Memory -------------------------------
(***************************************************************************)
(* The devices of the physical bus that hold bytes: RAM, BIOS ROM, BIOS    *)
(* RAM and the screen's memory (dev/ram.hpp, bios_rom.hpp, bios_ram.hpp,   *)
(* vga_textmode.hpp).  They read and write alike: always four bytes are    *)
(* read and what the size does not ask for is masked off.                  *)
(***************************************************************************)
EXTENDS CommandLine

CONSTANTS
    ByteValues,     \* number of values of a byte, 256 in the code
    RomBytes,       \* contents of the BIOS ROM's file
    Loads, Stores   \* accesses of the guest: address and size, value

VARIABLES
    bufs,       \* the buffer of each device
    access      \* the last access, for the properties

Size == {"BYTE", "SHORT", "LONG", "EXEC"}

ASSUME MemoryAssumption ==
    /\ ByteValues \in Nat /\ ByteValues > 1
    /\ RomBytes \in [0 .. RomSize - 1 -> 0 .. ByteValues - 1]
    /\ \A l \in Loads : l[1] \in Address /\ l[2] \in Size
    /\ \A s \in Stores : s[1] \in Address /\ s[2] \in Size /\ s[3] \in Nat

memVars == <<bufs, access>>

NoAccess == [op |-> "none", at |-> 0, bytes |-> 0, value |-> 0]

MemInit == bufs = <<>> /\ access = NoAccess

\* The buffers main creates: zeros, but for the contents of the ROM's file.
Buffers(devs) ==
    [d \in DOMAIN devs |->
        [i \in 0 .. devs[d].size - 1 |->
            IF devs[d].kind = "rom" /\ i \in DOMAIN RomBytes /\ BiosFile \in Files
            THEN RomBytes[i] ELSE 0]]

BytesOf == [BYTE |-> 1, SHORT |-> 2, LONG |-> 4, EXEC |-> 4]

\* What a byte counts for in its place, the least first.
Weight[i \in 0 .. 4] == IF i = 0 THEN 1 ELSE ByteValues * Weight[i - 1]

ByteAt(v, i) == (v \div Weight[i]) % ByteValues

\* What lies behind the end of a buffer is anybody's guess.
Contents(d, i) == IF i \in DOMAIN bufs[d] THEN {bufs[d][i]} ELSE {0, ByteValues - 1}

\* The 32 bits at index i.
Words32(d, i) ==
    {b[1] + Weight[1] * b[2] + Weight[2] * b[3] + Weight[3] * b[4] :
        b \in Contents(d, i) \X Contents(d, i + 1) \X Contents(d, i + 2) \X Contents(d, i + 3)}

\* v &= 0xffffffff >> (32 - bytes * 8)
Masked(v, size) == IF size = "EXEC" THEN v ELSE v % Weight[BytesOf[size]]

\* hv2_mmu_read without translation; the I/O ports are not memory.
Load(a, size) ==
    LET d == DeviceAt(devices, a)
    IN  /\ d # 0 => devices[d].kind # "io"
        /\ \E v \in IF d = 0 THEN {0} ELSE Words32(d, a - devices[d].start) :
              access' = [op |-> "load", at |-> a, bytes |-> BytesOf[size],
                         value |-> IF d = 0 THEN 0 ELSE Masked(v, size)]
        /\ UNCHANGED <<bufs, process>>

\* Mutant: a short is stored as a long.
WrittenWide(d, i, size, v) ==
    [j \in DOMAIN bufs[d] |->
        IF j - i \in 0 .. (IF size = "BYTE" THEN 0 ELSE 3) THEN ByteAt(v, j - i) ELSE bufs[d][j]]

Written(d, i, size, v) ==
    [j \in DOMAIN bufs[d] |->
        IF j - i \in 0 .. BytesOf[size] - 1 THEN ByteAt(v, j - i) ELSE bufs[d][j]]

\* hv2_mmu_write: a store that runs over the end of its buffer spoils the heap.
Store(a, size, v) ==
    LET d == DeviceAt(devices, a)
        i == IF d = 0 THEN 0 ELSE a - devices[d].start
        writes == d # 0 /\ devices[d].kind # "rom"
    IN  /\ d # 0 => devices[d].kind # "io"
        /\ bufs' = IF writes THEN [bufs EXCEPT ![d] = Written(d, i, size, v)] ELSE bufs
        /\ access' = [op |-> "store", at |-> a, bytes |-> BytesOf[size], value |-> v]
        /\ process' = IF writes /\ i + BytesOf[size] > devices[d].size
                      THEN "crashed" ELSE process
------------------------------------------------------------------------------
Cells ==
    [a \in Address |->
        LET d == DeviceAt(devices, a)
        IN  IF d = 0 THEN [owner |-> "none", byte |-> 0]
            ELSE [owner |-> devices[d].kind, byte |-> bufs[d][a - devices[d].start]]]

Abstract == INSTANCE ByteMemory WITH cells <- Cells, ReadOnly <- {"rom", "io"}

\* Loads and stores of every size, at any address of any of the devices, RAM
\* over other devices included, are those of plain memory: the four bytes that
\* every read takes do not show, except where the access itself runs over the
\* end of its device.
ImplementsByteMemory == Abstract!MemorySpec
=============================================================================
