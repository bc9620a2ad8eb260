-------------------------------- MODULE Bios --------------------------------
(***************************************************************************)
(* The BIOS (bios/entry.s, bios.s, handler.s, pci.s, util.s, keyb.s and    *)
(* the lines of vga.s that move the cursor) from the reset to its end, on  *)
(* the memory, the PCI bus and the keyboard controller of the machine.     *)
(*                                                                         *)
(* Every access to a device is a step of its own: between two steps the    *)
(* emulator may deliver a key press, whose exception enters the dispatch   *)
(* of entry.s.  No path of the dispatch returns to what it interrupted.    *)
(*                                                                         *)
(* A text is the sequence of its lines, each by its length; of the screen  *)
(* only the cursor is kept.  The stack is left out: the entry sets it up   *)
(* anew and nothing returns across it.                                     *)
(***************************************************************************)
EXTENDS I8042, Pci

CONSTANTS
    AddressSpace,   \* 2^32 in the code
    RamBase,        \* RAM_BASE, and the base main attaches the RAM at
    RamSizes        \* the sizes the option --memory-size may give, in bytes

ASSUME MemoryAssumption ==
    /\ AddressSpace \in Nat \ {0} /\ AddressSpace % 4 = 0
    /\ RamBase \in 1 .. AddressSpace - 1 /\ RamBase % 4 = 0
    /\ RamSizes \subseteq 0 .. AddressSpace - 1

VARIABLES
    machine,    \* size of the RAM; whether the ROM word that ends a scroll is 0
    pc,         \* the next access or text
    text,       \* what is still to print before it
    column, line,   \* VGA_VT_X, VGA_VT_Y
    cause,      \* cop0_xcause
    xpc,        \* cop0_xpc
    probing,    \* BIOS_MEM_SIZE_DISCOVERY is not 0
    memSize,    \* BIOS_MEM_SIZE
    a0,         \* bytes found so far
    slot,       \* x1 in the enumeration
    pciAddr,    \* the bus's address register
    listed,     \* history: the devices named on the screen
    x10         \* the byte the keyboard driver read in, or kept on the stack

cursor == <<column, line>>
memoryVars == <<probing, memSize, a0>>
pciVars == <<slot, pciAddr, listed>>
screenVars == <<text, cursor>>
biosVars == <<kbcVars, machine, pc, screenVars, cause, xpc, memoryVars, pciVars, x10>>

Width == 80         \* VGA_BUFFER_WIDTH
LastLine == 24      \* VGA_BUFFER_LAST_LINE

KeyboardSteps == {"disableFirst", "disableSecond", "askConfig", "readConfig",
                  "beginWrite", "writeConfig", "selfTest", "readTest"}

\* The dispatch, the handlers, their final loop, and the scroll that hangs.
Handling == {"dispatch", "nomap", "unknown", "syscall", "handle01", "locked", "scroll"}

Location == KeyboardSteps \cup Handling \cup
    {"boot", "detect", "probe", "sized", "store", "nextSlot", "selectIdent", "readIdent",
     "selectClass", "readClass", "leave"}

Names == {"msd", "class"}   \* the two tables of device names

\* The registers and memory cells of the boot hold what they may hold; the
\* cursor stays on the screen.
BiosTypeOK ==
    /\ TypeOK
    /\ machine \in [ram : RamSizes, romZero : BOOLEAN]
    /\ pc \in Location /\ xpc \in Location
    /\ text \in Seq(Nat)
    /\ column \in 0 .. Width /\ line \in 0 .. LastLine
    /\ cause \in {"RESET", "MMU_NOMAP", "KBC"}
    /\ probing \in BOOLEAN
    /\ memSize \in Nat /\ a0 \in 0 .. AddressSpace - 1
    /\ slot \in 0 .. 32 /\ pciAddr \in Nat
    /\ listed \subseteq Slots \X Names \X Nat
    /\ x10 \in Byte

\* main, hv2_reset and the zeroed memory of the devices.
InitBios ==
    /\ Init
    /\ machine \in [ram : RamSizes, romZero : BOOLEAN]
    /\ pc = "dispatch" /\ xpc = "dispatch" /\ cause = "RESET"
    /\ text = <<>> /\ column = 0 /\ line = 0
    /\ probing = FALSE /\ memSize = 0 /\ a0 = 0
    /\ slot = 0 /\ pciAddr = 0 /\ listed = {}
    /\ x10 = {}
------------------------------------------------------------------------------
(***************************************************************************)
(* The console.                                                            *)
(***************************************************************************)
\* The texts of data.inc, by the lengths of their lines.
WELCOME_MSG == <<22, 0, 26, 74, 75, 0, 30>>     \* as far as BIOS_MEMORY_SIZE_MSG
PCI_ENUMERATE_MSG == <<0, 12, 0>>
TAB == <<4>>
DEVICE_LINE == <<48, 0>>        \* name, colon, BIOS_PCI_AT_BUS_MSG, slot
KEYB_INIT_MSG == <<0, 36>>
KEYB_CHANNEL_MSG == <<14, 0>>
MMU_NOMAP_MSG == <<0, 73>>
UNKNOWN_EXC_MSG == <<0, 44>>
UNHANDLED_SYSCALL_MSG == <<0, 33>>

\* get_integer_len: hexadecimal digits, one at least.
IntegerLength(n) == CHOOSE d \in 1 .. 8 : n < 16 ^ d /\ (d = 1 \/ n >= 16 ^ (d - 1))

\* vga_vt_newline.  On the last line it calls vga_vt_scroll, whose loop tests
\* x11; the first copy loads x11 from the ROM and later ones copy nothing, so
\* the loop ends at once, with nothing scrolled, or never.
Newline(rest) ==
    /\ column' = 0
    /\ \/ /\ line < LastLine
          /\ line' = line + 1 /\ text' = rest
          /\ UNCHANGED pc
       \/ /\ line = LastLine /\ machine.romZero
          /\ text' = rest
          /\ UNCHANGED <<line, pc>>
       \/ /\ line = LastLine /\ ~machine.romZero
          /\ text' = <<>> /\ pc' = "scroll"
          /\ UNCHANGED line

\* vga_vt_putchar for the characters of a line: as many as fit, and a newline
\* before the next one if that is all the screen has room for.
Characters ==
    LET n == IF column + text[1] <= Width THEN text[1] ELSE Width - column
    IN  IF n = 0 THEN Newline(text)
        ELSE /\ column' = column + n
             /\ text' = [text EXCEPT ![1] = text[1] - n]
             /\ UNCHANGED <<line, pc>>

\* vga_print.  A text with nothing left of its last line is out.
PrintLine ==
    /\ text # <<>>
    /\ IF text[1] > 0 THEN Characters
       ELSE IF Len(text) > 1 THEN Newline(Tail(text))
       ELSE text' = <<>> /\ UNCHANGED <<cursor, pc>>
    /\ UNCHANGED <<kbcVars, machine, cause, xpc, memoryVars, pciVars, x10>>

\* The step at here, once the text before it is out; it prints msg on the way
\* to there.
Step(here, there, msg) ==
    /\ pc = here /\ text = <<>>
    /\ pc' = there /\ text' = msg
    /\ UNCHANGED machine
------------------------------------------------------------------------------
(***************************************************************************)
(* Exceptions.                                                             *)
(***************************************************************************)
Raise(c) ==
    /\ cause' = c
    /\ xpc' = pc
    /\ pc' = "dispatch" /\ text' = <<>>

\* The external causes: entry.s shifts the cause right by 22, gives up on 0,
\* shifts by 2 more and takes 1 for the keyboard.
CauseKbc == 832     \* 0xd0000000 >> 22

External(shifted) ==
    IF shifted # 0 /\ shifted \div 4 = 1 THEN "handle01" ELSE "unknown"

Handler(c) ==
    CASE c = "RESET" -> "boot"
      [] c = "MMU_NOMAP" -> "nomap"
      [] c = "SYSCALL" -> "syscall"
      [] c = "KBC" -> External(CauseKbc)

\* BIOS_ENTRY: the comparisons use x1, and the messages a0.
Dispatch ==
    /\ Step("dispatch", Handler(cause), <<>>)
    /\ slot' = 0
    /\ a0' = IF pc' = "nomap" THEN a0 ELSE 0
    /\ UNCHANGED <<kbcVars, cursor, cause, xpc, probing, memSize, pciAddr, listed, x10>>

\* bios_mmu_nomap_handler: while the memory is probed its end has been found.
NoMap ==
    /\ Step("nomap", IF probing THEN "sized" ELSE "locked",
            IF probing THEN <<>> ELSE MMU_NOMAP_MSG)
    /\ UNCHANGED <<kbcVars, cursor, cause, xpc, memoryVars, pciVars, x10>>

\* The other handlers print their message and lock up.
Report ==
    /\ pc \in {"unknown", "syscall", "handle01"}
    /\ Step(pc, "locked", CASE pc = "unknown" -> UNKNOWN_EXC_MSG
                           [] pc = "syscall" -> UNHANDLED_SYSCALL_MSG
                           [] pc = "handle01" -> <<>>)
    /\ UNCHANGED <<kbcVars, cursor, cause, xpc, memoryVars, pciVars, x10>>
------------------------------------------------------------------------------
(***************************************************************************)
(* Memory detection.                                                       *)
(***************************************************************************)
\* bios_boot: clear the screen and print the welcome.
Welcome ==
    /\ Step("boot", "detect", WELCOME_MSG)
    /\ column' = 0 /\ line' = 0
    /\ UNCHANGED <<kbcVars, cause, xpc, memoryVars, pciVars, x10>>

BeginDetection ==
    /\ Step("detect", "probe", <<>>)
    /\ probing' = TRUE /\ a0' = 0
    /\ UNCHANGED <<kbcVars, cursor, cause, xpc, memSize, pciVars, x10>>

\* Only the RAM lies at or above RamBase.  Its end is computed in a word.
InRam(addr) == addr >= RamBase /\ addr < (RamBase + machine.ram) % AddressSpace

\* One turn of the loop: a load beyond the RAM raises the exception that ends it.
Probe ==
    /\ pc = "probe" /\ text = <<>>
    /\ IF InRam((RamBase + a0) % AddressSpace)
       THEN a0' = a0 + 4 /\ UNCHANGED <<pc, text, cause, xpc>>
       ELSE Raise("MMU_NOMAP") /\ UNCHANGED a0
    /\ UNCHANGED <<kbcVars, machine, cursor, probing, memSize, pciVars, x10>>

\* Mutant: the digits do not move up.
BinToBcdUnshifted(num) ==
    LET after[n \in 0 .. 8] ==
            IF n = 0 THEN [num |-> num, bcd |-> 0]
            ELSE [num |-> after[n - 1].num \div 10,
                  bcd |-> after[n - 1].bcd + (after[n - 1].num % 10)]
    IN  after[8].bcd

\* bios_bin_to_bcd: eight turns, each taking one decimal digit.
BinToBcd(num) ==
    LET after[n \in 0 .. 8] ==
            IF n = 0 THEN [num |-> num, bcd |-> 0, count |-> 0]
            ELSE LET s == after[n - 1]
                 IN  [num |-> s.num \div 10,
                      bcd |-> s.bcd + (s.num % 10) * 2 ^ s.count,
                      count |-> s.count + 4]
    IN  after[8].bcd

\* Mutant: the flag is not cleared.
SizedStillProbing ==
    /\ Step("sized", "store", <<IntegerLength(BinToBcd(a0 \div 1024)) + 1, 0>>)
    /\ UNCHANGED <<kbcVars, cursor, cause, xpc, memoryVars, pciVars, x10>>

\* bios_detect_available_memory_done
Sized ==
    /\ Step("sized", "store", <<IntegerLength(BinToBcd(a0 \div 1024)) + 1, 0>>)
    /\ probing' = FALSE
    /\ UNCHANGED <<kbcVars, cursor, cause, xpc, memSize, a0, pciVars, x10>>

\* The size is printed and kept in binary coded decimal, in KiB; the loop over
\* the slots of the PCI bus begins.
StoreSize ==
    /\ Step("store", "nextSlot", PCI_ENUMERATE_MSG)
    /\ memSize' = BinToBcd(a0 \div 1024)
    /\ slot' = 32
    /\ UNCHANGED <<kbcVars, cursor, cause, xpc, probing, a0, pciAddr, listed, x10>>
------------------------------------------------------------------------------
(***************************************************************************)
(* PCI enumeration.                                                        *)
(***************************************************************************)
\* Mutant: the loop ends when the decremented slot is 0.
NextSlotEarly ==
    /\ Step("nextSlot", IF slot <= 1 THEN "disableFirst" ELSE "selectIdent",
            IF slot <= 1 THEN KEYB_INIT_MSG ELSE <<>>)
    /\ slot' = IF slot <= 1 THEN 0 ELSE slot - 1
    /\ UNCHANGED <<kbcVars, cursor, cause, xpc, memoryVars, pciAddr, listed, x10>>

\* The head of the loop; behind it the keyboard driver prints its message.
NextSlot ==
    /\ Step("nextSlot", IF slot = 0 THEN "disableFirst" ELSE "selectIdent",
            IF slot = 0 THEN KEYB_INIT_MSG ELSE <<>>)
    /\ slot' = IF slot = 0 THEN 0 ELSE slot - 1
    /\ UNCHANGED <<kbcVars, cursor, cause, xpc, memoryVars, pciAddr, listed, x10>>

\* pci_read_cfg_register, first half: the address goes out.
Select(here, reg, there) ==
    /\ Step(here, there, <<>>)
    /\ pciAddr' = IF PortOwner(CFG_ADDR) = "pci" THEN ConfigAddress(0, slot, reg) ELSE pciAddr
    /\ UNCHANGED <<kbcVars, cursor, cause, xpc, memoryVars, slot, listed, x10>>

\* Its second half: the word comes in.
Incoming == IF PortOwner(CFG_DATA) = "pci" THEN ConfigData(pciAddr) ELSE AllOnes

\* Mutant: every slot is taken for a device.
ReadIdentAny ==
    /\ Step("readIdent", "selectClass", TAB)
    /\ UNCHANGED <<kbcVars, cursor, cause, xpc, memoryVars, pciVars, x10>>

ReadIdent ==
    /\ Step("readIdent", IF Incoming = AllOnes THEN "nextSlot" ELSE "selectClass",
            IF Incoming = AllOnes THEN <<>> ELSE TAB)
    /\ UNCHANGED <<kbcVars, cursor, cause, xpc, memoryVars, pciVars, x10>>

\* The name printed: entry class of the table of classes, or of the table of
\* storage devices for class 1.  The subclass is shifted out into at, which
\* the table is not indexed with.
ReadClass ==
    /\ Step("readClass", "nextSlot", DEVICE_LINE)
    /\ LET class == Incoming[1] \div 256
       IN  listed' = listed \cup {<<slot, IF class = 1 THEN "msd" ELSE "class", class>>}
    /\ UNCHANGED <<kbcVars, cursor, cause, xpc, memoryVars, slot, pciAddr, x10>>
------------------------------------------------------------------------------
(***************************************************************************)
(* The keyboard driver, bios_8042_init.                                    *)
(***************************************************************************)
\* Mutant: wait for the output buffer to be empty before each command.
SendCommandPolling(here, c, there) ==
    /\ text = <<>> /\ text' = <<>>
    /\ pc = here
    /\ IF "OUT_FULL" \in stat THEN ReadStatus /\ UNCHANGED pc
       ELSE WriteCommand(c) /\ pc' = there
    /\ UNCHANGED <<machine, cursor, cause, xpc, memoryVars, pciVars, x10>>

\* bios_8042_send_command
SendCommand(here, c, there) ==
    /\ Step(here, there, <<>>)
    /\ WriteCommand(c)
    /\ UNCHANGED <<cursor, cause, xpc, memoryVars, pciVars, x10>>

\* A read of the data port; after the first one a message and a newline follow.
ReadPort(here, there, msg) ==
    /\ Step(here, there, msg)
    /\ ReadData
    /\ x10' = out
    /\ UNCHANGED <<cursor, cause, xpc, memoryVars, pciVars>>

\* Mutants: the mask is or-ed in; the mask leaves bit 0 alone.
IrqAndTranslationOr(b) == b \cup {2, 3, 4, 5, 7}
TranslationOff(b) == b \ {6}

\* and.u x10, 0b10111100
IrqAndTranslationOff(b) == b \cap {2, 3, 4, 5, 7}

WriteBack ==
    /\ Step("writeConfig", "selfTest", <<>>)
    /\ WriteData(IrqAndTranslationOff(x10))
    /\ UNCHANGED <<cursor, cause, xpc, memoryVars, pciVars, x10>>

\* call 0xdeadc0de: the fetch there is misaligned and unmapped; the second of
\* its exceptions is the one that stays.
Leave ==
    /\ pc = "leave" /\ text = <<>>
    /\ Raise("MMU_NOMAP")
    /\ UNCHANGED <<kbcVars, machine, cursor, memoryVars, pciVars, x10>>

KeyboardDriver ==
    \/ SendCommand("disableFirst", "FPDI", "disableSecond")
    \/ SendCommand("disableSecond", "SPDI", "askConfig")
    \/ SendCommand("askConfig", "RRAM0", "readConfig")
    \/ ReadPort("readConfig", "beginWrite", KEYB_CHANNEL_MSG)
    \/ SendCommand("beginWrite", "WRAM0", "writeConfig")
    \/ WriteBack
    \/ SendCommand("selfTest", "CNTEST", "readTest")
    \/ ReadPort("readTest", "leave", <<>>)
    \/ Leave
------------------------------------------------------------------------------
\* Everything the guest does by itself.  A locked or hung BIOS loops in place.
Guest ==
    \/ PrintLine
    \/ Dispatch \/ NoMap \/ Report
    \/ Welcome \/ BeginDetection \/ Probe \/ Sized \/ StoreSize
    \/ NextSlot
    \/ Select("selectIdent", 0, "readIdent") \/ ReadIdent
    \/ Select("selectClass", 8, "readClass") \/ ReadClass
    \/ KeyboardDriver

\* global_keydown, called between two cycles.
KeyPress ==
    /\ \E k \in Sent : KeyDown(k)
    /\ IF raised' = "KBC" THEN Raise("KBC") ELSE UNCHANGED <<cause, xpc, pc, text>>
    /\ UNCHANGED <<machine, cursor, memoryVars, pciVars, x10>>

NextBios == Guest \/ KeyPress

\* The main loop calls hv2_cycle on every turn, so a guest that has something
\* to execute executes it.  Nothing is assumed about keys.
Fairness == WF_biosVars(Guest)

SpecBios == InitBios /\ [][NextBios]_biosVars /\ Fairness
------------------------------------------------------------------------------
\* The handler of unmapped accesses goes by a flag in memory and looks neither
\* at where the fault came from nor at how often one came.  What it takes for
\* the end of the memory is the fault of the probing loop, whatever key presses
\* and faults come before or after.
EndFoundByProbe == pc = "sized" => xpc = "probe" /\ cause = "MMU_NOMAP"

\* Once the detection is over the size kept is that of the RAM in KiB, its
\* decimal digits read as hexadecimal.  The loop counts a word that is there in
\* part; a RAM that reaches the top of the address space or would go past it,
\* whose end wraps around below its start (ram.hpp), counts as none.
MemorySized ==
    pc \notin Handling \cup {"boot", "detect", "probe", "sized", "store"} =>
        LET bytes == IF RamBase + machine.ram >= AddressSpace THEN 0
                     ELSE 4 * ((machine.ram + 3) \div 4)
        IN  \A d \in 0 .. 6 :
                (memSize \div 16 ^ d) % 16 = ((bytes \div 1024) \div 10 ^ d) % 10

\* When the keyboard driver starts, exactly the registered devices have been
\* listed, each under its class, storage devices under their subclass.
DevicesListed ==
    pc \in KeyboardSteps =>
        listed = {LET d == DescriptorAt(s)
                  IN  IF d.class = 1 THEN <<s, "msd", d.subclass>> ELSE <<s, "class", d.class>> :
                     s \in Registered}

\* The boot's own output fits the screen, in both directions: no line of it
\* is broken, and the scroll, which may hang, is reached through repeated
\* exceptions only.
BootFitsScreen ==
    (pc \notin Handling /\ text # <<>>) =>
        column + text[1] <= Width /\ line + Len(text) - 1 < LastLine

\* Whatever keys are pressed meanwhile, a driver that got past its write-back
\* has left the configuration it found, less the interrupt: no scan code was
\* taken for the configuration byte.
ConfigurationKept ==
    pc \in {"selfTest", "readTest", "leave"} => cfg = {FPCLK, SPCLK}

\* From the write-back on, a key press raises no exception any more.
QuietAfterWriteBack ==
    [][ (pc \in {"selfTest", "readTest", "leave"}) => (raised' # "KBC") ]_biosVars

\* The boot comes to an end in the exception handling, whether it ran through
\* or a key press cut it short; it never waits for a status bit.
BootSettles == <>[](pc \in Handling)
------------------------------------------------------------------------------
(***************************************************************************)
(* What a comment of the BIOS says and the machine does not do.            *)
(***************************************************************************)
\* bios/entry.s:27, "Keyboard (i8042) IRQ": a key press is not an unknown
\* exception.
KeyboardIrqRecognised == pc = "unknown" => cause # "KBC"
=============================================================================
