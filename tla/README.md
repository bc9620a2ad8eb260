# A TLA+ model of the HyperVelocity 2 emulator

hv2 is an emulator of an invented 32-bit processor: a three-slot pipeline, four
privilege levels, an MMU with one address map per level, memory-mapped devices
behind an I/O controller, a BIOS in assembly, and a main loop that runs one
processor cycle per turn and now and then draws the screen. This directory
models the processor down to the bits of its instructions, its devices, its BIOS, the
command line and the main loop, checks them with TLC and proves the central properties
with TLAPS. Paths are relative to `src/` of the repository.

## 1. Inventory

| Component | State | Operations | Made correct by |
|---|---|---|---|
| Processor core, `hv2/hv2.cpp` | `r[32]` (31 is the pc), `pipeline[3]`, `pl` | `hv2_cycle` = shift, fetch, pc += 4, `hv2_execute`; `hv2_reset` | program order is kept by the pipeline; every write of the pc flushes |
| Exceptions, privilege: `hv2/exception.cpp`, `hv2/privilege.cpp` | `xpc`, `xcause`, `xhaddr`, `pl`, bits of `cop4_ctrl`, `cop4_i_cmap` | `hv2_exception`, `hv2_privilege_up`, `_down` | translation and map follow the level; a return restores what the call left |
| MMU and bus, `hv2/mmu.cpp` | `mmu_maps[4][32]`, `cop4_ctrl`, `mmu_devices` | `read`, `write` = translate, check, align, find the device | no access that an entry did not grant |
| Coprocessor registers, `hv2_get_cop_register`, `cpe_mtcr`, `cpe_mfcr` | the registers above through a window | move to, move from | the window stays inside the maps; levels respected |
| i8042 keyboard controller, `dev/i8042.hpp` | configuration byte, one-byte buffers, status, last command | port reads and writes, `keydown` | no byte delivered twice or to the wrong register |
| BIOS, `bios/*.s` | a few registers, the probing flag, the memory size, the cursor | exception dispatch, memory detection by fault, PCI enumeration, console, keyboard driver | the boot ends whatever interrupts it, and finds the memory and the devices there are |
| I/O controller and PCI bus: `dev/io.hpp`, `dev/pci.hpp` | port lists, configuration address, descriptors | port dispatch, configuration cycles | a cycle reaches the device its address names |
| Decoding, ALU: `hv2/hv2.cpp` | the general registers | 16 operations, 6 conditions, 8 addressing modes | every word does one of the core's steps; shifts and rotations are right at every count |
| Disassembler: `hv2/disas.cpp` | address of the line | a word to a line | lines tell apart what the core tells apart |
| ATA: `dev/ata.hpp`, `dev/block.hpp` | drive registers and buffer, open images | IDENTIFY and PIO | a sector is read to its end and no further |
| RAM, BIOS ROM and RAM, screen memory: `dev/*.hpp` | bytes, base, size | range, read, write | together they are one memory; no address is outside its buffer |
| Clock, main loop: `hv2/clock.cpp`, `frontend/main.cpp` | elapsed cycles | one cycle per turn, refresh | the screen is refreshed for ever, at a rate that is known |
| VGA text, window: `dev/vga_textmode.hpp`, `frontend/screen.hpp` | pixels, event queue | rendering, polling | the window shows the memory; closing it ends the emulator; keys reach the guest |
| Command line: `frontend/cli.hpp`, `frontend/main.cpp` | switches, settings | parsing; what is attached in which order | no size of RAM hides a device |
| Debugger, logging, ELF loading | | | not modelled (section 7) |

How they interact: everything runs in one thread. The loop calls `hv2_cycle`;
an access inside it calls a device, which may call back `hv2_exception` (the
keyboard controller's reset command); between two cycles the screen's event
handler may call `keydown`, which may call `hv2_exception` too. The guest
software and the host user are therefore two processes that interleave at the
granularity of a cycle, and exceptions arise at three places: in the fetch, in
the execution, and between two cycles.

What is hard: an exception in the middle of a cycle whose remaining statements
still run; exceptions that saturate at level 0 while returns do not; several
exceptions in one access; a fetch that fails and delivers a word; a pointer to a
dead stack frame; map entries that take four instructions to write; a one-byte
buffer that two parties fill; a second decoder written by hand; ranges that wrap around
and lie over each other; a float as a counter. PROJECT.json lists each hazard at its line.

## 2. Modules

| Module | Models | Extends |
|---|---|---|
| `Hv2` | `struct hv2_t`, words, the pipeline's slots, reset | |
| `Exception` | `hv2_privilege_up/_down`, `hv2_flush`, `hv2_exception`, as operators from state to state | `Hv2` |
| `Mmu` | `hv2/mmu.cpp`: an access as a set of results, each with the processor state after the exceptions it raised | `Exception` |
| `Cpu` | `hv2_cycle` and every case of `hv2_execute`; the key press between two cycles | `Mmu` |
| `Isa` | abstract: the program order a programmer sees, no pipeline | `Hv2` |
| `CpuIsa` | the refinement mapping from `Cpu` to `Isa` | `Cpu`, instance of `Isa` |
| `SyscallReturn` | `Cpu` restricted to calls, returns, coprocessor writes and key presses, no fetch of which raises an exception, with the history of what was interrupted | `Cpu` |
| `Alu` | operations, conditions and addressing on words, numbers of which the bits matter | `Hv2` |
| `Decode` | the field extractors and cases of `hv2_execute`: from a word, a set of bits, to what is done with it | `Alu` |
| `Machine` | the processor with its registers, running the words of a ROM | `Decode`, `Cpu` |
| `Disassembly` | `hv2d_disassemble`, with its own extractors and tables | `Decode` |
| `ByteMemory` | abstract: one array of bytes, each with an owner | |
| `CommandLine` | `parser_t`, number conversion, the devices `main` attaches | |
| `Memory` | the buffers behind the bus and their four-byte reads; the mapping to `ByteMemory` | `CommandLine` |
| `Board` | the main loop: cycle, clock, rendering, window, events | `Memory` |
| `Ata` | the ATA controller and the block devices of its drives | |
| `I8042` | the keyboard controller | |
| `Pci` | the I/O controller's dispatch, the PCI configuration registers, what `main` registers | |
| `Bios` | the whole BIOS on the memory, the PCI bus and the controller, with key presses | `I8042`, `Pci` |
| `CpuProofs`, `SyscallReturnProofs`, `DecodeProofs`, `MachineProofs`, `DisassemblyProofs`, `BiosProofs`, `AtaProofs`, `BoardProofs` | theorems; `DecodeProofs` has the lemmas about `Alu` and `Decode` | the module they are about, `TLAPS` |
| `MC*` | constants for TLC | |

**State.** `cpu` is the record of `hv2_t` without the data registers: what a
register holds is chosen from `Data` where an instruction reads one. A pipeline
slot keeps the address its word came from, not the word, and the word is chosen
when it is executed: memory may hold any program, and a program may rewrite
itself. The price is that the model cannot speak of one given program; what it
says, it says of all of them. `host` says whether an instruction ended the
emulator (a division by zero, the debug exit, a table indexed out of bounds).
`bus` records the device accesses of the last step for `GrantedByMap` and `FailuresConfined`.

**Actions.** `Cycle` picks a state that shift, fetch and pc += 4 may lead to
(`Fetched`) and executes one instruction in it: one action per case of the
switch of `hv2_execute`. A bubble (a word of a reset or flushed pipeline, or the 0 of a
fetch no device answered) is the code's `0`, an addition into `r0`, and only
`Nop` executes it. `Interrupt` is a key press with the keyboard's interrupt on.

**Undefined behaviour.** `hv2_mmu_search_map` returns a pointer into a local
array. The constants `Builds` and `Clobbered` give the outcomes of the two
builds the repository has: without optimisation the copy survives until the
next call, and the exception raised for a missing EXEC permission overwrites
its last entries; with -O3 the compiler returns null and every translated
access misses. Writes past `mmu_maps`, and tables indexed out of bounds, end in
`host` states of their own, from which nothing more is claimed.

**Data.** `Machine` closes what `Cpu` leaves open. A word of a slot is read from the ROM, a
word decodes to one record (`Decoded`), operands come from `regs`, results from `AluResult`.
Fetching, exceptions, privilege, flushing and access are the operators of `Cpu`, so that
`ImplementsCore` says what is not shared: that decoding and data paths take only steps of
the core, with its flush and its exception. Programs write no coprocessor register
outside `Writable`, which leaves translation off. A register has `WordBits` bits,
an immediate its low `HalfBits`, fields are at their true places. Loads may return
anything: bytes are the business of `Memory`.

**Devices.** `Board` starts in `main` with a command line and ends with the process. Numbers in
arguments are split by a table of constants into a sign, digits, the character behind them and the digits behind an x, and
`Stoi`, `Hrsize` do the rest. `devices` is the list in the order of attachment, the RAM first.
Reads take four bytes from the buffer's index whatever the size; what lies behind the end of
a buffer is left open, so that a property holds only if it is masked off. A store that
leaves its buffer ends the process.
The clock counts in fractions of a cycle, its counter starts with `Garbage`. From `FloatMax`
on, as for a float from 2^24, sums go to the even one of two neighbours two cycles apart, and a
counter that comes up to it stays there. `since` counts the cycles executed since the last
refresh. The user's events wait in `queue`.

**ATA.** The members of a drive start with `Uninitialised` values. Of the sector buffer the count
of bytes still to be read is kept, modulo `SizeValues`. `smallest` and `chance` are history.

**Keyboard.** A byte is the set of its bits, so that the configuration byte can
be stored, sent through the data port and tested with the same representation;
`Bits` keeps those the code looks at.

**BIOS.** `Bios` runs from the reset to the final loop, each access to a device a
step, with a key press possible before each. `pc` names the next access; `cause` and
`xpc` are the exception registers, `probing` and `memSize` the two cells in memory,
`a0`, `slot` (x1) and `x10` the registers that live across a step. A key press that
raises an exception enters the dispatch of `bios/entry.s`, which uses x1 and a0 for
itself and ends in `bios_lock` on every path but one: a fault while the memory is probed
goes on with the boot. So nothing is ever returned to, and the stack, which the entry
sets up anew, is left out. The probing fault is the reason the model exists: the
handler goes by the flag alone.

Memory is a size: a load inside it adds four to `a0`, a load outside raises MMU_NOMAP.
`ram.hpp` computes the end of the RAM in a word, so a RAM up to the top of the address
space ends at 0, one that would go past it below its start, and both answer nothing. The texts are the lengths of their lines; the
console keeps the cursor, breaks lines at column 80 and scrolls on the last line.
`vga_vt_scroll` tests a register its copy loop first loads from the ROM (`romZero`):
it ends at once, or never. What the processor adds to a failing fetch (the second
word of the handler, section 4) is not repeated here: the first word of
the entry is part of setting up the stack.

## 3. Runs

| Run | Asks | Bounds |
|---|---|---|
| `pipeline` | does the pipeline implement the program order of `Isa`? | 16-byte address space, a device on 0..11 so that straight-line code runs into a failing fetch, jumps to any word |
| `mmu` | was every clean access granted by the first covering entry? where does a failed one go? | two entries, fields 0 or 8, one map programmed field by field |
| `privilege` | do translation, map and level stay together? types | one entry, both builds, all `cop4_ctrl` settings that matter, `msel` 0 or 1 |
| `syscall_return` | does a return restore the caller's map? | history of three, no exception at level 0 |
| `i8042` | no byte twice, no stray byte lost | three bits, two data values, all commands |
| `bios` | does the boot end, and find the memory and the devices, whatever keys are pressed when? | 32 KiB of addresses with the RAM base in the middle; RAM of 0, of 2500 bytes (no whole KiB), of 12 KiB less three bytes (two decimal digits, a word in part), up to the top, and past it; both ROM contents; three scan codes over four bits |
| `machine` | does every program take only steps of the core? link, shifts, rotations | words of 4 bits, three ROM words; two of twelve transfers of control and a call, each other instruction alone, all operations on chosen and three on all numbers: 296 000 states |
| `instructions` | are words printed alike executed alike? is what has a name legal? | all instruction numbers with at most one more bit set, the ALU's immediate forms and the fixed and sized loads and stores with one more |
| `board` | do ranges, memory and screen keep what they promise, whatever the command line? how often is the screen refreshed, and does closing the window end the emulator? | 32 addresses, 31 command lines, bytes of 8 values, two rows of two characters of 2x2 pixels; `FloatMax` of 8 halves of a cycle, four contents of the counter (none, not a number, and two below `-FloatMax`, of which one is stuck); two events, so that a close comes before or behind a key of one pause |
| `ata` | is a sector read to its end? can a drive be identified? | sector of 8 bytes, count modulo 16, any port list of a set |
| `claim_*` | the two statements of section 5 | as above |

Sixteen addresses suffice: addresses are only compared with region bounds and
added to, four of them are word addresses, so that jumps, the end of the device
and the wrap-around all occur within a few cycles. One map entry already gives
a hit, a miss and each permission; a second one is needed for the order of the search. Levels are not
scaled down. In `bios` only the memory is: the loop adds four until it faults, and
the sizes cover an immediate fault, one in the middle and the wrap-around. Slots,
ports, texts and the screen have their true sizes. Of the scan codes one sets the bit
of the interrupt, one that of the first channel's clock, one both and the second channel's. In `board` the command lines are chosen so that
the RAM is empty, over each of the other devices, of no multiple of four bytes, up to and past
the top and at a negative base, and so that the ratio of the clock is some cycles and a half
and more than it can count to. In `machine` four bits are the fewest for which a count of the width,
one beyond it and a sign differ. In `instructions`, one bit more than the number
distinguishes every two fields, since only lines of equal number are alike. What the bounds
leave out, the theorems of section 6 cover for the properties listed there.

**Fairness.** Two specifications have any. `Bios`: weak fairness of the guest's next step. The
main loop calls `hv2_cycle` on every turn, so a guest that has an instruction to execute
executes it; nothing is assumed about key presses, which may come always or never.
`Board`: weak fairness of the emulator's next step, whichever it is. It is one thread
that never waits: each of its steps is a statement of the loop. Nothing is assumed of the
user, nor that the guest exits. `Cpu` has none, and no liveness is claimed of it: a guest
may loop for ever.

**Deadlock** is checked where the system cannot stop (`i8042`, `bios`). `Cpu`, `Machine` and `Ata`
stop when an instruction or an access ended the emulator, `Board` with the process,
`Disassembly` at its bound of lines.

## 4. What the runs show

- `ImplementsOrder`: with XFLUSH_ON_FT set and left alone, the pipeline executes
  exactly the program order, where "exactly" includes what `Isa` has to admit:
  sysret executes two more words first; a key press drops up to two words that
  `xpc` does not cover; a failing fetch enters the handler at its second
  word behind the word it returned; two exceptions in one access save the
  handler's own address; a faulting load into the pc jumps over the handler.
- `StuckForever`: a handler whose second word cannot be fetched is fatal: at level 0 with
  an empty pipeline, cycles only raise exceptions, and keys do not help.
- `ImplementsCore`, `LinkLeadsByPipeline`, `ShiftIsFloorDivision`, `RotationsLoseNothing`: with real
  words and operands every step is one of `Cpu`. bl leaves in lr an address two
  words behind its successor, always, so the BIOS's returns through `lr - 8` are right; only the
  two words behind a sysret are executed with another pc. Arithmetic shifts are divisions
  rounded down, rotations lose nothing, with the counts taken modulo the width,
  as the build's processor does.
- `SameLineSameInstruction`, `NamesTellLegality`: the second decoder agrees with the first,
  up to its gaps: no name for sysret, branch register, set if condition immediate.
- `RangesInBuffers`, `DevicesReachable`: whatever base and size, an address a device
  answers lies in its buffer; the RAM answers all its addresses or none; without
  `--memory-base` it hides nothing, because one that would reach over the devices wraps around.
- `ImplementsByteMemory`: the devices together are the byte array `ByteMemory`, but for
  accesses over the end of a device.
- `RefreshPeriod`: once the counter's garbage is used up, a period is the ratio, with what is
  left of a cycle carried over, and one cycle more, since the tick that refreshes does not count
  its own (`clock.cpp:17-20`). So the screen is refreshed less often than `main` asks for: at a
  ratio of r cycles not 60 times but 60 r / (r + 1) times a second. `Refresh` and `Tick` show it;
  no document gives a rate to hold against it.
- `ScreenRefreshed`, `WindowCloses`: with a ratio that the counter reaches, the screen is
  refreshed for ever and closing it ends the emulator, whatever keys are pressed in the same
  pause before and behind. With a larger ratio, or with garbage below -2^24,
  neither need happen.
- `ScreenShowsMemory`: the loop over characters draws what the loop over pixels that
  `vga_textmode.hpp:149` keeps as a comment would.
- `SectorNotOverrun`: reads that do not grow within a sector end with it. Reads that grow
  overrun it, and the count starts again from 2^64.
- `IdentifyTakesChance`: the controller never sees what the guest writes, so no drive is
  identified, except one whose uninitialised status is the command.
- `GrantedByMap`: an access that raised nothing was granted by the first entry covering
  it. The attribute WRITE is not part of that: `hv2_mmu_get_phys` never looks at it, and
  a store needs READ.
- `FailuresConfined`: an access that raised something is carried out all the same, but only at
  address 0 or where a readable entry puts it, except through an entry without EXEC that
  the exception overwrote in the copy.
- `MmuFollowsPrivilege`, `MapFollowsPrivilege`: under the boot plan of `stack.txt`
  (`CtrlDiscipline`) translation is on exactly outside level 0, and the map in use is the
  level's. The saturations at 0 and 3 do not break either.
- `MapRestoredOnSysret`: holds as long as nothing interrupts level 0 and `REMAP_ON_PLT`, once
  on, stays on.
- `EmptyReadsZero`, `StrayByteTaken`: an empty output buffer reads 0; a stray
  input byte is neither lost nor replaced, but taken by the next
  command with a parameter, in place of the byte meant for it.
- `EndFoundByProbe`, `MemorySized`: the memory found is the memory there is. No fault or key
  press is taken for the end of the memory but the probing loop's own. What is kept is the
  number of KiB in decimal digits read as hexadecimal, and 0 for a RAM up
  to the top of the address space or past it (`-M 3G`).
- `DevicesListed`: the enumeration lists the registered devices and no empty slot. The
  subclass is shifted into a register that the table of storage devices is not indexed
  with; the one storage device has class and subclass 1, so it gets the right name.
- `BootFitsScreen`: the boot never reaches the scroll. Exceptions can: each prints its
  message, and a scroll with a ROM whose word is not 0 hangs.
- `ConfigurationKept`, `QuietAfterWriteBack`, `BootSettles`: a key press can stop the
  driver but cannot make it write a wrong configuration, and the boot always ends in the
  exception handling, at the latest with its call to an address that is not mapped.

Every property has a mutant: a definition changed the way a bug would change
it, defined beside the original and marked as such, with which TLC finds the
property violated.

## 5. Where the code and its documents disagree

Each is a run that TLC ends with the execution in question.

1. `claim_sysret`: an exception at level 0 unbalances the levels, and the next sysret
   selects another map than `stack.txt:23` promises.
2. `claim_irq`: the dispatch of `bios/entry.s` never recognises the keyboard.

Seen while modelling, visible in a definition and not given a run of its own:

- `frontend/main.cpp:328` says transfers flush the pipeline; sysret does not (`Sysret`).
- A failing fetch enters the handler at its second instruction (`Fetched`).
- `spec.txt:217` forbids level 2 to write cop0; `cpe_mtcr` does not check (`MoveToCop`).
- `bios/keyb.s:19` says "Disable devices"; the clock bit is tested the wrong way round and
  a disabled keyboard types (`KeyDown`).
- `spec.txt:81` gives branch register a condition of three bits; `hv2.cpp:40` decodes one,
  so that eq is the only condition there is (`RegisterBranch`).
- Set if condition immediate compares the number of its register (`SetCond` in `Decode`).
- The help text's `-v`, `-H`, `-d` are in the parser's map with a blank behind them,
  its `--memory-size` and `--operands-size` under other names (`SwitchOf`, `SettingOf`).
- A memory base in hexadecimal is read as 0, where the RAM hides the ROM (`Stoi`); a BIOS
  file that is not there has 2^32 - 1 bytes (`RomRange`).
- `redefine_ports` assigns its parameters to themselves (`RedefinePorts`); a second image
  closes the drive (`AttachDrive`); the port list holds the first port of each block only
  (`DefaultPorts`); nothing clears DRQ once the sector is read (`ReadData`).
- The access of a failed translation is carried out at physical address 0; the
  reset command of the keyboard controller raises the privilege by one level and leaves
  the rest; the window onto the maps is four times too long; in the -O3 build no
  translation succeeds.

## 6. Proofs

`CpuProofs` proves `TypeCorrect`: `Spec => []TypeOK` for every word size that is
a multiple of 4 and at least 16, map size, list of devices, build and software.
Its lemmas follow the calls of the code, one per operator, from the arithmetic of words
to `Access`, then one per group of instructions. `TypeOK` is inductive as it stands.

It also proves `TranslationFollowsLevel` and `MapFollowsLevel`, with
`CtrlDiscipline` as hypothesis: `cop4_ctrl` is written at level 0 only and never
with ENABLE itself. The invariant is the set `Sound` of well-typed processor
states in which both couplings hold; each operator and each instruction maps
`Sound` into itself. The two couplings are proved together because the map's needs
the one write of `cop4_ctrl` to happen at level 0, where the map in use is 0.

`AccessesGranted` and `FailuresStayConfined`: `GrantedByMap` and
`FailuresConfined` hold in every step, for software that leaves the flush bit of cop0_cr0 alone. A cycle makes up to two accesses, and the
second in a state the first may have moved to another level. The
invariant is that the flush bit is set: an access that raises an exception then leaves an
empty pipeline (`Outcome`), so no load or store follows in that cycle, and one that raises
nothing leaves the MMU's registers as they were. Without the hypothesis the property is
false: the load runs at the level the exception entered.

`NoWayOut` follows from `TypeCorrect`: at level 0 without translation an
exception changes nothing but `xcause`, `xpc`, the pc and the pipeline, so a stuck cycle ends in
one of the two positions of `Stuck`.

`PipelineKeepsOrder`: `Cpu` refines `Isa`, for software that leaves the
flush bit alone, as `GrantedByMap` needs. Two ideas carry it. However many exceptions an
access raises, together they are one that raises the level by their number and leaves in `xpc`
the pc or, from the second on, the handler's address (`Handled`); the lemmas carry that through
`Align`, `Translate`, `GetPhys` and `Access`. And slot 1 is in use only if slot 0 is
(`Filled`), without which the words in the pipeline would not be the first ones due. Each
instruction then maps to one step of `Isa`.

`SyscallReturnProofs` proves `CallersMapComesBack`: `MapRestoredOnSysret` for every nesting of
calls, returns and key presses that never interrupts level 0, and software whose every
write of `cop4_ctrl` keeps `REMAP_ON_PLT`. Both hypotheses are needed: without the first the run
`claim_sysret` is the counterexample, and without the second the map is not selected on the
way back. The invariant `CallsFit` is about the calls not yet returned from: there
are at most as many as levels below 3 are left, so no return saturates while one is
outstanding, and a map one of them was made under is the map of the level its return leads to. A
fetch that raises nothing leaves the level and the map alone (`QuietAccess`).

`DecodeProofs` has the lemmas on words and bits for every width of a register. `Weight` is a
recursive function and a number is a fold over its bits, so both are first shown to obey their
equations by induction on a set of numbers (`Induct`, `Recursion`, `NumberIsTotal`). From
there: a word is the sum of its bits (`BitsOfNumber`, `NumberOfBitsOf`), a division by a power
of two moves them (`BitsShifted`), `Asr` rounds down (`AsrDivides`), `Rol` and `Ror` turn
(`RolMovesBits`, `RorMovesBits`), a field has the range of its width (`FieldTypes`), and every
word decodes to one of the forms `Machine` has a step for (`EveryWordDecodes`).

`MachineProofs` proves the four properties of running programs, for every width, ROM and set of initial
registers. `ProgramsImplementCore` (`Machine` refines `Cpu`) needs `MachineInv` only: the type
of the core's state and words in the registers; it goes through the cases of the
decoded word, and in each the computed operand is one `Cpu` may choose. `ShiftsDivide` and
`RotationsTurn` rest on `Recorded`: what was recorded of the last operation is the result
of the ALU on two words. For `LinksLead` the invariant `LinkInv` says where the
pc stands: a word in slot 0 is one word behind it and one in slot 1 two, except while
`shadow` counts the words left over from a sysret, and every way into an exception leaves an
empty pipeline, which is where the flush bit is needed.

`DisassemblyProofs` proves `NamesTellTruth` and `SameLineSame` for all 2^32 words. The
invariant is that the line shown is that of the word (`Printed`); the rest is about the
two decoders. The extractors agree (`SeesAlike`), the first piece of a line tells the
kind of instruction (`Kinds`), and for each kind the pieces determine each field
the core uses (`SameAlu` to `SameLoadStore`). The one kind that is not read off field by field
is the load of an immediate, where the shifted value is printed and is also all the core uses.

`AtaProofs` proves `AtaTypeCorrect`, `SectorReadToItsEnd` and `IdentifyOnlyByChance` for every
sector size that is a multiple of four. The first two are inductive only together, since a
count stays in range because it is a multiple of what is taken from it. For the third the
invariant adds what the data register can hold at all: 0, the answers of the selection
register, and a status of some drive, none of which is the command.

`BiosProofs` proves `ControllerTypeCorrect`, `NothingReadTwice` and `StrayByteWaits` of the
keyboard controller by itself, for every choice of bits and bytes; each is inductive as it stands.
Then come the invariants of the boot and both action properties (`BiosTypeCorrect`,
`EndOfMemoryByProbe`, `MemorySizeKept`, `DevicesAllListed`, `BootFits`, `ConfigurationLeft`,
`QuietDriver`), for every size of the memory, every bus and every keyboard. `BootInv` says what is
known at each `pc`, and one observation makes it inductive: until the driver writes the
configuration back, a key press that raises an exception ends in `bios_lock` or restarts the
probe, so a boot still going on is one no exception has touched. For the screen the digits
of the memory's size are counted: `vga_print_integer` makes at most eight turns, because the number
is kept in BCD, and each turn prints one character.

`BoardProofs` proves what the run of the board checks, for every command line, address space
and font. `WindowShowsScreen`: rendering visits each pixel once, and nothing between
drawing and polling writes the memory of the screen. `RefreshPeriodExact`: a counter that a
refresh left with less than a cycle is at what was left and the cycles counted since, all but the
one just executed, or it has come up to `FloatMax` and stays (`ClockInv`, `FullStays`);
`BeforeStart` keeps the garbage it begins with harmless.
`AnswersAreInBuffers`: every device of `main` has a range no larger than its buffer
(`Fitted`), for every size of the RAM a command line can name; the number is what `DigitsValue` and
the suffix make of the text, a natural number by the least-number principle. `FixedPlacesReachable`: a
device at a fixed place is reached unless an earlier one covers it. `MemoryIsPlain`: `Board` implements
`ByteMemory`, one array of bytes (`HeapInv`).

**Assumptions.** Those that these proofs rest on are facts of the code. `BitsAssumption`: an
immediate is narrower than a register, a byte no wider than an immediate. `LayoutAssumption`: the places
of `main` (the ROM at 0, I/O at 0x40000, the BIOS RAM at 0x80000, the screen at 0xb8000, the RAM at
0x80000000) are disjoint, the RAM behind the others. `CpuRatio` covers every text with a number, as a
division of two floats does; `FloatMax` is a multiple of four cycles, as 2^24 is; a unit of a size
is a natural number. `MemoryAssumption`: the address space and the base of the RAM are multiples of
four, the base is not 0, and a size is a word, as `hv2f_hrsize_to_bytes` returns it.

Model-checked only: liveness (`BootSettles`, `ScreenRefreshed`, `WindowCloses`), which is out of
the prover's reach; every other property of a passing run is stated by a theorem.
What a recursive function computes is proved through the least number at which it would fail, since
the induction theorems of the library take an operator.

## 7. Not modelled, and the plan

Left out for good: the debugger's user interface, which `main` never calls; logging; ELF
loading and its symbols, the work of a library on a file; the columns of a disassembly line;
SDL itself, of which only the queue of events is kept; rounding of fractions of a cycle
in the clock's float, and floats beyond 2^25. `hv2_mmu_create_mapping`, `hv2_privilege_transition`, `block_dev_t::read` and
`write`, `bios_inb` and its like have no caller and no action.

Simplified: the font's size is a constant of `Board`, its bits a table; the guest of `Board`
accesses memory and does not execute; `Ata` is driven by itself, since `main` does not register
the controller with the I/O controller; the texts of the BIOS are lengths.

What could follow, in this order:

1. The BIOS's own instructions run on `Machine`, once its ROM is small enough for TLC.
