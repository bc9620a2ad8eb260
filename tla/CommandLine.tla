---------------------------- MODULE CommandLine ----------------------------
(***************************************************************************)
(* From the command line to the memory map: cli::parser_t                  *)
(* (frontend/cli.hpp) and the start of main (frontend/main.cpp).           *)
(*                                                                         *)
(* An argument is a string.  Where the program converts one, NumberOf says *)
(* what it is made of: a sign, the decimal digits behind it, the character *)
(* behind those, if any, and the digits behind an x.                       *)
(***************************************************************************)
EXTENDS Integers, Sequences, SequencesExt

CONSTANTS
    AddressSpace,   \* number of addresses, 2^32 in the code
    CommandLines,   \* the command lines considered
    NumberOf,       \* arguments that stand for numbers
    Unit,           \* what K, M, G, k, m and g multiply by
    Files,          \* the files there are
    RomSize,        \* bytes of the BIOS ROM's file
    BiosRamRange, IoRange, VgaRange,        \* main's fixed places
    DefaultRamBase, DefaultRamSize

Address == 0 .. AddressSpace - 1
Range32 == [start : Address, end : Address]

ASSUME CommandLineAssumption ==
    /\ AddressSpace \in Nat \ {0}
    /\ CommandLines \subseteq Seq(STRING)
    /\ \A s \in DOMAIN NumberOf :
          NumberOf[s] \in [negative : BOOLEAN, digits : Seq(0 .. 9),
                           last : {"", "x"} \cup DOMAIN Unit, behind : Seq(0 .. 9)]
    /\ \A u \in DOMAIN Unit : Unit[u] \in Nat
    /\ {BiosRamRange, IoRange, VgaRange} \subseteq Range32
    /\ {RomSize, DefaultRamBase, DefaultRamSize} \subseteq Address

\* main's fixed places are apart and below RAM's; the ROM's file fits in front.
ASSUME LayoutAssumption ==
    LET fixed == <<[start |-> 0, end |-> RomSize], BiosRamRange, VgaRange, IoRange>>
    IN  \A i, j \in 1 .. 4 :
          /\ i # j => fixed[i].end <= fixed[j].start \/ fixed[j].end <= fixed[i].start
          /\ fixed[i].end <= DefaultRamBase

VARIABLES
    argv,       \* the arguments
    next,       \* index of the next one to parse
    switches,   \* m_switches
    settings,   \* m_settings
    process,    \* where main is
    devices     \* what hv2_mmu_attach_device was given, in that order

cliVars == <<argv, next, switches, settings, process, devices>>

ProcessState == {"parsing", "parsed", "printed", "disassembling", "crashed",
                 "running", "ended"}

\* m_switches_map and m_settings_map; four short names end in a blank.
SwitchOf ==
    [s \in {"-v ", "--version"} |-> "VERSION"]
    @@ [s \in {"-H ", "--help"} |-> "HELP"]
    @@ [s \in {"-d ", "--disassemble"} |-> "DISASSEMBLE"]
    @@ [s \in {"-t ", "--trace"} |-> "TRACE"]
    @@ [s \in {"-Wf", "--fullscreen"} |-> "WINDOW_FULLSCREEN"]
    @@ ("--stdin" :> "STDIN")

SettingOf ==
    [s \in {"-i", "--input"} |-> "INPUT"]
    @@ [s \in {"-Sm", "--mnemonic-size"} |-> "MNEMONIC_SIZE"]
    @@ [s \in {"-So", "--opcode-size"} |-> "OPCODE_SIZE"]
    @@ [s \in {"-Sl", "--line-size"} |-> "LINE_SIZE"]
    @@ [s \in {"-M", "--memory"} |-> "MEMORY_SIZE"]
    @@ [s \in {"-b", "--bios"} |-> "BIOS"]
    @@ [s \in {"-s", "--cpu-speed"} |-> "CPU_SPEED"]
    @@ [s \in {"-Vf", "--vga-font-rom"} |-> "VGA_FONT_ROM"]
    @@ [s \in {"-Vs", "--vga-font-size"} |-> "VGA_FONT_SIZE"]
    @@ [s \in {"-Ws", "--window-scale"} |-> "WINDOW_SCALE"]
    @@ ("--memory-base" :> "MEMORY_BASE")

CliInit ==
    /\ argv \in CommandLines
    /\ next = 1
    /\ switches = {}
    /\ settings = <<>>
    /\ process = "parsing"
    /\ devices = <<>>
------------------------------------------------------------------------------
(***************************************************************************)
(* cli::parser_t::parse, one action for each way round the loop.           *)
(***************************************************************************)
Parsing == process = "parsing" /\ next <= Len(argv)

ParseSwitch ==
    /\ Parsing
    /\ argv[next] \in DOMAIN SwitchOf
    /\ switches' = switches \cup {SwitchOf[argv[next]]}
    /\ next' = next + 1
    /\ UNCHANGED <<argv, settings, process, devices>>

\* The argument of a setting is taken whatever it looks like.
ParseSetting ==
    /\ Parsing
    /\ argv[next] \in DOMAIN SettingOf
    /\ next < Len(argv)
    /\ settings' = (SettingOf[argv[next]] :> argv[next + 1]) @@ settings
    /\ next' = next + 2
    /\ UNCHANGED <<argv, switches, process, devices>>

\* Past the last argument there is a null pointer, which no string is made of.
ParseSettingAtEnd ==
    /\ Parsing
    /\ argv[next] \in DOMAIN SettingOf
    /\ next = Len(argv)
    /\ process' = "crashed"
    /\ UNCHANGED <<argv, next, switches, settings, devices>>

\* Anything else is the input file, or is dropped if there is one.
ParseInput ==
    /\ Parsing
    /\ argv[next] \notin DOMAIN SwitchOf \cup DOMAIN SettingOf
    /\ settings' = settings @@ ("INPUT" :> argv[next])
    /\ next' = next + 1
    /\ UNCHANGED <<argv, switches, process, devices>>

ParseEnd ==
    /\ process = "parsing"
    /\ next > Len(argv)
    /\ process' = "parsed"
    /\ UNCHANGED <<argv, next, switches, settings, devices>>

Parse == ParseSwitch \/ ParseSetting \/ ParseSettingAtEnd \/ ParseInput \/ ParseEnd
------------------------------------------------------------------------------
NotANumber == AddressSpace      \* more than any word

DigitsValue(d) ==
    LET value[n \in 0 .. Len(d)] == IF n = 0 THEN 0 ELSE 10 * value[n - 1] + d[n]
    IN  value[Len(d)]

\* std::stoi: the digits in front; none, or more than an int holds, throws.  The
\* int goes into a word: -1 is the largest.
Stoi(negative, digits) ==
    LET int == IF negative THEN -DigitsValue(digits) ELSE DigitsValue(digits)
    IN  IF digits = <<>> \/ 2 * int \notin -AddressSpace .. AddressSpace - 1
        THEN NotANumber ELSE int % AddressSpace

Negative(s) == s \in DOMAIN NumberOf /\ NumberOf[s].negative

Digits(s) == IF s \in DOMAIN NumberOf THEN NumberOf[s].digits ELSE <<>>

\* The text without its last character, which is taken for the unit.
ButLast(s) ==
    IF s \notin DOMAIN NumberOf THEN <<>>
    ELSE IF NumberOf[s].last = "" THEN Front(NumberOf[s].digits)
    ELSE NumberOf[s].digits

\* hv2f_hrsize_to_bytes
Hrsize(s) ==
    LET n == Stoi(Negative(s), ButLast(s))
        u == IF s \in DOMAIN NumberOf THEN NumberOf[s].last ELSE ""
    IN  IF n = NotANumber THEN n
        ELSE (IF u \in DOMAIN Unit THEN n * Unit[u] ELSE n) % AddressSpace

IsSet(st) == st \in DOMAIN settings

Number(s) == Stoi(Negative(s), Digits(s))

RamBase == IF IsSet("MEMORY_BASE") THEN Number(settings["MEMORY_BASE"]) ELSE DefaultRamBase

RamSize == IF IsSet("MEMORY_SIZE") THEN Hrsize(settings["MEMORY_SIZE"]) ELSE DefaultRamSize

FileOf(st, default) == IF IsSet(st) THEN settings[st] ELSE default
BiosFile == FileOf("BIOS", "bios.bin")
FontFile == FileOf("VGA_FONT_ROM", "IBM_VGA_8x16.bin")

\* get_physical_range: [base, base + size) in 32 bits.
RangeOf(base, size) == [start |-> base, end |-> (base + size) % AddressSpace]

\* A file that is not there has -1 bytes.
RomRange == RangeOf(0, IF BiosFile \in Files THEN RomSize ELSE AddressSpace - 1)

Device(kind, range, size) == [kind |-> kind, start |-> range.start, end |-> range.end,
                              size |-> size]

\* RAM is attached where it is made, in front of all the others.
Attached ==
    LET size(r) == r.end - r.start
    IN  <<Device("ram", RangeOf(RamBase, RamSize), RamSize),
          Device("rom", RomRange, size(RomRange)),
          Device("bios_ram", BiosRamRange, size(BiosRamRange)),
          Device("vga", VgaRange, size(VgaRange)),
          Device("io", IoRange, size(IoRange))>>

\* Width and height, both of the whole text if there is no x.
FontSize(s) ==
    {Number(s)} \cup
        IF s \in DOMAIN NumberOf /\ NumberOf[s].last = "x"
        THEN {Stoi(FALSE, NumberOf[s].behind)} ELSE {}

\* Conversions that end in an exception nobody catches, and a font of -1 bytes.
StartFails ==
    \/ NotANumber \in {RamBase, RamSize}
    \/ IsSet("CPU_SPEED") /\ ButLast(settings["CPU_SPEED"]) = <<>>
    \/ IsSet("VGA_FONT_SIZE") /\ NotANumber \in FontSize(settings["VGA_FONT_SIZE"])
    \/ IsSet("WINDOW_SCALE") /\ Number(settings["WINDOW_SCALE"]) = NotANumber
    \/ FontFile \notin Files

PrintText ==
    /\ process = "parsed"
    /\ switches \cap {"VERSION", "HELP"} # {}
    /\ process' = "printed"
    /\ UNCHANGED <<argv, next, switches, settings, devices>>

DisassembleInput ==
    /\ process = "parsed"
    /\ switches \cap {"VERSION", "HELP"} = {}
    /\ "DISASSEMBLE" \in switches
    /\ process' = "disassembling"
    /\ UNCHANGED <<argv, next, switches, settings, devices>>

Start ==
    /\ process = "parsed"
    /\ switches \cap {"VERSION", "HELP", "DISASSEMBLE"} = {}
    /\ IF StartFails
       THEN process' = "crashed" /\ UNCHANGED devices
       ELSE process' = "running" /\ devices' = Attached
    /\ UNCHANGED <<argv, next, switches, settings>>
------------------------------------------------------------------------------
\* Mutants: the end belongs to the range; the range goes round the top.
DeviceAtInclusive(devs, a) == SelectInSeq(devs, LAMBDA d : a >= d.start /\ a <= d.end)

DeviceAtWrapping(devs, a) ==
    SelectInSeq(devs, LAMBDA d : ((a - d.start) % AddressSpace) < d.size)

\* hv2_mmu_get_device_at_phys: the first device with the address in its range,
\* 0 if there is none.
DeviceAt(devs, a) == SelectInSeq(devs, LAMBDA d : a >= d.start /\ a < d.end)
------------------------------------------------------------------------------
\* Whatever base and size the command line asks for, and however base + size
\* wraps around, an address a device answers lies in its buffer; the RAM
\* answers all of its addresses or, when it would reach the top, none.
RangesInBuffers ==
    [][ devices' # devices =>
          /\ \A a \in Address :
                LET d == DeviceAt(devices', a)
                IN  d # 0 => a - devices'[d].start < devices'[d].size
          /\ LET ram == devices'[1]
             IN  \/ \A i \in 0 .. ram.size - 1 : DeviceAt(devices', ram.start + i) = 1
                 \/ \A a \in Address : DeviceAt(devices', a) # 1 ]_cliVars

\* Unless the user moves it, no size of the RAM hides the BIOS, its RAM, the
\* screen or the I/O ports, although RAM is asked first.
DevicesReachable ==
    [][ (devices' # devices /\ ~IsSet("MEMORY_BASE") /\ BiosFile \in Files) =>
          \A a \in Address, d \in 2 .. 5 :
            (a >= devices'[d].start /\ a < devices'[d].end) => DeviceAt(devices', a) = d ]_cliVars
=============================================================================
