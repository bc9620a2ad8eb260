-------------------------------- MODULE Cpu --------------------------------
(***************************************************************************)
(* The processor core of hv2/hv2.cpp: one hv2_cycle fetches through the    *)
(* MMU, advances the three-slot pipeline and executes the word that        *)
(* reaches its end.  A cycle is one step, as it is one call in the         *)
(* single-threaded emulator; between two cycles a key press may raise an   *)
(* exception.                                                              *)
(*                                                                         *)
(* The word executed is chosen among all instructions, one action for each *)
(* case of the switch of hv2_execute, with its operands: registers hold    *)
(* arbitrary members of Data.                                              *)
(***************************************************************************)
EXTENDS Mmu

CONSTANTS
    Data,         \* values the general registers and memory may hold
    IoDevice,     \* index in Devices of the I/O controller
    Writable,     \* coprocessor registers the running software writes
    CtrlValues,   \* ... and the values it writes to cop4_ctrl,
    CtrlLevels,   \* ... at these privilege levels,
    MselValues,   \* ... to cop4_msel
    MapsWritten,  \* ... the maps it writes entries of
    AttrValues    \* ... and to the attribute word of a map entry

CopRegister == {"cr0", "cr1", "xcause", "xhaddr", "xpc", "ctrl", "msel", "map"}

ASSUME SoftwareAssumption ==
    /\ Data \subseteq Word /\ Data # {}
    /\ Writable \subseteq CopRegister
    /\ CtrlValues \subseteq SUBSET CtrlFlag
    /\ CtrlLevels \subseteq PrivilegeLevel
    /\ MselValues \subseteq Word
    /\ MapsWritten \subseteq PrivilegeLevel
    /\ AttrValues \subseteq SUBSET Attr

VARIABLES
    cpu,    \* the processor
    host,   \* the emulator process: did an instruction end it?
    bus     \* the device accesses of the last step, for the properties

vars == <<cpu, host, bus>>

HostState == {"running", "exited", "crashed", "undefined"}

BusAccess == [op : {"fetch", "read", "write"}, phys : Word, dev : Nat, faults : 0 .. 3]

\* The processor stays in the state space of hv2_t: levels 0 to 3, words that
\* wrap around, at most three exceptions in one access.
TypeOK ==
    /\ cpu \in Processor
    /\ host \in HostState
    /\ bus \subseteq BusAccess

Init ==
    /\ cpu = ResetProcessor
    /\ host = "running"
    /\ bus = {}

Register == {"pc", "other"}
------------------------------------------------------------------------------
(***************************************************************************)
(* The fetch half of hv2_cycle: the slots move, slot 0 receives what the   *)
(* read returns, the pc advances.  An exception in the read has already    *)
(* moved the pc and emptied the pipeline by then.                          *)
(***************************************************************************)
Shift(c) == [c EXCEPT !.pipe = [i \in 0 .. 2 |-> IF i = 0 THEN @[0] ELSE @[i - 1]]]

Latch(r, addr) ==
    IF r.dev = 0 THEN Zero ELSE IF r.faults > 0 THEN Stray ELSE At(addr)

OnBus(op, r) ==
    IF r.dev = 0 THEN {}
    ELSE {[op |-> op, phys |-> r.phys, dev |-> r.dev, faults |-> r.faults]}

\* The states in which hv2_execute may find the processor, with the accesses made.
Fetched ==
    {[cpu |-> [r.cpu EXCEPT !.pipe[0] = Latch(r, cpu.pc), !.pc = Succ(@)],
      bus |-> OnBus("fetch", r)] : r \in Access(Shift(cpu), cpu.pc, "EXEC")}

\* The word to execute is a nop the processor made up, or anything at all.
IsNop(f) == f.cpu.pipe[2].kind \in {"bubble", "zero"}
IsInstruction(f) == ~IsNop(f)

\* The instruction ends with processor state c.
Finish(f, c) ==
    /\ cpu' = c
    /\ bus' = f.bus
    /\ host' = host

\* The instruction takes the emulator process with it.
Die(f, how) ==
    /\ cpu' = f.cpu
    /\ bus' = f.bus
    /\ host' = how
------------------------------------------------------------------------------
Nop(f) == IsNop(f) /\ Finish(f, f.cpu)

Alu(f) ==
    /\ IsInstruction(f)
    /\ \E d \in Register, v \in Data : Finish(f, WriteRegister(f.cpu, d, v))

\* div and mod do not test their divisor.
AluDivideByZero(f) == IsInstruction(f) /\ Die(f, "crashed")

BranchImmediate(f) ==
    /\ IsInstruction(f)
    /\ \/ Finish(f, f.cpu)
       \/ \E offset \in Data :
            Finish(f, WriteRegister(f.cpu, "pc", Plus(f.cpu.pc, offset)))

BranchRegister(f) ==
    /\ IsInstruction(f)
    /\ \/ Finish(f, f.cpu)
       \/ \E v \in Data : \/ Finish(f, WriteRegister(f.cpu, "pc", v))
                          \/ Finish(f, WriteRegister(f.cpu, "pc", Plus(f.cpu.pc, v)))

\* The decoded condition is one bit: 0 indexes the table at -1.
BranchRegisterBadCondition(f) == IsInstruction(f) /\ Die(f, "crashed")

CopInstruction(f) == IsInstruction(f) /\ Finish(f, f.cpu)
------------------------------------------------------------------------------
(***************************************************************************)
(* Coprocessor exchange.  hv2_get_cop_register bounds the map window by    *)
(* its size in bytes where it indexes words, so it reaches four maps from  *)
(* the selected one on, whatever map msel selects.                         *)
(***************************************************************************)
MapFields ==
    [field : {"paddr", "vaddr", "size"}, value : Data]
    \cup [field : {"attr"}, value : AttrValues]

\* Entry e of the map q maps after the selected one; such a map must exist.
MapWritten(c, q, e, w) ==
    LET m == c.msel + q
        old == c.maps[m][e]
        new == CASE w.field = "paddr" -> [old EXCEPT !.paddr = w.value]
                 [] w.field = "vaddr" -> [old EXCEPT !.vaddr = w.value]
                 [] w.field = "size"  -> [old EXCEPT !.size = w.value]
                 [] w.field = "attr"  -> [old EXCEPT !.attr = w.value]
    IN  [c EXCEPT !.maps[m][e] = new]

\* Processor states a write to coprocessor register cr may lead to.
CopWritten(c, cr) ==
    CASE cr = "cr0"    -> {[c EXCEPT !.xflush = v] : v \in BOOLEAN}
      [] cr = "cr1"    -> {c}
      [] cr = "xcause" -> {[c EXCEPT !.xcause = v] : v \in Cause}
      [] cr = "xhaddr" -> {[c EXCEPT !.xhaddr = v] : v \in Data}
      [] cr = "xpc"    -> {[c EXCEPT !.xpc = v] : v \in Data}
      [] cr = "ctrl"   -> {[c EXCEPT !.ctrl = v] :
                              v \in {x \in CtrlValues : c.pl \in CtrlLevels}}
      [] cr = "msel"   -> {[c EXCEPT !.msel = v] : v \in MselValues}
      [] cr = "map"    -> {MapWritten(c, a.q, a.e, a.w) :
                              a \in {x \in [q : PrivilegeLevel, e : 0 .. NEntries - 1,
                                            w : MapFields] : c.msel + x.q \in MapsWritten}}

\* cpe_mtcr, then hv2_execute flushes if the SOURCE register is the pc.
MoveToCop(f) ==
    /\ IsInstruction(f)
    /\ \E cr \in Writable, d \in Register :
         \E c \in CopWritten(f.cpu, cr) : Finish(f, Flush(c, d))

\* The same past the end of mmu_maps: whatever lies behind it changes.
MoveToCopBeyondMaps(f) ==
    /\ IsInstruction(f)
    /\ "map" \in Writable
    /\ f.cpu.msel > 0
    /\ Die(f, "undefined")

\* cpe_mfcr; reading needs no privilege either.
MoveFromCop(f) ==
    /\ IsInstruction(f)
    /\ \E d \in Register, v \in Data : Finish(f, WriteRegister(f.cpu, d, v))

\* hv2_get_cop_register returned null; the flush follows here too.
InvalidCop(f) ==
    /\ IsInstruction(f)
    /\ \E d \in Register : Finish(f, Flush(Exception(f.cpu, "INVALID_COPX"), d))

\* The exchange table has two entries and a five-bit index.
ReservedExchange(f) == IsInstruction(f) /\ Die(f, "crashed")
------------------------------------------------------------------------------
\* syscall, tpl0-3, debug and excep all raise their exception.
SystemTrap(f) ==
    /\ IsInstruction(f)
    /\ \E cause \in {"SYSCALL", "TPL", "DEBUG", "SEXCEPT"} :
         Finish(f, Exception(f.cpu, cause))

DebugExit(f) == IsInstruction(f) /\ Die(f, "exited")

\* sysret sets the pc without the flush.
Sysret(f) ==
    /\ IsInstruction(f)
    /\ LET down == PrivilegeDown(f.cpu)
       IN  Finish(f, [down EXCEPT !.pc = down.xpc])

IllegalInstruction(f) ==
    IsInstruction(f) /\ Finish(f, Exception(f.cpu, "ILLEGAL_INSTR"))
------------------------------------------------------------------------------
Size == {"BYTE", "SHORT", "LONG", "EXEC"}

\* A load writes its register whether or not the access raised exceptions.
Load(f) ==
    /\ IsInstruction(f)
    /\ \E addr \in Data, size \in Size, d \in Register :
         \E r \in Access(f.cpu, addr, size), v \in Data \cup {0} :
            /\ r.dev = 0 => v = 0
            /\ cpu' = WriteRegister(r.cpu, d, v)
            /\ bus' = f.bus \cup OnBus("read", r)
            /\ host' = host

\* A store to the I/O controller may be the keyboard controller's reset
\* command, which raises an exception inside the store.
Store(f) ==
    /\ IsInstruction(f)
    /\ \E addr \in Data, size \in Size :
         \E r \in Access(f.cpu, addr, size), reset \in BOOLEAN :
            /\ reset => r.dev = IoDevice /\ r.dev # 0
            /\ cpu' = IF reset THEN Exception(r.cpu, "RESET") ELSE r.cpu
            /\ bus' = f.bus \cup OnBus("write", r)
            /\ host' = host

LoadEffectiveAddress(f) ==
    /\ IsInstruction(f)
    /\ \E d \in Register, v \in Data : Finish(f, WriteRegister(f.cpu, d, v))

\* The two bits of the operation that select nothing.
ReservedLoadStore(f) == IsInstruction(f) /\ Finish(f, f.cpu)

LoadImmediate(f) ==
    /\ IsInstruction(f)
    /\ \E d \in Register, v \in Data : Finish(f, WriteRegister(f.cpu, d, v))

SetCondImmediate(f) ==
    /\ IsInstruction(f)
    /\ \E d \in Register, v \in {0, 1} : Finish(f, WriteRegister(f.cpu, d, v))

SetCondRegister(f) ==
    /\ IsInstruction(f)
    /\ \E d \in Register, v \in {0, 1} : Finish(f, WriteRegister(f.cpu, d, v))

\* Conditions 0 and 7 to 15 index outside the condition table.
SetCondRegisterBadCondition(f) == IsInstruction(f) /\ Die(f, "crashed")
------------------------------------------------------------------------------
Execute(f) ==
    \/ Nop(f)
    \/ Alu(f) \/ AluDivideByZero(f)
    \/ BranchImmediate(f)
    \/ BranchRegister(f) \/ BranchRegisterBadCondition(f)
    \/ CopInstruction(f)
    \/ MoveToCop(f) \/ MoveToCopBeyondMaps(f) \/ MoveFromCop(f)
    \/ InvalidCop(f) \/ ReservedExchange(f)
    \/ SystemTrap(f) \/ DebugExit(f) \/ Sysret(f)
    \/ Load(f) \/ Store(f) \/ LoadEffectiveAddress(f) \/ ReservedLoadStore(f)
    \/ LoadImmediate(f)
    \/ SetCondImmediate(f)
    \/ SetCondRegister(f) \/ SetCondRegisterBadCondition(f)
    \/ IllegalInstruction(f)

Cycle ==
    /\ host = "running"
    /\ \E f \in Fetched : Execute(f)

\* A key press while the keyboard interrupt is on: the exception is raised
\* between two cycles.
Interrupt ==
    /\ host = "running"
    /\ cpu' = Exception(cpu, "KBC")
    /\ bus' = {}
    /\ UNCHANGED host

Next == Cycle \/ Interrupt

Spec == Init /\ [][Next]_vars
------------------------------------------------------------------------------
(***************************************************************************)
(* The boot plan of stack.txt: the software that runs at level 0 programs  *)
(* cop4_ctrl, for translation to come on with the step to level 1 and off  *)
(* with the way back, and never sets ENABLE itself.                        *)
(***************************************************************************)
CtrlDiscipline ==
    /\ CtrlLevels = {0}
    /\ \A v \in CtrlValues : "ENABLE" \notin v
    /\ "cr0" \notin Writable

\* Once the two automatic switches are on, translation is on exactly outside
\* level 0, after any sequence of system calls, returns, key presses and
\* nested faults: privilege_up and privilege_down, with their early returns
\* at 0 and 3, never leave the two apart.
MmuFollowsPrivilege ==
    {"ENABLE_ON_TPL1", "DISABLE_ON_TPL0"} \subseteq cpu.ctrl =>
        ("ENABLE" \in cpu.ctrl <=> cpu.pl > 0)

\* While REMAP_ON_PLT is on, addresses go through the map of the current
\* level, and through map 0 otherwise: no path changes the level and leaves
\* the map of another one behind, nor re-arms the switch with a stale map.
MapFollowsPrivilege ==
    cpu.cmap = IF "REMAP_ON_PLT" \in cpu.ctrl THEN cpu.pl ELSE 0

\* With translation on, a device access that raised nothing went through the
\* first entry of the level's map covering some address, an entry that allows
\* reading (executing too for a fetch), and to the place it maps it to.  That
\* takes the flush: without it a load follows a failed fetch at another level.
GrantedByMap ==
    [][ "ENABLE" \in cpu.ctrl =>
          \A b \in {x \in bus' : x.faults = 0} :
            \E va \in Word, i \in 0 .. NEntries - 1 :
                LET map == cpu.maps[cpu.cmap]
                IN  /\ Covers(map[i], va)
                    /\ \A j \in 0 .. i - 1 : ~Covers(map[j], va)
                    /\ "READ" \in map[i].attr
                    /\ b.op = "fetch" => "EXEC" \in map[i].attr
                    /\ b.phys = VirtualToPhysical(map[i], va) ]_vars

\* An access that did raise something is carried out all the same (mmu.cpp:56,
\* 64).  With translation on it then touches physical address 0, or the place a
\* readable first covering entry maps its address to, and nothing else: no
\* failed check lets software reach memory its map does not name.  Only an entry
\* without EXEC that an exception overwrote in the dangling copy may give more.
FailuresConfined ==
    [][ "ENABLE" \in cpu.ctrl =>
          \A b \in bus' :
            \/ b.phys = 0
            \/ \E va \in Word, i \in 0 .. NEntries - 1 :
                LET map == cpu.maps[cpu.cmap]
                IN  /\ Covers(map[i], va)
                    /\ \A j \in 0 .. i - 1 : ~Covers(map[j], va)
                    /\ \/ "READ" \in map[i].attr /\ b.phys = VirtualToPhysical(map[i], va)
                       \/ "EXEC" \notin map[i].attr /\ i \in Clobbered ]_vars

\* Nothing can be fetched from the handler's second word, where the exception of
\* a failing fetch enters it.
HandlerUnfetchable(c) ==
    \/ Succ(c.xhaddr) % 4 # 0
    \/ DevicesAt(Succ(c.xhaddr)) = {0}

\* The processor goes round in exceptions at level 0 with nothing to execute.
Stuck ==
    /\ cpu.xflush /\ cpu.pl = 0 /\ "ENABLE" \notin cpu.ctrl
    /\ HandlerUnfetchable(cpu)
    /\ cpu.pipe[1] = Bubble /\ cpu.pipe[2] = Bubble
    /\ \/ cpu.pc = cpu.xhaddr /\ cpu.pipe[0] = Bubble
       \/ cpu.pc = Succ(cpu.xhaddr)

\* A handler that cannot be fetched is fatal (mmu.cpp:100): once the exception
\* has emptied the pipeline at level 0, no instruction is executed and no key
\* press changes that.
StuckForever == [][ Stuck => Stuck' ]_vars
=============================================================================
