------------------------------ MODULE CpuProofs -------------------------------
(***************************************************************************)
(* The safety of the core, for every word size, map size, set of devices,  *)
(* build and software: its types, then what its privilege levels promise,  *)
(* what its address map does and the order its pipeline keeps.             *)
(***************************************************************************)
EXTENDS CpuIsa, TLAPS

LEMMA ModWord == ASSUME NEW a \in Int PROVE a % W \in Word
  BY WAssumption DEF Word

LEMMA PlusType == ASSUME NEW a \in Word, NEW b \in Word PROVE Plus(a, b) \in Word
  <1>1. a + b \in Int
    BY WAssumption DEF Word
  <1> QED BY <1>1, ModWord DEF Plus

LEMMA MinusType == ASSUME NEW a \in Word, NEW b \in Word PROVE Minus(a, b) \in Word
  <1>1. a - b \in Int
    BY WAssumption DEF Word
  <1> QED BY <1>1, ModWord DEF Minus

LEMMA SmallWords == {0, 1, 4} \subseteq Word
  BY WAssumption DEF Word

LEMMA SuccType == ASSUME NEW a \in Word PROVE Succ(a) \in Word
  BY PlusType, SmallWords DEF Succ

LEMMA SlotTypes ==
    /\ {Stray, Zero, Bubble} \subseteq Slot
    /\ \A a \in Word : At(a) \in Slot
    /\ EmptyPipe \in [0 .. 2 -> Slot]
  BY SmallWords DEF Stray, Zero, Bubble, Slot, At, EmptyPipe

LEMMA EnterLevelType ==
    ASSUME NEW c \in Processor PROVE EnterLevel(c) \in Processor
  BY DEF EnterLevel, Processor, PrivilegeLevel, CtrlFlag

LEMMA PrivilegeUpType ==
    ASSUME NEW c \in Processor PROVE PrivilegeUp(c) \in Processor
  <1>1. CASE c.pl = 0
    BY <1>1 DEF PrivilegeUp
  <1>2. CASE c.pl # 0
    <2>1. [c EXCEPT !.pl = @ - 1] \in Processor
      BY <1>2 DEF Processor, PrivilegeLevel
    <2> QED BY <1>2, <2>1, EnterLevelType DEF PrivilegeUp
  <1> QED BY <1>1, <1>2

LEMMA PrivilegeDownType ==
    ASSUME NEW c \in Processor PROVE PrivilegeDown(c) \in Processor
  <1>1. CASE c.pl = 3
    BY <1>1 DEF PrivilegeDown
  <1>2. CASE c.pl # 3
    <2>1. [c EXCEPT !.pl = @ + 1] \in Processor
      BY <1>2 DEF Processor, PrivilegeLevel
    <2> QED BY <1>2, <2>1, EnterLevelType DEF PrivilegeDown
  <1> QED BY <1>1, <1>2

LEMMA FlushType ==
    ASSUME NEW c \in Processor, NEW d PROVE Flush(c, d) \in Processor
  BY SlotTypes DEF Flush, Processor

LEMMA WriteRegisterType ==
    ASSUME NEW c \in Processor, NEW d, NEW v \in Word
    PROVE  WriteRegister(c, d, v) \in Processor
  <1>1. [c EXCEPT !.pc = v] \in Processor
    BY DEF Processor
  <1> QED BY <1>1, FlushType DEF WriteRegister

LEMMA ExceptionType ==
    ASSUME NEW c \in Processor, NEW cause \in Cause
    PROVE  Exception(c, cause) \in Processor
  <1> DEFINE up == PrivilegeUp(c)
  <1>1. [up EXCEPT !.xcause = cause, !.xpc = up.pc, !.pc = up.xhaddr] \in Processor
    BY PrivilegeUpType DEF Processor
  <1> QED BY <1>1, FlushType DEF Exception
------------------------------------------------------------------------------
(***************************************************************************)
(* The MMU's operators return well-typed results.                          *)
(***************************************************************************)
Physical == [cpu : Processor, phys : Word, faults : 0 .. 3]

LEMMA AlignType ==
    ASSUME NEW c \in Processor, NEW phys \in Word, NEW size, NEW n \in 0 .. 2
    PROVE  /\ Align(c, phys, size, n) \in Physical
           /\ Align(c, phys, size, n).faults <= n + 1
  <1>1. {"MMU_XALIGN", "MMU_RWALIGN"} \subseteq Cause
    BY DEF Cause
  <1>2. Exception(c, IF size = "EXEC" THEN "MMU_XALIGN" ELSE "MMU_RWALIGN") \in Processor
    BY <1>1, ExceptionType
  <1>3. n \in 0 .. 3 /\ n + 1 \in 0 .. 3
    OBVIOUS
  <1> QED BY <1>2, <1>3 DEF Align, Physical

LEMMA EntryType ==
    ASSUME NEW c \in Processor, NEW i \in 0 .. NEntries - 1
    PROVE  c.maps[c.cmap][i] \in MapEntry
  BY DEF Processor, Map

LEMMA SearchMapType ==
    ASSUME NEW c, NEW vaddr PROVE SearchMap(c, vaddr) \subseteq (0 .. NEntries - 1) \cup {NoEntry}
  BY DEF SearchMap, First

LEMMA RereadType ==
    ASSUME NEW c \in Processor, NEW i \in 0 .. NEntries - 1, NEW vaddr \in Word, NEW after
    PROVE  \A v \in Reread(c, i, vaddr, after) : v.phys \in Word
  <1> DEFINE e == c.maps[c.cmap][i]
  <1>1. e.vaddr \in Word /\ e.paddr \in Word
    BY EntryType DEF MapEntry
  <1>2. VirtualToPhysical(e, vaddr) \in Word
    BY <1>1, PlusType, MinusType DEF VirtualToPhysical
  <1> QED BY <1>2 DEF Reread

LEMMA TranslateType ==
    ASSUME NEW c \in Processor, NEW i \in 0 .. NEntries - 1, NEW vaddr \in Word, NEW size
    PROVE  \A r \in Translate(c, i, vaddr, size) : r \in Physical /\ r.faults <= 2
  <1> DEFINE noExec == size = "EXEC" /\ "EXEC" \notin c.maps[c.cmap][i].attr
             n == IF noExec THEN 1 ELSE 0
             d == IF noExec THEN Exception(c, "MMU_PROT_EXEC") ELSE c
  <1>1. {"MMU_PROT_EXEC", "MMU_PROT_READ"} \subseteq Cause
    BY DEF Cause
  <1>2. n \in 0 .. 1 /\ d \in Processor
    BY <1>1, ExceptionType
  <1>3. Exception(d, "MMU_PROT_READ") \in Processor
    BY <1>1, <1>2, ExceptionType
  <1> SUFFICES ASSUME NEW v \in Reread(c, i, vaddr, noExec)
               PROVE  LET r == IF "READ" \in v.attr
                               THEN Align(d, v.phys, size, n)
                               ELSE [cpu |-> Exception(d, "MMU_PROT_READ"),
                                     phys |-> 0, faults |-> n + 1]
                      IN  r \in Physical /\ r.faults <= 2
    BY DEF Translate
  <1>4. v.phys \in Word
    BY RereadType
  <1>5. 0 \in Word
    BY SmallWords
  <1> HIDE DEF n, d
  <1>6. Align(d, v.phys, size, n) \in Physical /\ Align(d, v.phys, size, n).faults <= n + 1
    BY <1>2, <1>4, AlignType
  <1>7. n + 1 \in 0 .. 3 /\ n + 1 <= 2
    BY <1>2
  <1>8. [cpu |-> Exception(d, "MMU_PROT_READ"), phys |-> 0, faults |-> n + 1] \in Physical
    BY <1>3, <1>5, <1>7 DEF Physical
  <1>9. Align(d, v.phys, size, n).faults \in 0 .. 3
    BY <1>6 DEF Physical
  <1> QED BY <1>6, <1>7, <1>8, <1>9

LEMMA GetPhysType ==
    ASSUME NEW c \in Processor, NEW addr \in Word, NEW size
    PROVE  \A r \in GetPhys(c, addr, size) : r \in Physical /\ r.faults <= 2
  <1>1. CASE "ENABLE" \notin c.ctrl
    <2>1. Align(c, addr, size, 0) \in Physical /\ Align(c, addr, size, 0).faults <= 2
      <3>1. Align(c, addr, size, 0) \in Physical /\ Align(c, addr, size, 0).faults <= 0 + 1
        BY AlignType
      <3> QED BY <3>1 DEF Physical
    <2> QED BY <1>1, <2>1 DEF GetPhys
  <1>2. CASE "ENABLE" \in c.ctrl
    <2> SUFFICES ASSUME NEW i \in SearchMap(c, addr),
                        NEW r \in IF i = NoEntry
                                  THEN {[cpu |-> Exception(c, "MMU_NOMAP"), phys |-> 0, faults |-> 1]}
                                  ELSE Translate(c, i, addr, size)
                 PROVE  r \in Physical /\ r.faults <= 2
      BY <1>2 DEF GetPhys
    <2>1. CASE i = NoEntry
      <3>1. Exception(c, "MMU_NOMAP") \in Processor
        BY ExceptionType DEF Cause
      <3> QED BY <2>1, <3>1, SmallWords DEF Physical
    <2>2. CASE i # NoEntry
      <3>1. i \in 0 .. NEntries - 1
        BY <2>2, SearchMapType
      <3> QED BY <2>2, <3>1, TranslateType
    <2> QED BY <2>1, <2>2
  <1> QED BY <1>1, <1>2

LEMMA AccessType ==
    ASSUME NEW c \in Processor, NEW addr \in Word, NEW size
    PROVE  Access(c, addr, size) \subseteq AccessResult
  <1> SUFFICES ASSUME NEW r \in GetPhys(c, addr, size), NEW dev \in DevicesAt(r.phys)
               PROVE  [cpu |-> IF dev = 0 THEN Exception(r.cpu, "MMU_NOMAP") ELSE r.cpu,
                       phys |-> r.phys,
                       faults |-> IF dev = 0 THEN r.faults + 1 ELSE r.faults,
                       dev |-> dev] \in AccessResult
    BY DEF Access
  <1>1. r \in Physical /\ r.faults <= 2
    BY GetPhysType
  <1>2. dev \in Nat
    BY DevicesAssumption DEF DevicesAt, First
  <1>3. r.faults + 1 \in 0 .. 3
    BY <1>1 DEF Physical
  <1>4. r.cpu \in Processor /\ Exception(r.cpu, "MMU_NOMAP") \in Processor
    BY <1>1, ExceptionType DEF Physical, Cause
  <1> QED BY <1>1, <1>2, <1>3, <1>4 DEF Physical, AccessResult
------------------------------------------------------------------------------
(***************************************************************************)
(* One cycle.                                                              *)
(***************************************************************************)
LEMMA ShiftType == ASSUME NEW c \in Processor PROVE Shift(c) \in Processor
  <1>1. [i \in 0 .. 2 |-> IF i = 0 THEN c.pipe[0] ELSE c.pipe[i - 1]] \in [0 .. 2 -> Slot]
    BY DEF Processor
  <1> QED BY <1>1 DEF Shift, Processor

LEMMA OnBusType ==
    ASSUME NEW op \in {"fetch", "read", "write"}, NEW r \in AccessResult
    PROVE  OnBus(op, r) \subseteq BusAccess
  BY DEF OnBus, BusAccess, AccessResult

LEMMA LatchType ==
    ASSUME NEW r, NEW a \in Word PROVE Latch(r, a) \in Slot
  BY SlotTypes DEF Latch

Prepared == [cpu : Processor, bus : SUBSET BusAccess]

LEMMA FetchedType == ASSUME TypeOK PROVE Fetched \subseteq Prepared
  <1> SUFFICES ASSUME NEW r \in Access(Shift(cpu), cpu.pc, "EXEC")
               PROVE  [cpu |-> [r.cpu EXCEPT !.pipe[0] = Latch(r, cpu.pc), !.pc = Succ(@)],
                       bus |-> OnBus("fetch", r)] \in Prepared
    BY DEF Fetched
  <1>1. cpu.pc \in Word /\ Shift(cpu) \in Processor
    BY ShiftType DEF TypeOK, Processor
  <1>2. r \in AccessResult
    BY <1>1, AccessType
  <1>3. r.cpu \in Processor /\ OnBus("fetch", r) \in SUBSET BusAccess
    BY <1>2, OnBusType DEF AccessResult
  <1>4. Succ(r.cpu.pc) \in Word
    BY <1>3, SuccType DEF Processor
  <1>5. Latch(r, cpu.pc) \in Slot
    BY <1>1, LatchType
  <1>6. [r.cpu EXCEPT !.pipe[0] = Latch(r, cpu.pc), !.pc = Succ(@)] \in Processor
    BY <1>3, <1>4, <1>5 DEF Processor
  <1> QED BY <1>3, <1>6 DEF Prepared

LEMMA FinishType ==
    ASSUME TypeOK, NEW f \in Prepared, NEW c \in Processor, Finish(f, c)
    PROVE  TypeOK'
  BY DEF TypeOK, Finish, Prepared

LEMMA DieType ==
    ASSUME TypeOK, NEW f \in Prepared, NEW how \in HostState, Die(f, how)
    PROVE  TypeOK'
  BY DEF TypeOK, Die, Prepared

LEMMA MapsType ==
    ASSUME NEW c \in Processor, NEW ms \in [PrivilegeLevel -> Map]
    PROVE  [c EXCEPT !.maps = ms] \in Processor
  BY DEF Processor

LEMMA MapFieldType ==
    ASSUME NEW old \in MapEntry, NEW w \in MapFields
    PROVE  (CASE w.field = "paddr" -> [old EXCEPT !.paddr = w.value]
              [] w.field = "vaddr" -> [old EXCEPT !.vaddr = w.value]
              [] w.field = "size"  -> [old EXCEPT !.size = w.value]
              [] w.field = "attr"  -> [old EXCEPT !.attr = w.value]) \in MapEntry
  <1>1. CASE w \in [field : {"paddr", "vaddr", "size"}, value : Data]
    BY <1>1, SoftwareAssumption DEF MapEntry
  <1>2. CASE w \in [field : {"attr"}, value : AttrValues]
    BY <1>2, SoftwareAssumption DEF MapEntry
  <1> QED BY <1>1, <1>2 DEF MapFields

LEMMA MapWrittenType ==
    ASSUME NEW c \in Processor, NEW q \in PrivilegeLevel, NEW e \in 0 .. NEntries - 1,
           NEW w \in MapFields, c.msel + q \in PrivilegeLevel
    PROVE  MapWritten(c, q, e, w) \in Processor
  <1> DEFINE m == c.msel + q
             old == c.maps[m][e]
             new == CASE w.field = "paddr" -> [old EXCEPT !.paddr = w.value]
                      [] w.field = "vaddr" -> [old EXCEPT !.vaddr = w.value]
                      [] w.field = "size"  -> [old EXCEPT !.size = w.value]
                      [] w.field = "attr"  -> [old EXCEPT !.attr = w.value]
             ms == [c.maps EXCEPT ![m][e] = new]
  <1>1. old \in MapEntry
    BY DEF Processor, Map
  <1>2. new \in MapEntry
    BY <1>1, MapFieldType
  <1>3. ms \in [PrivilegeLevel -> Map]
    <2> HIDE DEF new
    <2> QED BY <1>2 DEF Processor, Map
  <1>4. MapWritten(c, q, e, w) = [c EXCEPT !.maps = ms]
    BY DEF MapWritten
  <1> HIDE DEF ms
  <1> QED BY <1>3, <1>4, MapsType

LEMMA CopWrittenType ==
    ASSUME NEW c \in Processor, NEW cr \in Writable
    PROVE  CopWritten(c, cr) \subseteq Processor
  <1>1. cr \in CopRegister
    BY SoftwareAssumption
  <1>2. CASE cr = "cr0"
    BY <1>2 DEF CopWritten, Processor
  <1>3. CASE cr = "cr1"
    BY <1>3 DEF CopWritten
  <1>4. CASE cr = "xcause"
    BY <1>4 DEF CopWritten, Processor
  <1>5. CASE cr = "xhaddr"
    BY <1>5, SoftwareAssumption DEF CopWritten, Processor
  <1>6. CASE cr = "xpc"
    BY <1>6, SoftwareAssumption DEF CopWritten, Processor
  <1>7. CASE cr = "ctrl"
    BY <1>7, SoftwareAssumption DEF CopWritten, Processor
  <1>8. CASE cr = "msel"
    BY <1>8, SoftwareAssumption DEF CopWritten, Processor
  <1>9. CASE cr = "map"
    BY <1>9, SoftwareAssumption, MapWrittenType DEF CopWritten
  <1> QED BY <1>1, <1>2, <1>3, <1>4, <1>5, <1>6, <1>7, <1>8, <1>9 DEF CopRegister

(***************************************************************************)
(* One lemma per group of actions of Execute: each ends in a processor     *)
(* state of the right type, or kills the emulator in the state fetched.    *)
(***************************************************************************)
LEMMA WritingType ==
    ASSUME TypeOK, NEW f \in Prepared,
           NEW d, NEW v \in Word, Finish(f, WriteRegister(f.cpu, d, v))
    PROVE  TypeOK'
  <1>1. WriteRegister(f.cpu, d, v) \in Processor
    BY WriteRegisterType DEF Prepared
  <1> QED BY <1>1, FinishType

LEMMA ExecuteWritingType ==
    ASSUME TypeOK, NEW f \in Prepared,
           \/ Alu(f) \/ BranchImmediate(f) \/ BranchRegister(f)
           \/ MoveFromCop(f) \/ LoadEffectiveAddress(f) \/ LoadImmediate(f)
           \/ SetCondImmediate(f) \/ SetCondRegister(f)
    PROVE  TypeOK'
  <1>1. Data \cup {0, 1} \subseteq Word
    BY SoftwareAssumption, SmallWords
  <1>2. f.cpu \in Processor /\ f.cpu.pc \in Word
    BY DEF Prepared, Processor
  <1>3. CASE Alu(f)
    BY <1>1, <1>3, WritingType DEF Alu
  <1>4. CASE BranchImmediate(f)
    <2>1. CASE Finish(f, f.cpu)
      BY <1>2, <2>1, FinishType
    <2>2. CASE \E offset \in Data :
                 Finish(f, WriteRegister(f.cpu, "pc", Plus(f.cpu.pc, offset)))
      BY <1>1, <1>2, <2>2, WritingType, PlusType
    <2> QED BY <1>4, <2>1, <2>2 DEF BranchImmediate
  <1>5. CASE BranchRegister(f)
    <2>1. CASE Finish(f, f.cpu)
      BY <1>2, <2>1, FinishType
    <2>2. CASE \E v \in Data : \/ Finish(f, WriteRegister(f.cpu, "pc", v))
                              \/ Finish(f, WriteRegister(f.cpu, "pc", Plus(f.cpu.pc, v)))
      BY <1>1, <1>2, <2>2, WritingType, PlusType
    <2> QED BY <1>5, <2>1, <2>2 DEF BranchRegister
  <1>6. CASE MoveFromCop(f)
    BY <1>1, <1>6, WritingType DEF MoveFromCop
  <1>7. CASE LoadEffectiveAddress(f)
    BY <1>1, <1>7, WritingType DEF LoadEffectiveAddress
  <1>8. CASE LoadImmediate(f)
    BY <1>1, <1>8, WritingType DEF LoadImmediate
  <1>9. CASE SetCondImmediate(f)
    BY <1>1, <1>9, WritingType DEF SetCondImmediate
  <1>10. CASE SetCondRegister(f)
    BY <1>1, <1>10, WritingType DEF SetCondRegister
  <1> QED BY <1>3, <1>4, <1>5, <1>6, <1>7, <1>8, <1>9, <1>10

LEMMA ExecuteDyingType ==
    ASSUME TypeOK, NEW f \in Prepared,
           \/ AluDivideByZero(f) \/ BranchRegisterBadCondition(f) \/ MoveToCopBeyondMaps(f)
           \/ ReservedExchange(f) \/ DebugExit(f) \/ SetCondRegisterBadCondition(f)
    PROVE  TypeOK'
  <1>1. Die(f, "crashed") \/ Die(f, "undefined") \/ Die(f, "exited")
    BY DEF AluDivideByZero, BranchRegisterBadCondition, MoveToCopBeyondMaps,
           ReservedExchange, DebugExit, SetCondRegisterBadCondition
  <1> QED BY <1>1, DieType DEF HostState

LEMMA ExecuteIdleType ==
    ASSUME TypeOK, NEW f \in Prepared,
           Nop(f) \/ CopInstruction(f) \/ ReservedLoadStore(f)
    PROVE  TypeOK'
  <1>1. Finish(f, f.cpu)
    BY DEF Nop, CopInstruction, ReservedLoadStore
  <1> QED BY <1>1, FinishType DEF Prepared

LEMMA ExecuteControlType ==
    ASSUME TypeOK, NEW f \in Prepared,
           \/ MoveToCop(f) \/ InvalidCop(f)
           \/ SystemTrap(f) \/ Sysret(f) \/ IllegalInstruction(f)
    PROVE  TypeOK'
  <1>1. f.cpu \in Processor
    BY DEF Prepared
  <1>2. \A cause \in Cause : Exception(f.cpu, cause) \in Processor
    BY <1>1, ExceptionType
  <1>3. {"SYSCALL", "TPL", "DEBUG", "SEXCEPT", "INVALID_COPX", "ILLEGAL_INSTR"} \subseteq Cause
    BY DEF Cause
  <1>4. CASE MoveToCop(f)
    <2> PICK cr \in Writable, d \in Register : \E c \in CopWritten(f.cpu, cr) : Finish(f, Flush(c, d))
      BY <1>4 DEF MoveToCop
    <2> PICK c \in CopWritten(f.cpu, cr) : Finish(f, Flush(c, d))
      OBVIOUS
    <2>1. Flush(c, d) \in Processor
      BY <1>1, CopWrittenType, FlushType
    <2> QED BY <2>1, FinishType
  <1>5. CASE InvalidCop(f)
    <2> PICK d \in Register : Finish(f, Flush(Exception(f.cpu, "INVALID_COPX"), d))
      BY <1>5 DEF InvalidCop
    <2>1. Flush(Exception(f.cpu, "INVALID_COPX"), d) \in Processor
      BY <1>2, <1>3, FlushType
    <2> QED BY <2>1, FinishType
  <1>6. CASE SystemTrap(f)
    BY <1>2, <1>3, <1>6, FinishType DEF SystemTrap
  <1>7. CASE Sysret(f)
    <2> DEFINE down == PrivilegeDown(f.cpu)
    <2>1. [down EXCEPT !.pc = down.xpc] \in Processor
      BY <1>1, PrivilegeDownType DEF Processor
    <2>2. Finish(f, [down EXCEPT !.pc = down.xpc])
      BY <1>7 DEF Sysret
    <2> QED BY <2>1, <2>2, FinishType
  <1>8. CASE IllegalInstruction(f)
    BY <1>2, <1>3, <1>8, FinishType DEF IllegalInstruction
  <1> QED BY <1>4, <1>5, <1>6, <1>7, <1>8

LEMMA ExecuteMemoryType ==
    ASSUME TypeOK, NEW f \in Prepared, Load(f) \/ Store(f)
    PROVE  TypeOK'
  <1>1. f.cpu \in Processor /\ f.bus \subseteq BusAccess
    BY DEF Prepared
  <1>2. Data \cup {0} \subseteq Word
    BY SoftwareAssumption, SmallWords
  <1>3. CASE Load(f)
    <2> PICK addr \in Data, size \in Size, d \in Register :
               \E r \in Access(f.cpu, addr, size), v \in Data \cup {0} :
                  /\ r.dev = 0 => v = 0
                  /\ cpu' = WriteRegister(r.cpu, d, v)
                  /\ bus' = f.bus \cup OnBus("read", r)
                  /\ host' = host
      BY <1>3 DEF Load
    <2> PICK r \in Access(f.cpu, addr, size), v \in Data \cup {0} :
                  /\ cpu' = WriteRegister(r.cpu, d, v)
                  /\ bus' = f.bus \cup OnBus("read", r)
                  /\ host' = host
      OBVIOUS
    <2>1. r \in AccessResult
      BY <1>1, <1>2, AccessType
    <2>2. WriteRegister(r.cpu, d, v) \in Processor
      BY <1>2, <2>1, WriteRegisterType DEF AccessResult
    <2>3. OnBus("read", r) \subseteq BusAccess
      BY <2>1, OnBusType
    <2> QED BY <1>1, <2>2, <2>3 DEF TypeOK
  <1>4. CASE Store(f)
    <2> PICK addr \in Data, size \in Size :
               \E r \in Access(f.cpu, addr, size), reset \in BOOLEAN :
                  /\ reset => r.dev = IoDevice /\ r.dev # 0
                  /\ cpu' = IF reset THEN Exception(r.cpu, "RESET") ELSE r.cpu
                  /\ bus' = f.bus \cup OnBus("write", r)
                  /\ host' = host
      BY <1>4 DEF Store
    <2> PICK r \in Access(f.cpu, addr, size), reset \in BOOLEAN :
                  /\ cpu' = IF reset THEN Exception(r.cpu, "RESET") ELSE r.cpu
                  /\ bus' = f.bus \cup OnBus("write", r)
                  /\ host' = host
      OBVIOUS
    <2>1. r \in AccessResult
      BY <1>1, <1>2, AccessType
    <2>2. r.cpu \in Processor /\ Exception(r.cpu, "RESET") \in Processor
      BY <2>1, ExceptionType DEF AccessResult, Cause
    <2>3. OnBus("write", r) \subseteq BusAccess
      BY <2>1, OnBusType
    <2> QED BY <1>1, <2>2, <2>3 DEF TypeOK
  <1> QED BY <1>3, <1>4

LEMMA InitType == Init => TypeOK
  <1>1. ResetProcessor \in Processor
    BY SmallWords, SlotTypes
       DEF ResetProcessor, Processor, PrivilegeLevel, Cause, Map, MapEntry
  <1> QED BY <1>1 DEF Init, TypeOK, HostState

LEMMA NextType == TypeOK /\ [Next]_vars => TypeOK'
  <1> SUFFICES ASSUME TypeOK, [Next]_vars PROVE TypeOK'
    OBVIOUS
  <1>1. CASE Cycle
    <2> PICK f \in Fetched : Execute(f)
      BY <1>1 DEF Cycle
    <2>1. f \in Prepared
      BY FetchedType
    <2> QED BY <2>1, ExecuteWritingType, ExecuteDyingType, ExecuteIdleType,
               ExecuteControlType, ExecuteMemoryType DEF Execute
  <1>2. CASE Interrupt
    <2>1. Exception(cpu, "KBC") \in Processor
      BY ExceptionType DEF TypeOK, Cause
    <2> QED BY <1>2, <2>1 DEF Interrupt, TypeOK
  <1>3. CASE UNCHANGED vars
    BY <1>3 DEF vars, TypeOK
  <1> QED BY <1>1, <1>2, <1>3 DEF Next

\* The processor state keeps its type through every cycle and key press, for
\* all word and map sizes, devices, builds and software: privilege levels stay
\* within 0 to 3, addresses wrap, an access raises at most three exceptions.
THEOREM TypeCorrect == Spec => []TypeOK
  <1>1. Init => TypeOK
    BY InitType
  <1>2. TypeOK /\ [Next]_vars => TypeOK'
    BY NextType
  <1> QED BY <1>1, <1>2, PTL DEF Spec
------------------------------------------------------------------------------
(***************************************************************************)
(* Under the boot plan of stack.txt, address translation and the map in    *)
(* use follow the privilege level, whatever the program and the devices    *)
(* do, for every word and map size.                                        *)
(*                                                                         *)
(* Both properties are inductive once the type of the state is known, so   *)
(* the argument is one lemma per operator: it takes a sound processor      *)
(* state to a sound one.  A third theorem is about level 0 itself: where   *)
(* its handler cannot be fetched, nothing is ever executed again.          *)
(***************************************************************************)
Automatic == {"ENABLE_ON_TPL1", "DISABLE_ON_TPL0"}

Coupled(c) ==
    /\ Automatic \subseteq c.ctrl => ("ENABLE" \in c.ctrl <=> c.pl > 0)
    /\ c.cmap = IF "REMAP_ON_PLT" \in c.ctrl THEN c.pl ELSE 0

Sound == {c \in Processor : Coupled(c)}

\* Nothing the coupling speaks of differs.
SameLevel(c, d) == d.ctrl = c.ctrl /\ d.pl = c.pl /\ d.cmap = c.cmap

LEMMA SameLevelSound ==
    ASSUME NEW c \in Sound, NEW d \in Processor, SameLevel(c, d)
    PROVE  d \in Sound
  BY DEF Sound, Coupled, SameLevel

LEMMA PrivilegeUpSound ==
    ASSUME NEW c \in Sound PROVE PrivilegeUp(c) \in Sound
  <1>1. c \in Processor /\ PrivilegeUp(c) \in Processor
    BY PrivilegeUpType DEF Sound
  <1>2. CASE c.pl = 0
    BY <1>2 DEF PrivilegeUp
  <1>3. CASE c.pl # 0
    <2> DEFINE s == [c EXCEPT !.pl = c.pl - 1]
               ctrl == IF s.pl = 0 /\ "DISABLE_ON_TPL0" \in s.ctrl
                       THEN s.ctrl \ {"ENABLE"}
                       ELSE IF s.pl = 1 /\ "ENABLE_ON_TPL1" \in s.ctrl
                       THEN s.ctrl \cup {"ENABLE"}
                       ELSE s.ctrl
    <2>1. s.pl = c.pl - 1 /\ s.ctrl = c.ctrl /\ s.cmap = c.cmap /\ c.pl \in 1 .. 3
      BY <1>1, <1>3 DEF Processor, PrivilegeLevel
    <2>2. PrivilegeUp(c) = EnterLevel(s)
      BY <1>3 DEF PrivilegeUp
    <2>3. /\ PrivilegeUp(c).ctrl = ctrl
          /\ PrivilegeUp(c).pl = s.pl
          /\ PrivilegeUp(c).cmap = IF "REMAP_ON_PLT" \in ctrl THEN s.pl ELSE s.cmap
      BY <1>1, <2>2 DEF EnterLevel, Processor
    <2>4. "REMAP_ON_PLT" \in ctrl <=> "REMAP_ON_PLT" \in c.ctrl
      BY <2>1
    <2>5. Automatic \subseteq ctrl => ("ENABLE" \in ctrl <=> s.pl > 0)
      BY <2>1 DEF Sound, Coupled, Automatic
    <2>6. Coupled(PrivilegeUp(c))
      <3> HIDE DEF s, ctrl
      <3> QED BY <2>1, <2>3, <2>4, <2>5 DEF Sound, Coupled
    <2> QED BY <1>1, <2>6 DEF Sound
  <1> QED BY <1>2, <1>3

LEMMA PrivilegeDownSound ==
    ASSUME NEW c \in Sound PROVE PrivilegeDown(c) \in Sound
  <1>1. c \in Processor /\ PrivilegeDown(c) \in Processor
    BY PrivilegeDownType DEF Sound
  <1>2. CASE c.pl = 3
    BY <1>2 DEF PrivilegeDown
  <1>3. CASE c.pl # 3
    <2> DEFINE s == [c EXCEPT !.pl = c.pl + 1]
               ctrl == IF s.pl = 0 /\ "DISABLE_ON_TPL0" \in s.ctrl
                       THEN s.ctrl \ {"ENABLE"}
                       ELSE IF s.pl = 1 /\ "ENABLE_ON_TPL1" \in s.ctrl
                       THEN s.ctrl \cup {"ENABLE"}
                       ELSE s.ctrl
    <2>1. s.pl = c.pl + 1 /\ s.ctrl = c.ctrl /\ s.cmap = c.cmap /\ c.pl \in 0 .. 2
      BY <1>1, <1>3 DEF Processor, PrivilegeLevel
    <2>2. PrivilegeDown(c) = EnterLevel(s)
      BY <1>3 DEF PrivilegeDown
    <2>3. /\ PrivilegeDown(c).ctrl = ctrl
          /\ PrivilegeDown(c).pl = s.pl
          /\ PrivilegeDown(c).cmap = IF "REMAP_ON_PLT" \in ctrl THEN s.pl ELSE s.cmap
      BY <1>1, <2>2 DEF EnterLevel, Processor
    <2>4. "REMAP_ON_PLT" \in ctrl <=> "REMAP_ON_PLT" \in c.ctrl
      BY <2>1
    <2>5. Automatic \subseteq ctrl => ("ENABLE" \in ctrl <=> s.pl > 0)
      BY <2>1 DEF Sound, Coupled, Automatic
    <2>6. Coupled(PrivilegeDown(c))
      <3> HIDE DEF s, ctrl
      <3> QED BY <2>1, <2>3, <2>4, <2>5 DEF Sound, Coupled
    <2> QED BY <1>1, <2>6 DEF Sound
  <1> QED BY <1>2, <1>3
------------------------------------------------------------------------------
(***************************************************************************)
(* Exceptions, register writes and accesses.                               *)
(***************************************************************************)
LEMMA FlushSound ==
    ASSUME NEW c \in Sound, NEW d PROVE Flush(c, d) \in Sound
  <1>1. c \in Processor /\ Flush(c, d) \in Processor
    BY FlushType DEF Sound
  <1>2. SameLevel(c, Flush(c, d))
    BY <1>1 DEF Flush, SameLevel, Processor
  <1> QED BY <1>1, <1>2, SameLevelSound

LEMMA WriteRegisterSound ==
    ASSUME NEW c \in Sound, NEW d, NEW v \in Word
    PROVE  WriteRegister(c, d, v) \in Sound
  <1>1. c \in Processor
    BY DEF Sound
  <1>2. [c EXCEPT !.pc = v] \in Processor /\ SameLevel(c, [c EXCEPT !.pc = v])
    BY <1>1 DEF Processor, SameLevel
  <1>3. [c EXCEPT !.pc = v] \in Sound
    BY <1>2, SameLevelSound
  <1> QED BY <1>3, FlushSound DEF WriteRegister

LEMMA ExceptionSound ==
    ASSUME NEW c \in Sound, NEW cause \in Cause PROVE Exception(c, cause) \in Sound
  <1> DEFINE up == PrivilegeUp(c)
             entered == [up EXCEPT !.xcause = cause, !.xpc = up.pc, !.pc = up.xhaddr]
  <1>1. up \in Sound /\ up \in Processor
    BY PrivilegeUpSound DEF Sound
  <1> HIDE DEF up
  <1>2. entered \in Processor /\ SameLevel(up, entered)
    BY <1>1 DEF Processor, SameLevel
  <1>3. entered \in Sound
    BY <1>1, <1>2, SameLevelSound
  <1>4. Exception(c, cause) = Flush(entered, "pc")
    BY DEF Exception, up
  <1> HIDE DEF entered
  <1> QED BY <1>3, <1>4, FlushSound

LEMMA AlignSound ==
    ASSUME NEW c \in Sound, NEW phys, NEW size, NEW n
    PROVE  Align(c, phys, size, n).cpu \in Sound
  <1>1. {"MMU_XALIGN", "MMU_RWALIGN"} \subseteq Cause
    BY DEF Cause
  <1>2. Exception(c, IF size = "EXEC" THEN "MMU_XALIGN" ELSE "MMU_RWALIGN") \in Sound
    BY <1>1, ExceptionSound
  <1> QED BY <1>2 DEF Align

LEMMA TranslateSound ==
    ASSUME NEW c \in Sound, NEW i, NEW vaddr, NEW size
    PROVE  \A r \in Translate(c, i, vaddr, size) : r.cpu \in Sound
  <1> DEFINE noExec == size = "EXEC" /\ "EXEC" \notin c.maps[c.cmap][i].attr
             n == IF noExec THEN 1 ELSE 0
             d == IF noExec THEN Exception(c, "MMU_PROT_EXEC") ELSE c
  <1>1. {"MMU_PROT_EXEC", "MMU_PROT_READ"} \subseteq Cause
    BY DEF Cause
  <1>2. d \in Sound
    BY <1>1, ExceptionSound
  <1> SUFFICES ASSUME NEW v \in Reread(c, i, vaddr, noExec)
               PROVE  (IF "READ" \in v.attr
                       THEN Align(d, v.phys, size, n)
                       ELSE [cpu |-> Exception(d, "MMU_PROT_READ"),
                             phys |-> 0, faults |-> n + 1]).cpu \in Sound
    BY DEF Translate
  <1> HIDE DEF n, d
  <1>3. Align(d, v.phys, size, n).cpu \in Sound
    BY <1>2, AlignSound
  <1>4. Exception(d, "MMU_PROT_READ") \in Sound
    BY <1>1, <1>2, ExceptionSound
  <1> QED BY <1>3, <1>4

LEMMA GetPhysSound ==
    ASSUME NEW c \in Sound, NEW addr, NEW size
    PROVE  \A r \in GetPhys(c, addr, size) : r.cpu \in Sound
  <1>1. CASE "ENABLE" \notin c.ctrl
    BY <1>1, AlignSound DEF GetPhys
  <1>2. CASE "ENABLE" \in c.ctrl
    <2> SUFFICES ASSUME NEW i \in SearchMap(c, addr),
                        NEW r \in IF i = NoEntry
                                  THEN {[cpu |-> Exception(c, "MMU_NOMAP"), phys |-> 0, faults |-> 1]}
                                  ELSE Translate(c, i, addr, size)
                 PROVE  r.cpu \in Sound
      BY <1>2 DEF GetPhys
    <2>1. Exception(c, "MMU_NOMAP") \in Sound
      BY ExceptionSound DEF Cause
    <2> QED BY <2>1, TranslateSound
  <1> QED BY <1>1, <1>2

LEMMA AccessSound ==
    ASSUME NEW c \in Sound, NEW addr, NEW size
    PROVE  \A r \in Access(c, addr, size) : r.cpu \in Sound
  <1> SUFFICES ASSUME NEW r \in GetPhys(c, addr, size), NEW dev \in DevicesAt(r.phys)
               PROVE  (IF dev = 0 THEN Exception(r.cpu, "MMU_NOMAP") ELSE r.cpu) \in Sound
    BY DEF Access
  <1>1. r.cpu \in Sound
    BY GetPhysSound
  <1> QED BY <1>1, ExceptionSound DEF Cause

LEMMA FetchedSound ==
    ASSUME TypeOK, cpu \in Sound
    PROVE  \A f \in Fetched : f \in Prepared /\ f.cpu \in Sound
  <1> SUFFICES ASSUME NEW f \in Fetched PROVE f \in Prepared /\ f.cpu \in Sound
    OBVIOUS
  <1> PICK r \in Access(Shift(cpu), cpu.pc, "EXEC") :
             f = [cpu |-> [r.cpu EXCEPT !.pipe[0] = Latch(r, cpu.pc), !.pc = Succ(@)],
                  bus |-> OnBus("fetch", r)]
    BY DEF Fetched
  <1>1. f \in Prepared
    BY FetchedType
  <1>2. Shift(cpu) \in Processor /\ SameLevel(cpu, Shift(cpu))
    BY ShiftType DEF TypeOK, Processor, Shift, SameLevel
  <1>3. r.cpu \in Sound /\ r.cpu \in Processor
    BY <1>2, SameLevelSound, AccessSound DEF Sound
  <1>4. f.cpu \in Processor
    BY <1>1 DEF Prepared
  <1>5. SameLevel(r.cpu, f.cpu)
    BY <1>3 DEF SameLevel, Processor
  <1> QED BY <1>1, <1>3, <1>4, <1>5, SameLevelSound
------------------------------------------------------------------------------
(***************************************************************************)
(* The instructions.  Only the write to cop4_ctrl needs the boot plan: it  *)
(* happens at level 0 and leaves translation off.                          *)
(***************************************************************************)
LEMMA CopWrittenSound ==
    ASSUME CtrlDiscipline, NEW c \in Sound, NEW cr \in Writable
    PROVE  CopWritten(c, cr) \subseteq Sound
  <1>1. c \in Processor /\ CopWritten(c, cr) \subseteq Processor
    BY CopWrittenType DEF Sound
  <1> SUFFICES ASSUME NEW d \in CopWritten(c, cr) PROVE d \in Sound
    OBVIOUS
  <1>2. d \in Processor
    BY <1>1
  <1>3. CASE cr = "ctrl"
    <2> PICK v \in CtrlValues : c.pl \in CtrlLevels /\ d = [c EXCEPT !.ctrl = v]
      BY <1>3 DEF CopWritten
    <2>1. c.pl = 0 /\ "ENABLE" \notin v
      BY DEF CtrlDiscipline
    <2>2. d.ctrl = v /\ d.pl = 0 /\ d.cmap = c.cmap
      BY <1>1, <2>1 DEF Processor
    <2>3. d.cmap = 0
      BY <2>1, <2>2 DEF Sound, Coupled
    <2>4. Coupled(d)
      <3>1. ~(0 > 0)
        OBVIOUS
      <3>2. d.pl = 0 /\ d.cmap = 0 /\ "ENABLE" \notin d.ctrl
        BY <2>1, <2>2, <2>3
      <3> QED BY <3>1, <3>2, Zenon DEF Coupled
    <2> QED BY <1>2, <2>4 DEF Sound
  <1>4. CASE cr = "map"
    <2> PICK q, e, w : d = MapWritten(c, q, e, w)
      BY <1>4 DEF CopWritten
    <2>1. SameLevel(c, d)
      BY <1>1 DEF MapWritten, SameLevel, Processor
    <2> QED BY <1>2, <2>1, SameLevelSound
  <1>5. CASE cr \in CopRegister \ {"ctrl", "map"}
    <2>1. \/ d = c
          \/ \E v : d = [c EXCEPT !.xflush = v]
          \/ \E v : d = [c EXCEPT !.xcause = v]
          \/ \E v : d = [c EXCEPT !.xhaddr = v]
          \/ \E v : d = [c EXCEPT !.xpc = v]
          \/ \E v : d = [c EXCEPT !.msel = v]
      BY <1>5 DEF CopWritten, CopRegister
    <2>2. SameLevel(c, d)
      BY <1>1, <2>1 DEF SameLevel, Processor
    <2> QED BY <1>2, <2>2, SameLevelSound
  <1>6. cr \in CopRegister
    BY SoftwareAssumption
  <1> QED BY <1>3, <1>4, <1>5, <1>6

LEMMA ExecuteWritingSound ==
    ASSUME NEW f \in Prepared, f.cpu \in Sound,
           \/ Alu(f) \/ BranchImmediate(f) \/ BranchRegister(f)
           \/ MoveFromCop(f) \/ LoadEffectiveAddress(f) \/ LoadImmediate(f)
           \/ SetCondImmediate(f) \/ SetCondRegister(f)
    PROVE  cpu' \in Sound
  <1>1. Data \cup {0, 1} \subseteq Word
    BY SoftwareAssumption, SmallWords
  <1>2. \A v \in Data : Plus(f.cpu.pc, v) \in Word
    BY <1>1, PlusType DEF Prepared, Processor
  <1>3. cpu' = f.cpu \/ \E d \in Register, v \in Word : cpu' = WriteRegister(f.cpu, d, v)
    BY <1>1, <1>2 DEF Alu, BranchImmediate, BranchRegister, MoveFromCop,
       LoadEffectiveAddress, LoadImmediate, SetCondImmediate, SetCondRegister, Finish, Register
  <1> QED BY <1>3, WriteRegisterSound

LEMMA ExecuteStayingSound ==
    ASSUME NEW f \in Prepared, f.cpu \in Sound,
           \/ Nop(f) \/ CopInstruction(f) \/ ReservedLoadStore(f)
           \/ AluDivideByZero(f) \/ BranchRegisterBadCondition(f) \/ MoveToCopBeyondMaps(f)
           \/ ReservedExchange(f) \/ DebugExit(f) \/ SetCondRegisterBadCondition(f)
    PROVE  cpu' \in Sound
  BY DEF Nop, CopInstruction, ReservedLoadStore, AluDivideByZero,
     BranchRegisterBadCondition, MoveToCopBeyondMaps, ReservedExchange, DebugExit,
     SetCondRegisterBadCondition, Finish, Die

LEMMA ExecuteControlSound ==
    ASSUME CtrlDiscipline, NEW f \in Prepared, f.cpu \in Sound,
           \/ MoveToCop(f) \/ InvalidCop(f)
           \/ SystemTrap(f) \/ Sysret(f) \/ IllegalInstruction(f)
    PROVE  cpu' \in Sound
  <1>1. \A cause \in Cause : Exception(f.cpu, cause) \in Sound
    BY ExceptionSound
  <1>2. {"SYSCALL", "TPL", "DEBUG", "SEXCEPT", "INVALID_COPX", "ILLEGAL_INSTR"} \subseteq Cause
    BY DEF Cause
  <1>3. CASE MoveToCop(f)
    BY <1>3, CopWrittenSound, FlushSound DEF MoveToCop, Finish
  <1>4. CASE InvalidCop(f)
    BY <1>1, <1>2, <1>4, FlushSound DEF InvalidCop, Finish
  <1>5. CASE SystemTrap(f)
    BY <1>1, <1>2, <1>5 DEF SystemTrap, Finish
  <1>6. CASE Sysret(f)
    <2> DEFINE down == PrivilegeDown(f.cpu)
    <2>1. cpu' = [down EXCEPT !.pc = down.xpc]
      BY <1>6 DEF Sysret, Finish
    <2>2. down \in Sound /\ down \in Processor
      BY PrivilegeDownSound DEF Sound
    <2> HIDE DEF down
    <2>3. cpu' \in Processor /\ SameLevel(down, cpu')
      BY <2>1, <2>2 DEF Processor, SameLevel
    <2> QED BY <2>2, <2>3, SameLevelSound
  <1>7. CASE IllegalInstruction(f)
    BY <1>1, <1>2, <1>7 DEF IllegalInstruction, Finish
  <1> QED BY <1>3, <1>4, <1>5, <1>6, <1>7

LEMMA ExecuteMemorySound ==
    ASSUME NEW f \in Prepared, f.cpu \in Sound, Load(f) \/ Store(f)
    PROVE  cpu' \in Sound
  <1>1. Data \cup {0} \subseteq Word /\ "RESET" \in Cause
    BY SoftwareAssumption, SmallWords DEF Cause
  <1>2. CASE Load(f)
    <2> PICK addr, size, d, v : /\ v \in Data \cup {0}
                               /\ \E r \in Access(f.cpu, addr, size) :
                                    cpu' = WriteRegister(r.cpu, d, v)
      BY <1>2 DEF Load
    <2> QED BY <1>1, AccessSound, WriteRegisterSound
  <1>3. CASE Store(f)
    <2> PICK addr, size, reset : \E r \in Access(f.cpu, addr, size) :
                cpu' = IF reset THEN Exception(r.cpu, "RESET") ELSE r.cpu
      BY <1>3 DEF Store
    <2> QED BY <1>1, AccessSound, ExceptionSound
  <1> QED BY <1>2, <1>3

LEMMA NextSound ==
    ASSUME CtrlDiscipline, TypeOK, cpu \in Sound, [Next]_vars
    PROVE  cpu' \in Sound
  <1>1. CASE Cycle
    <2> PICK f \in Fetched : Execute(f)
      BY <1>1 DEF Cycle
    <2>1. f \in Prepared /\ f.cpu \in Sound
      BY FetchedSound
    <2> QED BY <2>1, ExecuteWritingSound, ExecuteStayingSound, ExecuteControlSound,
               ExecuteMemorySound DEF Execute
  <1>2. CASE Interrupt
    BY <1>2, ExceptionSound DEF Interrupt, Cause
  <1>3. CASE UNCHANGED vars
    BY <1>3 DEF vars
  <1> QED BY <1>1, <1>2, <1>3 DEF Next

LEMMA InitSound == Init => cpu \in Sound
  <1>1. Init => cpu \in Processor
    BY InitType DEF TypeOK
  <1> QED BY <1>1 DEF Init, ResetProcessor, Sound, Coupled, Automatic

\* The whole argument, kept in one theorem for the two that follow.
LEMMA AlwaysSound == CtrlDiscipline /\ Spec => [](cpu \in Sound)
  <1>1. CtrlDiscipline /\ Init => cpu \in Sound
    BY InitSound
  <1>2. CtrlDiscipline /\ TypeOK /\ cpu \in Sound /\ [Next]_vars => cpu' \in Sound
    BY NextSound
  <1>3. CASE CtrlDiscipline
    <2>1. TypeOK /\ cpu \in Sound /\ [Next]_vars => (cpu \in Sound)'
      BY <1>2, <1>3
    <2> QED BY InitSound, <2>1, TypeCorrect, PTL DEF Spec
  <1> QED BY <1>3

\* privilege_up, privilege_down and every path that calls them keep translation
\* on exactly outside level 0, provided the software follows the boot plan.
THEOREM TranslationFollowsLevel == CtrlDiscipline /\ Spec => []MmuFollowsPrivilege
  <1>1. cpu \in Sound => MmuFollowsPrivilege
    BY DEF Sound, Coupled, Automatic, MmuFollowsPrivilege
  <1> QED BY <1>1, AlwaysSound, PTL

\* ... and the map in use is the one of the level while REMAP_ON_PLT is on.
THEOREM MapFollowsLevel == CtrlDiscipline /\ Spec => []MapFollowsPrivilege
  <1>1. cpu \in Sound => MapFollowsPrivilege
    BY DEF Sound, Coupled, MapFollowsPrivilege
  <1> QED BY <1>1, AlwaysSound, PTL
------------------------------------------------------------------------------
(***************************************************************************)
(* A processor that gets stuck at level 0 stays so, with any software.     *)
(* The cycles of a stuck processor go through exceptions that change       *)
(* nothing but the causes and addresses they record: the level is 0        *)
(* already, the pipeline is emptied, and the pc comes out at the handler,  *)
(* one word further when the failing fetch is through.                     *)
(***************************************************************************)
\* At level 0 without translation, with the handler at h.
Bare(h) ==
    {c \in Processor : c.xflush /\ c.pl = 0 /\ "ENABLE" \notin c.ctrl /\ c.xhaddr = h}

\* ... as an exception leaves it.
Dropped(h) == {c \in Bare(h) : c.pc = h /\ c.pipe = EmptyPipe}

LEMMA ExceptionDrops ==
    ASSUME NEW h, NEW c \in Bare(h), NEW cause \in Cause
    PROVE  Exception(c, cause) \in Dropped(h)
  <1> DEFINE entered == [c EXCEPT !.xcause = cause, !.xpc = c.pc, !.pc = c.xhaddr]
  <1>1. PrivilegeUp(c) = c
    BY DEF PrivilegeUp, Bare
  <1>2. Exception(c, cause) = Flush(entered, "pc")
    BY <1>1 DEF Exception
  <1>3. Exception(c, cause) \in Processor
    BY ExceptionType DEF Bare
  <1>4. entered.xflush /\ entered.pl = 0 /\ "ENABLE" \notin entered.ctrl
        /\ entered.xhaddr = h /\ entered.pc = h
    BY DEF Bare, Processor
  <1>5. Flush(entered, "pc") = [entered EXCEPT !.pipe = EmptyPipe]
    BY <1>4 DEF Flush
  <1>6. [entered EXCEPT !.pipe = EmptyPipe].pipe = EmptyPipe
    BY DEF Bare, Processor
  <1> HIDE DEF entered
  <1>7. LET d == [entered EXCEPT !.pipe = EmptyPipe]
        IN  /\ d.xflush = entered.xflush /\ d.pl = entered.pl /\ d.ctrl = entered.ctrl
            /\ d.xhaddr = entered.xhaddr /\ d.pc = entered.pc
    OBVIOUS
  <1> QED BY <1>2, <1>3, <1>4, <1>5, <1>6, <1>7 DEF Dropped, Bare

\* An access leaves the processor alone or drops it.
LEMMA AccessDrops ==
    ASSUME NEW h, NEW c \in Bare(h), NEW addr, NEW r \in Access(c, addr, "EXEC")
    PROVE  /\ r.cpu = c \/ r.cpu \in Dropped(h)
           /\ addr % 4 # 0 \/ DevicesAt(addr) = {0} => r.cpu \in Dropped(h)
  <1>1. {"MMU_XALIGN", "MMU_NOMAP"} \subseteq Cause
    BY DEF Cause
  <1> DEFINE a == Align(c, addr, "EXEC", 0)
  <1>2. GetPhys(c, addr, "EXEC") = {a}
    BY DEF GetPhys, Bare
  <1>3. PICK dev \in DevicesAt(a.phys) :
               r.cpu = IF dev = 0 THEN Exception(a.cpu, "MMU_NOMAP") ELSE a.cpu
    BY <1>2 DEF Access
  <1>4. a.phys = addr
    BY DEF Align
  <1>5. IF addr % 4 # 0 THEN a.cpu \in Dropped(h) ELSE a.cpu = c
    <2>1. Misaligned(c, addr, "EXEC") <=> addr % 4 # 0
      BY DEF Misaligned
    <2>2. Exception(c, "MMU_XALIGN") \in Dropped(h)
      BY <1>1, ExceptionDrops
    <2> QED BY <2>1, <2>2 DEF Align
  <1>6. a.cpu \in Bare(h)
    BY <1>5 DEF Dropped
  <1>7. Exception(a.cpu, "MMU_NOMAP") \in Dropped(h)
    BY <1>1, <1>6, ExceptionDrops
  <1> HIDE DEF a
  <1> QED BY <1>3, <1>4, <1>5, <1>7

\* A step of the pipeline behind two bubbles.
LEMMA ShiftBare ==
    ASSUME NEW h, NEW c \in Bare(h), c.pipe[1] = Bubble
    PROVE  /\ Shift(c) \in Bare(h) /\ Shift(c).pc = c.pc
           /\ Shift(c).pipe[1] = c.pipe[0] /\ Shift(c).pipe[2] = Bubble
  <1>1. Shift(c) \in Processor
    BY ShiftType DEF Bare
  <1> QED BY <1>1 DEF Shift, Bare, Processor

LEMMA CycleStuck ==
    ASSUME TypeOK, Stuck, Cycle
    PROVE  Stuck'
  <1> DEFINE h == cpu.xhaddr
  <1>1. cpu \in Bare(h) /\ cpu.pc \in Word
    BY DEF TypeOK, Stuck, Bare, Processor
  <1>2. /\ Shift(cpu) \in Bare(h) /\ Shift(cpu).pc = cpu.pc
        /\ Shift(cpu).pipe[1] = cpu.pipe[0] /\ Shift(cpu).pipe[2] = Bubble
    BY <1>1, ShiftBare DEF Stuck
  <1>3. PICK f \in Fetched : Execute(f)
    BY DEF Cycle
  <1>4. PICK r \in Access(Shift(cpu), cpu.pc, "EXEC") :
               f = [cpu |-> [r.cpu EXCEPT !.pipe[0] = Latch(r, cpu.pc), !.pc = Succ(@)],
                    bus |-> OnBus("fetch", r)]
    BY <1>3 DEF Fetched
  <1>5. /\ r.cpu = Shift(cpu) \/ r.cpu \in Dropped(h)
        /\ cpu.pc % 4 # 0 \/ DevicesAt(cpu.pc) = {0} => r.cpu \in Dropped(h)
    BY <1>2, AccessDrops
  <1>6. r.cpu \in Bare(h) /\ r.cpu.pc = h /\ r.cpu.pipe[1] = Bubble /\ r.cpu.pipe[2] = Bubble
    <2>1. CASE r.cpu \in Dropped(h)
      BY <2>1 DEF Dropped, EmptyPipe
    <2>2. CASE r.cpu \notin Dropped(h)
      <3>1. r.cpu = Shift(cpu)
        BY <1>5, <2>2
      <3>2. cpu.pc = h /\ cpu.pipe[0] = Bubble
        BY <1>5, <2>2 DEF Stuck, HandlerUnfetchable
      <3> QED BY <1>2, <3>1, <3>2
    <2> QED BY <2>1, <2>2
  <1> DEFINE g == [r.cpu EXCEPT !.pipe[0] = Latch(r, cpu.pc), !.pc = Succ(@)]
  <1>7. /\ g.xflush /\ g.pl = 0 /\ "ENABLE" \notin g.ctrl /\ g.xhaddr = h
        /\ g.pc = Succ(h) /\ g.pipe[1] = Bubble /\ g.pipe[2] = Bubble
    BY <1>6 DEF Bare, Processor
  <1>8. f.cpu = g
    BY <1>4
  <1> HIDE DEF g, h
  <1>9. cpu' = g
    <2>1. IsNop(f) /\ ~IsInstruction(f)
      BY <1>7, <1>8 DEF IsNop, IsInstruction, Bubble
    <2>2. Nop(f)
      BY <1>3, <2>1 DEF Execute, Alu, AluDivideByZero, BranchImmediate, BranchRegister,
         BranchRegisterBadCondition, CopInstruction, MoveToCop, MoveToCopBeyondMaps,
         MoveFromCop, InvalidCop, ReservedExchange, SystemTrap, DebugExit, Sysret, Load,
         Store, LoadEffectiveAddress, ReservedLoadStore, LoadImmediate, SetCondImmediate,
         SetCondRegister, SetCondRegisterBadCondition, IllegalInstruction
    <2> QED BY <1>8, <2>2 DEF Nop, Finish
  <1>10. HandlerUnfetchable(cpu)'
    BY <1>7, <1>9 DEF Stuck, HandlerUnfetchable, h
  <1> QED BY <1>7, <1>9, <1>10 DEF Stuck

LEMMA InterruptStuck ==
    ASSUME TypeOK, Stuck, Interrupt
    PROVE  Stuck'
  <1> DEFINE h == cpu.xhaddr
  <1>1. cpu \in Bare(h)
    BY DEF TypeOK, Stuck, Bare
  <1>2. cpu' \in Dropped(h)
    BY <1>1, ExceptionDrops DEF Interrupt, Cause
  <1>3. HandlerUnfetchable(cpu)'
    BY <1>2 DEF Stuck, HandlerUnfetchable, Dropped, Bare
  <1> QED BY <1>2, <1>3 DEF Stuck, Dropped, Bare, EmptyPipe

\* Once stuck, the processor executes nothing any more: no cycle and no key
\* press leads out.
THEOREM NoWayOut == Spec => StuckForever
  <1>1. TypeOK /\ [Next]_vars => (Stuck => Stuck')
    <2> SUFFICES ASSUME TypeOK, [Next]_vars, Stuck PROVE Stuck'
      OBVIOUS
    <2>1. CASE Cycle
      BY <2>1, CycleStuck
    <2>2. CASE Interrupt
      BY <2>2, InterruptStuck
    <2>3. CASE UNCHANGED vars
      BY <2>3 DEF vars, Stuck, HandlerUnfetchable
    <2> QED BY <2>1, <2>2, <2>3 DEF Next
  <1> QED BY <1>1, TypeCorrect, PTL DEF Spec, StuckForever
------------------------------------------------------------------------------
(***************************************************************************)
(* Every access that raised nothing was granted by the address map, and    *)
(* one that raised something stays where the map or the failed check sends *)
(* it, for every map size, list of devices, build and software that leaves *)
(* the flush bit of cop0_cr0 alone.                                        *)
(*                                                                         *)
(* A cycle makes up to two accesses: the fetch, in the state the property  *)
(* looks at, and that of a load or store, in the state the fetch left.  A  *)
(* fetch that raised an exception may have switched translation off or     *)
(* changed the map; what saves the property is that it has emptied the     *)
(* pipeline as well, so that no load or store follows it in that cycle.    *)
(***************************************************************************)
Flushing == {c \in Processor : c.xflush}

LEMMA PrivilegeFlushing ==
    ASSUME NEW c \in Flushing
    PROVE  PrivilegeUp(c) \in Flushing /\ PrivilegeDown(c) \in Flushing
  <1>1. c \in Processor /\ PrivilegeUp(c) \in Processor /\ PrivilegeDown(c) \in Processor
    BY PrivilegeUpType, PrivilegeDownType DEF Flushing
  <1>2. PrivilegeUp(c).xflush = c.xflush
    BY <1>1 DEF PrivilegeUp, EnterLevel, Processor
  <1>3. PrivilegeDown(c).xflush = c.xflush
    BY <1>1 DEF PrivilegeDown, EnterLevel, Processor
  <1> QED BY <1>1, <1>2, <1>3 DEF Flushing

LEMMA FlushFlushing ==
    ASSUME NEW c \in Flushing, NEW d
    PROVE  /\ Flush(c, d) \in Flushing
           /\ d = "pc" => Flush(c, d).pipe = EmptyPipe
  <1>1. c \in Processor /\ Flush(c, d) \in Processor
    BY FlushType DEF Flushing
  <1> QED BY <1>1 DEF Flush, Flushing, Processor

LEMMA WriteRegisterFlushing ==
    ASSUME NEW c \in Flushing, NEW d, NEW v \in Word
    PROVE  WriteRegister(c, d, v) \in Flushing
  <1>1. [c EXCEPT !.pc = v] \in Flushing
    BY DEF Flushing, Processor
  <1> QED BY <1>1, FlushFlushing DEF WriteRegister

LEMMA ExceptionFlushing ==
    ASSUME NEW c \in Flushing, NEW cause \in Cause
    PROVE  Exception(c, cause) \in Flushing /\ Exception(c, cause).pipe = EmptyPipe
  <1> DEFINE up == PrivilegeUp(c)
             entered == [up EXCEPT !.xcause = cause, !.xpc = up.pc, !.pc = up.xhaddr]
  <1>1. up \in Flushing
    BY PrivilegeFlushing
  <1>2. Exception(c, cause) = Flush(entered, "pc")
    BY DEF Exception
  <1> HIDE DEF up
  <1>3. entered \in Flushing
    BY <1>1 DEF Flushing, Processor
  <1> HIDE DEF entered
  <1> QED BY <1>2, <1>3, FlushFlushing
------------------------------------------------------------------------------
(***************************************************************************)
(* Accesses.                                                               *)
(***************************************************************************)
\* An access started in c changes nothing, or has emptied the pipeline.
Outcome(c, r) ==
    /\ r.cpu \in Flushing
    /\ r.faults = 0 => r.cpu = c
    /\ r.faults # 0 => r.cpu.pipe = EmptyPipe

\* Entry i of the map in use grants an access to vaddr at phys.
Grants(c, i, vaddr, size, phys) ==
    LET map == c.maps[c.cmap]
    IN  /\ Covers(map[i], vaddr)
        /\ \A j \in 0 .. i - 1 : ~Covers(map[j], vaddr)
        /\ "READ" \in map[i].attr
        /\ size = "EXEC" => "EXEC" \in map[i].attr
        /\ phys = VirtualToPhysical(map[i], vaddr)

\* Entry i is the one found for vaddr, and accounts for an access at phys: it
\* maps vaddr there, or it is what an exception overwrote in the copy.
Confines(c, i, vaddr, phys) ==
    LET map == c.maps[c.cmap]
    IN  /\ Covers(map[i], vaddr)
        /\ \A j \in 0 .. i - 1 : ~Covers(map[j], vaddr)
        /\ \/ "READ" \in map[i].attr /\ phys = VirtualToPhysical(map[i], vaddr)
           \/ "EXEC" \notin map[i].attr /\ i \in Clobbered

LEMMA AlignOutcome ==
    ASSUME NEW c, NEW d \in Flushing, NEW phys, NEW size, NEW n \in 0 .. 2,
           n = 0 => d = c, n # 0 => d.pipe = EmptyPipe
    PROVE  /\ Outcome(c, Align(d, phys, size, n))
           /\ Align(d, phys, size, n).phys = phys
           /\ Align(d, phys, size, n).faults \in 0 .. 3
           /\ Align(d, phys, size, n).faults = 0 => n = 0
  <1>1. {"MMU_XALIGN", "MMU_RWALIGN"} \subseteq Cause
    BY DEF Cause
  <1> DEFINE x == Exception(d, IF size = "EXEC" THEN "MMU_XALIGN" ELSE "MMU_RWALIGN")
  <1>2. x \in Flushing /\ x.pipe = EmptyPipe
    BY <1>1, ExceptionFlushing
  <1>3. Align(d, phys, size, n) = IF Misaligned(d, phys, size)
                                  THEN [cpu |-> x, phys |-> phys, faults |-> n + 1]
                                  ELSE [cpu |-> d, phys |-> phys, faults |-> n]
    BY DEF Align
  <1> HIDE DEF x
  <1> QED BY <1>2, <1>3 DEF Outcome

LEMMA TranslateOutcome ==
    ASSUME NEW c \in Flushing, NEW i, NEW vaddr, NEW size,
           NEW r \in Translate(c, i, vaddr, size)
    PROVE  /\ Outcome(c, r) /\ r.faults \in 0 .. 3
           /\ r.faults = 0 =>
                LET e == c.maps[c.cmap][i]
                IN  /\ "READ" \in e.attr
                    /\ size = "EXEC" => "EXEC" \in e.attr
                    /\ r.phys = VirtualToPhysical(e, vaddr)
           /\ LET e == c.maps[c.cmap][i]
              IN  \/ r.phys = 0
                  \/ "READ" \in e.attr /\ r.phys = VirtualToPhysical(e, vaddr)
                  \/ "EXEC" \notin e.attr /\ i \in Clobbered
  <1> DEFINE e == c.maps[c.cmap][i]
             noExec == size = "EXEC" /\ "EXEC" \notin e.attr
             n == IF noExec THEN 1 ELSE 0
             d == IF noExec THEN Exception(c, "MMU_PROT_EXEC") ELSE c
             x == Exception(d, "MMU_PROT_READ")
  <1>1. {"MMU_PROT_EXEC", "MMU_PROT_READ"} \subseteq Cause
    BY DEF Cause
  <1>2. d \in Flushing /\ (noExec => d.pipe = EmptyPipe) /\ (~noExec => d = c)
    BY <1>1, ExceptionFlushing
  <1>3. n \in 0 .. 1 /\ (n = 0 <=> ~noExec)
    OBVIOUS
  <1>4. PICK v \in Reread(c, i, vaddr, noExec) :
               r = IF "READ" \in v.attr
                   THEN Align(d, v.phys, size, n)
                   ELSE [cpu |-> x, phys |-> 0, faults |-> n + 1]
    BY DEF Translate
  <1>5. ~noExec => v = [attr |-> e.attr, phys |-> VirtualToPhysical(e, vaddr)]
    BY <1>4 DEF Reread
  <1>9. \/ v = [attr |-> e.attr, phys |-> VirtualToPhysical(e, vaddr)]
        \/ "EXEC" \notin e.attr /\ i \in Clobbered
    BY <1>4 DEF Reread
  <1> HIDE DEF n, d
  <1>6. x \in Flushing /\ x.pipe = EmptyPipe
    BY <1>1, <1>2, ExceptionFlushing
  <1> HIDE DEF x, e
  <1>7. CASE "READ" \in v.attr
    <2>1. r = Align(d, v.phys, size, n)
      BY <1>4, <1>7
    <2>2. /\ Outcome(c, r) /\ r.phys = v.phys
          /\ r.faults \in 0 .. 3 /\ (r.faults = 0 => n = 0)
      BY <1>2, <1>3, <2>1, AlignOutcome
    <2>3. r.faults = 0 => ~noExec
      BY <1>3, <2>2
    <2>4. r.faults = 0 => v.attr = e.attr /\ v.phys = VirtualToPhysical(e, vaddr)
      BY <1>5, <2>3
    <2>5. r.faults = 0 => /\ "READ" \in e.attr
                          /\ size = "EXEC" => "EXEC" \in e.attr
                          /\ r.phys = VirtualToPhysical(e, vaddr)
      BY <1>7, <2>2, <2>3, <2>4
    <2>6. \/ "READ" \in e.attr /\ r.phys = VirtualToPhysical(e, vaddr)
          \/ "EXEC" \notin e.attr /\ i \in Clobbered
      BY <1>7, <1>9, <2>2
    <2> QED BY <2>2, <2>5, <2>6 DEF e
  <1>8. CASE "READ" \notin v.attr
    <2>1. r = [cpu |-> x, phys |-> 0, faults |-> n + 1]
      BY <1>4, <1>8
    <2>2. r.cpu = x /\ r.faults = n + 1 /\ r.phys = 0
      BY <2>1
    <2>3. r.faults \in 1 .. 2
      BY <1>3, <2>2
    <2>4. r.faults # 0 /\ r.faults \in 0 .. 3
      BY <2>3
    <2> QED BY <1>6, <2>2, <2>4 DEF Outcome
  <1> QED BY <1>7, <1>8

LEMMA SearchMapFirst ==
    ASSUME NEW c, NEW vaddr, NEW i \in SearchMap(c, vaddr), i # NoEntry
    PROVE  /\ i \in 0 .. NEntries - 1
           /\ Covers(c.maps[c.cmap][i], vaddr)
           /\ \A j \in 0 .. i - 1 : ~Covers(c.maps[c.cmap][j], vaddr)
  <1> DEFINE hits == {j \in 0 .. NEntries - 1 : Covers(c.maps[c.cmap][j], vaddr)}
  <1>1. i \in hits /\ \A j \in hits : i <= j
    BY DEF SearchMap, First
  <1>2. \A j \in 0 .. i - 1 : j \in 0 .. NEntries - 1 /\ ~(i <= j)
    BY <1>1, NEntriesAssumption
  <1>3. i \in 0 .. NEntries - 1 /\ Covers(c.maps[c.cmap][i], vaddr)
    BY <1>1
  <1>4. \A j \in 0 .. i - 1 : j \notin hits
    <2> HIDE DEF hits
    <2> QED BY <1>1, <1>2
  <1> QED BY <1>2, <1>3, <1>4

LEMMA GetPhysOutcome ==
    ASSUME NEW c \in Flushing, NEW vaddr, NEW size, NEW r \in GetPhys(c, vaddr, size)
    PROVE  /\ Outcome(c, r) /\ r.faults \in 0 .. 3
           /\ ("ENABLE" \in c.ctrl /\ r.faults = 0) =>
                \E i \in 0 .. NEntries - 1 : Grants(c, i, vaddr, size, r.phys)
           /\ "ENABLE" \in c.ctrl =>
                r.phys = 0 \/ \E i \in 0 .. NEntries - 1 : Confines(c, i, vaddr, r.phys)
  <1>1. CASE "ENABLE" \notin c.ctrl
    <2>1. r = Align(c, vaddr, size, 0)
      BY <1>1 DEF GetPhys
    <2>2. Outcome(c, r) /\ r.faults \in 0 .. 3
      BY <2>1, AlignOutcome
    <2> QED BY <1>1, <2>2
  <1>2. CASE "ENABLE" \in c.ctrl
    <2>1. PICK i \in SearchMap(c, vaddr) :
                 r \in IF i = NoEntry
                       THEN {[cpu |-> Exception(c, "MMU_NOMAP"), phys |-> 0, faults |-> 1]}
                       ELSE Translate(c, i, vaddr, size)
      BY <1>2 DEF GetPhys
    <2>2. CASE i = NoEntry
      <3>1. r.cpu = Exception(c, "MMU_NOMAP") /\ r.faults = 1 /\ r.phys = 0
        BY <2>1, <2>2
      <3>2. r.cpu \in Flushing /\ r.cpu.pipe = EmptyPipe
        BY <3>1, ExceptionFlushing DEF Cause
      <3> QED BY <3>1, <3>2 DEF Outcome
    <2>3. CASE i # NoEntry
      <3>1. r \in Translate(c, i, vaddr, size)
        BY <2>1, <2>3
      <3>2. /\ i \in 0 .. NEntries - 1
            /\ Covers(c.maps[c.cmap][i], vaddr)
            /\ \A j \in 0 .. i - 1 : ~Covers(c.maps[c.cmap][j], vaddr)
        BY <2>1, <2>3, SearchMapFirst
      <3>3. /\ Outcome(c, r) /\ r.faults \in 0 .. 3
            /\ r.faults = 0 =>
                 /\ "READ" \in c.maps[c.cmap][i].attr
                 /\ size = "EXEC" => "EXEC" \in c.maps[c.cmap][i].attr
                 /\ r.phys = VirtualToPhysical(c.maps[c.cmap][i], vaddr)
            /\ \/ r.phys = 0
               \/ /\ "READ" \in c.maps[c.cmap][i].attr
                  /\ r.phys = VirtualToPhysical(c.maps[c.cmap][i], vaddr)
               \/ "EXEC" \notin c.maps[c.cmap][i].attr /\ i \in Clobbered
        BY <3>1, TranslateOutcome
      <3>4. r.faults = 0 => Grants(c, i, vaddr, size, r.phys)
        BY <3>2, <3>3 DEF Grants
      <3>5. r.phys = 0 \/ Confines(c, i, vaddr, r.phys)
        BY <3>2, <3>3 DEF Confines
      <3> QED BY <3>2, <3>3, <3>4, <3>5
    <2> QED BY <2>2, <2>3
  <1> QED BY <1>1, <1>2

LEMMA AccessOutcome ==
    ASSUME NEW c \in Flushing, NEW vaddr, NEW size, NEW r \in Access(c, vaddr, size)
    PROVE  /\ Outcome(c, r)
           /\ ("ENABLE" \in c.ctrl /\ r.faults = 0) =>
                \E i \in 0 .. NEntries - 1 : Grants(c, i, vaddr, size, r.phys)
           /\ "ENABLE" \in c.ctrl =>
                r.phys = 0 \/ \E i \in 0 .. NEntries - 1 : Confines(c, i, vaddr, r.phys)
  <1> DEFINE Answered(p, dev) ==
               r = [cpu |-> IF dev = 0 THEN Exception(p.cpu, "MMU_NOMAP") ELSE p.cpu,
                    phys |-> p.phys,
                    faults |-> IF dev = 0 THEN p.faults + 1 ELSE p.faults,
                    dev |-> dev]
  <1> PICK p \in GetPhys(c, vaddr, size) : \E dev \in DevicesAt(p.phys) : Answered(p, dev)
    BY DEF Access
  <1>1. PICK dev \in DevicesAt(p.phys) : Answered(p, dev)
    OBVIOUS
  <1>2. /\ Outcome(c, p) /\ p.faults \in 0 .. 3
        /\ ("ENABLE" \in c.ctrl /\ p.faults = 0) =>
             \E i \in 0 .. NEntries - 1 : Grants(c, i, vaddr, size, p.phys)
        /\ "ENABLE" \in c.ctrl =>
             p.phys = 0 \/ \E i \in 0 .. NEntries - 1 : Confines(c, i, vaddr, p.phys)
    BY GetPhysOutcome
  <1>3. CASE dev = 0
    <2>1. r.cpu = Exception(p.cpu, "MMU_NOMAP") /\ r.faults # 0 /\ r.phys = p.phys
      BY <1>1, <1>2, <1>3
    <2>2. r.cpu \in Flushing /\ r.cpu.pipe = EmptyPipe
      BY <1>2, <2>1, ExceptionFlushing DEF Outcome, Cause
    <2> QED BY <1>2, <2>1, <2>2 DEF Outcome
  <1>4. CASE dev # 0
    <2>1. r.cpu = p.cpu /\ r.faults = p.faults /\ r.phys = p.phys
      BY <1>1, <1>4
    <2> QED BY <1>2, <2>1 DEF Outcome
  <1> QED BY <1>3, <1>4
------------------------------------------------------------------------------
(***************************************************************************)
(* The cycle.                                                              *)
(***************************************************************************)
\* The accesses in accs made with translation on in state c were granted, or
\* raised something and were confined.
AllGranted(c, accs) ==
    "ENABLE" \in c.ctrl =>
      \A b \in accs :
        /\ b.faults = 0 =>
             \E va \in Word, i \in 0 .. NEntries - 1 :
                 Grants(c, i, va, IF b.op = "fetch" THEN "EXEC" ELSE "LONG", b.phys)
        /\ \/ b.phys = 0
           \/ \E va \in Word, i \in 0 .. NEntries - 1 : Confines(c, i, va, b.phys)

\* The state a fetch leaves: still the one it began in as far as the MMU looks
\* at it, or with no instruction at the end of the pipeline.
SameMmu(c, d) == d.ctrl = c.ctrl /\ d.maps = c.maps /\ d.cmap = c.cmap

LEMMA SameMmuGranted ==
    ASSUME NEW c, NEW d, SameMmu(c, d), NEW accs, AllGranted(d, accs)
    PROVE  AllGranted(c, accs)
  BY DEF SameMmu, AllGranted, Grants, Confines

LEMMA OnBusGranted ==
    ASSUME NEW c \in Flushing, NEW va \in Word, NEW size,
           NEW r \in Access(c, va, size), NEW op, op = "fetch" => size = "EXEC"
    PROVE  AllGranted(c, OnBus(op, r))
  <1> SUFFICES ASSUME "ENABLE" \in c.ctrl, NEW b \in OnBus(op, r)
               PROVE  /\ b.faults = 0 =>
                           \E i \in 0 .. NEntries - 1 :
                             Grants(c, i, va, IF b.op = "fetch" THEN "EXEC" ELSE "LONG", b.phys)
                      /\ \/ b.phys = 0
                         \/ \E i \in 0 .. NEntries - 1 : Confines(c, i, va, b.phys)
    BY DEF AllGranted
  <1>1. b.op = op /\ b.phys = r.phys /\ b.faults = r.faults
    BY DEF OnBus
  <1>2. r.phys = 0 \/ \E i \in 0 .. NEntries - 1 : Confines(c, i, va, r.phys)
    BY AccessOutcome
  <1>3. ASSUME b.faults = 0
        PROVE  \E i \in 0 .. NEntries - 1 :
                  Grants(c, i, va, IF b.op = "fetch" THEN "EXEC" ELSE "LONG", b.phys)
    <2>1. PICK i \in 0 .. NEntries - 1 : Grants(c, i, va, size, r.phys)
      BY <1>1, <1>3, AccessOutcome
    <2> QED BY <1>1, <2>1 DEF Grants
  <1> QED BY <1>1, <1>2, <1>3

LEMMA FetchedOutcome ==
    ASSUME TypeOK, cpu \in Flushing, NEW f \in Fetched
    PROVE  /\ f \in Prepared /\ f.cpu \in Flushing
           /\ AllGranted(cpu, f.bus)
           /\ SameMmu(cpu, f.cpu) \/ IsNop(f)
  <1>1. PICK r \in Access(Shift(cpu), cpu.pc, "EXEC") :
               f = [cpu |-> [r.cpu EXCEPT !.pipe[0] = Latch(r, cpu.pc), !.pc = Succ(@)],
                    bus |-> OnBus("fetch", r)]
    BY DEF Fetched
  <1>2. f \in Prepared
    BY FetchedType
  <1>3. Shift(cpu) \in Flushing /\ SameMmu(cpu, Shift(cpu)) /\ cpu.pc \in Word
    BY ShiftType DEF TypeOK, Flushing, Shift, SameMmu, Processor
  <1>4. Outcome(Shift(cpu), r)
    BY <1>3, AccessOutcome
  <1>5. r.cpu \in Flushing /\ r.cpu \in Processor
    BY <1>4 DEF Outcome, Flushing
  <1>6. f.cpu \in Flushing
    BY <1>1, <1>2, <1>5 DEF Flushing, Processor, Prepared
  <1>7. AllGranted(cpu, f.bus)
    <2>1. AllGranted(Shift(cpu), OnBus("fetch", r))
      BY <1>3, OnBusGranted
    <2> QED BY <1>1, <1>3, <2>1, SameMmuGranted
  <1>8. CASE r.faults = 0
    <2>1. r.cpu = Shift(cpu)
      BY <1>4, <1>8 DEF Outcome
    <2>2. SameMmu(r.cpu, f.cpu)
      BY <1>1, <1>5 DEF SameMmu, Processor
    <2> QED BY <1>2, <1>3, <1>6, <1>7, <2>1, <2>2 DEF SameMmu
  <1>9. CASE r.faults # 0
    <2>1. r.cpu.pipe = EmptyPipe
      BY <1>4, <1>9 DEF Outcome
    <2>2. EmptyPipe[2] = Bubble /\ DOMAIN EmptyPipe = 0 .. 2
      BY DEF EmptyPipe
    <2>3. f.cpu.pipe = [EmptyPipe EXCEPT ![0] = Latch(r, cpu.pc)]
      <3> HIDE DEF EmptyPipe
      <3> QED BY <1>1, <1>5, <2>1 DEF Processor
    <2>4. f.cpu.pipe[2] = Bubble
      BY <2>2, <2>3
    <2> QED BY <1>2, <1>6, <1>7, <2>4 DEF IsNop, Bubble
  <1> QED BY <1>8, <1>9

LEMMA ExecuteMemoryGranted ==
    ASSUME NEW f \in Prepared, f.cpu \in Flushing, SameMmu(cpu, f.cpu),
           AllGranted(cpu, f.bus), Load(f) \/ Store(f)
    PROVE  AllGranted(cpu, bus') /\ cpu' \in Flushing
  <1>1. Data \cup {0} \subseteq Word /\ "RESET" \in Cause
    BY SoftwareAssumption, SmallWords DEF Cause
  <1>2. CASE Load(f)
    <2> PICK addr \in Data, size \in Size, d \in Register :
               \E r \in Access(f.cpu, addr, size), v \in Data \cup {0} :
                  /\ r.dev = 0 => v = 0
                  /\ cpu' = WriteRegister(r.cpu, d, v)
                  /\ bus' = f.bus \cup OnBus("read", r)
                  /\ host' = host
      BY <1>2 DEF Load
    <2>1. PICK r \in Access(f.cpu, addr, size), v \in Data \cup {0} :
                  /\ cpu' = WriteRegister(r.cpu, d, v)
                  /\ bus' = f.bus \cup OnBus("read", r)
      OBVIOUS
    <2>2. r.cpu \in Flushing
      BY AccessOutcome DEF Outcome
    <2>3. AllGranted(cpu, OnBus("read", r))
      BY <1>1, OnBusGranted, SameMmuGranted
    <2> QED BY <1>1, <2>1, <2>2, <2>3, WriteRegisterFlushing DEF AllGranted
  <1>3. CASE Store(f)
    <2> PICK addr \in Data, size \in Size :
               \E r \in Access(f.cpu, addr, size), reset \in BOOLEAN :
                  /\ reset => r.dev = IoDevice /\ r.dev # 0
                  /\ cpu' = IF reset THEN Exception(r.cpu, "RESET") ELSE r.cpu
                  /\ bus' = f.bus \cup OnBus("write", r)
                  /\ host' = host
      BY <1>3 DEF Store
    <2>1. PICK r \in Access(f.cpu, addr, size), reset \in BOOLEAN :
                  /\ cpu' = IF reset THEN Exception(r.cpu, "RESET") ELSE r.cpu
                  /\ bus' = f.bus \cup OnBus("write", r)
      OBVIOUS
    <2>2. r.cpu \in Flushing
      BY AccessOutcome DEF Outcome
    <2>3. AllGranted(cpu, OnBus("write", r))
      BY <1>1, OnBusGranted, SameMmuGranted
    <2> QED BY <1>1, <2>1, <2>2, <2>3, ExceptionFlushing DEF AllGranted
  <1> QED BY <1>2, <1>3

LEMMA CopWrittenFlushing ==
    ASSUME "cr0" \notin Writable, NEW c \in Flushing, NEW cr \in Writable
    PROVE  CopWritten(c, cr) \subseteq Flushing
  <1>1. c \in Processor /\ CopWritten(c, cr) \subseteq Processor
    BY CopWrittenType DEF Flushing
  <1> SUFFICES ASSUME NEW d \in CopWritten(c, cr) PROVE d.xflush = c.xflush
    BY <1>1 DEF Flushing
  <1>2. CASE cr = "map"
    <2> PICK q, e, w : d = MapWritten(c, q, e, w)
      BY <1>2 DEF CopWritten
    <2> QED BY <1>1 DEF MapWritten, Processor
  <1>3. CASE cr # "map"
    <2>1. \/ d = c
          \/ \E v : d = [c EXCEPT !.ctrl = v]
          \/ \E v : d = [c EXCEPT !.xcause = v]
          \/ \E v : d = [c EXCEPT !.xhaddr = v]
          \/ \E v : d = [c EXCEPT !.xpc = v]
          \/ \E v : d = [c EXCEPT !.msel = v]
      BY <1>3, SoftwareAssumption DEF CopWritten, CopRegister
    <2> QED BY <1>1, <2>1 DEF Processor
  <1> QED BY <1>2, <1>3

\* The instructions that make no access leave the bus as the fetch did.
LEMMA ExecuteOtherGranted ==
    ASSUME "cr0" \notin Writable, NEW f \in Prepared, f.cpu \in Flushing,
           Execute(f), ~Load(f), ~Store(f)
    PROVE  bus' = f.bus /\ cpu' \in Flushing
  <1>1. Data \cup {0, 1} \subseteq Word
    BY SoftwareAssumption, SmallWords
  <1>2. \A v \in Data : Plus(f.cpu.pc, v) \in Word
    BY <1>1, PlusType DEF Prepared, Processor
  <1>3. {"SYSCALL", "TPL", "DEBUG", "SEXCEPT", "INVALID_COPX", "ILLEGAL_INSTR"} \subseteq Cause
    BY DEF Cause
  <1>4. \A cause \in Cause : Exception(f.cpu, cause) \in Flushing
    BY ExceptionFlushing
  <1>5. CASE \/ Alu(f) \/ BranchImmediate(f) \/ BranchRegister(f)
             \/ MoveFromCop(f) \/ LoadEffectiveAddress(f) \/ LoadImmediate(f)
             \/ SetCondImmediate(f) \/ SetCondRegister(f)
    <2>1. /\ bus' = f.bus
          /\ cpu' = f.cpu \/ \E d \in Register, v \in Word : cpu' = WriteRegister(f.cpu, d, v)
      BY <1>1, <1>2, <1>5 DEF Alu, BranchImmediate, BranchRegister, MoveFromCop,
         LoadEffectiveAddress, LoadImmediate, SetCondImmediate, SetCondRegister,
         Finish, Register
    <2> QED BY <2>1, WriteRegisterFlushing
  <1>6. CASE \/ Nop(f) \/ CopInstruction(f) \/ ReservedLoadStore(f)
             \/ AluDivideByZero(f) \/ BranchRegisterBadCondition(f) \/ MoveToCopBeyondMaps(f)
             \/ ReservedExchange(f) \/ DebugExit(f) \/ SetCondRegisterBadCondition(f)
    BY <1>6 DEF Nop, CopInstruction, ReservedLoadStore, AluDivideByZero,
       BranchRegisterBadCondition, MoveToCopBeyondMaps, ReservedExchange, DebugExit,
       SetCondRegisterBadCondition, Finish, Die
  <1>7. CASE MoveToCop(f)
    BY <1>7, CopWrittenFlushing, FlushFlushing DEF MoveToCop, Finish
  <1>8. CASE InvalidCop(f)
    BY <1>3, <1>4, <1>8, FlushFlushing DEF InvalidCop, Finish
  <1>9. CASE SystemTrap(f)
    BY <1>3, <1>4, <1>9 DEF SystemTrap, Finish
  <1>10. CASE Sysret(f)
    <2> DEFINE down == PrivilegeDown(f.cpu)
    <2>1. cpu' = [down EXCEPT !.pc = down.xpc] /\ bus' = f.bus
      BY <1>10 DEF Sysret, Finish
    <2>2. down \in Flushing
      BY PrivilegeFlushing
    <2> HIDE DEF down
    <2> QED BY <2>1, <2>2 DEF Flushing, Processor
  <1>11. CASE IllegalInstruction(f)
    BY <1>3, <1>4, <1>11 DEF IllegalInstruction, Finish
  <1> QED BY <1>5, <1>6, <1>7, <1>8, <1>9, <1>10, <1>11 DEF Execute

LEMMA NextGranted ==
    ASSUME "cr0" \notin Writable, TypeOK, cpu \in Flushing, Next
    PROVE  AllGranted(cpu, bus') /\ cpu' \in Flushing
  <1>1. CASE Cycle
    <2> PICK f \in Fetched : Execute(f)
      BY <1>1 DEF Cycle
    <2>1. /\ f \in Prepared /\ f.cpu \in Flushing
          /\ AllGranted(cpu, f.bus)
          /\ SameMmu(cpu, f.cpu) \/ IsNop(f)
      BY FetchedOutcome
    <2>2. CASE Load(f) \/ Store(f)
      <3>1. ~IsNop(f)
        BY <2>2 DEF Load, Store, IsInstruction
      <3> QED BY <2>1, <2>2, <3>1, ExecuteMemoryGranted
    <2>3. CASE ~Load(f) /\ ~Store(f)
      BY <2>1, <2>3, ExecuteOtherGranted
    <2> QED BY <2>2, <2>3
  <1>2. CASE Interrupt
    BY <1>2, ExceptionFlushing DEF Interrupt, AllGranted, Cause
  <1> QED BY <1>1, <1>2 DEF Next

LEMMA AlwaysFlushing ==
    ASSUME "cr0" \notin Writable PROVE Spec => [](cpu \in Flushing)
  <1>1. Init => cpu \in Flushing
    BY InitType DEF Init, TypeOK, ResetProcessor, Flushing
  <1>2. TypeOK /\ cpu \in Flushing /\ [Next]_vars => (cpu \in Flushing)'
    BY NextGranted DEF vars
  <1> QED BY <1>1, <1>2, TypeCorrect, PTL DEF Spec

\* With translation on, every device access that raised nothing was granted by
\* the first entry of the map in use covering its address, whatever exceptions
\* other accesses of the cycle raised: hv2_mmu_get_phys and hv2_flush together.
THEOREM AccessesGranted ==
    ASSUME "cr0" \notin Writable PROVE Spec => GrantedByMap
  <1>1. (TypeOK /\ cpu \in Flushing /\ [Next]_vars) =>
          [AllGranted(cpu, bus')]_vars
    BY NextGranted
  <1>2. AllGranted(cpu, bus') =>
          ("ENABLE" \in cpu.ctrl =>
             \A b \in {x \in bus' : x.faults = 0} :
               \E va \in Word, i \in 0 .. NEntries - 1 :
                 LET map == cpu.maps[cpu.cmap]
                 IN  /\ Covers(map[i], va)
                     /\ \A j \in 0 .. i - 1 : ~Covers(map[j], va)
                     /\ "READ" \in map[i].attr
                     /\ b.op = "fetch" => "EXEC" \in map[i].attr
                     /\ b.phys = VirtualToPhysical(map[i], va))
    BY DEF AllGranted, Grants
  <1> QED BY <1>1, <1>2, AlwaysFlushing, TypeCorrect, PTL DEF Spec, GrantedByMap

\* With translation on, no device access, failed or not, leaves the places the
\* map names, physical address 0, and what an exception overwrote in the copy of
\* an entry that may not be executed: hv2_mmu_get_phys and what its callers do
\* with the 0 it returns.
THEOREM FailuresStayConfined ==
    ASSUME "cr0" \notin Writable PROVE Spec => FailuresConfined
  <1>1. (TypeOK /\ cpu \in Flushing /\ [Next]_vars) =>
          [AllGranted(cpu, bus')]_vars
    BY NextGranted
  <1>2. AllGranted(cpu, bus') =>
          ("ENABLE" \in cpu.ctrl =>
             \A b \in bus' :
               \/ b.phys = 0
               \/ \E va \in Word, i \in 0 .. NEntries - 1 :
                   LET map == cpu.maps[cpu.cmap]
                   IN  /\ Covers(map[i], va)
                       /\ \A j \in 0 .. i - 1 : ~Covers(map[j], va)
                       /\ \/ "READ" \in map[i].attr /\ b.phys = VirtualToPhysical(map[i], va)
                          \/ "EXEC" \notin map[i].attr /\ i \in Clobbered)
    BY DEF AllGranted, Confines
  <1> QED BY <1>1, <1>2, AlwaysFlushing, TypeCorrect, PTL DEF Spec, FailuresConfined
------------------------------------------------------------------------------
(***************************************************************************)
(* The pipelined core implements the program order of Isa, for every word  *)
(* size, map size, set of devices, build and software that leaves the      *)
(* flush bit of cop0_cr0 alone.                                            *)
(*                                                                         *)
(* Two facts carry the proof.  Any number of exceptions in a row amounts   *)
(* to one that raises the level by as many and leaves only the address of  *)
(* the handler in xpc (Handled).  And the pipeline never has a hole: slot  *)
(* 1 holds a word only if slot 0 does (Filled), so the words it holds are  *)
(* the first ones due.                                                     *)
(***************************************************************************)
\* The processor c has become d after n exceptions.
Handled(c, d, n) ==
    /\ d \in Flushing
    /\ n = 0 => d = c
    /\ n > 0 => /\ d.pipe = EmptyPipe /\ d.pc = c.xhaddr /\ d.xhaddr = c.xhaddr
                /\ d.xpc = (IF n = 1 THEN c.pc ELSE c.xhaddr)
                /\ d.pl = (IF c.pl > n THEN c.pl - n ELSE 0)

LEMMA PrivilegeUpEffect ==
    ASSUME NEW c \in Processor
    PROVE  LET up == PrivilegeUp(c)
           IN  /\ up.pl = (IF c.pl > 1 THEN c.pl - 1 ELSE 0)
               /\ up.pc = c.pc /\ up.xhaddr = c.xhaddr /\ up.pipe = c.pipe
               /\ up.xpc = c.xpc /\ up.xflush = c.xflush
  BY DEF PrivilegeUp, EnterLevel, Processor, PrivilegeLevel

LEMMA PrivilegeDownEffect ==
    ASSUME NEW c \in Processor
    PROVE  LET down == PrivilegeDown(c)
           IN  /\ down.pl = (IF c.pl = 3 THEN 3 ELSE c.pl + 1)
               /\ down.pc = c.pc /\ down.xhaddr = c.xhaddr /\ down.pipe = c.pipe
               /\ down.xpc = c.xpc /\ down.xflush = c.xflush
  BY DEF PrivilegeDown, EnterLevel, Processor, PrivilegeLevel

LEMMA ExceptionEffect ==
    ASSUME NEW c \in Flushing, NEW cause \in Cause
    PROVE  LET x == Exception(c, cause)
           IN  /\ x \in Flushing /\ x.pipe = EmptyPipe
               /\ x.pc = c.xhaddr /\ x.xhaddr = c.xhaddr /\ x.xpc = c.pc
               /\ x.pl = (IF c.pl > 1 THEN c.pl - 1 ELSE 0)
  <1> DEFINE up == PrivilegeUp(c)
             entered == [up EXCEPT !.xcause = cause, !.xpc = up.pc, !.pc = up.xhaddr]
  <1>1. Exception(c, cause) \in Flushing /\ Exception(c, cause).pipe = EmptyPipe
    BY ExceptionFlushing
  <1>2. up \in Processor
    BY PrivilegeUpType DEF Flushing
  <1>3. /\ up.pl = (IF c.pl > 1 THEN c.pl - 1 ELSE 0)
        /\ up.pc = c.pc /\ up.xhaddr = c.xhaddr
    BY PrivilegeUpEffect DEF Flushing
  <1>4. Exception(c, cause) = Flush(entered, "pc")
    BY DEF Exception
  <1> HIDE DEF up
  <1>5. /\ entered.pc = c.xhaddr /\ entered.xhaddr = c.xhaddr /\ entered.xpc = c.pc
        /\ entered.pl = up.pl /\ entered \in Processor
    BY <1>2, <1>3 DEF Processor
  <1> HIDE DEF entered
  <1>6. LET x == Flush(entered, "pc")
        IN  x.pc = entered.pc /\ x.xhaddr = entered.xhaddr /\ x.xpc = entered.xpc
            /\ x.pl = entered.pl
    BY <1>5 DEF Flush, Processor
  <1> QED BY <1>1, <1>3, <1>4, <1>5, <1>6

LEMMA HandledAgain ==
    ASSUME NEW c \in Flushing, NEW n \in 0 .. 3, NEW d, Handled(c, d, n), NEW cause \in Cause
    PROVE  Handled(c, Exception(d, cause), n + 1)
  <1> DEFINE x == Exception(d, cause)
  <1>1. /\ x \in Flushing /\ x.pipe = EmptyPipe
        /\ x.pc = d.xhaddr /\ x.xhaddr = d.xhaddr /\ x.xpc = d.pc
        /\ x.pl = (IF d.pl > 1 THEN d.pl - 1 ELSE 0)
    BY ExceptionEffect DEF Handled
  <1>2. c.pl \in 0 .. 3
    BY DEF Flushing, Processor, PrivilegeLevel
  <1> HIDE DEF x
  <1>3. Handled(c, x, n + 1)
    <2>1. CASE n = 0
      BY <1>1, <1>2, <2>1 DEF Handled
    <2>2. CASE n > 0
      <3>1. n + 1 # 1 /\ n + 1 > 0 /\ n + 1 # 0
        BY <2>2
      <3>2. x.pc = c.xhaddr /\ x.xhaddr = c.xhaddr /\ x.xpc = c.xhaddr
        BY <1>1, <2>2 DEF Handled
      <3>3. x.pl = (IF c.pl > n + 1 THEN c.pl - (n + 1) ELSE 0)
        BY <1>1, <1>2, <2>2 DEF Handled
      <3> QED BY <1>1, <3>1, <3>2, <3>3 DEF Handled
    <2> QED BY <2>1, <2>2
  <1> QED BY <1>3 DEF x
------------------------------------------------------------------------------
(***************************************************************************)
(* Accesses.                                                               *)
(***************************************************************************)
LEMMA AlignHandled ==
    ASSUME NEW c \in Flushing, NEW n \in 0 .. 1, NEW d, Handled(c, d, n),
           NEW phys, NEW size
    PROVE  LET r == Align(d, phys, size, n)
           IN  Handled(c, r.cpu, r.faults) /\ r.faults \in 0 .. 2
  <1>1. {"MMU_XALIGN", "MMU_RWALIGN"} \subseteq Cause
    BY DEF Cause
  <1>2. Handled(c, Exception(d, IF size = "EXEC" THEN "MMU_XALIGN" ELSE "MMU_RWALIGN"), n + 1)
    BY <1>1, HandledAgain
  <1> QED BY <1>2 DEF Align

LEMMA TranslateHandled ==
    ASSUME NEW c \in Flushing, NEW i, NEW vaddr, NEW size,
           NEW r \in Translate(c, i, vaddr, size)
    PROVE  Handled(c, r.cpu, r.faults) /\ r.faults \in 0 .. 2
  <1> DEFINE noExec == size = "EXEC" /\ "EXEC" \notin c.maps[c.cmap][i].attr
             n == IF noExec THEN 1 ELSE 0
             d == IF noExec THEN Exception(c, "MMU_PROT_EXEC") ELSE c
  <1>1. {"MMU_PROT_EXEC", "MMU_PROT_READ"} \subseteq Cause
    BY DEF Cause
  <1>2. Handled(c, c, 0)
    BY DEF Handled
  <1>3. Handled(c, d, n) /\ n \in 0 .. 1
    BY <1>1, <1>2, HandledAgain
  <1>4. PICK v \in Reread(c, i, vaddr, noExec) :
               r = IF "READ" \in v.attr
                   THEN Align(d, v.phys, size, n)
                   ELSE [cpu |-> Exception(d, "MMU_PROT_READ"), phys |-> 0, faults |-> n + 1]
    BY DEF Translate
  <1> HIDE DEF d, n
  <1>5. Handled(c, Exception(d, "MMU_PROT_READ"), n + 1)
    BY <1>1, <1>3, HandledAgain
  <1>6. LET a == Align(d, v.phys, size, n)
        IN  Handled(c, a.cpu, a.faults) /\ a.faults \in 0 .. 2
    BY <1>3, AlignHandled
  <1> QED BY <1>3, <1>4, <1>5, <1>6

LEMMA GetPhysHandled ==
    ASSUME NEW c \in Flushing, NEW addr, NEW size, NEW r \in GetPhys(c, addr, size)
    PROVE  Handled(c, r.cpu, r.faults) /\ r.faults \in 0 .. 2
  <1>0. Handled(c, c, 0)
    BY DEF Handled
  <1>1. CASE "ENABLE" \notin c.ctrl
    <2>1. r = Align(c, addr, size, 0)
      BY <1>1 DEF GetPhys
    <2> QED BY <1>0, <2>1, AlignHandled
  <1>2. CASE "ENABLE" \in c.ctrl
    <2>1. PICK i \in SearchMap(c, addr) :
            r \in IF i = NoEntry
                  THEN {[cpu |-> Exception(c, "MMU_NOMAP"), phys |-> 0, faults |-> 1]}
                  ELSE Translate(c, i, addr, size)
      BY <1>2 DEF GetPhys
    <2>2. Handled(c, Exception(c, "MMU_NOMAP"), 1)
      BY <1>0, HandledAgain DEF Cause
    <2>3. CASE i = NoEntry
      BY <2>1, <2>2, <2>3
    <2>4. CASE i # NoEntry
      BY <2>1, <2>4, TranslateHandled
    <2> QED BY <2>3, <2>4
  <1> QED BY <1>1, <1>2

\* The exceptions of an access; there is at least one if no device answers.
LEMMA AccessHandled ==
    ASSUME NEW c \in Flushing, NEW addr, NEW size, NEW r \in Access(c, addr, size)
    PROVE  /\ Handled(c, r.cpu, r.faults) /\ r.faults \in 0 .. 3
           /\ r.dev # 0 => r.faults \in 0 .. 2
           /\ r.dev = 0 => r.faults > 0
  <1>1. PICK p \in GetPhys(c, addr, size) : \E dev \in DevicesAt(p.phys) :
               r = [cpu |-> IF dev = 0 THEN Exception(p.cpu, "MMU_NOMAP") ELSE p.cpu,
                    phys |-> p.phys,
                    faults |-> IF dev = 0 THEN p.faults + 1 ELSE p.faults,
                    dev |-> dev]
    BY DEF Access
  <1>2. Handled(c, p.cpu, p.faults) /\ p.faults \in 0 .. 2
    BY GetPhysHandled
  <1>3. Handled(c, Exception(p.cpu, "MMU_NOMAP"), p.faults + 1)
    BY <1>2, HandledAgain DEF Cause
  <1>4. CASE r.dev = 0
    <2>1. r.cpu = Exception(p.cpu, "MMU_NOMAP") /\ r.faults = p.faults + 1
      BY <1>1, <1>4
    <2> QED BY <1>2, <1>3, <1>4, <2>1
  <1>5. CASE r.dev # 0
    <2>1. r.cpu = p.cpu /\ r.faults = p.faults
      BY <1>1, <1>5
    <2> QED BY <1>2, <1>5, <2>1
  <1> QED BY <1>4, <1>5
------------------------------------------------------------------------------
(***************************************************************************)
(* The words due.                                                          *)
(***************************************************************************)
Filled(c) == InUse(c.pipe[1]) => InUse(c.pipe[0])

\* A fetch that raised nothing.
FetchedQuietly(f) ==
    /\ f.cpu \in Flushing
    /\ f.cpu.pl = cpu.pl /\ f.cpu.xpc = cpu.xpc /\ f.cpu.xhaddr = cpu.xhaddr
    /\ f.cpu.pc = Succ(cpu.pc)
    /\ f.cpu.pipe[0] = At(cpu.pc) /\ f.cpu.pipe[1] = cpu.pipe[0]
    /\ f.cpu.pipe[2] = cpu.pipe[1]

\* A fetch that raised n exceptions and delivered w.
FetchedFaulting(f, n, w) ==
    /\ f.cpu \in Flushing
    /\ Handled(cpu, [f.cpu EXCEPT !.pipe = EmptyPipe, !.pc = cpu.xhaddr], n)
    /\ f.cpu.pc = Succ(cpu.xhaddr)
    /\ f.cpu.pipe[0] = w /\ f.cpu.pipe[1] = Bubble /\ f.cpu.pipe[2] = Bubble

LEMMA ShiftFlushing ==
    ASSUME NEW c \in Flushing
    PROVE  /\ Shift(c) \in Flushing
           /\ Shift(c).pl = c.pl /\ Shift(c).xpc = c.xpc /\ Shift(c).xhaddr = c.xhaddr
           /\ Shift(c).pc = c.pc
           /\ Shift(c).pipe[1] = c.pipe[0] /\ Shift(c).pipe[2] = c.pipe[1]
  <1>1. Shift(c) \in Processor
    BY ShiftType DEF Flushing
  <1> QED BY <1>1 DEF Shift, Flushing, Processor

LEMMA FetchedOrder ==
    ASSUME TypeOK, cpu \in Flushing, NEW f \in Fetched
    PROVE  \/ FetchedQuietly(f)
           \/ \E n \in 1 .. 3, w \in {Stray, Zero} : FetchedFaulting(f, n, w)
  <1> DEFINE s == Shift(cpu)
  <1>1. PICK r \in Access(s, cpu.pc, "EXEC") :
               f = [cpu |-> [r.cpu EXCEPT !.pipe[0] = Latch(r, cpu.pc), !.pc = Succ(@)],
                    bus |-> OnBus("fetch", r)]
    BY DEF Fetched
  <1>2. /\ s \in Flushing
        /\ s.pl = cpu.pl /\ s.xpc = cpu.xpc /\ s.xhaddr = cpu.xhaddr /\ s.pc = cpu.pc
        /\ s.pipe[1] = cpu.pipe[0] /\ s.pipe[2] = cpu.pipe[1]
    BY ShiftFlushing
  <1> HIDE DEF s
  <1>3. /\ Handled(s, r.cpu, r.faults) /\ r.faults \in 0 .. 3
        /\ r.dev = 0 => r.faults > 0
    BY <1>2, AccessHandled
  <1>4. r.cpu \in Flushing
    BY <1>3 DEF Handled
  <1>5. f.cpu \in Flushing
    <2>1. f \in Prepared
      BY FetchedType
    <2>2. f.cpu.xflush = r.cpu.xflush
      BY <1>1, <1>4 DEF Flushing, Processor
    <2> QED BY <1>4, <2>1, <2>2 DEF Prepared, Flushing
  <1>6. /\ f.cpu.pl = r.cpu.pl /\ f.cpu.xpc = r.cpu.xpc /\ f.cpu.xhaddr = r.cpu.xhaddr
        /\ f.cpu.pc = Succ(r.cpu.pc)
        /\ f.cpu.pipe[0] = Latch(r, cpu.pc)
        /\ f.cpu.pipe[1] = r.cpu.pipe[1] /\ f.cpu.pipe[2] = r.cpu.pipe[2]
    <2> DEFINE w == Latch(r, cpu.pc)
               d == r.cpu
    <2>1. f.cpu = [d EXCEPT !.pipe[0] = w, !.pc = Succ(d.pc)]
      BY <1>1
    <2>2. d \in Processor
      BY <1>4 DEF Flushing
    <2> HIDE DEF w, d
    <2>3. /\ f.cpu.pl = d.pl /\ f.cpu.xpc = d.xpc /\ f.cpu.xhaddr = d.xhaddr
          /\ f.cpu.pc = Succ(d.pc)
          /\ f.cpu.pipe[0] = w /\ f.cpu.pipe[1] = d.pipe[1] /\ f.cpu.pipe[2] = d.pipe[2]
      BY <2>1, <2>2 DEF Processor
    <2> QED BY <2>3 DEF w, d
  <1>7. CASE r.faults = 0
    <2>1. r.cpu = s
      BY <1>3, <1>7 DEF Handled
    <2>2. Latch(r, cpu.pc) = At(cpu.pc)
      BY <1>3, <1>7 DEF Latch
    <2> QED BY <1>2, <1>5, <1>6, <2>1, <2>2 DEF FetchedQuietly
  <1>8. CASE r.faults > 0
    <2>1. Latch(r, cpu.pc) \in {Stray, Zero}
      BY <1>8 DEF Latch
    <2>2. r.faults \in 1 .. 3
      BY <1>3, <1>8
    <2>3. /\ r.cpu.pipe = EmptyPipe /\ r.cpu.pc = s.xhaddr /\ r.cpu.xhaddr = s.xhaddr
          /\ r.cpu.xpc = (IF r.faults = 1 THEN s.pc ELSE s.xhaddr)
          /\ r.cpu.pl = (IF s.pl > r.faults THEN s.pl - r.faults ELSE 0)
      BY <1>3, <1>8 DEF Handled
    <2> DEFINE d == [f.cpu EXCEPT !.pipe = EmptyPipe, !.pc = cpu.xhaddr]
    <2>4. /\ d.pipe = EmptyPipe /\ d.pc = cpu.xhaddr /\ d.xpc = f.cpu.xpc
          /\ d.xhaddr = f.cpu.xhaddr /\ d.pl = f.cpu.pl /\ d \in Flushing
      BY <1>5, SlotTypes DEF Flushing, Processor, TypeOK
    <2> HIDE DEF d
    <2>5. Handled(cpu, d, r.faults)
      BY <1>2, <1>6, <2>2, <2>3, <2>4 DEF Handled
    <2>6. r.cpu.pipe[1] = Bubble /\ r.cpu.pipe[2] = Bubble
      BY <2>3 DEF EmptyPipe
    <2>7. FetchedFaulting(f, r.faults, Latch(r, cpu.pc))
      BY <1>2, <1>5, <1>6, <2>3, <2>5, <2>6 DEF FetchedFaulting, d
    <2> QED BY <2>1, <2>2, <2>7
  <1> QED BY <1>3, <1>7, <1>8

LEMMA AtFields == \A a : At(a).kind = "word" /\ At(a).at = a
  BY DEF At

LEMMA SameWords ==
    /\ \A a : Order!At(a) = At(a) /\ Order!Succ(a) = Succ(a)
    /\ Order!Stray = Stray /\ Order!Zero = Zero /\ Order!Word = Word
    /\ \A a : Order!Straight(a) = <<At(a), At(Succ(a)), At(Succ(Succ(a))),
                                    At(Succ(Succ(Succ(a))))>>
    /\ \A d : Order!Advance(d) = <<d[2], d[3], d[4], At(Succ(d[4].at))>>
  BY DEF Order!At, At, Order!Succ, Succ, Order!Plus, Plus, Order!Stray, Stray,
         Order!Zero, Zero, Order!Word, Word, Order!Straight, Order!Advance

LEMMA DueEmpty ==
    ASSUME NEW c, c.pipe = EmptyPipe
    PROVE  Due(c) = Order!Straight(c.pc) /\ Filled(c)
  <1>1. ~InUse(c.pipe[0]) /\ ~InUse(c.pipe[1])
    BY DEF EmptyPipe, InUse, Bubble
  <1> QED BY <1>1, SameWords, AtFields DEF Due, Filled

\* With slot 1 in use, and with only slot 0 in use.
LEMMA DueFull ==
    ASSUME NEW c, InUse(c.pipe[1])
    PROVE  Due(c) = <<c.pipe[1], c.pipe[0], At(c.pc), At(Succ(c.pc))>>
  BY DEF Due

LEMMA DueHalf ==
    ASSUME NEW c, ~InUse(c.pipe[1]), InUse(c.pipe[0])
    PROVE  Due(c) = <<c.pipe[0], At(c.pc), At(Succ(c.pc)), At(Succ(Succ(c.pc)))>>
  BY DEF Due

LEMMA DueNone ==
    ASSUME NEW c, ~InUse(c.pipe[1]), ~InUse(c.pipe[0])
    PROVE  Due(c) = <<At(c.pc), At(Succ(c.pc)), At(Succ(Succ(c.pc))),
                      At(Succ(Succ(Succ(c.pc))))>>
  BY AtFields DEF Due

\* The fetch itself changes nothing of the order ...
LEMMA QuietBubble ==
    ASSUME NEW f, FetchedQuietly(f), Filled(cpu), ~InUse(cpu.pipe[1])
    PROVE  Due(f.cpu) = Due(cpu) /\ Filled(f.cpu)
  <1>1. InUse(f.cpu.pipe[0])
    BY AtFields DEF FetchedQuietly, InUse
  <1>2. CASE InUse(cpu.pipe[0])
    <2>1. Due(cpu) = <<cpu.pipe[0], At(cpu.pc), At(Succ(cpu.pc)), At(Succ(Succ(cpu.pc)))>>
      BY <1>2, DueHalf
    <2>2. Due(f.cpu) = <<f.cpu.pipe[1], f.cpu.pipe[0], At(f.cpu.pc), At(Succ(f.cpu.pc))>>
      BY <1>2, DueFull DEF FetchedQuietly
    <2> QED BY <1>1, <2>1, <2>2 DEF FetchedQuietly, Filled
  <1>3. CASE ~InUse(cpu.pipe[0])
    <2>1. Due(cpu) = <<At(cpu.pc), At(Succ(cpu.pc)), At(Succ(Succ(cpu.pc))),
                       At(Succ(Succ(Succ(cpu.pc))))>>
      BY <1>3, DueNone
    <2>2. Due(f.cpu) = <<f.cpu.pipe[0], At(f.cpu.pc), At(Succ(f.cpu.pc)),
                         At(Succ(Succ(f.cpu.pc)))>>
      BY <1>1, <1>3, DueHalf DEF FetchedQuietly
    <2> QED BY <1>1, <2>1, <2>2 DEF FetchedQuietly, Filled
  <1> QED BY <1>2, <1>3

\* ... and behind a word to execute its new pc is where the order goes on.
LEMMA QuietWord ==
    ASSUME NEW f, FetchedQuietly(f), Filled(cpu), InUse(cpu.pipe[1])
    PROVE  /\ Due(f.cpu) = Order!Advance(Due(cpu)) /\ Filled(f.cpu)
           /\ f.cpu.pc = Due(cpu)[4].at
           /\ Due(cpu)[2] = f.cpu.pipe[1] /\ Due(cpu)[3] = f.cpu.pipe[0]
           /\ InUse(f.cpu.pipe[1])
  <1>1. InUse(f.cpu.pipe[0]) /\ InUse(f.cpu.pipe[1])
    BY AtFields DEF FetchedQuietly, InUse, Filled
  <1>2. Due(cpu) = <<cpu.pipe[1], cpu.pipe[0], At(cpu.pc), At(Succ(cpu.pc))>>
    BY DueFull
  <1>3. Due(f.cpu) = <<f.cpu.pipe[1], f.cpu.pipe[0], At(f.cpu.pc), At(Succ(f.cpu.pc))>>
    BY <1>1, DueFull
  <1> DEFINE due == Due(cpu)
  <1>4. /\ due[2] = cpu.pipe[0] /\ due[3] = At(cpu.pc) /\ due[4] = At(Succ(cpu.pc))
        /\ due[4].at = Succ(cpu.pc)
    BY <1>2, AtFields
  <1> HIDE DEF due
  <1>5. Order!Advance(due) = <<cpu.pipe[0], At(cpu.pc), At(Succ(cpu.pc)),
                               At(Succ(Succ(cpu.pc)))>>
    BY <1>4, SameWords
  <1>6. Due(f.cpu) = Order!Advance(due)
    BY <1>3, <1>5 DEF FetchedQuietly
  <1>7. /\ f.cpu.pc = due[4].at
        /\ due[2] = f.cpu.pipe[1] /\ due[3] = f.cpu.pipe[0]
    BY <1>4 DEF FetchedQuietly
  <1> QED BY <1>1, <1>6, <1>7 DEF due, Filled
------------------------------------------------------------------------------
(***************************************************************************)
(* The steps.                                                              *)
(***************************************************************************)
LEMMA DueNext == Due(cpu)' = Due(cpu')
  BY DEF Due, InUse, At, Succ, Plus

\* A fault drops the words in the pipeline and the one it could not fetch.
LEMMA FetchFaultOrder ==
    ASSUME cpu \in Flushing, Filled(cpu), NEW f, NEW n \in 1 .. 3, NEW w \in {Stray, Zero},
           FetchedFaulting(f, n, w), cpu' = f.cpu
    PROVE  Order!FetchFault /\ Filled(cpu')
  <1> DEFINE d == [f.cpu EXCEPT !.pipe = EmptyPipe, !.pc = cpu.xhaddr]
             a == Succ(cpu.xhaddr)
  <1>1. /\ d.xpc = f.cpu.xpc /\ d.xhaddr = f.cpu.xhaddr /\ d.pl = f.cpu.pl
    BY DEF FetchedFaulting, Flushing, Processor
  <1> HIDE DEF d
  <1>2. /\ f.cpu.xhaddr = cpu.xhaddr
        /\ f.cpu.xpc = (IF n = 1 THEN cpu.pc ELSE cpu.xhaddr)
        /\ f.cpu.pl = (IF cpu.pl > n THEN cpu.pl - n ELSE 0)
    BY <1>1 DEF FetchedFaulting, Handled, d
  <1>3. /\ f.cpu.pc = a
        /\ f.cpu.pipe[0] = w /\ f.cpu.pipe[1] = Bubble
    BY DEF FetchedFaulting
  <1>4. InUse(w) /\ ~InUse(Bubble)
    BY DEF InUse, Stray, Zero, Bubble
  <1>5. Due(cpu') = <<w, At(a), At(Succ(a)), At(Succ(Succ(a)))>> /\ Filled(cpu')
    BY <1>3, <1>4, DueHalf DEF Filled
  <1>6. PICK k \in 0 .. 2 : Due(cpu)[k + 1] = At(cpu.pc)
    <2>1. CASE InUse(cpu.pipe[1])
      BY <2>1, DueFull
    <2>2. CASE ~InUse(cpu.pipe[1]) /\ InUse(cpu.pipe[0])
      BY <2>2, DueHalf
    <2>3. CASE ~InUse(cpu.pipe[1]) /\ ~InUse(cpu.pipe[0])
      BY <2>3, DueNone
    <2> QED BY <2>1, <2>2, <2>3
  <1>7. /\ Due(cpu)[k + 1].kind = "word" /\ Due(cpu)[k + 1].at = cpu.pc
    BY <1>6, AtFields
  <1> HIDE DEF a
  <1>8. Order!FetchFault
    <2>1. w \in {Order!Stray, Order!Zero}
      BY SameWords
    <2>2. LET b == Order!Succ(cpu.xhaddr)
          IN  Due(cpu)' = <<w, Order!At(b), Order!At(Order!Succ(b)),
                            Order!At(Order!Succ(Order!Succ(b)))>>
      BY <1>5, SameWords, DueNext DEF a
    <2>3. cpu.xpc' = IF n = 1 THEN Due(cpu)[k + 1].at ELSE cpu.xhaddr
      BY <1>2, <1>7
    <2>4. cpu.pl' = Order!Raise(n)
      BY <1>2 DEF Order!Raise
    <2> QED BY <1>2, <1>7, <2>1, <2>2, <2>3, <2>4 DEF Order!FetchFault
  <1> QED BY <1>5, <1>8

\* f is about to execute the first word due.
Continuing(f) ==
    /\ f.cpu \in Flushing
    /\ f.cpu.pl = cpu.pl /\ f.cpu.xpc = cpu.xpc /\ f.cpu.xhaddr = cpu.xhaddr
    /\ Due(f.cpu) = Order!Advance(Due(cpu)) /\ Filled(f.cpu)
    /\ f.cpu.pc = Due(cpu)[4].at
    /\ Due(cpu)[2] = f.cpu.pipe[1] /\ Due(cpu)[3] = f.cpu.pipe[0]
    /\ InUse(f.cpu.pipe[1])

LEMMA StayOrder ==
    ASSUME NEW f, Continuing(f), cpu' = f.cpu
    PROVE  Order!Retire /\ Filled(cpu')
  BY DueNext DEF Continuing, Order!Retire

\* An emptied pipeline is a jump to where the pc points.
LEMMA WriteOrder ==
    ASSUME NEW f, Continuing(f), NEW d, NEW v \in Word, cpu' = WriteRegister(f.cpu, d, v)
    PROVE  (Order!Retire \/ Order!Jump) /\ Filled(cpu')
  <1>1. CASE d # "pc"
    <2>1. cpu' = f.cpu
      BY <1>1 DEF WriteRegister, Flush
    <2> QED BY <2>1, StayOrder
  <1>2. CASE d = "pc"
    <2>1. /\ cpu'.pipe = EmptyPipe /\ cpu'.pc = v
          /\ cpu'.pl = cpu.pl /\ cpu'.xpc = cpu.xpc /\ cpu'.xhaddr = cpu.xhaddr
      BY <1>2 DEF WriteRegister, Flush, Continuing, Flushing, Processor
    <2>2. Due(cpu)' = Order!Straight(v) /\ Filled(cpu')
      BY <2>1, DueEmpty, DueNext
    <2> QED BY <2>1, <2>2, SameWords DEF Order!Jump
  <1> QED BY <1>1, <1>2

LEMMA TrappedOrder ==
    ASSUME NEW f, Continuing(f), NEW n \in 1 .. 3, NEW c, Handled(f.cpu, c, n),
           cpu'.pl = c.pl, cpu'.xpc = c.xpc, cpu'.xhaddr = c.xhaddr
    PROVE  Order!Trapped(n)
  <1>1. /\ cpu'.xhaddr = cpu.xhaddr
        /\ cpu'.xpc = (IF n = 1 THEN Due(cpu)[4].at ELSE cpu.xhaddr)
        /\ cpu'.pl = (IF cpu.pl > n THEN cpu.pl - n ELSE 0)
    BY DEF Handled, Continuing
  <1> QED BY <1>1 DEF Order!Trapped, Order!Raise

LEMMA TrapOrder ==
    ASSUME NEW f, Continuing(f), NEW n \in 1 .. 3, Handled(f.cpu, cpu', n)
    PROVE  Order!Trap /\ Filled(cpu')
  <1>1. Order!Trapped(n)
    BY TrappedOrder
  <1>2. cpu'.pipe = EmptyPipe /\ cpu'.pc = cpu.xhaddr
    BY DEF Handled, Continuing
  <1>3. Due(cpu)' = Order!Straight(cpu.xhaddr) /\ Filled(cpu')
    BY <1>2, DueEmpty, DueNext
  <1> QED BY <1>1, <1>3 DEF Order!Trap

LEMMA ExceptionOrder ==
    ASSUME NEW f, Continuing(f), NEW cause \in Cause, cpu' = Exception(f.cpu, cause)
    PROVE  Order!Trap /\ Filled(cpu')
  <1>1. Handled(f.cpu, f.cpu, 0)
    BY DEF Handled, Continuing
  <1>2. Handled(f.cpu, cpu', 1)
    BY <1>1, HandledAgain DEF Continuing
  <1> QED BY <1>2, TrapOrder

LEMMA SysretOrder ==
    ASSUME NEW f, Continuing(f),
           LET down == PrivilegeDown(f.cpu) IN cpu' = [down EXCEPT !.pc = down.xpc]
    PROVE  Order!Sysret /\ Filled(cpu')
  <1> DEFINE down == PrivilegeDown(f.cpu)
  <1>1. /\ down.pl = (IF f.cpu.pl = 3 THEN 3 ELSE f.cpu.pl + 1)
        /\ down.xhaddr = f.cpu.xhaddr /\ down.pipe = f.cpu.pipe /\ down.xpc = f.cpu.xpc
    BY PrivilegeDownEffect DEF Continuing, Flushing
  <1>2. down \in Processor
    BY PrivilegeDownType DEF Continuing, Flushing
  <1> HIDE DEF down
  <1>3. cpu' = [down EXCEPT !.pc = down.xpc]
    BY DEF down
  <1>4. /\ cpu'.pl = (IF cpu.pl = 3 THEN 3 ELSE cpu.pl + 1)
        /\ cpu'.xhaddr = cpu.xhaddr /\ cpu'.xpc = cpu.xpc /\ cpu'.pc = cpu.xpc
        /\ cpu'.pipe = f.cpu.pipe
    BY <1>1, <1>2, <1>3 DEF Processor, Continuing
  <1>5. Due(cpu') = <<f.cpu.pipe[1], f.cpu.pipe[0], At(cpu.xpc), At(Succ(cpu.xpc))>>
    BY <1>4, DueFull DEF Continuing
  <1>6. Filled(cpu')
    BY <1>4 DEF Filled, Continuing
  <1>7. Due(cpu)' = <<Due(cpu)[2], Due(cpu)[3], Order!At(cpu.xpc), Order!At(Order!Succ(cpu.xpc))>>
    BY <1>5, SameWords, DueNext DEF Continuing
  <1> QED BY <1>4, <1>6, <1>7 DEF Order!Sysret

LEMMA CopWrittenEffect ==
    ASSUME "cr0" \notin Writable,
           NEW c \in Flushing, NEW cr \in Writable, NEW d \in CopWritten(c, cr)
    PROVE  /\ d \in Flushing
           /\ d.pc = c.pc /\ d.pipe = c.pipe /\ d.pl = c.pl
           /\ \E v \in Word : (d.xpc = v /\ d.xhaddr = c.xhaddr) \/ (d.xhaddr = v /\ d.xpc = c.xpc)
  <1>1. d \in Flushing
    BY CopWrittenFlushing
  <1>2. c.xpc \in Word /\ c \in Processor /\ Data \subseteq Word /\ cr \in CopRegister
    BY SoftwareAssumption DEF Flushing, Processor
  <1>3. CASE cr \in {"cr1", "xcause", "ctrl", "msel"}
    <2>1. /\ d.pc = c.pc /\ d.pipe = c.pipe /\ d.pl = c.pl
          /\ d.xpc = c.xpc /\ d.xhaddr = c.xhaddr
      BY <1>2, <1>3 DEF CopWritten, Processor
    <2> QED BY <1>1, <1>2, <2>1
  <1>4. CASE cr = "xhaddr"
    <2>1. PICK v \in Data : d = [c EXCEPT !.xhaddr = v]
      BY <1>4 DEF CopWritten
    <2> QED BY <1>1, <1>2, <2>1 DEF Processor
  <1>5. CASE cr = "xpc"
    <2>1. PICK v \in Data : d = [c EXCEPT !.xpc = v]
      BY <1>5 DEF CopWritten
    <2> QED BY <1>1, <1>2, <2>1 DEF Processor
  <1>6. CASE cr = "map"
    <2>1. PICK a \in [q : PrivilegeLevel, e : 0 .. NEntries - 1, w : MapFields] :
                 d = MapWritten(c, a.q, a.e, a.w)
      BY <1>6 DEF CopWritten
    <2>2. PICK ms : d = [c EXCEPT !.maps = ms]
      BY <2>1 DEF MapWritten
    <2>3. /\ d.pc = c.pc /\ d.pipe = c.pipe /\ d.pl = c.pl
          /\ d.xpc = c.xpc /\ d.xhaddr = c.xhaddr
      BY <1>2, <2>2 DEF Processor
    <2> QED BY <1>1, <1>2, <2>3
  <1> QED BY <1>2, <1>3, <1>4, <1>5, <1>6 DEF CopRegister

LEMMA MoveToCopOrder ==
    ASSUME "cr0" \notin Writable, NEW f, Continuing(f),
           NEW cr \in Writable, NEW c \in CopWritten(f.cpu, cr),
           NEW d, cpu' = Flush(c, d)
    PROVE  Order!MoveToCop /\ Filled(cpu')
  <1>1. /\ c \in Flushing
        /\ c.pc = f.cpu.pc /\ c.pipe = f.cpu.pipe /\ c.pl = cpu.pl
        /\ \E v \in Word : (c.xpc = v /\ c.xhaddr = cpu.xhaddr) \/ (c.xhaddr = v /\ c.xpc = cpu.xpc)
    BY CopWrittenEffect DEF Continuing
  <1>2. /\ cpu'.pc = c.pc /\ cpu'.pl = c.pl /\ cpu'.xpc = c.xpc /\ cpu'.xhaddr = c.xhaddr
        /\ cpu'.pipe = (IF d = "pc" THEN EmptyPipe ELSE c.pipe)
    BY <1>1 DEF Flush, Flushing, Processor
  <1>3. /\ Due(cpu)' = Order!Advance(Due(cpu)) \/ Due(cpu)' = Order!Straight(Due(cpu)[4].at)
        /\ Filled(cpu')
    <2>1. CASE d = "pc"
      <3>1. Due(cpu') = Order!Straight(cpu'.pc) /\ Filled(cpu')
        BY <1>2, <2>1, DueEmpty
      <3> QED BY <1>1, <1>2, <3>1, DueNext DEF Continuing
    <2>2. CASE d # "pc"
      <3>1. cpu'.pc = f.cpu.pc /\ cpu'.pipe = f.cpu.pipe
        BY <1>1, <1>2, <2>2
      <3>2. Due(cpu') = Due(f.cpu) /\ (Filled(cpu') <=> Filled(f.cpu))
        BY <3>1 DEF Due, Filled
      <3> QED BY <3>2, DueNext DEF Continuing
    <2> QED BY <2>1, <2>2
  <1> QED BY <1>1, <1>2, <1>3, SameWords DEF Order!MoveToCop

\* The register a load writes is written in the state its exceptions left.
LEMMA LoadOrder ==
    ASSUME NEW f, Continuing(f), NEW addr, NEW size, NEW r \in Access(f.cpu, addr, size),
           NEW d, NEW v \in Word, cpu' = WriteRegister(r.cpu, d, v)
    PROVE  Order!Next /\ Filled(cpu')
  <1>1. Handled(f.cpu, r.cpu, r.faults) /\ r.faults \in 0 .. 3
    BY AccessHandled DEF Continuing
  <1>2. CASE r.faults = 0
    <2>1. r.cpu = f.cpu
      BY <1>1, <1>2 DEF Handled
    <2> QED BY <2>1, WriteOrder DEF Order!Next
  <1>3. CASE r.faults # 0 /\ d # "pc"
    <2>1. cpu' = r.cpu
      BY <1>3 DEF WriteRegister, Flush
    <2> QED BY <1>1, <1>3, <2>1, TrapOrder DEF Order!Next
  <1>4. CASE r.faults # 0 /\ d = "pc"
    <2>1. r.cpu \in Flushing
      BY <1>1 DEF Handled
    <2>2. /\ cpu'.pipe = EmptyPipe /\ cpu'.pc = v
          /\ cpu'.pl = r.cpu.pl /\ cpu'.xpc = r.cpu.xpc /\ cpu'.xhaddr = r.cpu.xhaddr
      BY <1>4, <2>1 DEF WriteRegister, Flush, Flushing, Processor
    <2>3. r.faults \in 1 .. 3
      BY <1>1, <1>4
    <2>4. Order!Trapped(r.faults)
      BY <1>1, <2>2, <2>3, TrappedOrder
    <2>5. Due(cpu)' = Order!Straight(v) /\ Filled(cpu')
      BY <2>2, DueEmpty, DueNext
    <2> QED BY <2>3, <2>4, <2>5, SameWords DEF Order!TrapAndJump, Order!Next
  <1> QED BY <1>2, <1>3, <1>4

\* The keyboard's reset comes on top of at most two exceptions.
LEMMA StoreOrder ==
    ASSUME NEW f, Continuing(f), NEW addr, NEW size, NEW r \in Access(f.cpu, addr, size),
           NEW reset \in BOOLEAN, reset => r.dev # 0,
           cpu' = IF reset THEN Exception(r.cpu, "RESET") ELSE r.cpu
    PROVE  Order!Next /\ Filled(cpu')
  <1>1. /\ Handled(f.cpu, r.cpu, r.faults) /\ r.faults \in 0 .. 3
        /\ r.dev # 0 => r.faults \in 0 .. 2
    BY AccessHandled DEF Continuing
  <1>2. CASE reset
    <2>1. Handled(f.cpu, Exception(r.cpu, "RESET"), r.faults + 1) /\ r.faults + 1 \in 1 .. 3
      BY <1>1, <1>2, HandledAgain DEF Continuing, Cause
    <2> QED BY <1>2, <2>1, TrapOrder DEF Order!Next
  <1>3. CASE ~reset /\ r.faults = 0
    <2>1. cpu' = f.cpu
      BY <1>1, <1>3 DEF Handled
    <2> QED BY <2>1, StayOrder DEF Order!Next
  <1>4. CASE ~reset /\ r.faults # 0
    <2>1. r.faults \in 1 .. 3 /\ cpu' = r.cpu
      BY <1>1, <1>4
    <2> QED BY <1>1, <2>1, TrapOrder DEF Order!Next
  <1> QED BY <1>2, <1>3, <1>4

LEMMA InstructionOrder ==
    ASSUME "cr0" \notin Writable, NEW f, Continuing(f), Execute(f)
    PROVE  Order!Next /\ Filled(cpu')
  <1>1. Data \cup {0, 1} \subseteq Word /\ f.cpu.pc \in Word
    BY SoftwareAssumption, SmallWords DEF Continuing, Flushing, Processor
  <1>2. \A v \in Data : Plus(f.cpu.pc, v) \in Word
    BY <1>1, PlusType
  <1>3. {"SYSCALL", "TPL", "DEBUG", "SEXCEPT", "INVALID_COPX", "ILLEGAL_INSTR"} \subseteq Cause
    BY DEF Cause
  <1>4. CASE \/ Alu(f) \/ BranchImmediate(f) \/ BranchRegister(f)
             \/ MoveFromCop(f) \/ LoadEffectiveAddress(f) \/ LoadImmediate(f)
             \/ SetCondImmediate(f) \/ SetCondRegister(f)
    <2>1. cpu' = f.cpu \/ \E d \in Register, v \in Word : cpu' = WriteRegister(f.cpu, d, v)
      BY <1>1, <1>2, <1>4 DEF Alu, BranchImmediate, BranchRegister, MoveFromCop,
         LoadEffectiveAddress, LoadImmediate, SetCondImmediate, SetCondRegister,
         Finish, Register
    <2> QED BY <2>1, StayOrder, WriteOrder DEF Order!Next
  <1>5. CASE \/ Nop(f) \/ CopInstruction(f) \/ ReservedLoadStore(f)
             \/ AluDivideByZero(f) \/ BranchRegisterBadCondition(f) \/ MoveToCopBeyondMaps(f)
             \/ ReservedExchange(f) \/ DebugExit(f) \/ SetCondRegisterBadCondition(f)
    <2>1. cpu' = f.cpu
      BY <1>5 DEF Nop, CopInstruction, ReservedLoadStore, AluDivideByZero,
         BranchRegisterBadCondition, MoveToCopBeyondMaps, ReservedExchange, DebugExit,
         SetCondRegisterBadCondition, Finish, Die
    <2> QED BY <2>1, StayOrder DEF Order!Next
  <1>6. CASE MoveToCop(f)
    <2>1. PICK cr \in Writable, d \in Register : \E c \in CopWritten(f.cpu, cr) :
                 cpu' = Flush(c, d)
      BY <1>6 DEF MoveToCop, Finish
    <2> QED BY <2>1, MoveToCopOrder DEF Order!Next
  <1>7. CASE InvalidCop(f)
    <2>1. PICK d \in Register : cpu' = Flush(Exception(f.cpu, "INVALID_COPX"), d)
      BY <1>7 DEF InvalidCop, Finish
    <2> DEFINE x == Exception(f.cpu, "INVALID_COPX")
    <2>2. x \in Flushing /\ x.pipe = EmptyPipe
      BY <1>3, ExceptionFlushing DEF Continuing
    <2>3. cpu' = Flush(x, d)
      BY <2>1
    <2> HIDE DEF x
    <2>4. [x EXCEPT !.pipe = EmptyPipe] = x
      BY <2>2 DEF Flushing, Processor
    <2>5. cpu' = x
      BY <2>2, <2>3, <2>4 DEF Flush
    <2> QED BY <1>3, <2>5, ExceptionOrder DEF x, Order!Next
  <1>8. CASE SystemTrap(f) \/ IllegalInstruction(f)
    <2>1. \E cause \in Cause : cpu' = Exception(f.cpu, cause)
      BY <1>3, <1>8 DEF SystemTrap, IllegalInstruction, Finish
    <2> QED BY <2>1, ExceptionOrder DEF Order!Next
  <1>9. CASE Sysret(f)
    BY <1>9, SysretOrder DEF Sysret, Finish, Order!Next
  <1>10. CASE Load(f)
    <2>1. PICK addr \in Data, size \in Size, d \in Register :
                 \E r \in Access(f.cpu, addr, size), v \in Data \cup {0} :
                    cpu' = WriteRegister(r.cpu, d, v)
      BY <1>10 DEF Load
    <2> QED BY <1>1, <2>1, LoadOrder
  <1>11. CASE Store(f)
    <2>1. PICK addr \in Data, size \in Size :
                 \E r \in Access(f.cpu, addr, size), reset \in BOOLEAN :
                    /\ reset => r.dev # 0
                    /\ cpu' = IF reset THEN Exception(r.cpu, "RESET") ELSE r.cpu
      BY <1>11 DEF Store
    <2> QED BY <2>1, StoreOrder
  <1> QED BY <1>4, <1>5, <1>6, <1>7, <1>8, <1>9, <1>10, <1>11 DEF Execute

LEMMA NothingToExecute ==
    ASSUME NEW f, IsNop(f), Execute(f)
    PROVE  cpu' = f.cpu
  <1>1. ~IsInstruction(f)
    BY DEF IsInstruction
  <1> QED BY <1>1 DEF Execute, Nop, Finish, Alu, AluDivideByZero, BranchImmediate,
     BranchRegister, BranchRegisterBadCondition, CopInstruction, MoveToCop,
     MoveToCopBeyondMaps, MoveFromCop, InvalidCop, ReservedExchange, SystemTrap,
     DebugExit, Sysret, IllegalInstruction, Load, Store, LoadEffectiveAddress,
     ReservedLoadStore, LoadImmediate, SetCondImmediate, SetCondRegister,
     SetCondRegisterBadCondition

LEMMA CycleOrder ==
    ASSUME "cr0" \notin Writable, TypeOK, cpu \in Flushing, Filled(cpu), Cycle
    PROVE  (Order!Next \/ UNCHANGED Order!isaVars) /\ Filled(cpu')
  <1>1. PICK f \in Fetched : Execute(f)
    BY DEF Cycle
  <1>2. CASE FetchedQuietly(f) /\ InUse(cpu.pipe[1])
    <2>1. Continuing(f)
      BY <1>2, QuietWord DEF FetchedQuietly, Continuing
    <2> QED BY <1>1, <2>1, InstructionOrder
  <1>3. CASE FetchedQuietly(f) /\ ~InUse(cpu.pipe[1])
    <2>1. IsNop(f)
      BY <1>3 DEF FetchedQuietly, IsNop, InUse
    <2>2. cpu' = f.cpu
      BY <1>1, <2>1, NothingToExecute
    <2>3. Due(f.cpu) = Due(cpu) /\ Filled(f.cpu)
      BY <1>3, QuietBubble
    <2>4. cpu'.pl = cpu.pl /\ cpu'.xpc = cpu.xpc /\ cpu'.xhaddr = cpu.xhaddr
      BY <1>3, <2>2 DEF FetchedQuietly
    <2> QED BY <2>2, <2>3, <2>4, DueNext DEF Order!isaVars
  <1>4. CASE \E n \in 1 .. 3, w \in {Stray, Zero} : FetchedFaulting(f, n, w)
    <2>1. IsNop(f)
      BY <1>4 DEF FetchedFaulting, IsNop, Bubble
    <2>2. cpu' = f.cpu
      BY <1>1, <2>1, NothingToExecute
    <2> QED BY <1>4, <2>2, FetchFaultOrder DEF Order!Next
  <1> QED BY <1>2, <1>3, <1>4, FetchedOrder

LEMMA InterruptOrder ==
    ASSUME cpu \in Flushing, Filled(cpu), Interrupt
    PROVE  Order!Interrupt /\ Filled(cpu')
  <1>1. cpu' = Exception(cpu, "KBC")
    BY DEF Interrupt
  <1>2. /\ cpu'.pipe = EmptyPipe
        /\ cpu'.pc = cpu.xhaddr /\ cpu'.xhaddr = cpu.xhaddr /\ cpu'.xpc = cpu.pc
        /\ cpu'.pl = (IF cpu.pl > 1 THEN cpu.pl - 1 ELSE 0)
    BY <1>1, ExceptionEffect DEF Cause
  <1>3. Due(cpu)' = Order!Straight(cpu.xhaddr) /\ Filled(cpu')
    BY <1>2, DueEmpty, DueNext
  <1>4. PICK k \in 0 .. 2 : Due(cpu)[k + 1] = At(cpu.pc)
    <2>1. CASE InUse(cpu.pipe[1])
      BY <2>1, DueFull
    <2>2. CASE ~InUse(cpu.pipe[1]) /\ InUse(cpu.pipe[0])
      BY <2>2, DueHalf
    <2>3. CASE ~InUse(cpu.pipe[1]) /\ ~InUse(cpu.pipe[0])
      BY <2>3, DueNone
    <2> QED BY <2>1, <2>2, <2>3
  <1>5. Due(cpu)[k + 1].kind = "word" /\ Due(cpu)[k + 1].at = cpu.pc
    BY <1>4, AtFields
  <1>6. cpu.pl' = Order!Raise(1)
    BY <1>2 DEF Order!Raise
  <1> QED BY <1>2, <1>3, <1>5, <1>6 DEF Order!Interrupt

LEMMA InitOrder == Init => Order!Init /\ Filled(cpu)
  <1> SUFFICES ASSUME Init PROVE Order!Init /\ Filled(cpu)
    OBVIOUS
  <1>1. /\ cpu.pipe = EmptyPipe /\ cpu.pc = 0 /\ cpu.pl = 0
        /\ cpu.xpc = 0 /\ cpu.xhaddr = 0
    BY DEF Init, ResetProcessor
  <1> QED BY <1>1, DueEmpty DEF Order!Init

LEMMA NextOrder ==
    ASSUME "cr0" \notin Writable
    PROVE  TypeOK /\ cpu \in Flushing /\ Filled(cpu) /\ [Next]_vars =>
               [Order!Next]_(Order!isaVars) /\ Filled(cpu)'
  <1> SUFFICES ASSUME TypeOK, cpu \in Flushing, Filled(cpu), [Next]_vars
               PROVE  [Order!Next]_(Order!isaVars) /\ Filled(cpu')
    BY DEF Filled, InUse
  <1>1. CASE Cycle
    BY <1>1, CycleOrder
  <1>2. CASE Interrupt
    BY <1>2, InterruptOrder DEF Order!Next
  <1>3. CASE UNCHANGED vars
    BY <1>3, DueNext DEF vars, Order!isaVars
  <1> QED BY <1>1, <1>2, <1>3 DEF Next

\* No instruction is lost, repeated or executed out of order but for what Isa
\* says of exceptions and sysret: hv2_cycle, hv2_flush and hv2_exception with
\* the three-slot pipeline implement the order in which software is written.
THEOREM PipelineKeepsOrder ==
    ASSUME "cr0" \notin Writable PROVE Spec => ImplementsOrder
  <1>1. Init => Order!Init /\ Filled(cpu)
    BY InitOrder
  <1>2. TypeOK /\ cpu \in Flushing /\ Filled(cpu) /\ [Next]_vars =>
            [Order!Next]_(Order!isaVars) /\ Filled(cpu)'
    BY NextOrder
  <1> QED BY <1>1, <1>2, TypeCorrect, AlwaysFlushing, PTL DEF Spec, ImplementsOrder, Order!Spec
=============================================================================
