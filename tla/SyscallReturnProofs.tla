------------------------ MODULE SyscallReturnProofs -------------------------
(***************************************************************************)
(* System calls and returns give each caller its map back, for every word  *)
(* size, set of devices, build and software that leaves REMAP_ON_PLT on,   *)
(* while nothing interrupts level 0.  The invariant relates the stack of   *)
(* the calls not returned from to the level and map in use (CallsFit).     *)
(***************************************************************************)
EXTENDS SyscallReturn, CpuProofs

Remapping(c) == "REMAP_ON_PLT" \in c.ctrl

\* The processor c has become d, which runs at level n.
Entered(c, d, n) ==
    /\ d \in Processor
    /\ d.pl = n
    /\ d.cmap = IF Remapping(c) THEN n ELSE c.cmap
    /\ Remapping(c) => Remapping(d)

LEMMA EnterLevelEntered ==
    ASSUME NEW c \in Processor, NEW n \in PrivilegeLevel
    PROVE  Entered(c, EnterLevel([c EXCEPT !.pl = n]), n)
  <1> DEFINE s == [c EXCEPT !.pl = n]
  <1>1. s \in Processor /\ s.pl = n /\ s.ctrl = c.ctrl /\ s.cmap = c.cmap
    BY DEF Processor
  <1> HIDE DEF s
  <1>2. EnterLevel(s) \in Processor
    BY <1>1, EnterLevelType
  <1>3. /\ EnterLevel(s).pl = s.pl
        /\ "REMAP_ON_PLT" \in EnterLevel(s).ctrl <=> "REMAP_ON_PLT" \in s.ctrl
        /\ EnterLevel(s).cmap = IF "REMAP_ON_PLT" \in s.ctrl THEN s.pl ELSE s.cmap
    BY <1>1 DEF EnterLevel, Processor
  <1>4. Entered(c, EnterLevel(s), n)
    BY <1>1, <1>2, <1>3 DEF Entered, Remapping
  <1> QED BY <1>4 DEF s

LEMMA ExceptionEntered ==
    ASSUME NEW c \in Processor, NEW cause \in Cause, c.pl > 0
    PROVE  Entered(c, Exception(c, cause), c.pl - 1)
  <1> DEFINE up == PrivilegeUp(c)
             entered == [up EXCEPT !.xcause = cause, !.xpc = up.pc, !.pc = up.xhaddr]
  <1>1. c.pl - 1 \in PrivilegeLevel /\ c.pl # 0
    BY DEF Processor, PrivilegeLevel
  <1>2. Entered(c, up, c.pl - 1)
    BY <1>1, EnterLevelEntered DEF PrivilegeUp
  <1> HIDE DEF up
  <1>3. entered \in Processor /\ SameLevel(up, entered)
    BY <1>2 DEF Entered, Processor, SameLevel
  <1>4. Exception(c, cause) = Flush(entered, "pc")
    BY DEF Exception, up
  <1> HIDE DEF entered
  <1>5. Exception(c, cause) \in Processor /\ SameLevel(entered, Exception(c, cause))
    BY <1>3, <1>4, FlushType DEF Flush, SameLevel, Processor
  <1> QED BY <1>2, <1>3, <1>5 DEF Entered, SameLevel, Remapping

\* A return below level 3.
LEMMA SysretEntered ==
    ASSUME NEW c \in Processor, c.pl < 3
    PROVE  LET down == PrivilegeDown(c)
           IN  Entered(c, [down EXCEPT !.pc = down.xpc], c.pl + 1)
  <1> DEFINE down == PrivilegeDown(c)
  <1>1. c.pl + 1 \in PrivilegeLevel /\ c.pl # 3
    BY DEF Processor, PrivilegeLevel
  <1>2. Entered(c, down, c.pl + 1)
    BY <1>1, EnterLevelEntered DEF PrivilegeDown
  <1> HIDE DEF down
  <1>3. /\ [down EXCEPT !.pc = down.xpc] \in Processor
        /\ SameLevel(down, [down EXCEPT !.pc = down.xpc])
    BY <1>2 DEF Entered, Processor, SameLevel
  <1>4. Entered(c, [down EXCEPT !.pc = down.xpc], c.pl + 1)
    BY <1>2, <1>3 DEF Entered, SameLevel, Remapping
  <1> QED BY <1>4 DEF down
------------------------------------------------------------------------------
\* An access that raises nothing leaves the processor alone.
LEMMA QuietAlign ==
    ASSUME NEW c, NEW phys, NEW size, NEW n \in Nat, Align(c, phys, size, n).faults = 0
    PROVE  n = 0 /\ Align(c, phys, size, n).cpu = c
  BY DEF Align

LEMMA QuietTranslate ==
    ASSUME NEW c, NEW i, NEW vaddr, NEW size,
           NEW r \in Translate(c, i, vaddr, size), r.faults = 0
    PROVE  r.cpu = c
  <1> DEFINE noExec == size = "EXEC" /\ "EXEC" \notin c.maps[c.cmap][i].attr
             n == IF noExec THEN 1 ELSE 0
             d == IF noExec THEN Exception(c, "MMU_PROT_EXEC") ELSE c
  <1>1. PICK v \in Reread(c, i, vaddr, noExec) :
               r = IF "READ" \in v.attr
                   THEN Align(d, v.phys, size, n)
                   ELSE [cpu |-> Exception(d, "MMU_PROT_READ"), phys |-> 0, faults |-> n + 1]
    BY DEF Translate
  <1>2. n \in Nat /\ n + 1 # 0 /\ (n = 0 => d = c)
    OBVIOUS
  <1> HIDE DEF n, d
  <1> QED BY <1>1, <1>2, QuietAlign

LEMMA QuietAccess ==
    ASSUME NEW c \in Processor, NEW addr \in Word, NEW size,
           NEW r \in Access(c, addr, size), r.faults = 0
    PROVE  r.cpu = c
  <1>1. PICK p \in GetPhys(c, addr, size) : \E dev \in DevicesAt(p.phys) :
               r = [cpu |-> IF dev = 0 THEN Exception(p.cpu, "MMU_NOMAP") ELSE p.cpu,
                    phys |-> p.phys,
                    faults |-> IF dev = 0 THEN p.faults + 1 ELSE p.faults,
                    dev |-> dev]
    BY DEF Access
  <1>2. p.faults \in Nat
    BY GetPhysType DEF Physical
  <1>3. p.faults = 0 /\ r.cpu = p.cpu
    BY <1>1, <1>2
  <1>4. p.cpu = c
    <2>1. CASE "ENABLE" \notin c.ctrl
      BY <1>3, <2>1, QuietAlign DEF GetPhys
    <2>2. CASE "ENABLE" \in c.ctrl
      <3>1. PICK i \in SearchMap(c, addr) :
              p \in IF i = NoEntry
                    THEN {[cpu |-> Exception(c, "MMU_NOMAP"), phys |-> 0, faults |-> 1]}
                    ELSE Translate(c, i, addr, size)
        BY <2>2 DEF GetPhys
      <3> QED BY <1>3, <3>1, QuietTranslate
    <2> QED BY <2>1, <2>2
  <1> QED BY <1>3, <1>4

LEMMA QuietFetch ==
    ASSUME TypeOK, NEW f \in Fetched, Quiet(f)
    PROVE  f \in Prepared /\ SameLevel(cpu, f.cpu)
  <1>1. PICK r \in Access(Shift(cpu), cpu.pc, "EXEC") :
               f = [cpu |-> [r.cpu EXCEPT !.pipe[0] = Latch(r, cpu.pc), !.pc = Succ(@)],
                    bus |-> OnBus("fetch", r)]
    BY DEF Fetched
  <1>2. f \in Prepared
    BY FetchedType
  <1>3. Shift(cpu) \in Processor /\ SameLevel(cpu, Shift(cpu)) /\ cpu.pc \in Word
    BY ShiftType DEF TypeOK, Processor, Shift, SameLevel
  <1>4. r \in AccessResult
    BY <1>3, AccessType
  <1>5. f.cpu.pipe[0] = Latch(r, cpu.pc) /\ SameLevel(r.cpu, f.cpu)
    <2> DEFINE d == r.cpu  w == Latch(r, cpu.pc)
    <2>1. f.cpu = [d EXCEPT !.pipe[0] = w, !.pc = Succ(d.pc)] /\ d \in Processor
      BY <1>1, <1>4 DEF AccessResult
    <2> HIDE DEF d, w
    <2>2. f.cpu.pipe[0] = w /\ SameLevel(d, f.cpu)
      BY <2>1 DEF Processor, SameLevel
    <2> QED BY <2>2 DEF d, w
  <1>6. r.faults = 0
    BY <1>4, <1>5 DEF Quiet, Latch, Zero, Stray, AccessResult
  <1>7. r.cpu = Shift(cpu)
    BY <1>3, <1>6, QuietAccess
  <1> QED BY <1>2, <1>3, <1>5, <1>7 DEF SameLevel
------------------------------------------------------------------------------
(***************************************************************************)
(* The calls under way, newest first: one for every level above the one    *)
(* that runs, and a map that one of them used is the map of its level.     *)
(***************************************************************************)
Call == [what : {"syscall", "interrupt"}, map : PrivilegeLevel]

CallsFit(c, calls) ==
    /\ calls \in Seq(Call)
    /\ Len(calls) + c.pl <= 3
    /\ c.cmap > 0 => c.cmap = c.pl /\ Remapping(c)
    /\ \A i \in 1 .. Len(calls) :
          calls[i].map > 0 => calls[i].map = c.pl + i /\ Remapping(c)

LEMMA StayFits ==
    ASSUME NEW c \in Processor, NEW d, NEW calls, CallsFit(c, calls),
           d.pl = c.pl, d.cmap = c.cmap, Remapping(c) => Remapping(d)
    PROVE  CallsFit(d, calls)
  BY DEF CallsFit

LEMMA Prepended ==
    ASSUME NEW S, NEW e \in S, NEW s \in Seq(S)
    PROVE  /\ <<e>> \o s \in Seq(S) /\ Len(<<e>> \o s) = Len(s) + 1
           /\ (<<e>> \o s)[1] = e
           /\ \A i \in 2 .. Len(<<e>> \o s) : (<<e>> \o s)[i] = s[i - 1]
  <1>1. <<e>> \in Seq(S) /\ Len(<<e>>) = 1 /\ <<e>>[1] = e /\ Len(s) \in Nat
    OBVIOUS
  <1>2. <<e>> \o s \in Seq(S) /\ Len(<<e>> \o s) = Len(s) + 1
    BY <1>1
  <1>3. (<<e>> \o s)[1] = e
    BY <1>1
  <1>4. ASSUME NEW i \in 2 .. Len(s) + 1 PROVE (<<e>> \o s)[i] = s[i - 1]
    BY <1>1
  <1> QED BY <1>2, <1>3, <1>4

LEMMA PushFits ==
    ASSUME NEW c \in Processor, NEW d, NEW calls, CallsFit(c, calls), c.pl > 0,
           Entered(c, d, c.pl - 1), NEW what \in {"syscall", "interrupt"}
    PROVE  CallsFit(d, <<[what |-> what, map |-> c.cmap]>> \o calls)
  <1> DEFINE call == [what |-> what, map |-> c.cmap]
             more == <<call>> \o calls
  <1>1. call \in Call /\ call.map = c.cmap /\ c.pl \in 1 .. 3 /\ c.cmap \in Nat
    BY DEF Call, Processor, PrivilegeLevel
  <1> HIDE DEF call
  <1>2. calls \in Seq(Call) /\ Len(calls) \in Nat
    BY DEF CallsFit
  <1>4. /\ more \in Seq(Call) /\ Len(more) = Len(calls) + 1
        /\ more[1] = call
        /\ \A i \in 2 .. Len(more) : more[i] = calls[i - 1]
    BY <1>1, <1>2, Prepended
  <1> HIDE DEF more
  <1>5. Len(more) + d.pl <= 3
    BY <1>1, <1>2, <1>4 DEF CallsFit, Entered
  <1>6. d.cmap > 0 => d.cmap = d.pl /\ Remapping(d)
    BY <1>1 DEF CallsFit, Entered
  <1>7. ASSUME NEW i \in 1 .. Len(more), more[i].map > 0
        PROVE  more[i].map = d.pl + i /\ Remapping(d)
    <2>1. CASE i = 1
      <3>1. c.cmap = c.pl /\ Remapping(c)
        BY <1>1, <1>4, <1>7, <2>1 DEF CallsFit
      <3> QED BY <1>1, <1>4, <2>1, <3>1 DEF Entered
    <2>2. CASE i # 1
      <3>1. i \in 2 .. Len(more) /\ i - 1 \in 1 .. Len(calls)
        BY <1>2, <1>4, <2>2
      <3>2. more[i] = calls[i - 1]
        BY <1>4, <3>1
      <3>3. calls[i - 1].map = c.pl + (i - 1) /\ Remapping(c)
        BY <1>7, <3>1, <3>2 DEF CallsFit
      <3> QED BY <1>1, <3>1, <3>2, <3>3 DEF Entered
    <2> QED BY <2>1, <2>2
  <1>8. CallsFit(d, more)
    BY <1>4, <1>5, <1>6, <1>7 DEF CallsFit
  <1> QED BY <1>8 DEF more, call

LEMMA PopFits ==
    ASSUME NEW c \in Processor, NEW d, NEW calls, CallsFit(c, calls), c.pl < 3,
           Entered(c, d, c.pl + 1)
    PROVE  /\ CallsFit(d, IF calls = <<>> THEN calls ELSE Tail(calls))
           /\ calls # <<>> /\ Head(calls).map > 0 => d.cmap = Head(calls).map
  <1>1. c.pl \in 0 .. 2 /\ c.cmap \in Nat
    BY DEF Processor, PrivilegeLevel
  <1>2. calls \in Seq(Call) /\ Len(calls) \in Nat
    BY DEF CallsFit
  <1>3. d.cmap > 0 => d.cmap = d.pl /\ Remapping(d)
    BY <1>1 DEF CallsFit, Entered
  <1>4. CASE calls = <<>>
    <2>1. Len(calls) = 0 /\ calls = <<>>
      BY <1>4
    <2> QED BY <1>1, <1>2, <1>3, <2>1 DEF CallsFit, Entered
  <1>5. CASE calls # <<>>
    <2>1. /\ Len(calls) >= 1 /\ Tail(calls) \in Seq(Call) /\ Len(Tail(calls)) = Len(calls) - 1
          /\ Head(calls) = calls[1]
          /\ \A i \in 1 .. Len(calls) - 1 : Tail(calls)[i] = calls[i + 1]
      BY <1>2, <1>5
    <2>2. Len(Tail(calls)) + d.pl <= 3
      BY <1>1, <1>2, <2>1 DEF CallsFit, Entered
    <2>3. ASSUME NEW i \in 1 .. Len(Tail(calls)), Tail(calls)[i].map > 0
          PROVE  Tail(calls)[i].map = d.pl + i /\ Remapping(d)
      <3>1. i + 1 \in 1 .. Len(calls) /\ Tail(calls)[i] = calls[i + 1]
        BY <1>2, <2>1
      <3>2. calls[i + 1].map = c.pl + (i + 1) /\ Remapping(c)
        BY <2>3, <3>1 DEF CallsFit
      <3> QED BY <1>1, <3>1, <3>2 DEF Entered
    <2>4. Head(calls).map > 0 => d.cmap = Head(calls).map
      <3> SUFFICES ASSUME calls[1].map > 0 PROVE d.cmap = calls[1].map
        BY <2>1
      <3>1. calls[1].map = c.pl + 1 /\ Remapping(c)
        BY <1>2, <2>1 DEF CallsFit
      <3> QED BY <3>1 DEF Entered
    <2> QED BY <1>3, <1>5, <2>1, <2>2, <2>3, <2>4 DEF CallsFit
  <1> QED BY <1>4, <1>5
------------------------------------------------------------------------------
(***************************************************************************)
(* Every step keeps the calls fitting.                                     *)
(***************************************************************************)
LEMMA CopWrittenStays ==
    ASSUME \A v \in CtrlValues : "REMAP_ON_PLT" \in v,
           NEW c \in Processor, NEW cr \in Writable, NEW d \in CopWritten(c, cr)
    PROVE  /\ d \in Processor /\ d.pl = c.pl /\ d.cmap = c.cmap
           /\ Remapping(c) => Remapping(d)
  <1>1. d \in Processor /\ cr \in CopRegister
    BY CopWrittenType, SoftwareAssumption
  <1>2. CASE cr = "ctrl"
    <2>1. PICK v \in CtrlValues : d = [c EXCEPT !.ctrl = v]
      BY <1>2 DEF CopWritten
    <2>2. d.ctrl = v /\ d.pl = c.pl /\ d.cmap = c.cmap
      BY <2>1 DEF Processor
    <2> QED BY <1>1, <2>2 DEF Remapping
  <1>3. CASE cr = "map"
    <2>1. PICK a \in [q : PrivilegeLevel, e : 0 .. NEntries - 1, w : MapFields] :
                 d = MapWritten(c, a.q, a.e, a.w)
      BY <1>3 DEF CopWritten
    <2>2. PICK ms : d = [c EXCEPT !.maps = ms]
      BY <2>1 DEF MapWritten
    <2> QED BY <1>1, <2>2 DEF Processor, Remapping
  <1>4. CASE cr \in CopRegister \ {"ctrl", "map"}
    <2>1. \/ d = c
          \/ \E v : d = [c EXCEPT !.xflush = v]
          \/ \E v : d = [c EXCEPT !.xcause = v]
          \/ \E v : d = [c EXCEPT !.xhaddr = v]
          \/ \E v : d = [c EXCEPT !.xpc = v]
          \/ \E v : d = [c EXCEPT !.msel = v]
      BY <1>4 DEF CopWritten, CopRegister
    <2> QED BY <1>1, <2>1 DEF Processor, Remapping
  <1> QED BY <1>1, <1>2, <1>3, <1>4

LEMMA MoveToCopFits ==
    ASSUME \A v \in CtrlValues : "REMAP_ON_PLT" \in v,
           NEW f \in Prepared, NEW calls, CallsFit(f.cpu, calls), MoveToCop(f)
    PROVE  CallsFit(cpu', calls)
  <1>1. PICK cr \in Writable, d \in Register : \E c \in CopWritten(f.cpu, cr) :
               cpu' = Flush(c, d)
    BY DEF MoveToCop, Finish
  <1>2. PICK c \in CopWritten(f.cpu, cr) : cpu' = Flush(c, d)
    BY <1>1
  <1>3. f.cpu \in Processor
    BY DEF Prepared
  <1>4. /\ c \in Processor /\ c.pl = f.cpu.pl /\ c.cmap = f.cpu.cmap
        /\ Remapping(f.cpu) => Remapping(c)
    BY <1>3, CopWrittenStays
  <1>5. SameLevel(c, cpu')
    BY <1>2, <1>4 DEF Flush, SameLevel, Processor
  <1> QED BY <1>3, <1>4, <1>5, StayFits DEF SameLevel, Remapping

\* What a step of SpecCall does to the calls: none is left, the newest one is
\* returned from with its map back in use, or one is added.
Returned(d, calls, more) ==
    /\ CallsFit(d, more)
    /\ \/ more = calls
       \/ Len(more) = Len(calls) + 1
       \/ calls # <<>> /\ Head(calls).map > 0 => d.cmap = Head(calls).map

CallAssumptions == NestAtZero = FALSE /\ \A v \in CtrlValues : "REMAP_ON_PLT" \in v

LEMMA PushReturned ==
    ASSUME CallAssumptions, NEW c \in Processor, CallsFit(c, saved), SameLevel(cpu, c),
           NEW what \in {"syscall", "interrupt"}, Push(what),
           NEW cause \in Cause, cpu' = Exception(c, cause)
    PROVE  Returned(cpu', saved, saved')
  <1>1. c.pl > 0 /\ saved' = <<[what |-> what, map |-> c.cmap]>> \o saved
    BY DEF Push, CallAssumptions, SameLevel
  <1>2. CallsFit(cpu', saved')
    BY <1>1, ExceptionEntered, PushFits
  <1>3. Len(saved') = Len(saved) + 1
    <2>1. [what |-> what, map |-> c.cmap] \in Call
      BY DEF Call, Processor
    <2> QED BY <1>1, <2>1 DEF CallsFit
  <1> QED BY <1>2, <1>3 DEF Returned

LEMMA SysretReturned ==
    ASSUME NEW f \in Prepared, CallsFit(f.cpu, saved), Sysret(f), Pop
    PROVE  Returned(cpu', saved, saved')
  <1> DEFINE down == PrivilegeDown(f.cpu)
  <1>1. /\ f.cpu \in Processor
        /\ cpu' = [down EXCEPT !.pc = down.xpc]
        /\ saved' = IF saved = <<>> THEN saved ELSE Tail(saved)
    BY DEF Prepared, Sysret, Finish, Pop
  <1>2. CASE f.cpu.pl < 3
    <2>1. Entered(f.cpu, cpu', f.cpu.pl + 1)
      BY <1>1, <1>2, SysretEntered
    <2> HIDE DEF down
    <2> QED BY <1>1, <1>2, <2>1, PopFits DEF Returned
  <1>3. CASE ~(f.cpu.pl < 3)
    <2>1. f.cpu.pl = 3
      BY <1>1, <1>3 DEF Processor, PrivilegeLevel
    <2>2. saved \in Seq(Call) /\ Len(saved) = 0
      BY <2>1 DEF CallsFit
    <2>3. saved = <<>> /\ saved' = saved
      BY <1>1, <2>2
    <2>4. down = f.cpu
      BY <2>1 DEF PrivilegeDown
    <2>5. cpu' = [f.cpu EXCEPT !.pc = f.cpu.xpc]
      BY <1>1, <2>4
    <2>6. CallsFit(cpu', saved)
      BY <1>1, <2>5, StayFits DEF Processor, Remapping
    <2> QED BY <2>3, <2>6 DEF Returned
  <1> QED BY <1>2, <1>3

LEMMA NextReturned ==
    ASSUME CallAssumptions, TypeOK, CallsFit(cpu, saved), NextCall
    PROVE  Returned(cpu', saved, saved')
  <1>0. cpu \in Processor
    BY DEF TypeOK
  <1>1. CASE Interrupt /\ Push("interrupt")
    BY <1>0, <1>1, PushReturned DEF Interrupt, Cause, SameLevel
  <1>2. CASE ~(Interrupt /\ Push("interrupt"))
    <2>1. PICK f \in Fetched :
            /\ Quiet(f)
            /\ \/ (Nop(f) \/ CopInstruction(f) \/ MoveToCop(f)) /\ UNCHANGED saved
               \/ SystemTrap(f) /\ Push("syscall")
               \/ Sysret(f) /\ Pop
      BY <1>2 DEF NextCall
    <2>2. f \in Prepared /\ SameLevel(cpu, f.cpu) /\ f.cpu \in Processor
      BY <2>1, QuietFetch DEF Prepared
    <2>3. CallsFit(f.cpu, saved)
      BY <1>0, <2>2, StayFits DEF SameLevel, Remapping
    <2>4. CASE (Nop(f) \/ CopInstruction(f)) /\ UNCHANGED saved
      BY <2>3, <2>4 DEF Nop, CopInstruction, Finish, Returned
    <2>5. CASE MoveToCop(f) /\ UNCHANGED saved
      BY <2>2, <2>3, <2>5, MoveToCopFits DEF Returned, CallAssumptions
    <2>6. CASE SystemTrap(f) /\ Push("syscall")
      <3>1. \E cause \in Cause : cpu' = Exception(f.cpu, cause)
        BY <2>6 DEF SystemTrap, Finish, Cause
      <3> QED BY <2>2, <2>3, <2>6, <3>1, PushReturned
    <2>7. CASE Sysret(f) /\ Pop
      BY <2>2, <2>3, <2>7, SysretReturned
    <2> QED BY <2>1, <2>4, <2>5, <2>6, <2>7
  <1> QED BY <1>1, <1>2

LEMMA CallIsStep == NextCall => Next
  BY DEF NextCall, Next, Cycle, Execute

LEMMA AlwaysFits ==
    ASSUME CallAssumptions PROVE SpecCall => [](TypeOK /\ CallsFit(cpu, saved))
  <1>1. InitCall => TypeOK /\ CallsFit(cpu, saved)
    <2> SUFFICES ASSUME InitCall PROVE TypeOK /\ CallsFit(cpu, saved)
      OBVIOUS
    <2>1. TypeOK
      BY InitType DEF InitCall
    <2>2. cpu.pl = 0 /\ cpu.cmap = 0 /\ saved = <<>>
      BY DEF InitCall, Init, ResetProcessor
    <2>3. saved \in Seq(Call) /\ Len(saved) = 0
      BY <2>2
    <2> QED BY <2>1, <2>2, <2>3 DEF CallsFit
  <1>2. TypeOK /\ CallsFit(cpu, saved) /\ [NextCall]_callVars
          => (TypeOK /\ CallsFit(cpu, saved))'
    <2> SUFFICES ASSUME TypeOK, CallsFit(cpu, saved), [NextCall]_callVars
                 PROVE  TypeOK' /\ CallsFit(cpu', saved')
      BY DEF CallsFit, Remapping
    <2>1. CASE NextCall
      BY <2>1, NextReturned, CallIsStep, NextType DEF Returned
    <2>2. CASE UNCHANGED callVars
      BY <2>2, NextType DEF callVars, vars
    <2> QED BY <2>1, <2>2
  <1> QED BY <1>1, <1>2, PTL DEF SpecCall

\* The return that matches a system call made under a map of its own puts that
\* map back in use, after any calls, returns and key presses in between, when
\* none of them interrupts level 0 and the software, once it has it on, leaves
\* REMAP_ON_PLT on: hv2_exception and sysret, with privilege_up and _down.
THEOREM CallersMapComesBack ==
    ASSUME NestAtZero = FALSE, \A v \in CtrlValues : "REMAP_ON_PLT" \in v
    PROVE  SpecCall => MapRestoredOnSysret
  <1>1. CallAssumptions
    BY DEF CallAssumptions
  <1>2. TypeOK /\ CallsFit(cpu, saved) /\ [NextCall]_callVars =>
          [ /\ saved # <<>> /\ saved' = Tail(saved)
            /\ Head(saved).what = "syscall" /\ Head(saved).map > 0
            => cpu'.cmap = Head(saved).map ]_callVars
    <2> SUFFICES ASSUME TypeOK, CallsFit(cpu, saved), NextCall,
                        saved # <<>>, saved' = Tail(saved), Head(saved).map > 0
                 PROVE  cpu'.cmap = Head(saved).map
      OBVIOUS
    <2>1. Returned(cpu', saved, saved')
      BY <1>1, NextReturned
    <2>2. saved' # saved /\ Len(saved') # Len(saved) + 1
      BY DEF CallsFit
    <2> QED BY <2>1, <2>2 DEF Returned
  <1> QED BY <1>1, <1>2, AlwaysFits, PTL DEF SpecCall, MapRestoredOnSysret
=============================================================================
