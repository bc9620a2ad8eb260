-------------------------------- MODULE Mmu --------------------------------
(***************************************************************************)
(* Address translation and the physical bus (hv2/mmu.cpp).                 *)
(*                                                                         *)
(* hv2_mmu_search_map copies the map into a local and returns a pointer    *)
(* into that copy.  What the callers read through it is undefined; the two *)
(* builds the repository has (Makefile: no optimisation, build-win.ps1:    *)
(* -O3) give these outcomes, both of which the model allows:               *)
(*   "plain"     the copy is still intact, except that the exception call  *)
(*               between two reads overwrites its last entries (Clobbered);*)
(*   "optimised" the compiler returns null and every lookup misses.        *)
(***************************************************************************)
EXTENDS Exception, Sequences

CONSTANTS
    Builds,     \* the builds considered
    Clobbered,  \* entries an exception overwrites in the dangling copy
    Devices     \* physical ranges [start, end) in the order of attachment

ASSUME BuildsAssumption == Builds \subseteq {"plain", "optimised"} /\ Builds # {}
ASSUME ClobberedAssumption == Clobbered \subseteq 0 .. NEntries - 1
ASSUME DevicesAssumption == Devices \in Seq([start : Nat, end : Nat])

NoEntry == -1

\* Mutant: the loop runs on and the last hit wins.
Last(hits) == {i \in hits : \A j \in hits : i >= j}

\* The loops over entries and devices stop at the first index that qualifies.
First(hits) == {i \in hits : \A j \in hits : i <= j}

\* An access: processor state after it, the physical address asked for, the
\* exceptions raised on the way, the device that answered (0 when none).
AccessResult == [cpu : Processor, phys : Word, faults : 0 .. 3, dev : Nat]

Covers(e, vaddr) == vaddr >= e.vaddr /\ vaddr < Plus(e.vaddr, e.size)

\* hv2_mmu_search_map: the indices it may return, first match first.
SearchMap(c, vaddr) ==
    LET map == c.maps[c.cmap]
        hits == {i \in 0 .. NEntries - 1 : Covers(map[i], vaddr)}
    IN  (IF "plain" \in Builds THEN First(hits) ELSE {})
        \cup (IF "optimised" \in Builds \/ hits = {} THEN {NoEntry} ELSE {})

VirtualToPhysical(e, vaddr) == Plus(e.paddr, Minus(vaddr, e.vaddr))

\* hv2_mmu_get_device_at_phys: index of the first device, 0 if there is none.
DevicesAt(phys) ==
    LET hits == {i \in DOMAIN Devices : phys >= Devices[i].start /\ phys < Devices[i].end}
    IN  IF hits = {} THEN {0} ELSE First(hits)

Misaligned(c, phys, size) ==
    \/ size = "EXEC" /\ phys % 4 # 0
    \/ "RWALIGN_EXC" \in c.ctrl /\ size = "LONG" /\ phys % 4 # 0
    \/ "RWALIGN_EXC" \in c.ctrl /\ size = "SHORT" /\ phys % 2 # 0

\* The alignment check that ends hv2_mmu_get_phys: it reports, and the access
\* goes on.
Align(c, phys, size, faults) ==
    IF Misaligned(c, phys, size)
    THEN [cpu |-> Exception(c, IF size = "EXEC" THEN "MMU_XALIGN" ELSE "MMU_RWALIGN"),
          phys |-> phys, faults |-> faults + 1]
    ELSE [cpu |-> c, phys |-> phys, faults |-> faults]

\* What the copied entry i reads as: its permissions and the address it gives.
Reread(c, i, vaddr, afterException) ==
    IF afterException /\ i \in Clobbered
    THEN [attr : {{}, {"READ"}}, phys : Word]
    ELSE LET e == c.maps[c.cmap][i]
         IN  {[attr |-> e.attr, phys |-> VirtualToPhysical(e, vaddr)]}

\* Mutant: the EXEC permission is not looked at.
TranslateAnyFetch(c, i, vaddr, size) ==
    {IF "READ" \in v.attr
     THEN Align(c, v.phys, size, 0)
     ELSE [cpu |-> Exception(c, "MMU_PROT_READ"), phys |-> 0, faults |-> 1] :
        v \in Reread(c, i, vaddr, FALSE)}

\* Mutant: the missing READ permission is reported, but not returned upon.
TranslateOnward(c, i, vaddr, size) ==
    LET noExec == size = "EXEC" /\ "EXEC" \notin c.maps[c.cmap][i].attr
        n == IF noExec THEN 1 ELSE 0
        d == IF noExec THEN Exception(c, "MMU_PROT_EXEC") ELSE c
    IN  {IF "READ" \in v.attr
         THEN Align(d, v.phys, size, n)
         ELSE [cpu |-> Exception(d, "MMU_PROT_READ"), phys |-> v.phys, faults |-> n + 1] :
            v \in Reread(c, i, vaddr, noExec)}

\* hv2_mmu_get_phys with translation on and entry i found.
Translate(c, i, vaddr, size) ==
    LET noExec == size = "EXEC" /\ "EXEC" \notin c.maps[c.cmap][i].attr
        n == IF noExec THEN 1 ELSE 0
        d == IF noExec THEN Exception(c, "MMU_PROT_EXEC") ELSE c
    IN  {IF "READ" \in v.attr
         THEN Align(d, v.phys, size, n)
         ELSE [cpu |-> Exception(d, "MMU_PROT_READ"), phys |-> 0, faults |-> n + 1] :
            v \in Reread(c, i, vaddr, noExec)}

GetPhys(c, addr, size) ==
    IF "ENABLE" \notin c.ctrl
    THEN {Align(c, addr, size, 0)}
    ELSE UNION {IF i = NoEntry
                THEN {[cpu |-> Exception(c, "MMU_NOMAP"), phys |-> 0, faults |-> 1]}
                ELSE Translate(c, i, addr, size) : i \in SearchMap(c, addr)}

\* The part hv2_mmu_read and hv2_mmu_write share: find the address, then the
\* device, and raise MMU_NOMAP when there is none.
Access(c, addr, size) ==
    UNION {{[cpu |-> IF dev = 0 THEN Exception(r.cpu, "MMU_NOMAP") ELSE r.cpu,
             phys |-> r.phys,
             faults |-> IF dev = 0 THEN r.faults + 1 ELSE r.faults,
             dev |-> dev] : dev \in DevicesAt(r.phys)} :
           r \in GetPhys(c, addr, size)}
=============================================================================
