--------------------------- MODULE SyscallReturn ---------------------------
(***************************************************************************)
(* System calls, returns and key presses under the boot plan of stack.txt, *)
(* with the history of the exceptions that were not returned from yet.     *)
(* The software here uses nothing but plain instructions, system calls,    *)
(* returns and the writes of coprocessor registers, and its fetches raise  *)
(* nothing.                                                                *)
(***************************************************************************)
EXTENDS Cpu

VARIABLE saved  \* history: newest first, what was interrupted

CONSTANTS
    MaxNesting,  \* bound on the history
    NestAtZero   \* may exceptions be raised while level 0 is running?

ASSUME CallAssumption == MaxNesting \in Nat /\ NestAtZero \in BOOLEAN

callVars == <<vars, saved>>

InitCall == Init /\ saved = <<>>

Push(what) ==
    /\ Len(saved) < MaxNesting
    /\ NestAtZero \/ cpu.pl > 0
    /\ saved' = <<[what |-> what, map |-> cpu.cmap]>> \o saved

Pop == saved' = IF saved = <<>> THEN saved ELSE Tail(saved)

\* A fetch that raises nothing: the software runs where its code is mapped.
Quiet(f) == f.cpu.pipe[0].kind = "word"

NextCall ==
    \/ Interrupt /\ Push("interrupt")
    \/ /\ host = "running"
       /\ \E f \in {g \in Fetched : Quiet(g)} :
            \/ (Nop(f) \/ CopInstruction(f) \/ MoveToCop(f)) /\ UNCHANGED saved
            \/ SystemTrap(f) /\ Push("syscall")
            \/ Sysret(f) /\ Pop

SpecCall == InitCall /\ [][NextCall]_callVars

\* The statement of stack.txt:23, "Kernel can syscall to access BIOS functions, kernel map is
\* saved on syscall and restored on sysret": the return that matches a system
\* call made under a map of its own (not map 0) puts the caller's map back in use.
MapRestoredOnSysret ==
    [][ /\ saved # <<>> /\ saved' = Tail(saved)
        /\ Head(saved).what = "syscall" /\ Head(saved).map > 0
        => cpu'.cmap = Head(saved).map ]_callVars
=============================================================================
