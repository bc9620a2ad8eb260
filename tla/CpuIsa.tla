------------------------------- MODULE CpuIsa -------------------------------
(***************************************************************************)
(* The pipelined core implements the program order of Isa.                 *)
(***************************************************************************)
EXTENDS Cpu

InUse(s) == s.kind # "bubble"

\* The program order the pipeline and the pc stand for.
Due(c) ==
    LET ahead == <<At(c.pc), At(Succ(c.pc)), At(Succ(Succ(c.pc)))>>
    IN  CASE InUse(c.pipe[1]) -> <<c.pipe[1], c.pipe[0], ahead[1], ahead[2]>>
          [] ~InUse(c.pipe[1]) /\ InUse(c.pipe[0]) ->
                <<c.pipe[0], ahead[1], ahead[2], ahead[3]>>
          [] OTHER -> <<ahead[1], ahead[2], ahead[3], At(Succ(ahead[3].at))>>

Order == INSTANCE Isa WITH due <- Due(cpu), pl <- cpu.pl, xpc <- cpu.xpc,
                           xhaddr <- cpu.xhaddr

\* Every step of the core, with the pipeline flushed by transfers of control,
\* is a step of the program order or changes nothing of it: no instruction is
\* lost, repeated or executed out of order but for what Isa says.
ImplementsOrder == Order!Spec
=============================================================================
