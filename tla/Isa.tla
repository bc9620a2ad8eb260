-------------------------------- MODULE Isa --------------------------------
(***************************************************************************)
(* What the core promises a programmer when XFLUSH_ON_FT is set: the order *)
(* in which instructions are executed, with no pipeline in sight.          *)
(*                                                                         *)
(* `due' is the next four words of the program order; after the fourth,    *)
(* addresses follow one another.  A transfer of control takes effect at    *)
(* once, except sysret, which executes the two words after it first.       *)
(* An exception raised by an instruction records the address three words   *)
(* further; one raised between two instructions (a key press) or by the    *)
(* fetch of a later word drops up to two words that were due.              *)
(***************************************************************************)
EXTENDS Hv2

VARIABLES due, pl, xpc, xhaddr

isaVars == <<due, pl, xpc, xhaddr>>

\* Program order from address a on.
Straight(a) == <<At(a), At(Succ(a)), At(Succ(Succ(a))), At(Succ(Succ(Succ(a))))>>

\* The first word of the order is done.
Advance(d) == <<d[2], d[3], d[4], At(Succ(d[4].at))>>

\* n exceptions raise the privilege by n levels, as far as there are.
Raise(n) == IF pl > n THEN pl - n ELSE 0

Init ==
    /\ due = Straight(0)
    /\ pl = 0
    /\ xpc = 0
    /\ xhaddr = 0

\* An instruction that neither transfers control nor writes these registers.
Retire == due' = Advance(due) /\ UNCHANGED <<pl, xpc, xhaddr>>

\* Any write to the pc, a taken branch included.
Jump == \E t \in Word : due' = Straight(t) /\ UNCHANGED <<pl, xpc, xhaddr>>

\* mtcr; the two words behind it are lost if it copies the pc.
MoveToCop ==
    /\ due' = Advance(due) \/ due' = Straight(due[4].at)
    /\ \E v \in Word : \/ xpc' = v /\ UNCHANGED xhaddr
                       \/ xhaddr' = v /\ UNCHANGED xpc
    /\ UNCHANGED pl

\* The exceptions of one instruction: two of them leave only the address of
\* the handler in xpc.
Trapped(n) ==
    /\ pl' = Raise(n)
    /\ xpc' = IF n = 1 THEN due[4].at ELSE xhaddr
    /\ UNCHANGED xhaddr

Trap == \E n \in 1 .. 3 : Trapped(n) /\ due' = Straight(xhaddr)

\* A load into the pc that raised exceptions jumps all the same.
TrapAndJump == \E n \in 1 .. 3, t \in Word : Trapped(n) /\ due' = Straight(t)

Sysret ==
    /\ due' = <<due[2], due[3], At(xpc), At(Succ(xpc))>>
    /\ pl' = IF pl = 3 THEN 3 ELSE pl + 1
    /\ UNCHANGED <<xpc, xhaddr>>

\* A key press: k words that were due are gone for good.
Interrupt ==
    \E k \in 0 .. 2 :
        /\ due[k + 1].kind = "word"
        /\ xpc' = due[k + 1].at
        /\ due' = Straight(xhaddr)
        /\ pl' = Raise(1)
        /\ UNCHANGED xhaddr

\* The fetch of the word k places further fails.  The handler is entered at
\* its second instruction, after the word the fetch returned nevertheless.
FetchFault ==
    \E k \in 0 .. 2, n \in 1 .. 3, w \in {Stray, Zero} :
        /\ due[k + 1].kind = "word"
        /\ xpc' = IF n = 1 THEN due[k + 1].at ELSE xhaddr
        /\ LET a == Succ(xhaddr)
           IN  due' = <<w, At(a), At(Succ(a)), At(Succ(Succ(a)))>>
        /\ pl' = Raise(n)
        /\ UNCHANGED xhaddr

Next ==
    \/ Retire \/ Jump \/ MoveToCop \/ Trap \/ TrapAndJump \/ Sysret
    \/ Interrupt \/ FetchFault

Spec == Init /\ [][Next]_isaVars
=============================================================================
