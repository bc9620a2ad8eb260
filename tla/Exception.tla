----------------------------- MODULE Exception -----------------------------
(***************************************************************************)
(* Privilege levels (hv2/privilege.cpp), the pipeline flush (hv2_flush)    *)
(* and exception entry (hv2/exception.cpp), as operators from processor    *)
(* state to processor state: the code calls them in the middle of other    *)
(* operations, several times in one access, so they have to compose.       *)
(***************************************************************************)
EXTENDS Hv2

\* Mutant: the DISABLE_ON_TPL0 test is left out.
EnterLevelKeepingMmu(c) ==
    LET ctrl == IF c.pl = 1 /\ "ENABLE_ON_TPL1" \in c.ctrl
                THEN c.ctrl \cup {"ENABLE"} ELSE c.ctrl
    IN  [c EXCEPT !.ctrl = ctrl, !.cmap = IF "REMAP_ON_PLT" \in ctrl THEN c.pl ELSE @]

\* Mutant: the map is selected from the level left instead of the one entered.
EnterLevelLate(c) ==
    [c EXCEPT !.ctrl = IF c.pl = 0 /\ "DISABLE_ON_TPL0" \in @ THEN @ \ {"ENABLE"}
                       ELSE IF c.pl = 1 /\ "ENABLE_ON_TPL1" \in @ THEN @ \cup {"ENABLE"}
                       ELSE @,
              !.cmap = IF "REMAP_ON_PLT" \in c.ctrl /\ c.pl < 3 THEN c.pl + 1 ELSE @]

\* The common tail of hv2_privilege_up and hv2_privilege_down: what a level
\* just entered does to address translation and to the map in use.
EnterLevel(c) ==
    LET ctrl == IF c.pl = 0 /\ "DISABLE_ON_TPL0" \in c.ctrl
                THEN c.ctrl \ {"ENABLE"}
                ELSE IF c.pl = 1 /\ "ENABLE_ON_TPL1" \in c.ctrl
                THEN c.ctrl \cup {"ENABLE"}
                ELSE c.ctrl
    IN  [c EXCEPT !.ctrl = ctrl,
                  !.cmap = IF "REMAP_ON_PLT" \in ctrl THEN c.pl ELSE @]

\* Mutant: no early return at level 0.
PrivilegeUpUnguarded(c) == EnterLevel([c EXCEPT !.pl = @ - 1])

\* One level up in privilege (towards 0); nothing at all when already at 0.
PrivilegeUp(c) == IF c.pl = 0 THEN c ELSE EnterLevel([c EXCEPT !.pl = @ - 1])

\* Mutant: the level changes and nothing follows it.
PrivilegeDownBare(c) == IF c.pl = 3 THEN c ELSE [c EXCEPT !.pl = @ + 1]

\* One level down in privilege (towards 3); nothing at all when already at 3.
PrivilegeDown(c) == IF c.pl = 3 THEN c ELSE EnterLevel([c EXCEPT !.pl = @ + 1])

\* Mutant: the slot in the middle is left alone.
FlushPartly(c, d) ==
    IF d = "pc" /\ c.xflush THEN [c EXCEPT !.pipe[0] = Bubble, !.pipe[2] = Bubble] ELSE c

\* hv2_flush: writing register d empties the pipeline when d is the pc.
Flush(c, d) ==
    IF d = "pc" /\ c.xflush THEN [c EXCEPT !.pipe = EmptyPipe] ELSE c

\* Mutant: a write to the pc without the flush.
WriteRegisterUnflushed(c, d, v) == IF d = "pc" THEN [c EXCEPT !.pc = v] ELSE c

\* Register d := v, followed by the flush every writing instruction does.
WriteRegister(c, d, v) ==
    Flush(IF d = "pc" THEN [c EXCEPT !.pc = v] ELSE c, d)

\* hv2_exception
Exception(c, cause) ==
    LET up == PrivilegeUp(c)
    IN  Flush([up EXCEPT !.xcause = cause, !.xpc = up.pc, !.pc = up.xhaddr], "pc")
=============================================================================
