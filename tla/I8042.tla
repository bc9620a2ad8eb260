------------------------------- MODULE I8042 -------------------------------
(***************************************************************************)
(* The i8042 PS/2 keyboard controller of dev/i8042.hpp.  Two parties use   *)
(* its one-byte buffers with nothing to keep them apart: the guest, through*)
(* the ports 0x60 and 0x64, and the host's key presses.                    *)
(*                                                                         *)
(* A byte is the set of its bits that are set, so that the configuration   *)
(* byte can be read as flags and travel through the buffers as data.       *)
(***************************************************************************)
EXTENDS Integers

CONSTANTS
    Bits,       \* the bits of a byte the model keeps, 0 .. 7 in the code
    Sent        \* the data bytes the guest writes and the key codes

Byte == SUBSET Bits

ASSUME BitsAssumption == {0, 4, 5} \subseteq Bits /\ Bits \subseteq 0 .. 7
ASSUME SentAssumption == Sent \subseteq Byte

FPIRQ == 0          \* PS2_CFG_FPIRQ: key presses raise an exception
WrongClockBit == 6   \* mutant: FPCLK taken for FPXLAT
FPCLK == 4          \* PS2_CFG_FPCLK
SPCLK == 5          \* PS2_CFG_SPCLK

TestPassed == {0, 2, 4, 6} \cap Bits    \* 0x55

\* The commands that direct the next data bytes to a register.
Parameterised == {"WRAM0", "WCOP", "WFPO", "WSPO", "WSPI"}

\* The command register: 0x00, or the last byte written to 0x64.  "OTHER" are
\* the bytes no case mentions and those whose case does nothing.
Command == Parameterised \cup
    {"NONE", "RRAM0", "RRAM", "WRAM", "SPDI", "SPEN", "SPTEST", "CNTEST", "FPTEST",
     "DIAGD", "FPDI", "FPEN", "RCIP", "MIS47", "RCOP", "SYSRESET", "OTHER"}

VARIABLES
    cfg,        \* controller configuration byte
    out, in,    \* buffers
    stat,       \* status register: "OUT_FULL", "INP_FULL" (no other bit is ever set)
    cmd,        \* last command
    cop,        \* controller output port
    fpo, spo, spi,  \* device registers
    raised      \* the exception the last step raised in the processor

kbcVars == <<cfg, out, in, stat, cmd, cop, fpo, spo, spi, raised>>
regs == <<cop, fpo, spo, spi>>

\* Every register of the controller holds what it may hold.
TypeOK ==
    /\ {cfg, out, in, cop, fpo, spo, spi} \subseteq Byte
    /\ stat \subseteq {"OUT_FULL", "INP_FULL"}
    /\ cmd \in Command
    /\ raised \in {"NONE", "KBC", "RESET"}

\* The members start at 0 and init sets three configuration bits.
Init ==
    /\ cfg = {FPIRQ, FPCLK, SPCLK}
    /\ out = {} /\ in = {} /\ cop = {} /\ fpo = {} /\ spo = {} /\ spi = {}
    /\ stat = {}
    /\ cmd = "NONE"
    /\ raised = "NONE"
------------------------------------------------------------------------------
\* Mutant: the buffer keeps the byte that was read.
ReadDataKept ==
    /\ stat' = stat \ {"OUT_FULL"}
    /\ raised' = "NONE"
    /\ UNCHANGED <<cfg, out, in, cmd, regs>>

\* read(PS2_DATA): the value returned is out.
ReadData ==
    /\ stat' = stat \ {"OUT_FULL"}
    /\ out' = {}
    /\ raised' = "NONE"
    /\ UNCHANGED <<cfg, in, cmd, regs>>

\* read(PS2_STAT): the value returned is stat.
ReadStatus == raised' = "NONE" /\ UNCHANGED <<cfg, out, in, stat, cmd, regs>>

\* Mutant: a new byte replaces the one still waiting.
WriteDataOver(v) ==
    LET To(c, r) == r' = IF cmd = c THEN v ELSE r
    IN  /\ in' = v
        /\ To("WRAM0", cfg) /\ To("WCOP", cop) /\ To("WFPO", fpo)
        /\ To("WSPO", spo) /\ To("WSPI", spi)
        /\ IF cmd \in Parameterised
           THEN stat' = stat \ {"INP_FULL"} /\ UNCHANGED cmd
           ELSE stat' = stat \cup {"INP_FULL"} /\ cmd' = "NONE"
        /\ raised' = "NONE"
        /\ UNCHANGED out

\* write(PS2_DATA, v).  A byte that arrives while INP_FULL is set is dropped,
\* and the command then takes the byte already there.
WriteData(v) ==
    LET taken == IF "INP_FULL" \in stat THEN in ELSE v
        To(c, r) == r' = IF cmd = c THEN taken ELSE r
    IN  /\ in' = taken
        /\ To("WRAM0", cfg)
        /\ To("WCOP", cop)
        /\ To("WFPO", fpo)
        /\ To("WSPO", spo)
        /\ To("WSPI", spi)
        /\ IF cmd \in Parameterised
           THEN stat' = stat \ {"INP_FULL"} /\ UNCHANGED cmd
           ELSE stat' = stat \cup {"INP_FULL"} /\ cmd' = "NONE"
        /\ raised' = "NONE"
        /\ UNCHANGED out

\* What a command puts into the output buffer at once.
Answer(c) ==
    CASE c = "RRAM0" -> cfg
      [] c = "RCOP" -> cop
      [] c = "CNTEST" -> TestPassed
      [] c \in {"RRAM", "SPTEST", "FPTEST", "RCIP"} -> {}

Answering == {"RRAM0", "RRAM", "SPTEST", "CNTEST", "FPTEST", "RCIP", "RCOP"}

\* What a command does to the configuration: odd codes (SPDI, FPDI) set the
\* clock bit, even ones (SPEN, FPEN) clear it.
Configured(c) ==
    CASE c = "SPDI" -> cfg \cup {SPCLK}
      [] c = "SPEN" -> cfg \ {SPCLK}
      [] c = "FPDI" -> cfg \cup {FPCLK}
      [] c = "FPEN" -> cfg \ {FPCLK}
      [] OTHER -> cfg

\* write(PS2_COMM, c)
WriteCommand(c) ==
    /\ cmd' = c
    /\ IF c \in Answering
       THEN out' = Answer(c) /\ stat' = stat \cup {"OUT_FULL"}
       ELSE UNCHANGED <<out, stat>>
    /\ cfg' = Configured(c)
    /\ raised' = IF c = "SYSRESET" THEN "RESET" ELSE "NONE"
    /\ UNCHANGED <<in, regs>>

\* Mutant: the scan code is stored and no exception raised.
KeyDownQuiet(k) ==
    /\ raised' = "NONE"
    /\ IF FPCLK \in cfg
       THEN stat' = stat \cup {"OUT_FULL"} /\ out' = k
       ELSE UNCHANGED <<stat, out>>
    /\ UNCHANGED <<cfg, in, cmd, regs>>

\* keydown(k): ignored without the clock bit; otherwise it takes the output
\* buffer, whatever is in it.
KeyDown(k) ==
    /\ IF FPCLK \in cfg
       THEN /\ raised' = IF FPIRQ \in cfg THEN "KBC" ELSE "NONE"
            /\ stat' = stat \cup {"OUT_FULL"}
            /\ out' = k
       ELSE raised' = "NONE" /\ UNCHANGED <<stat, out>>
    /\ UNCHANGED <<cfg, in, cmd, regs>>
------------------------------------------------------------------------------
Next ==
    \/ ReadData \/ ReadStatus
    \/ \E v \in Sent : WriteData(v)
    \/ \E c \in Command : WriteCommand(c)
    \/ \E k \in Sent : KeyDown(k)

Spec == Init /\ [][Next]_kbcVars
------------------------------------------------------------------------------
\* The driver polls the status before it reads: an empty output buffer reads
\* as 0, so no answer or scan code is ever delivered twice.
EmptyReadsZero == "OUT_FULL" \notin stat => out = {}

\* A data byte that came under no parameterised command stays in the input
\* buffer, whatever else is written, until such a command takes it in place of
\* the byte that was meant for it: INP_FULL is never lowered with the waiting
\* byte lost or replaced.
StrayByteTaken ==
    [][ "INP_FULL" \in stat =>
          /\ in' = in
          /\ "INP_FULL" \notin stat' =>
                /\ cmd \in Parameterised
                /\ in = CASE cmd = "WRAM0" -> cfg'
                          [] cmd = "WCOP" -> cop'
                          [] cmd = "WFPO" -> fpo'
                          [] cmd = "WSPO" -> spo'
                          [] cmd = "WSPI" -> spi' ]_kbcVars
=============================================================================
