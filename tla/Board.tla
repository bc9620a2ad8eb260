------------------------------- MODULE Board -------------------------------
(***************************************************************************)
(* The running emulator around the processor: the main loop of             *)
(* frontend/main.cpp with its refresh clock (hv2/clock.cpp), the rendering *)
(* of the screen (dev/vga_textmode.hpp) and its window and events          *)
(* (frontend/screen.hpp), on the devices the command line made.            *)
(*                                                                         *)
(* Of the processor's cycle there is its access to memory.  The clock      *)
(* counts in fractions 1 / Fraction of a cycle.                            *)
(***************************************************************************)
EXTENDS Memory

CONSTANTS
    Fraction,           \* what a cycle is to the clock
    CpuRatio,           \* cycles for one refresh, by the argument of --cpu-speed
    DefaultRatio,       \* ... and without it
    FloatMax,           \* from here on a float counts in steps of 2 cycles, 2^24
    Garbage,            \* what the clock's counter may hold when it is made
    Columns, Rows, CharWidth, CharHeight,   \* the text screen and its font
    Font,               \* for each row of each character its lit columns
    MaxEvents           \* bound: how often the user does something

ASSUME BoardAssumption ==
    /\ {Fraction, Columns, Rows, CharWidth, CharHeight} \subseteq Nat \ {0}
    /\ DefaultRatio \in Nat
    /\ \A s \in DOMAIN NumberOf :
          ButLast(s) # <<>> => s \in DOMAIN CpuRatio /\ CpuRatio[s] \in Nat
    /\ FloatMax \in Nat \ {0} /\ FloatMax % (4 * Fraction) = 0
    /\ Garbage \subseteq Int
    /\ Font \in [0 .. ByteValues * CharHeight - 1 -> SUBSET (0 .. 7)]

VARIABLES
    at,         \* where the loop is: "cycle", "tick" or "poll"
    elapsed,    \* cycles_elapsed
    open,       \* screen_t::open
    shown,      \* the pixels on the window
    queue,      \* SDL's event queue
    pressed,    \* number of events so far
    since,      \* cycles executed since the last refresh or the start, and what
    leftover    \* the clock held then; both for the properties

loopVars == <<at, elapsed, open, shown, queue, pressed, since, leftover>>
boardVars == <<cliVars, memVars, loopVars>>

NaN == FloatMax * 4     \* not a number: compares with nothing

Pixel == 0 .. Columns * CharWidth * Rows * CharHeight - 1

BoardInit ==
    /\ CliInit
    /\ MemInit
    /\ at = "cycle"
    /\ elapsed \in Garbage
    /\ open = TRUE
    /\ shown = [p \in Pixel |-> 0]
    /\ queue = <<>>
    /\ pressed = 0
    /\ since = 0
    /\ leftover = elapsed

ParseArguments == Parse /\ UNCHANGED <<memVars, loopVars>>

PrintOrDisassemble == (PrintText \/ DisassembleInput) /\ UNCHANGED <<memVars, loopVars>>

StartBoard ==
    /\ Start
    /\ bufs' = IF process' = "running" THEN Buffers(devices') ELSE bufs
    /\ UNCHANGED <<access, loopVars>>
------------------------------------------------------------------------------
Running == process = "running" /\ open

Ratio == IF IsSet("CPU_SPEED") THEN CpuRatio[settings["CPU_SPEED"]] ELSE DefaultRatio

\* hv2_cycle: an access of the guest, or none; the debug instruction ends it all.
Cycle ==
    /\ Running /\ at = "cycle"
    /\ \/ \E l \in Loads : Load(l[1], l[2])
       \/ \E s \in Stores : Store(s[1], s[2], s[3])
       \/ UNCHANGED <<bufs, access, process>>
    /\ at' = "tick"
    /\ since' = IF since > Ratio THEN since ELSE since + 1
    /\ UNCHANGED <<argv, next, switches, settings, devices, elapsed, open, shown,
                   queue, pressed, leftover>>

GuestExit ==
    /\ Running /\ at = "cycle"
    /\ process' = "ended"
    /\ UNCHANGED <<argv, next, switches, settings, devices, memVars, loopVars>>

\* Mutant: a counter of half the range.
IncrementHalf(e) == IF e >= FloatMax \div 2 \/ e <= -FloatMax THEN e ELSE e + Fraction

\* cycles_elapsed += 1.0.  From FloatMax on a float's neighbours are two cycles
\* apart: the sum is between two of them and goes to the even one.
Increment(e) ==
    IF -FloatMax <= e /\ e < FloatMax THEN e + Fraction
    ELSE IF -2 * FloatMax < e /\ e < 2 * FloatMax /\ (e \div (2 * Fraction)) % 2 = 1
    THEN e + 2 * Fraction
    ELSE e

\* Mutant: the clock waits for more than the ratio.
BelowOrEqual(e, ratio) == e # NaN /\ e <= ratio

Below(e, ratio) == e # NaN /\ e < ratio

Carry(e, ratio) == IF e = NaN THEN NaN ELSE e - ratio

\* hv2_clock_tick returns false.
Tick ==
    /\ Running /\ at = "tick"
    /\ Below(elapsed, Ratio)
    /\ elapsed' = Increment(elapsed)
    /\ at' = "cycle"
    /\ access' = NoAccess
    /\ UNCHANGED <<cliVars, bufs, open, shown, queue, pressed, since, leftover>>

\* The cells of the screen, drawn character by character.
Vga == CHOOSE d \in DOMAIN devices : devices[d].kind = "vga"
Cell(cx, cy) ==
    LET i == 2 * cx + 2 * cy * Columns
    IN  [ch |-> bufs[Vga][i], attr |-> bufs[Vga][i + 1]]

\* Colours: the low half of the attribute, and the rest but its top bit.
Foreground(attr) == attr % 2
Background(attr) == (attr \div 2) % 2

\* Mutant: a row of text is as wide as a row of pixels.
PlaceFlat(cx, cy, x, y) == (cx * CharWidth + x) + (y + cy * CharHeight) * Columns

Place(cx, cy, x, y) ==
    (cx * CharWidth + x) + (y + cy * CharHeight) * (Columns * CharWidth)

Drawn ==
    {[to |-> Place(cx, cy, x, y),
      colour |-> LET c == Cell(cx, cy)
                 IN  IF x \in Font[c.ch * CharHeight + y]
                     THEN Foreground(c.attr) ELSE Background(c.attr)] :
        cx \in 0 .. Columns - 1, cy \in 0 .. Rows - 1,
        x \in 0 .. CharWidth - 1, y \in 0 .. CharHeight - 1}

Rendered ==
    LET drawn == Drawn
        on(p) == {w \in drawn : w.to = p}
    IN  [p \in Pixel |-> IF on(p) = {} THEN shown[p] ELSE (CHOOSE w \in on(p) : TRUE).colour]

\* It returns true: the screen is drawn, and its events are polled next.
Refresh ==
    /\ Running /\ at = "tick"
    /\ ~Below(elapsed, Ratio)
    /\ elapsed' = Carry(elapsed, Ratio)
    /\ leftover' = elapsed'
    /\ since' = 0
    /\ shown' = Rendered
    /\ at' = "poll"
    /\ access' = NoAccess
    /\ UNCHANGED <<cliVars, bufs, open, queue, pressed>>

\* Mutant: the last event of a pause decides.
PollLast ==
    /\ process = "running" /\ at = "poll" /\ queue # <<>>
    /\ queue' = Tail(queue)
    /\ open' = (Head(queue) # "quit")
    /\ UNCHANGED <<cliVars, memVars, at, elapsed, shown, pressed, since, leftover>>

\* One event of screen_update's loop, which closing does not end.  A key goes to
\* the keyboard controller, in the same pause of the processor as its fellows.
Poll ==
    /\ process = "running" /\ at = "poll" /\ queue # <<>>
    /\ queue' = Tail(queue)
    /\ open' = (open /\ Head(queue) # "quit")
    /\ UNCHANGED <<cliVars, memVars, at, elapsed, shown, pressed, since, leftover>>

PollEnd ==
    /\ process = "running" /\ at = "poll" /\ queue = <<>>
    /\ at' = "cycle"
    /\ process' = IF open THEN process ELSE "ended"
    /\ UNCHANGED <<argv, next, switches, settings, devices, memVars, elapsed, open,
                   shown, queue, pressed, since, leftover>>

\* The user presses a key or closes the window.
UserEvent(e) ==
    /\ process = "running"
    /\ pressed < MaxEvents
    /\ pressed' = pressed + 1
    /\ queue' = Append(queue, e)
    /\ UNCHANGED <<cliVars, memVars, at, elapsed, open, shown, since, leftover>>

Emulator ==
    \/ ParseArguments \/ PrintOrDisassemble \/ StartBoard
    \/ Cycle \/ Tick \/ Refresh \/ Poll \/ PollEnd

BoardNext == Emulator \/ GuestExit \/ \E e \in {"key", "quit"} : UserEvent(e)

\* The emulator is one thread that goes on as long as it runs.
BoardSpec == BoardInit /\ [][BoardNext]_boardVars /\ WF_boardVars(Emulator)
------------------------------------------------------------------------------
\* From a refresh that left less than a cycle on the clock to the next one the
\* processor executes one cycle more than the ratio asks for, since the tick that
\* refreshes does not count its own (hv2/clock.cpp:17-20): n periods take n ratios
\* and n cycles, a rate below the one asked for.  Nothing else is lost: what a
\* period leaves on the clock is less than a cycle and is taken off the next.
RefreshPeriod ==
    [][ (at = "tick" /\ at' = "poll" /\ leftover \in 0 .. Fraction - 1) =>
          /\ (since - 1) * Fraction = Ratio + leftover' - leftover
          /\ leftover' \in 0 .. Fraction - 1 ]_boardVars

\* The clock comes round: from where it stands it can count up to its ratio.
Counts == Ratio < FloatMax /\ elapsed >= -FloatMax

\* The screen is drawn again and again as long as the emulator runs.
ScreenRefreshed ==
    (process = "running" /\ Counts) ~> (at = "poll" \/ process # "running")

\* A close ends the emulator wherever it is among the events of a pause: the keys
\* in front of it do not hide it, and those behind it do not open the window again.
WindowCloses ==
    (process = "running" /\ Counts /\ \E i \in DOMAIN queue : queue[i] = "quit")
        ~> (process # "running")

\* What the window shows after a refresh is the screen's memory of that moment,
\* pixel by pixel: the loop over pixels that vga_textmode.hpp:149 keeps in a
\* comment, and the loop over characters it was replaced with, draw the same.
ScreenShowsMemory ==
    at = "poll" =>
        \A p \in Pixel :
            LET x == p % (Columns * CharWidth)
                y == p \div (Columns * CharWidth)
                off == 2 * (x \div CharWidth) + 2 * (y \div CharHeight) * Columns
                attr == bufs[Vga][off + 1]
            IN  shown[p] = IF (x % CharWidth) \in Font[bufs[Vga][off] * CharHeight + (y % CharHeight)]
                           THEN attr % 2 ELSE (attr \div 2) % 2
=============================================================================
