---------------------------- MODULE BoardProofs ----------------------------
(***************************************************************************)
(* The emulator around the processor, for every size of address space,     *)
(* byte, screen and font, every command line and every access.             *)
(***************************************************************************)
EXTENDS Board, TLAPS, WellFoundedInduction

\* A number in base m has one last digit and one rest.
LEMMA LastDigit ==
    ASSUME NEW m \in Nat \ {0}, NEW q \in Int, NEW r \in 0 .. m - 1
    PROVE  /\ (m * q + r) \div m = q /\ (m * q + r) % m = r
           /\ (r + q * m) \div m = q /\ (r + q * m) % m = r
  <1> DEFINE n == m * q + r
  <1>1. n \in Int /\ n = r + q * m
    OBVIOUS
  <1>2. n = m * (n \div m) + (n % m) /\ n % m \in 0 .. m - 1 /\ n \div m \in Int
    BY <1>1
  <1>3. n \div m = q
    <2> DEFINE k == n \div m
    <2>1. m * (q - k) = (n % m) - r /\ q - k \in Int
      BY <1>2
    <2>2. ~(q - k >= 1)
      <3> SUFFICES ASSUME q - k >= 1 PROVE FALSE
        OBVIOUS
      <3>1. m * (q - k) >= m
        BY <1>2
      <3> QED BY <2>1, <3>1, <1>2
    <2>3. ~(q - k <= -1)
      <3> SUFFICES ASSUME q - k <= -1 PROVE FALSE
        OBVIOUS
      <3>1. m * (q - k) <= -m
        BY <1>2
      <3> QED BY <2>1, <3>1, <1>2
    <2> QED BY <1>2, <2>1, <2>2, <2>3
  <1>4. n % m = r
    BY <1>2, <1>3
  <1> QED BY <1>1, <1>3, <1>4

LEMMA DigitOf ==
    ASSUME NEW n \in Nat, NEW c \in Nat, NEW w \in Nat \ {0}, NEW r \in 0 .. w - 1
    PROVE  c * w + r = n <=> c = n \div w /\ r = n % w
  <1>1. n = w * (n \div w) + (n % w) /\ c * w = w * c /\ c \in Int
    OBVIOUS
  <1>2. (w * c + r) \div w = c /\ (w * c + r) % w = r
    BY <1>1, LastDigit
  <1> QED BY <1>1, <1>2

\* Two numbers below a and b make one below a * b.
LEMMA Paired ==
    ASSUME NEW a \in Nat, NEW b \in Nat, NEW i \in 0 .. a - 1, NEW j \in 0 .. b - 1
    PROVE  i * b + j \in 0 .. a * b - 1
  <1>1. (i + 1) * b <= a * b
    <2>1. i + 1 <= a /\ i + 1 \in Nat
      OBVIOUS
    <2>2. \A x, y, z \in Nat : x <= y => x * z <= y * z
      OBVIOUS
    <2> QED BY <2>1, <2>2
  <1>2. (i + 1) * b = i * b + b /\ i * b \in Nat
    OBVIOUS
  <1> QED BY <1>1, <1>2

\* ... and the halves of one below a * b are below a and b.
LEMMA Halves ==
    ASSUME NEW a \in Nat, NEW b \in Nat \ {0}, NEW n \in 0 .. a * b - 1
    PROVE  n \div b \in 0 .. a - 1 /\ n % b \in 0 .. b - 1 /\ n = (n \div b) * b + (n % b)
  <1>1. n \in Nat
    OBVIOUS
  <1>2. n = b * (n \div b) + (n % b) /\ n % b \in 0 .. b - 1 /\ n \div b \in Nat
    BY <1>1
  <1>3. n \div b < a
    <2> SUFFICES ASSUME n \div b >= a PROVE FALSE
      BY <1>2
    <2>1. b * (n \div b) >= b * a
      BY <1>2
    <2> QED BY <1>2, <2>1
  <1> QED BY <1>2, <1>3
------------------------------------------------------------------------------
\* Where a pixel's character and its place in the character are.
Wide == Columns * CharWidth
High == Rows * CharHeight

LEMMA Sizes ==
    /\ {Columns, Rows, CharWidth, CharHeight, Wide, High} \subseteq Nat \ {0}
    /\ Pixel = 0 .. High * Wide - 1
  <1>1. {Columns, Rows, CharWidth, CharHeight} \subseteq Nat \ {0}
    BY BoardAssumption
  <1>2. \A a, b \in Nat \ {0} : a * b \in Nat \ {0}
    OBVIOUS
  <1>3. Wide \in Nat \ {0} /\ High \in Nat \ {0}
    BY <1>1, <1>2 DEF Wide, High
  <1>4. \A a, b, c, d \in Nat : a * b * c * d = (c * d) * (a * b)
    OBVIOUS
  <1>5. Columns * CharWidth * Rows * CharHeight = High * Wide
    BY <1>1, <1>4 DEF Wide, High
  <1> QED BY <1>1, <1>3, <1>5 DEF Pixel

\* The characters' pixels fill the screen, each once.
LEMMA PlaceOnce ==
    ASSUME NEW p \in Pixel,
           NEW cx \in 0 .. Columns - 1, NEW cy \in 0 .. Rows - 1,
           NEW x \in 0 .. CharWidth - 1, NEW y \in 0 .. CharHeight - 1
    PROVE  Place(cx, cy, x, y) = p
             <=> /\ cx = (p % Wide) \div CharWidth /\ x = (p % Wide) % CharWidth
                 /\ cy = (p \div Wide) \div CharHeight /\ y = (p \div Wide) % CharHeight
  <1> DEFINE a == cx * CharWidth + x
             b == cy * CharHeight + y
  <1>1. a \in 0 .. Wide - 1 /\ b \in 0 .. High - 1
    <2>1. Columns \in Nat /\ CharWidth \in Nat /\ Rows \in Nat /\ CharHeight \in Nat
      BY Sizes
    <2> QED BY <2>1, Paired DEF Wide, High
  <1>2. Place(cx, cy, x, y) = a + b * Wide
    <2>1. y + cy * CharHeight = b
      BY Sizes
    <2> QED BY <2>1 DEF Place, Wide
  <1>3. a + b * Wide = p <=> a = p % Wide /\ b = p \div Wide
    <2>1. p \in 0 .. High * Wide - 1 /\ High \in Nat /\ Wide \in Nat \ {0}
      BY Sizes
    <2>2. p = (p \div Wide) * Wide + (p % Wide)
      BY <2>1, Halves
    <2> HIDE DEF a, b
    <2>3. /\ (a + b * Wide) \div Wide = b /\ (a + b * Wide) % Wide = a
      <3>1. b \in Int
        BY <1>1
      <3>2. \A q \in Int, r \in 0 .. Wide - 1 : (r + q * Wide) \div Wide = q
                                              /\ (r + q * Wide) % Wide = r
        BY <2>1, LastDigit
      <3> QED BY <1>1, <3>1, <3>2
    <2>4. a \in Int /\ b * Wide \in Int /\ p % Wide \in Int /\ (p \div Wide) * Wide \in Int
      BY <1>1, <2>1
    <2> QED BY <2>2, <2>3, <2>4
  <1>4. p \in Nat
    BY Sizes
  <1>5. p % Wide \in Nat /\ p \div Wide \in Nat
    <2>1. Wide \in Nat \ {0}
      BY Sizes
    <2>2. p = Wide * (p \div Wide) + (p % Wide)
      BY <1>4, <2>1
    <2> QED BY <1>4, <2>1
  <1>6. CharWidth \in Nat \ {0} /\ CharHeight \in Nat \ {0} /\ cx \in Nat /\ cy \in Nat
    BY Sizes
  <1>7. a = p % Wide <=> cx = (p % Wide) \div CharWidth /\ x = (p % Wide) % CharWidth
    <2>1. p % Wide \in Nat
      BY <1>5
    <2>2. \A c \in Nat, w \in Nat \ {0} : \A r \in 0 .. w - 1 :
             c * w + r = p % Wide <=> c = (p % Wide) \div w /\ r = (p % Wide) % w
      BY <2>1, DigitOf
    <2> QED BY <2>2, <1>6
  <1>8. b = p \div Wide <=> cy = (p \div Wide) \div CharHeight /\ y = (p \div Wide) % CharHeight
    <2>1. p \div Wide \in Nat
      BY <1>5
    <2>2. \A c \in Nat, w \in Nat \ {0} : \A r \in 0 .. w - 1 :
             c * w + r = p \div Wide <=> c = (p \div Wide) \div w /\ r = (p \div Wide) % w
      BY <2>1, DigitOf
    <2> QED BY <2>2, <1>6
  <1> HIDE DEF a, b
  <1> QED BY <1>2, <1>3, <1>7, <1>8

\* The colour the memory gives a pixel.
ColourAt(p) ==
    LET x == p % Wide
        y == p \div Wide
        c == Cell(x \div CharWidth, y \div CharHeight)
    IN  IF (x % CharWidth) \in Font[c.ch * CharHeight + (y % CharHeight)]
        THEN Foreground(c.attr) ELSE Background(c.attr)

LEMMA RenderedColour == ASSUME NEW p \in Pixel PROVE Rendered[p] = ColourAt(p)
  <1> DEFINE x == p % Wide
             y == p \div Wide
             on == {w \in Drawn : w.to = p}
             cell == [to |-> p, colour |-> ColourAt(p)]
  <1>1. p \in 0 .. High * Wide - 1 /\ High \in Nat /\ Wide \in Nat \ {0}
    BY Sizes
  <1>2. x \in 0 .. Columns * CharWidth - 1 /\ y \in 0 .. Rows * CharHeight - 1
    BY <1>1, Halves DEF Wide, High
  <1>3. /\ x \div CharWidth \in 0 .. Columns - 1 /\ x % CharWidth \in 0 .. CharWidth - 1
        /\ y \div CharHeight \in 0 .. Rows - 1 /\ y % CharHeight \in 0 .. CharHeight - 1
    <2>1. {Columns, Rows} \subseteq Nat /\ {CharWidth, CharHeight} \subseteq Nat \ {0}
      BY Sizes
    <2> HIDE DEF x, y
    <2> QED BY <1>2, <2>1, Halves
  <1>4. cell \in Drawn
    <2>1. Place(x \div CharWidth, y \div CharHeight, x % CharWidth, y % CharHeight) = p
      BY <1>3, PlaceOnce
    <2> QED BY <1>3, <2>1 DEF Drawn, ColourAt
  <1>5. ASSUME NEW w \in on PROVE w = cell
    <2>1. PICK cx \in 0 .. Columns - 1, cy \in 0 .. Rows - 1,
               u \in 0 .. CharWidth - 1, v \in 0 .. CharHeight - 1 :
                 w = [to |-> Place(cx, cy, u, v),
                      colour |-> LET c == Cell(cx, cy)
                                 IN  IF u \in Font[c.ch * CharHeight + v]
                                     THEN Foreground(c.attr) ELSE Background(c.attr)]
      BY DEF Drawn
    <2>2. Place(cx, cy, u, v) = p
      BY <2>1
    <2>3. cx = x \div CharWidth /\ u = x % CharWidth /\ cy = y \div CharHeight /\ v = y % CharHeight
      BY <2>2, PlaceOnce
    <2> QED BY <2>1, <2>2, <2>3 DEF ColourAt
  <1>6. on = {cell}
    BY <1>4, <1>5
  <1>7. (CHOOSE w \in {cell} : TRUE) = cell /\ cell.colour = ColourAt(p)
    OBVIOUS
  <1> HIDE DEF cell
  <1> QED BY <1>6, <1>7 DEF Rendered

\* A screen just drawn is polled over before anything else happens.
PolledAfterDrawing == at = "poll" => process = "running" /\ ScreenShowsMemory

LEMMA RefreshDraws == Refresh => PolledAfterDrawing'
  <1> SUFFICES ASSUME Refresh PROVE PolledAfterDrawing'
    OBVIOUS
  <1>1. shown' = Rendered /\ process' = "running" /\ bufs' = bufs /\ Vga' = Vga
    BY DEF Refresh, Running, cliVars, Vga
  <1>2. ASSUME NEW p \in Pixel
        PROVE  LET x == p % (Columns * CharWidth)
                   y == p \div (Columns * CharWidth)
                   off == 2 * (x \div CharWidth) + 2 * (y \div CharHeight) * Columns
                   attr == bufs[Vga][off + 1]
               IN  shown'[p] = IF (x % CharWidth) \in Font[bufs[Vga][off] * CharHeight + (y % CharHeight)]
                               THEN attr % 2 ELSE (attr \div 2) % 2
    BY <1>1, RenderedColour DEF ColourAt, Wide, Cell, Foreground, Background
  <1> QED BY <1>1, <1>2 DEF PolledAfterDrawing, ScreenShowsMemory

LEMMA PollingKeeps ==
    ASSUME at = "poll", process = "running", ScreenShowsMemory, [BoardNext]_boardVars
    PROVE  PolledAfterDrawing'
  <1>1. CASE PollEnd
    BY <1>1 DEF PollEnd, PolledAfterDrawing
  <1>2. CASE Poll \/ (\E e \in {"key", "quit"} : UserEvent(e)) \/ UNCHANGED boardVars
    <2>1. at' = at /\ process' = process /\ shown' = shown /\ bufs' = bufs /\ devices' = devices
      BY <1>2 DEF Poll, UserEvent, boardVars, cliVars, memVars, loopVars
    <2> QED BY <2>1 DEF PolledAfterDrawing, ScreenShowsMemory, Vga
  <1>3. ~(ParseArguments \/ PrintOrDisassemble \/ StartBoard)
    BY DEF ParseArguments, Parse, ParseSwitch, ParseSetting, ParseSettingAtEnd, ParseInput,
       ParseEnd, Parsing, PrintOrDisassemble, PrintText, DisassembleInput, StartBoard, Start
  <1>4. ~(Cycle \/ GuestExit \/ Tick \/ Refresh)
    BY DEF Cycle, GuestExit, Tick, Refresh
  <1> QED BY <1>1, <1>2, <1>3, <1>4 DEF BoardNext, Emulator

LEMMA OthersDoNotPoll ==
    ASSUME at # "poll", [BoardNext]_boardVars, ~Refresh
    PROVE  PolledAfterDrawing'
  <1>1. at' # "poll"
    <2>1. CASE Cycle \/ Tick
      BY <2>1 DEF Cycle, Tick
    <2>2. CASE ~(Cycle \/ Tick)
      <3>1. at' = at
        BY <2>2 DEF BoardNext, Emulator, ParseArguments, PrintOrDisassemble, StartBoard, Poll,
           PollEnd, GuestExit, UserEvent, boardVars, loopVars
      <3> QED BY <3>1
    <2> QED BY <2>1, <2>2
  <1> QED BY <1>1 DEF PolledAfterDrawing

\* Whatever the guest wrote, in whatever order the characters are drawn and
\* for every size of screen and font, the window shows after a refresh what the
\* loop over pixels would have drawn from the screen's memory.
THEOREM WindowShowsScreen == BoardSpec => []ScreenShowsMemory
  <1>1. BoardInit => PolledAfterDrawing
    BY DEF BoardInit, PolledAfterDrawing
  <1>2. PolledAfterDrawing /\ [BoardNext]_boardVars => PolledAfterDrawing'
    <2> SUFFICES ASSUME PolledAfterDrawing, [BoardNext]_boardVars PROVE PolledAfterDrawing'
      OBVIOUS
    <2>1. CASE Refresh
      BY <2>1, RefreshDraws
    <2>2. CASE at = "poll"
      BY <2>2, PollingKeeps DEF PolledAfterDrawing
    <2>3. CASE at # "poll" /\ ~Refresh
      BY <2>3, OthersDoNotPoll
    <2> QED BY <2>1, <2>2, <2>3
  <1>3. PolledAfterDrawing => ScreenShowsMemory
    BY DEF PolledAfterDrawing, ScreenShowsMemory
  <1> QED BY <1>1, <1>2, <1>3, PTL DEF BoardSpec
------------------------------------------------------------------------------
(***************************************************************************)
(* The refresh clock.  From a refresh that left less than a cycle the      *)
(* clock is at what was left and the cycles it counted since, unless it    *)
(* has reached what a float counts to: then it never comes round.          *)
(***************************************************************************)
BeforeStart ==
    process \in {"parsing", "parsed"} =>
        at = "cycle" /\ since = 0 /\ elapsed = leftover /\ devices = <<>>

ClockType ==
    /\ since \in Nat /\ elapsed \in Int /\ leftover \in Int
    /\ at = "tick" => since > 0
    /\ process = "running" => Ratio \in Nat

\* The cycle just executed is counted by the tick behind it.
Counted == IF at = "tick" THEN since - 1 ELSE since

Counting ==
    /\ elapsed = leftover + Counted * Fraction
    /\ elapsed < FloatMax + Fraction
    /\ Counted > 0 => elapsed - Fraction < Ratio

FullCounter == elapsed \in FloatMax .. FloatMax + Fraction - 1 /\ Below(elapsed, Ratio)

ClockInv ==
    /\ BeforeStart
    /\ ClockType
    /\ leftover \in 0 .. Fraction - 1 => Counting \/ FullCounter

LEMMA Float ==
    /\ Fraction \in Nat \ {0} /\ FloatMax \in Nat /\ Fraction < FloatMax
    /\ \E q \in Nat : FloatMax = (2 * Fraction) * (2 * q)
  <1>1. Fraction \in Nat \ {0} /\ FloatMax \in Nat \ {0} /\ FloatMax % (4 * Fraction) = 0
    BY BoardAssumption
  <1> DEFINE m == 4 * Fraction
             q == FloatMax \div m
  <1>2. m \in Nat \ {0} /\ FloatMax % m = 0
    BY <1>1
  <1> HIDE DEF m
  <1>3. FloatMax = m * (FloatMax \div m) + (FloatMax % m) /\ FloatMax \div m \in Nat
    BY <1>1, <1>2
  <1>4. FloatMax = m * q /\ q \in Nat
    BY <1>2, <1>3
  <1> HIDE DEF q
  <1>5. m * q = (2 * Fraction) * (2 * q)
    BY <1>1, <1>4 DEF m
  <1>6. q >= 1
    BY <1>1, <1>2, <1>4
  <1>7. m * q >= m
    BY <1>2, <1>4, <1>6
  <1>8. m > Fraction
    BY <1>1 DEF m
  <1>9. Fraction < FloatMax
    BY <1>1, <1>2, <1>4, <1>7, <1>8
  <1> QED BY <1>1, <1>4, <1>5, <1>9

LEMMA IncrementType == ASSUME NEW e \in Int PROVE Increment(e) \in Int
  BY Float DEF Increment

\* A counter that has come up to FloatMax stays: the even neighbour is below it.
LEMMA FullStays ==
    ASSUME NEW e \in FloatMax .. FloatMax + Fraction - 1
    PROVE  Increment(e) = e
  <1>1. PICK q \in Nat : FloatMax = (2 * Fraction) * (2 * q)
    BY Float
  <1> DEFINE m == 2 * Fraction
             k == 2 * q
             r == e - FloatMax
  <1>2. m \in Nat \ {0} /\ k \in Int /\ r \in 0 .. m - 1 /\ e = FloatMax + r /\ e \in Int
    BY Float
  <1>3. FloatMax = m * k
    BY <1>1
  <1>4. k % 2 = 0
    <2>1. k = 2 * q + 0 /\ q \in Int /\ 0 \in 0 .. 2 - 1 /\ 2 \in Nat \ {0}
      OBVIOUS
    <2> HIDE DEF k
    <2> QED BY <2>1, LastDigit
  <1> HIDE DEF m, k, r
  <1>5. e \div m = k
    BY <1>2, <1>3, LastDigit
  <1>6. (e \div (2 * Fraction)) % 2 = 0
    BY <1>4, <1>5 DEF m
  <1>7. ~(-FloatMax <= e /\ e < FloatMax)
    BY Float
  <1> QED BY <1>6, <1>7 DEF Increment

\* A setting that was converted is a number.
LEMMA RatioOnStart == ASSUME ~StartFails PROVE Ratio \in Nat
  <1>1. CASE IsSet("CPU_SPEED")
    <2>1. ButLast(settings["CPU_SPEED"]) # <<>>
      BY <1>1 DEF StartFails
    <2>2. settings["CPU_SPEED"] \in DOMAIN NumberOf
      BY <2>1 DEF ButLast
    <2> QED BY <1>1, <2>1, <2>2, BoardAssumption DEF Ratio
  <1>2. CASE ~IsSet("CPU_SPEED")
    BY <1>2, BoardAssumption DEF Ratio
  <1> QED BY <1>1, <1>2

LEMMA Multiples ==
    ASSUME NEW s \in Nat, NEW f \in Nat \ {0}
    PROVE  s * f \in Nat /\ s <= s * f /\ (s + 1) * f = s * f + f
  OBVIOUS

\* A cycle is executed and not yet counted.
LEMMA CycleWaits ==
    ASSUME ClockInv, Cycle
    PROVE  ClockInv'
  <1> DEFINE ratio == Ratio
  <1>1. /\ process = "running" /\ settings' = settings /\ process' \notin {"parsing", "parsed"}
        /\ leftover' = leftover /\ elapsed' = elapsed /\ at = "cycle" /\ at' = "tick"
        /\ since' = IF since > ratio THEN since ELSE since + 1
    BY DEF Cycle, Running, Load, Store
  <1>2. Ratio' = ratio
    BY <1>1 DEF Ratio, IsSet
  <1>3. ratio \in Nat /\ since \in Nat /\ elapsed \in Int /\ leftover \in Int
    BY <1>1 DEF ClockInv, ClockType
  <1> HIDE DEF ratio
  <1>4. BeforeStart'
    BY <1>1 DEF BeforeStart
  <1>5. ClockType'
    BY <1>1, <1>2, <1>3 DEF ClockType
  <1>6. ASSUME leftover \in 0 .. Fraction - 1, Counting PROVE Counting'
    <2>1. /\ elapsed = leftover + since * Fraction /\ elapsed < FloatMax + Fraction
          /\ since > 0 => elapsed - Fraction < ratio
      BY <1>1, <1>6 DEF Counting, Counted, ratio
    <2>2. since <= ratio
      <3>1. CASE since = 0
        BY <1>3, <3>1
      <3>2. CASE since > 0
        <4>1. since - 1 \in Nat /\ (since - 1) + 1 = since
          BY <1>3, <3>2
        <4>2. since - 1 <= (since - 1) * Fraction /\ (since - 1) * Fraction \in Nat
              /\ since * Fraction = (since - 1) * Fraction + Fraction
          BY <4>1, Float, Multiples
        <4> QED BY <1>3, <1>6, <2>1, <3>2, <4>1, <4>2, Float
      <3> QED BY <1>3, <3>1, <3>2
    <2>3. since' - 1 = since /\ Counted' = since
      BY <1>1, <1>3, <2>2 DEF Counted
    <2> QED BY <1>1, <1>2, <2>1, <2>3 DEF Counting
  <1>7. FullCounter => FullCounter'
    BY <1>1, <1>2 DEF FullCounter, Below, ratio
  <1> QED BY <1>1, <1>4, <1>5, <1>6, <1>7 DEF ClockInv

LEMMA TickCounts ==
    ASSUME ClockInv, Tick
    PROVE  ClockInv'
  <1> DEFINE ratio == Ratio
  <1>1. /\ process = "running" /\ process' = process /\ settings' = settings
        /\ leftover' = leftover /\ elapsed' = Increment(elapsed) /\ since' = since
        /\ at = "tick" /\ at' = "cycle"
    BY DEF Tick, Running, cliVars
  <1>2. Ratio' = ratio
    BY <1>1 DEF Ratio, IsSet
  <1>3. /\ ratio \in Nat /\ since \in Nat /\ elapsed \in Int /\ leftover \in Int
        /\ since > 0
    BY <1>1 DEF ClockInv, ClockType
  <1>4. elapsed # NaN /\ elapsed < ratio
    BY DEF Tick, Below
  <1> HIDE DEF ratio
  <1>5. BeforeStart'
    BY <1>1 DEF BeforeStart
  <1>6. ClockType'
    BY <1>1, <1>2, <1>3, IncrementType DEF ClockType
  <1>7. ASSUME leftover \in 0 .. Fraction - 1 PROVE Counting' \/ FullCounter'
    <2>1. CASE elapsed >= FloatMax
      <3>1. elapsed \in FloatMax .. FloatMax + Fraction - 1
        BY <1>3, <1>7, <2>1, Float DEF ClockInv, Counting, FullCounter
      <3>2. elapsed' = elapsed
        BY <1>1, <3>1, FullStays
      <3>3. Below(elapsed', Ratio')
        BY <1>2, <1>4, <3>2 DEF Below
      <3> QED BY <3>1, <3>2, <3>3 DEF FullCounter
    <2>2. CASE elapsed < FloatMax
      <3>1. Counting
        BY <1>3, <1>7, <2>2, Float DEF ClockInv, FullCounter
      <3>2. elapsed = leftover + (since - 1) * Fraction
        BY <1>1, <3>1 DEF Counting, Counted
      <3>3. since - 1 \in Nat /\ (since - 1) + 1 = since
        BY <1>3
      <3>4. (since - 1) * Fraction \in Nat /\ since * Fraction = (since - 1) * Fraction + Fraction
        BY <3>3, Float, Multiples
      <3>5. elapsed' = elapsed + Fraction
        BY <1>1, <1>3, <1>7, <2>2, <3>2, <3>4, Float DEF Increment
      <3>6. elapsed' = leftover' + Counted' * Fraction
        BY <1>1, <1>3, <3>2, <3>4, <3>5, Float DEF Counted
      <3>7. elapsed' < FloatMax + Fraction /\ elapsed' - Fraction < Ratio'
        BY <1>2, <1>3, <1>4, <2>2, <3>5, Float
      <3> QED BY <3>6, <3>7 DEF Counting
    <2> QED BY <2>1, <2>2, <1>3, Float
  <1> QED BY <1>1, <1>5, <1>6, <1>7 DEF ClockInv

\* A clock that comes round was counting, and it comes round as it should.
LEMMA ComesRound ==
    ASSUME ClockInv, process = "running", at = "tick", ~Below(elapsed, Ratio),
           leftover \in 0 .. Fraction - 1
    PROVE  /\ (since - 1) * Fraction = Ratio + Carry(elapsed, Ratio) - leftover
           /\ Carry(elapsed, Ratio) \in 0 .. Fraction - 1
  <1> DEFINE ratio == Ratio
             counted == (since - 1) * Fraction
  <1>1. /\ ratio \in Nat /\ since \in Nat /\ elapsed \in Int /\ leftover \in Int
        /\ since > 0
    BY DEF ClockInv, ClockType
  <1>2. /\ elapsed = leftover + counted /\ elapsed < FloatMax + Fraction
        /\ since > 1 => elapsed - Fraction < ratio
    BY <1>1 DEF ClockInv, FullCounter, Counting, Counted
  <1>3. ~Below(elapsed, ratio)
    OBVIOUS
  <1>4. counted \in Int /\ (since = 1 => counted = 0)
    BY <1>1, Float
  <1> HIDE DEF ratio, counted
  <1>5. elapsed >= ratio /\ elapsed # NaN
    BY <1>1, <1>2, <1>3, Float DEF Below, NaN
  <1>6. elapsed - ratio < Fraction
    <2>1. CASE since = 1
      BY <1>1, <1>2, <1>4, <2>1, Float
    <2>2. CASE since > 1
      BY <1>1, <1>2, <2>2, Float
    <2> QED BY <1>1, <2>1, <2>2
  <1>7. Carry(elapsed, ratio) = elapsed - ratio
    BY <1>5 DEF Carry
  <1>8. Carry(elapsed, ratio) \in 0 .. Fraction - 1
    BY <1>1, <1>5, <1>6, <1>7, Float
  <1>9. counted = ratio + Carry(elapsed, ratio) - leftover
    BY <1>1, <1>2, <1>4, <1>7
  <1> QED BY <1>8, <1>9 DEF ratio, counted

LEMMA RefreshCounts ==
    ASSUME ClockInv, Refresh
    PROVE  ClockInv'
  <1> DEFINE ratio == Ratio
  <1>1. /\ process = "running" /\ process' = process /\ settings' = settings /\ at' = "poll"
        /\ elapsed' = Carry(elapsed, ratio) /\ leftover' = elapsed' /\ since' = 0
    BY DEF Refresh, Running, cliVars
  <1>2. Ratio' = ratio
    BY <1>1 DEF Ratio, IsSet
  <1>3. ratio \in Nat /\ elapsed \in Int
    BY <1>1 DEF ClockInv, ClockType
  <1> HIDE DEF ratio
  <1>4. ClockType'
    BY <1>1, <1>2, <1>3, Float DEF ClockType, Carry, NaN
  <1>5. leftover' \in 0 .. Fraction - 1 => Counting'
    BY <1>1, Float DEF Counting, Counted
  <1> QED BY <1>1, <1>4, <1>5 DEF ClockInv, BeforeStart

\* No other step moves the clock, and settings change only before it runs.
LEMMA ClockStands ==
    ASSUME ClockInv, [BoardNext]_boardVars, ~Cycle, ~Tick, ~Refresh
    PROVE  ClockInv'
  <1>1. elapsed' = elapsed /\ leftover' = leftover /\ since' = since
    BY DEF BoardNext, Emulator, ParseArguments, PrintOrDisassemble, StartBoard, Poll,
       PollEnd, GuestExit, UserEvent, boardVars, loopVars
  <1>2. at' = at \/ (at = "poll" /\ at' = "cycle")
    BY DEF BoardNext, Emulator, ParseArguments, PrintOrDisassemble, StartBoard, Poll,
       PollEnd, GuestExit, UserEvent, boardVars, loopVars
  <1>3. Counted' = Counted /\ (at' = "tick" => at = "tick")
    BY <1>1, <1>2 DEF Counted
  <1>4. CASE process = "running"
    <2>1. settings' = settings /\ process' \notin {"parsing", "parsed"}
      <3>1. ~(ParseArguments \/ PrintOrDisassemble \/ StartBoard)
        BY <1>4 DEF ParseArguments, Parse, ParseSwitch, ParseSetting, ParseSettingAtEnd, ParseInput,
           ParseEnd, Parsing, PrintOrDisassemble, PrintText, DisassembleInput, StartBoard, Start
      <3> QED BY <1>4, <3>1 DEF BoardNext, Emulator, Poll, PollEnd, GuestExit, UserEvent,
           boardVars, cliVars
    <2>2. Ratio' = Ratio
      BY <2>1 DEF Ratio, IsSet
    <2> QED BY <1>1, <1>3, <1>4, <2>1, <2>2
         DEF ClockInv, BeforeStart, ClockType, Counting, FullCounter
  <1>5. CASE process \in {"parsing", "parsed"}
    <2>1. at = "cycle" /\ since = 0 /\ elapsed = leftover /\ devices = <<>>
      BY <1>5 DEF ClockInv, BeforeStart
    <2>2. ~(Poll \/ PollEnd \/ GuestExit \/ \E e \in {"key", "quit"} : UserEvent(e))
      BY <1>5 DEF Poll, PollEnd, GuestExit, UserEvent, Running
    <2>3. at' = at
      BY <1>2, <2>1
    <2>4. process' = "running" => Ratio' \in Nat
      <3>1. process' = "running" => ~StartFails /\ settings' = settings
        BY <1>5, <2>2 DEF BoardNext, Emulator, ParseArguments, Parse, ParseSwitch, ParseSetting,
           ParseSettingAtEnd, ParseInput, ParseEnd, PrintOrDisassemble, PrintText,
           DisassembleInput, StartBoard, Start, boardVars, cliVars
      <3>2. settings' = settings => Ratio' = Ratio
        BY DEF Ratio, IsSet
      <3> QED BY <3>1, <3>2, RatioOnStart
    <2>5. process' \in {"parsing", "parsed"} => devices' = devices
      BY <1>5, <2>2 DEF BoardNext, Emulator, ParseArguments, Parse, ParseSwitch, ParseSetting,
         ParseSettingAtEnd, ParseInput, ParseEnd, PrintOrDisassemble, PrintText,
         DisassembleInput, StartBoard, Start, boardVars, cliVars
    <2>6. leftover' \in 0 .. Fraction - 1 => Counting'
      BY <1>1, <2>1, <2>3, Float DEF Counting, Counted
    <2> QED BY <1>1, <2>1, <2>3, <2>4, <2>5, <2>6 DEF ClockInv, BeforeStart, ClockType
  <1>6. CASE process \notin {"running", "parsing", "parsed"}
    <2>1. UNCHANGED boardVars
      BY <1>6 DEF BoardNext, Emulator, ParseArguments, Parse, ParseSwitch, ParseSetting,
         ParseSettingAtEnd, ParseInput, ParseEnd, Parsing, PrintOrDisassemble, PrintText,
         DisassembleInput, StartBoard, Start, Cycle, Poll, PollEnd, GuestExit, UserEvent, Running
    <2>2. Ratio' = Ratio /\ process' = process /\ devices' = devices /\ at' = at
      BY <2>1 DEF boardVars, cliVars, loopVars, Ratio, IsSet
    <2> QED BY <1>1, <1>3, <1>6, <2>2 DEF ClockInv, BeforeStart, ClockType, Counting, FullCounter
  <1> QED BY <1>4, <1>5, <1>6

LEMMA ClockAlways == BoardSpec => []ClockInv
  <1>1. BoardInit => ClockInv
    <2> SUFFICES ASSUME BoardInit PROVE ClockInv
      OBVIOUS
    <2>1. process = "parsing" /\ devices = <<>> /\ at = "cycle" /\ since = 0 /\ leftover = elapsed
          /\ elapsed \in Int
      BY BoardAssumption DEF BoardInit, CliInit
    <2> QED BY <2>1, Float DEF ClockInv, BeforeStart, ClockType, Counting, Counted
  <1>2. ClockInv /\ [BoardNext]_boardVars => ClockInv'
    BY CycleWaits, TickCounts, RefreshCounts, ClockStands
  <1> QED BY <1>1, <1>2, PTL DEF BoardSpec

\* For every ratio and whatever the uninitialised counter held, a period is the
\* ratio and the one cycle that the clock does not count: what is left of a
\* cycle is carried into the next period and never grows to a whole one.
THEOREM RefreshPeriodExact == BoardSpec => RefreshPeriod
  <1> DEFINE Period ==
        (at = "tick" /\ at' = "poll" /\ leftover \in 0 .. Fraction - 1) =>
          /\ (since - 1) * Fraction = Ratio + leftover' - leftover
          /\ leftover' \in 0 .. Fraction - 1
  <1>1. ClockInv /\ [BoardNext]_boardVars => Period
    <2> SUFFICES ASSUME ClockInv, [BoardNext]_boardVars, at = "tick", at' = "poll",
                        leftover \in 0 .. Fraction - 1
                 PROVE  /\ (since - 1) * Fraction = Ratio + leftover' - leftover
                        /\ leftover' \in 0 .. Fraction - 1
      OBVIOUS
    <2>1. Refresh
      BY DEF BoardNext, Emulator, ParseArguments, PrintOrDisassemble, StartBoard, Cycle, Tick, Poll,
         PollEnd, GuestExit, UserEvent, boardVars, loopVars
    <2>2. process = "running" /\ ~Below(elapsed, Ratio) /\ leftover' = Carry(elapsed, Ratio)
      BY <2>1 DEF Refresh, Running
    <2> QED BY <2>2, ComesRound
  <1>2. ClockInv /\ [BoardNext]_boardVars => [Period]_boardVars
    BY <1>1
  <1> QED BY <1>2, ClockAlways, PTL DEF BoardSpec, RefreshPeriod
------------------------------------------------------------------------------
(***************************************************************************)
(* The value of a row of digits is a number: by the least prefix for which *)
(* it was none.                                                            *)
(***************************************************************************)
LEMMA LeastNumber ==
    ASSUME NEW S \in SUBSET Nat, NEW k \in S
    PROVE  \E m \in S : \A n \in Nat : n < m => n \notin S
  <1> DEFINE Less == {p \in Nat \X Nat : p[1] < p[2]}
  <1>1. IsWellFoundedOn(Less, Nat)
    BY NatLessThanWellFounded DEF OpToRel
  <1>2. PICK m \in S : \A n \in S : <<n, m>> \notin Less
    BY <1>1, WFMin
  <1>3. ASSUME NEW n \in Nat, n < m PROVE n \notin S
    BY <1>2, <1>3
  <1> QED BY <1>3

\* The values of the prefixes, as far as the n-th.
Values(d, n) ==
    {v \in [0 .. n -> Nat] :
        \A k \in 0 .. n : v[k] = IF k = 0 THEN 0 ELSE 10 * v[k - 1] + d[k]}

LEMMA ValuesExist ==
    ASSUME NEW d \in Seq(0 .. 9), NEW n \in 0 .. Len(d)
    PROVE  Values(d, n) # {}
  <1> DEFINE without == {k \in 0 .. Len(d) : Values(d, k) = {}}
  <1>1. ASSUME NEW m \in without, \A k \in Nat : k < m => k \notin without
        PROVE  FALSE
    <2>1. Len(d) \in Nat /\ m \in 0 .. Len(d)
      OBVIOUS
    <2>2. CASE m = 0
      <3>1. [k \in 0 .. 0 |-> 0] \in Values(d, 0)
        BY DEF Values
      <3> QED BY <2>2, <3>1
    <2>3. CASE m # 0
      <3>1. m - 1 \in Nat /\ m - 1 < m /\ m - 1 \in 0 .. Len(d)
        BY <2>1, <2>3
      <3>2. Values(d, m - 1) # {}
        BY <1>1, <3>1
      <3>3. PICK v : v \in Values(d, m - 1)
        BY <3>2
      <3>4. d[m] \in Nat
        BY <2>1, <2>3
      <3> DEFINE w == [k \in 0 .. m |-> IF k = m THEN 10 * v[m - 1] + d[m] ELSE v[k]]
      <3>5. w \in [0 .. m -> Nat]
        BY <2>1, <3>1, <3>3, <3>4 DEF Values
      <3>6. ASSUME NEW k \in 0 .. m
            PROVE  w[k] = IF k = 0 THEN 0 ELSE 10 * w[k - 1] + d[k]
        BY <2>1, <2>3, <3>1, <3>3 DEF Values
      <3> HIDE DEF w
      <3>7. w \in Values(d, m)
        BY <3>5, <3>6 DEF Values
      <3> QED BY <3>7
    <2> QED BY <2>2, <2>3
  <1>2. without \in SUBSET Nat
    OBVIOUS
  <1> HIDE DEF without
  <1>3. without = {}
    BY <1>1, <1>2, LeastNumber
  <1> QED BY <1>3 DEF without

LEMMA DigitsValueType == ASSUME NEW d \in Seq(0 .. 9) PROVE DigitsValue(d) \in Nat
  <1> DEFINE Step(v) ==
               [n \in 0 .. Len(d) |-> IF n = 0 THEN 0 ELSE 10 * v[n - 1] + d[n]]
             value == CHOOSE v : v = Step(v)
             odd == {n \in 0 .. Len(d) : value[n] \notin Nat}
  <1>1. Len(d) \in Nat
    OBVIOUS
  <1>2. PICK v : v \in Values(d, Len(d))
    BY <1>1, ValuesExist
  <1>3. v = Step(v)
    BY <1>2 DEF Values
  <1>4. value = Step(value)
    BY <1>3
  <1>5. DigitsValue(d) = value[Len(d)]
    BY DEF DigitsValue
  <1> HIDE DEF value
  <1>6. ASSUME NEW m \in odd, \A k \in Nat : k < m => k \notin odd
        PROVE  FALSE
    <2>1. value[m] = IF m = 0 THEN 0 ELSE 10 * value[m - 1] + d[m]
      BY <1>1, <1>4
    <2>2. m # 0
      BY <2>1
    <2>3. m - 1 \in Nat /\ m - 1 < m /\ m - 1 \in 0 .. Len(d) /\ d[m] \in Nat
      BY <1>1, <2>2
    <2>4. value[m - 1] \in Nat
      BY <1>6, <2>3
    <2> QED BY <2>1, <2>2, <2>3, <2>4
  <1>7. odd \in SUBSET Nat
    OBVIOUS
  <1> HIDE DEF odd
  <1>8. odd = {}
    BY <1>6, <1>7, LeastNumber
  <1> QED BY <1>1, <1>5, <1>8 DEF odd
------------------------------------------------------------------------------
(***************************************************************************)
(* Who answers an address, and that main's devices answer only addresses   *)
(* that are in their buffers.                                              *)
(***************************************************************************)
Slot == 1 .. 5

Answers(devs, d, a) == a >= devs[d].start /\ a < devs[d].end

\* The first that answers.
LEMMA DeviceAtIs ==
    ASSUME NEW devs, Len(devs) = 5, NEW a
    PROVE  /\ DeviceAt(devs, a) \in 0 .. 5
           /\ DeviceAt(devs, a) = 0 => \A d \in Slot : ~Answers(devs, d, a)
           /\ DeviceAt(devs, a) # 0 => Answers(devs, DeviceAt(devs, a), a)
           /\ \A d \in Slot : (Answers(devs, d, a) /\ \A e \in 1 .. d - 1 : ~Answers(devs, e, a))
                                  => DeviceAt(devs, a) = d
  <1> DEFINE I == {d \in 1 .. Len(devs) : a >= devs[d].start /\ a < devs[d].end}
  <1>1. DeviceAt(devs, a) = IF I # {} THEN Min(I) ELSE 0
    BY DEF DeviceAt, SelectInSeq
  <1>2. I = {d \in Slot : Answers(devs, d, a)}
    BY DEF Answers, Slot
  <1> HIDE DEF I
  <1>3. I # {} => \E d \in I : \A e \in I : d <= e
    <2>1. I \subseteq 1 .. 5
      BY <1>2 DEF Slot
    <2>2. CASE 1 \in I
      BY <2>1, <2>2
    <2>3. CASE 1 \notin I /\ 2 \in I
      BY <2>1, <2>3
    <2>4. CASE 1 \notin I /\ 2 \notin I /\ 3 \in I
      BY <2>1, <2>4
    <2>5. CASE 1 \notin I /\ 2 \notin I /\ 3 \notin I /\ 4 \in I
      BY <2>1, <2>5
    <2>6. CASE 1 \notin I /\ 2 \notin I /\ 3 \notin I /\ 4 \notin I
      <3>1. \A d \in I : d = 5
        BY <2>1, <2>6
      <3> QED BY <3>1
    <2> QED BY <2>2, <2>3, <2>4, <2>5, <2>6
  <1>4. I # {} => Min(I) \in I /\ \A e \in I : Min(I) <= e
    BY <1>3 DEF Min
  <1>5. ASSUME NEW d \in Slot, Answers(devs, d, a), \A e \in 1 .. d - 1 : ~Answers(devs, e, a)
        PROVE  DeviceAt(devs, a) = d
    <2>1. d \in I /\ \A e \in I : e >= d
      BY <1>2, <1>5 DEF Slot
    <2> QED BY <1>1, <1>2, <1>4, <2>1 DEF Slot
  <1>6. DeviceAt(devs, a) = 0 => I = {}
    BY <1>1, <1>2, <1>4 DEF Slot
  <1>7. DeviceAt(devs, a) # 0 => DeviceAt(devs, a) \in I
    BY <1>1, <1>4
  <1> QED BY <1>2, <1>5, <1>6, <1>7 DEF Slot

LEMMA Space == AddressSpace \in Nat \ {0} /\ Address = 0 .. AddressSpace - 1
  BY CommandLineAssumption DEF Address

LEMMA StoiType ==
    ASSUME NEW minus, NEW d \in Seq(0 .. 9)
    PROVE  Stoi(minus, d) \in Address \cup {NotANumber}
  <1> DEFINE int == IF minus THEN -DigitsValue(d) ELSE DigitsValue(d)
  <1>1. int \in Int
    BY DigitsValueType
  <1>2. \A n \in Int : n % AddressSpace \in Address
    BY Space
  <1>3. Stoi(minus, d) = NotANumber \/ Stoi(minus, d) = int % AddressSpace
    BY DEF Stoi
  <1> HIDE DEF int
  <1> QED BY <1>1, <1>2, <1>3

LEMMA DigitsType ==
    ASSUME NEW s
    PROVE  Digits(s) \in Seq(0 .. 9) /\ ButLast(s) \in Seq(0 .. 9)
  <1>1. CASE s \in DOMAIN NumberOf
    <2>1. NumberOf[s].digits \in Seq(0 .. 9)
      BY <1>1, CommandLineAssumption
    <2>2. Front(NumberOf[s].digits) \in Seq(0 .. 9)
      BY <2>1 DEF Front
    <2> QED BY <1>1, <2>1, <2>2 DEF Digits, ButLast
  <1>2. CASE s \notin DOMAIN NumberOf
    BY <1>2 DEF Digits, ButLast
  <1> QED BY <1>1, <1>2

LEMMA HrsizeType == ASSUME NEW s PROVE Hrsize(s) \in Address \cup {NotANumber}
  <1> DEFINE n == Stoi(Negative(s), ButLast(s))
             u == IF s \in DOMAIN NumberOf THEN NumberOf[s].last ELSE ""
  <1>1. n \in Address \cup {NotANumber}
    BY DigitsType, StoiType
  <1>2. Hrsize(s) = IF n = NotANumber THEN n
                    ELSE (IF u \in DOMAIN Unit THEN n * Unit[u] ELSE n) % AddressSpace
    BY DEF Hrsize
  <1>3. u \in DOMAIN Unit => Unit[u] \in Nat
    BY CommandLineAssumption
  <1> HIDE DEF n, u
  <1>4. CASE n = NotANumber
    BY <1>2, <1>4
  <1>5. CASE n # NotANumber
    <2>1. n \in Nat
      BY <1>1, <1>5, Space
    <2>2. u \in DOMAIN Unit => n * Unit[u] \in Nat
      BY <1>3, <2>1
    <2>3. \A m \in Nat : m % AddressSpace \in Address
      BY Space
    <2> QED BY <1>2, <1>5, <2>1, <2>2, <2>3
  <1> QED BY <1>4, <1>5

LEMMA RamType ==
    ASSUME NotANumber \notin {RamBase, RamSize}
    PROVE  RamBase \in Address /\ RamSize \in Address
  <1>1. RamBase \in Address \cup {NotANumber}
    <2>1. DefaultRamBase \in Address
      BY CommandLineAssumption
    <2> QED BY <2>1, DigitsType, StoiType DEF RamBase, Number
  <1>2. RamSize \in Address \cup {NotANumber}
    <2>1. DefaultRamSize \in Address
      BY CommandLineAssumption
    <2> QED BY <2>1, HrsizeType DEF RamSize
  <1> QED BY <1>1, <1>2

Kinds == <<"ram", "rom", "bios_ram", "vga", "io">>

\* What main attaches: five devices of different kinds, none of which answers
\* an address that is not in its buffer.
Fitted(devs) ==
    /\ Len(devs) = 5 /\ DOMAIN devs = Slot
    /\ \A d \in Slot :
          /\ devs[d].kind = Kinds[d]
          /\ devs[d].start \in Address /\ devs[d].end \in Address /\ devs[d].size \in Int
          /\ \A a \in Int : Answers(devs, d, a) => a - devs[d].start \in 0 .. devs[d].size - 1

\* A range that comes round the top is empty.
LEMMA RangeFits ==
    ASSUME NEW base \in Address, NEW size \in Address
    PROVE  LET r == RangeOf(base, size)
           IN  /\ r.start = base /\ r.end \in Address
               /\ r.end = base + size \/ r.end <= base
               /\ \A a \in Int : a >= r.start /\ a < r.end => a - r.start \in 0 .. size - 1
  <1> DEFINE e == (base + size) % AddressSpace
  <1>1. e \in Address /\ (e = base + size \/ e <= base)
    <2>1. CASE base + size < AddressSpace
      <3>1. e = base + size
        BY <2>1, Space
      <3> QED BY <2>1, <3>1, Space
    <2>2. CASE base + size >= AddressSpace
      <3>1. base + size - AddressSpace \in 0 .. AddressSpace - 1
        BY <2>2, Space
      <3>2. e = base + size - AddressSpace
        BY <3>1, Space
      <3> QED BY <3>1, <3>2, Space
    <2> QED BY <2>1, <2>2, Space
  <1> HIDE DEF e
  <1>2. RangeOf(base, size) = [start |-> base, end |-> e]
    BY DEF RangeOf, e
  <1> QED BY <1>1, <1>2, Space

LEMMA AttachedIs ==
    /\ Len(Attached) = 5 /\ DOMAIN Attached = Slot
    /\ Attached[1] = Device("ram", RangeOf(RamBase, RamSize), RamSize)
    /\ Attached[2] = Device("rom", RomRange, RomRange.end - RomRange.start)
    /\ Attached[3] = Device("bios_ram", BiosRamRange, BiosRamRange.end - BiosRamRange.start)
    /\ Attached[4] = Device("vga", VgaRange, VgaRange.end - VgaRange.start)
    /\ Attached[5] = Device("io", IoRange, IoRange.end - IoRange.start)
  BY DEF Attached, Slot

LEMMA RomFits ==
    /\ RomRange.start = 0 /\ RomRange.end \in Address
    /\ BiosFile \in Files => RomRange.end = RomSize
  <1>1. RomSize \in Address
    BY CommandLineAssumption
  <1>2. AddressSpace - 1 \in Address /\ \A n \in Address : (0 + n) % AddressSpace = n
    BY Space
  <1> QED BY <1>1, <1>2 DEF RomRange, RangeOf

LEMMA AttachedFitted ==
    ASSUME NotANumber \notin {RamBase, RamSize}
    PROVE  Fitted(Attached)
  <1>1. RamBase \in Address /\ RamSize \in Address
    BY RamType
  <1> DEFINE fits(d) ==
               /\ Attached[d].kind = Kinds[d]
               /\ Attached[d].start \in Address /\ Attached[d].end \in Address
               /\ Attached[d].size \in Int
               /\ \A a \in Int : Answers(Attached, d, a)
                                    => a - Attached[d].start \in 0 .. Attached[d].size - 1
  <1>2. fits(1)
    <2> DEFINE r == RangeOf(RamBase, RamSize)
    <2>1. /\ Attached[1].kind = "ram" /\ Attached[1].start = r.start
          /\ Attached[1].end = r.end /\ Attached[1].size = RamSize
      BY AttachedIs DEF Device
    <2>2. /\ r.start = RamBase /\ r.end \in Address
          /\ \A a \in Int : a >= r.start /\ a < r.end => a - r.start \in 0 .. RamSize - 1
      BY <1>1, RangeFits
    <2> HIDE DEF r
    <2> QED BY <1>1, <2>1, <2>2, Space DEF Answers, Kinds
  <1>3. ASSUME NEW d \in Slot, NEW r,
               Attached[d] = Device(Kinds[d], r, r.end - r.start),
               r.start \in Address, r.end \in Address
        PROVE  fits(d)
    <2>1. /\ Attached[d].kind = Kinds[d] /\ Attached[d].start = r.start
          /\ Attached[d].end = r.end /\ Attached[d].size = r.end - r.start
      BY <1>3 DEF Device
    <2> QED BY <1>3, <2>1, Space DEF Answers
  <1>4. {BiosRamRange, IoRange, VgaRange} \subseteq Range32
    BY CommandLineAssumption
  <1>5. /\ BiosRamRange.start \in Address /\ BiosRamRange.end \in Address
        /\ VgaRange.start \in Address /\ VgaRange.end \in Address
        /\ IoRange.start \in Address /\ IoRange.end \in Address
    BY <1>4 DEF Range32
  <1>6. 0 \in Address
    BY Space
  <1>7. 2 \in Slot /\ 3 \in Slot /\ 4 \in Slot /\ 5 \in Slot
        /\ Kinds[2] = "rom" /\ Kinds[3] = "bios_ram" /\ Kinds[4] = "vga" /\ Kinds[5] = "io"
    BY DEF Slot, Kinds
  <1>8. fits(2)
    BY <1>3, <1>6, <1>7, RomFits, AttachedIs
  <1>9. fits(3)
    BY <1>3, <1>5, <1>7, AttachedIs
  <1>10. fits(4)
    BY <1>3, <1>5, <1>7, AttachedIs
  <1>11. fits(5)
    BY <1>3, <1>5, <1>7, AttachedIs
  <1> HIDE DEF fits
  <1>12. \A d \in Slot : fits(d)
    BY <1>2, <1>8, <1>9, <1>10, <1>11 DEF Slot
  <1> QED BY <1>12, AttachedIs DEF Fitted, fits

\* Devices are attached in one step of main, when all it converted was a number.
LEMMA Attaching ==
    ASSUME [BoardNext]_boardVars, devices' # devices
    PROVE  /\ StartBoard /\ devices' = Attached /\ process' = "running"
           /\ ~StartFails /\ settings' = settings
  <1>1. StartBoard
    BY DEF BoardNext, Emulator, ParseArguments, Parse, ParseSwitch, ParseSetting,
       ParseSettingAtEnd, ParseInput, ParseEnd, PrintOrDisassemble, PrintText, DisassembleInput,
       Cycle, Tick, Refresh, Poll, PollEnd, GuestExit, UserEvent, boardVars, cliVars
  <1> QED BY <1>1 DEF StartBoard, Start

\* An address some device answers is in that device's buffer, and RAM answers
\* all of its addresses or none, for every size of address space and file,
\* every place of the other devices, every text and every unit on the command
\* line.
THEOREM AnswersAreInBuffers == BoardSpec => RangesInBuffers
  <1> DEFINE InBuffers ==
        devices' # devices =>
          /\ \A a \in Address :
                LET d == DeviceAt(devices', a)
                IN  d # 0 => a - devices'[d].start < devices'[d].size
          /\ LET ram == devices'[1]
             IN  \/ \A i \in 0 .. ram.size - 1 : DeviceAt(devices', ram.start + i) = 1
                 \/ \A a \in Address : DeviceAt(devices', a) # 1
  <1>1. [BoardNext]_boardVars => InBuffers
    <2> SUFFICES ASSUME [BoardNext]_boardVars, devices' # devices
                 PROVE  /\ \A a \in Address :
                              LET d == DeviceAt(devices', a)
                              IN  d # 0 => a - devices'[d].start < devices'[d].size
                        /\ LET ram == devices'[1]
                           IN  \/ \A i \in 0 .. ram.size - 1 :
                                     DeviceAt(devices', ram.start + i) = 1
                               \/ \A a \in Address : DeviceAt(devices', a) # 1
      OBVIOUS
    <2> DEFINE devs == Attached
               ram == devs[1]
    <2>1. devices' = devs /\ NotANumber \notin {RamBase, RamSize}
      BY Attaching DEF StartFails
    <2>2. Fitted(devs)
      BY <2>1, AttachedFitted
    <2>3. /\ ram.start = RamBase /\ ram.size = RamSize /\ ram.end \in Address
          /\ RamBase \in Address /\ RamSize \in Address
          /\ ram.end = RamBase + RamSize \/ ram.end <= RamBase
      <3>1. RamBase \in Address /\ RamSize \in Address
        BY <2>1, RamType
      <3>2. LET r == RangeOf(RamBase, RamSize)
            IN  ram.start = r.start /\ ram.end = r.end /\ ram.size = RamSize
        BY AttachedIs DEF Device
      <3> QED BY <3>1, <3>2, RangeFits
    <2> HIDE DEF devs
    <2>4. Len(devs) = 5
      BY <2>2 DEF Fitted
    <2>5. ASSUME NEW a \in Address, DeviceAt(devs, a) # 0
          PROVE  a - devs[DeviceAt(devs, a)].start < devs[DeviceAt(devs, a)].size
      <3> DEFINE d == DeviceAt(devs, a)
      <3>1. d \in Slot /\ Answers(devs, d, a)
        BY <2>4, <2>5, DeviceAtIs DEF Slot
      <3> HIDE DEF d
      <3>2. a - devs[d].start \in 0 .. devs[d].size - 1 /\ devs[d].size \in Int
        BY <2>2, <3>1, Space DEF Fitted
      <3>3. a - devs[d].start < devs[d].size
        BY <3>2
      <3> QED BY <3>3 DEF d
    <2>6. CASE ram.end = RamBase + RamSize
      <3>1. ASSUME NEW i \in 0 .. ram.size - 1 PROVE DeviceAt(devs, ram.start + i) = 1
        <4>1. Answers(devs, 1, ram.start + i)
          BY <2>3, <2>6, Space DEF Answers
        <4>2. 1 \in Slot /\ \A e \in 1 .. 1 - 1 : ~Answers(devs, e, ram.start + i)
          BY DEF Slot
        <4> QED BY <2>4, <4>1, <4>2, DeviceAtIs
      <3> QED BY <2>1, <2>5, <3>1
    <2>7. CASE ram.end <= RamBase
      <3>1. ASSUME NEW a \in Address, DeviceAt(devs, a) = 1 PROVE FALSE
        <4>1. Answers(devs, 1, a)
          BY <2>4, <3>1, DeviceAtIs
        <4> QED BY <2>3, <2>7, <4>1, Space DEF Answers
      <3> QED BY <2>1, <2>5, <3>1
    <2> QED BY <2>3, <2>6, <2>7
  <1>2. [BoardNext]_boardVars => [InBuffers]_cliVars
    BY <1>1
  <1> QED BY <1>2, PTL DEF BoardSpec, RangesInBuffers

\* RAM where the command line does not move it is above the fixed places, which
\* are apart: each of their addresses reaches the device it belongs to.
THEOREM FixedPlacesReachable == BoardSpec => DevicesReachable
  <1> DEFINE Reachable ==
        (devices' # devices /\ ~IsSet("MEMORY_BASE") /\ BiosFile \in Files) =>
          \A a \in Address, d \in 2 .. 5 :
            (a >= devices'[d].start /\ a < devices'[d].end) => DeviceAt(devices', a) = d
  <1>1. [BoardNext]_boardVars => Reachable
    <2> SUFFICES ASSUME [BoardNext]_boardVars, devices' # devices, ~IsSet("MEMORY_BASE"),
                        BiosFile \in Files,
                        NEW a \in Address, NEW d \in 2 .. 5,
                        a >= devices'[d].start /\ a < devices'[d].end
                 PROVE  DeviceAt(devices', a) = d
      OBVIOUS
    <2> DEFINE devs == Attached
               fixed == <<[start |-> 0, end |-> RomSize], BiosRamRange, VgaRange, IoRange>>
    <2>1. devices' = devs
      BY Attaching
    <2>2. /\ devs[1].start = DefaultRamBase
          /\ devs[2].start = 0 /\ devs[2].end = RomSize
          /\ devs[3].start = BiosRamRange.start /\ devs[3].end = BiosRamRange.end
          /\ devs[4].start = VgaRange.start /\ devs[4].end = VgaRange.end
          /\ devs[5].start = IoRange.start /\ devs[5].end = IoRange.end
      <3>1. RamBase = DefaultRamBase
        BY DEF RamBase
      <3> QED BY <3>1, AttachedIs, RomFits DEF Device, RangeOf
    <2>3. \A e \in 2 .. 5 : devs[e].start = fixed[e - 1].start /\ devs[e].end = fixed[e - 1].end
      BY <2>2
    <2>4. \A i, j \in 1 .. 4 :
             /\ i # j => fixed[i].end <= fixed[j].start \/ fixed[j].end <= fixed[i].start
             /\ fixed[i].end <= DefaultRamBase
      BY LayoutAssumption
    <2>5. Fitted(devs)
      BY AttachedFitted, Attaching DEF StartFails
    <2> HIDE DEF devs, fixed
    <2>6. \A e \in 2 .. 5 : e - 1 \in 1 .. 4 /\ e \in Slot
      BY DEF Slot
    <2>7. DefaultRamBase \in Nat /\ a \in Nat
      <3>1. DefaultRamBase \in Address
        BY CommandLineAssumption
      <3> QED BY <3>1, Space
    <2>8. \A e \in Slot : devs[e].start \in Nat /\ devs[e].end \in Nat
      BY <2>5, Space DEF Fitted
    <2>9. ~Answers(devs, 1, a)
      <3>1. devs[d].end <= DefaultRamBase /\ d \in Slot
        BY <2>3, <2>4, <2>6
      <3> QED BY <2>1, <2>2, <2>7, <2>8, <3>1 DEF Answers
    <2>10. ASSUME NEW e \in 2 .. 5, e # d PROVE ~Answers(devs, e, a)
      <3>1. e - 1 # d - 1
        BY <2>10
      <3>2. devs[e].end <= devs[d].start \/ devs[d].end <= devs[e].start
        BY <2>3, <2>4, <2>6, <3>1
      <3>3. e \in Slot /\ d \in Slot
        BY <2>6
      <3> QED BY <2>1, <2>7, <2>8, <3>2, <3>3 DEF Answers
    <2>11. Answers(devs, d, a) /\ \A e \in 1 .. d - 1 : ~Answers(devs, e, a)
      <3>1. \A e \in 1 .. d - 1 : e = 1 \/ (e \in 2 .. 5 /\ e # d)
        OBVIOUS
      <3>2. Answers(devs, d, a)
        BY <2>1 DEF Answers
      <3> QED BY <2>9, <2>10, <3>1, <3>2
    <2>12. Len(devs) = 5 /\ d \in Slot
      BY <2>5, <2>6 DEF Fitted
    <2> QED BY <2>1, <2>11, <2>12, DeviceAtIs
  <1>2. [BoardNext]_boardVars => [Reachable]_cliVars
    BY <1>1
  <1> QED BY <1>2, PTL DEF BoardSpec, DevicesReachable
------------------------------------------------------------------------------
(***************************************************************************)
(* Bytes and the words they make.                                          *)
(***************************************************************************)
Byte == 0 .. ByteValues - 1
B2 == ByteValues * ByteValues
B3 == ByteValues * B2

LEMMA Bytes ==
    /\ ByteValues \in Nat \ {0} /\ B2 \in Nat \ {0} /\ B3 \in Nat \ {0}
    /\ ByteValues * B3 \in Nat \ {0} /\ 0 \in Byte /\ ByteValues - 1 \in Byte
  <1>1. ByteValues \in Nat \ {0}
    BY MemoryAssumption
  <1>2. \A a, b \in Nat \ {0} : a * b \in Nat \ {0}
    OBVIOUS
  <1>3. B2 \in Nat \ {0}
    BY <1>1, <1>2 DEF B2
  <1>4. B3 \in Nat \ {0}
    BY <1>1, <1>2, <1>3 DEF B3
  <1>5. ByteValues * B3 \in Nat \ {0}
    BY <1>1, <1>2, <1>4
  <1>6. 0 \in Byte /\ ByteValues - 1 \in Byte
    BY <1>1 DEF Byte
  <1> QED BY <1>1, <1>3, <1>4, <1>5, <1>6

LEMMA WeightIs ==
    /\ Weight[0] = 1 /\ Weight[1] = ByteValues /\ Weight[2] = B2 /\ Weight[3] = B3
    /\ Weight[4] = ByteValues * B3
  <1> DEFINE Step(w) == [i \in 0 .. 4 |-> IF i = 0 THEN 1 ELSE ByteValues * w[i - 1]]
             v == [i \in 0 .. 4 |-> IF i = 0 THEN 1 ELSE IF i = 1 THEN ByteValues
                                    ELSE IF i = 2 THEN B2 ELSE IF i = 3 THEN B3
                                    ELSE ByteValues * B3]
  <1>1. v = Step(v)
    <2>1. ByteValues * 1 = ByteValues
      BY Bytes
    <2>2. ASSUME NEW i \in 0 .. 4 PROVE v[i] = IF i = 0 THEN 1 ELSE ByteValues * v[i - 1]
      BY <2>1 DEF B2, B3
    <2> HIDE DEF v
    <2>3. v = [i \in 0 .. 4 |-> v[i]]
      BY DEF v
    <2> QED BY <2>2, <2>3
  <1>2. Weight = CHOOSE w : w = Step(w)
    BY DEF Weight
  <1>3. Weight = Step(Weight)
    <2> HIDE DEF v, Step
    <2> QED BY <1>1, <1>2
  <1> HIDE DEF v
  <1>4. Weight[0] = 1
    BY <1>3
  <1>5. Weight[1] = ByteValues * Weight[0] /\ Weight[2] = ByteValues * Weight[1]
        /\ Weight[3] = ByteValues * Weight[2] /\ Weight[4] = ByteValues * Weight[3]
    BY <1>3
  <1>6. ByteValues * 1 = ByteValues
    BY Bytes
  <1> QED BY <1>4, <1>5, <1>6 DEF B2, B3

LEMMA AbstractWeight ==
    \A i \in 0 .. 3 : Abstract!Weight[i] = Weight[i]
  <1> DEFINE Step(w) == [i \in 0 .. 3 |-> IF i = 0 THEN 1 ELSE ByteValues * w[i - 1]]
             v == [i \in 0 .. 3 |-> Weight[i]]
  <1>1. v = Step(v)
    <2>1. ByteValues * 1 = ByteValues
      BY Bytes
    <2>2. ASSUME NEW i \in 0 .. 3 PROVE v[i] = IF i = 0 THEN 1 ELSE ByteValues * v[i - 1]
      BY <2>1, WeightIs DEF B2, B3
    <2> HIDE DEF v
    <2>3. v = [i \in 0 .. 3 |-> v[i]]
      BY DEF v
    <2> QED BY <2>2, <2>3
  <1>2. Abstract!Weight = CHOOSE w : w = Step(w)
    BY DEF Abstract!Weight
  <1>3. Abstract!Weight = Step(Abstract!Weight)
    <2> HIDE DEF v, Step
    <2> QED BY <1>1, <1>2
  <1>4. /\ Abstract!Weight[0] = 1
        /\ Abstract!Weight[1] = ByteValues * Abstract!Weight[0]
        /\ Abstract!Weight[2] = ByteValues * Abstract!Weight[1]
        /\ Abstract!Weight[3] = ByteValues * Abstract!Weight[2]
    BY <1>3
  <1>5. ByteValues * 1 = ByteValues
    BY Bytes
  <1>6. \A i \in 0 .. 3 : i = 0 \/ i = 1 \/ i = 2 \/ i = 3
    OBVIOUS
  <1> QED BY <1>4, <1>5, <1>6, WeightIs DEF B2, B3

\* The word of four bytes.
Join(a, b, c, d) == a + Weight[1] * b + Weight[2] * c + Weight[3] * d

\* A word is its lower part and a multiple of what the rest counts for.
LEMMA JoinSplits ==
    ASSUME NEW a \in Byte, NEW b \in Byte, NEW c \in Byte, NEW d \in Byte
    PROVE  /\ a + ByteValues * b \in 0 .. B2 - 1
           /\ a + ByteValues * b + B2 * c \in 0 .. B3 - 1
           /\ Join(a, b, c, d) \in 0 .. ByteValues * B3 - 1
           /\ Join(a, b, c, d) = ByteValues * (b + ByteValues * c + B2 * d) + a
           /\ Join(a, b, c, d) = B2 * (c + ByteValues * d) + (a + ByteValues * b)
           /\ Join(a, b, c, d) = B3 * d + (a + ByteValues * b + B2 * c)
  <1>1. a \in Nat /\ b \in Nat /\ c \in Nat /\ d \in Nat
    BY Bytes DEF Byte
  <1>2. Join(a, b, c, d) = a + ByteValues * b + B2 * c + B3 * d
    BY WeightIs DEF Join
  <1>3. \A x, y, z \in Nat : x * y \in Nat /\ x * y = y * x /\ (x * y) * z = x * (y * z)
                             /\ x * (y + z) = x * y + x * z
    OBVIOUS
  <1>4. ByteValues \in Nat /\ B2 \in Nat /\ B3 \in Nat
    BY Bytes
  <1>5. B3 = B2 * ByteValues
    BY <1>3, <1>4 DEF B3
  <1>6. a + ByteValues * b \in 0 .. B2 - 1
    <2>1. b * ByteValues + a \in 0 .. ByteValues * ByteValues - 1
      BY <1>4, Paired DEF Byte
    <2>2. b * ByteValues + a = a + ByteValues * b
      BY <1>1, <1>4
    <2> QED BY <2>1, <2>2 DEF B2
  <1>7. a + ByteValues * b + B2 * c \in 0 .. B3 - 1
    <2> DEFINE low == a + ByteValues * b
    <2>1. c * B2 + low \in 0 .. ByteValues * B2 - 1
      <3>1. low \in 0 .. B2 - 1 /\ c \in 0 .. ByteValues - 1
        BY <1>6 DEF Byte
      <3> HIDE DEF low
      <3> QED BY <1>4, <3>1, Paired
    <2>2. c * B2 + low = low + B2 * c
      BY <1>1, <1>4, <1>3, <1>6
    <2> QED BY <2>1, <2>2 DEF B3
  <1>8. Join(a, b, c, d) \in 0 .. ByteValues * B3 - 1
    <2> DEFINE low == a + ByteValues * b + B2 * c
    <2>1. d * B3 + low \in 0 .. ByteValues * B3 - 1
      <3>1. low \in 0 .. B3 - 1 /\ d \in 0 .. ByteValues - 1
        BY <1>7 DEF Byte
      <3> HIDE DEF low
      <3> QED BY <1>4, <3>1, Paired
    <2>2. d * B3 + low = low + B3 * d
      BY <1>1, <1>4, <1>3, <1>7
    <2> QED BY <2>1, <2>2, <1>2
  <1>9. Join(a, b, c, d) = B3 * d + (a + ByteValues * b + B2 * c)
    <2>1. B3 * d \in Nat /\ ByteValues * b \in Nat /\ B2 * c \in Nat
      BY <1>1, <1>3, <1>4
    <2> QED BY <1>1, <1>2, <2>1
  <1>10. Join(a, b, c, d) = B2 * (c + ByteValues * d) + (a + ByteValues * b)
    <2>1. B3 * d \in Nat /\ ByteValues * b \in Nat /\ B2 * c \in Nat /\ ByteValues * d \in Nat
      BY <1>1, <1>3, <1>4
    <2>2. B3 * d = B2 * (ByteValues * d)
      BY <1>1, <1>3, <1>4, <1>5
    <2>3. B2 * (c + ByteValues * d) = B2 * c + B2 * (ByteValues * d)
      BY <1>1, <1>3, <1>4, <2>1
    <2> QED BY <1>1, <1>2, <2>1, <2>2, <2>3
  <1>11. Join(a, b, c, d) = ByteValues * (b + ByteValues * c + B2 * d) + a
    <2>1. B3 * d \in Nat /\ ByteValues * b \in Nat /\ B2 * c \in Nat /\ ByteValues * c \in Nat
          /\ B2 * d \in Nat
      BY <1>1, <1>3, <1>4
    <2>2. B3 * d = ByteValues * (B2 * d) /\ B2 * c = ByteValues * (ByteValues * c)
      BY <1>1, <1>3, <1>4 DEF B3, B2
    <2>3. ByteValues * (b + ByteValues * c + B2 * d)
            = ByteValues * b + ByteValues * (ByteValues * c) + ByteValues * (B2 * d)
      <3>1. \A x, y, z, k \in Nat : k * (x + y + z) = k * x + k * y + k * z
        OBVIOUS
      <3> QED BY <1>1, <1>4, <2>1, <3>1
    <2> QED BY <1>1, <1>2, <2>1, <2>2, <2>3
  <1> QED BY <1>6, <1>7, <1>8, <1>9, <1>10, <1>11

\* The bytes of a word are the four it was joined from.
LEMMA ByteOfJoin ==
    ASSUME NEW a \in Byte, NEW b \in Byte, NEW c \in Byte, NEW d \in Byte
    PROVE  LET w == Join(a, b, c, d)
           IN  ByteAt(w, 0) = a /\ ByteAt(w, 1) = b /\ ByteAt(w, 2) = c /\ ByteAt(w, 3) = d
  <1> DEFINE w == Join(a, b, c, d)
             v1 == b + ByteValues * c + B2 * d
             v2 == c + ByteValues * d
             r2 == a + ByteValues * b
             r3 == a + ByteValues * b + B2 * c
  <1>1. w = ByteValues * v1 + a /\ w = B2 * v2 + r2 /\ w = B3 * d + r3
        /\ r2 \in 0 .. B2 - 1 /\ r3 \in 0 .. B3 - 1
    BY JoinSplits
  <1>2. a \in Nat /\ b \in Nat /\ c \in Nat /\ d \in Nat
    BY Bytes DEF Byte
  <1>3. ByteValues \in Nat \ {0} /\ B2 \in Nat \ {0} /\ B3 \in Nat \ {0}
    BY Bytes
  <1>4. v2 \in Nat /\ v1 \in Nat /\ v1 = ByteValues * v2 + b
    <2>1. ByteValues * c \in Nat /\ ByteValues * d \in Nat /\ B2 * d \in Nat
      BY <1>2, <1>3
    <2>2. B2 * d = ByteValues * (ByteValues * d)
      BY <1>2, <1>3 DEF B2
    <2>3. ByteValues * (c + ByteValues * d) = ByteValues * c + ByteValues * (ByteValues * d)
      BY <1>2, <1>3, <2>1
    <2> QED BY <1>2, <2>1, <2>2, <2>3
  <1>5. v2 = ByteValues * d + c
    <2>1. ByteValues * d \in Nat
      BY <1>2, <1>3
    <2> QED BY <1>2, <2>1
  <1> HIDE DEF w, v1, v2, r2, r3
  <1>6. a \in 0 .. ByteValues - 1 /\ b \in 0 .. ByteValues - 1 /\ c \in 0 .. ByteValues - 1
        /\ d \in 0 .. ByteValues - 1
    BY DEF Byte
  <1>7. w \in Nat /\ w % ByteValues = a /\ w \div ByteValues = v1
    <2>1. (ByteValues * v1 + a) % ByteValues = a /\ (ByteValues * v1 + a) \div ByteValues = v1
      <3>1. v1 \in Int
        BY <1>4
      <3> QED BY <3>1, <1>3, <1>6, LastDigit
    <2>2. ByteValues * v1 \in Nat
      BY <1>3, <1>4
    <2> QED BY <1>1, <1>2, <2>1, <2>2
  <1>8. v1 % ByteValues = b
    <2>1. v2 \in Int
      BY <1>4
    <2>2. (ByteValues * v2 + b) % ByteValues = b
      BY <2>1, <1>3, <1>6, LastDigit
    <2> QED BY <1>4, <2>2
  <1>9. w \div B2 = v2
    <2>1. v2 \in Int
      BY <1>4
    <2>2. (B2 * v2 + r2) \div B2 = v2
      BY <2>1, <1>1, <1>3, LastDigit
    <2> QED BY <1>1, <2>2
  <1>10. v2 % ByteValues = c
    <2>1. d \in Int
      BY <1>2
    <2>2. (ByteValues * d + c) % ByteValues = c
      BY <2>1, <1>3, <1>6, LastDigit
    <2> QED BY <1>5, <2>2
  <1>11. w \div B3 = d /\ d % ByteValues = d
    <2>1. d \in Int
      BY <1>2
    <2>2. (B3 * d + r3) \div B3 = d
      BY <2>1, <1>1, <1>3, LastDigit
    <2>3. d % ByteValues = d
      BY <1>3, <1>6
    <2> QED BY <1>1, <2>2, <2>3
  <1>12. w \div 1 = w
    BY <1>7
  <1> QED BY <1>7, <1>8, <1>9, <1>10, <1>11, <1>12, WeightIs DEF ByteAt, w

\* Masking keeps the bytes that were asked for.
LEMMA MaskedBytes ==
    ASSUME NEW a \in Byte, NEW b \in Byte, NEW c \in Byte, NEW d \in Byte, NEW size \in Size
    PROVE  \A i \in 0 .. BytesOf[size] - 1 :
             ByteAt(Masked(Join(a, b, c, d), size), i) = <<a, b, c, d>>[i + 1]
  <1> DEFINE w == Join(a, b, c, d)
  <1>1. 0 \in Byte
    BY Bytes
  <1>2. /\ Join(a, 0, 0, 0) = a /\ Join(a, b, 0, 0) = a + ByteValues * b
    <2>1. a \in Nat /\ b \in Nat
      BY Bytes DEF Byte
    <2>2. ByteValues * 0 = 0 /\ B2 * 0 = 0 /\ B3 * 0 = 0 /\ ByteValues * b \in Nat
      BY <2>1, Bytes
    <2> QED BY <2>1, <2>2, WeightIs DEF Join
  <1>3. \A x, y, u, v \in Byte :
           /\ ByteAt(Join(x, y, u, v), 0) = x /\ ByteAt(Join(x, y, u, v), 1) = y
           /\ ByteAt(Join(x, y, u, v), 2) = u /\ ByteAt(Join(x, y, u, v), 3) = v
    BY ByteOfJoin
  <1>4. CASE size = "BYTE"
    <2>1. w % ByteValues = a
      <3>1. w = ByteValues * (b + ByteValues * c + B2 * d) + a
        BY JoinSplits
      <3>2. b + ByteValues * c + B2 * d \in Int
        BY Bytes DEF Byte
      <3>3. a \in 0 .. ByteValues - 1 /\ ByteValues \in Nat \ {0}
        BY Bytes DEF Byte
      <3> QED BY <3>1, <3>2, <3>3, LastDigit
    <2>2. Masked(w, size) = Join(a, 0, 0, 0)
      BY <1>2, <1>4, <2>1, WeightIs DEF Masked, BytesOf
    <2>3. BytesOf[size] = 1
      BY <1>4 DEF BytesOf
    <2> QED BY <1>1, <1>3, <2>2, <2>3
  <1>5. CASE size = "SHORT"
    <2>1. w % B2 = a + ByteValues * b
      <3>1. w = B2 * (c + ByteValues * d) + (a + ByteValues * b)
            /\ a + ByteValues * b \in 0 .. B2 - 1
        BY JoinSplits
      <3>2. c + ByteValues * d \in Int
        BY Bytes DEF Byte
      <3>3. B2 \in Nat \ {0}
        BY Bytes
      <3> DEFINE q == c + ByteValues * d
                 r == a + ByteValues * b
      <3>4. q \in Int /\ r \in 0 .. B2 - 1 /\ w = B2 * q + r
        BY <3>1, <3>2
      <3> HIDE DEF q, r, w
      <3>5. (B2 * q + r) % B2 = r
        BY <3>3, <3>4, LastDigit
      <3> QED BY <3>4, <3>5 DEF r
    <2>2. Masked(w, size) = Join(a, b, 0, 0)
      BY <1>2, <1>5, <2>1, WeightIs DEF Masked, BytesOf
    <2>3. BytesOf[size] = 2
      BY <1>5 DEF BytesOf
    <2>4. \A i \in 0 .. 1 : i = 0 \/ i = 1
      OBVIOUS
    <2> QED BY <1>1, <1>3, <2>2, <2>3, <2>4
  <1>6. CASE size \in {"LONG", "EXEC"}
    <2>1. Masked(w, size) = w
      <3>1. w \in 0 .. ByteValues * B3 - 1
        BY JoinSplits
      <3>2. w % (ByteValues * B3) = w
        <4>1. ByteValues * B3 \in Nat \ {0}
          BY Bytes
        <4> HIDE DEF w
        <4> QED BY <3>1, <4>1
      <3> QED BY <1>6, <3>2, WeightIs DEF Masked, BytesOf
    <2>2. BytesOf[size] = 4
      BY <1>6 DEF BytesOf
    <2>3. \A i \in 0 .. 3 : i = 0 \/ i = 1 \/ i = 2 \/ i = 3
      OBVIOUS
    <2> QED BY <1>3, <2>1, <2>2, <2>3
  <1> QED BY <1>4, <1>5, <1>6 DEF Size
------------------------------------------------------------------------------
(***************************************************************************)
(* The memory behind the devices is the plain memory of ByteMemory.  The   *)
(* cell of an address is the byte of the device that answers it: an access *)
(* that stays with one device is one of consecutive bytes of one buffer,   *)
(* because the answered addresses of a device are in its buffer.           *)
(***************************************************************************)
Held(devs, b) ==
    DOMAIN b = Slot /\ \A d \in Slot : b[d] \in [0 .. devs[d].size - 1 -> Byte]

HeapInv == devices = <<>> \/ (Fitted(devices) /\ Held(devices, bufs))

\* The owner of a cell whose address device d answers.
Owner(d) == IF d = 0 THEN "none" ELSE Kinds[d]

LEMMA OwnersDiffer ==
    ASSUME NEW d \in 0 .. 5, NEW e \in 0 .. 5, Owner(d) = Owner(e)
    PROVE  d = e
  <1>1. \A n \in 0 .. 5 : n \in {0, 1, 2, 3, 4, 5}
    OBVIOUS
  <1> QED BY <1>1 DEF Owner, Kinds

LEMMA NoDevices == ASSUME NEW a PROVE DeviceAt(<<>>, a) = 0
  <1>1. Len(<<>>) = 0 /\ 1 .. 0 = {}
    OBVIOUS
  <1> QED BY <1>1 DEF DeviceAt, SelectInSeq

LEMMA CellIs ==
    ASSUME Fitted(devices), Held(devices, bufs), NEW a \in Address
    PROVE  LET d == DeviceAt(devices, a)
           IN  /\ d \in 0 .. 5
               /\ Cells[a].owner = Owner(d)
               /\ d # 0 => /\ d \in Slot /\ devices[d].kind = Owner(d)
                           /\ a - devices[d].start \in 0 .. devices[d].size - 1
                           /\ Cells[a].byte = bufs[d][a - devices[d].start]
  <1> DEFINE d == DeviceAt(devices, a)
  <1>1. d \in 0 .. 5 /\ (d # 0 => Answers(devices, d, a))
    BY DeviceAtIs DEF Fitted
  <1>2. Cells[a] = IF d = 0 THEN [owner |-> "none", byte |-> 0]
                   ELSE [owner |-> devices[d].kind, byte |-> bufs[d][a - devices[d].start]]
    BY DEF Cells
  <1> HIDE DEF d
  <1>3. d # 0 => d \in Slot
    BY <1>1 DEF Slot
  <1>4. d # 0 => devices[d].kind = Kinds[d]
    BY <1>3 DEF Fitted
  <1>5. d # 0 => a - devices[d].start \in 0 .. devices[d].size - 1
    BY <1>1, <1>3, Space DEF Fitted
  <1> QED BY <1>1, <1>2, <1>3, <1>4, <1>5 DEF Owner, d

LEMMA NoCells == ASSUME devices = <<>>, NEW a \in Address PROVE Cells[a].owner = "none"
  BY NoDevices DEF Cells

LEMMA CellsStay == ASSUME devices' = devices, bufs' = bufs PROVE Cells' = Cells
  BY DEF Cells

LEMMA BytesOfSize == ASSUME NEW size \in Size PROVE BytesOf[size] \in {1, 2, 4}
  BY DEF Size, BytesOf

LEMMA SameBytes ==
    ASSUME NEW v, NEW i \in 0 .. 3
    PROVE  Abstract!ByteOf(v, i) = ByteAt(v, i)
  BY AbstractWeight DEF Abstract!ByteOf, ByteAt

\* What a load returns of an access within one device.
LEMMA LoadBytes ==
    ASSUME Fitted(devices), Held(devices, bufs), NEW d \in Slot, NEW i \in Int, NEW size \in Size,
           \A k \in 0 .. BytesOf[size] - 1 : i + k \in 0 .. devices[d].size - 1,
           NEW v \in Words32(d, i)
    PROVE  \A k \in 0 .. BytesOf[size] - 1 : ByteAt(Masked(v, size), k) = bufs[d][i + k]
  <1>1. DOMAIN bufs[d] = 0 .. devices[d].size - 1 /\ \A j \in DOMAIN bufs[d] : bufs[d][j] \in Byte
    BY DEF Held
  <1>2. ASSUME NEW j PROVE Contents(d, j) \subseteq Byte
    BY <1>1, Bytes DEF Contents
  <1>3. PICK b \in Contents(d, i) \X Contents(d, i + 1) \X Contents(d, i + 2) \X Contents(d, i + 3) :
               v = b[1] + Weight[1] * b[2] + Weight[2] * b[3] + Weight[3] * b[4]
    BY DEF Words32
  <1>4. /\ b[1] \in Contents(d, i) /\ b[2] \in Contents(d, i + 1)
        /\ b[3] \in Contents(d, i + 2) /\ b[4] \in Contents(d, i + 3)
    BY <1>3
  <1>5. b[1] \in Byte /\ b[2] \in Byte /\ b[3] \in Byte /\ b[4] \in Byte
    BY <1>2, <1>4
  <1>6. v = Join(b[1], b[2], b[3], b[4])
    BY <1>3 DEF Join
  <1>7. \A k \in 0 .. BytesOf[size] - 1 :
           ByteAt(Masked(v, size), k) = <<b[1], b[2], b[3], b[4]>>[k + 1]
    BY <1>5, <1>6, MaskedBytes
  <1>8. ASSUME NEW k \in 0 .. BytesOf[size] - 1
        PROVE  <<b[1], b[2], b[3], b[4]>>[k + 1] = bufs[d][i + k]
    <2>1. k \in 0 .. 3 /\ i + k \in DOMAIN bufs[d]
      BY <1>1, BytesOfSize
    <2>2. Contents(d, i + k) = {bufs[d][i + k]}
      BY <2>1 DEF Contents
    <2>3. CASE k = 0
      <3>1. i + k = i
        BY <2>3
      <3> QED BY <1>4, <2>2, <2>3, <3>1
    <2>4. CASE k = 1
      BY <1>4, <2>2, <2>4
    <2>5. CASE k = 2
      BY <1>4, <2>2, <2>5
    <2>6. CASE k = 3
      BY <1>4, <2>2, <2>6
    <2> QED BY <2>1, <2>3, <2>4, <2>5, <2>6
  <1> QED BY <1>7, <1>8

LEMMA LoadImplements ==
    ASSUME HeapInv, devices' = devices, NEW l \in Loads, Load(l[1], l[2])
    PROVE  Abstract!Load
  <1> DEFINE a == l[1]
             size == l[2]
             d == DeviceAt(devices, a)
  <1>1. a \in Address /\ size \in Size
    BY MemoryAssumption
  <1>2. PICK v \in IF d = 0 THEN {0} ELSE Words32(d, a - devices[d].start) :
               access' = [op |-> "load", at |-> a, bytes |-> BytesOf[size],
                          value |-> IF d = 0 THEN 0 ELSE Masked(v, size)]
    BY DEF Load
  <1>3. /\ access'.op = "load" /\ access'.at = a /\ access'.bytes = BytesOf[size]
        /\ access'.value = IF d = 0 THEN 0 ELSE Masked(v, size)
    BY <1>2
  <1>4. Cells' = Cells
    BY CellsStay DEF Load
  <1>5. Cells[a].owner = "none" => d = 0
    <2>1. CASE devices = <<>>
      BY <2>1, NoDevices
    <2>2. CASE Fitted(devices) /\ Held(devices, bufs)
      <3>1. d \in 0 .. 5 /\ Cells[a].owner = Owner(d) /\ Owner(0) = "none"
        BY <1>1, <2>2, CellIs DEF Owner
      <3>2. 0 \in 0 .. 5
        OBVIOUS
      <3> QED BY <3>1, <3>2, OwnersDiffer
    <2> QED BY <2>1, <2>2 DEF HeapInv
  <1>6. ASSUME Abstract!Whole(a, BytesOf[size]), NEW k \in 0 .. BytesOf[size] - 1
        PROVE  Abstract!ByteOf(access'.value, k) = Cells[a + k].byte
    <2>1. k \in 0 .. 3 /\ 0 \in 0 .. BytesOf[size] - 1 /\ a + 0 = a
      BY <1>1, BytesOfSize, Space
    <2>2. \A i \in 0 .. BytesOf[size] - 1 :
             a + i \in Address /\ Cells[a + i].owner # "none" /\ Cells[a + i].owner = Cells[a].owner
      BY <1>6 DEF Abstract!Whole
    <2>3. Cells[a].owner # "none"
      BY <2>1, <2>2
    <2>4. Fitted(devices) /\ Held(devices, bufs)
      BY <1>1, <2>3, NoCells DEF HeapInv
    <2>5. /\ d \in 0 .. 5 /\ Cells[a].owner = Owner(d)
          /\ d # 0 => a - devices[d].start \in 0 .. devices[d].size - 1
      BY <1>1, <2>4, CellIs
    <2>6. d # 0 /\ d \in Slot
      BY <2>3, <2>5 DEF Owner, Slot
    <2> DEFINE i == a - devices[d].start
    <2>7. devices[d].start \in Int /\ a \in Int
      BY <1>1, <2>4, <2>6, Space DEF Fitted
    <2>8. ASSUME NEW j \in 0 .. BytesOf[size] - 1
          PROVE  /\ i + j \in 0 .. devices[d].size - 1
                 /\ Cells[a + j].byte = bufs[d][i + j]
      <3> DEFINE e == DeviceAt(devices, a + j)
      <3>1. a + j \in Address /\ Cells[a + j].owner = Owner(d)
        BY <2>2, <2>5
      <3>2. /\ e \in 0 .. 5 /\ Cells[a + j].owner = Owner(e)
            /\ e # 0 => /\ (a + j) - devices[e].start \in 0 .. devices[e].size - 1
                        /\ Cells[a + j].byte = bufs[e][(a + j) - devices[e].start]
        <4>1. \A b \in Address :
                LET f == DeviceAt(devices, b)
                IN  /\ f \in 0 .. 5 /\ Cells[b].owner = Owner(f)
                    /\ f # 0 => /\ b - devices[f].start \in 0 .. devices[f].size - 1
                                /\ Cells[b].byte = bufs[f][b - devices[f].start]
          BY <2>4, CellIs
        <4> QED BY <3>1, <4>1, Zenon
      <3> HIDE DEF d, e
      <3>3. e = d
        BY <2>5, <3>1, <3>2, OwnersDiffer
      <3>4. (a + j) - devices[d].start = i + j
        BY <2>7
      <3> QED BY <2>6, <3>2, <3>3, <3>4
    <2>9. v \in Words32(d, i)
      BY <1>2, <2>6
    <2>10. i \in Int
      BY <2>7
    <2> HIDE DEF d, i
    <2>11. ByteAt(Masked(v, size), k) = bufs[d][i + k]
      BY <1>1, <2>4, <2>6, <2>8, <2>9, <2>10, LoadBytes
    <2>12. Abstract!ByteOf(access'.value, k) = ByteAt(Masked(v, size), k)
      BY <1>3, <2>1, <2>6, SameBytes
    <2> QED BY <2>8, <2>11, <2>12
  <1> QED BY <1>3, <1>4, <1>5, <1>6 DEF Abstract!Load

LEMMA ByteAtType == ASSUME NEW v \in Nat, NEW i \in 0 .. 3 PROVE ByteAt(v, i) \in Byte
  <1>1. Weight[i] \in Nat \ {0}
    <2>1. i = 0 \/ i = 1 \/ i = 2 \/ i = 3
      OBVIOUS
    <2> QED BY <2>1, WeightIs, Bytes
  <1> DEFINE w == Weight[i]
  <1> HIDE DEF w
  <1>2. v \div w \in Nat
    BY <1>1 DEF w
  <1>3. \A n \in Nat : n % ByteValues \in 0 .. ByteValues - 1
    BY Bytes
  <1> QED BY <1>2, <1>3 DEF ByteAt, Byte, w

\* The devices main writes to are those that are memory of the guest.
LEMMA StoreChanges ==
    ASSUME HeapInv, devices' = devices, NEW s \in Stores, Store(s[1], s[2], s[3])
    PROVE  LET d == DeviceAt(devices, s[1])
           IN  \/ /\ bufs' = bufs
                  /\ Owner(d) \in {"rom", "io", "none"} \/ devices = <<>>
               \/ /\ d \in Slot /\ Owner(d) \notin {"rom", "io", "none"}
                  /\ Fitted(devices) /\ Held(devices, bufs)
                  /\ bufs' = [bufs EXCEPT ![d] =
                                Written(d, s[1] - devices[d].start, s[2], s[3])]
  <1> DEFINE d == DeviceAt(devices, s[1])
  <1>1. s[1] \in Address
    BY MemoryAssumption
  <1>2. CASE devices = <<>>
    <2>1. d = 0
      BY <1>2, NoDevices
    <2> QED BY <1>2, <2>1 DEF Store
  <1>3. CASE Fitted(devices) /\ Held(devices, bufs)
    <2>1. /\ d \in 0 .. 5
          /\ d # 0 => d \in Slot /\ devices[d].kind = Owner(d)
      BY <1>1, <1>3, CellIs
    <2>2. CASE d = 0
      BY <2>2 DEF Store, Owner
    <2>3. CASE d # 0
      <3>1. devices[d].kind # "io" /\ Owner(d) # "none"
        <4>1. \A n \in Slot : Kinds[n] # "none"
          BY DEF Slot, Kinds
        <4> QED BY <2>1, <2>3, <4>1 DEF Store, Owner
      <3>2. bufs' = IF devices[d].kind # "rom"
                    THEN [bufs EXCEPT ![d] = Written(d, s[1] - devices[d].start, s[2], s[3])]
                    ELSE bufs
        BY <2>3 DEF Store
      <3> HIDE DEF d
      <3> QED BY <1>3, <2>1, <2>3, <3>1, <3>2 DEF d
    <2> QED BY <2>2, <2>3
  <1> QED BY <1>2, <1>3 DEF HeapInv

LEMMA StoreHeap ==
    ASSUME HeapInv, devices' = devices, NEW s \in Stores, Store(s[1], s[2], s[3])
    PROVE  HeapInv'
  <1> DEFINE d == DeviceAt(devices, s[1])
             w == Written(d, s[1] - devices[d].start, s[2], s[3])
  <1>1. CASE bufs' = bufs
    BY <1>1 DEF HeapInv, Fitted, Held, Answers
  <1>2. CASE /\ d \in Slot /\ Fitted(devices) /\ Held(devices, bufs)
             /\ bufs' = [bufs EXCEPT ![d] = w]
    <2>1. s[1] \in Int /\ s[2] \in Size /\ s[3] \in Nat /\ devices[d].start \in Int
      BY <1>2, MemoryAssumption, Space DEF Fitted
    <2>2. bufs[d] \in [0 .. devices[d].size - 1 -> Byte]
      BY <1>2 DEF Held
    <2>3. w \in [0 .. devices[d].size - 1 -> Byte]
      <3> DEFINE i == s[1] - devices[d].start
      <3>1. i \in Int /\ BytesOf[s[2]] \in {1, 2, 4}
        BY <2>1, BytesOfSize
      <3> HIDE DEF d, i
      <3>2. ASSUME NEW j \in 0 .. devices[d].size - 1, j - i \in 0 .. BytesOf[s[2]] - 1
            PROVE  ByteAt(s[3], j - i) \in Byte
        <4>1. j - i \in 0 .. 3
          BY <3>1, <3>2
        <4> QED BY <2>1, <4>1, ByteAtType
      <3>3. DOMAIN bufs[d] = 0 .. devices[d].size - 1
        BY <2>2
      <3> QED BY <2>2, <3>2, <3>3 DEF Written, i
    <2> HIDE DEF d, w
    <2>4. Held(devices, bufs')
      BY <1>2, <2>3 DEF Held
    <2> QED BY <1>2, <2>4 DEF HeapInv, Fitted, Answers
  <1> QED BY <1>1, <1>2, StoreChanges

LEMMA StoreImplements ==
    ASSUME HeapInv, devices' = devices, NEW s \in Stores, Store(s[1], s[2], s[3])
    PROVE  Abstract!Store
  <1> DEFINE a == s[1]
             n == BytesOf[s[2]]
             d == DeviceAt(devices, a)
             own == {b \in a .. a + n - 1 : b \in Address /\ Cells[b].owner = Cells[a].owner}
             stored(b) == IF b \in own
                          THEN [owner |-> Cells[a].owner, byte |-> Abstract!ByteOf(s[3], b - a)]
                          ELSE Cells[b]
  <1>1. a \in Address /\ s[2] \in Size /\ s[3] \in Nat /\ a \in Int /\ n \in {1, 2, 4}
    BY MemoryAssumption, Space, BytesOfSize
  <1>2. /\ access'.op = "store" /\ access'.at = a /\ access'.bytes = n /\ access'.value = s[3]
    BY DEF Store
  <1>3. CASE /\ bufs' = bufs
             /\ Owner(d) \in {"rom", "io", "none"} \/ devices = <<>>
    <2>1. Cells[a].owner \in {"rom", "io", "none"}
      <3>1. CASE devices = <<>>
        BY <1>1, <3>1, NoCells
      <3>2. CASE devices # <<>>
        <4>1. Cells[a].owner = Owner(d)
          BY <1>1, <3>2, CellIs DEF HeapInv
        <4> QED BY <1>3, <3>2, <4>1
      <3> QED BY <3>1, <3>2
    <2>2. Cells' = Cells
      BY <1>3, CellsStay
    <2> QED BY <1>2, <2>1, <2>2 DEF Abstract!Store
  <1>4. CASE /\ d \in Slot /\ Owner(d) \notin {"rom", "io", "none"}
             /\ Fitted(devices) /\ Held(devices, bufs)
             /\ bufs' = [bufs EXCEPT ![d] = Written(d, a - devices[d].start, s[2], s[3])]
    <2>1. Cells[a].owner = Owner(d) /\ d \in 0 .. 5
      BY <1>1, <1>4, CellIs
    <2>2. Fitted(devices)' /\ Held(devices, bufs)'
      <3>1. HeapInv'
        BY StoreHeap
      <3>2. devices # <<>>
        BY <1>4 DEF Fitted
      <3> QED BY <3>1, <3>2 DEF HeapInv
    <2>3. devices[d].start \in Int /\ d \in DOMAIN bufs
          /\ DOMAIN bufs[d] = 0 .. devices[d].size - 1
      BY <1>4, Space DEF Fitted, Held
    <2>4. ASSUME NEW b \in Address PROVE Cells'[b] = stored(b)
      <3> DEFINE e == DeviceAt(devices, b)
                 j == b - devices[e].start
      <3>1. b \in Int
        BY Space
      <3>2. /\ e \in 0 .. 5 /\ Cells[b].owner = Owner(e)
            /\ e # 0 => /\ e \in Slot /\ devices[e].kind = Owner(e)
                        /\ j \in 0 .. devices[e].size - 1 /\ Cells[b].byte = bufs[e][j]
        BY <1>4, CellIs
      <3>3. Cells[b] = IF e = 0 THEN [owner |-> "none", byte |-> 0]
                       ELSE [owner |-> devices[e].kind, byte |-> bufs[e][j]]
        BY DEF Cells
      <3>4. Cells'[b] = IF e = 0 THEN [owner |-> "none", byte |-> 0]
                        ELSE [owner |-> devices[e].kind, byte |-> bufs'[e][j]]
        BY DEF Cells
      <3>5. CASE e # d
        <4>1. b \notin own
          <5>1. Owner(e) # Owner(d)
            BY <2>1, <3>2, <3>5, OwnersDiffer
          <5> QED BY <2>1, <3>2, <5>1
        <4>2. e # 0 => bufs'[e] = bufs[e]
          <5>1. e # 0 => e \in DOMAIN bufs
            BY <1>4, <3>2 DEF Held
          <5> HIDE DEF e, d
          <5> QED BY <1>4, <3>5, <5>1
        <4> HIDE DEF e, own
        <4> QED BY <3>3, <3>4, <4>1, <4>2
      <3>6. CASE e = d
        <4> DEFINE i == a - devices[d].start
        <4>1. j = b - devices[d].start /\ j \in DOMAIN bufs[d] /\ e # 0
          BY <1>4, <2>3, <3>2, <3>6 DEF Slot
        <4>2. bufs'[d][j] = IF j - i \in 0 .. n - 1 THEN ByteAt(s[3], j - i) ELSE bufs[d][j]
          <5>1. bufs'[d] = Written(d, i, s[2], s[3])
            <6> HIDE DEF d
            <6> QED BY <1>4, <2>3
          <5> HIDE DEF d, i, j
          <5> QED BY <4>1, <5>1 DEF Written
        <4>3. j - i = b - a
          BY <1>1, <2>3, <3>1, <4>1
        <4>4. b \in own <=> b - a \in 0 .. n - 1
          <5>1. b \in a .. a + n - 1 <=> b - a \in 0 .. n - 1
            BY <1>1, <3>1
          <5>2. Cells[b].owner = Cells[a].owner
            BY <2>1, <3>2, <3>6
          <5> HIDE DEF d, e
          <5> QED BY <5>1, <5>2
        <4>5. b - a \in 0 .. n - 1 => Abstract!ByteOf(s[3], b - a) = ByteAt(s[3], b - a)
          <5>1. b - a \in 0 .. n - 1 => b - a \in 0 .. 3
            BY <1>1
          <5> QED BY <5>1, SameBytes
        <4>6. devices[e].kind = Cells[a].owner
          BY <2>1, <3>2, <3>6, <4>1
        <4> HIDE DEF d, e, j, i, own
        <4> QED BY <3>3, <3>4, <3>6, <4>1, <4>2, <4>3, <4>4, <4>5, <4>6
      <3> QED BY <3>5, <3>6
    <2>5. Cells' = [b \in Address |-> stored(b)]
      <3>1. Cells' = [b \in Address |-> Cells'[b]]
        BY DEF Cells
      <3> HIDE DEF stored
      <3> QED BY <2>4, <3>1
    <2>6. Cells[a].owner \notin {"rom", "io"} \cup {"none"}
      BY <1>4, <2>1
    <2> QED BY <1>2, <2>5, <2>6 DEF Abstract!Store
  <1> QED BY <1>3, <1>4, StoreChanges

\* Before there are devices any memory may come.
LEMMA StartImplements ==
    ASSUME BeforeStart, HeapInv, StartBoard
    PROVE  /\ HeapInv'
           /\ Abstract!Attach \/ (Cells' = Cells /\ access' = access)
  <1>1. devices = <<>> /\ access' = access
    BY DEF StartBoard, Start, BeforeStart
  <1>2. CASE StartFails
    <2>1. devices' = devices /\ bufs' = bufs
      BY <1>2 DEF StartBoard, Start
    <2> QED BY <1>1, <2>1, CellsStay DEF HeapInv
  <1>3. CASE ~StartFails
    <2>1. devices' = Attached /\ bufs' = Buffers(devices')
      BY <1>3 DEF StartBoard, Start
    <2>2. Fitted(devices')
      BY <1>3, <2>1, AttachedFitted DEF StartFails
    <2>3. Held(devices', bufs')
      <3> DEFINE devs == devices'
      <3>1. \A i \in DOMAIN RomBytes : RomBytes[i] \in Byte
        BY MemoryAssumption DEF Byte
      <3>2. DOMAIN devs = Slot /\ bufs' = Buffers(devs)
        BY <2>1, <2>2 DEF Fitted
      <3> HIDE DEF devs
      <3>3. DOMAIN Buffers(devs) = Slot
        BY <3>2 DEF Buffers
      <3>4. ASSUME NEW d \in Slot
            PROVE  Buffers(devs)[d] \in [0 .. devs[d].size - 1 -> Byte]
        BY <3>1, <3>2, Bytes DEF Buffers
      <3> QED BY <3>2, <3>3, <3>4 DEF Held, devs
    <2>4. Abstract!Attach
      BY <1>1, NoCells DEF Abstract!Attach
    <2> QED BY <2>2, <2>3, <2>4 DEF HeapInv, Fitted, Answers
  <1> QED BY <1>2, <1>3

\* Every step is one of plain memory or none of its business.
LEMMA BoardSimulates ==
    ASSUME BeforeStart, HeapInv, [BoardNext]_boardVars
    PROVE  /\ HeapInv'
           /\ [Abstract!MemoryNext]_(Abstract!memoryVars)
  <1>1. CASE StartBoard
    BY <1>1, StartImplements DEF Abstract!MemoryNext, Abstract!memoryVars
  <1>2. CASE Cycle
    <2>1. devices' = devices
      BY <1>2 DEF Cycle
    <2>2. CASE \E l \in Loads : Load(l[1], l[2])
      <3>1. PICK l \in Loads : Load(l[1], l[2])
        BY <2>2
      <3>2. Abstract!Load
        BY <2>1, <3>1, LoadImplements
      <3>3. bufs' = bufs
        BY <3>1 DEF Load
      <3> QED BY <2>1, <3>2, <3>3 DEF HeapInv, Abstract!MemoryNext
    <2>3. CASE \E s \in Stores : Store(s[1], s[2], s[3])
      <3>1. PICK s \in Stores : Store(s[1], s[2], s[3])
        BY <2>3
      <3>2. Abstract!Store /\ HeapInv'
        BY <2>1, <3>1, StoreImplements, StoreHeap
      <3> QED BY <3>2 DEF Abstract!MemoryNext
    <2>4. CASE UNCHANGED <<bufs, access, process>>
      BY <2>1, <2>4, CellsStay DEF HeapInv, Abstract!memoryVars
    <2> QED BY <1>2, <2>2, <2>3, <2>4 DEF Cycle
  <1>3. CASE Tick \/ Refresh
    <2>1. devices' = devices /\ bufs' = bufs /\ access' = NoAccess
      BY <1>3 DEF Tick, Refresh, cliVars
    <2>2. Cells' = Cells /\ HeapInv'
      BY <2>1, CellsStay DEF HeapInv
    <2>3. Abstract!Forget
      BY <2>1, <2>2 DEF NoAccess, Abstract!Forget
    <2> QED BY <2>2, <2>3 DEF Abstract!MemoryNext
  <1>4. CASE ~(StartBoard \/ Cycle \/ Tick \/ Refresh)
    <2>1. devices' = devices /\ bufs' = bufs /\ access' = access
      BY <1>4 DEF BoardNext, Emulator, ParseArguments, Parse, ParseSwitch, ParseSetting,
         ParseSettingAtEnd, ParseInput, ParseEnd, PrintOrDisassemble, PrintText, DisassembleInput,
         Poll, PollEnd, GuestExit, UserEvent, boardVars, cliVars, memVars
    <2> QED BY <2>1, CellsStay DEF HeapInv, Abstract!memoryVars
  <1> QED BY <1>1, <1>2, <1>3, <1>4

\* The devices of the physical bus are plain memory to the guest, for every
\* width of a byte, size of the address space, command line and access: what a
\* load returns is what was last stored there, whatever overlaps and hides
\* what, as long as the access stays with one device.
THEOREM MemoryIsPlain == BoardSpec => ImplementsByteMemory
  <1>1. BoardInit => HeapInv /\ Abstract!MemoryInit
    <2> SUFFICES ASSUME BoardInit PROVE HeapInv /\ Abstract!MemoryInit
      OBVIOUS
    <2>1. devices = <<>> /\ access = NoAccess
      BY DEF BoardInit, CliInit, MemInit
    <2>2. Cells = [a \in Address |-> [owner |-> "none", byte |-> 0]]
      BY <2>1, NoDevices DEF Cells
    <2> QED BY <2>1, <2>2 DEF HeapInv, Abstract!MemoryInit, NoAccess
  <1>2. ClockInv => BeforeStart
    BY DEF ClockInv
  <1>3. BeforeStart /\ HeapInv /\ [BoardNext]_boardVars
          => HeapInv' /\ [Abstract!MemoryNext]_(Abstract!memoryVars)
    BY BoardSimulates
  <1> QED BY <1>1, <1>2, <1>3, ClockAlways, PTL
          DEF BoardSpec, ImplementsByteMemory, Abstract!MemorySpec
=============================================================================
