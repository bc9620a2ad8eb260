------------------------------ MODULE MCBoard ------------------------------
EXTENDS Board

N(d, l) == [negative |-> FALSE, digits |-> d, last |-> l, behind |-> <<>>]
Minus(d, l) == [N(d, l) EXCEPT !.negative = TRUE]

MCNumberOf ==
    ("0x20" :> [N(<<0>>, "x") EXCEPT !.behind = <<2, 0>>])
    @@ ("2x2" :> [N(<<2>>, "x") EXCEPT !.behind = <<2>>]) @@ ("2x" :> N(<<2>>, "x"))
    @@ ("16" :> N(<<1, 6>>, "")) @@ ("8" :> N(<<8>>, "")) @@ ("6" :> N(<<6>>, ""))
    @@ ("50" :> N(<<5, 0>>, "")) @@ ("1K" :> N(<<1>>, "K")) @@ ("1g" :> N(<<1>>, "g"))
    @@ ("2G" :> N(<<2>>, "G")) @@ ("3G" :> N(<<3>>, "G")) @@ ("4G" :> N(<<4>>, "G"))
    @@ ("9K" :> N(<<9>>, "K")) @@ ("1M" :> N(<<1>>, "M")) @@ ("-8" :> Minus(<<8>>, ""))
    @@ ("-17" :> Minus(<<1, 7>>, "")) @@ ("-1K" :> Minus(<<1>>, "K"))

MCUnit == [K |-> 2, M |-> 4, G |-> 8, k |-> 1, m |-> 3, g |-> 6]

\* Command lines that print, disassemble or crash, and that run: the RAM of
\* every size, hidden, over the other devices and past the top, a BIOS that is
\* not there, negative numbers, fast and slow clocks.
MCCommandLines ==
    {<<"--version">>, <<"-v">>, <<"-v ">>, <<"--help", "-d ">>, <<"-H">>, <<"-d">>,
     <<"--disassemble", "a.elf">>, <<"-d ", "-i", "a.elf", "b.elf">>, <<"--stdin">>,
     <<"-M">>, <<"-b", "--version">>, <<"-M", "all">>, <<"--memory-base", "16">>,
     <<"-Ws", "big">>, <<"-s", "fast">>, <<"-Vf", "none.bin">>, <<"--memory-base", "-i">>,
     <<"-Vs", "2x">>, <<"--memory-base", "-17">>, <<"-M", "-1K">>,
     <<"--memory-base", "-8", "-M", "1M">>,
     <<"-Vs", "2x2", "-Ws", "8", "-t ", "-Wf", "-M", "4G">>,
     <<>>, <<"-M", "8">>, <<"-M", "50", "-s", "1K">>, <<"-M", "1g">>, <<"-M", "2G">>,
     <<"-M", "1M", "--memory-base", "0x20">>, <<"--memory-base", "6", "-M", "1M">>,
     <<"-b", "none.bin", "-s", "9K">>, <<"-M", "9K", "-M", "1K", "-M", "3G">>}

MCBiosRam == [start |-> 4, end |-> 6]
MCIo == [start |-> 6, end |-> 8]
MCVga == [start |-> 8, end |-> 16]

MCRomBytes == [i \in 0 .. 3 |-> i + 4]
MCCpuRatio == ("9K" :> 9) @@ ("1K" :> 5) @@ [s \in DOMAIN MCNumberOf |-> 3]

\* Nothing, not a number, and where a float's steps are two cycles: one that
\* comes up through all below 0 and one that stays.
MCGarbage == {0, 32, -10, -14}

MCLoads == {<<3, "BYTE">>, <<10, "SHORT">>, <<18, "SHORT">>, <<30, "LONG">>}
MCStores == {<<10, "LONG", 1229>>, <<17, "SHORT", 83>>}

\* Characters 0 to 7 of two rows of two columns.
MCFont == [r \in 0 .. 15 |-> {c \in {0, 1} : (r \div 2 ^ c) % 2 = 1}]
=============================================================================
