------------------------------- MODULE MCBios -------------------------------
EXTENDS Bios

MCSent == {{0}, {4}, {0, 4, 5}}
\* None; sizes of whole words and not; to the top of the address space, and past it.
MCRamSizes == {0, 2500, 12285, 16384, 20000}
=============================================================================
