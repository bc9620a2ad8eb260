------------------------------- MODULE MCAta -------------------------------
EXTENDS Ata

MCUninitialised == {[status |-> 236, pending |-> 0, writing |-> TRUE],
                    [status |-> 16, pending |-> 11, writing |-> FALSE]}

MCAttachments == {<<"primary", 0>>, <<"primary", 1>>}

\* Every register in reach, or the command register out of it again.
MCPortLists == {{496, 502, 503, 886}, {368, 496, 886, 1014}}
=============================================================================
