------------------------------ MODULE MCI8042 ------------------------------
EXTENDS I8042

MCSent == {{0}, {4, 5}}
=============================================================================
