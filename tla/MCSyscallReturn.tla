-------------------------- MODULE MCSyscallReturn --------------------------
EXTENDS SyscallReturn

MCDevices == <<[start |-> 0, end |-> 16]>>
MCCtrlValues == {{"REMAP_ON_PLT"}}
=============================================================================
