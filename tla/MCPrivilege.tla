---------------------------- MODULE MCPrivilege ----------------------------
EXTENDS Cpu

MCDevices == <<[start |-> 0, end |-> 12]>>
Armed == {"ENABLE_ON_TPL1", "DISABLE_ON_TPL0"}
MCCtrlValues == {Armed, Armed \cup {"REMAP_ON_PLT", "RWALIGN_EXC"},
                 {"ENABLE_ON_TPL1"}, {}}
MCAttrValues == {{"READ"}, {"READ", "EXEC"}}
=============================================================================
