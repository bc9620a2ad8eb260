------------------------------- MODULE MCMmu -------------------------------
EXTENDS Cpu

MCDevices == <<[start |-> 0, end |-> 12]>>
Armed == {"ENABLE_ON_TPL1", "DISABLE_ON_TPL0"}
MCCtrlValues == {Armed}
MCAttrValues == {{"READ", "EXEC"}}
=============================================================================
