----------------------------- MODULE MCPipeline -----------------------------
EXTENDS CpuIsa

MCDevices == <<[start |-> 0, end |-> 12]>>
=============================================================================
