SPECIFICATION SpecCall
CONSTANTS
    MaxNesting = 3
    NestAtZero = FALSE
    W = 16
    NEntries = 1
    Builds = {"plain"}
    Clobbered = {}
    Devices <- MCDevices
    IoDevice = 1
    Data = {0, 8}
    Writable = {"ctrl"}
    CtrlValues <- MCCtrlValues
    CtrlLevels = {0}
    MselValues = {}
    MapsWritten = {}
    AttrValues = {}
PROPERTIES MapRestoredOnSysret
CHECK_DEADLOCK FALSE
