SPECIFICATION Spec
CONSTANTS
    W = 16
    NEntries = 1
    Builds = {"plain"}
    Clobbered = {}
    Devices <- MCDevices
    IoDevice = 0
    Data = {0, 4, 8, 12}
    Writable = {"xhaddr", "xpc"}
    CtrlValues = {}
    CtrlLevels = {}
    MselValues = {}
    MapsWritten = {}
    AttrValues = {}
PROPERTIES ImplementsOrder StuckForever
CHECK_DEADLOCK FALSE
