SPECIFICATION MachineSpec
CONSTANTS
    W = 16
    NEntries = 1
    WordBits = 4
    HalfBits = 3
    ByteBits = 2
    ExitCode = 2
    Builds = {"plain"}
    Clobbered = {}
    Devices <- MCDevices
    Data <- Word
    IoDevice = 0
    Writable = {"cr1", "xcause", "xhaddr", "xpc"}
    CtrlValues = {}
    CtrlLevels = {}
    MselValues = {}
    MapsWritten = {}
    AttrValues = {}
    Boots <- MCBoots
INVARIANTS ShiftIsFloorDivision RotationsLoseNothing LinkLeadsByPipeline
PROPERTIES ImplementsCore
CHECK_DEADLOCK FALSE
