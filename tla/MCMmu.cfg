SPECIFICATION Spec
CONSTANTS
    W = 16
    NEntries = 2
    Builds = {"plain"}
    Clobbered = {1}
    Devices <- MCDevices
    IoDevice = 0
    Data = {0, 8}
    Writable = {"ctrl", "map"}
    CtrlValues <- MCCtrlValues
    CtrlLevels = {0}
    MselValues = {}
    MapsWritten = {0}
    AttrValues <- MCAttrValues
PROPERTIES GrantedByMap FailuresConfined
CHECK_DEADLOCK FALSE
