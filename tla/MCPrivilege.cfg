SPECIFICATION Spec
CONSTANTS
    W = 16
    NEntries = 1
    Builds = {"plain", "optimised"}
    Clobbered = {0}
    Devices <- MCDevices
    IoDevice = 1
    Data = {0, 8}
    Writable = {"cr1", "ctrl", "msel", "map", "xcause"}
    CtrlValues <- MCCtrlValues
    CtrlLevels = {0}
    MselValues = {0, 1}
    MapsWritten = {1}
    AttrValues <- MCAttrValues
INVARIANTS TypeOK MmuFollowsPrivilege MapFollowsPrivilege
PROPERTIES GrantedByMap
CHECK_DEADLOCK FALSE
