SPECIFICATION Spec
CONSTANTS
    SectorSize = 8
    SizeValues = 16
    Uninitialised <- MCUninitialised
    Attachments <- MCAttachments
    PortLists <- MCPortLists
    Sent = {0, 236, 240}
INVARIANTS TypeOK SectorNotOverrun IdentifyTakesChance
CHECK_DEADLOCK FALSE
