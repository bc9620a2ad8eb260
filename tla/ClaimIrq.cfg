SPECIFICATION SpecBios
CONSTANTS
    Bits = {0, 2, 4, 5}
    Sent <- MCSent
    AddressSpace = 32768
    RamBase = 16384
    RamSizes <- MCRamSizes
INVARIANTS KeyboardIrqRecognised
