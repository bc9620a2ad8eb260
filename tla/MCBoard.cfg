SPECIFICATION BoardSpec
CONSTANTS
    AddressSpace = 32
    CommandLines <- MCCommandLines
    NumberOf <- MCNumberOf
    Unit <- MCUnit
    Files = {"bios.bin", "IBM_VGA_8x16.bin"}
    RomSize = 4
    BiosRamRange <- MCBiosRam
    IoRange <- MCIo
    VgaRange <- MCVga
    DefaultRamBase = 16
    DefaultRamSize = 4
    ByteValues = 8
    RomBytes <- MCRomBytes
    Loads <- MCLoads
    Stores <- MCStores
    Fraction = 2
    CpuRatio <- MCCpuRatio
    DefaultRatio = 3
    FloatMax = 8
    Garbage <- MCGarbage
    Columns = 2
    Rows = 2
    CharWidth = 2
    CharHeight = 2
    Font <- MCFont
    MaxEvents = 2
INVARIANTS ScreenShowsMemory
PROPERTIES RangesInBuffers DevicesReachable ImplementsByteMemory RefreshPeriod ScreenRefreshed WindowCloses
CHECK_DEADLOCK FALSE
