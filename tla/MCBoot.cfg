SPECIFICATION FairBoot
CONSTANTS
    CELL_BITS = 3
    PAGE_SIZE = 8
    KiB = 2
    Word = 64
    Sizes = {8, 12, 31, 32}
    Image <- MCImage
    HeaderCells = 3
    HeapPages = 1
    ENTRIES = 6
    DirEntries = 2
    FirstPage = 2
    Pins = 3
    ATA_IRQ0 = 3
    ATA_IRQ1 = 4
    Others = {3}
    Buses = 2
    Slots = 2
    Funcs = 2
    TableSize = 3
    Machines <- MCMachines
    Calendars <- MCCalendars
    Window = 6
    TestPages = {11, 12}
    Ids = 1
    INT_MAX = 2047
    HexDigits = 3
    FormatSize = 4
CHECK_DEADLOCK FALSE
INVARIANTS NoPageTwice CountExact CodeIntact MapRight PciExact TimeExact NoLineStuck NoStrayInterrupt PrintsRight
PROPERTIES KeyServed
