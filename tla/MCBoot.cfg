CONSTANTS
    Sectors = 4
    Words = 3
    TagSizes = {0, 8, 9, 15, 16, 56, 120, 121, 127}
    TotalSizes = {8, 32, 127}
    Wrap = 128
    TagReach = 64
    Elf <- MCElf
    UserHeap = 5
    FileReach = 12
    Archive <- MCArchive
    Formats <- MCFormats
    Slots = 2
SPECIFICATION BootSpec
INVARIANTS BootOK SectorOrReported RegionsGuarded TssSurvives TagsInStep EntryIsEntry
PROPERTY BootEnds
\* The boot is over, or a loop waits for ever.
CHECK_DEADLOCK FALSE
