\* namestr0 of heap_std.h, 92 bytes, at an address off the alignment: 80 usable bytes.
CONSTANTS
    Tasks = {t1}
    Reader = t1
    xStart = 4
    ucHeap = 18
    configTOTAL_HEAP_SIZE = 92
    SizeMod = 256
    Requests = {0, 1, 4, 13, 20, 127, 128, 255}
    MaxAllocs = 4
SPECIFICATION InfoFairSpec
INVARIANTS
    ChunksSafe FreeListSound AllFreedIsOneBlock ReportExact
PROPERTIES
    FailsOnlyWhenNothingFits TakesFirstFit CallsReturn
