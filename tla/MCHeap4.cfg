CONSTANTS
    ucHeap = 1
    configTOTAL_HEAP_SIZE = 57
    Alignment = 2
    xHeapStructSize = 4
    SizeMax = 65535
    Sizes = {0, 1, 6, 12, 40000, 65535}
    Arrays <- SomeArrays
SPECIFICATION HeapSpec
INVARIANTS BlocksTileHeap FreeBlocksMerged
