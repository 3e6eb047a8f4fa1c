CONSTANTS
    Byte = {0, 1}
    Zero = 0
    kCheapPrepend = 2
    InitialSize = 2
    ExtraSize = 3
    MaxChunk = 4
    MaxSize = 5
SPECIFICATION Spec
INVARIANTS TypeOK
PROPERTIES QueueSpec GrowsOnlyWhenFull
