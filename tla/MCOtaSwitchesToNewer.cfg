\* Two updates with one check between them.
CONSTANTS
    FLASH_TOTAL_SIZE = 32
    FLASH_PAGE_SIZE = 8
    WORD_SIZE = 2
    HEADER_SIZE = 6
    APP_SLOT_A_ADDRESS = 8
    APP_SLOT_B_ADDRESS = 16
    UINT = 64
    MAX_CHUNK = 4
    TotalSizes = {0, 6, 10, 17}
    ChunkSizes = {0, 2, 4, 5}
    DataSizes = {0, 2, 3, 4, 5}
    ChunkNumbers = {0, 1, 2, 3, 4}
    factory = factory
    update = update
    Erased = Erased
    Pad = Pad
    Images <- MCImages
    FieldOffsets <- MCFieldOffsets
    TornNumber <- MCTornNumber
    Meta <- RepairedMeta
    FactoryA = factory
    FactoryB = update
SPECIFICATION Spec
PROPERTY SwitchesToNewer
