SPECIFICATION FairSpec
CONSTANTS
    Programs = {"any", "core-dump", "nvram-write", "nvram-dump", "sample-patch"}
    SeqMod = 4
    DataLen = 3
    Disk <- MCDisk
    MaxLosses = 2
    MaxBoots = 2
    AnyCalls <- MCAnyCalls
    AnyReads = {2, 4}
    MaxSends = 5
    Memories <- MCMemories
    MAX_SEGMENTS = 3
    EhdrLen = 2
    PhdrLen = 2
    PageSize = 4
    Pages = 2
    BlockSize = 2
    SampleData <- MCSampleData
    MaxFaults = 1
INVARIANTS StaleOnlyAfterWrap ActsLikeLocalFile CoreIsMemory FlashIsFile
PROPERTIES NoGap ReadAnswered
CHECK_DEADLOCK FALSE
