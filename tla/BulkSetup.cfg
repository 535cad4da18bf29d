SPECIFICATION Spec
CONSTANTS
    Components = {"FileIO"}
    WorkerCount = 3
    PoolSize = 3
    Ranges = {1, 2, 3, 4, 5, 6, 7}
    PoolFailures = 1
    MaxApp = 1
    PendingEntries = 3
    IdMod = 4
    Contexts = {0, 1}
    Deadlines = {0, 5, 7}
    MaxAllocs = 6
    MAX_THREADS = 3
    GenMod = 4
    MaxCreates = 2
    ThreadFailures = 1
    Overlap = FALSE
    Forkers = {0}
    ElfSpans = {0, 1, 1990656, 1994752, 6184960, 6188000, 14680064, 16777216}
    RtldSpans = {0, 4096, 200000}
    LibPages = {0, 1, 900, 3500}
    InitrdSizes = {0, 1, 5000}
    CodeSlides = {0, 1, 255}
    StackSlides = {0, 1, 63}
    CnodeBits = {6, 9, 10, 11, 12, 16, 63}
    FrameFloors = {0, 64, 100, 1010, 5000}
    TlsModules <- MCTlsModules
    MaxObjects = 3
    tcb_size = 312
    tcb_align = 8
    MAX_ELF_TLS_SIZE = 4096
    MainAlign = 64
    PageSize = 4096
    Images <- LoaderImages
    PageWords = 2
    MAX_PAGES = 4
    Moved = 1000
    ImageFailures = 1
    Programs <- LinkedPrograms
    RTLD_MAX_OBJECTS = 4
    frame_slot_base = 4
    alloc_limit = 6
    LinkFailures = 1
    WordSize = 256
    Ordinals = 8
    image_size = 16
    ImportFiles <- PeFiles
    Deltas = {0, 16, 208}
    Names <- HintNames
    Exports <- Kernel32Exports
    ServerRva <- ServerExports
    kernel32_base = 1000
    FileThreads = {"t1", "t2"}
    FileCalls <- MCFileCalls
    BulkChunk = 2
    Threshold = 2
    FileSize = 4
    FileFaults = 2
    Sigs = {1, 2}
    Terminating = {2}
    MaskSets = {{}, {2}}
    MaxDepth = 3
    MaxRaised = 2
    MaxChanged = 1
    MaxInterrupts = 2
    CPIO_HEADER_SIZE = 110
    NameSize <- NameSizes
    FileSizes = {0, 1, 6}
    MaxEntries = 3
    Cuts = {0, 1, 3, 5, 120, 124, 126, 130, 250}
    SystemRoles = {"vfs", "mmsrv"}
    OtherRoles = {"raw"}
    CapSlots = {0, 7, 8, 99}
    MAX_CAP_TABLE_ENTRIES = 2
    SlotMax = 50
    MaxPushes = 3
    DnsThreads = {"t1", "t2"}
    DnsSlots = {5, 6, 7}
    DnsFailures = 2
INVARIANT ReadyIsMapped
CHECK_DEADLOCK FALSE
