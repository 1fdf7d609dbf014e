SPECIFICATION LiveSpec
CONSTANTS
    FlashSize = 20
    Sector = 4
    Half = 4
    Erased = 3
    Byte <- MCByte
    BitAnd <- MCAnd
    OtaBase = 4
    Unit = 2
    BufSize = 4
    MaxBin = 8
    Hdr = 2
    Word = 64
    Sum <- MCSum
    NullBlock <- MCNullBlock
    Old = 0
    Files <- MCFiles
    MaxPacket = 4
    MaxStarts = 2
    MaxCrashes = 1
    NoProc = NoProc
    NoBuf = NoBuf
    NoImage = NoImage
INVARIANTS
    TypeOK
    BootableOnlyIfVerified
    StagedInPlace
PROPERTIES
    InstalledIsServed
    OnlySlotChanges
    ImplementsSlot
    WholeDownloadEnds
