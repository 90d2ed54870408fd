SPECIFICATION Spec
CONSTANTS
    L1Entries = 7
    L2Entries = 2
    KernelIdx = 2
    Proc = {1, 2}
    L2Id = {11, 12, 13, 14, 15, 16}
    Frame = {4, 5, 6, 7}
    Val = {1, 2}
    Identity = {0}
    KernelSects = 1
    RamSect = 1
    UserBase = 1
    Stack = {3}
    ImageFrame = 2
    ImagePages = 1
    RamdevPage = 7
    RamdevFrame = 9
    RamdevPages = 4
    Fixmap = 12
VIEW StateView
INVARIANTS
    TablesAccounted
    TlbCoherent
    SmallPagesOnly
PROPERTY PrivateToEach
