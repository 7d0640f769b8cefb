CONSTANTS
    TopCluster = 6
    ClusterStart <- MCClusterStart
    Draw <- MCDraw
    PageBytes = 2
    Entries = 8
    Levels = 2
    LinearBits = 7
    PhysicalBits = 7
    RootBytes = 4
    RootAlign = 2
    HypRootBytes = 16
    HypRootAlign = 16
    RootLinearBits = 7
    ResetPc = 32
    IoAddr = 4
    SectionPages <- MCSectionPages
    Tests <- MCTests
SPECIFICATION Spec
INVARIANTS TypeOK GrantsDisjoint SectionsAreContiguous TranslationCorrect TableFramesPrivate NonLeafEntryIsPrivate TwoStageComplete
PROPERTY GrantsAvoidReserved
