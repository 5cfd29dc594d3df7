CONSTANTS
    Textures = {t1, t2}
    Tiles = {a}
    Root = root
    NoKey = NoKey
    Layers = 2
    MaxLoads = 3
    BinWidth = 4
    BinHeight = 3
    CacheKeys = {1, 2, 3, 4}
    CacheMax = 3
    NoNode = 0
    MaxZoom = 4
    MaxReads = 2
    MaxDrift = 12
    Pin = 5
    Outputs = {0, 1, 2}
    Images = {"fit", "unfit"}
    Unfit = {"unfit"}
    Programs = {"p", "q"}
    Program = "p"
    DrawBuffers = 2
    NoImage = "none"
    FileSize = 7
    PageSize = 3
    Skips = {1, 2, 3, 4}
    RowWidth = 5
    RowCount = 2
    Chunks = {1, 3}
    Texts <- TextPairs
    Widths = {4, 8}
    Glyph = 3
    Lowest = 90
    PagesWide = 3
    PagesHigh = 5
    MaxUnits = 2
SPECIFICATION UiSpec
INVARIANTS IndexesAgree ShownRight PendingCounted
    PlacesRight ViewerDraws LayoutSound PagesRight GraphicsRight
PROPERTIES LockedStays LoadsLand UiProgresses
CHECK_DEADLOCK FALSE
