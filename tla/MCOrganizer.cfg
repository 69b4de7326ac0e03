SPECIFICATION Spec
CONSTANTS
    MocRequests = {"q1", "q2"}
    Versions = {"v1", "v2"}
    VersionNames = {"A", "B"}
    PartForms <- MCPartForms
    VanishedStock = {"gone"}
    NoStock = "none"
    NoVersion = NoVersion
    NoValue = NoValue
    MaxParts = 3
    WishRequests = {"q1", "q2"}
    Wishes = {"w1", "w2"}
    Purchases = {"s1", "s2"}
    References = {"1", "2"}
    NumberOf <- MCNumberOf
    Unknown = "unknown"
    NoWish = "none"
    PostedStatuses = {"wish"}
    LabelTypes = {"full", "collected", "missing_parts", "per_minifigure", "minifigure", "colors"}
    SetOrder <- MCSetOrder
    FiguresOf <- MCFiguresOf
    ShortPartsOf <- MCShortPartsOf
    CapacityOf <- MCCapacityOf
    ChunkSize = 3
    CutColumns = 2
    CheckedCount = 3
    Queries = {"", "x"}
    Matching <- MCMatching
    FirstPlaces = {1, 2}
    NoQuestion = NoQuestion
    ImportRequests = {"q1", "q2"}
    Shortages <- MCShortages
    PartRows = {"p1", "p2"}
    BrickOf <- MCBrickOf
    CsvFiles <- MCCsvFiles
    FirstShortfall <- MCFirstShortfall
    Shortfalls <- MCShortfalls
    MaxImports = 2
    OrderNumbers = {"n"}
    NoOrderNumber = ""
    Suppliers = {"S"}
    NoSupplier = ""
    Source = "generic"
    NoImport = NoImport
INVARIANTS SelectionKept SheetsComplete ImportedOrdersCover
PROPERTIES ActivationRestores WishesHonoured
CONSTRAINT Bounds
CHECK_DEADLOCK FALSE
