SPECIFICATION PagesSpec
CONSTANTS
    NoName = ""
    Typed = {"id"}
    NewName <- New
    ColumnTypes = {"uuid", "text", "boolean", "list"}
    CollectionTypes = {"list"}
    SubTypes = {"text", "int"}
    TextType = "text"
    BooleanType = "boolean"
    DefaultColumns <- TwoColumns
    OldTable = {"id", "at"}
    MaxEdits = 4
    DCs = {"dc1", "dc2"}
    NoDC = ""
    DefaultDC = "dc1"
    Factors = {0, 1, 3}
    MaxChanges = 3
    NumSectors = 2
    MaxRows = 5
    RunSize = 3
    GCGrace = 3
    ShadowTurns = 2
    MaxChain = 50
    Thresholds = 3
    PowerupCap = 3
    MaxDrops = 5
    MaxTimers = 1
INVARIANTS
    PagesTypeOK
    FlagsAgree
    StatementsFollowForms
    ExecutedAsConfirmed
    RunsAreAttended
    VictimBeneath
CHECK_DEADLOCK FALSE
