SPECIFICATION Spec
CONSTANTS
    Lists = {1, 2}
    Items = {1, 2}
    Blank = 1
    MaxNodes = 4
    Vectors = {1, 2}
    Elems = {"a", "b"}
    Default = "a"
    MaxCells = 4
    StdVectors = {1, 2}
    StdElems = {"a", "b"}
    StdDefault = "a"
    MaxSlots = 5
    Docs = {"x", "y"}
    ScalarTypes = {"int"}
    Keys = {"a", "b"}
    MaxBlocks = 3
    Roots = {"x", "y"}
    Names = {"n"}
    MaxXml = 3
    MaxChildren = 2
    SectionNames <- MCSections
    KeyNames <- MCKeyNames
    Texts <- MCTexts
    Number <- MCNumber
    MaxEntries = 3
    Levels = {0, 1, 2}
    SizeLimits = {0, 3}
    Prefix = 1
    Message = 1
    MaxLog = 4
    MaxTime = 2
INVARIANTS
    ListMatches
    VectorMatches
    LifetimesSound
    JsonOwnership
    DocumentsSound
    LogKept
CHECK_DEADLOCK FALSE
