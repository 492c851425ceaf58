CONSTANTS
    Null = Null
    Parts <- MCParts
    LabelLists <- MCLabelLists
    Vals <- MCVals
    Commands <- MCCommands
    Drops <- MCDrops
    Documents <- MCDocuments
    MaxNodes = 2
    MaxEdges = 1
    MaxDefs = 2
    MaxStatements = 4
    MaxImports = 2
    Exact = 4
SPECIFICATION Spec
ACTION_CONSTRAINT ExportIsLast
INVARIANTS
    SchemaHolds
    CatalogInStep
    ReplayHarmless
    RoundTrip
CHECK_DEADLOCK FALSE
