CONSTANTS
    Null = Null
    Parts <- MCParts
    LabelLists <- MCPlainLabels
    Vals <- MCVals
    Commands <- MCCommands
    Drops <- MCDrops
    Documents <- MCDocuments
    MaxNodes = 2
    MaxEdges = 0
    MaxDefs = 1
    MaxStatements = 2
    MaxImports = 0
    Exact = 4
SPECIFICATION Spec
INVARIANT ExportImportable
CHECK_DEADLOCK FALSE
