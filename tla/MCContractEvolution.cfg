\* Twenty-three models and eight tables at eight versions; releases of any number.
SPECIFICATION EvolutionSpec
CONSTANTS
    str = str
    int = int
    Status = Status
    Color = Color
    a = a
    b = b
    NoEnum = NoEnum
    NoDoc = NoDoc
    Null = Null
    ScalarTypeNames <- MCScalarTypeNames
    EnumValues <- MCEnumValues
    Types = {"string", "integer", "varchar"}
    Literals = {a, b}
    Models <- MCModels
    Tables <- MCTables
    Versions <- MCVersions
INVARIANTS
    NoLaundering
    WritersKeepWorking
    ReadersKeepWorking
    TablesSurviveReleases
    ReorderedAsCoded
