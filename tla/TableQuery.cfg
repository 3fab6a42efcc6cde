\* Every combination of the filters, options and bodies of MCTableQuery.
CONSTANTS
    Columns <- MCColumns
    DataType <- MCDataType
    TakesText = {"tag"}
    PrimaryKey = {"id"}
    Number <- MCNumber
    Decimal <- MCDecimal
    I64Max = 7
    LimitMax = 3
    Refused <- MCRefused
    Users <- MCUsers
    Filters <- MCFilters
    Options <- MCOptions
    UpdateBodies <- MCUpdateBodies
    InsertBodies <- MCInsertBodies
SPECIFICATION Spec
\* A request ends with its answer.
CHECK_DEADLOCK FALSE
INVARIANTS
    TypeOK
    Numbered
    AsAsked
    OwnerKept
    MistypedRefused
