\* Two filters on one column.
CONSTANTS
    Columns <- PlainColumns
    DataType <- PlainDataType
    TakesText = {}
    PrimaryKey = {"id"}
    Number <- MCNumber
    Decimal <- MCDecimal
    I64Max = 7
    LimitMax = 3
    Refused <- MCRefused
    Users <- Nobody
    Filters <- RangeFilters
    Options <- PlainOptions
    UpdateBodies = {}
    InsertBodies = {}
SPECIFICATION Spec
\* A request ends with its answer.
CHECK_DEADLOCK FALSE
INVARIANT
    EveryFilterApplies
