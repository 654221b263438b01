\* The second header is longer than a field of the table and is stored cut.
SPECIFICATION Spec
CONSTANTS
    Header <- LongHeaders
    Slots = 3
    FieldMax = 40
    TableMax = 150
INVARIANT SizeIsExact
CHECK_DEADLOCK FALSE
