\* One generator and one item of each kind: constructors, setHeader, addRow,
\* addImage, clearImage, and a text item, and two doWrite calls, which may fail part way.
CONSTANTS
    Cells = {"a"}
    Empty = Empty
    Tables <- MCTables
    Images <- MCImages
    Normals = {"n1"}
    ColsArgs = {2}
    Widths <- MCWidths
    MaxLen = 1
    MaxRows = 2
    MaxImages = 1
    MaxElements = 2
    MaxWrites = 2
SPECIFICATION Spec
\* The destructor ends the generator; the items stay at their bounds.
CHECK_DEADLOCK FALSE
INVARIANTS
    TypeOK
    RowsAsGiven
    TailOnlyOnWholeReport
