\* setHeader after a longer header, and addImage after clearImage.
CONSTANTS
    Cells = {"a"}
    Empty = Empty
    Tables <- MCTables
    Images <- MCImages
    Normals = {}
    ColsArgs = {2}
    Widths <- MCWidths
    MaxLen = 1
    MaxRows = 2
    MaxImages = 2
    MaxElements = 2
    MaxWrites = 1
SPECIFICATION Spec
\* The destructor ends the generator; the items stay at their bounds.
CHECK_DEADLOCK FALSE
INVARIANTS
    RenderedAsGiven
