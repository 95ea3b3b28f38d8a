\* The program may be left with no step at all: a thread that waits for ever,
\* when it has been stopped MaxStops times.
SPECIFICATION Spec
CHECK_DEADLOCK FALSE
CONSTANTS
    Hash = {h1}
    Place = {p1}
    PieceCount = 2
    PieceSize = 2
    FileSize = 3
    PageBits = 4
    Small = {0, 1}
    Object = {o1, o2}
    NoObject = NoObject
    MaxTotal = 5
    MaxStops = 2
SYMMETRY AnyObject
INVARIANTS
    ClaimedIsWritten
    BitmapSurvives
    StoredIsWritten
    CompleteIsFlushed
PROPERTIES
    NothingForgotten
