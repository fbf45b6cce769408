CONSTANTS
    Size <- MCSize
    BSize = 2
    PNBuf = 2
    MaxAsks = 5
    FilmAsks = 7
SPECIFICATION MCSpec
INVARIANTS Seamless
PROPERTIES AsksReturn FilmYields
CHECK_DEADLOCK FALSE
