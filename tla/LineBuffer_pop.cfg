CONSTANTS
    NUM_TERMINALS = 1
    BUFF_SIZE = 4
    Chars = {"a", "b"}
    NUL = NUL
    NL = NL
    ReadSizes = {4}
    TypeAhead = {0}
    MAX_ENTERS = 2
    NULL = NULL
SPECIFICATION Spec
PROPERTIES
    PopsOneLine
