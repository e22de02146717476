CONSTANTS
    NUM_TERMINALS = 2
    BUFF_SIZE = 3
    Chars = {"low", "high"}
    NUL = NUL
    NL = NL
    ReadSizes = {3}
    TypeAhead = {1}
    MAX_ENTERS = 1
    NULL = NULL
    TypedKeys = {"l", "d", "b"}
    Modifiers = {"LSHIFT", "RSHIFT", "LALT", "RCTRL"}
    MAX_HELD = 2
SPECIFICATION KSpec
VIEW Live
INVARIANTS
    TypeOK
    FlagsFollowKeys
    EntersAreNewlines
PROPERTIES
    TypedAsHeld
    Isolation
    KeepsPromise
CHECK_DEADLOCK FALSE
