CONSTANTS
    NUM_TERMINALS = 2
    NUM_ROWS = 2
    NUM_COLS = 2
    BUFF_SIZE = 2
    Chars = {"a"}
    NEWLINE = "NL"
    BLANK = " "
    MaxWrite = 2
SPECIFICATION Spec
CHECK_DEADLOCK FALSE
INVARIANTS
    TypeOK
    
    
PROPERTIES
    KeepsPages
