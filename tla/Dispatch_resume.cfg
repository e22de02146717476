CONSTANTS
    NUM_TERMINALS = 2
    MAX_NUM_PROCESSES = 3
    PreemptPoints <- OnePerDepth
    Programs = {"execute", "halt", "read"}
    NULL = NULL
SPECIFICATION DSpec
PROPERTIES
    SafeOnceStarted
CHECK_DEADLOCK FALSE
