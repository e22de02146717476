CONSTANTS
    NUM_TERMINALS = 3
    MAX_NUM_PROCESSES = 4
    PreemptPoints = {"ex_iret"}
    Programs = {"execute", "halt", "read"}
    NULL = NULL
    Cached = {31, 32}
SPECIFICATION PagingFairSpec
INVARIANTS
    MappingsCurrent
    
PROPERTIES
    VidRepaired
    RoundRobin
