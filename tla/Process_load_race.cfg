CONSTANTS
    NUM_TERMINALS = 1
    MAX_NUM_PROCESSES = 2
    PreemptPoints <- ClaimAtomic
    Programs = {"execute", "halt"}
    NULL = NULL
SPECIFICATION Spec
INVARIANTS
    ImagesIntact
