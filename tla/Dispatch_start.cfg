CONSTANTS
    NUM_TERMINALS = 2
    MAX_NUM_PROCESSES = 2
    PreemptPoints <- ClaimAtomic
    Programs = {"read"}
    NULL = NULL
SPECIFICATION DSpec
INVARIANTS
    ResumesOwnThread
