CONSTANTS
    NUM_TERMINALS = 3
    MAX_NUM_PROCESSES = 5
    PreemptPoints <- LoadAtomic
    Programs = {"execute", "halt", "read"}
    NULL = NULL
SPECIFICATION Spec
INVARIANTS
    
    HaltReturnsToCaller
    LeafIsRunning
    ActiveIffHeld
    OwnAddressSpace
    ImagesIntact
