CONSTANTS
    MAX_NUM_PROCESSES = 2
    FD_ARRAY_LEN = 4
    FS_BLOCK_SIZE = 2
    MAX_NUM_DENTRIES = 4
    dentries <- Dir
    inodes <- Nodes
    data_blocks <- Blocks
    Names <- Asked
    Counts = {3}
    MaxListed = 4
    WORD = 256
    NULL = NULL
    CATBUF = 4
    NearNames <- Near
SPECIFICATION PSpec
INVARIANTS
    OwnDescriptors
    ReadsInOrder
    
    SyserrPasses
    ShellTells
