CONSTANTS
    NUM_TERMINALS = 2
    Frequencies = {1024, 2048}
    CELLS = 3
    Locations = {1, 3, 4}
    FrameLocations = {1, 3, 4}
    FRAME_LENGTH = 2
    SOURCE = 1
    IM = 3
    IM_ON = 3
    IM_OFF = 1
    FISH_FREQ = 32
    WAIT = 3
SPECIFICATION FSpec
INVARIANTS
    RunsAsAsked
    BlinksSound
    ShownAsStatus
PROPERTIES
    PacedByInterrupts
    KeepsList
    
