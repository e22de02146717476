CONSTANTS
    NUM_TERMINALS = 3
    MaxDepth = 2
SPECIFICATION FairSpec
INVARIANTS
    NothingInService
    TickFindsShell
PROPERTIES
    RequestsServed
    RtcNeverSilent
