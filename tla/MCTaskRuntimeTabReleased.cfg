SPECIFICATION Spec
CONSTANTS
    NumCandidates = 2
    MaxEvents = 3
    BufferLimit = 2
    Grok <- MCGrokFirst
INVARIANTS
    TabReleased
CHECK_DEADLOCK FALSE
