SPECIFICATION Spec
CONSTANTS
    NumCandidates = 2
    MaxEvents = 3
    BufferLimit = 2
    Grok <- MCGrokFirst
INVARIANTS
    ErrorContains
CHECK_DEADLOCK FALSE
