SPECIFICATION FairSpec
CONSTANTS
    NumCandidates = 3
    MaxEvents = 4
    BufferLimit = 2
    Grok <- MCGrokSecond
INVARIANTS
    TypeOK
    AtMostOneProvider
    EffectAfterReceipt
    OneTerminalReceipt
    ResultBacked
PROPERTIES
    RunnerReturns
CHECK_DEADLOCK FALSE
