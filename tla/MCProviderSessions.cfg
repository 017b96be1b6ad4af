SPECIFICATION FairSpec
CONSTANTS
    codex = codex
    first = first
    second = second
    NoRun = NoRun
    Runs <- MCRuns
    Codex <- MCCodex
    Keys <- MCKeys
    KeyOf <- MCKeyOf
    c1 = c1
    Callers <- MCCallers
    MaxLines = 1
    Casts <- MCCasts
    MaxTrouble = 3
CHECK_DEADLOCK FALSE
INVARIANTS
    TypeOK
    SettledIsQuiet
    VerdictHonest
    AnnouncedAsFiled
    ApprovalAuthorized
    FileFresh
PROPERTIES
    AbortKills
    VerdictIsFiled
    ImplementsExternalRun
    SpeaksAsContracted
