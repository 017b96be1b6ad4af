SPECIFICATION Spec
CHECK_DEADLOCK FALSE
CONSTANTS
    Tasks = {t1, t2}
    Tabs = {b1, b2, b3}
    Agents = {a1, a2}
    Reqs = {q1}
    Prompts = {p1}
    NoTask = NoTask
    NoTab = NoTab
    Nobody = Nobody
    Scenes <- MCScenes
    MaxCalls <- MCMaxCalls
SYMMETRY MCSymmetry
INVARIANTS
    TypeOK
    TabsConsistent
    OrphansOnlyByTakeBack
    PromptsClosed
    ActiveContext
    LeaseExclusive
PROPERTIES
    ActsAtHome
