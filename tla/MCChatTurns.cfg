CONSTANTS
    Conversations = {c1}
    Turns = {r1, r2}
    Tabs = {t1, t2}
    Deleters = {d1}
    Nobody = Nobody
    PoolSize = 4
    MaxRounds = 2
    MaxCalls = 1
    MaxSends = 2
    MaxCrashes = 1
SPECIFICATION FairSpec
CHECK_DEADLOCK FALSE
INVARIANTS
    TypeOK
    AnswersWholeHistory
    HistoryIsWellFormed
    NothingLeaks
PROPERTIES
    TurnsEnd
