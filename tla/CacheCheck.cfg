\* Records: two tabs, one url, one change of the data, two attempts of a read.
\* Cleanup: the seven categories of the code.
SPECIFICATION MCFairSpec
CONSTANTS
    Tabs = {a, b}
    Keys = {k}
    TTL = 0
    StaleFor = 1
    Limit = 1
    Attempts = 2
    NoRecord = NoRecord
    NoRead = NoRead
    NoChange = NoChange
    Used = {a}
    MaxVersion = 1
    MaxQueue = 1
    CategoryCount = 7
INVARIANTS
    OneFetchPerKey
PROPERTIES
    NoOldAnswerKept
    ReadsEnd
    Heals
    Swept
