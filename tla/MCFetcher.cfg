SPECIFICATION FairSpec
CONSTANTS
    Configs <- MCConfigs
    NoRow = NoRow
    MaxBlock = 5  MaxCrashes = 2  MaxFaults = 1
INVARIANTS TypeOK ResumeSound HistoryComplete MarkKept
PROPERTY HandsOver
