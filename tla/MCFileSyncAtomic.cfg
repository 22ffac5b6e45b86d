SPECIFICATION Spec
CONSTANTS
    NoFile = NoFile  Gone = Gone
    c1 = c1  s1 = s1  s2 = s2
    Cids = {c1}  Savers = {s1, s2}  Files <- MCFiles  RetryCnt = 1
    Versions = {0, 1, 2}
    MaxBlock = 2  MaxCrashes = 1  MaxFaults = 1
PROPERTY InsertAtomic
