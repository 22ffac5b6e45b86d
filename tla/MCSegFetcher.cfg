SPECIFICATION FairSpec
CONSTANTS
    f1 = f1  f2 = f2  long = long  gone = gone
    NoRow = NoRow  NoMetadata = NoMetadata
    First = 1  End = 4
    Cids <- MCCids  Ordered <- MCOrdered
    WellFormed <- MCWellFormed  Present <- MCPresent
    ChanCap = 1  UpdateSize = 2  RetryCnt = 2
    CodeUpdates = {2, 3}  Breaking = {3}
    MaxCrashes = 2  MaxFaults = 4
INVARIANTS TypeOK CheckpointSound FinishedMeansSaved MetadataFresh GivingUpCosts
PROPERTIES Refines Completes
