SPECIFICATION Spec
CONSTANTS
    EraLen = 4  PayDelay = 1  Intervals = {2, 3, 4}
    WordSize = 16  PageSize = 3
    MaxRun = 1  MaxEra = 3  MaxCrashes = 1  MaxFaults = 1
INVARIANTS TypeOK LabelsInEra RewardsWhole ErasCovered
