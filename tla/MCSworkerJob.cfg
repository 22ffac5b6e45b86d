SPECIFICATION FairSpec
CONSTANTS
    Keys = {1, 2, 3}  Page = 2  Inclusive = TRUE
    Snapshots <- MCSnapshots  Members <- MCMembers  VersionOf <- MCVersionOf
    Runs = {1, 2}  Counters = {1, 2}
    MaxCycles = 2  MaxFaults = 1
INVARIANTS ReportsComplete GroupsRight GaugesAgree
PROPERTIES FlagReleased VersionsAddUp
CHECK_DEADLOCK FALSE
