SPECIFICATION FairSpec
CONSTANTS
    Nil = Nil
    Start = 2  Confirm = 1  Wrap = 16
    Ordering = {2, 4, 5}  CodeUpdates = {3, 5}  Breaking = {5}  MayBeOpaque = {6}
    MaxBlock = 7  FirstHead = 1  MaxLag = 1
    MaxCrashes = 2  MaxFaults = 2
INVARIANTS TypeOK OrdersKept SurplusPaid MetadataFresh
PROPERTIES Refines OrdersFrozen CatchesUp
