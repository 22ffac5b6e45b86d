SPECIFICATION MFairSpec
CONSTANTS
    Nil = Nil
    Start = 3  Confirm = 1  Wrap = 16
    Ordering = {3, 5, 6}  CodeUpdates = {}  Breaking = {}  MayBeOpaque = {}
    MaxBlock = 7  FirstHead = 6  MaxLag = 0
    MaxCrashes = 1  MaxFaults = 1
    Jobs = {1, 2}  SlotSize = 2
INVARIANTS SlotsFinal SlotsInOrder
PROPERTY SlotsCatchUp
