SPECIFICATION Spec
CONSTANTS
    Nil = Nil
    Start = 2  Confirm = 1  Wrap = 16
    Ordering = {2, 4}  CodeUpdates = {3}  Breaking = {}  MayBeOpaque = {}
    MaxBlock = 6  FirstHead = 3  MaxLag = 0
    MaxCrashes = 1  MaxFaults = 0
INVARIANT OrdersCountedOnce
