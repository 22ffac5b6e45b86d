SPECIFICATION Spec
CONSTANTS
    Inf = 2000000000  Wrap = 2100000000  Unset = 1900000000
    Points <- MCPoints  Heights <- MCHeights  Spans <- MCSpans
INVARIANTS SizesPartition RatiosPartition MembersPartition AgesPartition ExpiriesPartition
