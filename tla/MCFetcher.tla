----------------------------- MODULE MCFetcher -----------------------------
(***************************************************************************)
(* Small instances of Fetcher.  Size 2 cuts 0 .. 4 into [0,1] [2,3] [4,5]  *)
(* (the last one reaches beyond the init block), size 3 into [0,2] [3,5],  *)
(* size 9 leaves one segment, cut off at the init block, size 1 segments   *)
(* of one block each, and a history of one block is one such segment.      *)
(***************************************************************************)
EXTENDS Fetcher

MCConfigs == {[zero |-> 0, size |-> 2, init |-> 4], [zero |-> 0, size |-> 3, init |-> 4],
              [zero |-> 1, size |-> 9, init |-> 3], [zero |-> 2, size |-> 1, init |-> 4],
              [zero |-> 3, size |-> 2, init |-> 3]}
=============================================================================
