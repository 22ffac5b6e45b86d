---------------------------- MODULE MCSegFetcher ----------------------------
(***************************************************************************)
(* Small instance of SegFetcher: four blocks, a file ordered twice, a      *)
(* block without files, a malformed cid, a cid that has left the storage.  *)
(***************************************************************************)
EXTENDS SegFetcher, TLC

CONSTANTS f1, f2, long, gone

MCCids    == {f1, f2, long, gone}
MCOrdered == (1 :> {f1, long}) @@ (2 :> {}) @@ (3 :> {f2, gone}) @@ (4 :> {f1, f2})
MCWellFormed == {f1, f2, gone}
MCPresent    == {f1, f2, long}
=============================================================================
