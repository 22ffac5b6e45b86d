----------------------------- MODULE MCFileSync -----------------------------
(***************************************************************************)
(* Small instance of FileSync: one file, ordered in two segments.          *)
(***************************************************************************)
EXTENDS FileSync

CONSTANTS c1, s1, s2

MCFiles == [s \in Savers |-> Cids]
=============================================================================
