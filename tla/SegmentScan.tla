---------------------------- MODULE SegmentScan ----------------------------
(***************************************************************************)
(* What one segment of the historical scan promises, whatever goroutines,  *)
(* channels and retries it is built from (src/chain/fetch.go,              *)
(* src/db/checkPoint.go).  A segment owns the blocks First .. End.  The    *)
(* files ordered in them are settled one by one; the checkpoint row never  *)
(* runs ahead of the settled files and never goes back; and a segment is   *)
(* reported finished only when nothing of it is left.                      *)
(***************************************************************************)
EXTENDS Integers

CONSTANTS
    First, End,      \* the first and the last block of the segment
    Files,           \* file cids
    FilesOf,         \* FilesOf[b]: the files of block b that have to be kept
    NoRow            \* value of the checkpoint when its row does not exist

VARIABLES
    checkpoint,      \* the segment's row in check_point, or NoRow
    settled,         \* files whose row (or error row) has been written
    finished         \* the running process has counted the segment as done

vars == <<checkpoint, settled, finished>>

Blocks == First .. End

\* A restart begins at the block the checkpoint names, and not at all when it
\* names the last block: these are the blocks no later run will look at.
Behind(v) == {b \in Blocks : b < v \/ v = End}

Covered(blocks) == \A b \in blocks : FilesOf[b] \subseteq settled

Init == checkpoint = NoRow /\ settled = {} /\ finished = FALSE

\* A file gets its row.
Settle(f) == /\ settled' = settled \cup {f}
             /\ UNCHANGED <<checkpoint, finished>>

CreateRow == /\ checkpoint = NoRow
             /\ checkpoint' = First
             /\ UNCHANGED <<settled, finished>>

Advance(v) == /\ checkpoint # NoRow
              /\ v >= checkpoint
              /\ Covered(Behind(v))
              /\ checkpoint' = v
              /\ UNCHANGED <<settled, finished>>

\* By the run that settles the last file, or by one that finds nothing to do.
Finish == /\ Covered(Blocks)
          /\ finished' = TRUE
          /\ UNCHANGED <<checkpoint, settled>>

\* The process that reported the segment is gone.
Forget == /\ finished' = FALSE
          /\ UNCHANGED <<checkpoint, settled>>

Next == \/ \E f \in Files : Settle(f)
        \/ CreateRow
        \/ \E v \in Blocks : Advance(v)
        \/ Finish
        \/ Forget

Spec == Init /\ [][Next]_vars
=============================================================================
