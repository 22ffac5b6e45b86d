------------------------------ MODULE BlockLog ------------------------------
(***************************************************************************)
(* What the listener promises about the chain it follows, whatever polling,*)
(* caching, retrying and restarting it is built from                       *)
(* (src/chain/listener.go): blocks are marked as processed one after the   *)
(* other, none left out and none twice, and only blocks that lie Confirm   *)
(* or more blocks behind the finalized head.  Only the mark is in sight: a *)
(* restart that works on the marked block again and marks it once more is  *)
(* a stutter here, and counted by Listener's SurplusPaid.                  *)
(***************************************************************************)
EXTENDS Integers

CONSTANTS Start,       \* first block of the listener
          Confirm      \* distance it keeps from the finalized head

VARIABLES mark,        \* last block marked as processed, 0 before the first
          finalized    \* the finalized head of the chain

Following(m) == IF m = 0 THEN Start ELSE m + 1

Init == mark = 0 /\ finalized \in Nat

Finalize == finalized' > finalized /\ UNCHANGED mark

Mark == /\ mark' = Following(mark)
        /\ mark' + Confirm <= finalized
        /\ UNCHANGED finalized

Next == Finalize \/ Mark

Spec == Init /\ [][Next]_<<mark, finalized>>
=============================================================================
