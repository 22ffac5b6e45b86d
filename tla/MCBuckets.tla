----------------------------- MODULE MCBuckets -----------------------------
(***************************************************************************)
(* The values on both sides of every bound, for heights around the oldest  *)
(* bound of the tables and at the configured start block.                  *)
(***************************************************************************)
EXTENDS Buckets

MCHeights == {100, 10511999, 10512000, 15221811}

Ends(Tables) == UNION {{c[1], c[2]} : c \in Tables} \ {Inf}
Ages == AvgAges \cup CntAges

\* Just before and at every age that bounds a bucket.
MCSpans == Ends(Ages) \cup {a - 1 : a \in Ends(Ages) \ {0}}

MCPoints ==
    UNION {{b, b + 1} \cup (IF b = 0 THEN {} ELSE {b - 1}) :
             b \in Ends(AvgSizes \cup CntSizes \cup Replicas \cup Members \cup Ratios)
                   \cup {10512000 + a : a \in Ends(Expiries)}}
=============================================================================
