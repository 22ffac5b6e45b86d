------------------------------ MODULE Buckets ------------------------------
(***************************************************************************)
(* The histograms of the metrics: the tables of conditions of              *)
(* src/metrics/condition.go, the bounds the handlers of                    *)
(* src/metrics/handler.go compute from them, and the WHERE clauses of      *)
(* src/db/fileInfo.go and src/db/sworker.go that select the rows of a      *)
(* bucket.  Whether a row falls into one bucket is decided by all three    *)
(* together.                                                               *)
(*                                                                         *)
(* A condition is <<low, high>>; labels are left out.  math.MaxUint64 is   *)
(* Inf, differences of uint64 wrap below 0 to Wrap - n, and the ratios     *)
(* (percent) are counted in tenths.  The state is one row and the height   *)
(* now that the handler reads: the row's column is n, or, for the ages of  *)
(* files, what ToFileDto of src/chain/types.go makes of the file it was    *)
(* first saved from.                                                       *)
(***************************************************************************)
EXTENDS Integers, FiniteSets

CONSTANTS Points,   \* column values to look at
          Heights,  \* heights of the chain to look at
          Spans,    \* distances from now at which something happened to a file
          Unset,    \* math.MaxUint32
          Inf,      \* math.MaxUint64, above every value that occurs
          Wrap      \* 2^64, above Inf

KB == 1024
MB == 1024 * KB
GB == 1024 * MB

ASSUME BucketsAssumption ==
    /\ Points \subseteq Nat /\ Heights \subseteq Nat /\ Spans \subseteq Nat
    /\ Unset \in Nat /\ \A h \in Heights : h < Unset
    /\ Inf \in Nat /\ Wrap \in Nat /\ GB < Inf /\ Unset < Inf /\ Inf < Wrap
    /\ \A p \in Points : p < Inf

VARIABLES n, now, file

vars == <<n, now, file>>

ExpireDuration == (6 * 30 * 24 * 60 * 60) \div 6

\* A file nobody has touched; what the age handlers look at begins as one.
NoFile == [number |-> 0, expiredAt |-> 0, replicas |-> {}]

\* The files a chain of that height can hold: stored by a block (number) or by
\* a report (0), unpaid (0) or paid for ExpireDuration at some block, each of
\* the replicas unreported (0) or reported at some block.
Past(h)  == {h - s : s \in {d \in Spans : d < h}}
Files(h) == [number : {0} \cup Past(h),
             expiredAt : {0} \cup {b + ExpireDuration : b \in Past(h)},
             replicas : {{}} \cup {{x, y} : x \in {0} \cup Past(h), y \in Past(h)}]

Init == /\ now \in Heights
        /\ \/ n \in Points /\ file = NoFile
           \/ n = 0 /\ file \in Files(now)

\* The handlers look at the same row later, or at another value.
Next == /\ now' \in {h \in Heights : h >= now}
        /\ IF file = NoFile THEN n' \in Points ELSE UNCHANGED n
        /\ UNCHANGED file

Spec == Init /\ [][Next]_vars

\* avgReplicasBySize
AvgSizes == {<<0, KB>>, <<KB, 10*KB>>, <<10*KB, 100*KB>>, <<100*KB, MB>>, <<MB, 10*MB>>,
             <<10*MB, 100*MB>>, <<100*MB, GB>>, <<GB, Inf>>}

\* fileCntBySize and fileCntBySizeNoneRep
CntSizes == {<<0, KB>>, <<KB, 10*KB>>, <<10*KB, 100*KB>>, <<100*KB, MB>>, <<MB, 10*MB>>,
             <<10*MB, 30*MB>>, <<30*MB, 100*MB>>, <<100*MB, 300*MB>>, <<300*MB, GB>>,
             <<GB, Inf>>}

\* fileCntByReplicaSize
Replicas == {<<0, 0>>, <<1, 8>>, <<9, 16>>, <<17, 24>>, <<25, 32>>, <<33, 40>>, <<41, 48>>,
             <<49, 55>>, <<56, 65>>, <<66, 74>>, <<75, 83>>, <<84, 92>>, <<93, 100>>,
             <<101, 115>>, <<116, 127>>, <<128, 142>>, <<143, 157>>, <<158, 200>>, <<200, Inf>>}

\* avgReplicasByCreateTime
AvgAges == {<<0, 600>>, <<600, 1800>>, <<1800, 7200>>, <<7200, 14400>>, <<14400, 7*14400>>,
            <<7*14400, 30*14400>>, <<30*14400, 180*14400>>, <<180*14400, Inf>>}

\* fileCntByCreateTime
CntAges == {<<0, 100800>>, <<100800, 432000>>, <<432000, 1296000>>, <<1296000, 2592000>>,
            <<2592000, 5256000>>, <<5256000, 10512000>>, <<10512000, Inf>>}

\* fileCntByExpireTime
Expiries == {<<0, 0>>, <<0, 432000>>, <<432000, 1296000>>, <<1296000, 2160000>>, <<2160000, Inf>>}

\* groupCntByMemberCnt and groupCntByActiveCnt
Members == {<<0, 0>>, <<1, 1>>, <<2, 5>>, <<5, 10>>, <<10, 20>>, <<20, 50>>, <<50, 100>>, <<100, Inf>>}

\* swokerRatio
Ratios == {<<0, 0>>, <<0, 1>>, <<1, 3>>, <<3, 10>>, <<10, 30>>, <<30, 100>>, <<100, 300>>,
           <<300, 500>>, <<500, Inf>>}

-----------------------------------------------------------------------------
Earliest(S) == CHOOSE x \in S : \A y \in S : x <= y

\* Mutant: a replica that has not been reported counts as created at 0.
CreateAtUnreported(f) ==
    LET number == IF f.number = 0 /\ f.expiredAt > ExpireDuration
                    THEN f.expiredAt - ExpireDuration ELSE f.number
    IN  Earliest({number, Unset} \cup f.replicas)

\* ToFileDto: the block the file is taken to be created at.  It is kept for as
\* long as the row exists (SaveFiles and UpdateReplicas leave it out).
CreateAt(f) ==
    LET number == IF f.number = 0 /\ f.expiredAt > ExpireDuration
                    THEN f.expiredAt - ExpireDuration ELSE f.number
    IN  Earliest({number, Unset} \cup (f.replicas \ {0}))

\* Mutant: the intervals are open below and closed above.
HalfOpenSwapped(c) == c[1] < n /\ n <= c[2]

\* AvgReplicasBySize, FileCntBySize, FileCntBySizeWithNoneRep.
HalfOpen(c) == c[1] <= n /\ n < c[2]

\* Mutant: without the case of equal bounds.
EqualOrAboveOnly(c) == c[1] < n /\ n <= c[2]

\* FileCntByReplicaSize and NodeCntByRatio: "= 0", or "> low AND <= high".
EqualOrAbove(c) == IF c[1] = 0 /\ c[2] = 0 THEN n = 0 ELSE c[1] < n /\ n <= c[2]

\* Mutant: the case of equal bounds only for 0, as in FileCntByReplicaSize.
EqualOrFromZero(c) == IF c[1] = 0 /\ c[2] = 0 THEN n = 0 ELSE c[1] <= n /\ n < c[2]

\* GroupCntByAll and GroupCntByActive: "= low", or ">= low AND < high".
EqualOrFrom(c) == IF c[1] = c[2] THEN n = c[1] ELSE c[1] <= n /\ n < c[2]

Minus(a, b) == (a - b) % Wrap

\* handlerReplicaCntByCreateTime, handlerFileCntByCreateTime: ages become heights.
CreatedIn(c) ==
    /\ (IF c[2] = Inf THEN 0 ELSE Minus(now, c[2])) < CreateAt(file)
    /\ CreateAt(file) <= Minus(now, c[1])

\* Mutant: the heights begin at 0 in the bucket of the next month as well.
ExpiresInFromZero(c) ==
    IF c[1] = c[2] THEN 0 < n /\ n <= now
    ELSE /\ (IF c[1] = 0 THEN 0 ELSE c[1] + now) < n
         /\ n <= IF c[2] = Inf THEN Inf ELSE c[2] + now

\* handlerFileCntByExpireTime: the bucket of the expired files, the others from now on.
ExpiresIn(c) ==
    IF c[1] = c[2] THEN 0 < n /\ n <= now
    ELSE /\ c[1] + now < n
         /\ n <= IF c[2] = Inf THEN Inf ELSE c[2] + now

-----------------------------------------------------------------------------
InOneBucket(Table, In(_)) == Cardinality({c \in Table : In(c)}) = 1

\* Every file is in one bucket of the histograms by size.
SizesPartition == InOneBucket(AvgSizes, HalfOpen) /\ InOneBucket(CntSizes, HalfOpen)

\* Every sworker is in one bucket of the histogram by ratio.
RatiosPartition == InOneBucket(Ratios, EqualOrAbove)

\* Every group is in one bucket of the histograms by members, although some
\* buckets are single values and the neighbours of others share a bound.
MembersPartition == InOneBucket(Members, EqualOrFrom)

\* On a chain as high as the oldest bound every file is in one bucket of the
\* histograms by age, now and when the chain has grown, whichever of its blocks
\* the code takes it to be created at.  Only a file that a report has saved and
\* that was never paid has no creation block, and is in no bucket.
AgesPartition ==
    now >= 10512000 =>
        LET known == file.number > 0 \/ file.expiredAt > ExpireDuration
        IN  IF known THEN InOneBucket(AvgAges, CreatedIn) /\ InOneBucket(CntAges, CreatedIn)
            ELSE \A c \in AvgAges \cup CntAges : ~CreatedIn(c)

\* Every file with an expiry is in one bucket of the histogram by expiry.
ExpiriesPartition == n > 0 => InOneBucket(Expiries, ExpiresIn)

\* Labels "1～8", "9～16" and so on (fileCntByReplicaSize): a file with 1 to 200
\* replicas is in the bucket whose bounds it lies between.
ReplicasPartition == InOneBucket(Replicas, EqualOrAbove)
=============================================================================
