---------------------------- MODULE Buckets_proofs ----------------------------
(***************************************************************************)
(* Proofs about the histograms: every row falls into one bucket, for every *)
(* value of its column below math.MaxUint64 and every height of the chain  *)
(* below math.MaxUint32, not only for those beside the bounds.             *)
(***************************************************************************)
EXTENDS Buckets, FiniteSetTheorems, WellFoundedInduction, TLAPS

-----------------------------------------------------------------------------
\* One element, and no two of them.
LEMMA ExactlyOne ==
    ASSUME NEW S, S # {}, \A c, d \in S : c = d
    PROVE  Cardinality(S) = 1
  <1>1. PICK c \in S : TRUE
    OBVIOUS
  <1>2. S = {c}
    BY <1>1
  <1> QED BY <1>2, FS_Singleton

\* A set of heights that is not empty has an earliest one.
LEMMA EarliestOf ==
    ASSUME NEW T \in SUBSET Nat, T # {}
    PROVE  Earliest(T) \in T /\ \A y \in T : Earliest(T) <= y
  <1> DEFINE Less == OpToRel(<, Nat)
  <1>1. IsWellFoundedOn(Less, Nat)
    BY NatLessThanWellFounded
  <1>2. \A x, y \in Nat : y < x => <<y, x>> \in Less
    BY DEF OpToRel
  <1> HIDE DEF Less
  <1>3. PICK x \in T : \A y \in T : <<y, x>> \notin Less
    BY <1>1, WFMin
  <1>4. \A y \in T : ~(y < x)
    BY <1>2, <1>3
  <1>5. \A y \in T : x <= y
    BY <1>4
  <1> QED BY <1>3, <1>5 DEF Earliest

-----------------------------------------------------------------------------
USE BucketsAssumption

\* The row is one that the tables of a chain of some height hold.
Row == /\ n \in Nat /\ n < Inf
       /\ now \in Heights
       /\ \E h \in Heights : h <= now /\ file \in Files(h)

\* A file that nobody has touched is one of any chain.
LEMMA RowInit == Init => Row
  <1> SUFFICES ASSUME Init PROVE Row
    OBVIOUS
  <1>1. now \in Heights /\ n \in Nat /\ n < Inf
    <2>1. now \in Heights /\ (n \in Points \/ n = 0)
      BY DEF Init
    <2>2. 0 < Inf
      BY DEF KB, MB, GB
    <2>3. CASE n \in Points
      BY <2>1, <2>3
    <2>4. CASE n = 0
      BY <2>1, <2>2, <2>4
    <2> QED BY <2>1, <2>3, <2>4
  <1>2. NoFile \in Files(now)
    BY DEF NoFile, Files
  <1>3. file \in Files(now) /\ now <= now
    BY <1>1, <1>2 DEF Init
  <1> QED BY <1>1, <1>3 DEF Row

\* The chain grows, the file has been saved before.
LEMMA RowStep == Row /\ [Next]_vars => Row'
  <1> SUFFICES ASSUME Row, [Next]_vars PROVE Row'
    OBVIOUS
  <1>1. /\ file' = file /\ now' \in Heights /\ now <= now'
        /\ n' = n \/ n' \in Points
    BY DEF Row, Next, vars
  <1>2. PICK h \in Heights : h <= now /\ file \in Files(h)
    BY DEF Row
  <1>3. h <= now' /\ file' \in Files(h)
    <2>1. h \in Nat /\ now \in Nat /\ now' \in Nat
      BY <1>1 DEF Row
    <2> QED BY <1>1, <1>2, <2>1
  <1> QED BY <1>1, <1>3 DEF Row

\* It stays so, however high the chain grows.
THEOREM RowsOfAChain == Spec => []Row
  BY RowInit, RowStep, PTL DEF Spec

-----------------------------------------------------------------------------
\* The histograms by size: the intervals follow each other.
LEMMA Sizes == Row => SizesPartition
  <1> SUFFICES ASSUME n \in Nat, n < Inf PROVE SizesPartition
    BY DEF Row
  <1> USE DEF KB, MB, GB
  <1>1. InOneBucket(AvgSizes, HalfOpen)
    <2> DEFINE S == {c \in AvgSizes : HalfOpen(c)}
    <2>1. \E c \in AvgSizes : HalfOpen(c)
      <3>1. \/ HalfOpen(<<0, KB>>) \/ HalfOpen(<<KB, 10*KB>>) \/ HalfOpen(<<10*KB, 100*KB>>)
            \/ HalfOpen(<<100*KB, MB>>) \/ HalfOpen(<<MB, 10*MB>>)
            \/ HalfOpen(<<10*MB, 100*MB>>) \/ HalfOpen(<<100*MB, GB>>) \/ HalfOpen(<<GB, Inf>>)
        BY DEF HalfOpen
      <3> QED BY <3>1 DEF AvgSizes
    <2>2. \A c, d \in S : c = d
      BY DEF AvgSizes, HalfOpen
    <2>3. S # {}
      BY <2>1
    <2> HIDE DEF S
    <2>4. Cardinality(S) = 1
      BY <2>2, <2>3, ExactlyOne
    <2> QED BY <2>4 DEF S, InOneBucket
  <1>2. InOneBucket(CntSizes, HalfOpen)
    <2> DEFINE S == {c \in CntSizes : HalfOpen(c)}
    <2>1. \E c \in CntSizes : HalfOpen(c)
      <3>1. \/ HalfOpen(<<0, KB>>) \/ HalfOpen(<<KB, 10*KB>>) \/ HalfOpen(<<10*KB, 100*KB>>)
            \/ HalfOpen(<<100*KB, MB>>) \/ HalfOpen(<<MB, 10*MB>>) \/ HalfOpen(<<10*MB, 30*MB>>)
            \/ HalfOpen(<<30*MB, 100*MB>>) \/ HalfOpen(<<100*MB, 300*MB>>)
            \/ HalfOpen(<<300*MB, GB>>) \/ HalfOpen(<<GB, Inf>>)
        BY DEF HalfOpen
      <3> QED BY <3>1 DEF CntSizes
    <2>2. \A c, d \in S : c = d
      BY DEF CntSizes, HalfOpen
    <2>3. S # {}
      BY <2>1
    <2> HIDE DEF S
    <2>4. Cardinality(S) = 1
      BY <2>2, <2>3, ExactlyOne
    <2> QED BY <2>4 DEF S, InOneBucket
  <1> QED BY <1>1, <1>2 DEF SizesPartition

\* The histogram by ratio: 0, and the intervals that follow it.
LEMMA RatioBuckets == Row => RatiosPartition
  <1> SUFFICES ASSUME n \in Nat, n < Inf PROVE RatiosPartition
    BY DEF Row
  <1> DEFINE S == {c \in Ratios : EqualOrAbove(c)}
  <1>1. \E c \in Ratios : EqualOrAbove(c)
    <2>1. \/ EqualOrAbove(<<0, 0>>) \/ EqualOrAbove(<<0, 1>>) \/ EqualOrAbove(<<1, 3>>)
          \/ EqualOrAbove(<<3, 10>>) \/ EqualOrAbove(<<10, 30>>) \/ EqualOrAbove(<<30, 100>>)
          \/ EqualOrAbove(<<100, 300>>) \/ EqualOrAbove(<<300, 500>>)
          \/ EqualOrAbove(<<500, Inf>>)
      BY DEF EqualOrAbove
    <2> QED BY <2>1 DEF Ratios
  <1>2. \A c, d \in S : c = d
    BY DEF Ratios, EqualOrAbove
  <1>3. S # {}
    BY <1>1
  <1> HIDE DEF S
  <1>4. Cardinality(S) = 1
    BY <1>2, <1>3, ExactlyOne
  <1> QED BY <1>4 DEF S, InOneBucket, RatiosPartition

\* The histograms by members: 0, 1 and the intervals that follow them, although
\* 5 and later bounds are shared by neighbours.
LEMMA MemberBuckets == Row => MembersPartition
  <1> SUFFICES ASSUME n \in Nat, n < Inf PROVE MembersPartition
    BY DEF Row
  <1>a. Inf > 100
    BY DEF KB, MB, GB
  <1> DEFINE S == {c \in Members : EqualOrFrom(c)}
  <1>1. /\ EqualOrFrom(<<0, 0>>) <=> n = 0
        /\ EqualOrFrom(<<1, 1>>) <=> n = 1
        /\ EqualOrFrom(<<2, 5>>) <=> 2 <= n /\ n < 5
        /\ EqualOrFrom(<<5, 10>>) <=> 5 <= n /\ n < 10
        /\ EqualOrFrom(<<10, 20>>) <=> 10 <= n /\ n < 20
        /\ EqualOrFrom(<<20, 50>>) <=> 20 <= n /\ n < 50
        /\ EqualOrFrom(<<50, 100>>) <=> 50 <= n /\ n < 100
        /\ EqualOrFrom(<<100, Inf>>) <=> 100 <= n
    BY <1>a DEF EqualOrFrom
  <1>2. \E c \in Members : EqualOrFrom(c)
    <2>1. \/ EqualOrFrom(<<0, 0>>) \/ EqualOrFrom(<<1, 1>>) \/ EqualOrFrom(<<2, 5>>)
          \/ EqualOrFrom(<<5, 10>>) \/ EqualOrFrom(<<10, 20>>) \/ EqualOrFrom(<<20, 50>>)
          \/ EqualOrFrom(<<50, 100>>) \/ EqualOrFrom(<<100, Inf>>)
      BY <1>1
    <2> QED BY <2>1 DEF Members
  <1>3. \A c, d \in S : c = d
    BY <1>1 DEF Members
  <1>4. S # {}
    BY <1>2
  <1> HIDE DEF S
  <1>5. Cardinality(S) = 1
    BY <1>3, <1>4, ExactlyOne
  <1> QED BY <1>5 DEF S, InOneBucket, MembersPartition

\* The histogram by expiry: the files that have expired, and the intervals from
\* now on.
LEMMA ExpiryBuckets == Row => ExpiriesPartition
  <1> SUFFICES ASSUME n \in Nat, n < Inf, n > 0, now \in Nat PROVE InOneBucket(Expiries, ExpiresIn)
    BY DEF Row, ExpiriesPartition
  <1>a. Inf > 2160000
    BY DEF KB, MB, GB
  <1> DEFINE S == {c \in Expiries : ExpiresIn(c)}
  <1>1. /\ ExpiresIn(<<0, 0>>) <=> n <= now
        /\ ExpiresIn(<<0, 432000>>) <=> now < n /\ n <= now + 432000
        /\ ExpiresIn(<<432000, 1296000>>) <=> now + 432000 < n /\ n <= now + 1296000
        /\ ExpiresIn(<<1296000, 2160000>>) <=> now + 1296000 < n /\ n <= now + 2160000
        /\ ExpiresIn(<<2160000, Inf>>) <=> now + 2160000 < n
    BY <1>a DEF ExpiresIn
  <1>2. \E c \in Expiries : ExpiresIn(c)
    <2>1. \/ ExpiresIn(<<0, 0>>) \/ ExpiresIn(<<0, 432000>>) \/ ExpiresIn(<<432000, 1296000>>)
          \/ ExpiresIn(<<1296000, 2160000>>) \/ ExpiresIn(<<2160000, Inf>>)
      BY <1>1
    <2> QED BY <2>1 DEF Expiries
  <1>3. \A c, d \in S : c = d
    BY <1>1 DEF Expiries
  <1>4. S # {}
    BY <1>2
  <1> HIDE DEF S
  <1>5. Cardinality(S) = 1
    BY <1>3, <1>4, ExactlyOne
  <1> QED BY <1>5 DEF S, InOneBucket

-----------------------------------------------------------------------------
\* What ToFileDto makes of a file: a block of the chain, or 0 if no block stored
\* it and nobody paid for it.
LEMMA CreatedOnTheChain ==
    ASSUME Row
    PROVE  IF file.number > 0 \/ file.expiredAt > ExpireDuration
             THEN CreateAt(file) \in 1..now ELSE CreateAt(file) = 0
  <1>1. PICK h \in Heights : h <= now /\ file \in Files(h)
    BY DEF Row
  <1>2. h \in Nat /\ now \in Nat /\ Unset \in Nat /\ now < Unset
    BY <1>1 DEF Row
  <1>3. Past(h) \subseteq 1..now
    BY <1>1, <1>2 DEF Past
  <1>a. ExpireDuration = 2592000
    BY DEF ExpireDuration
  <1>4. /\ file.number \in {0} \cup Past(h)
        /\ file.expiredAt \in {0} \cup {b + ExpireDuration : b \in Past(h)}
        /\ file.replicas \ {0} \subseteq Past(h)
    BY <1>1 DEF Files
  <1> DEFINE number == IF file.number = 0 /\ file.expiredAt > ExpireDuration
                         THEN file.expiredAt - ExpireDuration ELSE file.number
             T == {number, Unset} \cup (file.replicas \ {0})
  <1>5. CreateAt(file) = Earliest(T)
    BY DEF CreateAt
  <1>6. IF file.number > 0 \/ file.expiredAt > ExpireDuration
          THEN number \in 1..now ELSE number = 0
    <2>1. CASE file.number > 0
      BY <1>3, <1>4, <2>1
    <2>2. CASE ~(file.number > 0) /\ file.expiredAt > ExpireDuration
      <3>1. file.number = 0
        BY <1>3, <1>4, <2>2
      <3>2. PICK b \in Past(h) : file.expiredAt = b + ExpireDuration
        BY <1>4, <1>a, <2>2
      <3>3. number = b
        BY <1>3, <1>a, <2>2, <3>1, <3>2
      <3> QED BY <1>3, <2>2, <3>3
    <2>3. CASE ~(file.number > 0) /\ ~(file.expiredAt > ExpireDuration)
      <3>1. file.number = 0
        BY <1>3, <1>4, <2>3
      <3> QED BY <2>3, <3>1
    <2> QED BY <2>1, <2>2, <2>3
  <1> HIDE DEF number
  <1>7. /\ number \in T /\ Unset \in T
        /\ \A x \in T : x = number \/ x = Unset \/ x \in 1..now
    BY <1>3, <1>4
  <1>8. number \in 0..now
    BY <1>2, <1>6
  <1> HIDE DEF T
  <1>9. T \in SUBSET Nat /\ T # {}
    <2>1. \A x \in T : x \in Nat
      BY <1>2, <1>7, <1>8
    <2> QED BY <1>7, <2>1
  <1>10. /\ Earliest(T) \in T /\ Earliest(T) \in Nat
         /\ \A y \in T : Earliest(T) <= y
    BY <1>9, EarliestOf
  <1>11. Earliest(T) <= number /\ (Earliest(T) = number \/ Earliest(T) \in 1..now)
    BY <1>2, <1>7, <1>8, <1>10
  <1> QED BY <1>2, <1>5, <1>6, <1>8, <1>10, <1>11

\* On a chain that high the heights of a bucket are those of its ages.
LEMMA AgesOfABucket ==
    ASSUME Row, now >= 10512000,
           NEW lo \in Nat, lo <= 10512000, NEW hi \in Nat, hi <= 10512000 \/ hi = Inf
    PROVE  CreatedIn(<<lo, hi>>) <=>
               /\ hi # Inf => now - hi < CreateAt(file)
               /\ hi = Inf => 0 < CreateAt(file)
               /\ CreateAt(file) <= now - lo
  <1>1. now \in Nat /\ now < Wrap /\ Wrap \in Nat
    <2>1. now \in Heights
      BY DEF Row
    <2>2. now \in Nat /\ now < Unset
      BY <2>1
    <2> QED BY <2>2
  <1>2. \A a \in Nat : a <= 10512000 => Minus(now, a) = now - a
    <2> SUFFICES ASSUME NEW a \in Nat, a <= 10512000 PROVE Minus(now, a) = now - a
      OBVIOUS
    <2>1. now - a \in Nat /\ now - a < Wrap
      BY <1>1
    <2>2. (now - a) % Wrap = now - a
      BY <1>1, <2>1
    <2> QED BY <2>2 DEF Minus
  <1>3. CASE hi = Inf
    BY <1>1, <1>2, <1>3 DEF CreatedIn
  <1>4. CASE hi # Inf
    BY <1>1, <1>2, <1>4 DEF CreatedIn
  <1> QED BY <1>3, <1>4

\* The histograms by age: the intervals of ages follow each other, and a file
\* that has a creation block has an age.
LEMMA AgeBuckets == Row => AgesPartition
  <1> SUFFICES ASSUME Row, now >= 10512000
               PROVE  AgesPartition
    <2>1. CASE Row /\ now >= 10512000
      BY <2>1
    <2>2. CASE ~(now >= 10512000)
      BY <2>2 DEF AgesPartition
    <2> QED BY <2>1, <2>2
  <1> DEFINE at == CreateAt(file)
  <1>1. now \in Nat /\ Inf \in Nat /\ Inf > 10512000
    BY DEF Row, KB, MB, GB
  <1>2. /\ CreatedIn(<<0, 600>>) <=> now - 600 < at /\ at <= now
        /\ CreatedIn(<<600, 1800>>) <=> now - 1800 < at /\ at <= now - 600
        /\ CreatedIn(<<1800, 7200>>) <=> now - 7200 < at /\ at <= now - 1800
        /\ CreatedIn(<<7200, 14400>>) <=> now - 14400 < at /\ at <= now - 7200
        /\ CreatedIn(<<14400, 100800>>) <=> now - 100800 < at /\ at <= now - 14400
        /\ CreatedIn(<<100800, 432000>>) <=> now - 432000 < at /\ at <= now - 100800
        /\ CreatedIn(<<432000, 2592000>>) <=> now - 2592000 < at /\ at <= now - 432000
        /\ CreatedIn(<<2592000, Inf>>) <=> 0 < at /\ at <= now - 2592000
    BY <1>1, AgesOfABucket
  <1>3. /\ CreatedIn(<<0, 100800>>) <=> now - 100800 < at /\ at <= now
        /\ CreatedIn(<<432000, 1296000>>) <=> now - 1296000 < at /\ at <= now - 432000
        /\ CreatedIn(<<1296000, 2592000>>) <=> now - 2592000 < at /\ at <= now - 1296000
        /\ CreatedIn(<<2592000, 5256000>>) <=> now - 5256000 < at /\ at <= now - 2592000
        /\ CreatedIn(<<5256000, 10512000>>) <=> now - 10512000 < at /\ at <= now - 5256000
        /\ CreatedIn(<<10512000, Inf>>) <=> 0 < at /\ at <= now - 10512000
    BY <1>1, AgesOfABucket
  <1>4. AvgAges = {<<0, 600>>, <<600, 1800>>, <<1800, 7200>>, <<7200, 14400>>,
                   <<14400, 100800>>, <<100800, 432000>>, <<432000, 2592000>>, <<2592000, Inf>>}
    BY DEF AvgAges
  <1>5. CntAges = {<<0, 100800>>, <<100800, 432000>>, <<432000, 1296000>>, <<1296000, 2592000>>,
                   <<2592000, 5256000>>, <<5256000, 10512000>>, <<10512000, Inf>>}
    BY DEF CntAges
  <1>6. IF file.number > 0 \/ file.expiredAt > ExpireDuration THEN at \in 1..now ELSE at = 0
    BY CreatedOnTheChain
  <1> HIDE DEF at
  <1>7. CASE file.number > 0 \/ file.expiredAt > ExpireDuration
    <2>a. at \in 1..now
      BY <1>6, <1>7
    <2>1. InOneBucket(AvgAges, CreatedIn)
      <3> DEFINE S == {c \in AvgAges : CreatedIn(c)}
      <3>1. \E c \in AvgAges : CreatedIn(c)
        <4>1. \/ CreatedIn(<<0, 600>>) \/ CreatedIn(<<600, 1800>>) \/ CreatedIn(<<1800, 7200>>)
              \/ CreatedIn(<<7200, 14400>>) \/ CreatedIn(<<14400, 100800>>)
              \/ CreatedIn(<<100800, 432000>>) \/ CreatedIn(<<432000, 2592000>>)
              \/ CreatedIn(<<2592000, Inf>>)
          BY <1>1, <1>2, <2>a
        <4> QED BY <1>4, <4>1
      <3>2. \A c, d \in S : c = d
        BY <1>1, <1>2, <1>4, <2>a
      <3>3. S # {}
        BY <3>1
      <3> HIDE DEF S
      <3>4. Cardinality(S) = 1
        BY <3>2, <3>3, ExactlyOne
      <3> QED BY <3>4 DEF S, InOneBucket
    <2>2. InOneBucket(CntAges, CreatedIn)
      <3> DEFINE S == {c \in CntAges : CreatedIn(c)}
      <3>1. \E c \in CntAges : CreatedIn(c)
        <4>1. \/ CreatedIn(<<0, 100800>>) \/ CreatedIn(<<100800, 432000>>)
              \/ CreatedIn(<<432000, 1296000>>) \/ CreatedIn(<<1296000, 2592000>>)
              \/ CreatedIn(<<2592000, 5256000>>) \/ CreatedIn(<<5256000, 10512000>>)
              \/ CreatedIn(<<10512000, Inf>>)
          BY <1>1, <1>2, <1>3, <2>a
        <4> QED BY <1>5, <4>1
      <3>2. \A c, d \in S : c = d
        BY <1>1, <1>2, <1>3, <1>5, <2>a
      <3>3. S # {}
        BY <3>1
      <3> HIDE DEF S
      <3>4. Cardinality(S) = 1
        BY <3>2, <3>3, ExactlyOne
      <3> QED BY <3>4 DEF S, InOneBucket
    <2> QED BY <1>7, <2>1, <2>2 DEF AgesPartition
  <1>8. CASE ~(file.number > 0 \/ file.expiredAt > ExpireDuration)
    <2>1. at = 0
      BY <1>6, <1>8
    <2>2. \A c \in AvgAges \cup CntAges : ~CreatedIn(c)
      BY <1>1, <1>2, <1>3, <1>4, <1>5, <2>1
    <2> QED BY <1>8, <2>2 DEF AgesPartition
  <1> QED BY <1>7, <1>8

-----------------------------------------------------------------------------
\* Every file is in one bucket of the histograms by size, whatever its size
\* (avgReplicasBySize, fileCntBySize).
THEOREM SizesArePartitioned == Spec => []SizesPartition
  BY RowsOfAChain, Sizes, PTL

\* Every sworker is in one bucket of the histogram by ratio (swokerRatio).
THEOREM RatiosArePartitioned == Spec => []RatiosPartition
  BY RowsOfAChain, RatioBuckets, PTL

\* Every group is in one bucket of the histograms by members, with its single
\* values and its shared bounds (groupCntByMemberCnt).
THEOREM MembersArePartitioned == Spec => []MembersPartition
  BY RowsOfAChain, MemberBuckets, PTL

\* On a chain as high as the oldest bound every file with a creation block is
\* in one bucket of the histograms by age, at its own height and at every later
\* one, and no file without is in any (ToFileDto, handlerFileCntByCreateTime).
THEOREM AgesArePartitioned == Spec => []AgesPartition
  BY RowsOfAChain, AgeBuckets, PTL

\* Every file with an expiry is in one bucket of the histogram by expiry,
\* however far the expiry lies behind or ahead (handlerFileCntByExpireTime).
THEOREM ExpiriesArePartitioned == Spec => []ExpiriesPartition
  BY RowsOfAChain, ExpiryBuckets, PTL
==============================================================================
