--------------------------- MODULE SworkerJob_proofs ---------------------------
(***************************************************************************)
(* Proofs about the refresh of the sworker tables: for every storage,      *)
(* every length of a page above 1, with the start key repeated or not, any *)
(* number of runs and counts under way, and any number of failures.        *)
(***************************************************************************)
EXTENDS SworkerJob, FiniteSetTheorems, WellFoundedInduction, TLAPS

-----------------------------------------------------------------------------
\* Every variable keeps the type of the one it stands for.
Storage == [keys : SUBSET Keys, fresh : SUBSET Keys]

TablesOK ==
    /\ report \in [Keys -> Nat] /\ pubkey \in [Keys -> Nat]
    /\ groups \in [Groups -> Seq(Nat)] /\ partial \subseteq Groups

RunsOK ==
    /\ sworkerActive \in BOOLEAN
    /\ pc \in [Runs -> {"idle", "clear", "reports", "groups"}]
    /\ start \in [Runs -> Nat]
    /\ snap = [q \in Runs |-> snap[q]]
    /\ \A r \in Runs : pc[r] \in {"reports", "groups"} => snap[r] \in Snapshots

CountsOK ==
    /\ vpc \in [Counters -> {"idle", "keys"}]
    /\ vstart \in [Counters -> Nat] /\ vsnap \in [Counters -> Storage]
    /\ late \in BOOLEAN /\ mixed \subseteq Counters

WatchOK ==
    /\ watch = [pc |-> watch.pc, kind |-> watch.kind, read |-> watch.read,
                want |-> watch.want, whole |-> watch.whole]
    /\ watch.pc \in {"idle", "first", "second", "shown"}
    /\ watch.kind \in {"storage", "groups"} /\ watch.whole \in BOOLEAN

STypeOK == TablesOK /\ RunsOK /\ CountsOK /\ WatchOK

\* The flag lets one run through.
Exclusive ==
    \A r \in Runs : pc[r] # "idle" =>
        sworkerActive /\ \A q \in Runs \ {r} : pc[q] = "idle"

\* A table holds the keys of F, each of them once.
Holds(table, F) == \A k \in Keys : table[k] = IF k \in F THEN 1 ELSE 0

UpTo(F, n) == {k \in F : k <= n}

\* The reports of the pages read so far are in the table, and then all of them.
Reported ==
    \A r \in Runs :
        /\ pc[r] = "reports" => Holds(report, UpTo(snap[r].fresh, start[r]))
        /\ pc[r] = "groups"  => Holds(report, snap[r].fresh)

\* The groups of the pages read so far have their row, unless an error lost it,
\* the others have none.
GroupRow(g, F) == groups[g] = <<Cardinality(Members[g] \cap F)>>

Grouped ==
    \A r \in Runs : \A g \in Groups :
        /\ pc[r] = "reports" => groups[g] = <<>>
        /\ pc[r] = "groups" /\ g > start[r] => groups[g] = <<>>
        /\ pc[r] = "groups" /\ g <= start[r] /\ g \notin partial => GroupRow(g, snap[r].fresh)
        /\ pc[r] = "groups" /\ g \in partial => g <= start[r]
        /\ pc[r] = "reports" => partial = {}

\* The tables hold what the followed gauge handler was started for, and no run
\* is about to change them.
Watched ==
    watch.pc \in {"first", "second"} /\ watch.whole =>
        \E F \in SUBSET Keys :
            \/ /\ watch.kind = "storage"
               /\ watch.want = <<Cardinality(F), Cardinality(F)>>
               /\ Holds(report, F)
               /\ \A r \in Runs : pc[r] # "reports"
            \/ /\ watch.kind = "groups"
               /\ watch.want = <<Cardinality(Groups),
                                 Cardinality({g \in Groups : Members[g] \cap F # {}})>>
               /\ \A g \in Groups : GroupRow(g, F)
               /\ \A r \in Runs : pc[r] \notin {"reports", "groups"}

\* What it has read so far is right.
Seen == watch.whole =>
    /\ watch.pc = "first"  => watch.read = <<>>
    /\ watch.pc = "second" => watch.read = <<watch.want[1]>>
    /\ watch.pc = "shown"  => watch.read = watch.want

\* A count that no emptying of the tables concerns is the only one; the table of
\* reports holds those of its cycle, that of public keys the pages it has read.
Counted ==
    \A c \in Counters \ mixed : vpc[c] = "keys" =>
        /\ \A d \in Counters \ {c} : vpc[d] = "idle"
        /\ \A r \in Runs : pc[r] # "reports"
        /\ Holds(report, vsnap[c].fresh)
        /\ Holds(pubkey, UpTo(vsnap[c].keys, vstart[c]))

\* If none was under way when the tables were emptied, none is until it starts.
Uncounted ==
    \A r \in Runs : pc[r] = "reports" /\ ~late =>
        (\A c \in Counters : vpc[c] = "idle") /\ Holds(pubkey, {})

SInv == /\ STypeOK /\ Exclusive /\ Reported /\ Grouped /\ Watched /\ Seen
        /\ Counted /\ Uncounted

-----------------------------------------------------------------------------
\* A set of numbers that is not empty has a least one.
LEMMA LeastExists ==
    ASSUME NEW T \in SUBSET Nat, T # {}
    PROVE  \E x \in T : \A y \in T : x <= y
  <1> DEFINE Less == OpToRel(<, Nat)
  <1>1. IsWellFoundedOn(Less, Nat)
    BY NatLessThanWellFounded
  <1>2. \A x, y \in Nat : y < x => <<y, x>> \in Less
    BY DEF OpToRel
  <1> HIDE DEF Less
  <1>3. PICK x \in T : \A y \in T : <<y, x>> \notin Less
    BY <1>1, WFMin
  <1>4. \A y \in T : ~(y < x)
    BY <1>2, <1>3
  <1> QED BY <1>3, <1>4

\* A finite one has a greatest: the one with the most elements below it.
LEMMA GreatestExists ==
    ASSUME NEW T \in SUBSET Nat, IsFiniteSet(T), T # {}
    PROVE  Max(T) \in T /\ \A y \in T : y <= Max(T)
  <1> DEFINE Below(x) == {y \in T : y < x}
             above == {Cardinality(T) - Cardinality(Below(x)) : x \in T}
  <1>a. \A x \in T : x \in Nat
    OBVIOUS
  <1>1. /\ Cardinality(T) \in Nat
        /\ \A x \in T : /\ IsFiniteSet(Below(x)) /\ Cardinality(Below(x)) \in Nat
                        /\ Cardinality(Below(x)) <= Cardinality(T)
    BY FS_CardinalityType, FS_Subset
  <1>2. above \in SUBSET Nat /\ above # {}
    <2> HIDE DEF Below
    <2>1. \A x \in T : Cardinality(T) - Cardinality(Below(x)) \in Nat
      BY <1>1
    <2> QED BY <2>1
  <1>3. PICK n \in above : \A m \in above : n <= m
    <2> HIDE DEF above
    <2> QED BY <1>2, LeastExists
  <1>4. PICK x \in T : n = Cardinality(T) - Cardinality(Below(x))
    BY <1>3
  <1>5. ASSUME NEW y \in T, x < y PROVE FALSE
    <2>1. Below(x) \cup {x} \in SUBSET Below(y)
      <3>1. \A z \in Below(x) : z \in T /\ z < y
        BY <1>5, <1>a
      <3> QED BY <3>1, <1>5
    <2>2. Cardinality(Below(x) \cup {x}) = Cardinality(Below(x)) + 1
      <3>1. x \notin Below(x)
        OBVIOUS
      <3> HIDE DEF Below
      <3> QED BY <3>1, <1>1, FS_AddElement
    <2>3. Cardinality(Below(x) \cup {x}) <= Cardinality(Below(y))
      <3> HIDE DEF Below
      <3> QED BY <2>1, <1>1, FS_Subset
    <2>4. n <= Cardinality(T) - Cardinality(Below(y))
      BY <1>3, <1>5
    <2>5. Cardinality(Below(x)) \in Nat /\ Cardinality(Below(y)) \in Nat
      BY <1>1, <1>5
    <2> HIDE DEF Below
    <2> QED BY <2>2, <2>3, <2>4, <2>5, <1>1, <1>4
  <1>6. \A y \in T : x >= y
    BY <1>5
  <1> QED BY <1>6 DEF Max

\* What is left of a page without the start key lies behind the start key.
LEMMA PageBehind ==
    ASSUME NEW S \in SUBSET Nat, NEW from \in Nat
    PROVE  \A k \in NextKeys(S, from, Page) : k \in S /\ k > from
  BY DEF NextKeys, GetKeysPaged

\* No key is left out before one of the page.
LEMMA PageWithoutGaps ==
    ASSUME NEW S \in SUBSET Nat, NEW from \in Nat,
           NEW x \in NextKeys(S, from, Page), NEW k \in S, from < k, k <= x
    PROVE  k \in NextKeys(S, from, Page)
  <1> DEFINE rest == {j \in S : IF Inclusive THEN j >= from ELSE j > from}
             Below(y) == {j \in rest : j < y}
  <1>1. x \in Nat /\ Cardinality(Below(x)) < Page
    BY DEF NextKeys, GetKeysPaged
  <1>2. k \in rest /\ k # from
    OBVIOUS
  <1>3. Below(k) \in SUBSET Below(x)
    <2>1. \A z \in Below(k) : z \in rest /\ z \in Nat /\ z < k
      OBVIOUS
    <2>2. \A z \in Below(k) : z \in rest /\ z < x
      BY <2>1, <1>1
    <2> QED BY <2>2
  <1>4. IsFiniteSet(Below(x))
    <2>1. Below(x) \in SUBSET Nat /\ \A j \in Below(x) : j <= x
      <3>1. \A j \in Below(x) : j \in Nat /\ j <= x
        BY <1>1
      <3> QED BY <3>1
    <2> HIDE DEF Below
    <2> QED BY <2>1, <1>1, FS_BoundedSetOfNaturals
  <1>5. Cardinality(Below(k)) < Page
    <2>1. /\ Cardinality(Below(k)) <= Cardinality(Below(x))
          /\ Cardinality(Below(k)) \in Nat /\ Cardinality(Below(x)) \in Nat
      <3> HIDE DEF Below
      <3> QED BY <1>3, <1>4, FS_Subset, FS_CardinalityType
    <2>2. Page \in Nat
      BY SworkerAssumption
    <2> HIDE DEF Below
    <2> QED BY <2>1, <2>2, <1>1
  <1> QED BY <1>2, <1>5 DEF NextKeys, GetKeysPaged

\* A page that is empty, or holds the start key only, is the last: the next key
\* would have a place in it, because a page is longer than 1.
LEMMA LastPage ==
    ASSUME NEW S \in SUBSET Nat, NEW from \in Nat, NextKeys(S, from, Page) = {}
    PROVE  \A k \in S : k <= from
  <1> SUFFICES ASSUME NEW k \in S, k > from PROVE FALSE
    OBVIOUS
  <1> DEFINE rest == {j \in S : IF Inclusive THEN j >= from ELSE j > from}
             behind == {j \in S : j > from}
             Below(y) == {j \in rest : j < y}
  <1>1. PICK m \in behind : \A j \in behind : m <= j
    <2>1. behind \in SUBSET Nat /\ behind # {}
      OBVIOUS
    <2> HIDE DEF behind
    <2> QED BY <2>1, LeastExists
  <1>2. Below(m) \in SUBSET {from}
    <2>1. \A z \in Below(m) : z \in S /\ z \in Nat /\ z >= from /\ z < m
      OBVIOUS
    <2>2. \A z \in Below(m) : z = from
      BY <2>1, <1>1
    <2> QED BY <2>2
  <1>3. IsFiniteSet({from}) /\ Cardinality({from}) = 1
    BY FS_Singleton
  <1>4. Cardinality(Below(m)) < Page
    <2>1. Cardinality(Below(m)) <= 1 /\ Cardinality(Below(m)) \in Nat
      <3> HIDE DEF Below
      <3> QED BY <1>2, <1>3, FS_Subset, FS_CardinalityType
    <2>2. Page \in Nat /\ Page > 1
      BY SworkerAssumption
    <2> HIDE DEF Below
    <2> QED BY <2>1, <2>2
  <1>5. m \in NextKeys(S, from, Page)
    BY <1>1, <1>4 DEF NextKeys, GetKeysPaged
  <1> QED BY <1>5

-----------------------------------------------------------------------------
\* As many as there are arguments, if a function tells them apart.
LEMMA Renamed ==
    ASSUME NEW A, IsFiniteSet(A), NEW f, f = [a \in A |-> f[a]],
           \A a, b \in A : f[a] = f[b] => a = b
    PROVE  Cardinality({f[a] : a \in A}) = Cardinality(A)
  <1> DEFINE B == {f[a] : a \in A}
  <1>1. \A a \in A : f[a] \in B
    OBVIOUS
  <1>2. \A y \in B : \E a \in A : f[a] = y
    OBVIOUS
  <1> HIDE DEF B
  <1>3. f \in [A -> B] /\ DOMAIN f = A
    BY <1>1
  <1>4. f \in Bijection(A, B)
    BY <1>2, <1>3 DEF Bijection, Injection, Surjection, IsInjective
  <1>5. Cardinality(B) = Cardinality(A)
    BY <1>4, FS_Bijection DEF ExistsBijection
  <1> QED BY <1>5 DEF B

\* A table that holds F has one row for every key of F.
LEMMA RowsHeld ==
    ASSUME NEW table, NEW F \in SUBSET Keys, Holds(table, F), NEW S \in SUBSET Keys
    PROVE  /\ RowsOf(table, S) = {<<k, 1>> : k \in S \cap F}
           /\ Rows(table, S) = Cardinality(S \cap F)
  <1>1. \A k \in S : 1 .. table[k] = IF k \in F THEN {1} ELSE {}
    <2>1. 1 .. 1 = {1} /\ 1 .. 0 = {}
      OBVIOUS
    <2>2. \A k \in S : table[k] = IF k \in F THEN 1 ELSE 0
      BY DEF Holds
    <2> QED BY <2>1, <2>2
  <1>2. RowsOf(table, S) = {<<k, 1>> : k \in S \cap F}
    <2>1. \A x : x \in RowsOf(table, S) <=> \E k \in S : x \in {k} \X (1 .. table[k])
      BY DEF RowsOf
    <2>2. \A k \in S : {k} \X (1 .. table[k]) = IF k \in F THEN {<<k, 1>>} ELSE {}
      <3>1. \A k \in S : {k} \X {1} = {<<k, 1>>} /\ {k} \X {} = {}
        OBVIOUS
      <3> QED BY <1>1, <3>1
    <2>3. \A x : x \in RowsOf(table, S) <=> \E k \in S \cap F : x = <<k, 1>>
      BY <2>1, <2>2
    <2> QED BY <2>3
  <1>3. Cardinality({<<k, 1>> : k \in S \cap F}) = Cardinality(S \cap F)
    <2> DEFINE A == S \cap F
               B == {<<k, 1>> : k \in A}
               f == [k \in A |-> <<k, 1>>]
    <2>1. /\ f = [k \in A |-> f[k]] /\ B = {f[k] : k \in A}
          /\ \A a, b \in A : f[a] = f[b] => a = b
      OBVIOUS
    <2>2. IsFiniteSet(A)
      BY SworkerAssumption, FS_Subset
    <2> HIDE DEF A, B, f
    <2>3. Cardinality(B) = Cardinality(A)
      BY <2>1, <2>2, Renamed
    <2> QED BY <2>3 DEF A, B
  <1> QED BY <1>2, <1>3 DEF Rows

\* A page that is inserted brings the table up to its last key.
LEMMA PageAdded ==
    ASSUME NEW table \in [Keys -> Nat], NEW S \in SUBSET Keys, NEW F \in SUBSET S,
           NEW from \in Nat, Holds(table, UpTo(F, from)),
           NEW page, page = NextKeys(S, from, Page), page # {}
    PROVE  /\ Max(page) \in Nat /\ Max(page) > from
           /\ Add(table, page \cap F) \in [Keys -> Nat]
           /\ Holds(Add(table, page \cap F), UpTo(F, Max(page)))
  <1>1. S \in SUBSET Nat /\ IsFiniteSet(S) /\ Keys \subseteq Nat
    BY SworkerAssumption, FS_Subset
  <1>2. \A k \in page : k \in S /\ k > from
    BY <1>1, PageBehind
  <1>3. Max(page) \in page /\ \A k \in page : k <= Max(page)
    <2>1. page \in SUBSET S
      BY <1>2
    <2> QED BY <2>1, <1>1, FS_Subset, GreatestExists
  <1>4. \A k \in S : from < k /\ k <= Max(page) => k \in page
    BY <1>1, <1>3, PageWithoutGaps
  <1>5. Add(table, page \cap F) \in [Keys -> Nat]
    BY DEF Add
  <1>6. ASSUME NEW k \in Keys
        PROVE Add(table, page \cap F)[k] = IF k \in UpTo(F, Max(page)) THEN 1 ELSE 0
    <2>1. Max(page) \in Nat /\ Max(page) > from /\ k \in Nat
      BY <1>1, <1>2, <1>3
    <2>2. table[k] = IF k \in F /\ k <= from THEN 1 ELSE 0
      BY DEF Holds, UpTo
    <2>3. Add(table, page \cap F)[k] = IF k \in page /\ k \in F THEN table[k] + 1 ELSE table[k]
      BY DEF Add
    <2>4. CASE k \in page /\ k \in F
      <3>1. ~(k <= from) /\ k <= Max(page)
        BY <2>4, <2>1, <1>2, <1>3
      <3> QED BY <3>1, <2>2, <2>3, <2>4 DEF UpTo
    <2>5. CASE k \in F /\ k \notin page
      <3>1. k <= Max(page) <=> k <= from
        BY <2>5, <2>1, <1>4
      <3> QED BY <3>1, <2>2, <2>3, <2>5 DEF UpTo
    <2>6. CASE k \notin F
      BY <2>2, <2>3, <2>6 DEF UpTo
    <2> QED BY <2>4, <2>5, <2>6
  <1> QED BY <1>1, <1>2, <1>3, <1>5, <1>6 DEF Holds

\* After the last page the table is complete.
LEMMA AllAdded ==
    ASSUME NEW S \in SUBSET Keys, NEW F \in SUBSET S, NEW from \in Nat,
           NextKeys(S, from, Page) = {}
    PROVE  UpTo(F, from) = F
  <1>1. S \in SUBSET Nat
    BY SworkerAssumption
  <1>2. \A k \in S : k <= from
    BY <1>1, LastPage
  <1> QED BY <1>2 DEF UpTo

\* What is stored at a block.
LEMMA SnapshotType ==
    ASSUME NEW s \in Snapshots
    PROVE  s.keys \in SUBSET Keys /\ s.fresh \in SUBSET s.keys
  BY SworkerAssumption

-----------------------------------------------------------------------------
\* Nothing runs, the tables are empty.
LEMMA SInit == Init => SInv
  <1> SUFFICES ASSUME Init PROVE SInv
    OBVIOUS
  <1> USE DEF Init
  <1>1. TablesOK
    BY DEF TablesOK, Empty
  <1>2. RunsOK /\ CountsOK /\ WatchOK
    BY DEF RunsOK, CountsOK, WatchOK, NoSnap, NoWatch, Storage
  <1>3. Exclusive /\ Reported /\ Grouped
    BY DEF Exclusive, Reported, Grouped
  <1>4. Watched /\ Seen
    BY DEF Watched, Seen, NoWatch
  <1>5. Counted /\ Uncounted
    BY DEF Counted, Uncounted
  <1> QED BY <1>1, <1>2, <1>3, <1>4, <1>5 DEF SInv, STypeOK

-----------------------------------------------------------------------------
\* What happens to the gauge handler that is followed.
LEMMA WatchStep ==
    ASSUME WatchOK, [Next]_vars
    PROVE  /\ WatchOK'
           /\ \/ UNCHANGED watch
              \/ /\ watch' = NoWatch
              \/ Outlived
              \/ \E r \in Runs : ReportsDone(r) \/ GroupsDone(r)
              \/ WatchFirst \/ WatchSecond
  <1> USE DEF WatchOK
  <1>1. ASSUME Outlived PROVE WatchOK'
    BY <1>1 DEF Outlived
  <1>2. ASSUME NEW kind \in {"storage", "groups"}, NEW want, NEW whole \in BOOLEAN,
               Watch(kind, want, whole)
        PROVE  WatchOK'
    BY <1>2 DEF Watch
  <1>3. CASE UNCHANGED watch
    BY <1>3
  <1>4. CASE watch' = NoWatch
    BY <1>4 DEF NoWatch
  <1>5. ASSUME NEW r \in Runs, Clear(r) \/ ClearFails(r) PROVE UNCHANGED watch \/ Outlived
    BY <1>5 DEF Clear, ClearFails
  <1>6. ASSUME NEW r \in Runs,
               Tick(r) \/ ReportPage(r) \/ ReadFails(r) \/ GroupPage(r) \/ GroupPageLoses(r)
        PROVE  UNCHANGED watch
    BY <1>6 DEF Tick, ReportPage, ReadFails, GroupPage, GroupPageLoses, gauges
  <1>7. ASSUME NEW r \in Runs, ReportsDone(r) PROVE WatchOK'
    BY <1>7, <1>2 DEF ReportsDone
  <1>8. ASSUME NEW r \in Runs, GroupsDone(r) PROVE WatchOK'
    BY <1>8, <1>2 DEF GroupsDone
  <1>9. ASSUME NEW c \in Counters, Count(c) PROVE UNCHANGED watch
    BY <1>9 DEF Count, PubKeyPage, PubKeysFail, CountVersions, gauges
  <1>10. CASE WatchFirst \/ WatchSecond
    BY <1>10 DEF WatchFirst, WatchSecond
  <1>11. CASE WatchFails \/ Crash
    BY <1>11, <1>4 DEF WatchFails, Crash
  <1>12. CASE UNCHANGED vars
    BY <1>12, <1>3 DEF vars, gauges
  <1> QED
    BY <1>1, <1>3, <1>5, <1>6, <1>7, <1>8, <1>9, <1>10, <1>11, <1>12 DEF Next, Refresh

\* The members of a group that are found have a row each, if their report is active.
LEMMA MembersFound ==
    ASSUME SInv, NEW r \in Runs, pc[r] = "groups",
           NEW g \in Groups, NEW found \in SUBSET Members[g]
    PROVE  /\ snap[r].fresh \in SUBSET Keys /\ found \in SUBSET Keys
           /\ Rows(report, found) = Cardinality(found \cap snap[r].fresh)
           /\ Rows(report, found) \in Nat
  <1>1. snap[r].fresh \in SUBSET Keys /\ Holds(report, snap[r].fresh)
    BY SnapshotType DEF SInv, Reported, STypeOK, RunsOK
  <1>2. found \in SUBSET Keys
    BY SworkerAssumption DEF Groups
  <1>3. Rows(report, found) = Cardinality(found \cap snap[r].fresh)
    BY <1>1, <1>2, RowsHeld
  <1>4. IsFiniteSet(found \cap snap[r].fresh)
    BY <1>2, SworkerAssumption, FS_Subset
  <1> QED BY <1>1, <1>2, <1>3, <1>4, FS_CardinalityType

\* The tables.
LEMMA TablesStep == SInv /\ [Next]_vars => TablesOK'
  <1> SUFFICES ASSUME SInv, [Next]_vars PROVE TablesOK'
    OBVIOUS
  <1>a. TablesOK /\ RunsOK /\ CountsOK
    BY DEF SInv, STypeOK
  <1> USE DEF TablesOK
  <1>b. Empty \in [Keys -> Nat] /\ [g \in Groups |-> <<>>] \in [Groups -> Seq(Nat)]
    BY DEF Empty
  <1>c. \A table \in [Keys -> Nat], S \in SUBSET Keys : Add(table, S) \in [Keys -> Nat]
    BY DEF Add
  <1>1. CASE UNCHANGED <<tables, partial>>
    BY <1>1, <1>a DEF tables
  <1>2. ASSUME NEW r \in Runs, Clear(r) \/ ClearFails(r) PROVE TablesOK'
    BY <1>2, <1>a, <1>b DEF Clear, ClearFails, tables
  <1>3. ASSUME NEW r \in Runs, ReportPage(r) PROVE TablesOK'
    <2>1. snap[r].fresh \in SUBSET Keys
      BY <1>3, <1>a, SnapshotType DEF ReportPage, RunsOK
    <2> QED BY <1>3, <1>a, <1>c, <2>1 DEF ReportPage
  <1>4. ASSUME NEW r \in Runs, GroupPage(r) \/ GroupPageLoses(r) PROVE TablesOK'
    <2>1. pc[r] = "groups" /\ UNCHANGED <<report, pubkey>>
      BY <1>4 DEF GroupPage, GroupPageLoses
    <2>2. PICK g \in NextKeys(Groups, start[r], Page) :
            /\ partial' \in {partial, partial \cup {g}}
            /\ \/ UNCHANGED groups
               \/ \E found \in SUBSET Members[g] :
                    groups' = [groups EXCEPT ![g] = Append(groups[g], Rows(report, found))]
      BY <1>4 DEF GroupPage, GroupPageLoses
    <2>3. g \in Groups
      BY DEF NextKeys, GetKeysPaged
    <2>4. \A found \in SUBSET Members[g] : Rows(report, found) \in Nat
      BY <2>1, <2>3, MembersFound
    <2>5. groups' \in [Groups -> Seq(Nat)]
      <3>1. CASE UNCHANGED groups
        BY <3>1, <1>a
      <3>2. ASSUME NEW found \in SUBSET Members[g],
                   groups' = [groups EXCEPT ![g] = Append(groups[g], Rows(report, found))]
            PROVE  groups' \in [Groups -> Seq(Nat)]
        <4>1. Append(groups[g], Rows(report, found)) \in Seq(Nat)
          BY <2>3, <2>4, <1>a
        <4> QED BY <3>2, <4>1, <2>3, <1>a
      <3> QED BY <2>2, <3>1, <3>2
    <2> QED BY <1>a, <2>1, <2>2, <2>3, <2>5
  <1>5. ASSUME NEW c \in Counters, PubKeyPage(c) PROVE TablesOK'
    <2>1. vsnap[c].keys \in SUBSET Keys
      BY <1>a DEF CountsOK, Storage
    <2>2. NextKeys(vsnap[c].keys, vstart[c], Page) \in SUBSET Keys
      BY <2>1 DEF NextKeys, GetKeysPaged
    <2> QED BY <1>5, <1>a, <1>c, <2>2 DEF PubKeyPage
  <1>6. ASSUME NEW r \in Runs, Tick(r) \/ ReportsDone(r) \/ ReadFails(r) \/ GroupsDone(r)
        PROVE  UNCHANGED <<tables, partial>>
    BY <1>6 DEF Tick, ReportsDone, ReadFails, GroupsDone
  <1>7. ASSUME NEW c \in Counters, PubKeysFail(c) \/ CountVersions(c)
        PROVE  UNCHANGED <<tables, partial>>
    BY <1>7 DEF PubKeysFail, CountVersions
  <1>8. CASE WatchFirst \/ WatchSecond \/ WatchFails \/ Crash \/ UNCHANGED vars
    BY <1>8, <1>1 DEF WatchFirst, WatchSecond, WatchFails, Crash, vars
  <1> QED BY <1>1, <1>2, <1>3, <1>4, <1>5, <1>6, <1>7, <1>8 DEF Next, Refresh, Count

\* The runs: the flag lets one of them through.
LEMMA RunsStep == SInv /\ [Next]_vars => RunsOK' /\ Exclusive'
  <1> SUFFICES ASSUME SInv, [Next]_vars PROVE RunsOK' /\ Exclusive'
    OBVIOUS
  <1>a. RunsOK /\ Exclusive
    BY DEF SInv, STypeOK
  <1> USE DEF RunsOK, Exclusive, run
  <1>1. CASE UNCHANGED <<sworkerActive, run>>
    BY <1>1, <1>a
  <1>2. ASSUME NEW r \in Runs, Tick(r) PROVE RunsOK' /\ Exclusive'
    BY <1>2, <1>a DEF Tick
  <1>3. ASSUME NEW r \in Runs, Clear(r) PROVE RunsOK' /\ Exclusive'
    <2>1. PICK s \in Snapshots : snap' = [snap EXCEPT ![r] = s]
      BY <1>3 DEF Clear
    <2>2. /\ pc[r] = "clear" /\ pc' = [pc EXCEPT ![r] = "reports"]
          /\ start' = [start EXCEPT ![r] = 0] /\ UNCHANGED sworkerActive
      BY <1>3 DEF Clear
    <2>3. RunsOK'
      BY <2>1, <2>2, <1>a
    <2>4. Exclusive'
      BY <2>2, <1>a
    <2> QED BY <2>3, <2>4
  <1>4. ASSUME NEW r \in Runs, pc[r] # "idle", Return(r) PROVE RunsOK' /\ Exclusive'
    <2>1. RunsOK'
      BY <1>4, <1>a DEF Return, Leave
    <2>2. \A q \in Runs : pc'[q] = "idle"
      BY <1>4, <1>a DEF Return, Leave
    <2> QED BY <2>1, <2>2
  <1>5. ASSUME NEW r \in Runs, ClearFails(r) \/ ReadFails(r) \/ GroupsDone(r)
        PROVE  RunsOK' /\ Exclusive'
    BY <1>5, <1>4 DEF ClearFails, ReadFails, GroupsDone
  <1>6. ASSUME NEW r \in Runs, NEW n \in Nat, pc[r] \in {"reports", "groups"},
               start' = [start EXCEPT ![r] = n], pc' \in {pc, [pc EXCEPT ![r] = "groups"]},
               UNCHANGED <<sworkerActive, snap>>
        PROVE  RunsOK' /\ Exclusive'
    <2>1. RunsOK'
      BY <1>6, <1>a
    <2>2. Exclusive'
      BY <1>6, <1>a
    <2> QED BY <2>1, <2>2
  <1>7. ASSUME NEW r \in Runs, ReportPage(r) PROVE RunsOK' /\ Exclusive'
    <2> DEFINE page == NextKeys(snap[r].keys, start[r], Page)
    <2>1. pc[r] = "reports" /\ page # {} /\ start' = [start EXCEPT ![r] = Max(page)]
          /\ UNCHANGED <<sworkerActive, pc, snap>>
      BY <1>7 DEF ReportPage
    <2>2. snap[r].keys \in SUBSET Keys /\ start[r] \in Nat
      BY <2>1, <1>a, SnapshotType
    <2>3. page \in SUBSET Keys
      BY <2>2 DEF NextKeys, GetKeysPaged
    <2> HIDE DEF page
    <2>4. Max(page) \in Nat
      <3>1. page \in SUBSET Nat /\ IsFiniteSet(page)
        BY <2>3, SworkerAssumption, FS_Subset
      <3> QED BY <2>1, <3>1, GreatestExists
    <2> QED BY <2>1, <2>4, <1>6
  <1>8. ASSUME NEW r \in Runs, ReportsDone(r) PROVE RunsOK' /\ Exclusive'
    BY <1>8, <1>6 DEF ReportsDone
  <1>9. ASSUME NEW r \in Runs, GroupPage(r) \/ GroupPageLoses(r) PROVE RunsOK' /\ Exclusive'
    <2>1. PICK g \in NextKeys(Groups, start[r], Page) : start' = [start EXCEPT ![r] = g]
      BY <1>9 DEF GroupPage, GroupPageLoses
    <2>2. g \in Nat
      BY SworkerAssumption DEF NextKeys, GetKeysPaged, Groups
    <2>3. pc[r] = "groups" /\ UNCHANGED <<sworkerActive, pc, snap>>
      BY <1>9 DEF GroupPage, GroupPageLoses
    <2> QED BY <2>1, <2>2, <2>3, <1>6
  <1>10. ASSUME NEW c \in Counters, Count(c) PROVE UNCHANGED <<sworkerActive, run>>
    BY <1>10 DEF Count, PubKeyPage, PubKeysFail, CountVersions
  <1>11. CASE WatchFirst \/ WatchSecond \/ WatchFails \/ UNCHANGED vars
    BY <1>11, <1>1 DEF WatchFirst, WatchSecond, WatchFails, vars
  <1>12. CASE Crash
    BY <1>12 DEF Crash
  <1> QED
    BY <1>1, <1>2, <1>3, <1>5, <1>7, <1>8, <1>9, <1>10, <1>11, <1>12 DEF Next, Refresh

\* The counts.
LEMMA CountsStep == SInv /\ [Next]_vars => CountsOK'
  <1> SUFFICES ASSUME SInv, [Next]_vars PROVE CountsOK'
    OBVIOUS
  <1>a. CountsOK /\ RunsOK
    BY DEF SInv, STypeOK
  <1> USE DEF CountsOK, ver, mixing
  <1>1. CASE UNCHANGED <<ver, mixing>>
    BY <1>1, <1>a
  <1>2. ASSUME Outlived, UNCHANGED ver PROVE CountsOK'
    BY <1>2, <1>a DEF Outlived, Counting
  <1>3. ASSUME NEW r \in Runs, Clear(r) \/ ClearFails(r) PROVE CountsOK'
    BY <1>1, <1>2, <1>3 DEF Clear, ClearFails
  <1>4. ASSUME NEW r \in Runs,
               Tick(r) \/ ReportPage(r) \/ ReadFails(r) \/ GroupPage(r) \/ GroupPageLoses(r)
                 \/ GroupsDone(r)
        PROVE  UNCHANGED <<ver, mixing>>
    BY <1>4 DEF Tick, ReportPage, ReadFails, GroupPage, GroupPageLoses, GroupsDone
  <1>5. ASSUME NEW r \in Runs, ReportsDone(r) PROVE CountsOK'
    <2>1. PICK c \in Counters, s \in Snapshots :
            /\ vpc' = [vpc EXCEPT ![c] = "keys"]
            /\ vsnap' = [vsnap EXCEPT ![c] = [keys |-> s.keys, fresh |-> snap[r].fresh]]
            /\ vstart' = [vstart EXCEPT ![c] = 0]
            /\ mixed' = IF late THEN mixed \cup {c} ELSE mixed
            /\ late' = FALSE
      BY <1>5 DEF ReportsDone
    <2>2. [keys |-> s.keys, fresh |-> snap[r].fresh] \in Storage
      <3>1. pc[r] = "reports"
        BY <1>5 DEF ReportsDone
      <3>2. s.keys \in SUBSET Keys /\ snap[r].fresh \in SUBSET Keys
        BY <3>1, <1>a, SnapshotType DEF RunsOK
      <3> QED BY <3>2 DEF Storage
    <2>3. vpc' \in [Counters -> {"idle", "keys"}] /\ vstart' \in [Counters -> Nat]
      BY <2>1, <1>a
    <2>4. vsnap' \in [Counters -> Storage]
      BY <2>1, <2>2, <1>a
    <2> QED BY <2>1, <2>3, <2>4, <1>a
  <1>6. ASSUME NEW c \in Counters, Stop(c), UNCHANGED late PROVE CountsOK'
    <2>1. NoSnap \in Storage
      BY DEF NoSnap, Storage
    <2> QED BY <2>1, <1>6, <1>a DEF Stop
  <1>7. ASSUME NEW c \in Counters, PubKeysFail(c) \/ CountVersions(c) PROVE CountsOK'
    BY <1>6, <1>7 DEF PubKeysFail, CountVersions
  <1>8. ASSUME NEW c \in Counters, PubKeyPage(c) PROVE CountsOK'
    <2> DEFINE page == NextKeys(vsnap[c].keys, vstart[c], Page)
    <2>1. page # {} /\ vstart' = [vstart EXCEPT ![c] = Max(page)]
          /\ UNCHANGED <<vpc, vsnap, late, mixed>>
      BY <1>8 DEF PubKeyPage
    <2>2. vsnap[c].keys \in SUBSET Keys
      BY <1>a DEF Storage
    <2>3. page \in SUBSET Keys
      BY <2>2 DEF NextKeys, GetKeysPaged
    <2> HIDE DEF page
    <2>4. Max(page) \in Nat
      <3>1. page \in SUBSET Nat /\ IsFiniteSet(page)
        BY <2>3, SworkerAssumption, FS_Subset
      <3> QED BY <2>1, <3>1, GreatestExists
    <2> QED BY <2>1, <2>4, <1>a
  <1>9. CASE WatchFirst \/ WatchSecond \/ WatchFails \/ UNCHANGED vars
    BY <1>9, <1>1 DEF WatchFirst, WatchSecond, WatchFails, vars
  <1>10. CASE Crash
    <2>1. NoSnap \in Storage
      BY DEF NoSnap, Storage
    <2> QED BY <2>1, <1>10, <1>a DEF Crash
  <1> QED
    BY <1>1, <1>3, <1>4, <1>5, <1>7, <1>8, <1>9, <1>10 DEF Next, Refresh, Count

-----------------------------------------------------------------------------
\* While a run goes on the others are idle, and stay so.
LEMMA OthersIdle ==
    ASSUME SInv, NEW r \in Runs, NEW q \in Runs, q # r, Tick(q) \/ Refresh(q)
    PROVE  pc[r] = "idle" /\ pc'[r] = "idle"
  <1>a. Exclusive /\ pc \in [Runs -> {"idle", "clear", "reports", "groups"}]
    BY DEF SInv, STypeOK, RunsOK
  <1>1. pc'[r] = pc[r]
    BY <1>a DEF Tick, Refresh, Clear, ClearFails, ReportPage, ReportsDone, ReadFails,
                GroupPage, GroupPageLoses, GroupsDone, Return, Leave
  <1>2. CASE Tick(q)
    BY <1>1, <1>2, <1>a DEF Tick, Exclusive
  <1>3. CASE Refresh(q)
    <2>1. pc[q] # "idle"
      BY <1>3 DEF Refresh, Clear, ClearFails, ReportPage, ReportsDone, ReadFails,
                  GroupPage, GroupPageLoses, GroupsDone
    <2> QED BY <2>1, <1>1, <1>a DEF Exclusive
  <1> QED BY <1>2, <1>3

\* The reports: pages add up to the active reports of the block, as no other
\* run is let through while one reads them.
LEMMA ReportedStep == SInv /\ [Next]_vars => Reported'
  <1> SUFFICES ASSUME SInv, [Next]_vars, NEW r \in Runs
               PROVE  /\ pc'[r] = "reports" => Holds(report, UpTo(snap[r].fresh, start[r]))'
                      /\ pc'[r] = "groups"  => Holds(report, snap[r].fresh)'
    BY DEF Reported
  <1>a. RunsOK /\ Exclusive /\ Reported /\ TablesOK
    BY DEF SInv, STypeOK
  <1>b. pc \in [Runs -> {"idle", "clear", "reports", "groups"}]
    BY <1>a DEF RunsOK
  <1> DEFINE Goal == /\ pc'[r] = "reports" => Holds(report, UpTo(snap[r].fresh, start[r]))'
                     /\ pc'[r] = "groups"  => Holds(report, snap[r].fresh)'
  <1>1. ASSUME UNCHANGED <<report, run>> PROVE Goal
    BY <1>1, <1>a DEF Reported, run, Holds, UpTo
  \* A step of another run: this one is idle.
  <1>2. ASSUME NEW q \in Runs, Tick(q) \/ Refresh(q), q # r PROVE Goal
    BY <1>2, OthersIdle
  <1>3. CASE Tick(r) \/ ClearFails(r) \/ ReadFails(r) \/ GroupsDone(r)
    BY <1>3, <1>b DEF Tick, ClearFails, ReadFails, GroupsDone, Return, Leave
  <1>4. CASE Clear(r)
    <2>1. pc' = [pc EXCEPT ![r] = "reports"] /\ start'[r] = 0 /\ report' = Empty
      BY <1>4, <1>a DEF Clear, RunsOK
    <2>2. \A k \in Keys : ~(k <= 0)
      BY SworkerAssumption
    <2> QED BY <2>1, <2>2, <1>b DEF Holds, UpTo, Empty
  <1>5. CASE ReportPage(r)
    <2> DEFINE S == snap[r].keys
               F == snap[r].fresh
               page == NextKeys(S, start[r], Page)
    <2>1. /\ pc[r] = "reports" /\ page # {} /\ UNCHANGED <<pc, snap>>
          /\ report' = Add(report, page \cap F)
          /\ start' = [start EXCEPT ![r] = Max(page)]
      BY <1>5 DEF ReportPage
    <2>2. S \in SUBSET Keys /\ F \in SUBSET S /\ start[r] \in Nat
      BY <2>1, <1>a, SnapshotType DEF RunsOK
    <2>3. report \in [Keys -> Nat] /\ Holds(report, UpTo(F, start[r]))
      BY <2>1, <1>a DEF Reported, TablesOK
    <2>4. start'[r] = Max(page) /\ snap'[r].fresh = F
      BY <2>1, <1>a DEF RunsOK
    <2> HIDE DEF S, F
    <2>5. Holds(Add(report, page \cap F), UpTo(F, Max(page)))
      BY <2>1, <2>2, <2>3, PageAdded
    <2> HIDE DEF page
    <2>6. Holds(report, UpTo(snap[r].fresh, start[r]))'
      BY <2>1, <2>4, <2>5 DEF Holds, UpTo
    <2> QED BY <2>1, <2>6
  <1>6. CASE ReportsDone(r)
    <2>1. /\ pc[r] = "reports" /\ NextKeys(snap[r].keys, start[r], Page) = {}
          /\ pc' = [pc EXCEPT ![r] = "groups"] /\ UNCHANGED <<report, snap>>
      BY <1>6 DEF ReportsDone, tables
    <2>2. /\ snap[r].keys \in SUBSET Keys /\ snap[r].fresh \in SUBSET snap[r].keys
          /\ start[r] \in Nat
      BY <2>1, <1>a, SnapshotType DEF RunsOK
    <2>3. UpTo(snap[r].fresh, start[r]) = snap[r].fresh
      BY <2>1, <2>2, AllAdded
    <2>4. Holds(report, snap[r].fresh)
      BY <2>1, <2>3, <1>a DEF Reported
    <2> QED BY <2>1, <2>4, <1>b DEF Holds
  <1>7. CASE GroupPage(r) \/ GroupPageLoses(r)
    <2>1. pc[r] = "groups" /\ UNCHANGED <<pc, snap, report>>
      BY <1>7 DEF GroupPage, GroupPageLoses
    <2> QED BY <2>1, <1>a DEF Reported, Holds
  <1>8. ASSUME NEW c \in Counters, Count(c) PROVE Goal
    BY <1>8, <1>1 DEF Count, PubKeyPage, PubKeysFail, CountVersions, tables
  <1>9. CASE WatchFirst \/ WatchSecond \/ WatchFails \/ UNCHANGED vars
    BY <1>9, <1>1 DEF WatchFirst, WatchSecond, WatchFails, vars, tables
  <1>10. CASE Crash
    BY <1>10 DEF Crash
  <1> QED
    BY <1>2, <1>3, <1>4, <1>5, <1>6, <1>7, <1>8, <1>9, <1>10 DEF Next, Refresh

\* The groups: every page adds the row of the next group, whose members' reports
\* are all there by then.
LEMMA GroupedStep == SInv /\ [Next]_vars => Grouped'
  <1> SUFFICES ASSUME SInv, [Next]_vars, NEW r \in Runs, NEW h \in Groups
               PROVE  /\ pc'[r] = "reports" => groups'[h] = <<>> /\ partial' = {}
                      /\ pc'[r] = "groups" =>
                           /\ h > start'[r] => groups'[h] = <<>>
                           /\ h <= start'[r] /\ h \notin partial' =>
                                groups'[h] = <<Cardinality(Members[h] \cap snap'[r].fresh)>>
                           /\ h \in partial' => h <= start'[r]
    BY DEF Grouped, GroupRow
  <1>a. RunsOK /\ Exclusive /\ Reported /\ TablesOK /\ Grouped
    BY DEF SInv, STypeOK
  <1>b. pc \in [Runs -> {"idle", "clear", "reports", "groups"}]
    BY <1>a DEF RunsOK
  <1>c. Groups \in SUBSET Nat /\ \A g \in Groups : g > 0
    BY SworkerAssumption DEF Groups
  <1> DEFINE Goal == /\ pc'[r] = "reports" => groups'[h] = <<>> /\ partial' = {}
                     /\ pc'[r] = "groups" =>
                          /\ h > start'[r] => groups'[h] = <<>>
                          /\ h <= start'[r] /\ h \notin partial' =>
                               groups'[h] = <<Cardinality(Members[h] \cap snap'[r].fresh)>>
                          /\ h \in partial' => h <= start'[r]
  <1>1. ASSUME UNCHANGED <<groups, partial, run>> PROVE Goal
    BY <1>1, <1>a DEF Grouped, GroupRow, run
  <1>2. ASSUME NEW q \in Runs, Tick(q) \/ Refresh(q), q # r PROVE Goal
    BY <1>2, OthersIdle
  <1>3. CASE Tick(r) \/ ClearFails(r) \/ ReadFails(r) \/ GroupsDone(r)
    BY <1>3, <1>b DEF Tick, ClearFails, ReadFails, GroupsDone, Return, Leave
  <1>4. CASE Clear(r)
    BY <1>4, <1>b DEF Clear
  <1>5. CASE ReportPage(r)
    BY <1>5, <1>b, <1>a DEF ReportPage, Grouped
  <1>6. CASE ReportsDone(r)
    <2>1. /\ pc[r] = "reports" /\ pc' = [pc EXCEPT ![r] = "groups"] /\ start'[r] = 0
          /\ UNCHANGED <<groups, partial>>
      BY <1>6, <1>a DEF ReportsDone, RunsOK, tables
    <2>2. groups[h] = <<>> /\ partial = {} /\ ~(h <= 0)
      BY <2>1, <1>a, <1>c DEF Grouped
    <2> QED BY <2>1, <2>2, <1>b
  <1>7. CASE GroupPage(r) \/ GroupPageLoses(r)
    <2> DEFINE page == NextKeys(Groups, start[r], Page)
    <2>1. PICK g \in page :
            /\ \A i \in page : g <= i
            /\ start' = [start EXCEPT ![r] = g]
            /\ \/ /\ partial' = partial
                  /\ groups' = [groups EXCEPT ![g] = Append(groups[g], Rows(report, Members[g]))]
               \/ /\ partial' = partial \cup {g}
                  /\ groups' = groups \/ \E found \in SUBSET Members[g] :
                       groups' = [groups EXCEPT ![g] = Append(groups[g], Rows(report, found))]
      BY <1>7 DEF GroupPage, GroupPageLoses
    <2>2. pc[r] = "groups" /\ UNCHANGED <<pc, snap>> /\ start[r] \in Nat
      BY <1>7, <1>a DEF GroupPage, GroupPageLoses, RunsOK
    <2>3. g \in Groups /\ g > start[r] /\ g \in Nat /\ h \in Nat
      BY <2>2, <1>c, PageBehind
    <2>4. start'[r] = g
      BY <2>1, <1>a DEF RunsOK
    <2>5. start[r] < h /\ h <= g => h = g
      <3>1. start[r] < h /\ h <= g => h \in page
        BY <2>1, <2>2, <1>c, PageWithoutGaps
      <3> HIDE DEF page
      <3> QED BY <3>1, <2>1, <2>3
    <2> HIDE DEF page
    <2>6. h # g => groups'[h] = groups[h]
      BY <2>1, <1>a DEF TablesOK
    <2>7. ASSUME h > g PROVE Goal
      <3>1. h > start[r] /\ h # g /\ h \notin partial /\ ~(h <= g)
        BY <2>2, <2>3, <2>7, <1>a DEF Grouped
      <3> QED BY <3>1, <2>1, <2>2, <2>4, <2>6, <1>a DEF Grouped
    <2>8. CASE h = g
      <3>1. groups[g] = <<>> /\ g \notin partial
        BY <2>2, <2>3, <1>a DEF Grouped
      <3>2. Rows(report, Members[g]) = Cardinality(Members[g] \cap snap[r].fresh)
        BY <2>2, <2>3, MembersFound
      <3>3. partial' = partial =>
              groups'[g] = <<Cardinality(Members[g] \cap snap[r].fresh)>>
        <4> SUFFICES ASSUME partial' = partial
                     PROVE  groups'[g] = <<Cardinality(Members[g] \cap snap[r].fresh)>>
          OBVIOUS
        <4> DEFINE n == Rows(report, Members[g])
        <4>1. groups' = [groups EXCEPT ![g] = Append(groups[g], n)]
          BY <2>1, <3>1
        <4> HIDE DEF n
        <4>2. groups'[g] = Append(<<>>, n)
          BY <4>1, <2>3, <3>1, <1>a DEF TablesOK
        <4>3. Append(<<>>, n) = <<n>>
          OBVIOUS
        <4> QED BY <4>2, <4>3, <3>2 DEF n
      <3>4. g \notin partial' => partial' = partial
        BY <2>1
      <3> QED BY <3>3, <3>4, <2>2, <2>3, <2>4, <2>8
    <2>9. ASSUME h <= start[r] PROVE Goal
      <3>1. h # g /\ h <= g /\ ~(h > g)
        BY <2>2, <2>3, <2>9
      <3>2. h \notin partial' => h \notin partial
        BY <2>1
      <3> QED BY <3>1, <3>2, <2>1, <2>2, <2>4, <2>6, <2>9, <1>a DEF Grouped, GroupRow
    <2> QED BY <2>2, <2>3, <2>5, <2>7, <2>8, <2>9
  <1>8. ASSUME NEW c \in Counters, Count(c) PROVE Goal
    BY <1>8, <1>1 DEF Count, PubKeyPage, PubKeysFail, CountVersions, tables
  <1>9. CASE WatchFirst \/ WatchSecond \/ WatchFails \/ UNCHANGED vars
    BY <1>9, <1>1 DEF WatchFirst, WatchSecond, WatchFails, vars, tables
  <1>10. CASE Crash
    BY <1>10 DEF Crash
  <1> QED
    BY <1>2, <1>3, <1>4, <1>5, <1>6, <1>7, <1>8, <1>9, <1>10 DEF Next, Refresh

-----------------------------------------------------------------------------
\* As many pairs as there are first components.
LEMMA PairsCounted ==
    ASSUME NEW A, IsFiniteSet(A)
    PROVE  Cardinality({<<a, 1>> : a \in A}) = Cardinality(A)
  <1> DEFINE f == [a \in A |-> <<a, 1>>]
  <1>1. /\ f = [a \in A |-> f[a]] /\ {<<a, 1>> : a \in A} = {f[a] : a \in A}
        /\ \A a, b \in A : f[a] = f[b] => a = b
    OBVIOUS
  <1> HIDE DEF f
  <1> QED BY <1>1, Renamed

\* If every group has its row, the two queries of handlerGroupCnt count the
\* groups, and those with an active member.
LEMMA GroupsHeld ==
    ASSUME NEW F \in SUBSET Keys, \A g \in Groups : GroupRow(g, F)
    PROVE  /\ Cardinality(GroupRows) = Cardinality(Groups)
           /\ Cardinality({row \in GroupRows : groups[row[1]][row[2]] > 0})
                = Cardinality({g \in Groups : Members[g] \cap F # {}})
  <1>1. IsFiniteSet(Groups)
    BY SworkerAssumption DEF Groups
  <1>2. ASSUME NEW g \in Groups
        PROVE  /\ DOMAIN groups[g] = {1}
               /\ groups[g][1] > 0 <=> Members[g] \cap F # {}
    <2> DEFINE n == Cardinality(Members[g] \cap F)
    <2>1. groups[g] = <<n>>
      BY DEF GroupRow
    <2>2. IsFiniteSet(Members[g] \cap F)
      BY SworkerAssumption, FS_Subset
    <2>3. n \in Nat /\ (n = 0 <=> Members[g] \cap F = {})
      BY <2>2, FS_CardinalityType, FS_EmptySet
    <2> HIDE DEF n
    <2>4. groups[g][1] = n /\ DOMAIN groups[g] = {1}
      BY <2>1
    <2> QED BY <2>3, <2>4
  <1>3. GroupRows = {<<g, 1>> : g \in Groups}
    <2>1. \A x : x \in GroupRows <=> \E g \in Groups : x \in {g} \X DOMAIN groups[g]
      BY DEF GroupRows
    <2>2. \A g \in Groups : {g} \X DOMAIN groups[g] = {<<g, 1>>}
      <3>1. \A g \in Groups : {g} \X {1} = {<<g, 1>>}
        OBVIOUS
      <3> QED BY <1>2, <3>1
    <2> QED BY <2>1, <2>2
  <1>4. Cardinality(GroupRows) = Cardinality(Groups)
    BY <1>1, <1>3, PairsCounted
  <1> DEFINE working == {g \in Groups : Members[g] \cap F # {}}
  <1>5. {row \in GroupRows : groups[row[1]][row[2]] > 0} = {<<g, 1>> : g \in working}
    BY <1>2, <1>3
  <1>6. Cardinality({<<g, 1>> : g \in working}) = Cardinality(working)
    <2>1. IsFiniteSet(working)
      BY <1>1, FS_Subset
    <2> HIDE DEF working
    <2> QED BY <2>1, PairsCounted
  <1> QED BY <1>4, <1>5, <1>6

\* The second query is read behind the first.
LEMMA AppendToOne == \A x, y : Append(<<x>>, y) = <<x, y>>
  <1> TAKE x, y
  <1>1. <<x>> \in Seq({x, y}) /\ y \in {x, y} /\ Len(<<x>>) = 1
    OBVIOUS
  <1>2. Append(<<x>>, y) = [i \in 1 .. 2 |-> IF i = 2 THEN y ELSE x]
    BY <1>1
  <1>3. <<x, y>> = [i \in 1 .. 2 |-> IF i = 2 THEN y ELSE x]
    OBVIOUS
  <1> QED BY <1>2, <1>3

\* The followed gauge handler finds the tables as they were when it was started,
\* or somebody has emptied them, and it is not whole.
LEMMA WatchedStep == SInv /\ [Next]_vars => Watched' /\ Seen'
  <1> SUFFICES ASSUME SInv, [Next]_vars PROVE Watched' /\ Seen'
    OBVIOUS
  <1>a. RunsOK /\ Exclusive /\ Reported /\ Grouped /\ WatchOK /\ Watched /\ Seen
    BY DEF SInv, STypeOK
  <1>b. pc \in [Runs -> {"idle", "clear", "reports", "groups"}]
    BY <1>a DEF RunsOK
  \* The tables stay.
  <1>1. ASSUME UNCHANGED <<report, groups, watch>>,
               \A q \in Runs : pc'[q] \in {"idle", "clear", pc[q]}
        PROVE  Watched' /\ Seen'
    <2>1. Seen'
      BY <1>1, <1>a DEF Seen
    <2>2. ASSUME watch.pc \in {"first", "second"}, watch.whole PROVE Watched'
      BY <1>1, <1>a, <2>2 DEF Watched, Holds, GroupRow
    <2>3. Watched'
      BY <2>2, <1>1 DEF Watched
    <2> QED BY <2>1, <2>3
  <1>2. CASE watch' = NoWatch
    BY <1>2 DEF Watched, Seen, NoWatch
  <1>3. ASSUME Outlived PROVE Watched' /\ Seen'
    <2>1. /\ watch'.pc = watch.pc /\ watch'.read = watch.read /\ watch'.want = watch.want
          /\ watch'.whole = (watch.whole /\ watch.pc \notin {"first", "second"})
      BY <1>3, <1>a DEF Outlived, WatchOK
    <2>2. Watched'
      BY <2>1 DEF Watched
    <2>3. Seen'
      BY <2>1, <1>a DEF Seen
    <2> QED BY <2>2, <2>3
  <1>4. ASSUME NEW r \in Runs, Tick(r) PROVE Watched' /\ Seen'
    BY <1>4, <1>1, <1>b DEF Tick, tables, gauges
  <1>5. ASSUME NEW r \in Runs, Clear(r) PROVE Watched' /\ Seen'
    BY <1>5, <1>3 DEF Clear
  <1>6. ASSUME NEW r \in Runs, Return(r) PROVE \A q \in Runs : pc'[q] \in {"idle", "clear", pc[q]}
    BY <1>6, <1>b DEF Return, Leave
  <1>7. ASSUME NEW r \in Runs, ClearFails(r) PROVE Watched' /\ Seen'
    BY <1>7, <1>1, <1>3, <1>6 DEF ClearFails, tables
  <1>8. ASSUME NEW r \in Runs, ReadFails(r) PROVE Watched' /\ Seen'
    BY <1>8, <1>1, <1>6 DEF ReadFails, tables, gauges
  <1>9. ASSUME NEW r \in Runs, pc[r] = "reports"
        PROVE  ~(watch.pc \in {"first", "second"} /\ watch.whole)
    BY <1>9, <1>a DEF Watched
  <1>10. ASSUME NEW r \in Runs, ReportPage(r) PROVE Watched' /\ Seen'
    BY <1>10, <1>9, <1>a DEF ReportPage, gauges, Watched, Seen
  <1>11. ASSUME NEW r \in Runs, ReportsDone(r) PROVE Watched' /\ Seen'
    <2> PICK F : F = snap[r].fresh
      OBVIOUS
    <2> DEFINE n == Cardinality(F)
    <2>1. /\ pc[r] = "reports" /\ pc' = [pc EXCEPT ![r] = "groups"]
          /\ Watch("storage", <<n, n>>, TRUE)
          /\ UNCHANGED <<report, groups, snap>>
      BY <1>11 DEF ReportsDone, tables
    <2>2. CASE watch.pc \in {"first", "second"}
      <3>1. watch' = watch /\ ~watch.whole
        BY <2>1, <2>2, <1>9 DEF Watch
      <3> QED BY <3>1 DEF Watched, Seen
    <2>3. CASE watch.pc \notin {"first", "second"}
      <3>1. watch' = [pc |-> "first", kind |-> "storage", read |-> <<>>,
                      want |-> <<n, n>>, whole |-> TRUE]
        BY <2>1, <2>3 DEF Watch
      <3>2. F \in SUBSET Keys
        BY <2>1, <1>a, SnapshotType DEF RunsOK
      <3>3. Holds(report, F)'
        <4>1. pc'[r] = "groups" /\ snap'[r].fresh = F
          BY <2>1, <1>b
        <4>2. Holds(report, snap[r].fresh)'
          BY <4>1, ReportedStep DEF Reported
        <4> QED BY <4>1, <4>2 DEF Holds
      <3>4. \A q \in Runs : pc'[q] # "reports"
        BY <2>1, <1>a, <1>b DEF Exclusive
      <3>5. Seen'
        <4> HIDE DEF n
        <4> QED BY <3>1 DEF Seen
      <3>6. watch'.kind = "storage" /\ watch'.want = <<Cardinality(F), Cardinality(F)>>
        BY <3>1
      <3>7. Watched'
        BY <3>2, <3>3, <3>4, <3>6 DEF Watched, Holds
      <3> QED BY <3>5, <3>7
    <2> QED BY <2>2, <2>3
  <1>12. ASSUME NEW r \in Runs, GroupPage(r) \/ GroupPageLoses(r) PROVE Watched' /\ Seen'
    <2>1. pc[r] = "groups" /\ UNCHANGED <<pc, report, watch>>
      BY <1>12 DEF GroupPage, GroupPageLoses, gauges
    <2>2. Watched'
      BY <2>1, <1>a DEF Watched, Holds
    <2> QED BY <2>1, <2>2, <1>a DEF Seen
  <1>13. ASSUME NEW r \in Runs, GroupsDone(r) PROVE Watched' /\ Seen'
    <2> PICK F : F = snap[r].fresh
      OBVIOUS
    <2> DEFINE want == <<Cardinality(Groups),
                         Cardinality({g \in Groups : Members[g] \cap F # {}})>>
    <2>1. /\ pc[r] = "groups" /\ pc' = [pc EXCEPT ![r] = "idle"]
          /\ NextKeys(Groups, start[r], Page) = {}
          /\ Watch("groups", want, partial = {})
          /\ UNCHANGED <<report, groups>>
      BY <1>13 DEF GroupsDone, tables, Return, Leave
    <2>2. CASE watch.pc \in {"first", "second"}
      <3>1. watch' = watch
        BY <2>1, <2>2 DEF Watch
      <3> QED BY <3>1, <2>1, <1>1, <1>b
    <2>3. CASE watch.pc \notin {"first", "second"}
      <3>1. watch' = [pc |-> "first", kind |-> "groups", read |-> <<>>,
                      want |-> want, whole |-> (partial = {})]
        BY <2>1, <2>3 DEF Watch
      <3>2. F \in SUBSET Keys /\ start[r] \in Nat
        BY <2>1, <1>a, SnapshotType DEF RunsOK
      <3>3. \A g \in Groups : g <= start[r]
        BY <2>1, <3>2, LastPage, SworkerAssumption DEF Groups
      <3>4. partial = {} => \A g \in Groups : GroupRow(g, F)'
        BY <2>1, <3>3, <1>a DEF Grouped, GroupRow
      <3>5. \A q \in Runs : pc'[q] \notin {"reports", "groups"}
        BY <2>1, <1>a, <1>b DEF Exclusive
      <3>6. Seen'
        <4> HIDE DEF want
        <4> QED BY <3>1 DEF Seen
      <3>7. Watched'
        <4>1. watch'.kind = "groups" /\ watch'.want = want /\ watch'.whole = (partial = {})
          BY <3>1
        <4> QED BY <4>1, <3>2, <3>4, <3>5 DEF Watched, GroupRow
      <3> QED BY <3>6, <3>7
    <2> QED BY <2>2, <2>3
  <1>14. ASSUME NEW c \in Counters, Count(c) PROVE Watched' /\ Seen'
    <2>1. UNCHANGED <<report, groups, watch, pc>>
      BY <1>14 DEF Count, PubKeyPage, PubKeysFail, CountVersions, tables, gauges, run
    <2> QED BY <2>1, <1>1
  <1>15. CASE WatchFirst
    <2> DEFINE n == IF watch.kind = "storage" THEN Rows(report, Keys) ELSE Cardinality(GroupRows)
    <2>1. /\ watch.pc = "first" /\ watch' = [watch EXCEPT !.pc = "second", !.read = <<n>>]
          /\ UNCHANGED <<report, groups, pc>>
      BY <1>15 DEF WatchFirst, tables, run
    <2>2. /\ watch'.pc = "second" /\ watch'.read = <<n>> /\ watch'.kind = watch.kind
          /\ watch'.want = watch.want /\ watch'.whole = watch.whole
      <3> HIDE DEF n
      <3> QED BY <2>1, <1>a DEF WatchOK
    <2>3. watch.whole => n = watch.want[1]
      <3> SUFFICES ASSUME watch.whole PROVE n = watch.want[1]
        OBVIOUS
      <3>1. PICK F \in SUBSET Keys :
              \/ /\ watch.kind = "storage" /\ Holds(report, F)
                 /\ watch.want = <<Cardinality(F), Cardinality(F)>>
              \/ /\ watch.kind = "groups" /\ \A g \in Groups : GroupRow(g, F)
                 /\ watch.want = <<Cardinality(Groups),
                                   Cardinality({g \in Groups : Members[g] \cap F # {}})>>
        BY <2>1, <1>a DEF Watched
      <3>2. CASE watch.kind = "storage"
        <4>1. Rows(report, Keys) = Cardinality(F)
          <5>1. Keys \cap F = F /\ Holds(report, F)
            BY <3>1, <3>2
          <5> QED BY <5>1, RowsHeld
        <4> QED BY <3>1, <3>2, <4>1
      <3>3. CASE watch.kind = "groups"
        <4>1. Cardinality(GroupRows) = Cardinality(Groups)
          BY <3>1, <3>3, GroupsHeld
        <4> QED BY <3>1, <3>3, <4>1
      <3> QED BY <3>1, <3>2, <3>3
    <2> HIDE DEF n
    <2>4. Watched'
      BY <2>1, <2>2, <1>a DEF Watched, Holds, GroupRow
    <2> QED BY <2>2, <2>3, <2>4 DEF Seen
  <1>16. CASE WatchSecond
    <2> DEFINE n == IF watch.kind = "storage" THEN Rows(report, Keys)
                    ELSE Cardinality({row \in GroupRows : groups[row[1]][row[2]] > 0})
    <2>1. /\ watch.pc = "second"
          /\ watch' = [watch EXCEPT !.pc = "shown", !.read = Append(watch.read, n)]
      BY <1>16 DEF WatchSecond
    <2>2. /\ watch'.pc = "shown" /\ watch'.read = Append(watch.read, n)
          /\ watch'.want = watch.want /\ watch'.whole = watch.whole
      <3> HIDE DEF n
      <3> QED BY <2>1, <1>a DEF WatchOK
    <2>3. watch.whole => watch.want = <<watch.want[1], n>>
      <3> SUFFICES ASSUME watch.whole PROVE watch.want = <<watch.want[1], n>>
        OBVIOUS
      <3>1. PICK F \in SUBSET Keys :
              \/ /\ watch.kind = "storage" /\ Holds(report, F)
                 /\ watch.want = <<Cardinality(F), Cardinality(F)>>
              \/ /\ watch.kind = "groups" /\ \A g \in Groups : GroupRow(g, F)
                 /\ watch.want = <<Cardinality(Groups),
                                   Cardinality({g \in Groups : Members[g] \cap F # {}})>>
        BY <2>1, <1>a DEF Watched
      <3>2. CASE watch.kind = "storage"
        <4>1. Rows(report, Keys) = Cardinality(F)
          <5>1. Keys \cap F = F /\ Holds(report, F)
            BY <3>1, <3>2
          <5> QED BY <5>1, RowsHeld
        <4> QED BY <3>1, <3>2, <4>1
      <3>3. CASE watch.kind = "groups"
        <4>1. Cardinality({row \in GroupRows : groups[row[1]][row[2]] > 0})
                = Cardinality({g \in Groups : Members[g] \cap F # {}})
          BY <3>1, <3>3, GroupsHeld
        <4>2. n = Cardinality({g \in Groups : Members[g] \cap F # {}})
          BY <4>1, <3>3
        <4> HIDE DEF n
        <4> QED BY <3>1, <3>3, <4>2
      <3> QED BY <3>1, <3>2, <3>3
    <2> HIDE DEF n
    <2>4. watch.whole => Append(watch.read, n) = watch.want
      <3>1. watch.whole => watch.read = <<watch.want[1]>>
        BY <2>1, <1>a DEF Seen
      <3> QED BY <3>1, <2>3, AppendToOne
    <2> QED BY <2>2, <2>4 DEF Watched, Seen
  <1>17. CASE WatchFails \/ Crash
    BY <1>17, <1>2 DEF WatchFails, Crash
  <1>18. CASE UNCHANGED vars
    BY <1>18, <1>1 DEF vars, tables, gauges, run
  <1> QED
    BY <1>4, <1>5, <1>7, <1>8, <1>10, <1>11, <1>12, <1>13, <1>14, <1>15, <1>16, <1>17, <1>18
       DEF Next, Refresh

-----------------------------------------------------------------------------
\* The counts of the versions: one that began with empty tables has them to
\* itself, since the next one begins behind the next emptying.
LEMMA CountedStep == SInv /\ [Next]_vars => Counted' /\ Uncounted'
  <1> SUFFICES ASSUME SInv, [Next]_vars PROVE Counted' /\ Uncounted'
    OBVIOUS
  <1>a. RunsOK /\ Exclusive /\ CountsOK /\ TablesOK /\ Counted /\ Uncounted
    BY DEF SInv, STypeOK
  <1>b. /\ pc \in [Runs -> {"idle", "clear", "reports", "groups"}]
        /\ vpc \in [Counters -> {"idle", "keys"}]
    BY <1>a DEF RunsOK, CountsOK
  \* The tables and the counts stay.
  <1>1. ASSUME UNCHANGED <<report, pubkey, ver, mixing>>,
               \A q \in Runs : pc'[q] = "reports" => pc[q] = "reports"
        PROVE  Counted' /\ Uncounted'
    <2>1. Counted'
      BY <1>1, <1>a DEF Counted, Holds, UpTo, ver, mixing
    <2>2. Uncounted'
      BY <1>1, <1>a DEF Uncounted, Holds, ver, mixing
    <2> QED BY <2>1, <2>2
  <1>2. ASSUME Outlived, UNCHANGED vpc PROVE Counted'
    BY <1>2, <1>b DEF Outlived, Counting, Counted
  <1>3. ASSUME NEW r \in Runs, Return(r) PROVE \A q \in Runs : pc'[q] \in {"idle", pc[q]}
    BY <1>3, <1>b DEF Return, Leave
  <1>4. ASSUME NEW r \in Runs,
               Tick(r) \/ ReadFails(r) \/ GroupPage(r) \/ GroupPageLoses(r) \/ GroupsDone(r)
        PROVE  Counted' /\ Uncounted'
    <2>1. UNCHANGED <<report, pubkey, ver, mixing>>
      BY <1>4 DEF Tick, ReadFails, GroupPage, GroupPageLoses, GroupsDone, tables
    <2>2. \A q \in Runs : pc'[q] = "reports" => pc[q] = "reports"
      BY <1>3, <1>4, <1>b DEF Tick, ReadFails, GroupPage, GroupPageLoses, GroupsDone
    <2> QED BY <2>1, <2>2, <1>1
  <1>5. ASSUME NEW r \in Runs, Clear(r) PROVE Counted' /\ Uncounted'
    <2>1. Outlived /\ UNCHANGED ver /\ pubkey' = Empty
      BY <1>5 DEF Clear
    <2>2. Counted'
      BY <2>1, <1>2 DEF ver
    <2>3. ~late' => \A c \in Counters : vpc'[c] = "idle"
      BY <2>1 DEF Outlived, Counting, ver
    <2>4. Holds(pubkey, {})'
      BY <2>1 DEF Holds, Empty
    <2> QED BY <2>2, <2>3, <2>4 DEF Uncounted
  <1>6. ASSUME NEW r \in Runs, ClearFails(r) PROVE Counted' /\ Uncounted'
    <2>1. /\ pc[r] = "clear" /\ UNCHANGED ver
          /\ \A q \in Runs : pc'[q] \in {"idle", pc[q]}
      BY <1>6, <1>3 DEF ClearFails
    <2>2. CASE UNCHANGED <<tables, mixing>>
      BY <2>1, <2>2, <1>1 DEF tables
    <2>3. CASE Outlived
      <3>1. \A q \in Runs : pc'[q] # "reports"
        BY <2>1, <1>a DEF Exclusive
      <3> QED BY <3>1, <2>1, <2>3, <1>2 DEF Uncounted, ver
    <2> QED BY <1>6, <2>2, <2>3 DEF ClearFails
  <1>7. ASSUME NEW r \in Runs, ReportPage(r) PROVE Counted' /\ Uncounted'
    <2>1. pc[r] = "reports" /\ UNCHANGED <<pc, vpc, mixed, late, pubkey>>
      BY <1>7 DEF ReportPage, ver, mixing
    <2>2. Counted'
      BY <2>1, <1>a DEF Counted
    <2>3. Uncounted'
      BY <2>1, <1>a DEF Uncounted, Holds
    <2> QED BY <2>2, <2>3
  <1>8. ASSUME NEW r \in Runs, ReportsDone(r) PROVE Counted' /\ Uncounted'
    <2>1. PICK c \in Counters, s \in Snapshots :
            /\ vpc' = [vpc EXCEPT ![c] = "keys"]
            /\ vsnap' = [vsnap EXCEPT ![c] = [keys |-> s.keys, fresh |-> snap[r].fresh]]
            /\ vstart' = [vstart EXCEPT ![c] = 0]
            /\ mixed' = IF late THEN mixed \cup {c} ELSE mixed
      BY <1>8 DEF ReportsDone
    <2>2. /\ pc[r] = "reports" /\ pc' = [pc EXCEPT ![r] = "groups"]
          /\ UNCHANGED <<report, pubkey, snap>>
      BY <1>8 DEF ReportsDone, tables
    <2>3. \A q \in Runs : pc'[q] # "reports"
      BY <2>2, <1>a, <1>b DEF Exclusive
    <2>4. ASSUME NEW d \in Counters \ mixed', vpc'[d] = "keys"
          PROVE  /\ \A e \in Counters \ {d} : vpc'[e] = "idle"
                 /\ Holds(report, vsnap[d].fresh)'
                 /\ Holds(pubkey, UpTo(vsnap[d].keys, vstart[d]))'
      <3>1. d = c
        BY <2>1, <2>2, <2>4, <1>a, <1>b DEF Counted
      <3>2. ~late
        BY <2>1, <2>4, <3>1
      <3>3. (\A e \in Counters : vpc[e] = "idle") /\ Holds(pubkey, {})
        BY <2>2, <3>2, <1>a DEF Uncounted
      <3>4. vsnap'[d].fresh = snap[r].fresh /\ vstart'[d] = 0
        BY <2>1, <3>1, <1>a DEF CountsOK
      <3>5. Holds(report, vsnap[d].fresh)'
        <4>1. pc'[r] = "groups" /\ snap'[r].fresh = vsnap'[d].fresh
          BY <2>2, <3>4, <1>b
        <4>2. Holds(report, snap[r].fresh)'
          BY <4>1, ReportedStep DEF Reported
        <4> QED BY <4>1, <4>2 DEF Holds
      <3>6. Holds(pubkey, UpTo(vsnap[d].keys, vstart[d]))'
        <4>1. \A k \in Keys : ~(k <= 0)
          BY SworkerAssumption
        <4> QED BY <4>1, <2>2, <3>3, <3>4 DEF Holds, UpTo
      <3> QED BY <2>1, <3>1, <3>3, <3>5, <3>6, <1>b
    <2> QED BY <2>3, <2>4 DEF Counted, Uncounted
  <1>9. ASSUME NEW c \in Counters, PubKeyPage(c) PROVE Counted' /\ Uncounted'
    <2> DEFINE S == vsnap[c].keys
               page == NextKeys(S, vstart[c], Page)
    <2>1. /\ vpc[c] = "keys" /\ page # {} /\ pubkey' = Add(pubkey, page)
          /\ vstart' = [vstart EXCEPT ![c] = Max(page)]
          /\ UNCHANGED <<report, pc, vpc, vsnap, late, mixed>>
      BY <1>9 DEF PubKeyPage, run, mixing
    <2>2. Uncounted'
      BY <2>1, <1>a DEF Uncounted
    <2>3. ASSUME NEW d \in Counters \ mixed, vpc[d] = "keys"
          PROVE  d = c /\ Holds(pubkey, UpTo(vsnap[d].keys, vstart[d]))'
      <3>1. d = c /\ Holds(pubkey, UpTo(S, vstart[c]))
        BY <2>1, <2>3, <1>a DEF Counted
      <3>2. S \in SUBSET Keys /\ vstart[c] \in Nat /\ pubkey \in [Keys -> Nat]
        BY <1>a DEF CountsOK, TablesOK, Storage
      <3>3. vstart'[c] = Max(page) /\ vsnap'[c].keys = S
        BY <2>1, <1>a DEF CountsOK
      <3>4. page \cap S = page
        BY DEF NextKeys, GetKeysPaged
      <3>5. Holds(Add(pubkey, page \cap S), UpTo(S, Max(page)))
        <4> HIDE DEF S
        <4>1. S \in SUBSET S
          OBVIOUS
        <4> QED BY <4>1, <2>1, <3>1, <3>2, PageAdded
      <3> HIDE DEF S, page
      <3>6. Holds(pubkey, UpTo(vsnap[c].keys, vstart[c]))'
        BY <2>1, <3>3, <3>4, <3>5 DEF Holds, UpTo
      <3> QED BY <3>1, <3>6
    <2>4. Counted'
      BY <2>1, <2>3, <1>a DEF Counted, Holds
    <2> QED BY <2>2, <2>4
  <1>10. ASSUME NEW c \in Counters, vpc[c] = "keys", Stop(c),
                UNCHANGED <<report, pubkey, pc, late>>
         PROVE  Counted' /\ Uncounted'
    <2>1. \A d \in Counters : vpc'[d] = IF d = c THEN "idle" ELSE vpc[d]
      BY <1>10, <1>b DEF Stop
    <2>2. Counted'
      BY <1>10, <2>1, <1>a DEF Counted, Stop
    <2>3. Uncounted'
      BY <1>10, <2>1, <1>a DEF Uncounted, Holds
    <2> QED BY <2>2, <2>3
  <1>11. ASSUME NEW c \in Counters, PubKeysFail(c) \/ CountVersions(c)
         PROVE  Counted' /\ Uncounted'
    BY <1>10, <1>11 DEF PubKeysFail, CountVersions, tables, run
  <1>12. CASE WatchFirst \/ WatchSecond \/ WatchFails \/ UNCHANGED vars
    BY <1>12, <1>1 DEF WatchFirst, WatchSecond, WatchFails, vars, tables, run
  <1>13. CASE Crash
    BY <1>13 DEF Crash, Counted, Uncounted
  <1> QED
    BY <1>4, <1>5, <1>6, <1>7, <1>8, <1>9, <1>11, <1>12, <1>13 DEF Next, Refresh, Count

\* No step breaks the inductive invariant.
LEMMA SStepInv == SInv /\ [Next]_vars => SInv'
  <1>1. SInv /\ [Next]_vars => WatchOK'
    BY WatchStep DEF SInv, STypeOK
  <1> QED
    BY <1>1, TablesStep, RunsStep, CountsStep, ReportedStep, GroupedStep, WatchedStep, CountedStep
       DEF SInv, STypeOK

\* The inductive invariant holds of every behaviour.
THEOREM Invariance == Spec => []SInv
  BY SInit, SStepInv, PTL DEF Spec

-----------------------------------------------------------------------------
\* Every variable keeps its type.
THEOREM TypeCorrect == Spec => []STypeOK
  <1>1. SInv => STypeOK
    BY DEF SInv
  <1> QED BY Invariance, <1>1, PTL

\* When the groups are built, work_report holds the active reports of the block
\* they are read at, each of them once, however the node pages its keys, whatever
\* an earlier run left behind and whichever ticks came since.
THEOREM ReportsAreComplete == Spec => []ReportsComplete
  <1>1. SInv => ReportsComplete
    BY DEF SInv, Reported, Holds, ReportsComplete
  <1> QED BY Invariance, <1>1, PTL

\* A group has one row, with the number of its members whose report is active, as
\* soon as its page is done, unless one of the ignored errors occurred for it.
THEOREM GroupsAreRight == Spec => []GroupsRight
  <1>1. SInv => GroupsRight
    BY DEF SInv, Grouped, GroupRow, GroupsRight
  <1> QED BY Invariance, <1>1, PTL

\* What a gauge handler puts together from two queries is what the cycle that
\* started it has read, if nobody has emptied the tables under it.
THEOREM GaugesDoAgree == Spec => []GaugesAgree
  <1>1. SInv => GaugesAgree
    BY DEF SInv, Seen, GaugesAgree
  <1> QED BY Invariance, <1>1, PTL

\* The join counts every active report once, under the version of its key.
LEMMA JoinHeld ==
    ASSUME NEW F \in SUBSET Keys, Holds(report, F), NEW K \in SUBSET Keys, Holds(pubkey, K),
           NEW v
    PROVE  Joined(v) = Cardinality({k \in F : Version(k, K) = v})
  <1> DEFINE T == {k \in Keys : v = Version(k, {j \in Keys : pubkey[j] > 0})}
             A == {k \in F : Version(k, K) = v}
             Key(k) == IF pubkey[k] = 0 THEN {0} ELSE 1 .. pubkey[k]
             one(k) == IF k \in K THEN 1 ELSE 0
             f == [k \in A |-> <<<<k, 1>>, one(k)>>]
  <1>1. {j \in Keys : pubkey[j] > 0} = K
    BY DEF Holds
  <1>2. A = {k \in T : k \in F}
    BY <1>1
  <1>3. ASSUME NEW k \in Keys PROVE Key(k) = {one(k)}
    <2>1. 1 .. 1 = {1}
      OBVIOUS
    <2>2. pubkey[k] = one(k)
      BY DEF Holds
    <2> QED BY <2>1, <2>2
  <1>4. ASSUME NEW k \in Keys PROVE RowsOf(report, {k}) = IF k \in F THEN {<<k, 1>>} ELSE {}
    <2>1. RowsOf(report, {k}) = {<<j, 1>> : j \in {k} \cap F}
      <3>1. {k} \in SUBSET Keys
        OBVIOUS
      <3> HIDE DEF T, A
      <3> QED BY <3>1, RowsHeld
    <2>2. {k} \cap F = IF k \in F THEN {k} ELSE {}
      OBVIOUS
    <2>3. {<<j, 1>> : j \in {k}} = {<<k, 1>>} /\ {<<j, 1>> : j \in {}} = {}
      OBVIOUS
    <2> QED BY <2>1, <2>2, <2>3
  <1> HIDE DEF Key, one
  <1>5. UNION {RowsOf(report, {k}) \X Key(k) : k \in T} = {<<<<k, 1>>, one(k)>> : k \in A}
    <2>1. \A x : x \in UNION {RowsOf(report, {k}) \X Key(k) : k \in T}
                   <=> \E k \in T : x \in RowsOf(report, {k}) \X Key(k)
      OBVIOUS
    <2>2. ASSUME NEW k \in T
          PROVE  RowsOf(report, {k}) \X Key(k) = IF k \in F THEN {<<<<k, 1>>, one(k)>>} ELSE {}
      <3>1. k \in Keys
        OBVIOUS
      <3>2. CASE k \in F
        <4> DEFINE x == <<k, 1>>
                   y == one(k)
        <4>1. RowsOf(report, {k}) \X Key(k) = {x} \X {y}
          BY <1>3, <1>4, <3>1, <3>2
        <4> HIDE DEF x, y
        <4>2. {x} \X {y} = {<<x, y>>}
          OBVIOUS
        <4> QED BY <4>1, <4>2, <3>2 DEF x, y
      <3>3. CASE k \notin F
        BY <1>3, <1>4, <3>1, <3>3
      <3> QED BY <3>2, <3>3
    <2> HIDE DEF T
    <2>3. \A x : x \in UNION {RowsOf(report, {k}) \X Key(k) : k \in T}
                   <=> \E k \in A : x = <<<<k, 1>>, one(k)>>
      <3> HIDE DEF A, f
      <3>1. ASSUME NEW x, NEW k \in T
            PROVE  x \in RowsOf(report, {k}) \X Key(k) <=> k \in F /\ x = <<<<k, 1>>, one(k)>>
        <4>1. CASE k \in F
          <5>1. RowsOf(report, {k}) \X Key(k) = {<<<<k, 1>>, one(k)>>}
            BY <2>2, <4>1
          <5> QED BY <4>1, <5>1
        <4>2. CASE k \notin F
          <5>1. RowsOf(report, {k}) \X Key(k) = {}
            BY <2>2, <4>2
          <5> QED BY <4>2, <5>1
        <4> QED BY <4>1, <4>2
      <3> SUFFICES ASSUME NEW x
                   PROVE  (\E k \in T : x \in RowsOf(report, {k}) \X Key(k))
                            <=> \E k \in A : x = <<<<k, 1>>, one(k)>>
        BY <2>1
      <3>2. \A k : k \in A <=> k \in T /\ k \in F
        BY <1>2
      <3>3. ASSUME NEW k \in T, x \in RowsOf(report, {k}) \X Key(k)
            PROVE  k \in A /\ x = <<<<k, 1>>, one(k)>>
        <4>1. k \in F /\ x = <<<<k, 1>>, one(k)>>
          BY <3>1, <3>3
        <4> QED BY <3>2, <4>1
      <3>4. ASSUME NEW k \in A, x = <<<<k, 1>>, one(k)>>
            PROVE  k \in T /\ x \in RowsOf(report, {k}) \X Key(k)
        <4>1. k \in T /\ k \in F
          BY <3>2, <3>4
        <4> QED BY <3>1, <3>4, <4>1
      <3> QED BY <3>3, <3>4
    <2> HIDE DEF A
    <2> QED BY <2>3
  <1>6. /\ f = [k \in A |-> f[k]]
        /\ {<<<<k, 1>>, one(k)>> : k \in A} = {f[k] : k \in A}
        /\ \A a, b \in A : f[a] = f[b] => a = b
    <2> HIDE DEF A
    <2> QED OBVIOUS
  <1>7. IsFiniteSet(A)
    BY SworkerAssumption, FS_Subset
  <1>8. Cardinality({<<<<k, 1>>, one(k)>> : k \in A}) = Cardinality(A)
    <2> HIDE DEF A, f
    <2> QED BY <1>6, <1>7, Renamed
  <1>9. Joined(v) = Cardinality(UNION {RowsOf(report, {k}) \X Key(k) : k \in T})
    BY DEF Joined, Key
  <1> QED BY <1>5, <1>8, <1>9

\* The versions that active sworkers run show their number, whoever counts and
\* whatever counts are late, if the tables were not emptied around the count.
THEOREM VersionsDoAddUp == Spec => VersionsAddUp
  <1> DEFINE AddUp == \A c \in Counters : CountVersions(c) /\ c \notin mixed =>
               \A v \in Versions :
                   LET n == Cardinality({k \in vsnap[c].fresh : Version(k, vsnap[c].keys) = v})
                   IN  n > 0 => total'[v] = n
  <1>1. SInv /\ [Next]_vars => [AddUp]_vars
    <2> SUFFICES ASSUME SInv, NEW c \in Counters, CountVersions(c), c \notin mixed,
                        NEW v \in Versions,
                        NEW n, n = Cardinality({k \in vsnap[c].fresh :
                                                  Version(k, vsnap[c].keys) = v}), n > 0
                 PROVE  total'[v] = n
      OBVIOUS
    <2> DEFINE F == vsnap[c].fresh
               K == vsnap[c].keys
    <2>1. /\ vpc[c] = "keys" /\ NextKeys(K, vstart[c], Page) = {}
          /\ total'[v] = IF Joined(v) > 0 THEN Joined(v) ELSE total[v]
      BY DEF CountVersions
    <2>2. F \in SUBSET Keys /\ K \in SUBSET Keys /\ vstart[c] \in Nat
      BY DEF SInv, STypeOK, CountsOK, Storage
    <2>3. Holds(report, F) /\ Holds(pubkey, UpTo(K, vstart[c]))
      BY <2>1 DEF SInv, Counted
    <2> HIDE DEF F, K
    <2>4. K \in SUBSET K
      OBVIOUS
    <2>5. UpTo(K, vstart[c]) = K
      BY <2>1, <2>2, <2>4, AllAdded
    <2>6. Joined(v) = Cardinality({k \in F : Version(k, K) = v})
      BY <2>2, <2>3, <2>5, JoinHeld
    <2>7. Joined(v) = n
      BY <2>6 DEF F, K
    <2> QED BY <2>1, <2>7
  <1> QED BY Invariance, <1>1, PTL DEF Spec, VersionsAddUp
==============================================================================
