--------------------------- MODULE Listener_proofs ---------------------------
(***************************************************************************)
(* Proofs about the listener, for every chain, every Confirm, every set of *)
(* upgrades and any number of crashes and failures.                        *)
(***************************************************************************)
EXTENDS Listener, TLAPS

USE ListenerAssumption

-----------------------------------------------------------------------------
\* A process is at the block after its mark, or, started again, at the mark.
Position ==
    pc # "down" => IF bn = 0 THEN cur = Start ELSE cur \in {bn, bn + 1}

\* handleEvents is under way for cur.
Working  == pc \in {"events", "files", "orders", "upgrade", "mark"}
Inserted == pc \in {"upgrade", "mark"}

\* The cached header, however old, is a finalized one, and a block that is worked
\* on lies Confirm behind it.
Confirmed ==
    /\ fin # Nil => fin <= final
    /\ Working => fin # Nil /\ cur + Confirm <= fin

\* The orders of a marked block are there, and those of cur before it is marked.
Kept == \A b \in Ordering :
            b <= bn \/ (Inserted /\ b = cur) => orders[b] >= 1 \/ b \in dropped

\* One insertion is free for a block the process has behind it; all others have
\* been paid for when the block is taken up again.
Behind(b) == pc # "down" /\ (b < cur \/ (b = cur /\ Inserted))
Paid == \A b \in Blocks : orders[b] <= crashes + faults + (IF Behind(b) THEN 1 ELSE 0)

\* The metadata is that of cur up to the refresh, and that of the next block after.
Runtime == pc # "down" /\ skew = {} =>
               meta = IF pc = "mark" THEN MetadataAt(cur) ELSE RuntimeOf(cur)

LInv == TypeOK /\ Position /\ Confirmed /\ Kept /\ Paid /\ Runtime

-----------------------------------------------------------------------------
\* A listener that has not begun, with empty tables.
LEMMA InitInv == Init => LInv
  <1> SUFFICES ASSUME Init PROVE LInv
    OBVIOUS
  <1> USE DEF Init
  <1>1. TypeOK
    BY DEF TypeOK, Blocks
  <1>2. Position /\ Confirmed /\ Kept /\ Paid /\ Runtime
    BY DEF Position, Confirmed, Working, Kept, Inserted, Paid, Behind, Runtime, Blocks
  <1> QED BY <1>1, <1>2 DEF LInv

\* A block that is worked on lies Confirm behind the finalized head, and so on the chain.
LEMMA WorkedOn == LInv /\ Working => cur \in Blocks /\ cur + Confirm <= final
  BY DEF LInv, TypeOK, Confirmed, Blocks

\* Types: one step per action.
LEMMA TypeStep == LInv /\ [Next]_vars => TypeOK'
  <1> SUFFICES ASSUME TypeOK, Paid, LInv, [Next]_vars PROVE TypeOK'
    BY DEF LInv
  <1> USE DEF TypeOK, chain, store, bounds
  <1>1. CASE Produce
    BY <1>1 DEF Produce
  <1>2. CASE Finalize
    BY <1>2 DEF Finalize
  <1>3. CASE Import
    BY <1>3 DEF Import
  <1>4. CASE Boot
    BY <1>4 DEF Boot, MetadataAt, Blocks
  <1>5. CASE Crash
    BY <1>5 DEF Crash
  <1>6. CASE KeepHeader
    BY <1>6 DEF KeepHeader
  <1>7. CASE FetchHeader
    BY <1>7 DEF FetchHeader
  <1>8. CASE HeaderFails
    BY <1>8 DEF HeaderFails
  <1>9. CASE Sleep
    BY <1>9 DEF Sleep
  <1>10. CASE Take
    BY <1>10 DEF Take
  <1>11. CASE EventsFail
    BY <1>11 DEF EventsFail
  <1>12. CASE GetEvents
    BY <1>12 DEF GetEvents
  <1>13. CASE UpdateFiles
    <2>1. faults' \in 0 .. MaxFaults
      BY <1>13 DEF UpdateFiles
    <2> QED BY <1>13, <2>1 DEF UpdateFiles
  <1>14. CASE SaveFileOrders
    <2>1. cur \in Blocks /\ orders[cur] \in Nat /\ orders[cur] <= crashes + faults
      BY <1>14, WorkedOn DEF SaveFileOrders, Working, Inserted, Paid, Behind
    <2>2. orders' \in [Blocks -> 0 .. 1 + MaxCrashes + MaxFaults]
      <3>1. orders[cur] + 1 \in 0 .. 1 + MaxCrashes + MaxFaults
        BY <2>1
      <3>2. orders' = orders \/ orders' = [orders EXCEPT ![cur] = orders[cur] + 1]
        BY <1>14 DEF SaveFileOrders
      <3> QED BY <3>1, <3>2, <2>1
    <2>3. dropped' \subseteq Blocks
      BY <1>14, <2>1 DEF SaveFileOrders
    <2>4. faults' \in 0 .. MaxFaults
      BY <1>14 DEF SaveFileOrders
    <2> QED BY <1>14, <2>2, <2>3, <2>4 DEF SaveFileOrders
  <1>15. CASE UpdateMetadata
    <2>1. meta' \subseteq CodeUpdates /\ skew' \subseteq {"boot", "refresh", "again"}
      BY <1>15 DEF UpdateMetadata, MetadataAt
    <2>2. faults' \in 0 .. MaxFaults
      BY <1>15 DEF UpdateMetadata
    <2> QED BY <1>15, <2>1, <2>2 DEF UpdateMetadata
  <1>16. CASE Mark
    <2>1. bn' \in Blocks \cup {0} /\ cur' \in Start .. MaxBlock + 1
      BY <1>16, WorkedOn DEF Mark, Working, Blocks
    <2>2. skew' \subseteq {"boot", "refresh", "again"}
      BY <1>16 DEF Mark
    <2>3. faults' \in 0 .. MaxFaults
      BY <1>16 DEF Mark
    <2> QED BY <1>16, <2>1, <2>2, <2>3 DEF Mark
  <1>17. CASE UNCHANGED vars
    BY <1>17 DEF vars
  <1> QED
    BY <1>1, <1>2, <1>3, <1>4, <1>5, <1>6, <1>7, <1>8, <1>9, <1>10, <1>11, <1>12,
       <1>13, <1>14, <1>15, <1>16, <1>17 DEF Next, Chain, Poll, Process

\* The position of the process, and the distance of its block.
LEMMA PositionStep == LInv /\ [Next]_vars => Position' /\ Confirmed'
  <1> SUFFICES ASSUME LInv, [Next]_vars PROVE Position' /\ Confirmed'
    OBVIOUS
  <1>a. TypeOK /\ Position /\ Confirmed
    BY DEF LInv
  <1> USE DEF TypeOK, Position, Confirmed, Working, chain, store, bounds
  <1>1. CASE Produce \/ Finalize \/ Import
    BY <1>1, <1>a DEF Produce, Finalize, Import
  <1>2. CASE Boot
    BY <1>2, <1>a DEF Boot
  <1>3. CASE Crash
    BY <1>3, <1>a DEF Crash
  <1>4. CASE KeepHeader \/ FetchHeader \/ HeaderFails \/ Sleep
    BY <1>4, <1>a DEF KeepHeader, FetchHeader, HeaderFails, Sleep
  <1>5. CASE Take
    BY <1>5, <1>a DEF Take, NotReady
  <1>6. CASE EventsFail \/ GetEvents \/ UpdateFiles
    BY <1>6, <1>a DEF EventsFail, GetEvents, UpdateFiles
  <1>7. CASE SaveFileOrders \/ UpdateMetadata
    BY <1>7, <1>a DEF SaveFileOrders, UpdateMetadata
  <1>8. CASE Mark
    <2>1. cur \in Blocks /\ cur + Confirm <= final /\ fin # Nil
      BY <1>8, <1>a, WorkedOn DEF Mark
    <2>2. UNCHANGED <<final, fin>> /\ pc' = "poll"
      BY <1>8 DEF Mark
    <2>3. (bn' = cur /\ cur' = cur + 1) \/ (UNCHANGED <<bn, cur>> /\ pc # "down")
      BY <1>8 DEF Mark
    <2>4. Position'
      BY <1>a, <2>1, <2>2, <2>3 DEF Blocks
    <2>5. Confirmed'
      BY <1>a, <2>2
    <2> QED BY <2>4, <2>5
  <1>9. CASE UNCHANGED vars
    BY <1>9, <1>a DEF vars
  <1> QED
    BY <1>1, <1>2, <1>3, <1>4, <1>5, <1>6, <1>7, <1>8, <1>9 DEF Next, Chain, Poll, Process

\* What becomes of the orders of the blocks.
LEMMA OrdersStep == LInv /\ [Next]_vars => Kept' /\ Paid'
  <1> SUFFICES ASSUME LInv, [Next]_vars PROVE Kept' /\ Paid'
    OBVIOUS
  <1>a. TypeOK /\ Position /\ Kept /\ Paid
    BY DEF LInv
  <1> USE DEF TypeOK, Kept, Paid, Behind, Inserted, chain, store, bounds
  \* A step that neither inserts nor marks.
  <1>1. ASSUME UNCHANGED <<store, cur>>, Inserted' => Inserted,
               \/ UNCHANGED bounds /\ (pc = "down" <=> pc' = "down") /\ (Inserted => Inserted')
               \/ crashes' + faults' = crashes + faults + 1 /\ crashes' \in Nat /\ faults' \in Nat
        PROVE  Kept' /\ Paid'
    BY <1>1, <1>a
  <1>2. CASE Produce \/ Finalize \/ Import
    BY <1>2, <1>1 DEF Produce, Finalize, Import
  <1>3. CASE Boot
    BY <1>3, <1>a DEF Boot, Blocks
  <1>4. CASE Crash
    BY <1>4, <1>a DEF Crash
  <1>5. CASE KeepHeader \/ FetchHeader \/ HeaderFails \/ Sleep \/ Take
    BY <1>5, <1>1, <1>a DEF KeepHeader, FetchHeader, HeaderFails, Sleep, Take
  <1>6. CASE EventsFail \/ GetEvents \/ UpdateFiles
    BY <1>6, <1>1, <1>a DEF EventsFail, GetEvents, UpdateFiles
  <1>7. CASE SaveFileOrders
    <2>1. cur \in Blocks /\ pc = "orders" /\ pc' \in {"upgrade", "mark"}
      BY <1>7, WorkedOn DEF SaveFileOrders, Working
    <2>2. UNCHANGED <<bn, cur, crashes>>
      BY <1>7 DEF SaveFileOrders
    <2>3. Kept'
      <3>1. ASSUME NEW b \in Ordering, b <= bn \/ b = cur
            PROVE  orders'[b] >= 1 \/ b \in dropped'
        <4>1. orders[b] \in Nat /\ dropped \subseteq dropped'
          BY <1>7, <1>a, <2>1 DEF SaveFileOrders, Blocks
        <4>2. CASE b = cur
          BY <1>7, <1>a, <2>1, <4>1, <4>2 DEF SaveFileOrders
        <4>3. CASE b # cur
          BY <1>7, <1>a, <2>1, <3>1, <4>1, <4>3 DEF SaveFileOrders, Blocks
        <4> QED BY <4>2, <4>3
      <3> QED BY <2>2, <3>1
    <2>4. CASE cur \in Ordering /\ orders' = [orders EXCEPT ![cur] = orders[cur] + 1] /\ UNCHANGED faults
      <3>1. ASSUME NEW b \in Blocks
            PROVE orders'[b] <= crashes + faults + (IF b < cur \/ b = cur THEN 1 ELSE 0)
        <4>1. CASE b = cur
          BY <1>a, <2>1, <2>4, <4>1
        <4>2. CASE b # cur
          BY <1>a, <2>1, <2>4, <4>2
        <4> QED BY <4>1, <4>2
      <3> QED BY <2>1, <2>2, <2>3, <2>4, <3>1
    <2>5. CASE UNCHANGED orders /\ faults' \in {faults, faults + 1}
      <3>1. crashes + faults <= crashes' + faults' /\ crashes' + faults' \in Nat
        <4>1. crashes \in Nat /\ faults \in Nat
          BY <1>a
        <4>2. crashes' = crashes
          BY <2>2
        <4>3. faults' = faults \/ faults' = faults + 1
          BY <2>5
        <4> QED BY <4>1, <4>2, <4>3
      <3>2. \A b \in Blocks : Behind(b) => Behind(b)'
        BY <2>1, <2>2
      <3>3. \A b \in Blocks : orders[b] \in Nat
        BY <1>a DEF Blocks
      <3>4. Paid'
        <4> HIDE DEF Behind
        <4> SUFFICES ASSUME NEW b \in Blocks
                     PROVE  orders[b] <= crashes' + faults' + (IF Behind(b)' THEN 1 ELSE 0)
          BY <2>5
        <4>1. orders[b] <= crashes + faults + (IF Behind(b) THEN 1 ELSE 0)
          BY <1>a
        <4> QED BY <1>a, <3>1, <3>2, <3>3, <4>1
      <3> QED BY <2>3, <3>4
    <2> QED BY <1>7, <2>4, <2>5 DEF SaveFileOrders
  <1>8. CASE UpdateMetadata
    <2>1. UNCHANGED <<store, cur, crashes>> /\ pc = "upgrade" /\ pc' = "mark"
      BY <1>8 DEF UpdateMetadata
    <2>2. CASE UNCHANGED faults
      BY <1>1, <2>1, <2>2
    <2>3. CASE faults' = faults + 1
      BY <1>1, <1>a, <2>1, <2>3
    <2> QED BY <1>8, <2>2, <2>3 DEF UpdateMetadata
  <1>9. CASE Mark
    <2>1. cur \in Blocks /\ pc = "mark" /\ pc' = "poll" /\ UNCHANGED <<orders, dropped, crashes>>
      BY <1>9, WorkedOn DEF Mark, Working
    <2>2. CASE bn' = cur /\ cur' = cur + 1 /\ UNCHANGED faults
      <3>1. Kept'
        <4>1. \A b \in Ordering : b <= bn' => b <= bn \/ b = cur
          BY <1>a, <2>1, <2>2 DEF Blocks, Position
        <4> QED BY <1>a, <2>1, <4>1
      <3>2. \A b \in Blocks : Behind(b)' <=> Behind(b)
        BY <1>a, <2>1, <2>2 DEF Blocks
      <3>3. Paid'
        BY <1>a, <2>1, <2>2, <3>2
      <3> QED BY <3>1, <3>3
    <2>3. CASE faults' = faults + 1 /\ UNCHANGED <<bn, cur>>
      <3>1. Kept'
        BY <1>a, <2>1, <2>3
      <3>2. Paid'
        BY <1>a, <2>1, <2>3 DEF Blocks
      <3> QED BY <3>1, <3>2
    <2> QED BY <1>9, <2>2, <2>3 DEF Mark
  <1>10. CASE UNCHANGED vars
    BY <1>10, <1>1 DEF vars
  <1> QED
    BY <1>2, <1>3, <1>4, <1>5, <1>6, <1>7, <1>8, <1>9, <1>10 DEF Next, Chain, Poll, Process

\* The state after a block without an upgrade is that before it, and the state
\* after a block that before the next one.
LEMMA NextRuntime ==
    ASSUME NEW b \in Int
    PROVE  /\ MetadataAt(b) = RuntimeOf(b + 1)
           /\ b \notin CodeUpdates => RuntimeOf(b) = MetadataAt(b)
  <1>1. \A u \in CodeUpdates : u \in Int
    OBVIOUS
  <1>2. \A u \in CodeUpdates : u <= b <=> u < b + 1
    BY <1>1
  <1>3. b \notin CodeUpdates => \A u \in CodeUpdates : u < b <=> u <= b
    BY <1>1
  <1> QED BY <1>2, <1>3 DEF MetadataAt, RuntimeOf

\* The metadata: only a failed refresh, a restart and a repeated upgrade block
\* separate it from the block at hand, and those are in skew.
LEMMA RuntimeStep == LInv /\ [Next]_vars => Runtime'
  <1> SUFFICES ASSUME LInv, [Next]_vars PROVE Runtime'
    OBVIOUS
  <1>a. TypeOK /\ Runtime /\ cur \in Int
    BY DEF LInv, TypeOK, Blocks
  <1>b. /\ MetadataAt(cur) = RuntimeOf(cur + 1)
        /\ cur \notin CodeUpdates => RuntimeOf(cur) = MetadataAt(cur)
    BY <1>a, NextRuntime
  <1> USE DEF Runtime, chain, store, bounds
  \* A step that leaves cur and the metadata alone, and the refresh behind it.
  <1>1. ASSUME UNCHANGED <<cur, meta, skew>>, pc # "down", pc = "mark" <=> pc' = "mark"
        PROVE  Runtime'
    BY <1>1, <1>a DEF MetadataAt, RuntimeOf
  <1>2. CASE Produce \/ Finalize \/ Import
    BY <1>2, <1>a DEF Produce, Finalize, Import, MetadataAt, RuntimeOf
  <1>3. CASE Boot
    BY <1>3 DEF Boot, RuntimeOf
  <1>4. CASE Crash
    BY <1>4 DEF Crash
  <1>5. CASE KeepHeader \/ FetchHeader \/ HeaderFails \/ Sleep \/ Take
    BY <1>5, <1>1 DEF KeepHeader, FetchHeader, HeaderFails, Sleep, Take
  <1>6. CASE EventsFail \/ GetEvents \/ UpdateFiles
    BY <1>6, <1>1 DEF EventsFail, GetEvents, UpdateFiles
  <1>7. CASE SaveFileOrders
    BY <1>7, <1>a, <1>b DEF SaveFileOrders, MetadataAt, RuntimeOf
  <1>8. CASE UpdateMetadata
    BY <1>8, <1>a DEF UpdateMetadata, MetadataAt
  <1>9. CASE Mark
    BY <1>9, <1>a, <1>b DEF Mark, RuntimeOf, MetadataAt
  <1>10. CASE UNCHANGED vars
    BY <1>10, <1>a DEF vars, MetadataAt, RuntimeOf
  <1> QED
    BY <1>2, <1>3, <1>4, <1>5, <1>6, <1>7, <1>8, <1>9, <1>10 DEF Next, Chain, Poll, Process

\* No step breaks the inductive invariant.
LEMMA StepInv == LInv /\ [Next]_vars => LInv'
  BY TypeStep, PositionStep, OrdersStep, RuntimeStep DEF LInv

\* The inductive invariant holds of every behaviour.
THEOREM Invariance == Spec => []LInv
  BY InitInv, StepInv, PTL DEF Spec

-----------------------------------------------------------------------------
\* The counters, the header and the tables keep their types: no block beyond the
\* chain is ever worked on, although blocks are taken by a cached header.
THEOREM TypeCorrect == Spec => []TypeOK
  <1>1. LInv => TypeOK
    BY DEF LInv
  <1> QED BY Invariance, <1>1, PTL

\* No block is marked without its orders, unless SaveFileOrders failed: the mark
\* comes behind it in handleEvents, and a repetition never removes what is there.
THEOREM OrdersAreKept == Spec => []OrdersKept
  <1>1. LInv => OrdersKept
    BY DEF LInv, Kept, OrdersKept
  <1> QED BY Invariance, <1>1, PTL

\* The orders of a block are inserted once, and once more at most for every crash
\* and every failure of the listener.
THEOREM SurplusIsPaid == Spec => []SurplusPaid
  <1>1. LInv => SurplusPaid
    BY DEF LInv, Paid, TypeOK, SurplusPaid, Blocks
  <1> QED BY Invariance, <1>1, PTL

\* The events of a block are decoded with the metadata of its runtime, in all
\* behaviours that the history variable skew does not name.
THEOREM MetadataIsFresh == Spec => []MetadataFresh
  <1>1. LInv => MetadataFresh
    BY DEF LInv, Runtime, MetadataFresh
  <1> QED BY Invariance, <1>1, PTL

\* Orders are inserted for cur, which is never before the mark.
LEMMA FrozenStep ==
    LInv /\ [Next]_vars => \A b \in Blocks : b < bn => orders'[b] = orders[b]
  <1> SUFFICES ASSUME LInv, [Next]_vars, NEW b \in Blocks, b < bn
               PROVE  orders'[b] = orders[b]
    OBVIOUS
  <1>1. CASE SaveFileOrders
    <2>1. cur >= bn
      BY <1>1 DEF LInv, TypeOK, Position, SaveFileOrders, Blocks
    <2>2. b # cur
      BY <2>1 DEF LInv, TypeOK, Blocks
    <2> QED BY <1>1, <2>2 DEF SaveFileOrders, LInv, TypeOK
  <1>2. CASE ~SaveFileOrders
    BY <1>2 DEF Next, Boot, Crash, Chain, Produce, Finalize, Import, Poll, KeepHeader,
                FetchHeader, HeaderFails, Sleep, Take, Process, EventsFail, GetEvents,
                UpdateFiles, UpdateMetadata, Mark, store, vars
  <1> QED BY <1>1, <1>2

\* Behind the mark orders do not change: the listener never goes back by more
\* than the marked block.
THEOREM OrdersAreFrozen == Spec => OrdersFrozen
  <1>1. LInv /\ [Next]_vars => [\A b \in Blocks : b < bn => orders'[b] = orders[b]]_vars
    BY FrozenStep
  <1> QED BY Invariance, <1>1, PTL DEF Spec, OrdersFrozen

-----------------------------------------------------------------------------
\* Blocks are marked one after the other, none left out, each Confirm behind the
\* finalized head: the listener with its cache, its retries and its restarts
\* implements BlockLog.  Marking a block again is a stuttering step there.
THEOREM Implements == Spec => Refines
  <1>1. Init => Log!Init
    BY DEF Init, Log!Init
  <1>2. LInv /\ [Next]_vars => [Log!Next]_<<bn, final>>
    <2> SUFFICES ASSUME LInv, [Next]_vars PROVE [Log!Next]_<<bn, final>>
      OBVIOUS
    <2>1. CASE Finalize
      BY <2>1 DEF LInv, TypeOK, Finalize, store, Log!Next, Log!Finalize
    <2>2. CASE Mark
      <3>1. CASE bn' = cur
        <4>1. cur \in Blocks /\ cur + Confirm <= final /\ final' = final
          BY <2>2, WorkedOn DEF Mark, Working, chain
        <4>2. cur = bn \/ cur = Log!Following(bn)
          BY <2>2 DEF LInv, Position, Mark, Log!Following
        <4> QED BY <3>1, <4>1, <4>2 DEF Log!Next, Log!Mark
      <3>2. CASE UNCHANGED bn
        BY <2>2, <3>2 DEF Mark, chain
      <3> QED BY <2>2, <3>1, <3>2 DEF Mark
    <2>3. CASE ~Finalize /\ ~Mark
      BY <2>3 DEF Next, Boot, Crash, Chain, Produce, Import, Poll, KeepHeader,
                  FetchHeader, HeaderFails, Sleep, Take, Process, EventsFail, GetEvents,
                  UpdateFiles, SaveFileOrders, UpdateMetadata, store, chain, vars
    <2> QED BY <2>1, <2>2, <2>3
  <1> QED BY Invariance, <1>1, <1>2, PTL DEF Spec, Refines, Log!Spec
=============================================================================
