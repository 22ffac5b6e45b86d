-------------------------- MODULE SlotMetrics_proofs --------------------------
(***************************************************************************)
(* Proofs about the slot counters, for every size of a slot, any number of *)
(* runs that overlap and every behaviour of the listener beside them.      *)
(***************************************************************************)
EXTENDS SlotMetrics, Listener_proofs

USE ListenerAssumption, SlotAssumption

-----------------------------------------------------------------------------
\* Every variable keeps the type of the one it stands for.
MTypeOK ==
    /\ slot \in Nat /\ shared \subseteq Jobs
    /\ jpc \in [Jobs -> {"idle", "label", "query", "publish"}]
    /\ label \in [Jobs -> Int]
    /\ count = [j \in Jobs |-> count[j]]
    /\ \A g \in gauges : g.label \in Int
    /\ pc = "down" => gauges = {} /\ shared = {} /\ \A j \in Jobs : jpc[j] = "idle"

\* Slots begin and end at multiples of the size.
Multiple(i) == i % SlotSize = 0

Aligned == /\ Multiple(slot)
           /\ \A j \in Jobs : Multiple(label[j])
           /\ \A g \in gauges : Multiple(g.label)

\* A run that no other has overlapped is the only one, and slot is what it was
\* when the run began: the label, the query and the end agree, and the mark has
\* passed them.
Single ==
    \A j \in Jobs \ shared : jpc[j] # "idle" =>
        /\ \A i \in Jobs \ {j} : jpc[i] = "idle"
        /\ bn >= slot
        /\ jpc[j] \in {"query", "publish"} => label[j] = slot - SlotSize
        /\ jpc[j] = "publish" => count[j] = OrdersBySlot(slot)

\* What such a run has published lies behind the mark.
Final ==
    \A g \in gauges : g.alone =>
        /\ g.label + SlotSize <= bn
        /\ g.count = OrdersBySlot(g.label + SlotSize)

\* Up to the first overlap every slot from the first one published on is there,
\* with one count, and slot is the end of the next.
InOrder ==
    (\A g \in gauges : g.alone) =>
        /\ \A g \in gauges : g.label <= slot - 2 * SlotSize
        /\ \A g, h \in gauges : g.label = h.label => g = h
        /\ \A g \in gauges : \A l \in g.label .. slot - 2 * SlotSize :
             Multiple(l) => \E h \in gauges : h.label = l

MInv == LInv /\ MTypeOK /\ Aligned /\ Single /\ Final /\ InOrder

-----------------------------------------------------------------------------
\* The slot of a block begins at a multiple of the size.
LEMMA SlotAligned == \A i \in Nat : GetSlot(i) \in Nat /\ Multiple(GetSlot(i))
  <1> SUFFICES ASSUME NEW i \in Nat
               PROVE  GetSlot(i) \in Nat /\ Multiple(GetSlot(i))
    OBVIOUS
  <1> DEFINE q == i \div SlotSize
  <1>1. q \in Nat
    OBVIOUS
  <1> HIDE DEF q
  <1>2. q * SlotSize \in Nat /\ (q * SlotSize) % SlotSize = 0
    BY <1>1
  <1> QED BY <1>2 DEF GetSlot, q, Multiple

\* Multiples of the size lie a slot apart.
LEMMA NextSlot ==
    ASSUME NEW a \in Int, Multiple(a)
    PROVE  /\ Multiple(a + SlotSize) /\ Multiple(a - SlotSize)
           /\ \A l \in Int : Multiple(l) /\ a - SlotSize < l /\ l <= a => l = a
  <1> USE DEF Multiple
  <1> DEFINE q == a \div SlotSize
  <1>1. q \in Int /\ a = SlotSize * q
    OBVIOUS
  <1> HIDE DEF q
  <1>2. (SlotSize * (q + 1)) % SlotSize = 0 /\ (SlotSize * (q - 1)) % SlotSize = 0
    BY <1>1
  <1>3. a + SlotSize = SlotSize * (q + 1) /\ a - SlotSize = SlotSize * (q - 1)
    BY <1>1
  <1>4. ASSUME NEW l \in Int, Multiple(l), a - SlotSize < l, l <= a PROVE l = a
    <2> DEFINE p == l \div SlotSize
    <2>1. p \in Int /\ l = SlotSize * p
      BY <1>4
    <2> HIDE DEF p
    <2>2. CASE p <= q - 1
      <3>1. SlotSize * p <= SlotSize * (q - 1)
        BY <2>1, <2>2, <1>1
      <3> QED BY <3>1, <2>1, <1>3, <1>4
    <2>3. CASE p >= q + 1
      <3>1. SlotSize * p >= SlotSize * (q + 1)
        BY <2>1, <2>3, <1>1
      <3> QED BY <3>1, <2>1, <1>3, <1>4
    <2> QED BY <2>1, <2>2, <2>3, <1>1
  <1> QED BY <1>2, <1>3, <1>4

\* The mark never moves back, and the orders behind it stay.
LEMMA BehindTheMark ==
    ASSUME LInv, [Next]_vars
    PROVE  /\ bn \in Nat /\ bn' \in Nat /\ bn <= bn'
           /\ \A end \in Int : end <= bn => OrdersBySlot(end)' = OrdersBySlot(end)
  <1>1. bn \in Nat /\ bn' \in Nat
    <2>1. TypeOK /\ TypeOK'
      BY TypeStep DEF LInv
    <2> QED BY <2>1 DEF TypeOK, Blocks
  <1>2. bn <= bn'
    <2>1. CASE Mark
      BY <2>1, <1>1 DEF Mark, LInv, TypeOK, Position, Blocks
    <2>2. CASE ~Mark
      BY <2>2, <1>1 DEF Next, Boot, Crash, Chain, Produce, Finalize, Import, Poll, KeepHeader,
                  FetchHeader, HeaderFails, Sleep, Take, Process, EventsFail, GetEvents,
                  UpdateFiles, SaveFileOrders, UpdateMetadata, store, vars
    <2> QED BY <2>1, <2>2
  <1>3. \A b \in Blocks : b < bn => orders'[b] = orders[b]
    BY FrozenStep
  <1>4. ASSUME NEW end \in Int, end <= bn PROVE OrdersBySlot(end)' = OrdersBySlot(end)
    <2> DEFINE B == {c \in Blocks : end - SlotSize <= c /\ c < end}
    <2>1. \A b \in B : b \in Blocks /\ b < bn
      BY <1>1, <1>4 DEF Blocks
    <2>2. [b \in B |-> orders'[b]] = [b \in B |-> orders[b]]
      BY <2>1, <1>3
    <2> QED BY <2>2 DEF OrdersBySlot
  <1> QED BY <1>1, <1>2, <1>3, <1>4

-----------------------------------------------------------------------------
\* A failing query costs a fault, and the listener takes no notice.
LEMMA ListenerStep ==
    LInv /\ [MNext]_<<vars, mvars>> =>
        \/ [Next]_vars
        \/ \E j \in Jobs : QueryFails(j) /\ LInv'
  <1> SUFFICES ASSUME LInv, [MNext]_<<vars, mvars>>
               PROVE  [Next]_vars \/ \E j \in Jobs : QueryFails(j) /\ LInv'
    OBVIOUS
  <1>1. CASE MBoot \/ MCrash \/ Listen
    BY <1>1 DEF MBoot, MCrash, Listen, Next
  <1>2. ASSUME NEW j \in Jobs, Begin(j) \/ SetLabel(j) \/ Query(j) \/ Publish(j)
        PROVE  [Next]_vars
    BY <1>2 DEF Begin, SetLabel, Query, Publish
  <1>3. ASSUME NEW j \in Jobs, QueryFails(j) PROVE LInv'
    <2>1. /\ UNCHANGED <<bn, orders, dropped, best, final, opaque, head, pc, cur, fin, meta,
                         skew, crashes>>
          /\ faults' = faults + 1 /\ faults < MaxFaults
      BY <1>3 DEF QueryFails, store, chain
    <2>2. TypeOK /\ crashes \in Nat /\ faults \in Nat
      BY DEF LInv, TypeOK
    <2>3. TypeOK'
      BY <2>1, <2>2 DEF TypeOK
    <2>4. Position' /\ Confirmed' /\ Kept'
      BY <2>1 DEF LInv, Position, Confirmed, Working, Kept, Inserted
    <2>5. Paid'
      <3>1. ASSUME NEW b \in Blocks
            PROVE  orders'[b] <= crashes' + faults' + (IF Behind(b)' THEN 1 ELSE 0)
        <4>1. orders[b] \in Nat /\ orders[b] <= crashes + faults + (IF Behind(b) THEN 1 ELSE 0)
          BY <2>2 DEF LInv, Paid, TypeOK
        <4>2. Behind(b)' <=> Behind(b)
          BY <2>1 DEF Behind, Inserted
        <4> QED BY <4>1, <4>2, <2>1, <2>2
      <3> QED BY <3>1, <2>1 DEF Paid, Blocks
    <2>6. Runtime'
      BY <2>1 DEF LInv, Runtime, MetadataAt, RuntimeOf
    <2> QED BY <2>3, <2>4, <2>5, <2>6 DEF LInv
  <1>4. CASE UNCHANGED <<vars, mvars>>
    BY <1>4
  <1> QED BY <1>1, <1>2, <1>3, <1>4 DEF MNext, Run

\* What the proofs of the steps use of the listener.
LEMMA MarkStep ==
    ASSUME LInv, [MNext]_<<vars, mvars>>
    PROVE  /\ LInv'
           /\ bn \in Nat /\ bn' \in Nat /\ bn <= bn'
           /\ \A end \in Int : end <= bn => OrdersBySlot(end)' = OrdersBySlot(end)
  <1>1. CASE [Next]_vars
    BY <1>1, StepInv, BehindTheMark
  <1>2. CASE \E j \in Jobs : QueryFails(j) /\ LInv'
    <2>1. LInv' /\ UNCHANGED <<bn, orders>>
      BY <1>2 DEF QueryFails, store
    <2>2. bn \in Nat
      BY DEF LInv, TypeOK, Blocks
    <2>3. ASSUME NEW end \in Int PROVE OrdersBySlot(end)' = OrdersBySlot(end)
      BY <2>1 DEF OrdersBySlot, Blocks
    <2> QED BY <2>1, <2>2, <2>3
  <1> QED BY <1>1, <1>2, ListenerStep

\* The start block and a mark lie behind the first slot.
LEMMA FirstSlot == LInv => InitSlot \in Nat /\ Multiple(InitSlot)
  <1> SUFFICES ASSUME LInv PROVE InitSlot \in Nat /\ Multiple(InitSlot)
    OBVIOUS
  <1>1. bn \in Nat /\ Start - 1 \in Nat
    BY DEF LInv, TypeOK, Blocks
  <1>2. PICK i \in Nat : InitSlot = GetSlot(i)
    BY <1>1 DEF InitSlot
  <1> QED BY <1>2, SlotAligned

-----------------------------------------------------------------------------
\* Before the first process nothing has been published.
LEMMA MInitInv == MInit => MInv
  <1> SUFFICES ASSUME MInit PROVE MInv
    OBVIOUS
  <1>1. LInv
    BY InitInv DEF MInit
  <1>2. Multiple(0)
    BY DEF Multiple
  <1>3. MTypeOK /\ Aligned /\ Single /\ Final /\ InOrder
    BY <1>2 DEF MInit, MTypeOK, Aligned, Single, Final, InOrder
  <1> QED BY <1>1, <1>3 DEF MInv

\* A step of a run, of the start of the process or of its death.
LEMMA MTypeStep == MInv /\ [MNext]_<<vars, mvars>> => MTypeOK' /\ Aligned'
  <1> SUFFICES ASSUME MInv, [MNext]_<<vars, mvars>> PROVE MTypeOK' /\ Aligned'
    OBVIOUS
  <1>a. MTypeOK /\ Aligned
    BY DEF MInv
  <1> USE DEF MTypeOK, Aligned
  <1>1. CASE MBoot
    BY <1>1, <1>a, FirstSlot DEF MInv, MBoot, Boot
  <1>2. CASE MCrash
    BY <1>2, <1>a DEF MCrash
  <1>3. CASE Listen
    <2>1. UNCHANGED mvars /\ (pc' = "down" => pc = "down")
      BY <1>3 DEF Listen, Chain, Produce, Finalize, Import, Poll, KeepHeader, FetchHeader,
                  HeaderFails, Sleep, Take, Process, EventsFail, GetEvents, UpdateFiles,
                  SaveFileOrders, UpdateMetadata, Mark
    <2> QED BY <2>1, <1>a DEF mvars
  <1>4. ASSUME NEW j \in Jobs, Begin(j) \/ SetLabel(j) \/ Query(j) \/ QueryFails(j)
        PROVE  MTypeOK' /\ Aligned'
    <2>1. pc # "down" /\ pc' = pc /\ UNCHANGED <<slot, gauges>>
      BY <1>4 DEF Begin, SetLabel, Query, QueryFails, At, vars
    <2>2. shared' \subseteq Jobs
      BY <1>4, <1>a DEF Begin, SetLabel, Query, QueryFails, Overlap
    <2>3. jpc' \in [Jobs -> {"idle", "label", "query", "publish"}]
      BY <1>4, <1>a DEF Begin, SetLabel, Query, QueryFails
    <2>4. label' \in [Jobs -> Int] /\ \A i \in Jobs : Multiple(label'[i])
      <3>1. slot - SlotSize \in Int /\ Multiple(slot - SlotSize)
        BY <1>a, NextSlot
      <3>2. label' = label \/ label' = [label EXCEPT ![j] = slot - SlotSize]
        BY <1>4 DEF Begin, SetLabel, Query, QueryFails
      <3> QED BY <3>1, <3>2, <1>a
    <2>5. count' = [i \in Jobs |-> count'[i]]
      <3>1. CASE Query(j)
        <4> DEFINE n == OrdersBySlot(slot)
        <4>1. count' = [count EXCEPT ![j] = n]
          BY <3>1 DEF Query
        <4> HIDE DEF n
        <4> QED BY <4>1, <1>a
      <3>2. CASE UNCHANGED count
        BY <3>2, <1>a
      <3> QED BY <1>4, <3>1, <3>2 DEF Begin, SetLabel, QueryFails
    <2> QED BY <2>1, <2>2, <2>3, <2>4, <2>5, <1>a
  <1>5. ASSUME NEW j \in Jobs, Publish(j) PROVE MTypeOK' /\ Aligned'
    <2>1. pc # "down" /\ pc' = pc /\ UNCHANGED <<label, count, shared>>
      BY <1>5 DEF Publish, At, vars
    <2>2. slot' \in Nat /\ Multiple(slot')
      BY <1>5, <1>a, NextSlot DEF Publish
    <2>3. jpc' \in [Jobs -> {"idle", "label", "query", "publish"}]
      BY <1>5, <1>a DEF Publish
    <2>4. gauges' = gauges \cup {Gauge(j)} /\ Gauge(j).label = label[j]
      BY <1>5 DEF Publish, Gauge
    <2> QED BY <2>1, <2>2, <2>3, <2>4, <1>a
  <1>6. CASE UNCHANGED <<vars, mvars>>
    BY <1>6, <1>a DEF vars, mvars
  <1> QED BY <1>1, <1>2, <1>3, <1>4, <1>5, <1>6 DEF MNext, Run

\* A run that has not been overlapped keeps slot to itself until it is done.
LEMMA SingleStep == MInv /\ [MNext]_<<vars, mvars>> => Single'
  <1> SUFFICES ASSUME MInv, [MNext]_<<vars, mvars>>, NEW j \in Jobs,
                      j \notin shared', jpc'[j] # "idle"
               PROVE  /\ \A i \in Jobs \ {j} : jpc'[i] = "idle"
                      /\ bn' >= slot'
                      /\ jpc'[j] \in {"query", "publish"} => label'[j] = slot' - SlotSize
                      /\ jpc'[j] = "publish" => count'[j] = OrdersBySlot(slot)'
    BY DEF Single
  <1>a. MTypeOK /\ Single /\ LInv
    BY DEF MInv
  <1>b. slot \in Nat /\ jpc \in [Jobs -> {"idle", "label", "query", "publish"}]
    BY <1>a DEF MTypeOK
  <1>c. bn \in Nat /\ bn' \in Nat /\ bn <= bn'
    BY <1>a, MarkStep
  <1>d. \A end \in Int : end <= bn => OrdersBySlot(end)' = OrdersBySlot(end)
    BY <1>a, MarkStep
  \* A step of the listener.
  <1>1. ASSUME UNCHANGED <<slot, jpc, label, count, shared>>
        PROVE  /\ \A i \in Jobs \ {j} : jpc'[i] = "idle"
               /\ bn' >= slot'
               /\ jpc'[j] \in {"query", "publish"} => label'[j] = slot' - SlotSize
               /\ jpc'[j] = "publish" => count'[j] = OrdersBySlot(slot)'
    <2>1. bn >= slot
      BY <1>1, <1>a DEF Single
    <2>2. PICK s \in Int : s = slot
      BY <1>b
    <2>3. OrdersBySlot(s)' = OrdersBySlot(s)
      BY <2>1, <2>2, <1>d
    <2>4. OrdersBySlot(slot)' = OrdersBySlot(s)'
      BY <2>2, <1>1 DEF OrdersBySlot
    <2>5. OrdersBySlot(slot) = OrdersBySlot(s)
      BY <2>2
    <2> QED BY <2>1, <2>3, <2>4, <2>5, <1>1, <1>a, <1>b, <1>c DEF Single
  <1>2. CASE MBoot
    BY <1>2, <1>a DEF MBoot, Boot, MTypeOK
  <1>3. CASE MCrash
    BY <1>3 DEF MCrash
  <1>4. CASE Listen
    BY <1>4, <1>1 DEF Listen, mvars
  \* The run j itself goes on: the listener stands still.
  <1>5. CASE Begin(j)
    <2>1. jpc' = [jpc EXCEPT ![j] = "label"] /\ bn >= slot /\ UNCHANGED <<slot, bn>>
      BY <1>5 DEF Begin, vars, store
    <2>2. \A i \in Jobs \ {j} : jpc[i] = "idle"
      BY <1>5 DEF Begin, Overlap
    <2> QED BY <2>1, <2>2, <1>b
  <1>6. CASE SetLabel(j)
    <2>1. /\ jpc' = [jpc EXCEPT ![j] = "query"] /\ jpc[j] = "label"
          /\ label' = [label EXCEPT ![j] = slot - SlotSize]
          /\ UNCHANGED <<slot, bn, shared>>
      BY <1>6 DEF SetLabel, At, vars, store
    <2>2. bn >= slot /\ \A i \in Jobs \ {j} : jpc[i] = "idle"
      BY <2>1, <1>a DEF Single
    <2>3. label'[j] = slot - SlotSize
      BY <2>1, <1>a DEF MTypeOK
    <2> QED BY <2>1, <2>2, <2>3, <1>b
  <1>7. CASE Query(j)
    <2>1. /\ jpc' = [jpc EXCEPT ![j] = "publish"] /\ jpc[j] = "query"
          /\ UNCHANGED <<slot, bn, orders, shared, label>>
      BY <1>7 DEF Query, At, vars, store
    <2>2. /\ bn >= slot /\ label[j] = slot - SlotSize
          /\ \A i \in Jobs \ {j} : jpc[i] = "idle"
      BY <2>1, <1>a DEF Single
    <2>3. count'[j] = OrdersBySlot(slot)
      <3> DEFINE n == OrdersBySlot(slot)
      <3>1. count' = [count EXCEPT ![j] = n]
        BY <1>7 DEF Query
      <3>2. count = [i \in Jobs |-> count[i]]
        BY <1>a DEF MTypeOK
      <3> HIDE DEF n
      <3>3. count'[j] = n
        BY <3>1, <3>2
      <3> QED BY <3>3 DEF n
    <2>4. OrdersBySlot(slot)' = OrdersBySlot(slot)
      BY <2>1 DEF OrdersBySlot, Blocks
    <2> QED BY <2>1, <2>2, <2>3, <2>4, <1>b
  <1>8. CASE QueryFails(j) \/ Publish(j)
    BY <1>8, <1>b DEF QueryFails, Publish
  \* Another run goes on, or begins: it has overlapped j.
  <1>9. ASSUME NEW i \in Jobs, i # j, Run(i) PROVE FALSE
    <2>1. jpc'[j] = jpc[j]
      BY <1>9, <1>b DEF Run, Begin, SetLabel, Query, QueryFails, Publish
    <2>2. CASE Begin(i)
      BY <2>1, <2>2, <1>9 DEF Begin, Overlap
    <2>3. CASE ~Begin(i)
      <3>1. jpc[i] # "idle" /\ shared' = shared
        BY <2>3, <1>9 DEF Run, SetLabel, Query, QueryFails, Publish, At
      <3> QED BY <3>1, <2>1, <1>9, <1>a DEF Single
    <2> QED BY <2>2, <2>3
  <1>10. CASE UNCHANGED <<vars, mvars>>
    BY <1>10, <1>1 DEF mvars
  <1> QED BY <1>2, <1>3, <1>4, <1>5, <1>6, <1>7, <1>8, <1>9, <1>10 DEF MNext, Run

\* Gauges are added by Publish and lost with the process.
LEMMA GaugesStep ==
    [MNext]_<<vars, mvars>> =>
        \/ UNCHANGED <<slot, gauges>>
        \/ gauges' = {}
        \/ MBoot
        \/ \E j \in Jobs : Publish(j)
  <1> SUFFICES ASSUME [MNext]_<<vars, mvars>>, ~MBoot, ~MCrash, \A j \in Jobs : ~Publish(j)
               PROVE  UNCHANGED <<slot, gauges>>
    BY DEF MCrash
  <1>1. CASE Listen
    BY <1>1 DEF Listen, mvars
  <1>2. ASSUME NEW j \in Jobs, Run(j) PROVE UNCHANGED <<slot, gauges>>
    BY <1>2 DEF Run, Begin, SetLabel, Query, QueryFails
  <1> QED BY <1>1, <1>2 DEF MNext, mvars

\* What has been published stays right, since the mark has passed it.
LEMMA FinalStep == MInv /\ [MNext]_<<vars, mvars>> => Final'
  <1> SUFFICES ASSUME MInv, [MNext]_<<vars, mvars>>, NEW g \in gauges', g.alone
               PROVE  /\ g.label + SlotSize <= bn'
                      /\ g.count = OrdersBySlot(g.label + SlotSize)'
    BY DEF Final
  <1>1. /\ bn \in Nat /\ bn' \in Nat /\ bn <= bn'
        /\ \A end \in Int : end <= bn => OrdersBySlot(end)' = OrdersBySlot(end)
    BY MarkStep DEF MInv
  <1>2. /\ g.label \in Int
        /\ g.label + SlotSize <= bn
        /\ g.count = OrdersBySlot(g.label + SlotSize)
    <2>1. CASE g \in gauges
      BY <2>1 DEF MInv, Final, MTypeOK
    <2>2. CASE g \notin gauges
      <3>1. PICK j \in Jobs : Publish(j)
        BY <2>2, GaugesStep DEF MBoot, MInv, MTypeOK
      <3>2. g.label = label[j] /\ g.count = count[j] /\ j \notin shared
        <4>1. g = Gauge(j)
          BY <3>1, <2>2 DEF Publish
        <4> QED BY <4>1 DEF Gauge
      <3>3. jpc[j] = "publish" /\ slot \in Nat
        BY <3>1 DEF Publish, At, MInv, MTypeOK
      <3>4. /\ bn >= slot /\ label[j] = slot - SlotSize
            /\ count[j] = OrdersBySlot(slot)
        BY <3>2, <3>3 DEF MInv, Single
      <3>5. g.label + SlotSize = slot /\ g.label \in Int
        BY <3>2, <3>3, <3>4
      <3> QED BY <3>2, <3>4, <3>5
    <2> QED BY <2>1, <2>2
  <1>3. g.label + SlotSize \in Int
    BY <1>2
  <1> QED BY <1>1, <1>2, <1>3

\* A run that has slot to itself publishes the slot after those published.
LEMMA InOrderStep == MInv /\ [MNext]_<<vars, mvars>> => InOrder'
  <1> SUFFICES ASSUME MInv, [MNext]_<<vars, mvars>> PROVE InOrder'
    OBVIOUS
  <1>a. MTypeOK /\ Aligned /\ Single /\ InOrder
    BY DEF MInv
  <1>1. CASE UNCHANGED <<slot, gauges>>
    BY <1>1, <1>a DEF InOrder
  <1>2. CASE gauges' = {}
    BY <1>2 DEF InOrder
  <1>3. CASE MBoot
    <2>1. gauges' = {}
      BY <1>3, <1>a DEF MBoot, Boot, MTypeOK
    <2> QED BY <2>1, <1>2
  <1>4. ASSUME NEW j \in Jobs, Publish(j), \A g \in gauges' : g.alone
        PROVE  /\ \A g \in gauges' : g.label <= slot' - 2 * SlotSize
               /\ \A g, h \in gauges' : g.label = h.label => g = h
               /\ \A g \in gauges' : \A l \in g.label .. slot' - 2 * SlotSize :
                    Multiple(l) => \E h \in gauges' : h.label = l
    <2> DEFINE top == slot - 2 * SlotSize
               new == Gauge(j)
    <2>1. /\ gauges' = gauges \cup {new} /\ slot' = slot + SlotSize
          /\ new.alone = (j \notin shared) /\ new.label = label[j]
          /\ jpc[j] = "publish"
      BY <1>4 DEF Publish, Gauge, At
    <2>2. slot \in Nat /\ top \in Int /\ \A g \in gauges : g.label \in Int
      BY <1>a DEF MTypeOK
    <2>3. new.label = slot - SlotSize
      <3>1. j \notin shared
        BY <1>4, <2>1
      <3> QED BY <3>1, <2>1, <1>a DEF Single
    <2>4. /\ \A g \in gauges : g.label <= top
          /\ \A g, h \in gauges : g.label = h.label => g = h
          /\ \A g \in gauges : \A l \in g.label .. top :
               Multiple(l) => \E h \in gauges : h.label = l
      BY <1>4, <2>1, <1>a DEF InOrder
    <2>5. new.label = top + SlotSize /\ slot' - 2 * SlotSize = top + SlotSize
      BY <2>1, <2>2, <2>3
    <2>6. Multiple(top) /\ Multiple(top + SlotSize)
      <3>1. Multiple(slot)
        BY <1>a DEF Aligned
      <3>2. Multiple(slot - SlotSize)
        BY <3>1, <2>2, NextSlot
      <3>3. Multiple(slot - SlotSize - SlotSize)
        BY <3>2, <2>2, NextSlot
      <3> QED BY <3>2, <3>3, <2>2, <2>3, <2>5
    <2> HIDE DEF top, new
    <2>7. ASSUME NEW g \in gauges' PROVE g.label \in Int /\ g.label <= top + SlotSize
      BY <2>1, <2>2, <2>4, <2>5, <2>7
    <2>8. ASSUME NEW g \in gauges', NEW h \in gauges', g.label = h.label PROVE g = h
      BY <2>1, <2>2, <2>4, <2>5, <2>8
    <2>9. ASSUME NEW g \in gauges', NEW l \in g.label .. top + SlotSize, Multiple(l)
          PROVE  \E h \in gauges' : h.label = l
      <3>1. l \in Int /\ g.label <= l /\ l <= top + SlotSize
        BY <2>7, <2>9
      <3>2. CASE l = top + SlotSize
        BY <3>2, <2>1, <2>5
      <3>3. CASE l # top + SlotSize
        <4>1. ~(top < l)
          BY <3>1, <3>3, <2>2, <2>6, <2>9, NextSlot
        <4>2. g \in gauges
          BY <3>1, <4>1, <2>1, <2>2, <2>5
        <4> QED BY <3>1, <4>1, <4>2, <2>1, <2>2, <2>4, <2>9
      <3> QED BY <3>2, <3>3
    <2> QED BY <2>5, <2>7, <2>8, <2>9
  <1> QED BY <1>1, <1>2, <1>3, <1>4, GaugesStep DEF InOrder

\* No step breaks the inductive invariant.
LEMMA MStepInv == MInv /\ [MNext]_<<vars, mvars>> => MInv'
  <1>1. MInv /\ [MNext]_<<vars, mvars>> => LInv'
    BY MarkStep DEF MInv
  <1> QED BY <1>1, MTypeStep, SingleStep, FinalStep, InOrderStep DEF MInv

\* The inductive invariant holds of the listener and the counters together.
THEOREM MInvariance == MSpec => []MInv
  BY MInitInv, MStepInv, PTL DEF MSpec

-----------------------------------------------------------------------------
\* What a run publishes for a slot, if no other run was under way, is the number
\* of orders of that slot, and it stays so through every step of the listener, a
\* block that is processed again and a restart included.
THEOREM SlotsAreFinal == MSpec => []SlotsFinal
  <1>1. MInv => SlotsFinal
    BY DEF MInv, Final, SlotsFinal
  <1> QED BY MInvariance, <1>1, PTL

\* Slots are published one after the other until runs overlap: none is left out,
\* and the next one lies behind all that have been published.
THEOREM SlotsAreInOrder == MSpec => []SlotsInOrder
  <1>1. MInv => SlotsInOrder
    BY DEF MInv, InOrder, SlotsInOrder, Multiple
  <1> QED BY MInvariance, <1>1, PTL

\* The listener is not disturbed by the counters that read its tables: with them
\* beside it, it still keeps the orders of every block it marks, and surplus rows
\* are paid for by crashes and failures.
THEOREM ListenerUndisturbed == MSpec => [](OrdersKept /\ SurplusPaid)
  <1>1. MInv => OrdersKept /\ SurplusPaid
    BY DEF MInv, LInv, Kept, OrdersKept, Paid, TypeOK, SurplusPaid, Blocks
  <1> QED BY MInvariance, <1>1, PTL
==============================================================================
