-------------------------- MODULE EraMetrics_proofs --------------------------
(***************************************************************************)
(* Proofs about the staking gauges, for every length of an era, payout     *)
(* delay, interval and run time that the assumptions allow.                *)
(***************************************************************************)
EXTENDS EraMetrics, FiniteSetTheorems, TLAPS

USE EraAssumption

-----------------------------------------------------------------------------
\* 1 if an era began before one of the reads S of this run.
Off(S) == IF crossed \cap S = {} THEN 0 ELSE 1

\* The reads that have been made or are next.
Upto == CASE pc = "time" -> {"time"} \cup (IF kind = "counts" THEN {"era"} ELSE {})
          [] pc = "era"  -> {"era"} \cup (IF kind = "counts" THEN {} ELSE {"time"})
          [] pc = "read" -> {"time", "era", "read"}
          [] OTHER       -> Reads

\* No run lasts for an era: an era begins once in a run at most.
Timing ==
    /\ pc \in Reads => wait = interval - spent
    /\ pc \notin Reads => spent = 0
    /\ pc \in Reads => /\ crossed \subseteq Upto
                       /\ crossed # {} => tick < spent
                       /\ \A x, y \in crossed : x = y
    /\ pc = "second" => kind \in {"counts", "rewards"}

\* What a run has read by now.
Labels ==
    IF kind = "counts"
      THEN /\ pc = "time" => index = era - Off({"time"})
           /\ pc \in {"read", "second"} => /\ ts.era = era - Off({"read", "second"})
                                           /\ index = ts.era - Off({"time"})
      ELSE /\ pc = "era" => ts.era = era - Off({"era"})
           /\ pc \in {"read", "second"} => /\ index = era - Off({"read", "second"})
                                           /\ ts.era = index - Off({"era"})

\* A payout that has been seen stays.
Paid ==
    pc = "second" /\ kind = "rewards" =>
        /\ got \subseteq Payouts
        /\ \A e \in got : e <= index /\ (isInit => e = index - 1)

EraInv == TypeOK /\ Timing /\ Labels /\ Paid /\ LabelsInEra /\ RewardsWhole

-----------------------------------------------------------------------------
\* Ticks since the last run began that has ended.
Elapsed == IF pc \in Reads THEN interval + spent ELSE interval - wait

Shown(e) == \E g \in gauge : g.era = e

\* The history is on show once the first run has been good.
Flag ==
    /\ kind \in {"stakes", "rewards"} => (isInit <=> show # "none")
    /\ pc = "down" => show = "none"

\* The eras that are due are on show, and the next one too once a whole run
\* fits behind the moment it becomes readable.
Covered ==
    show = "history" /\ Often /\ era < PageSize =>
        /\ kind = "stakes" => /\ \A e \in 0 .. era - 1 : Shown(e)
                              /\ Shown(era) \/ tick < Elapsed
        /\ kind = "rewards" => /\ \A e \in 0 .. era - 2 : Shown(e)
                               /\ (era > 0 => Shown(era - 1)) \/ tick < PayDelay + Elapsed

\* The same of the eras a run is about to show.
Fetched ==
    pc = "second" /\ kind = "rewards" /\ Often /\ era < PageSize =>
        /\ (era > 0 => era - 1 \in got) \/ tick < PayDelay + spent
        /\ ~isInit => 0 .. era - 2 \subseteq got

Cover == Flag /\ Covered /\ Fetched

-----------------------------------------------------------------------------
\* uint32 arithmetic on eras.
LEMMA NoWrap == ASSUME NEW x \in 0 .. WordSize - 1 PROVE x % WordSize = x
  OBVIOUS

\* The index of no history: 0 - 1 is the largest uint32.
LEMMA Wraps == (0 - 1) % WordSize = WordSize - 1
  OBVIOUS

\* The facts about numbers that the steps use.
LEMMA Types ==
    ASSUME TypeOK
    PROVE  /\ era \in Nat /\ tick \in Nat /\ spent \in Nat /\ index \in Nat /\ wait \in Nat
           /\ interval \in Nat /\ MaxRun < interval /\ spent <= MaxRun /\ wait <= interval
           /\ MaxRun \in Nat /\ MaxRun <= EraLen - 1 /\ tick <= EraLen - 1 /\ era <= MaxEra
           /\ EraLen \in Nat /\ PayDelay \in Nat /\ MaxEra \in Nat /\ WordSize \in Nat
           /\ WordSize > 2 * MaxEra + 1 /\ index <= MaxEra /\ PageSize \in Nat
           /\ ts.era \in 0 .. MaxEra /\ ts.tick \in 0 .. EraLen - 1
           /\ ts = [era |-> ts.era, tick |-> ts.tick]
  BY DEF TypeOK

\* The process has just started, and nothing is on show.
LEMMA InitInv == Init => EraInv /\ Cover
  <1> SUFFICES ASSUME Init PROVE EraInv /\ Cover
    OBVIOUS
  <1> USE DEF Init
  <1>1. TypeOK
    <2>1. interval \in Nat /\ isInit \in BOOLEAN
      OBVIOUS
    <2>2. Now \in [era : 0 .. MaxEra, tick : 0 .. EraLen - 1]
      BY DEF Now
    <2>3. wait \in 0 .. interval /\ spent \in 0 .. MaxRun /\ index \in 0 .. MaxEra
      BY <2>1
    <2> QED BY <2>1, <2>2, <2>3 DEF TypeOK
  <1>2. Timing /\ Labels /\ Paid /\ LabelsInEra /\ RewardsWhole
    BY DEF Timing, Labels, Paid, LabelsInEra, RewardsWhole, Reads
  <1>3. Cover
    BY DEF Cover, Flag, Covered, Fetched
  <1> QED BY <1>1, <1>2, <1>3 DEF EraInv

\* No step breaks a type.
LEMMA TypeStep == EraInv /\ [Next]_vars => TypeOK'
  <1> SUFFICES ASSUME TypeOK, [Next]_vars PROVE TypeOK'
    BY DEF EraInv
  <1> USE DEF clock, config, timer, bounds, vars
  <1>0. /\ era \in 0 .. MaxEra /\ tick \in 0 .. EraLen - 1
        /\ kind \in Kinds /\ interval \in Intervals
        /\ wait \in 0 .. interval /\ spent \in 0 .. MaxRun
        /\ pc \in Reads \cup {"idle", "down"} /\ isInit \in BOOLEAN
        /\ show \in {"none", "history", "gaps"}
        /\ ts \in [era : 0 .. MaxEra, tick : 0 .. EraLen - 1] /\ index \in 0 .. MaxEra
        /\ got \subseteq 0 .. MaxEra /\ crossed \subseteq Reads
        /\ 0 \in 0 .. MaxRun /\ interval \in Nat /\ MaxEra \in Nat /\ EraLen \in Nat \ {0}
        /\ MaxRun \in Nat
    BY DEF TypeOK
  <1>1. CASE Tick
    <2>1. era' \in 0 .. MaxEra /\ tick' \in 0 .. EraLen - 1
      BY <1>0, <1>1 DEF Tick
    <2>2. wait' \in 0 .. interval /\ spent' \in 0 .. MaxRun
      BY <1>0, <1>1 DEF Tick
    <2>3. crossed' \subseteq Reads
      BY <1>0, <1>1 DEF Tick
    <2> QED BY <1>0, <1>1, <2>1, <2>2, <2>3 DEF Tick, TypeOK
  <1>2. CASE Start
    BY <1>0, <1>2 DEF Start, TypeOK, First, Reads
  <1>3. CASE ReadTime
    BY <1>0, <1>3 DEF ReadTime, TypeOK, AfterTime, Reads, Now
  <1>4. CASE ReadEra
    BY <1>0, <1>4 DEF ReadEra, TypeOK, AfterEra, Reads
  <1>5. CASE Stakes
    <2>1. pc' = "idle" /\ spent' = 0 /\ show' \in {"none", "history", "gaps"} /\ isInit' = TRUE
          /\ UNCHANGED <<clock, config, wait, ts, index, got, crossed, bounds>>
      BY <1>0, <1>5 DEF Stakes, Publish
    <2> QED BY <1>0, <2>1 DEF TypeOK
  <1>6. CASE Limits
    BY <1>0, <1>6 DEF Limits, Publish, TypeOK
  <1>7. CASE Guarantors
    BY <1>0, <1>7 DEF Guarantors, TypeOK, Reads
  <1>8. CASE Validators
    BY <1>0, <1>8 DEF Validators, Publish, TypeOK
  <1>9. CASE StakingPayout
    <2>1. Payouts \subseteq 0 .. MaxEra
      BY <1>0 DEF Payouts
    <2>2. got' \subseteq Payouts
      BY <1>9 DEF StakingPayout, OnePage
    <2> QED BY <1>0, <1>9, <2>1, <2>2 DEF StakingPayout, TypeOK, Reads
  <1>10. CASE AuthoringPayout
    BY <1>0, <1>10 DEF AuthoringPayout, Publish, TypeOK
  <1>11. CASE AuthoringLost
    BY <1>0, <1>11 DEF AuthoringLost, TypeOK
  <1>12. CASE Fail
    BY <1>0, <1>12 DEF Fail, TypeOK, Reads
  <1>13. CASE Crash
    <2>1. isInit' \in BOOLEAN
      BY <1>13 DEF Crash
    <2> QED BY <1>0, <1>13, <2>1 DEF Crash, TypeOK
  <1>14. CASE Boot
    BY <1>0, <1>14 DEF Boot, TypeOK
  <1>15. CASE UNCHANGED vars
    BY <1>15 DEF TypeOK
  <1> QED BY <1>1, <1>2, <1>3, <1>4, <1>5, <1>6, <1>7, <1>8, <1>9, <1>10, <1>11, <1>12, <1>13,
             <1>14, <1>15 DEF Next, Handler, Ended

\* Time goes on during a run.
LEMMA TickInRun ==
    ASSUME EraInv, Tick, pc \in Reads
    PROVE  /\ pc' = pc /\ spent' = spent + 1 /\ wait' = interval - spent' /\ interval' = interval
           /\ \/ /\ era' = era /\ tick' = tick + 1 /\ crossed' = crossed
              \/ /\ era' = era + 1 /\ tick = EraLen - 1 /\ tick' = 0
                 /\ crossed = {} /\ crossed' = {pc}
  <1>0. TypeOK /\ Timing
    BY DEF EraInv
  <1>1. /\ pc' = pc /\ interval' = interval /\ spent' = spent + 1 /\ spent < MaxRun
        /\ wait' = IF wait > 0 THEN wait - 1 ELSE 0
        /\ tick' = IF tick = EraLen - 1 THEN 0 ELSE tick + 1
        /\ era' = IF tick = EraLen - 1 THEN era + 1 ELSE era
        /\ crossed' = IF tick = EraLen - 1 THEN crossed \cup {pc} ELSE crossed
    BY DEF Tick, config, bounds
  <1>2. wait' = interval - spent'
    BY <1>0, <1>1, Types DEF Timing
  <1>3. tick = EraLen - 1 => crossed = {}
    BY <1>0, <1>1, Types DEF Timing
  <1> QED BY <1>1, <1>2, <1>3

\* A run is over, or has failed, before MaxRun ticks have passed.
LEMMA TimingStep == EraInv /\ [Next]_vars => Timing'
  <1> SUFFICES ASSUME EraInv, [Next]_vars PROVE Timing'
    OBVIOUS
  <1> USE DEF clock, config, timer, bounds, vars
  <1>0. TypeOK /\ Timing
    BY DEF EraInv
  <1>1. CASE Tick /\ pc \in Reads
    <2>1. Upto' = Upto /\ pc \in Upto /\ kind' = kind
      BY <1>1 DEF Tick, Upto, Reads
    <2>2. crossed' \subseteq Upto'
      BY <1>0, <1>1, <2>1, TickInRun DEF Timing
    <2>3. crossed' # {} => tick' < spent'
      BY <1>0, <1>1, TickInRun, Types DEF Timing
    <2>4. \A x, y \in crossed' : x = y
      BY <1>0, <1>1, TickInRun DEF Timing
    <2> QED BY <1>0, <1>1, <2>1, <2>2, <2>3, <2>4, TickInRun DEF Timing
  <1>2. CASE Tick /\ pc \notin Reads
    BY <1>0, <1>2 DEF Tick, Timing
  <1>3. CASE Start
    <2>1. pc' \in Reads \ {"second"} /\ wait' = interval /\ spent' = 0 /\ crossed' = {}
          /\ interval' = interval
      BY <1>3 DEF Start, First, Reads
    <2> QED BY <1>0, <2>1, Types DEF Timing
  <1>4. CASE ReadTime
    <2>1. pc \in Reads /\ pc' \in {"era", "read"} /\ UNCHANGED <<clock, timer, config, crossed>>
      BY <1>4 DEF ReadTime, AfterTime, Reads
    <2>2. Upto \subseteq Upto'
      BY <1>4 DEF ReadTime, AfterTime, Upto, Reads
    <2> QED BY <1>0, <2>1, <2>2 DEF Timing, Reads
  <1>5. CASE ReadEra
    <2>1. pc \in Reads /\ pc' \in {"time", "read"} /\ UNCHANGED <<clock, timer, config, crossed>>
      BY <1>5 DEF ReadEra, AfterEra, Reads
    <2>2. Upto \subseteq Upto'
      BY <1>5 DEF ReadEra, AfterEra, Upto, Reads
    <2> QED BY <1>0, <2>1, <2>2 DEF Timing, Reads
  <1>6. CASE pc' \in {"idle", "down"} /\ spent' = 0
    BY <1>6 DEF Timing, Reads
  <1>7. CASE pc' = "second" /\ pc = "read" /\ UNCHANGED <<clock, timer, config, crossed>>
             /\ kind \in {"counts", "rewards"}
    <2>1. pc \in Reads /\ pc' \in Reads /\ Upto \subseteq Upto'
      BY <1>7 DEF Upto, Reads
    <2> QED BY <1>0, <1>7, <2>1 DEF Timing
  <1>8. CASE Stakes \/ Limits \/ Validators \/ AuthoringPayout
    BY <1>6, <1>8 DEF Stakes, Limits, Validators, AuthoringPayout, Publish
  <1>9. CASE Guarantors
    BY <1>7, <1>9 DEF Guarantors
  <1>10. CASE StakingPayout
    BY <1>6, <1>7, <1>10 DEF StakingPayout
  <1>11. CASE AuthoringLost
    BY <1>6, <1>11 DEF AuthoringLost
  <1>12. CASE Fail
    BY <1>6, <1>7, <1>12 DEF Fail
  <1>13. CASE Crash
    BY <1>6, <1>13 DEF Crash
  <1>14. CASE Boot
    BY <1>0, <1>14, <1>6 DEF Boot, Timing, Reads
  <1>15. CASE UNCHANGED vars
    <2>1. Upto' = Upto
      BY <1>15 DEF Upto
    <2> QED BY <1>0, <1>15, <2>1 DEF Timing
  <1> QED BY <1>1, <1>2, <1>3, <1>4, <1>5, <1>8, <1>9, <1>10, <1>11, <1>12, <1>13,
             <1>14, <1>15 DEF Next, Handler, Ended

\* A read gives the label, the time or the value of the era at that moment.
LEMMA LabelsStep == EraInv /\ [Next]_vars => Labels'
  <1> SUFFICES ASSUME EraInv, [Next]_vars PROVE Labels'
    OBVIOUS
  <1> USE DEF clock, config, timer, bounds, vars
  <1>0. TypeOK /\ Timing /\ Labels
    BY DEF EraInv
  <1>1. CASE Tick /\ pc \in Reads
    <2>1. UNCHANGED <<kind, pc, ts, index>>
      BY <1>1 DEF Tick
    <2>2. CASE era' = era /\ crossed' = crossed
      BY <1>0, <2>1, <2>2 DEF Labels, Off
    <2>3. CASE era' = era + 1 /\ crossed = {} /\ crossed' = {pc}
      <3>1. /\ Off({"time"})' = IF pc = "time" THEN 1 ELSE 0
            /\ Off({"era"})' = IF pc = "era" THEN 1 ELSE 0
            /\ Off({"read", "second"})' = IF pc \in {"read", "second"} THEN 1 ELSE 0
        BY <2>3 DEF Off
      <3>2. Off({"time"}) = 0 /\ Off({"era"}) = 0 /\ Off({"read", "second"}) = 0
        BY <2>3 DEF Off
      <3>3. era \in Nat /\ index \in Nat /\ ts.era \in Nat
        BY <1>0, Types
      <3>4. CASE kind = "counts"
        BY <1>0, <2>1, <2>3, <3>1, <3>2, <3>3, <3>4 DEF Labels
      <3>5. CASE kind # "counts"
        BY <1>0, <2>1, <2>3, <3>1, <3>2, <3>3, <3>5 DEF Labels
      <3> QED BY <3>4, <3>5
    <2> QED BY <1>1, <2>2, <2>3, TickInRun
  <1>2. CASE pc' \notin Reads
    BY <1>2 DEF Labels, Reads
  <1>3. CASE Tick /\ pc \notin Reads
    BY <1>2, <1>3 DEF Tick
  <1>4. CASE Start
    <2>1. pc' = First /\ kind' = kind
      BY <1>4 DEF Start
    <2> QED BY <2>1 DEF First, Labels
  <1>5. CASE ReadTime
    <2>1. /\ pc = "time" /\ pc' = AfterTime /\ ts'.era = era
          /\ UNCHANGED <<era, kind, index, crossed>>
      BY <1>5 DEF ReadTime, Now
    <2>2. "read" \notin crossed /\ "second" \notin crossed
          /\ (kind # "counts" => "era" \notin crossed)
      BY <1>0, <2>1 DEF Timing, Upto, Reads
    <2> QED BY <1>0, <2>1, <2>2, Types DEF AfterTime, Labels, Off
  <1>6. CASE ReadEra
    <2>1. /\ pc = "era" /\ pc' = AfterEra /\ index' = era
          /\ UNCHANGED <<era, kind, ts, crossed>>
      BY <1>6 DEF ReadEra
    <2>2. "read" \notin crossed /\ "second" \notin crossed
          /\ (kind = "counts" => "time" \notin crossed)
      BY <1>0, <2>1 DEF Timing, Upto, Reads
    <2> QED BY <1>0, <2>1, <2>2, Types DEF AfterEra, Labels, Off
  <1>7. CASE pc' = "second" /\ pc = "read" /\ UNCHANGED <<clock, kind, ts, index, crossed>>
    BY <1>0, <1>7 DEF Labels, Off
  <1>8. CASE Stakes \/ Limits \/ Validators \/ AuthoringPayout
    BY <1>2, <1>8 DEF Stakes, Limits, Validators, AuthoringPayout, Publish, Reads
  <1>9. CASE Guarantors
    BY <1>7, <1>9 DEF Guarantors
  <1>10. CASE StakingPayout
    BY <1>2, <1>7, <1>10 DEF StakingPayout, Reads
  <1>11. CASE AuthoringLost
    BY <1>2, <1>11 DEF AuthoringLost, Reads
  <1>12. CASE Fail
    BY <1>2, <1>7, <1>12 DEF Fail, Reads
  <1>13. CASE Crash
    BY <1>2, <1>13 DEF Crash, Reads
  <1>14. CASE Boot
    BY <1>2, <1>14 DEF Boot, Reads
  <1>15. CASE UNCHANGED vars
    BY <1>0, <1>15 DEF Labels, Off
  <1> QED BY <1>1, <1>3, <1>4, <1>5, <1>6, <1>8, <1>9, <1>10, <1>11, <1>12, <1>13,
             <1>14, <1>15 DEF Next, Handler, Ended

\* A payout is read when it is there, and stays.
LEMMA PaidStep == EraInv /\ [Next]_vars => Paid'
  <1> SUFFICES ASSUME EraInv, [Next]_vars PROVE Paid'
    OBVIOUS
  <1> USE DEF clock, config, timer, bounds, vars
  <1>0. TypeOK /\ Timing /\ Labels /\ Paid
    BY DEF EraInv
  <1>1. CASE Tick
    <2>1. UNCHANGED <<kind, pc, index, isInit, got>>
      BY <1>1 DEF Tick
    <2>2. Payouts \subseteq Payouts'
      BY <1>0, <1>1, Types DEF Payouts, Tick
    <2> QED BY <1>0, <2>1, <2>2 DEF Paid
  <1>2. CASE StakingPayout
    <2>1. pc = "read" /\ kind = "rewards" /\ UNCHANGED <<era, tick, index, isInit, kind>>
      BY <1>2 DEF StakingPayout
    <2>2. got' \subseteq Payouts /\ (isInit => got' \subseteq {Previous})
      BY <1>2 DEF StakingPayout, OnePage
    <2>3. Payouts' = Payouts
      BY <2>1 DEF Payouts
    <2>4. era - 1 <= index
      BY <1>0, <2>1, Types DEF Labels, Off
    <2>5. ASSUME NEW e \in got' PROVE e <= index /\ (isInit => e = index - 1)
      <3>1. e \in Int /\ 0 <= e /\ e <= era - 1
        BY <1>0, <2>2, <2>5, Types DEF Payouts
      <3>2. isInit => e = index - 1
        <4>1. CASE index = 0
          BY <2>2, <2>5, <3>1, <4>1, Wraps, Types, <1>0 DEF Previous
        <4>2. CASE index > 0
          <5>1. index - 1 \in 0 .. WordSize - 1
            BY <1>0, <4>2, Types
          <5> QED BY <2>2, <2>5, <5>1, NoWrap DEF Previous
        <4> QED BY <1>0, <4>1, <4>2, Types
      <3> QED BY <1>0, <2>4, <3>1, <3>2, Types
    <2> QED BY <2>1, <2>2, <2>3, <2>5 DEF Paid
  <1>3. CASE pc' \in {"idle", "down", "time", "era", "read"} \/ kind' = "counts"
    BY <1>3 DEF Paid
  <1>4. CASE Start \/ ReadTime \/ ReadEra
    BY <1>3, <1>4 DEF Start, ReadTime, ReadEra, First, AfterTime, AfterEra
  <1>5. CASE Stakes \/ Limits \/ Guarantors \/ Validators \/ AuthoringPayout \/ AuthoringLost
    BY <1>3, <1>5 DEF Stakes, Limits, Guarantors, Validators, AuthoringPayout, AuthoringLost,
                      Publish
  <1>6. CASE Fail \/ Crash \/ Boot
    BY <1>3, <1>6 DEF Fail, Crash, Boot
  <1>7. CASE UNCHANGED vars
    BY <1>0, <1>7 DEF Paid, Payouts
  <1> QED BY <1>1, <1>2, <1>4, <1>5, <1>6, <1>7 DEF Next, Handler, Ended

\* What a label may say, for one entry of the gauges.
LabelOK(g) ==
    /\ \/ g.ts.era = g.era
       \/ g.ts.era = g.era - 1 /\ "era" \in g.crossed
       \/ g.ts.era = g.era + 1 /\ "time" \in g.crossed
       \/ g.ts.era < 0 /\ g.name = "stake" /\ "read" \in g.crossed
    /\ \/ g.of = g.era
       \/ g.of = g.era + 1 /\ g.crossed \cap {"time", "read", "second"} # {}

WholeOK(g) == g.whole \/ "lost" \in g.crossed

\* An entry of the present run with the time e has, if e is not newer than index.
LEMMA HistoryOf ==
    ASSUME TypeOK, NEW e \in Nat, e <= index
    PROVE  HistoryTime(e).era = ts.era - (index - e)
  <1>1. index - e \in 0 .. WordSize - 1
    BY Types
  <1>2. (index - e) % WordSize = index - e
    BY <1>1, NoWrap
  <1>3. HistoryTime(e) = [ts EXCEPT !.era = ts.era - (index - e)]
    BY <1>2, Types DEF HistoryTime
  <1> QED BY <1>3, Types

\* Off by cases.
LEMMA OffIs ==
    /\ \A x : Off({x}) = IF x \in crossed THEN 1 ELSE 0
    /\ Off({"read", "second"}) = IF "read" \in crossed \/ "second" \in crossed THEN 1 ELSE 0
  BY DEF Off

\* Everything the handlers publish is labelled within these limits, and whole.
LEMMA PublishedOK ==
    ASSUME EraInv, Next, NEW g \in gauge', g \notin gauge
    PROVE  LabelOK(g) /\ WholeOK(g)
  <1> USE DEF clock, config, timer, bounds, vars
  <1>0. TypeOK /\ Timing /\ Labels /\ Paid
    BY DEF EraInv
  <1>1. CASE Stakes
    <2>1. pc = "read" /\ kind = "stakes" /\ index = era - Off({"read", "second"})
          /\ ts.era = index - Off({"era"}) /\ "second" \notin crossed
      BY <1>0, <1>1 DEF Stakes, Labels, Timing, Upto, Reads
    <2>2. CASE isInit
      <3>1. g = Entry("stake", index, ts, index, TRUE)
        BY <1>1, <2>2 DEF Stakes, Publish
      <3>2. ts.era = index \/ (ts.era = index - 1 /\ "era" \in crossed)
        BY <1>0, <2>1, Types, OffIs
      <3> QED BY <1>0, <3>1, <3>2, Types DEF Entry, LabelOK, WholeOK
    <2>3. CASE ~isInit
      <3>1. PICK page \in OnePage(Totals) :
               Publish({Entry("stake", e, HistoryTime(e), e, TRUE) : e \in page})
        BY <1>1, <2>3 DEF Stakes
      <3>2. PICK e \in page : g = Entry("stake", e, HistoryTime(e), e, TRUE)
        BY <3>1 DEF Publish
      <3>3. e \in 0 .. era
        BY <3>1, <3>2 DEF OnePage, Totals
      <3>4. CASE e <= index
        <4>1. HistoryTime(e).era = ts.era - (index - e)
          BY <1>0, <3>3, <3>4, HistoryOf
        <4>2. HistoryTime(e).era = e \/ (HistoryTime(e).era = e - 1 /\ "era" \in crossed)
          BY <1>0, <2>1, <3>3, <4>1, Types, OffIs
        <4> QED BY <3>2, <3>3, <4>2 DEF Entry, LabelOK, WholeOK
      <3>5. CASE e > index
        <4>1. index - e = 0 - 1 /\ "read" \in crossed
          BY <1>0, <2>1, <3>3, <3>5, Types, OffIs
        <4>2. (index - e) % WordSize = WordSize - 1
          BY <4>1, Wraps
        <4>3. HistoryTime(e) = [ts EXCEPT !.era = ts.era - (WordSize - 1)]
          BY <1>0, <4>2, Types DEF HistoryTime
        <4>4. HistoryTime(e).era < 0
          BY <1>0, <4>3, Types
        <4> QED BY <3>2, <3>3, <4>1, <4>4 DEF Entry, LabelOK, WholeOK
      <3> QED BY <1>0, <3>3, <3>4, <3>5, Types
    <2> QED BY <2>2, <2>3
  <1>2. CASE Limits
    <2>1. kind = "limits" /\ pc = "read" /\ g = Entry("limit", index, ts, era, TRUE)
      BY <1>2 DEF Limits, Publish
    <2>2. index = era - Off({"read", "second"}) /\ ts.era = index - Off({"era"})
      BY <1>0, <2>1 DEF Labels
    <2>3. ts.era = index \/ (ts.era = index - 1 /\ "era" \in crossed)
      BY <1>0, <2>2, Types, OffIs
    <2>4. era = index \/ (era = index + 1 /\ crossed \cap {"time", "read", "second"} # {})
      BY <1>0, <2>2, Types, OffIs
    <2> QED BY <1>0, <2>1, <2>3, <2>4, Types DEF Entry, LabelOK, WholeOK
  <1>3. CASE Guarantors \/ Validators
    <2>1. PICK name \in {"guarantors", "validators"} : g = Entry(name, index, ts, era, TRUE)
      BY <1>3 DEF Guarantors, Validators, Publish
    <2>2. ts.era = era - Off({"read", "second"}) /\ index = ts.era - Off({"time"})
      BY <1>0, <1>3 DEF Labels, Guarantors, Validators
    <2>3. \A x, y \in crossed : x = y
      BY <1>0, <1>3 DEF Timing, Guarantors, Validators, Reads
    <2>4. ts.era = index \/ (ts.era = index + 1 /\ "time" \in crossed)
      BY <1>0, <2>2, Types, OffIs
    <2>5. era = index \/ (era = index + 1 /\ crossed \cap {"time", "read", "second"} # {})
      <3>1. "time" \in crossed => "read" \notin crossed /\ "second" \notin crossed
        BY <2>3
      <3> QED BY <1>0, <2>2, <3>1, Types, OffIs
    <2> QED BY <1>0, <2>1, <2>4, <2>5, Types DEF Entry, LabelOK, WholeOK
  <1>4. ASSUME NEW e \in got, pc = "second", kind = "rewards"
        PROVE  /\ e \in Payouts /\ e \in Int
               /\ ~isInit => \/ HistoryTime(e).era = e
                             \/ HistoryTime(e).era = e - 1 /\ "era" \in crossed
               /\ isInit => \/ RewardTime.era = e
                            \/ RewardTime.era = e - 1 /\ "era" \in crossed
    <2>1. e \in Payouts /\ e <= index /\ (isInit => e = index - 1)
      BY <1>0, <1>4 DEF Paid
    <2>2. e \in Nat
      BY <1>0, <2>1, Types DEF Payouts
    <2>3. ts.era = index - Off({"era"})
      BY <1>0, <1>4 DEF Labels
    <2>4. HistoryTime(e).era = ts.era - (index - e)
      BY <1>0, <2>1, <2>2, HistoryOf
    <2>5. RewardTime.era = ts.era - 1
      <3>1. RewardTime = [ts EXCEPT !.era = ts.era - 1]
        BY <1>0, Types DEF RewardTime
      <3> QED BY <1>0, <3>1, Types
    <2>7. index \in Nat /\ ts.era \in Nat
      BY <1>0, Types
    <2>6. \/ ts.era = index
          \/ ts.era = index - 1 /\ "era" \in crossed
      <3>1. Off({"era"}) = IF "era" \in crossed THEN 1 ELSE 0
        BY OffIs
      <3> QED BY <2>3, <2>7, <3>1
    <2>8. \/ HistoryTime(e).era = e
          \/ HistoryTime(e).era = e - 1 /\ "era" \in crossed
      BY <2>2, <2>4, <2>6, <2>7
    <2>9. isInit => \/ RewardTime.era = e
                    \/ RewardTime.era = e - 1 /\ "era" \in crossed
      BY <2>1, <2>2, <2>5, <2>6, <2>7
    <2> QED BY <2>1, <2>2, <2>8, <2>9
  <1>5. CASE AuthoringPayout
    <2>1. PICK e \in got : g = Entry("reward", e, IF isInit THEN RewardTime ELSE HistoryTime(e),
                                     e, e \in Payouts)
      BY <1>5 DEF AuthoringPayout, Publish
    <2>2. pc = "second" /\ kind = "rewards"
      BY <1>5 DEF AuthoringPayout
    <2>3. /\ e \in Payouts /\ e \in Int
          /\ ~isInit => \/ HistoryTime(e).era = e
                        \/ HistoryTime(e).era = e - 1 /\ "era" \in crossed
          /\ isInit => \/ RewardTime.era = e
                       \/ RewardTime.era = e - 1 /\ "era" \in crossed
      BY <1>4, <2>1, <2>2
    <2>4. g = Entry("reward", e, IF isInit THEN RewardTime ELSE HistoryTime(e), e, TRUE)
      BY <2>1, <2>3 DEF Entry
    <2>5. LET time == IF isInit THEN RewardTime ELSE HistoryTime(e)
          IN  time.era = e \/ (time.era = e - 1 /\ "era" \in crossed)
      BY <2>3
    <2> QED BY <2>3, <2>4, <2>5 DEF Entry, LabelOK, WholeOK
  <1>6. CASE AuthoringLost
    <2>1. PICK e \in got : g = [Entry("reward", e, RewardTime, e, FALSE)
                                  EXCEPT !.crossed = @ \cup {"lost"}]
      BY <1>6 DEF AuthoringLost
    <2>2. pc = "second" /\ kind = "rewards" /\ isInit
      BY <1>6 DEF AuthoringLost
    <2>3. RewardTime.era = e \/ (RewardTime.era = e - 1 /\ "era" \in crossed)
      BY <1>4, <2>1, <2>2
    <2>4. g.ts = RewardTime /\ g.era = e /\ g.of = e /\ g.crossed = crossed \cup {"lost"}
      BY <2>1 DEF Entry
    <2> QED BY <2>3, <2>4 DEF LabelOK, WholeOK
  <1>7. gauge' \subseteq gauge \/ Stakes \/ Limits \/ Guarantors \/ Validators
        \/ AuthoringPayout \/ AuthoringLost
    BY DEF Next, Handler, Tick, Start, ReadTime, ReadEra, StakingPayout, Fail, Crash, Boot, Ended
  <1> QED BY <1>1, <1>2, <1>3, <1>5, <1>6, <1>7

\* What a run publishes is what it has read: Labels and Paid say that it fits.
LEMMA GaugeStep == EraInv /\ [Next]_vars => LabelsInEra' /\ RewardsWhole'
  <1> SUFFICES ASSUME EraInv, [Next]_vars, NEW g \in gauge' PROVE LabelOK(g) /\ WholeOK(g)
    BY DEF LabelsInEra, RewardsWhole, LabelOK, WholeOK
  <1>1. g \in gauge => LabelOK(g) /\ WholeOK(g)
    BY DEF EraInv, LabelsInEra, RewardsWhole, LabelOK, WholeOK
  <1> QED BY <1>1, PublishedOK DEF vars

\* No step breaks the first half of the inductive invariant.
LEMMA StepInv == EraInv /\ [Next]_vars => EraInv'
  BY TypeStep, TimingStep, LabelsStep, PaidStep, GaugeStep DEF EraInv

-----------------------------------------------------------------------------
\* One page holds all eras.
LEMMA WholePage ==
    ASSUME NEW eras \in SUBSET (0 .. era), era \in Nat, era < PageSize
    PROVE  OnePage(eras) = {eras}
  <1>1. IsFiniteSet(0 .. era) /\ Cardinality(0 .. era) = era + 1
    BY FS_Interval
  <1>2. Cardinality(eras) <= era + 1 /\ Cardinality(eras) \in Nat
    BY <1>1, FS_Subset, FS_CardinalityType
  <1>3. Cardinality(eras) <= PageSize
    BY <1>2
  <1> QED BY <1>3 DEF OnePage

\* The run asks for the era before the present one, or an era has begun since.
LEMMA Asked ==
    ASSUME TypeOK, Timing, Labels, pc = "read", kind \in {"stakes", "rewards"}
    PROVE  \/ index = era
           \/ tick < spent
  <1>1. index = era - Off({"read", "second"})
    BY DEF Labels
  <1>2. Off({"read", "second"}) = 1 => tick < spent
    BY OffIs DEF Timing, Reads
  <1> QED BY <1>1, <1>2, OffIs, Types

\* isInit and isRewardInit are reset by a run that has shown the history.
LEMMA FlagStep == EraInv /\ Cover /\ [Next]_vars => Flag'
  <1> SUFFICES ASSUME Flag, TypeOK, [Next]_vars PROVE Flag'
    BY DEF Cover, EraInv
  <1> USE DEF clock, config, timer, bounds, vars
  <1>1. CASE Stakes \/ AuthoringPayout
    BY <1>1 DEF Stakes, AuthoringPayout, Publish, Flag
  <1>2. CASE Limits \/ Guarantors \/ Validators
    BY <1>2 DEF Limits, Guarantors, Validators, Publish, Flag
  <1>3. CASE Tick \/ Start \/ ReadTime \/ ReadEra \/ Boot \/ UNCHANGED vars
    BY <1>3 DEF Tick, Start, ReadTime, ReadEra, Boot, Flag, First, AfterTime, AfterEra
  <1>4. CASE StakingPayout \/ AuthoringLost
    <2>1. UNCHANGED <<kind, isInit, show>>
      BY <1>4 DEF StakingPayout, AuthoringLost
    <2>2. pc' = "idle" \/ pc' = "second"
      <3>1. CASE StakingPayout
        <4>1. pc' = IF isInit /\ got' = {} THEN "idle" ELSE "second"
          BY <3>1 DEF StakingPayout
        <4> QED BY <4>1
      <3>2. CASE AuthoringLost
        BY <3>2 DEF AuthoringLost
      <3> QED BY <1>4, <3>1, <3>2
    <2> QED BY <2>1, <2>2 DEF Flag
  <1>5. CASE Fail
    BY <1>5 DEF Fail, Flag
  <1>6. CASE Crash
    BY <1>6 DEF Crash, Flag
  <1> QED BY <1>1, <1>2, <1>3, <1>4, <1>5, <1>6 DEF Next, Handler, Ended

\* A run reads every era it is about to show while the storage has it.
LEMMA FetchedStep == EraInv /\ Cover /\ [Next]_vars => Fetched'
  <1> SUFFICES ASSUME EraInv, Fetched, [Next]_vars,
                      pc' = "second", kind' = "rewards", Often', era' < PageSize
               PROVE  /\ (era' > 0 => era' - 1 \in got') \/ tick' < PayDelay + spent'
                      /\ ~isInit' => 0 .. era' - 2 \subseteq got'
    BY DEF Cover, Fetched
  <1> USE DEF clock, config, timer, bounds, vars
  <1>0. TypeOK /\ Timing /\ Labels /\ Paid /\ TypeOK' /\ Paid'
    BY StepInv DEF EraInv
  <1>1. CASE Tick
    <2>1. pc = "second" /\ kind = "rewards" /\ UNCHANGED <<got, isInit>> /\ Often
      BY <1>1 DEF Tick, Often
    <2>2. pc \in Reads
      BY <2>1 DEF Reads
    <2>3. CASE era' = era /\ tick' = tick + 1
      BY <1>0, <1>1, <2>1, <2>2, <2>3, TickInRun, Types DEF Fetched
    <2>4. CASE era' = era + 1 /\ tick = EraLen - 1 /\ tick' = 0
      <3>1. interval + MaxRun <= EraLen - PayDelay /\ spent' = spent + 1 /\ spent' <= MaxRun
        BY <1>0, <1>1, <2>1, <2>2, TickInRun DEF Often, TypeOK
      <3>2. ~ tick < PayDelay + spent
        BY <1>0, <2>4, <3>1, Types
      <3>3. (era > 0 => era - 1 \in got) /\ (~isInit => 0 .. era - 2 \subseteq got)
        BY <1>0, <2>1, <2>4, <3>2, Types DEF Fetched
      <3>4. ~isInit' => 0 .. era' - 2 \subseteq got'
        BY <1>0, <2>1, <2>4, <3>3, Types
      <3> QED BY <1>0, <2>4, <3>1, <3>4, Types
    <2> QED BY <1>1, <2>2, <2>3, <2>4, TickInRun
  <1>2. CASE StakingPayout
    <2>1. /\ pc = "read" /\ kind = "rewards" /\ UNCHANGED <<era, tick, spent, isInit, index>>
          /\ got' \in IF isInit THEN {{Previous} \cap Payouts} ELSE OnePage(Payouts)
          /\ ~(isInit /\ got' = {})
      BY <1>2 DEF StakingPayout
    <2>2. index = era \/ tick < spent
      BY <1>0, <2>1, Asked
    <2>3. CASE isInit
      <3>1. PICK e \in got' : TRUE
        BY <2>1, <2>3
      <3>2. e = index - 1
        BY <1>0, <2>1, <2>3, <3>1 DEF Paid
      <3> QED BY <1>0, <2>1, <2>2, <2>3, <3>1, <3>2, Types
    <2>4. CASE ~isInit
      <3>1. Payouts \subseteq 0 .. era
        BY <1>0, Types DEF Payouts
      <3>2. got' = Payouts
        BY <1>0, <2>1, <2>4, <3>1, WholePage, Types
      <3>3. 0 .. era - 2 \subseteq Payouts
        BY <1>0, Types DEF Payouts
      <3>4. (era > 0 => era - 1 \in Payouts) \/ tick < PayDelay + spent
        BY <1>0, Types DEF Payouts
      <3> QED BY <2>1, <2>4, <3>2, <3>3, <3>4
    <2> QED BY <2>3, <2>4
  <1>3. CASE ~Tick /\ ~StakingPayout
    <2>1. UNCHANGED vars
      BY <1>3 DEF Next, Handler, Ended, Start, First, ReadTime, AfterTime, ReadEra, AfterEra,
            Stakes, Limits, Guarantors, Validators, AuthoringPayout, AuthoringLost, Publish,
            Fail, Crash, Boot
    <2> QED BY <2>1 DEF Fetched, Often
  <1> QED BY <1>1, <1>2, <1>3

\* What has been published stays.
LEMMA StillShown ==
    ASSUME gauge \subseteq gauge', NEW e, Shown(e) PROVE Shown(e)'
  BY DEF Shown

\* Between the ends of two runs no era becomes due that neither of them shows.
LEMMA CoveredStep == EraInv /\ Cover /\ [Next]_vars => Covered'
  <1> SUFFICES ASSUME EraInv, Cover, [Next]_vars,
                      show' = "history", Often', era' < PageSize, kind' \in {"stakes", "rewards"}
               PROVE  /\ kind' = "stakes" => /\ \A e \in 0 .. era' - 1 : Shown(e)'
                                             /\ Shown(era)' \/ tick' < Elapsed'
                      /\ kind' = "rewards" =>
                           /\ \A e \in 0 .. era' - 2 : Shown(e)'
                           /\ (era' > 0 => Shown(era - 1)') \/ tick' < PayDelay + Elapsed'
    BY DEF Covered
  <1> USE DEF clock, config, timer, bounds, vars
  <1>0. TypeOK /\ Timing /\ Labels /\ Paid /\ TypeOK' /\ Timing' /\ Flag /\ Covered /\ Fetched
    BY StepInv DEF EraInv, Cover
  <1>1. kind' = kind /\ interval' = interval /\ kind \in {"stakes", "rewards"} /\ Often
    BY DEF Often, Next, Handler, Tick, Start, ReadTime, ReadEra, Stakes, Limits, Guarantors,
           Validators, StakingPayout, AuthoringPayout, AuthoringLost, Publish, Fail, Crash,
           Boot, Ended
  <1>2. CASE Tick
    <2>1. show = "history" /\ pc # "down" /\ pc' = pc /\ gauge' = gauge
      BY <1>0, <1>2 DEF Tick, Flag
    <2>2. Elapsed' = Elapsed + 1 /\ Elapsed \in Nat /\ Elapsed < interval + MaxRun
      <3>1. CASE pc \in Reads
        BY <1>0, <1>1, <1>2, <2>1, <3>1, TickInRun, Types DEF Elapsed, TypeOK
      <3>2. CASE pc \notin Reads
        <4>1. wait > 0 /\ wait' = wait - 1
          BY <1>0, <1>2, <2>1, <3>2, Types DEF Tick, TypeOK
        <4> QED BY <1>0, <1>1, <2>1, <3>2, <4>1, Types DEF Elapsed
      <3> QED BY <3>1, <3>2
    <2>3. CASE era' = era /\ tick' = tick + 1
      BY <1>0, <1>1, <2>1, <2>2, <2>3, Types DEF Covered, Shown
    <2>4. CASE era' = era + 1 /\ tick = EraLen - 1 /\ tick' = 0
      <3>1. era < PageSize /\ era - 1 \in Int
        BY <1>0, <2>4, Types
      <3>2. CASE kind = "stakes"
        <4>1. interval + MaxRun <= EraLen
          BY <1>0, <1>1, <3>2, Types DEF Often
        <4>2. Shown(era) /\ \A e \in 0 .. era - 1 : Shown(e)
          BY <1>0, <1>1, <2>1, <2>2, <2>4, <3>1, <3>2, <4>1, Types DEF Covered
        <4>3. \A e \in 0 .. era' - 1 : Shown(e)
          BY <1>0, <2>4, <4>2, Types
        <4>4. tick' < Elapsed'
          BY <2>2, <2>4
        <4> QED BY <1>1, <2>1, <3>2, <4>3, <4>4, StillShown
      <3>3. CASE kind = "rewards"
        <4>1. interval + MaxRun <= EraLen - PayDelay
          BY <1>1, <3>3 DEF Often
        <4>2. (era > 0 => Shown(era - 1)) /\ \A e \in 0 .. era - 2 : Shown(e)
          BY <1>0, <1>1, <2>1, <2>2, <2>4, <3>1, <3>3, <4>1, Types DEF Covered
        <4>3. \A e \in 0 .. era' - 2 : Shown(e)
          BY <1>0, <2>4, <4>2, Types
        <4>4. tick' < PayDelay + Elapsed'
          BY <1>0, <2>2, <2>4, Types
        <4> QED BY <1>1, <2>1, <3>3, <4>3, <4>4, StillShown
      <3> QED BY <1>1, <3>2, <3>3
    <2>5. \/ era' = era /\ tick' = tick + 1
          \/ era' = era + 1 /\ tick = EraLen - 1 /\ tick' = 0
      BY <1>2 DEF Tick
    <2> QED BY <2>3, <2>4, <2>5
  \* The clock stands still, and the run goes on or begins.
  <1>3. CASE show = "history" /\ UNCHANGED <<era, tick, gauge>> /\ Elapsed' = Elapsed
    BY <1>0, <1>1, <1>3 DEF Covered, Shown
  <1>4. CASE Start
    <2>1. Elapsed' = Elapsed
      BY <1>0, <1>4, Types DEF Start, First, Elapsed, Reads
    <2> QED BY <1>3, <1>4, <2>1 DEF Start
  <1>5. CASE ReadTime \/ ReadEra
    <2>1. Elapsed' = Elapsed
      BY <1>5 DEF ReadTime, ReadEra, AfterTime, AfterEra, Elapsed, Reads
    <2> QED BY <1>3, <1>5, <2>1 DEF ReadTime, ReadEra
  \* A run ends: what counts is the time it took.
  <1>6. pc \in Reads /\ pc' = "idle" /\ UNCHANGED <<wait, interval>> => Elapsed' = spent
    BY <1>0, Types DEF Elapsed, Timing, Reads
  <1>7. CASE Stakes
    <2>1. pc = "read" /\ kind = "stakes" /\ pc' = "idle" /\ UNCHANGED <<wait, interval, era, tick>>
          /\ show \in {"none", "history"} /\ gauge \subseteq gauge'
      BY <1>0, <1>7 DEF Stakes, Publish, TypeOK
    <2>2. Elapsed' = spent
      BY <1>6, <2>1 DEF Reads
    <2>3. CASE isInit
      <3>1. show = "history" /\ Entry("stake", index, ts, index, TRUE) \in gauge'
        BY <1>0, <1>7, <2>1, <2>3 DEF Stakes, Publish, Flag
      <3>2. \E g \in gauge' : g.era = index
        <4>1. Entry("stake", index, ts, index, TRUE).era = index
          BY DEF Entry
        <4> QED BY <3>1, <4>1
      <3>3. index = era \/ tick < spent
        BY <1>0, <2>1, Asked
      <3>4. \A e \in 0 .. era - 1 : Shown(e)'
        BY <1>0, <1>1, <2>1, <3>1, StillShown DEF Covered
      <3>5. (\E g \in gauge' : g.era = era') \/ tick' < Elapsed'
        BY <2>1, <2>2, <3>2, <3>3
      <3>6. Shown(era)' \/ tick' < Elapsed'
        BY <3>5 DEF Shown
      <3> QED BY <2>1, <3>4, <3>6, <1>1
    <2>4. CASE ~isInit
      <3>1. OnePage(Totals) = {Totals}
        BY <1>0, <2>1, WholePage, Types DEF Totals
      <3>2. gauge' = gauge \cup {Entry("stake", e, HistoryTime(e), e, TRUE) : e \in 0 .. era}
        BY <1>7, <2>4, <3>1 DEF Stakes, Publish, Totals
      <3>3. \A e \in 0 .. era : \E g \in gauge' : g.era = e
        <4> TAKE e \in 0 .. era
        <4>1. Entry("stake", e, HistoryTime(e), e, TRUE) \in gauge'
          BY <3>2
        <4>2. Entry("stake", e, HistoryTime(e), e, TRUE).era = e
          BY DEF Entry
        <4> QED BY <4>1, <4>2
      <3>4. \A e \in 0 .. era' - 1 : Shown(e)'
        BY <1>0, <2>1, <3>3, Types DEF Shown
      <3>5. Shown(era)'
        BY <1>0, <2>1, <3>3, Types DEF Shown
      <3> QED BY <1>1, <2>1, <3>4, <3>5
    <2> QED BY <2>3, <2>4
  <1>8. CASE StakingPayout
    <2>1. /\ pc = "read" /\ kind = "rewards" /\ UNCHANGED <<era, tick, wait, index, gauge, show>>
          /\ got' \in IF isInit THEN {{Previous} \cap Payouts} ELSE OnePage(Payouts)
          /\ \/ pc' = "second" /\ spent' = spent
             \/ pc' = "idle" /\ isInit /\ got' = {}
      BY <1>8 DEF StakingPayout
    <2>2. CASE pc' = "second" /\ spent' = spent
      <3>1. Elapsed' = Elapsed
        BY <1>1, <2>1, <2>2 DEF Elapsed, Reads
      <3> QED BY <1>3, <2>1, <3>1
    <2>3. CASE pc' = "idle" /\ isInit /\ got' = {}
      <3>1. Elapsed' = spent
        BY <1>1, <1>6, <2>1, <2>3 DEF Reads
      <3>2. index = era \/ tick < spent
        BY <1>0, <2>1, Asked
      <3>3. index = era /\ era > 0 => tick < PayDelay
        <4> SUFFICES ASSUME index = era, era > 0 PROVE tick < PayDelay
          OBVIOUS
        <4>1. era - 1 \in 0 .. WordSize - 1
          BY <1>0, Types
        <4>2. era - 1 \notin Payouts
          BY <2>1, <2>3, <4>1, NoWrap DEF Previous
        <4> QED BY <1>0, <4>2, Types DEF Payouts
      <3>4. era = 0 \/ tick < PayDelay + spent
        BY <1>0, <3>2, <3>3, Types
      <3>6. \A e \in 0 .. era - 2 : Shown(e)'
        BY <1>0, <1>1, <2>1, StillShown DEF Covered
      <3>7. (era' > 0 => Shown(era - 1)') \/ tick' < PayDelay + Elapsed'
        BY <2>1, <3>1, <3>4
      <3> QED BY <1>1, <2>1, <3>6, <3>7
    <2> QED BY <2>1, <2>2, <2>3
  <1>9. CASE AuthoringPayout \/ AuthoringLost
    <2>1. /\ pc = "second" /\ kind = "rewards" /\ pc' = "idle"
          /\ UNCHANGED <<wait, interval, era, tick, got>>
          /\ show \in {"none", "history"} /\ gauge \subseteq gauge'
          /\ isInit => show = "history"
      BY <1>0, <1>9 DEF AuthoringPayout, AuthoringLost, Publish, TypeOK, Flag
    <2>2. Elapsed' = spent
      BY <1>6, <2>1 DEF Reads
    <2>3. ASSUME NEW e \in got PROVE \E g \in gauge' : g.era = e
      <3>1. CASE AuthoringPayout
        <4> DEFINE g == Entry("reward", e, IF isInit THEN RewardTime ELSE HistoryTime(e),
                              e, e \in Payouts)
        <4>1. g \in gauge' /\ g.era = e
          BY <3>1 DEF AuthoringPayout, Publish, Entry
        <4> QED BY <4>1
      <3>2. CASE AuthoringLost
        <4> DEFINE g == [Entry("reward", e, RewardTime, e, FALSE)
                           EXCEPT !.crossed = @ \cup {"lost"}]
        <4>1. g \in gauge' /\ g.era = e
          BY <3>2 DEF AuthoringLost, Entry
        <4> QED BY <4>1
      <3> QED BY <1>9, <3>1, <3>2
    <2>4. /\ (era > 0 => era - 1 \in got) \/ tick < PayDelay + spent
          /\ ~isInit => 0 .. era - 2 \subseteq got
      BY <1>0, <1>1, <2>1 DEF Fetched
    <2>5. \A e \in 0 .. era - 2 : Shown(e)'
      <3>1. CASE isInit
        BY <1>0, <1>1, <2>1, <3>1, StillShown DEF Covered
      <3>2. CASE ~isInit
        BY <2>3, <2>4, <3>2 DEF Shown
      <3> QED BY <3>1, <3>2
    <2>6. (era' > 0 => Shown(era - 1)') \/ tick' < PayDelay + Elapsed'
      BY <2>1, <2>2, <2>3, <2>4 DEF Shown
    <2> QED BY <1>1, <2>1, <2>5, <2>6
  <1>10. CASE Limits \/ Guarantors \/ Validators
    BY <1>1, <1>10 DEF Limits, Guarantors, Validators
  <1>11. CASE Fail \/ Crash \/ Boot
    BY <1>0, <1>11 DEF Fail, Crash, Boot, Flag
  <1>12. CASE UNCHANGED vars
    BY <1>3, <1>12 DEF Elapsed
  <1> QED BY <1>2, <1>4, <1>5, <1>7, <1>8, <1>9, <1>10, <1>11, <1>12 DEF Next, Handler, Ended

-----------------------------------------------------------------------------
\* The invariant holds in every state: the reads of a run lag behind the chain
\* by one era at most, and what is due is on show.
THEOREM Invariance == Spec => [](EraInv /\ Cover)
  <1>1. Init => EraInv /\ Cover
    BY InitInv
  <1>2. EraInv /\ Cover /\ [Next]_vars => (EraInv /\ Cover)'
    BY StepInv, FlagStep, CoveredStep, FetchedStep DEF Cover
  <1> QED BY <1>1, <1>2, PTL DEF Spec

\* Clock, timer and reads of the staking handlers keep their types: no run
\* lasts longer than its bound.
THEOREM TypeCorrect == Spec => []TypeOK
  BY Invariance, PTL DEF EraInv

\* Whenever an era begins among the reads of handlerStake, handlerTopStake,
\* handlerStakeCount and handlerRewards, label, time and value differ by that
\* era at most, or the time is absurd in the one way LabelsInEra names.
THEOREM LabelsAreInEra == Spec => []LabelsInEra
  BY Invariance, PTL DEF EraInv

\* No reward is published without its authoring payout (handlerRewards), but
\* for the error nobody looks at.
THEOREM RewardsAreWhole == Spec => []RewardsWhole
  BY Invariance, PTL DEF EraInv

\* Between two runs of handlerStake or handlerRewards no era is skipped if the
\* interval leaves room for a run.
THEOREM ErasAreCovered == Spec => []ErasCovered
  <1>1. EraInv /\ Cover => ErasCovered
    <2> SUFFICES ASSUME TypeOK, Covered, kind \in {"stakes", "rewards"}, show = "history",
                        Often, era < PageSize, NEW e \in Due
                 PROVE  \E g \in gauge : g.era = e
      BY DEF EraInv, Cover, ErasCovered
    <2>1. CASE kind = "stakes"
      BY <2>1 DEF Covered, Shown, Due
    <2>2. CASE kind = "rewards"
      BY <2>2 DEF Covered, Shown, Due
    <2> QED BY <2>1, <2>2
  <1> QED BY <1>1, Invariance, PTL
=============================================================================
