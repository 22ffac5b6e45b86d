----------------------------- MODULE EraMetrics -----------------------------
(***************************************************************************)
(* The staking gauges: handlerStake, handlerTopStake, handlerStakeCount    *)
(* and handlerRewards of src/metrics/handler.go with the storage reads of  *)
(* src/chain/stake.go.  Every handler reads the time, the current era and  *)
(* the storage one after the other, each at the newest block, and labels   *)
(* what it publishes with the first two; the chain moves on in between.    *)
(*                                                                         *)
(* The handlers share nothing but the chain, so a behaviour follows one of *)
(* them (kind).  A time is an era and a tick in it; the 3600*6 seconds of  *)
(* the code are one era, as long as the chain keeps to its block time.     *)
(***************************************************************************)
EXTENDS Integers, FiniteSets

CONSTANTS
    EraLen,      \* ticks of an era
    PayDelay,    \* ticks of an era before the payout of the last one is there
    Intervals,   \* StakeInterval, in ticks: the configurations looked at
    WordSize,    \* 2^32, the era indexes are uint32
    PageSize,    \* keys of one page (1000)
    MaxRun,      \* bound: ticks a run takes
    MaxEra,      \* bound: length of the chain
    MaxCrashes,  \* bound: process deaths
    MaxFaults    \* bound: failing requests

ASSUME EraAssumption ==
    /\ EraLen \in Nat \ {0} /\ PayDelay \in 0 .. EraLen - 1 /\ PageSize \in Nat
    /\ MaxRun \in 0 .. EraLen - 1 /\ \A i \in Intervals : i \in Nat /\ MaxRun < i
    /\ MaxEra \in Nat /\ WordSize \in Nat /\ WordSize > 2 * MaxEra + 1
    /\ MaxCrashes \in Nat /\ MaxFaults \in Nat

VARIABLES
    era, tick,        \* the chain's clock
    kind, interval,   \* the handler and the configuration of this behaviour
    wait, spent,      \* ticks until the next run, ticks the present one has taken
    pc,               \* the read that comes next, "idle", "down"
    isInit,           \* isInit, isRewardInit
    ts, index, got,   \* of a run: the time, the era, the eras of the payouts
    gauge,            \* the labelled gauges in memory
    crossed,          \* history: the reads of a run that an era change preceded
    show,             \* history: no good run yet, the history is on show, or a
                      \* run after that has failed
    crashes, faults

clock  == <<era, tick>>
config == <<kind, interval>>
timer  == <<wait, spent>>
bounds == <<crashes, faults>>
vars   == <<clock, config, timer, pc, isInit, ts, index, got, gauge,
            crossed, show, bounds>>

Kinds == {"stakes", "limits", "counts", "rewards"}
Reads == {"time", "era", "read", "second"}
Now   == [era |-> era, tick |-> tick]

\* The order of the reads: the count takes the era before the time.
First == IF kind = "counts" THEN "era" ELSE "time"
AfterTime == IF kind = "counts" THEN "read" ELSE "era"
AfterEra  == IF kind = "counts" THEN "time" ELSE "read"

\* Storage of the chain: a total is there as long as its era, a payout comes
\* when the era is over.  The chain is taken to set the staking and the authoring
\* payout of an era in one block, so that one set stands for both.
Totals  == 0 .. era
Payouts == {e \in 0 .. era - 1 : e < era - 1 \/ tick >= PayDelay}

\* getStakes asks for one page; the keys are hashes, any of them may be on it.
OnePage(eras) ==
    IF Cardinality(eras) <= PageSize THEN {eras}
    ELSE {page \in SUBSET eras : Cardinality(page) = PageSize}

\* Mutant: the difference of the eras the other way round.
HistoryTimeSwapped(e) == [ts EXCEPT !.era = @ - ((e - index) % WordSize)]

\* hisTs: index-stake.Index is a uint32.
HistoryTime(e) == [ts EXCEPT !.era = @ - ((index - e) % WordSize)]

\* ts - 3600*6
RewardTime == [ts EXCEPT !.era = @ - 1]

Previous == (index - 1) % WordSize

Entry(name, e, time, of, whole) ==
    [name |-> name, era |-> e, ts |-> time, of |-> of, whole |-> whole, crossed |-> crossed]

Init ==
    /\ era \in 0 .. MaxEra /\ tick \in 0 .. EraLen - 1
    /\ kind \in Kinds /\ interval \in Intervals
    /\ wait = 0 /\ spent = 0 /\ pc = "idle" /\ isInit = FALSE
    /\ ts = Now /\ index = 0 /\ got = {} /\ gauge = {}
    /\ crossed = {} /\ show = "none" /\ crashes = 0 /\ faults = 0

-----------------------------------------------------------------------------
\* Time passes; gocron starts a run when it is due, and a run takes MaxRun
\* ticks at most.
Tick ==
    /\ pc = "idle" => wait > 0
    /\ pc \in Reads => spent < MaxRun
    /\ era < MaxEra \/ tick < EraLen - 1
    /\ LET turn == tick = EraLen - 1
       IN  /\ tick' = IF turn THEN 0 ELSE tick + 1
           /\ era' = IF turn THEN era + 1 ELSE era
           /\ crossed' = IF turn /\ pc \in Reads THEN crossed \cup {pc} ELSE crossed
    /\ wait' = IF wait > 0 THEN wait - 1 ELSE 0
    /\ spent' = IF pc \in Reads THEN spent + 1 ELSE 0
    /\ UNCHANGED <<config, pc, isInit, ts, index, got, gauge, show, bounds>>

\* The scheduler calls the handler, the first time at once.
Start ==
    /\ pc = "idle" /\ wait = 0
    /\ pc' = First /\ wait' = interval /\ spent' = 0 /\ crossed' = {}
    /\ UNCHANGED <<clock, config, isInit, ts, index, got, gauge, show, bounds>>

\* Mutant: the flag is set before anything is read.
ReadTimeInit ==
    /\ pc = "time"
    /\ ts' = Now /\ pc' = AfterTime /\ isInit' = TRUE
    /\ UNCHANGED <<clock, config, timer, index, got, gauge, crossed, show, bounds>>

\* GetTimestamp
ReadTime ==
    /\ pc = "time"
    /\ ts' = Now /\ pc' = AfterTime
    /\ UNCHANGED <<clock, config, timer, isInit, index, got, gauge, crossed, show, bounds>>

\* Mutant: the era before the current one, as GetRewardByIndex wants it.
ReadEraBefore ==
    /\ pc = "era"
    /\ index' = (era - 1) % WordSize /\ pc' = AfterEra
    /\ UNCHANGED <<clock, config, timer, isInit, ts, got, gauge, crossed, show, bounds>>

\* GetCurrentIndex
ReadEra ==
    /\ pc = "era"
    /\ index' = era /\ pc' = AfterEra
    /\ UNCHANGED <<clock, config, timer, isInit, ts, got, gauge, crossed, show, bounds>>

Publish(entries) ==
    /\ gauge' = gauge \cup entries
    /\ pc' = "idle" /\ spent' = 0
    /\ show' = IF show = "none" THEN "history" ELSE show
    /\ UNCHANGED <<clock, config, wait, ts, index, got, crossed, bounds>>

\* The first good run publishes the eras on the chain, a later one its era.
Stakes ==
    /\ pc = "read" /\ kind = "stakes"
    /\ isInit' = TRUE
    /\ IF isInit
         THEN Publish({Entry("stake", index, ts, index, TRUE)})
         ELSE \E page \in OnePage(Totals) :
                 Publish({Entry("stake", e, HistoryTime(e), e, TRUE) : e \in page})

\* GetTopStakeLimit reads all pages at one block.
Limits ==
    /\ pc = "read" /\ kind = "limits"
    /\ Publish({Entry("limit", index, ts, era, TRUE)})
    /\ UNCHANGED isInit

\* The guarantors, and the validators at a later block.
Guarantors ==
    /\ pc = "read" /\ kind = "counts"
    /\ gauge' = gauge \cup {Entry("guarantors", index, ts, era, TRUE)}
    /\ pc' = "second"
    /\ UNCHANGED <<clock, config, timer, isInit, ts, index, got, crossed, show, bounds>>

Validators ==
    /\ pc = "second" /\ kind = "counts"
    /\ Publish({Entry("validators", index, ts, era, TRUE)})
    /\ UNCHANGED isInit

\* ErasStakingPayout of all eras, or of the era before the current one; where
\* that is not there yet, nothing can be decoded and the run ends.
StakingPayout ==
    /\ pc = "read" /\ kind = "rewards"
    /\ got' \in IF isInit THEN {{Previous} \cap Payouts} ELSE OnePage(Payouts)
    /\ LET none == isInit /\ got' = {}
       IN  /\ pc' = IF none THEN "idle" ELSE "second"
           /\ spent' = IF none THEN 0 ELSE spent
    /\ UNCHANGED <<clock, config, wait, isInit, ts, index, gauge, crossed, show, bounds>>

\* Mutant: the authoring payouts are read first.
AuthoringPayoutFirst ==
    /\ pc = "second" /\ kind = "rewards"
    /\ isInit' = TRUE
    /\ \E eras \in IF isInit THEN {{Previous} \cap Payouts} ELSE OnePage(Payouts) :
         Publish({Entry("reward", e, IF isInit THEN RewardTime ELSE HistoryTime(e),
                        e, e \in got) : e \in eras})

\* ErasAuthoringPayout, at a later block than the staking payouts.
AuthoringPayout ==
    /\ pc = "second" /\ kind = "rewards"
    /\ isInit' = TRUE
    /\ Publish({Entry("reward", e, IF isInit THEN RewardTime ELSE HistoryTime(e),
                      e, e \in Payouts) : e \in got})

\* GetRewardByIndex does not look at the error of getAuthoringPayout.
AuthoringLost ==
    /\ pc = "second" /\ kind = "rewards" /\ isInit /\ faults < MaxFaults
    /\ faults' = faults + 1
    /\ gauge' = gauge \cup {[Entry("reward", e, RewardTime, e, FALSE) EXCEPT !.crossed = @ \cup {"lost"}]
                             : e \in got}
    /\ pc' = "idle" /\ spent' = 0
    /\ UNCHANGED <<clock, config, wait, isInit, ts, index, got, crossed, show, crashes>>

\* Any other request that fails ends the run, but for the two counts.
Fail ==
    /\ pc \in Reads /\ faults < MaxFaults
    /\ ~(kind = "rewards" /\ pc = "second" /\ isInit)
    /\ faults' = faults + 1
    /\ pc' = IF kind = "counts" /\ pc = "read" THEN "second" ELSE "idle"
    /\ spent' = IF pc' = "idle" THEN 0 ELSE spent
    /\ show' = IF show = "none" THEN "none" ELSE "gaps"
    /\ UNCHANGED <<clock, config, wait, isInit, ts, index, got, gauge, crossed, crashes>>

Crash ==
    /\ pc # "down" /\ crashes < MaxCrashes
    /\ crashes' = crashes + 1 /\ pc' = "down"
    /\ isInit' = FALSE /\ gauge' = {} /\ got' = {} /\ crossed' = {} /\ show' = "none"
    /\ wait' = 0 /\ spent' = 0
    /\ UNCHANGED <<clock, config, ts, index, faults>>

Boot ==
    /\ pc = "down" /\ pc' = "idle"
    /\ UNCHANGED <<clock, config, timer, isInit, ts, index, got, gauge, crossed, show, bounds>>

\* The chain ends here for the model checker.
Ended == /\ era = MaxEra /\ tick = EraLen - 1 /\ pc = "idle" /\ wait > 0
         /\ UNCHANGED vars

Handler == \/ Start \/ ReadTime \/ ReadEra \/ Stakes \/ Limits \/ Guarantors
           \/ Validators \/ StakingPayout \/ AuthoringPayout

Next == Tick \/ Handler \/ AuthoringLost \/ Fail \/ Crash \/ Boot \/ Ended

Spec == Init /\ [][Next]_vars

-----------------------------------------------------------------------------
\* Every variable keeps the type of what it stands for.
TypeOK ==
    /\ era \in 0 .. MaxEra /\ tick \in 0 .. EraLen - 1
    /\ kind \in Kinds /\ interval \in Intervals
    /\ wait \in 0 .. interval /\ spent \in 0 .. MaxRun
    /\ pc \in Reads \cup {"idle", "down"} /\ isInit \in BOOLEAN /\ show \in {"none", "history", "gaps"}
    /\ ts \in [era : 0 .. MaxEra, tick : 0 .. EraLen - 1] /\ index \in 0 .. MaxEra
    /\ got \subseteq 0 .. MaxEra /\ crossed \subseteq Reads

\* The time and the value under a label belong to the era of the label, unless
\* an era began between the reads of that run: then the time is off by that
\* era (behind it, or ahead for the counts), the value is of the next era, or,
\* for an era that the history shows and index does not know, the difference
\* of the two wraps around and the time is absurd.
LabelsInEra ==
    \A g \in gauge :
        /\ \/ g.ts.era = g.era
           \/ g.ts.era = g.era - 1 /\ "era" \in g.crossed
           \/ g.ts.era = g.era + 1 /\ "time" \in g.crossed
           \/ g.ts.era < 0 /\ g.name = "stake" /\ "read" \in g.crossed
        /\ \/ g.of = g.era
           \/ g.of = g.era + 1 /\ g.crossed \cap {"time", "read", "second"} # {}

\* A reward is published with both of its parts, the staking and the authoring
\* payout, although they are read at different blocks; only an error of the
\* second read, which nobody looks at, leaves one out.  That the chain sets both
\* payouts of an era in one block is assumed of it (see Payouts).
RewardsWhole == \A g \in gauge : g.whole \/ "lost" \in g.crossed

\* Eras on the chain long enough to be on show: those that are over for the
\* totals, one less for the rewards.
Due == IF kind = "stakes" THEN 0 .. era - 1 ELSE 0 .. era - 2

\* A run reads the storage while the value of an era is the one it asks for.
Often == interval + MaxRun <= EraLen - (IF kind = "rewards" THEN PayDelay ELSE 0)

\* Once the history is on show no era is missing between two runs, whatever
\* fails before the first good run, unless a later run fails, the history takes
\* more than a page, or the runs are too rare.  They are with the default
\* StakeInterval, which is the length of an era: a run that is a little later
\* than the last one skips an era, and one that always falls before the payout
\* never shows a reward.
ErasCovered ==
    kind \in {"stakes", "rewards"} /\ show = "history" /\ Often /\ era < PageSize =>
        \A e \in Due : \E g \in gauge : g.era = e
=============================================================================
