---------------------------- MODULE SlotMetrics ----------------------------
(***************************************************************************)
(* The slot counters of the metrics process (initSlot, getSlot and         *)
(* handlerSlotFileCnt of src/metrics/handler.go, FileOrdersBySlot of       *)
(* src/db/fileInfo.go) composed with the listener, whose mark and whose    *)
(* file_order rows they read while it runs.                                *)
(*                                                                         *)
(* The scheduler starts handlerSlotFileCnt at every tick, also when the    *)
(* run of an earlier tick has not returned: Jobs are the runs that may be  *)
(* under way together, and they share the variable slot without a lock.    *)
(* Reading slot, the queries and the gauge are separate steps.  A gauge is *)
(* a record [label, count, alone]: alone says that no other run was under  *)
(* way.  The gauges live as long as the process.                           *)
(***************************************************************************)
EXTENDS Listener, Functions

CONSTANTS Jobs,       \* runs of handlerSlotFileCnt that may overlap
          SlotSize    \* blocks of a slot (600)

ASSUME SlotAssumption ==
    /\ SlotSize \in Nat \ {0} /\ Start > SlotSize
    /\ Jobs # {} /\ IsFiniteSet(Jobs)

VARIABLES slot,        \* end of the slot to be published next
          jpc, label,  \* position and label of every run
          count,       \* result of the query of every run
          gauges,      \* fileOrdersBySlot: what has been published
          shared       \* history: the runs that overlapped another one

mvars == <<slot, jpc, label, count, gauges, shared>>

GetSlot(i) == (i \div SlotSize) * SlotSize

\* initSlot: the mark, or the start block of the configuration if that is later.
InitSlot == GetSlot(IF bn < Start - 1 THEN Start - 1 ELSE bn)

MInit == /\ Init /\ slot = 0 /\ gauges = {} /\ shared = {}
         /\ jpc = [j \in Jobs |-> "idle"]
         /\ label = [j \in Jobs |-> 0] /\ count = [j \in Jobs |-> 0]

\* NewChainMetrics, in the process that has just been started.
MBoot == Boot /\ slot' = InitSlot /\ UNCHANGED <<jpc, label, count, gauges, shared>>

MCrash == /\ Crash
          /\ gauges' = {} /\ shared' = {} /\ jpc' = [j \in Jobs |-> "idle"]
          /\ UNCHANGED <<slot, label, count>>

Listen == (Chain \/ Poll \/ Process) /\ UNCHANGED mvars

-----------------------------------------------------------------------------
At(j, where) == pc # "down" /\ jpc[j] = where

Overlap(j) ==
    LET others == {i \in Jobs \ {j} : jpc[i] # "idle"}
    IN  shared' = IF others = {} THEN shared \ {j} ELSE shared \cup others \cup {j}

\* Mutant: the comparison of line 177 is off by one.
BeginStrict(j) ==
    /\ At(j, "idle") /\ bn > slot
    /\ jpc' = [jpc EXCEPT ![j] = "label"]
    /\ Overlap(j)
    /\ UNCHANGED <<vars, slot, label, count, gauges>>

\* The slot is over when the mark has reached its end.
Begin(j) ==
    /\ At(j, "idle") /\ bn >= slot
    /\ jpc' = [jpc EXCEPT ![j] = "label"]
    /\ Overlap(j)
    /\ UNCHANGED <<vars, slot, label, count, gauges>>

SetLabel(j) ==
    /\ At(j, "label")
    /\ label' = [label EXCEPT ![j] = slot - SlotSize]
    /\ jpc' = [jpc EXCEPT ![j] = "query"]
    /\ UNCHANGED <<vars, slot, count, gauges, shared>>

\* Mutant: the end of the slot is counted in.
OrdersBySlotIncl(end) ==
    SumFunction([b \in {c \in Blocks : end - SlotSize <= c /\ c <= end} |-> orders[b]])

\* FileOrdersBySlot: the rows of the blocks end - SlotSize .. end - 1.
OrdersBySlot(end) ==
    SumFunction([b \in {c \in Blocks : end - SlotSize <= c /\ c < end} |-> orders[b]])

\* The queries use slot again; a query that fails ends the run.
Query(j) ==
    /\ At(j, "query")
    /\ count' = [count EXCEPT ![j] = OrdersBySlot(slot)]
    /\ jpc' = [jpc EXCEPT ![j] = "publish"]
    /\ UNCHANGED <<vars, slot, label, gauges, shared>>

QueryFails(j) ==
    /\ At(j, "query") /\ faults < MaxFaults
    /\ faults' = faults + 1
    /\ jpc' = [jpc EXCEPT ![j] = "idle"]
    /\ UNCHANGED <<store, chain, pc, cur, fin, meta, skew, crashes,
                   slot, label, count, gauges, shared>>

Gauge(j) == [label |-> label[j], count |-> count[j], alone |-> j \notin shared]

\* Mutant: the counter follows the mark.
PublishJumps(j) ==
    /\ At(j, "publish")
    /\ gauges' = gauges \cup {Gauge(j)}
    /\ slot' = GetSlot(bn) + SlotSize
    /\ jpc' = [jpc EXCEPT ![j] = "idle"]
    /\ UNCHANGED <<vars, label, count, shared>>

Publish(j) ==
    /\ At(j, "publish")
    /\ gauges' = gauges \cup {Gauge(j)}
    /\ slot' = slot + SlotSize
    /\ jpc' = [jpc EXCEPT ![j] = "idle"]
    /\ UNCHANGED <<vars, label, count, shared>>

Run(j) == Begin(j) \/ SetLabel(j) \/ Query(j) \/ QueryFails(j) \/ Publish(j)

MNext == MBoot \/ MCrash \/ Listen \/ \E j \in Jobs : Run(j)

MSpec == MInit /\ [][MNext]_<<vars, mvars>>

\* The listener's fairness, and the scheduler keeps starting the handler.
MFairSpec ==
    /\ MSpec
    /\ WF_<<vars, mvars>>(MBoot)
    /\ WF_<<vars, mvars>>(Chain /\ UNCHANGED mvars)
    /\ WF_<<vars, mvars>>(Poll /\ UNCHANGED mvars)
    /\ WF_<<vars, mvars>>(Process /\ UNCHANGED mvars)
    /\ \A j \in Jobs : WF_<<vars, mvars>>(Run(j))

-----------------------------------------------------------------------------
\* "Number of file orders  by slot" (help text of the gauge): what a run publishes
\* for a slot is the number of rows of that slot, and it stays so whatever the
\* listener does afterwards, block re-runs and restarts included, unless another
\* run of the handler was under way and moved slot.
SlotsFinal ==
    \A g \in gauges : g.alone => g.count = OrdersBySlot(g.label + SlotSize)

\* As long as runs do not overlap, a process publishes slot after slot: none is
\* left out between one it has published and the one it will publish next, however
\* far the mark has run ahead, and what it has published lies behind that one, so
\* none is published a second time.
SlotsInOrder ==
    (\A g \in gauges : g.alone) /\ shared = {} =>
        /\ \A g, h \in gauges : g.label = h.label => g = h
        /\ \A g \in gauges : g.label <= slot - 2 * SlotSize
        /\ \A g \in gauges : \A l \in g.label .. slot - 2 * SlotSize :
             l % SlotSize = 0 => \E h \in gauges : h.label = l

\* The publisher catches up with the listener: in the end slot lies ahead of the
\* mark, and the last slot that is over is on show.  The exception is a process
\* whose runs overlapped: each of them moves slot (handler.go:194) and may pass one
\* over, the last one too.  With SlotsInOrder, every slot that is over is on show
\* from the first one of the process on; those that were over before it began are
\* not, for initSlot starts at the slot of the mark (handler.go:57).
SlotsCatchUp ==
    <>[](/\ bn < slot
         /\ (\A g \in gauges : g.alone) => \E g \in gauges : g.label = slot - 2 * SlotSize)
=============================================================================
