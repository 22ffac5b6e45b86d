------------------------------ MODULE Fetcher ------------------------------
(***************************************************************************)
(* One process of the indexer from start to steady state, and the          *)
(* processes after it: main.go (run), src/chain/chain.go (NewChain, Start),*)
(* src/chain/fetch.go (NewFetcher, fetcher.start), src/db/checkPoint.go.   *)
(*                                                                         *)
(* A start reads the listener's row, cuts the history Zero .. InitBlock    *)
(* into segments with one check_point row each, scans the segments         *)
(* concurrently when no block has been listened to yet, and only then lets *)
(* the listener follow the chain from InitBlock + 1.                       *)
(*                                                                         *)
(* Abstractions.  A segment scans block by block as SegmentScan promises   *)
(* and SegFetcher implements it; "scanned" is the set of blocks whose      *)
(* files are settled.  The listener's work on a block is one step here and *)
(* the subject of Listener.  The configuration may be edited between two   *)
(* processes, within the constant Configs.                                 *)
(***************************************************************************)
EXTENDS Integers, Sequences, FiniteSets

CONSTANTS
    Configs,      \* records [zero, size, init]: ZeroNumber, Size, StartBlock
    NoRow,        \* the row does not exist
    MaxBlock,     \* bound: last block of the chain
    MaxCrashes,   \* bound: process deaths
    MaxFaults     \* bound: failing statements that go unnoticed

\* A size of 0 and a history that ends before it begins are outside what the
\* code supports.
ASSUME ConfigAssumption ==
    /\ Configs \subseteq [zero : Nat, size : Nat \ {0}, init : Nat \ {0}]
    /\ \A c \in Configs : c.zero <= c.init /\ c.init < MaxBlock
    /\ MaxBlock \in Nat /\ MaxCrashes \in Nat /\ MaxFaults \in Nat
    /\ NoRow \notin Nat

VARIABLES
    bnRow,        \* MySQL: check_point row of the listener, or NoRow
    segRow,       \* MySQL: check_point rows of segments, end -> value
    pc,           \* where run() is
    cfg,          \* configuration of this process
    startBlock,   \* what GetBlockNumber returned
    segs,         \* the segFetchers: [end, index, pos, state]
    next,         \* NewFetcher's loop variables [start, end]
    cur,          \* the listener's currentBlock
    scanned,      \* history: blocks whose files a segment has settled
    followed,     \* history: blocks the listener has processed
    marked,       \* history: highest block that reached the listener's row
    scanConfigs,  \* history: configurations of the processes that scan
    crashes, faults

vars == <<bnRow, segRow, pc, cfg, startBlock, segs, next, cur,
          scanned, followed, marked, scanConfigs, crashes, faults>>

history  == <<scanned, followed, marked>>

Lesser(a, b) == IF a < b THEN a ELSE b

TypeOK ==
    /\ bnRow \in 0 .. MaxBlock \cup {NoRow}
    /\ \A e \in DOMAIN segRow : e \in 0 .. MaxBlock /\ segRow[e] \in 0 .. e
    /\ pc \in {"down", "init", "cut", "spawn", "wait", "listen"}
    /\ cfg \in Configs /\ scanConfigs \subseteq Configs
    /\ startBlock \in 0 .. MaxBlock /\ cur \in 0 .. MaxBlock + 1
    /\ \A i \in DOMAIN segs :
         /\ segs[i].end \in 0 .. MaxBlock /\ segs[i].index \in 0 .. segs[i].end
         /\ segs[i].pos \in segs[i].index .. segs[i].end + 1
         /\ segs[i].state \in {"idle", "running", "done"}
    /\ next.start \in Nat /\ next.end \in Nat
    /\ scanned \subseteq 0 .. MaxBlock /\ followed \subseteq 0 .. MaxBlock
    /\ marked \in 0 .. MaxBlock
    /\ crashes \in 0 .. MaxCrashes /\ faults \in 0 .. MaxFaults

Init ==
    /\ bnRow = NoRow /\ segRow = <<>>
    /\ pc = "down" /\ cfg \in Configs /\ startBlock = 0
    /\ segs = <<>> /\ next = [start |-> 0, end |-> 0] /\ cur = 0
    /\ scanned = {} /\ followed = {} /\ marked = 0
    /\ scanConfigs = {} /\ crashes = 0 /\ faults = 0

-----------------------------------------------------------------------------
\* GetBlockNumber: the row is created when absent; that Create may fail unseen.
Boot ==
    /\ pc = "down"
    /\ cfg' \in Configs
    /\ IF bnRow # NoRow
         THEN startBlock' = bnRow /\ UNCHANGED <<bnRow, faults>>
         ELSE /\ startBlock' = 0
              /\ \/ bnRow' = 0 /\ UNCHANGED faults
                 \/ faults < MaxFaults /\ faults' = faults + 1 /\ UNCHANGED bnRow
    /\ scanConfigs' = IF startBlock' = 0 THEN scanConfigs \cup {cfg'} ELSE scanConfigs
    /\ pc' = "init"
    /\ segs' = <<>>
    /\ UNCHANGED <<segRow, next, cur, history, crashes>>

\* NewFetcher up to its loop: the first segment is cut off at the init block.
FirstSegment ==
    /\ pc = "init"
    /\ next' = [start |-> cfg.zero, end |-> Lesser(cfg.zero + cfg.size - 1, cfg.init)]
    /\ pc' = "cut"
    /\ UNCHANGED <<bnRow, segRow, cfg, startBlock, segs, cur, history, scanConfigs, crashes, faults>>

\* newSegFetcher: GetOrInit finds the row by its end, or creates it.
NewSegment(start, end) ==
    LET known == end \in DOMAIN segRow
        index == IF known THEN segRow[end] ELSE start
    IN  /\ segs' = Append(segs, [end |-> end, index |-> index, pos |-> index,
                                 state |-> "idle"])
        /\ \/ /\ segRow' = IF known THEN segRow
                           ELSE [e \in DOMAIN segRow \cup {end} |->
                                   IF e = end THEN start ELSE segRow[e]]
              /\ UNCHANGED faults
           \/ /\ ~known /\ faults < MaxFaults
              /\ faults' = faults + 1
              /\ UNCHANGED segRow

\* Mutant: the next segment begins one block late.
CutSegmentGap ==
    /\ pc = "cut" /\ next.end < cfg.init
    /\ NewSegment(next.start, next.end)
    /\ next' = [start |-> next.end + 2, end |-> next.end + cfg.size]
    /\ UNCHANGED <<bnRow, pc, cfg, startBlock, cur, history, scanConfigs, crashes>>

\* One turn of the loop of NewFetcher.
CutSegment ==
    /\ pc = "cut" /\ next.end < cfg.init
    /\ NewSegment(next.start, next.end)
    /\ next' = [start |-> next.end + 1, end |-> next.end + cfg.size]
    /\ UNCHANGED <<bnRow, pc, cfg, startBlock, cur, history, scanConfigs, crashes>>

\* The segment behind the loop, then NewListener.
LastSegment ==
    /\ pc = "cut" /\ next.end >= cfg.init
    /\ NewSegment(next.start, IF next.end > cfg.init THEN cfg.init + 1 ELSE next.end)
    /\ cur' = IF startBlock = 0 THEN cfg.init + 1 ELSE startBlock
    /\ pc' = "spawn"
    /\ UNCHANGED <<bnRow, cfg, startBlock, next, history, scanConfigs, crashes>>

\* fetcher.start: nothing is scanned once the listener has left its mark.
SkipScan ==
    /\ pc = "spawn" /\ startBlock > 0
    /\ pc' = "listen"
    /\ UNCHANGED <<bnRow, segRow, cfg, startBlock, segs, next, cur, history, scanConfigs,
                   crashes, faults>>

\* Mutant: a segment with nothing to scan returns without wg.Done().
SpawnSilent(i) ==
    /\ pc = "spawn" /\ startBlock = 0
    /\ segs[i].state = "idle" /\ \A j \in 1 .. i - 1 : segs[j].state # "idle"
    /\ segs' = [segs EXCEPT ![i].state =
                  IF segs[i].index >= segs[i].end THEN "gone" ELSE "running"]
    /\ pc' = IF i = Len(segs) THEN "wait" ELSE "spawn"
    /\ UNCHANGED <<bnRow, segRow, cfg, startBlock, next, cur, history, scanConfigs,
                   crashes, faults>>

\* Mutant: fetcher.start scans although the listener has left its mark.
SpawnAgain(i) ==
    /\ pc = "spawn"
    /\ segs[i].state = "idle" /\ \A j \in 1 .. i - 1 : segs[j].state # "idle"
    /\ segs' = [segs EXCEPT ![i].state =
                  IF segs[i].index >= segs[i].end THEN "done" ELSE "running"]
    /\ pc' = IF i = Len(segs) THEN "wait" ELSE "spawn"
    /\ UNCHANGED <<bnRow, segRow, cfg, startBlock, next, cur, history, scanConfigs, crashes, faults>>

\* One turn of the loop of fetcher.start; segFetcher.start returns at once for
\* a segment whose index has reached its end.
Spawn(i) ==
    /\ pc = "spawn" /\ startBlock = 0
    /\ segs[i].state = "idle" /\ \A j \in 1 .. i - 1 : segs[j].state # "idle"
    /\ segs' = [segs EXCEPT ![i].state =
                  IF segs[i].index >= segs[i].end THEN "done" ELSE "running"]
    /\ pc' = IF i = Len(segs) THEN "wait" ELSE "spawn"
    /\ UNCHANGED <<bnRow, segRow, cfg, startBlock, next, cur, history, scanConfigs, crashes, faults>>

\* Mutant: the loop runs one block too far.
ScanBlockBeyond(i) ==
    /\ segs[i].state = "running" /\ segs[i].pos <= segs[i].end + 1
    /\ scanned' = scanned \cup {segs[i].pos}
    /\ segs' = [segs EXCEPT ![i].pos = @ + 1]
    /\ \/ UNCHANGED segRow
       \/ /\ segs[i].end \in DOMAIN segRow
          /\ segRow' = [segRow EXCEPT ![segs[i].end] = segs[i].pos]
    /\ UNCHANGED <<bnRow, pc, cfg, startBlock, next, cur, followed, marked, scanConfigs,
                   crashes, faults>>

\* The saver of a segment settles its next block; the checkpoint follows when
\* it is due and its statement succeeds.
ScanBlock(i) ==
    /\ segs[i].state = "running" /\ segs[i].pos <= segs[i].end
    /\ scanned' = scanned \cup {segs[i].pos}
    /\ segs' = [segs EXCEPT ![i].pos = @ + 1]
    /\ \/ UNCHANGED segRow
       \/ /\ segs[i].end \in DOMAIN segRow
          /\ segRow' = [segRow EXCEPT ![segs[i].end] = segs[i].pos]
    /\ UNCHANGED <<bnRow, pc, cfg, startBlock, next, cur, followed, marked, scanConfigs,
                   crashes, faults>>

\* wg.Done() of a segment.
SegmentDone(i) ==
    /\ segs[i].state = "running" /\ segs[i].pos > segs[i].end
    /\ segs' = [segs EXCEPT ![i].state = "done"]
    /\ UNCHANGED <<bnRow, segRow, pc, cfg, startBlock, next, cur, history, scanConfigs,
                   crashes, faults>>

\* Mutant: the wait group counts one segment only.
CompleteEarly ==
    /\ pc = "wait" /\ \E i \in DOMAIN segs : segs[i].state = "done"
    /\ pc' = "listen"
    /\ UNCHANGED <<bnRow, segRow, cfg, startBlock, segs, next, cur, history, scanConfigs,
                   crashes, faults>>

\* wg.Wait() returns, completeCh is closed, the listener starts.
Complete ==
    /\ pc = "wait" /\ \A i \in DOMAIN segs : segs[i].state = "done"
    /\ pc' = "listen"
    /\ UNCHANGED <<bnRow, segRow, cfg, startBlock, segs, next, cur, history, scanConfigs,
                   crashes, faults>>

\* A block of the listener: its files, then UpdateBlockNumber, which changes
\* nothing when the row is missing.
Follow ==
    /\ pc = "listen" /\ cur <= MaxBlock
    /\ followed' = followed \cup {cur}
    /\ \/ /\ bnRow' = IF bnRow = NoRow THEN NoRow ELSE cur
          /\ marked' = IF bnRow = NoRow THEN marked ELSE cur
          /\ cur' = cur + 1
          /\ UNCHANGED faults
       \/ /\ faults < MaxFaults
          /\ faults' = faults + 1
          /\ UNCHANGED <<bnRow, cur, marked>>
    /\ UNCHANGED <<segRow, pc, cfg, startBlock, segs, next, scanned, scanConfigs, crashes>>

\* Any exit: a crash, a signal before the handler is installed, a panic of
\* newSegFetcher or an error of NewChain.
Crash ==
    /\ pc # "down" /\ crashes < MaxCrashes
    /\ crashes' = crashes + 1
    /\ pc' = "down" /\ segs' = <<>>
    /\ UNCHANGED <<bnRow, segRow, cfg, startBlock, next, cur, history, scanConfigs, faults>>

\* The listener waits for a block that is not there yet.
UpToDate == pc = "listen" /\ cur > MaxBlock /\ UNCHANGED vars

Starting == Boot \/ FirstSegment \/ CutSegment \/ LastSegment \/ SkipScan
            \/ (\E i \in DOMAIN segs : Spawn(i)) \/ Complete
Segment(i) == i \in DOMAIN segs /\ (ScanBlock(i) \/ SegmentDone(i))

Next == Starting \/ (\E i \in DOMAIN segs : Segment(i)) \/ Follow \/ Crash \/ UpToDate

Spec == Init /\ [][Next]_vars

\* The main goroutine is scheduled, its statements are answered in the end, and
\* an operator restarts a process that died.
Fairness == WF_vars(Starting)

FairSpec == Spec /\ Fairness

-----------------------------------------------------------------------------
\* Segment rows are keyed by the segment's end alone, so the segments of two
\* scans are the same ones only if both were cut by one configuration.
OneScanConfig == Cardinality(scanConfigs) = 1

StartOf(c, i) == IF i = 1 THEN c.zero ELSE segs[i - 1].end + 1

\* A segment of one block has index = end from the beginning and is taken for
\* done.  Blocks are left out that way if they make up the whole history, or if
\* every segment has one block, and never otherwise: a cut that would leave one
\* block behind is drawn out behind the init block.
Skipped(c) == IF c.size = 1 \/ c.zero = c.init THEN c.zero .. c.init ELSE {}

\* Whatever GetOrInit hands to a segment, the blocks of the segment before it
\* have been scanned; a segment that is not started at all is scanned whole,
\* apart from the segments of one block.
ResumeSound ==
    OneScanConfig /\ startBlock = 0 =>
        \A i \in DOMAIN segs :
            /\ StartOf(cfg, i) .. segs[i].index - 1 \subseteq scanned
            /\ segs[i].index = segs[i].end => segs[i].end \in scanned \cup Skipped(cfg)

\* Once the listener runs, every block before its next one has been indexed:
\* the history up to the init block by a segment, the rest by the listener,
\* through crashes, missing rows and a configuration edited after the scan.
\* The blocks of one-block segments are the exception.
HistoryComplete ==
    OneScanConfig /\ pc = "listen" =>
        \A c \in scanConfigs :
            /\ c.zero .. c.init \subseteq scanned \cup Skipped(c)
            /\ c.init + 1 .. cur - 1 \subseteq followed

\* Behind the listener's mark nothing is begun again, whatever configuration a
\* restart is given (chain.go:46, fetch.go:55): the listener never goes back
\* behind a block that reached its row, and once one has, no segment is at work
\* in this process or a later one.
MarkKept ==
    pc \in {"spawn", "wait", "listen"} =>
        /\ cur >= marked
        /\ marked > 0 => \A i \in DOMAIN segs : segs[i].state # "running"

\* The wait group lets the listener begin in the end: when the last crash is
\* over, either its process hands over, or a segment stays at work for ever.
\* Nothing is assumed of the segments here; that the work of one ends, or
\* stands still at a restarted upgrade, is SegFetcher's Completes.
HandsOver ==
    <>[](pc = "listen" \/ \E i \in DOMAIN segs : segs[i].state = "running")
=============================================================================
