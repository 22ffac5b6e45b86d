# crust-statistic: formal models, checks and proofs

crust-statistic indexes the files of the Crust storage chain into MySQL and
publishes statistics as Prometheus gauges. One process does it all: a scan of
the history, a listener that follows the finalized chain, and a scheduler of
metric handlers. Almost everything that can go wrong is a matter of time: what
a restart finds in the tables, what goroutines and retries do to each other,
and what the metrics count while the tables are being written. That is what
the modules here are about. Paths are relative to the repository, `src/` being
its root.

## Inventory

| component | code | state | operations | hard behaviour | what makes it correct |
|---|---|---|---|---|---|
| start and handover | `main.go`, `chain/chain.go`, `chain/fetch.go` (`NewFetcher`, `fetcher.start`), `db/checkPoint.go` | listener row and segment rows of `check_point`; `segfs`, wait group, `completeCh` | cut the history, create or find rows, start segments, wait, start the listener | restarts at any point, an edited configuration, rows that were not created | nothing of the history is left out when the listener starts; a restart never goes back behind the mark |
| one segment | `chain/fetch.go` (`segFetcher`) | `hashCh`, `fmCh`, `s.meta`, `nextUpdate`, the row | `fetchHash`, `fetchFileMeta`, `saveFiles`, `saveKeys` | three goroutines over bounded channels, runtime upgrades, retries, ignored errors | the checkpoint never runs ahead of the stored files; finished means everything is settled |
| listener | `chain/listener.go`, `chain/connection.go` | `currentBlock`, `finalizedHeader`, `connection.meta`, `file_order`, the mark | poll, decode, handle, mark | cached header and unsigned arithmetic, errors ignored or retried, blocks repeated | blocks are marked one after the other and only when final enough; their orders are stored |
| file tables | `chain/handlers.go`, `chain/types.go`, `db/fileInfo.go` | `file_info`, `replica`, `error_file` | insert, update, replace replicas, delete | statements outside their transaction, concurrent savers, repetition after an error | rows agree with the chain; no replicas without a file, none twice |
| slot metrics | `metrics/handler.go` (`handlerSlotFileCnt`) | `slot`, gauges | compare with the mark, query, publish, advance | reads tables that are being written, runs may overlap | a published slot is final, none is skipped |
| sworker refresh | `metrics/handler.go` (`handlerSwoker`), `chain/sworker.go`, `db/sworker.go` | `sworkerActive`, `work_report`, `sworker_group`, `pub_key`, gauges | truncate, read page by page, insert, count, publish | overlapping ticks, goroutines outside the flag, ignored errors | reports complete and single when groups are built; what a gauge shows belongs to one cycle; the flag is released |
| histograms | `metrics/condition.go`, handlers, `chain/types.go`, `db/*.go` queries | none | date a file, compute bounds, select a bucket | three conventions for bounds, wrapping differences | every row is in one bucket |
| staking metrics | `chain/stake.go`, `metrics/handler.go` | `isInit`, `isRewardInit`, labelled gauges | read time, era and storage, label and publish | an era that begins between two reads, payouts that come late, runs that are too rare, `uint32` differences | a label, its time and its value belong to one era; both parts of a reward; no era skipped |
| connection, codec, SS58 | `chain/connection.go`, `events.go`, `util.go` | websocket, `meta`, `metaLock` | RPC calls, SCALE decoding | reads of `c.meta` without the lock, extrinsics of an unexpected shape | answers in one piece, or an error; modelled as whole calls of the other components |
| configuration, logging, gauge registration, `db.InitMysql` | `config/`, `metrics/files.go` and others | none | start-up I/O | none | not modelled |

The components talk through MySQL (the scan and the listener write, the metrics
read), through `completeCh` (closed once, starts listener and metrics), and
through the metadata of a connection. `PROJECT.json` lists the hazards at their
lines with the properties that answer them.

## Modules

| module | models | stands on |
|---|---|---|
| `SegmentScan` | abstract: what one segment promises | |
| `SegFetcher` | the pipeline of a segment; implements `SegmentScan` | |
| `SegFetcher_proofs` | theorems about `SegFetcher` | `SegFetcher`, TLAPS |
| `Fetcher` | a whole process and its successors: rows, segments, wait group, listener mark | promises of `SegmentScan` as its step |
| `BlockLog` | abstract: the order in which blocks are marked | |
| `Listener` | polling and block handling; implements `BlockLog` | |
| `FileTable` | the tables `file_info` and `replica`, one operator per statement | |
| `ScanStore` | what concurrent savers of the scan do to them, statement by statement | `FileTable` |
| `FileSync` | the scan, the handover and what the listener does to the same tables | `FileTable`, an instance of `ScanStore` |
| `SlotMetrics` | the slot gauges, composed with the listener | `Listener` |
| `SworkerJob` | the refresh of the sworker tables and the gauges fed from them | |
| `EraMetrics` | the staking gauges on a chain that changes its era meanwhile | |
| `Buckets` | the creation block of a file, and the histogram tables against the WHERE clauses | |
| `Fetcher_proofs`, `Listener_proofs`, `FileSync_proofs`, `SworkerJob_proofs`, `EraMetrics_proofs`, `Buckets_proofs` | theorems about the module of that name | that module, TLAPS |
| `SlotMetrics_proofs` | theorems about the composition of slot metrics and listener | `SlotMetrics`, `Listener_proofs` |

`MC*` modules and `MC*.cfg` files are the small instances for TLC. Operators
commented "Mutant" are plausible bugs of the operator behind them; they take
no part in any specification. Each property is shown to fail when its mutant
replaces the operator.

### How state and actions correspond to the code

* **SegFetcher.** `hPc`, `ePc`, `sPc` are the positions of the goroutines of
  `segFetcher.start`; `hashCh`, `fmCh` the channels; a block number stands for a
  `*fileMeta`. `checkpoint`, `saved`, `errored` are rows of `check_point`,
  `file_info`, `error_file`; they survive `Crash`. Metadata is the set of
  upgrades it includes: events of block b need the upgrades before b, while
  `GetMetadata(hash of b)` returns those up to and including b. A call that is
  retried without changing anything is a stuttering step. `lost` (files that
  `SaveError` dropped), `swallowed` (files whose `Create` met a driver error that
  `InsertFiles` takes for success: no row, or at best replicas of `file_id` 0, and
  `SaveFiles` returns nil) and `index` (where the run began) are history. A file
  is settled when `SaveFiles` or `SaveError` has returned without an error.
* **Fetcher.** `Boot` is `GetBlockNumber`; `FirstSegment`, `CutSegment`,
  `LastSegment` are `NewFetcher` before, in and behind its loop; `Spawn`,
  `Complete`, `SkipScan` are `fetcher.start`. A segment advances block by block
  and its row follows or not, as `SegmentScan` allows. `chain.Start()` runs in
  the main goroutine before the signal handler is installed, so the `stop`
  channel is never closed during a scan: a signal then kills the process, which
  is `Crash`.
* **Listener.** `pc` walks through `pollBlocks` ("poll", "check") and
  `handleEvents` ("events", "files", "orders", "upgrade", "mark"). `opaque` are
  the blocks with an extrinsic that its decoder in `util.go` cannot read (a report
  inside a batch or a proxy call). `Boot` starts at the mark itself, as `NewChain` does. `Distance` wraps at `Wrap`. `skew`
  records why the metadata may not fit.
* **FileSync, ScanStore.** One step per SQL statement. The contents of a file
  are a version; 0 is a file without replicas. A behaviour begins with empty
  tables: `ScanStep` runs the savers of two segments (`ScanStore`, renamed with
  `INSTANCE ... WITH`), `Handover` is `completeCh`, then the listener's blocks
  follow. `Boot` goes by the mark, so that a crash before the first one runs the
  savers again (`Restart`) over whatever scan and listener have left. `diverged`
  collects the cids whose rows are known to differ from the chain, at the step
  that makes them differ: a failure the code does not repair, or the update of a
  file that drops to 0 replicas, whose count `Updates` leaves as it was.
  `orphan` holds the replicas inserted with `file_id` 0.
* **SlotMetrics.** The steps of the listener with the run of the handler in
  between; the reads of `slot` are separate steps, and two runs may overlap
  because gocron starts a job again while it is running. `shared` records it.
* **SworkerJob.** Ticks are goroutines; testing and setting `sworkerActive` is
  one step because ticks are an interval apart. `late` and `mixed` record that
  a version count was still running when the tables were truncated. `total` are
  the version gauges, which keep the number of a version that has disappeared.
  `watch` is one of the goroutines with two queries (`handlerStorage`,
  `handlerGroupCnt`; `handlerStorageV2` has a third of the same kind): `read` is
  what it found, `want` what its own cycle put into the tables, `whole` whether
  the tables were emptied in between or groups lost.
* **EraMetrics.** The handlers share nothing, so a behaviour follows one of
  them (`kind`) with one interval. A time is an era and a tick in it: the
  3600*6 seconds of the code are one era. The reads are separate steps, in the
  order of the code (the counts read the era before the time), and a `Tick` can
  come between any two; `crossed` remembers the reads an era change preceded.
  A gauge remembers the era its value was read in (`of`).
* **Buckets.** The state is one row. A bucket is `<<low, high>>`; `Inf` stands
  for what `uint64(math.MaxUint64)` gives, which lies above all values on every
  platform. Ratios are counted in tenths of a percent. For the ages the row is a
  file as the chain hands it to `ToFileDto`, and `CreateAt` what is stored.

## Runs

| run | instance | shows |
|---|---|---|
| `SegFetcher` | 4 blocks, 4 cids (one twice, one malformed, one gone), channels of 1, 2 upgrades (one breaking), 2 crashes, 4 faults | types, `CheckpointSound`, `FinishedMeansSaved`, `MetadataFresh`, `GivingUpCosts`, `Refines` (to `SegmentScan`), `Completes` |
| `Fetcher` | histories of 1 to 5 blocks cut by five configurations, segments of one block among them, 2 crashes, 1 unnoticed failure | types, `ResumeSound`, `HistoryComplete`, `MarkKept`, `HandsOver` |
| `Listener` | blocks 2..7, confirm 1, two upgrades (one breaking, in a block with orders), perhaps an unreadable extrinsic, a node one block behind, 2 crashes, 2 faults | types, `OrdersKept`, `SurplusPaid`, `MetadataFresh`, `Refines` (to `BlockLog`), `OrdersFrozen`, `CatchesUp` |
| `FileSync` | one cid ordered in two segments, then all legal histories of two blocks, 2 crashes, 2 faults | types, `ReplicasOwned`, `ScanStored`, `Mirror` |
| `SlotMetrics` | slots of 2, blocks 3..7, two runs of the handler, 1 crash, 1 fault | `SlotsFinal`, `SlotsInOrder`, `SlotsCatchUp` |
| `SworkerJob` | 3 keys in pages of 2, a storage that changes between cycles, 2 ticks, 2 counts, 1 failure or crash | `ReportsComplete`, `GroupsRight`, `GaugesAgree`, `VersionsAddUp`, `FlagReleased` |
| `EraMetrics` | four kinds of handlers, eras 0..3 of 4 ticks, intervals of 2, 3 and 4 ticks, pages of 3, 1 crash, 1 fault | types, `LabelsInEra`, `RewardsWhole`, `ErasCovered` |
| `Buckets` | both sides of every bound, heights around 10512000, files touched at every bound | five partitions |
| `ListenerStale` | violation of `ReadyBlockTaken` | a stale header is kept for ever |
| `ListenerSurplus` | violation of `OrdersCountedOnce` | orders of the marked block inserted twice |
| `FileSyncAtomic` | violation of `InsertAtomic` | a file without its replicas after a crash |
| `BucketsReplicas` | violation of `ReplicasPartition` | files with 1, 9, 17, ... replicas in no bucket |

**Bounds.** Segments and chains have a few blocks: the code treats blocks one
after the other, and what can interleave is bounded by the channels, which
hold ten in the code and one here, so that full, empty and in-between all
occur with three or four blocks. Two crashes cover a restart of a restart.
`MaxFaults` bounds failures that leave a trace; three of them exhaust the two
attempts of the instance and the insertion into `error_file`, and the fourth is
left for an insertion that fails and counts as good. `Wrap = 16`
stands for 2^64 and only has to exceed the chain. Two overlapping runs or
counters are the smallest number that shows interference; a third would do
what one of the two does. `FileSync` has one cid because its steps never touch
the rows of another; it is ordered in two segments, so that the savers meet.
`RetryCnt` is one there: one fault leads to `SaveError`, the second sends the file
back to `SaveFiles`; counting more attempts is the matter of `SegFetcher`.
An era of `EraMetrics` has four ticks and a run takes one at most: enough for an
era to begin before any read, for a payout that comes late, and for intervals
shorter than, close to and equal to an era; four eras exceed the page of three. In `SlotMetrics` the node
never falls behind (that is `Listener`'s matter) and there is no upgrade.

**Fairness.** Weak fairness of each goroutine: the Go scheduler runs what can
run, and channel operations have one goroutine on each side. RPC calls and
statements are retried by the code and are assumed to succeed in the end;
failures that leave a trace are bounded. A process that died is started again
(`WF` of `Boot`). `Fetcher` assumes this and the scheduling of the main
goroutine (`WF` of `Starting`), and nothing of segments or listener, which may
stand still at an upgrade. In `Listener` the chain produces and finalizes blocks and the
node follows. `SworkerJob` assumes nothing of the ticks: their number
is bounded and they need not come, so its run ends and is the only one with
`CHECK_DEADLOCK FALSE`.

**Liveness is stated with its exceptions.** `Completes` says that a segment ends
or stands at a layout-changing upgrade it was restarted at; `HandsOver` that the
process hands over to the listener or keeps a segment at work for ever, for
which `Completes` has the reason; `CatchesUp` of the listener that it reaches
the end, or keeps a header behind `currentBlock`, or lacks the metadata, or is
at a block with an extrinsic no decoder can read. TLC finds no fourth reason.
`SlotsCatchUp` says that `slot` gets ahead of the mark and that the last slot
that is over is on show, unless runs of the process overlapped and one of them
moved `slot` past it. Slots that were over before a process began are not on
show in it: `initSlot` begins at the slot of the mark (`handler.go:57-66`).
One standstill lies outside the assumption on statements: `listener.go:218`
does not filter malformed cids as `fetch.go:251` does, and a cid longer than its
`VARCHAR(64)` column would make the insertion fail at every repetition of its
block where MySQL is strict about lengths.

## Findings

1. `chain/listener.go:70`: `uint64(header.Number) - currentBlock` wraps when the
   finalized head of the node lies behind the mark (a node that is still
   syncing after a restart). The header looks far ahead, is never fetched again,
   and the listener sleeps for ever (`ListenerStale`).
2. `chain/chain.go:46`, `chain/listener.go:241`: the listener restarts at the
   marked block and inserts its orders again (`ListenerSurplus`). `SurplusPaid`
   bounds the damage: one surplus per crash or failed mark; `OrdersFrozen` shows
   that blocks before the mark are never affected.
3. `db/fileInfo.go:71`: the statements of `InsertFiles` use `MysqlDb`, not `tx`
   (`FileSyncAtomic`).
4. `metrics/condition.go:41` against `db/fileInfo.go:195`: inclusive bounds in
   the table, an exclusive lower bound in the query (`BucketsReplicas`).

Weaknesses that the properties name as exceptions: a driver error taken for
success in `InsertFiles` and `SaveError` (in `InsertFiles` one such failure
loses a file, or stores its replicas with `file_id` 0, which nothing removes;
`GivingUpCosts` and `ReplicasOwned` bound both by the errors); the stale
`reported_replica_cnt` of a file that drops to 0 replicas, a zero that
`Updates(struct)` skips (`db/fileInfo.go:91`); an ignored error of `SaveFileOrders`,
`updateMetadata`, `queryMember` and `saveGroups`; restarts at upgrade blocks;
overlapping runs of `handlerSlotFileCnt`; counts and gauge handlers that outlive
their cycle; several kinds of events for one cid in one block; histograms by age
on chains below height 10512000, and files without a creation block in them;
segments of one block (`Size = 1`), which are never scanned; histories scanned
under more than one configuration (`OneScanConfig`), about which only `MarkKept`
says anything; reports inside other
calls, at which the listener stands still; labels of staking gauges when an era
begins during a run (a wrapped `uint32` among them); an ignored error of the
authoring payouts. `ErasCovered` needs intervals shorter than an era: the default
`StakeInterval` is six hours, as long as an era, so a run that is a little later
than the one before skips an era, and runs that always fall between the start of
an era and its payout never show a reward.

## What is proved

Eight modules hold proofs. Every safety invariant, every refinement and every
action property of the passing runs is a theorem: the runs look at one instance,
the theorems hold for every value of the constants that the `ASSUME` of the
module admits, and for any number of crashes and faults. Each proof has the same
shape: an inductive invariant, one lemma per conjunct that an action can disturb,
`Invariance` (or `RowsOfAChain`, `MInvariance`), and the properties as corollaries.

| module | inductive invariant | theorems |
|---|---|---|
| `SegFetcher_proofs` | `IInv`: `Pipeline`, `Progress`, with `Metadata` and `Cost` beside it | `TypeCorrect`, `CheckpointIsSound`, `FinishIsSound`, `MetadataIsFresh`, `GivingUpIsDear`, `Implements` |
| `Fetcher_proofs` | `FInv`: `Shapes`, `Cutting`, `Marking`, `Work`, `Sound` | `TypeCorrect`, `MarkIsKept`, `ResumeIsSound`, `HistoryIsComplete` |
| `Listener_proofs` | `LInv`: `Position`, `Confirmed`, `Kept`, `Paid`, `Runtime` | `TypeCorrect`, `OrdersAreKept`, `SurplusIsPaid`, `MetadataIsFresh`, `OrdersAreFrozen`, `Implements` |
| `FileSync_proofs` | `TablesInv`, `RowsInv` and `Paid` | `TypeCorrect`, `ReplicasAreOwned`, `ScanIsStored`, `MirrorsTheChain` |
| `SlotMetrics_proofs` | `MInv`: `LInv`, `Aligned`, `Single`, `Final`, `InOrder` | `SlotsAreFinal`, `SlotsAreInOrder`, `ListenerUndisturbed` |
| `SworkerJob_proofs` | `SInv`: `Exclusive`, `Reported`, `Grouped`, `Watched`, `Seen`, `Counted`, `Uncounted` | `ReportsAreComplete`, `GroupsAreRight`, `GaugesDoAgree`, `VersionsDoAddUp` |
| `EraMetrics_proofs` | `EraInv` and `Cover`: `Timing`, `Labels`, `Paid`, `Flag`, `Covered`, `Fetched` | `TypeCorrect`, `LabelsAreInEra`, `RewardsAreWhole`, `ErasAreCovered` |
| `Buckets_proofs` | `Row` | five theorems `...ArePartitioned` |

Why the invariants are needed, and what carries each argument:

* **SegFetcher.** `CheckpointSound` is not inductive: that a block is behind the
  saver says nothing unless one knows that the saver meets all of them.
  `Pipeline` says that the goroutines and channels hold every block from
  `SaverNext` to `hNext` exactly once and in order, and that the decoder is done
  only when the last block has gone through; `Progress` that the files of all
  blocks before `SaverNext` are settled, but for the ones the saver still has in
  `sTodo`. A checkpoint is written only for the saver's current block; a restart
  resumes at the checkpoint and keeps `Progress` true because settled files stay
  settled. `MetadataFresh` needs in addition that between the decoder and the
  block it takes next no upgrade is left out (`Metadata`), `GivingUpCosts` what
  the attempts under way have cost so far (`Cost`). `Implements` takes each action
  to a step of `SegmentScan`: of its guards, `Covered(Behind(v))` comes from
  `Progress`, and `v >= checkpoint` from `Ahead`, the fact that the saver is never
  behind the row.
* **Fetcher.** Rows are keyed by the end of their segment, so that a resumed row
  is the row of the same segment only because the cut of one configuration is
  always the same (`Shapes`, `Cutting`). `Sound` says of each row and of each
  running segment what has been scanned below it, and is stated for the
  configuration all scans have used; `Marking` follows the listener's mark
  through the row that may not exist.
* **Listener.** `Confirmed` says that the cached header was a finalized one and
  that the block at hand is `Confirm` behind it; with the bound on `Wrap` this is
  what survives the unsigned subtraction, whose wrapped values only ever make the
  listener wait. `Paid` counts the repetitions of the block at hand against
  crashes and failed marks, `Runtime` says when the metadata fit. The lemma
  `FrozenStep` (no step touches orders behind the mark) is shared by
  `OrdersAreFrozen` and by `SlotsAreFinal`.
* **FileSync.** `TablesInv` holds the two tables together statement by statement:
  ids are not shared (`Tables`), and of two savers that meet at a cid only one
  gets to insert replicas (`Saving`). `RowsInv` says of each file that its
  rows agree with the block behind the process, or will when the blocks ahead of
  it have been handled, one of them perhaps for the second time (`Right`). It is
  needed because a restart finds the tables later than its block: what a repeated
  block leaves is right only if a later block writes the rows from scratch
  (`Fixes`), or was the one that created the file. A later report does so for the
  count only if it leaves replicas behind (`Rewrites`). `Paid` counts the batches
  with `file_id` 0 against the faults.
* **SlotMetrics.** The actions of the listener keep `MInv` because the mark
  only grows and orders behind it are frozen; those of the handler because a run
  without overlap reads the same `slot` three times (`Single`). That slots are
  published without gap and none twice is `InOrder`, with `Aligned` (ends are multiples of the
  size).
* **SworkerJob.** `Exclusive`: the flag lets one run through. Paging is the
  argument of `Reported`, `Grouped` and `Counted`: for every storage and every
  page longer than one key, what lies up to the last key of a page is what lay up
  to the start key plus the page (`PageAdded`, `AllAdded`), a page that does not
  advance is the last one (`LastPage`), and nothing lies in between
  (`PageWithoutGaps`), whether the node repeats the start key or not. `Page > 1`
  is used: with pages of one key a node that repeats the start key would never
  advance. `Watched` and `Uncounted` say until when the tables still hold what a
  gauge handler or a count was started for.
* **EraMetrics.** `Timing` (a run is shorter than an era, so one era at most
  begins in it) makes `Labels`: each value read is at most one era beside the
  label. `Cover` adds the time since the last good run: the eras that are due are
  on show, and the next one too once a whole run fits behind the moment at which
  it can be read. This is where `interval + MaxRun <= EraLen` (less the delay of
  the payout for rewards) enters.
* **Buckets.** No induction but that a row stays one a chain can hold (`Row`).
  The bounds of a table are brought into the form of intervals that follow each
  other, for ages by `AgesOfABucket` (no difference wraps on a chain that high)
  and `CreatedOnTheChain` (the creation block `ToFileDto` computes is a block of
  the chain, or 0 when it has none).

The constants are bound by the assumptions in the modules and no others. Those a
reader may ask about: `FileSync` tells the absent row from every row (`NoFile`)
and lets only files exist before the chain that some saver has been given, as a
scan that finds them does; `SworkerJob` has finitely many groups; `Buckets` has
`math.MaxUint32` and the largest bound of its tables below `math.MaxUint64`;
`Listener` needs `Wrap`, 2^64 in the code, above `MaxBlock + Confirm + 1`.

## Only model-checked, and not modelled

Checked by TLC on the instances above and not proved: the liveness properties
`Completes`, `HandsOver`, `CatchesUp`, `SlotsCatchUp` and `FlagReleased`, because liveness under fairness and `ENABLED` are beyond the proof
system; and the four runs that show a violation, which are about one instance.
`SworkerJob` has no run for its types: `TypeCorrect` proves them.

Not modelled:

* SCALE decoding, SS58 and storage keys: data conversion. RPC calls are steps
  that answer or fail. The functions of `connection.go` that read `c.meta` while
  `updateMetadata` writes it race inside one struct; what comes of it depends on
  the compiler and the library, and the models take the calls as whole.
* The blocks between the two payouts of one era: the chain is taken to set both
  in one block (`Payouts`), and `RewardsWhole` rests on it.
* A restart that marks a block a second time is a stutter of `BlockLog`, which
  sees the mark alone; what the repetition costs is `SurplusPaid`.
* Amounts of stakes and rewards (`decodeCru` narrows 128 bits to 64), sums and
  averages: one expression each. The gauge of the current era is one assignment.
* Histograms and counts over `file_info` while the scan and the listener write
  it: a bucket is one query, the buckets of one run are not a snapshot, and the
  code promises nothing else. Slot counts of files (`FileCntBySlot`) change when
  a file is closed or dated back; only the query that may fail is in
  `SlotMetrics`.
* Configuration, logging, HTTP and the registration of collectors.

## Plan

1. Done: `SegFetcher`, `Fetcher`, `Listener`, the file tables from the scan to the
   listener, slot metrics, sworker refresh with its gauges, staking metrics,
   histograms with the dating of files; all safety and action properties and
   both refinements proved.
2. Next: that the step `Fetcher` takes for a segment (`ScanBlock`, `SegmentDone`)
   is one `SegmentScan` admits, so that the two levels are joined by a theorem;
   that `ScanStore`, as `FileSync` instantiates it, keeps its tables alone; that a
   run of `handlerSlotFileCnt` which does overlap never publishes a number above
   the final one; an abstract specification of one cycle of the sworker tables
   with `SworkerJob` as its implementation.
