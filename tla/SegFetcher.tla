----------------------------- MODULE SegFetcher -----------------------------
(***************************************************************************)
(* One segment of the historical scan: src/chain/fetch.go, segFetcher.     *)
(*                                                                         *)
(* Three goroutines form a pipeline over two bounded channels:             *)
(*   hasher   fetchHash      block numbers First.. End      -> hashCh      *)
(*   decoder  fetchFileMeta  events of a block, its cids    -> fmCh        *)
(*   saver    saveFiles      files of those cids -> MySQL, then checkpoint *)
(* The process may die at any step and is started again; it resumes at the *)
(* value of the segment's check_point row.                                 *)
(*                                                                         *)
(* Abstractions.  A block stands for its hash and, on fmCh, for the cids   *)
(* read from its events (a function of the block).  A call that fails and  *)
(* is retried with no change of state is a stuttering step.  Runtime       *)
(* metadata is the set of upgrades it includes: events of block b are      *)
(* encoded by the upgrades of blocks before b, GetMetadata(hash of b)      *)
(* returns the upgrades up to and including b.  SaveFiles is one step      *)
(* here; its statements are the subject of ScanStore.                      *)
(***************************************************************************)
EXTENDS Integers, Sequences, FiniteSets

CONSTANTS
    First, End,      \* blocks of the segment
    Cids,            \* file cids
    Ordered,         \* Ordered[b]: cids of the FileSuccess events of block b
    WellFormed,      \* cids whose length is within 46..64
    Present,         \* cids that exist in storage at the init block
    ChanCap,         \* capacity of the two channels (10 in the code)
    UpdateSize,      \* blocks between two checkpoints
    RetryCnt,        \* attempts at saving a file (5 in the code)
    CodeUpdates,     \* blocks with a System.CodeUpdated event
    Breaking,        \* upgrades that change the layout of the events
    NoRow,           \* no check_point row for this segment
    NoMetadata,      \* the nil *types.Metadata of a failed refresh
    MaxCrashes,      \* bound: process deaths, panics not counted
    MaxFaults        \* bound: failing calls that leave a trace

ASSUME SegmentAssumption ==
    /\ First \in Nat /\ End \in Nat /\ First < End
    /\ Ordered \in [First .. End -> SUBSET Cids]
    /\ CodeUpdates \subseteq First .. End
    /\ Breaking \subseteq CodeUpdates
    /\ \A upgrades \in SUBSET CodeUpdates : upgrades # NoMetadata
    /\ NoRow \notin Nat

ASSUME BoundAssumption ==
    /\ ChanCap \in Nat \ {0} /\ UpdateSize \in Nat /\ RetryCnt \in Nat \ {0}
    /\ MaxCrashes \in Nat /\ MaxFaults \in Nat

VARIABLES
    checkpoint, saved, errored,          \* MySQL: check_point, file_info, error_file
    up, index,                           \* the process; block this run starts from
    hPc, hNext, hashCh,                  \* hasher
    ePc, eBlk, meta, fmCh,               \* decoder
    sPc, sBlk, sTodo, retry, nextUpdate, \* saver
    lost,                                \* history: cids dropped by SaveError
    swallowed,                           \* history: cids dropped by InsertFiles
    crashes, faults                      \* bounds

store   == <<checkpoint, saved, errored, lost, swallowed>>
hasher  == <<hPc, hNext>>
decoder == <<ePc, eBlk>>
saver   == <<sPc, sBlk, sTodo, retry, nextUpdate>>
process == <<up, index>>
bounds  == <<crashes, faults>>
vars    == <<store, process, hasher, hashCh, decoder, meta, fmCh, saver, bounds>>

Blocks == First .. End

MetadataAt(b) == {u \in CodeUpdates : u <= b}
RuntimeOf(b)  == {u \in CodeUpdates : u < b}

\* GetEvents decodes block b only if the layouts agree.
Readable(b) == meta # NoMetadata /\ meta \cap Breaking = RuntimeOf(b) \cap Breaking

CidsOf(b)  == Ordered[b] \cap WellFormed
FilesOf    == [b \in Blocks |-> CidsOf(b) \cap Present]

\* SaveFiles or SaveError has returned without an error: saveKeys is done with
\* the file.  It is in a table, unless it is among lost or swallowed only.
Settled    == saved \cup errored \cup lost \cup swallowed
Finished   == up /\ sPc = "done"

-----------------------------------------------------------------------------
Init ==
    /\ checkpoint = NoRow /\ saved = {} /\ errored = {} /\ lost = {} /\ swallowed = {}
    /\ up = FALSE /\ index = First
    /\ hPc = "off" /\ hNext = First /\ hashCh = <<>>
    /\ ePc = "off" /\ eBlk = First /\ meta = NoMetadata /\ fmCh = <<>>
    /\ sPc = "off" /\ sBlk = First /\ sTodo = {} /\ retry = RetryCnt /\ nextUpdate = 0
    /\ crashes = 0 /\ faults = 0

\* newSegFetcher and segFetcher.start of a new process that resumes at block i;
\* a segment whose row is at its end is only counted as done.
StartAt(i) ==
    /\ up' = TRUE /\ index' = i
    /\ hNext' = i /\ eBlk' = i /\ sBlk' = i
    /\ hashCh' = <<>> /\ fmCh' = <<>> /\ meta' = NoMetadata
    /\ sTodo' = {} /\ retry' = RetryCnt /\ nextUpdate' = 0
    /\ IF i >= End THEN hPc' = "done" /\ ePc' = "done" /\ sPc' = "done"
                   ELSE hPc' = "init" /\ ePc' = "recv" /\ sPc' = "recv"

\* Mutant: resumes behind the block that the checkpoint names.
BootResumeNext ==
    /\ ~up /\ checkpoint # NoRow
    /\ StartAt(checkpoint + 1)
    /\ UNCHANGED <<store, bounds>>

\* GetOrInit finds the row.
BootResume ==
    /\ ~up /\ checkpoint # NoRow
    /\ StartAt(checkpoint)
    /\ UNCHANGED <<store, bounds>>

\* GetOrInit creates the row, or fails to and does not notice.
BootFresh ==
    /\ ~up /\ checkpoint = NoRow
    /\ \/ checkpoint' = First /\ UNCHANGED faults
       \/ faults < MaxFaults /\ faults' = faults + 1 /\ UNCHANGED checkpoint
    /\ StartAt(First)
    /\ UNCHANGED <<saved, errored, lost, swallowed, crashes>>

Boot == BootResume \/ BootFresh

Die == /\ up' = FALSE /\ hPc' = "off" /\ ePc' = "off" /\ sPc' = "off"
       /\ hashCh' = <<>> /\ fmCh' = <<>>
       /\ UNCHANGED <<store, index, hNext, eBlk, meta, sBlk, sTodo, retry, nextUpdate, faults>>

Crash == /\ up /\ crashes < MaxCrashes
         /\ crashes' = crashes + 1
         /\ Die

-----------------------------------------------------------------------------
\* fetchHash, before its loop: the metadata of the first block.
FetchInit ==
    /\ hPc = "init"
    /\ meta' = MetadataAt(index)
    /\ hPc' = "push"
    /\ UNCHANGED <<store, process, hNext, hashCh, decoder, fmCh, saver, bounds>>

\* Mutant: the bound of the loop is off by one.
PushHashBeyond ==
    /\ hPc = "push" /\ Len(hashCh) < ChanCap
    /\ hashCh' = Append(hashCh, hNext)
    /\ hNext' = hNext + 1
    /\ hPc' = IF hNext > End THEN "done" ELSE "push"
    /\ UNCHANGED <<store, process, decoder, meta, fmCh, saver, bounds>>

\* One turn of the loop of fetchHash; the channel is closed after the last block.
PushHash ==
    /\ hPc = "push" /\ Len(hashCh) < ChanCap
    /\ hashCh' = Append(hashCh, hNext)
    /\ hNext' = hNext + 1
    /\ hPc' = IF hNext = End THEN "done" ELSE "push"
    /\ UNCHANGED <<store, process, decoder, meta, fmCh, saver, bounds>>

-----------------------------------------------------------------------------
\* fetchFileMeta takes a block; it stops at End by itself, so it never meets
\* the closed channel.
RecvHash ==
    /\ ePc = "recv" /\ hashCh # <<>>
    /\ eBlk' = Head(hashCh) /\ hashCh' = Tail(hashCh)
    /\ ePc' = "events"
    /\ UNCHANGED <<store, process, hasher, meta, fmCh, saver, bounds>>

GetEvents ==
    /\ ePc = "events" /\ Readable(eBlk)
    /\ ePc' = "send"
    /\ UNCHANGED <<store, process, hasher, hashCh, eBlk, meta, fmCh, saver, bounds>>

\* A layout that does not match is an error like any other: retried for ever.
EventsUnreadable ==
    /\ ePc = "events" /\ meta # NoMetadata /\ ~Readable(eBlk)
    /\ UNCHANGED vars

\* CreateStorageKey dereferences the nil metadata of a failed refresh.
Panic == /\ ePc = "events" /\ meta = NoMetadata
         /\ Die /\ UNCHANGED crashes

AfterBlock == IF eBlk = End THEN "done" ELSE "recv"

\* Mutant: the CodeUpdated event is overlooked.
SendFileMetaOnly ==
    /\ ePc = "send" /\ Len(fmCh) < ChanCap
    /\ fmCh' = Append(fmCh, eBlk)
    /\ ePc' = AfterBlock
    /\ UNCHANGED <<store, process, hasher, hashCh, eBlk, meta, saver, bounds>>

\* The block goes to the saver before its CodeUpdated event is looked at.
SendFileMeta ==
    /\ ePc = "send" /\ Len(fmCh) < ChanCap
    /\ fmCh' = Append(fmCh, eBlk)
    /\ ePc' = IF eBlk \in CodeUpdates THEN "upgrade" ELSE AfterBlock
    /\ UNCHANGED <<store, process, hasher, hashCh, eBlk, meta, saver, bounds>>

\* Mutant: the result of GetMetadata is dropped.
RefreshMetaDropped ==
    /\ ePc = "upgrade"
    /\ meta' = NoMetadata
    /\ ePc' = AfterBlock
    /\ UNCHANGED <<store, process, hasher, hashCh, eBlk, fmCh, saver, bounds>>

RefreshMeta ==
    /\ ePc = "upgrade"
    /\ \/ meta' = MetadataAt(eBlk) /\ UNCHANGED faults
       \/ faults < MaxFaults /\ faults' = faults + 1 /\ meta' = NoMetadata
    /\ ePc' = AfterBlock
    /\ UNCHANGED <<store, process, hasher, hashCh, eBlk, fmCh, saver, crashes>>

-----------------------------------------------------------------------------
\* saveFiles takes a block; saveKeys returns at once when it has no cids.
RecvFileMeta ==
    /\ sPc = "recv" /\ fmCh # <<>>
    /\ sBlk' = Head(fmCh) /\ fmCh' = Tail(fmCh)
    /\ sTodo' = CidsOf(sBlk')
    /\ sPc' = IF sTodo' = {} THEN "mark" ELSE "query"
    /\ UNCHANGED <<store, process, hasher, hashCh, decoder, meta, retry, nextUpdate, bounds>>

\* Mutant: an empty channel is taken for a closed one.
MetasDoneEmpty ==
    /\ sPc = "recv" /\ fmCh = <<>>
    /\ sPc' = "done"
    /\ UNCHANGED <<store, process, hasher, hashCh, decoder, meta, fmCh,
                   sBlk, sTodo, retry, nextUpdate, bounds>>

\* The channel is closed and empty: wg.Done().
MetasDone ==
    /\ sPc = "recv" /\ fmCh = <<>> /\ ePc = "done"
    /\ sPc' = "done"
    /\ UNCHANGED <<store, process, hasher, hashCh, decoder, meta, fmCh,
                   sBlk, sTodo, retry, nextUpdate, bounds>>

\* Mutant: a query that fails is not repeated.
QueryFilesOnce ==
    /\ sPc = "query"
    /\ sTodo' \in {sTodo \cap Present, {}}
    /\ sPc' = IF sTodo' = {} THEN "mark" ELSE "save"
    /\ UNCHANGED <<store, process, hasher, hashCh, decoder, meta, fmCh,
                   sBlk, retry, nextUpdate, bounds>>

\* GetFilesInfoV2ListWithCids at the init block: cids without storage drop out.
QueryFiles ==
    /\ sPc = "query"
    /\ sTodo' = sTodo \cap Present
    /\ sPc' = IF sTodo' = {} THEN "mark" ELSE "save"
    /\ UNCHANGED <<store, process, hasher, hashCh, decoder, meta, fmCh,
                   sBlk, retry, nextUpdate, bounds>>

Current == CHOOSE f \in sTodo : TRUE

\* The inner loop of saveKeys leaves the current file.
NextFile ==
    /\ sTodo' = sTodo \ {Current}
    /\ retry' = RetryCnt
    /\ sPc' = IF sTodo' = {} THEN "mark" ELSE "save"

SaveFile ==
    /\ sPc = "save"
    /\ saved' = saved \cup {Current}
    /\ NextFile
    /\ UNCHANGED <<checkpoint, errored, lost, swallowed, process, hasher, hashCh,
                   decoder, meta, fmCh, sBlk, nextUpdate, bounds>>

\* A driver error of the Create in InsertFiles (not a *mysql.MySQLError) is taken
\* for success: SaveFiles returns nil, and the file has no row.
SaveSwallowed ==
    /\ sPc = "save" /\ faults < MaxFaults
    /\ Current \notin saved
    /\ faults' = faults + 1
    /\ swallowed' = swallowed \cup {Current}
    /\ NextFile
    /\ UNCHANGED <<checkpoint, saved, errored, lost, process, hasher, hashCh,
                   decoder, meta, fmCh, sBlk, nextUpdate, crashes>>

\* SaveFiles failed for the last permitted time: the file goes to error_file.
\* A driver error there (not a *mysql.MySQLError) is reported as success.
GiveUp ==
    \/ /\ faults' = faults + 1
       /\ errored' = errored \cup {Current}
       /\ NextFile
       /\ UNCHANGED lost
    \/ /\ faults + 2 <= MaxFaults
       /\ faults' = faults + 2
       /\ lost' = lost \cup {Current}
       /\ NextFile
       /\ UNCHANGED errored
    \/ /\ faults + 2 <= MaxFaults
       /\ faults' = faults + 2
       /\ retry' = 0
       /\ UNCHANGED <<sTodo, sPc, errored, lost>>

\* Mutant: the retry counter is not consulted.
SaveFailsAtOnce ==
    /\ sPc = "save" /\ faults < MaxFaults
    /\ GiveUp
    /\ UNCHANGED <<checkpoint, saved, swallowed, process, hasher, hashCh, decoder,
                   meta, fmCh, sBlk, nextUpdate, crashes>>

SaveFails ==
    /\ sPc = "save" /\ faults < MaxFaults
    /\ IF retry > 1
         THEN /\ retry' = retry - 1
              /\ faults' = faults + 1
              /\ UNCHANGED <<sTodo, sPc, errored, lost>>
         ELSE GiveUp
    /\ UNCHANGED <<checkpoint, saved, swallowed, process, hasher, hashCh, decoder,
                   meta, fmCh, sBlk, nextUpdate, crashes>>

\* UpdateIndexKey: an error is not looked at, and a missing row not noticed.
MarkDue == sBlk >= nextUpdate \/ sBlk = End

Mark ==
    /\ sPc = "mark"
    /\ IF MarkDue
         THEN /\ nextUpdate' = sBlk + UpdateSize
              /\ \/ /\ checkpoint' = IF checkpoint = NoRow THEN NoRow ELSE sBlk
                    /\ UNCHANGED faults
                 \/ /\ faults < MaxFaults
                    /\ faults' = faults + 1
                    /\ UNCHANGED checkpoint
         ELSE UNCHANGED <<checkpoint, nextUpdate, faults>>
    /\ sPc' = "recv"
    /\ UNCHANGED <<saved, errored, lost, swallowed, process, hasher, hashCh, decoder,
                   meta, fmCh, sBlk, sTodo, retry, crashes>>

-----------------------------------------------------------------------------
Hasher  == FetchInit \/ PushHash
Decoder == RecvHash \/ GetEvents \/ EventsUnreadable \/ Panic \/ SendFileMeta \/ RefreshMeta
Saver   == RecvFileMeta \/ MetasDone \/ QueryFiles \/ SaveFile \/ SaveSwallowed
           \/ SaveFails \/ Mark

\* The segment is over; the rest of the process goes on.
Terminated == Finished /\ hPc = "done" /\ ePc = "done" /\ UNCHANGED vars

Next == Boot \/ Crash \/ Hasher \/ Decoder \/ Saver \/ Terminated

Spec == Init /\ [][Next]_vars

\* The Go scheduler runs every goroutine that can move; a process that died is
\* started again by its operator.
Fairness == WF_vars(Boot) /\ WF_vars(Hasher) /\ WF_vars(Decoder) /\ WF_vars(Saver)

FairSpec == Spec /\ Fairness

-----------------------------------------------------------------------------
Pcs == {"off", "done"}

StoreOK ==
    /\ checkpoint \in Blocks \cup {NoRow}
    /\ saved \subseteq Cids /\ errored \subseteq Cids
    /\ lost \subseteq Cids /\ swallowed \subseteq Cids
    /\ up \in BOOLEAN /\ index \in Blocks
    /\ crashes \in 0 .. MaxCrashes /\ faults \in 0 .. MaxFaults

HasherOK ==
    /\ hPc \in Pcs \cup {"init", "push"}
    /\ hNext \in First .. End + 1
    /\ hashCh \in Seq(Blocks) /\ Len(hashCh) <= ChanCap

DecoderOK ==
    /\ ePc \in Pcs \cup {"recv", "events", "send", "upgrade"}
    /\ eBlk \in Blocks
    /\ meta = NoMetadata \/ meta \subseteq CodeUpdates
    /\ fmCh \in Seq(Blocks) /\ Len(fmCh) <= ChanCap

SaverOK ==
    /\ sPc \in Pcs \cup {"recv", "query", "save", "mark"}
    /\ sBlk \in Blocks /\ sTodo \subseteq Cids
    /\ retry \in 0 .. RetryCnt /\ nextUpdate \in Nat

\* Every variable keeps the type of the field or row it stands for: the hasher
\* stops at End, no channel exceeds its capacity.
TypeOK == StoreOK /\ HasherOK /\ DecoderOK /\ SaverOK

Covered(blocks) == \A b \in blocks : FilesOf[b] \subseteq Settled

\* A restart never skips a file: every file of a block that the checkpoint row
\* (UpdateIndexKey) puts behind the next run has been settled by saveKeys first
\* (SaveFiles or SaveError has returned nil for it),
\* although it is the decoder and the hasher that run ahead of the saver.
CheckpointSound ==
    checkpoint # NoRow => Covered({b \in Blocks : b < checkpoint \/ checkpoint = End})

\* wg.Done() of a segment, after which the listener takes over, is not reached
\* while a file of the segment is unsettled, whatever earlier runs did.
FinishedMeansSaved == Finished => Covered(Blocks)

MetaFor(b) ==
    meta # NoMetadata => meta = IF b = index THEN MetadataAt(index) ELSE RuntimeOf(b)

\* fetchFileMeta decodes every block with the metadata of the runtime that
\* encoded it, except the block a run starts from, for which fetchHash takes
\* the metadata of the state after it.
MetadataFresh == ePc = "events" => MetaFor(eBlk)

\* Why they hold.  Between them the channels and the goroutines hold every
\* block from the saver's to the hasher's exactly once and in order.
DecoderNext == hNext - Len(hashCh)
SaverNext   == (IF ePc \in {"events", "send"} THEN eBlk ELSE DecoderNext) - Len(fmCh)

Contiguous(chan, from) == \A i \in 1 .. Len(chan) : chan[i] = from + i - 1

SaverBusy == sPc \in {"query", "save", "mark"}

Pipeline ==
    /\ Contiguous(hashCh, DecoderNext)
    /\ Contiguous(fmCh, SaverNext)
    /\ hPc \in {"init", "push"} => hNext <= End
    /\ ePc \in {"events", "send", "upgrade"} => eBlk = DecoderNext - 1
    /\ SaverBusy => sBlk = SaverNext - 1
    /\ ePc = "done" /\ sPc # "done" => DecoderNext = End + 1
    /\ up <=> ePc # "off"
    /\ up <=> sPc # "off"

\* Everything the saver has left behind is settled, by this run or before.
Progress ==
    /\ up /\ sPc # "done" =>
         Covered({b \in Blocks : b < IF SaverBusy THEN sBlk ELSE SaverNext})
    /\ SaverBusy => FilesOf[sBlk] \subseteq Settled \cup sTodo
    /\ sPc = "mark" => sTodo = {}
    /\ sPc = "save" => sTodo # {}

IInv == TypeOK /\ Pipeline /\ Progress /\ CheckpointSound /\ FinishedMeansSaved

\* The metadata fits the block that the decoder has at hand or takes next; the
\* hasher has it before the first block is sent.
Metadata ==
    /\ hPc = "init" => hNext = index /\ hashCh = <<>> /\ ePc = "recv"
    /\ ePc \in {"events", "send", "upgrade"} => eBlk >= index
    /\ ePc = "recv" => DecoderNext >= index
    /\ ePc = "recv" /\ hPc # "init" => MetaFor(DecoderNext)
    /\ ePc \in {"events", "send"} => MetaFor(eBlk)

MetaInv == IInv /\ Metadata

\* What saveKeys and SaveFiles let go is paid for: a row in error_file by RetryCnt
\* failures of that one file, a file dropped by SaveError by one more, and a file
\* dropped by InsertFiles, whose driver errors are swallowed, by a failure of its
\* own.  So a file that is in neither table has met a driver error, and no file
\* is given up for the failures of another.
GivingUpCosts ==
    RetryCnt * Cardinality(errored) + (RetryCnt + 1) * Cardinality(lost)
        + Cardinality(swallowed) <= faults

\* The pipeline implements the scan that SegmentScan promises.
Scan == INSTANCE SegmentScan WITH
            Files <- Cids, settled <- Settled, finished <- Finished
Refines == Scan!Spec

\* The run began at an upgrade that changes the event layout: its block is
\* decoded with the metadata of the state after it, and fails for ever.
AtUpgrade == ePc = "events" /\ eBlk = index /\ index \in Breaking

\* Every segment is finished in the end, the crashes and failures of a run
\* notwithstanding, or it stands at an upgrade it was restarted at; there is no
\* other way for the three goroutines to come to a standstill.
Completes == <>[](Finished \/ AtUpgrade)
=============================================================================
