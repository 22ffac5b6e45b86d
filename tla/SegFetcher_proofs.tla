-------------------------- MODULE SegFetcher_proofs --------------------------
(***************************************************************************)
(* Proofs about one segment of the scan, for every segment, channel        *)
(* capacity, checkpoint distance, retry count and number of crashes.       *)
(***************************************************************************)
EXTENDS SegFetcher, FiniteSetTheorems, TLAPS

USE SegmentAssumption, BoundAssumption

-----------------------------------------------------------------------------
\* What the two channel operations do to a run of consecutive blocks.
LEMMA AppendContiguous ==
    ASSUME NEW chan \in Seq(Blocks), NEW from \in Int, Contiguous(chan, from),
           NEW b \in Blocks, b = from + Len(chan)
    PROVE  /\ Append(chan, b) \in Seq(Blocks)
           /\ Len(Append(chan, b)) = Len(chan) + 1
           /\ Contiguous(Append(chan, b), from)
  BY DEF Contiguous, Blocks

\* Receiving the next block keeps a channel contiguous.
LEMMA TailContiguous ==
    ASSUME NEW chan \in Seq(Blocks), NEW from \in Int, Contiguous(chan, from),
           chan # <<>>
    PROVE  /\ Head(chan) = from /\ Head(chan) \in Blocks
           /\ Tail(chan) \in Seq(Blocks)
           /\ Len(Tail(chan)) = Len(chan) - 1
           /\ Contiguous(Tail(chan), from + 1)
  BY DEF Contiguous, Blocks

\* The saver's loop over the files of a block works on one of them.
LEMMA CurrentInTodo == sTodo # {} => Current \in sTodo
  BY DEF Current

-----------------------------------------------------------------------------
\* No process runs, and nothing has been stored.
LEMMA InitInv == Init => IInv
  <1> SUFFICES ASSUME Init PROVE IInv
    OBVIOUS
  <1> USE DEF Init
  <1>1. TypeOK
    <2>0. up \in BOOLEAN
      OBVIOUS
    <2>1. StoreOK
      BY <2>0 DEF StoreOK, Blocks
    <2>2. HasherOK
      BY DEF HasherOK, Pcs, Blocks
    <2>3. DecoderOK
      BY DEF DecoderOK, Pcs, Blocks
    <2>4. SaverOK
      BY DEF SaverOK, Pcs, Blocks
    <2> QED BY <2>1, <2>2, <2>3, <2>4 DEF TypeOK
  <1>2. Pipeline
    BY DEF Pipeline, Contiguous, SaverBusy, DecoderNext, SaverNext
  <1>3. Progress /\ CheckpointSound /\ FinishedMeansSaved
    BY DEF Progress, SaverBusy, CheckpointSound, FinishedMeansSaved, Finished
  <1> QED BY <1>1, <1>2, <1>3 DEF IInv

\* Types: one step per action, and one per part where an action touches several.
LEMMA TypeStep == IInv /\ [Next]_vars => TypeOK'
  <1> SUFFICES ASSUME TypeOK, Pipeline, Progress, [Next]_vars PROVE TypeOK'
    BY DEF IInv
  <1> USE DEF TypeOK, Pcs, Blocks, store, hasher, decoder, saver, process, bounds
  <1>1. CASE BootResume
    BY <1>1 DEF BootResume, StartAt, StoreOK, HasherOK, DecoderOK, SaverOK
  <1>2. CASE BootFresh
    <2>1. StoreOK'
      BY <1>2 DEF BootFresh, StartAt, StoreOK
    <2>2. HasherOK'
      BY <1>2 DEF BootFresh, StartAt, HasherOK
    <2>3. DecoderOK'
      BY <1>2 DEF BootFresh, StartAt, DecoderOK
    <2>4. SaverOK'
      BY <1>2 DEF BootFresh, StartAt, SaverOK
    <2> QED BY <2>1, <2>2, <2>3, <2>4
  <1>3. CASE Crash
    <2>0. up' \in BOOLEAN
      BY <1>3 DEF Crash, Die
    <2>1. StoreOK'
      BY <1>3, <2>0 DEF Crash, Die, StoreOK
    <2>2. HasherOK'
      BY <1>3 DEF Crash, Die, HasherOK
    <2>3. DecoderOK'
      BY <1>3 DEF Crash, Die, DecoderOK
    <2>4. SaverOK'
      BY <1>3 DEF Crash, Die, SaverOK
    <2> QED BY <2>1, <2>2, <2>3, <2>4
  <1>4. CASE FetchInit
    BY <1>4 DEF FetchInit, MetadataAt, StoreOK, HasherOK, DecoderOK, SaverOK
  <1>5. CASE PushHash
    BY <1>5 DEF PushHash, Pipeline, StoreOK, HasherOK, DecoderOK, SaverOK
  <1>6. CASE RecvHash
    BY <1>6 DEF RecvHash, StoreOK, HasherOK, DecoderOK, SaverOK
  <1>7. CASE GetEvents
    BY <1>7 DEF GetEvents, StoreOK, HasherOK, DecoderOK, SaverOK
  <1>8. CASE EventsUnreadable
    BY <1>8 DEF EventsUnreadable, vars, StoreOK, HasherOK, DecoderOK, SaverOK
  <1>9. CASE Panic
    <2>0. up' \in BOOLEAN
      BY <1>9 DEF Panic, Die
    <2>1. StoreOK'
      BY <1>9, <2>0 DEF Panic, Die, StoreOK
    <2>2. HasherOK'
      BY <1>9 DEF Panic, Die, HasherOK
    <2>3. DecoderOK'
      BY <1>9 DEF Panic, Die, DecoderOK
    <2>4. SaverOK'
      BY <1>9 DEF Panic, Die, SaverOK
    <2> QED BY <2>1, <2>2, <2>3, <2>4
  <1>10. CASE SendFileMeta
    BY <1>10 DEF SendFileMeta, AfterBlock, StoreOK, HasherOK, DecoderOK, SaverOK
  <1>11. CASE RefreshMeta
    BY <1>11 DEF RefreshMeta, AfterBlock, MetadataAt, StoreOK, HasherOK, DecoderOK, SaverOK
  <1>12. CASE RecvFileMeta
    <2>1. StoreOK' /\ HasherOK'
      BY <1>12 DEF RecvFileMeta, StoreOK, HasherOK
    <2>2. DecoderOK'
      BY <1>12 DEF RecvFileMeta, DecoderOK
    <2>3. sBlk' \in Blocks
      BY <1>12 DEF RecvFileMeta, DecoderOK
    <2>4. SaverOK'
      BY <1>12, <2>3 DEF RecvFileMeta, CidsOf, SaverOK
    <2> QED BY <2>1, <2>2, <2>4
  <1>13. CASE MetasDone
    BY <1>13 DEF MetasDone, StoreOK, HasherOK, DecoderOK, SaverOK
  <1>14. CASE QueryFiles
    BY <1>14 DEF QueryFiles, StoreOK, HasherOK, DecoderOK, SaverOK
  <1>15. CASE SaveFile
    <2>1. Current \in Cids
      BY <1>15, CurrentInTodo DEF SaveFile, Progress, SaverOK
    <2>2. StoreOK' /\ HasherOK' /\ DecoderOK'
      BY <1>15, <2>1 DEF SaveFile, StoreOK, HasherOK, DecoderOK
    <2>3. SaverOK'
      BY <1>15 DEF SaveFile, NextFile, SaverOK
    <2> QED BY <2>2, <2>3
  <1>20. CASE SaveSwallowed
    <2>1. Current \in Cids
      BY <1>20, CurrentInTodo DEF SaveSwallowed, Progress, SaverOK
    <2>2. StoreOK' /\ HasherOK' /\ DecoderOK'
      BY <1>20, <2>1 DEF SaveSwallowed, StoreOK, HasherOK, DecoderOK
    <2>3. SaverOK'
      BY <1>20 DEF SaveSwallowed, NextFile, SaverOK
    <2> QED BY <2>2, <2>3
  <1>16. CASE SaveFails
    <2>1. Current \in Cids
      BY <1>16, CurrentInTodo DEF SaveFails, Progress, SaverOK
    <2>2. StoreOK'
      BY <1>16, <2>1 DEF SaveFails, GiveUp, NextFile, StoreOK
    <2>3. HasherOK' /\ DecoderOK'
      BY <1>16 DEF SaveFails, HasherOK, DecoderOK
    <2>4. SaverOK'
      BY <1>16 DEF SaveFails, GiveUp, NextFile, SaverOK
    <2> QED BY <2>2, <2>3, <2>4
  <1>17. CASE Mark
    <2>1. StoreOK'
      BY <1>17 DEF Mark, StoreOK, SaverOK
    <2>2. HasherOK' /\ DecoderOK'
      BY <1>17 DEF Mark, HasherOK, DecoderOK
    <2>3. nextUpdate' \in Nat
      BY <1>17 DEF Mark, SaverOK
    <2>4. SaverOK'
      BY <1>17, <2>3 DEF Mark, SaverOK
    <2> QED BY <2>1, <2>2, <2>4
  <1>18. CASE Terminated
    BY <1>18 DEF Terminated, vars, StoreOK, HasherOK, DecoderOK, SaverOK
  <1>19. CASE UNCHANGED vars
    BY <1>19 DEF vars, StoreOK, HasherOK, DecoderOK, SaverOK
  <1> QED
    BY <1>1, <1>2, <1>3, <1>4, <1>5, <1>6, <1>7, <1>8, <1>9, <1>10, <1>11, <1>12,
       <1>13, <1>14, <1>15, <1>16, <1>17, <1>18, <1>19, <1>20
    DEF Next, Boot, Hasher, Decoder, Saver

-----------------------------------------------------------------------------
\* The blocks in flight: one step per action.
LEMMA PipelineStep == IInv /\ [Next]_vars => Pipeline'
  <1> SUFFICES ASSUME IInv, [Next]_vars PROVE Pipeline'
    OBVIOUS
  <1> USE DEF DecoderNext, SaverNext, SaverBusy, Blocks
  <1>a. /\ hashCh \in Seq(Blocks) /\ fmCh \in Seq(Blocks)
        /\ hNext \in First .. End + 1 /\ eBlk \in Blocks /\ sBlk \in Blocks
        /\ index \in Blocks /\ checkpoint \in Blocks \cup {NoRow}
        /\ ePc \in Pcs \cup {"recv", "events", "send", "upgrade"}
        /\ sPc \in Pcs \cup {"recv", "query", "save", "mark"}
        /\ hPc \in Pcs \cup {"init", "push"}
    BY DEF IInv, TypeOK, StoreOK, HasherOK, DecoderOK, SaverOK
  <1>b. Pipeline
    BY DEF IInv
  <1>0. ASSUME NEW i \in Blocks, StartAt(i) PROVE Pipeline'
    BY <1>0 DEF StartAt, Pipeline, Contiguous
  <1>1. CASE BootResume
    BY <1>1, <1>0, <1>a DEF BootResume
  <1>2. CASE BootFresh
    BY <1>2, <1>0 DEF BootFresh
  <1>3. ASSUME Die PROVE Pipeline'
    BY <1>3, <1>a DEF Die, Pipeline, Contiguous
  <1>4. CASE FetchInit
    BY <1>4, <1>a, <1>b DEF FetchInit, Pipeline, decoder, saver, process
  <1>5. CASE PushHash
    <2>1. hNext \in Blocks /\ hNext = DecoderNext + Len(hashCh)
      BY <1>5, <1>a, <1>b DEF PushHash, Pipeline
    <2>2. /\ Len(hashCh') = Len(hashCh) + 1
          /\ Contiguous(hashCh', DecoderNext)
      BY <1>5, <2>1, <1>a, <1>b, AppendContiguous DEF PushHash, Pipeline
    <2>3. DecoderNext' = DecoderNext /\ SaverNext' = SaverNext
      BY <1>5, <2>2, <1>a DEF PushHash, decoder
    <2>4. hPc' \in {"init", "push"} => hNext' <= End
      BY <1>5, <2>1, <1>a DEF PushHash
    <2>5. UNCHANGED <<fmCh, ePc, eBlk, sPc, sBlk, up>>
      BY <1>5 DEF PushHash, decoder, saver, process
    <2> HIDE DEF DecoderNext, SaverNext
    <2> QED BY <2>2, <2>3, <2>4, <2>5, <1>b DEF Pipeline, Contiguous
  <1>6. CASE RecvHash
    <2>1. /\ eBlk' = DecoderNext
          /\ Len(hashCh') = Len(hashCh) - 1
          /\ Contiguous(hashCh', DecoderNext + 1)
      BY <1>6, <1>a, <1>b, TailContiguous DEF RecvHash, Pipeline
    <2>2. DecoderNext' = DecoderNext + 1 /\ SaverNext' = SaverNext
      BY <1>6, <2>1, <1>a DEF RecvHash, hasher
    <2>3. UNCHANGED <<fmCh, hPc, hNext, sPc, sBlk, up>> /\ ePc = "recv" /\ ePc' = "events"
      BY <1>6 DEF RecvHash, hasher, saver, process
    <2>4. DecoderNext \in Int /\ SaverNext' = SaverNext
      BY <1>a, <2>2
    <2> HIDE DEF DecoderNext, SaverNext
    <2> QED BY <2>1, <2>2, <2>3, <2>4, <1>b DEF Pipeline, Contiguous
  <1>7. CASE GetEvents
    BY <1>7, <1>a, <1>b DEF GetEvents, Pipeline, hasher, saver, process
  <1>8. CASE EventsUnreadable
    BY <1>8, <1>b DEF EventsUnreadable, vars, hasher, decoder, saver, process, Pipeline
  <1>10. CASE SendFileMeta
    <2>1. eBlk = SaverNext + Len(fmCh)
      BY <1>10, <1>a DEF SendFileMeta
    <2>2. /\ Len(fmCh') = Len(fmCh) + 1
          /\ Contiguous(fmCh', SaverNext)
      BY <1>10, <2>1, <1>a, <1>b, AppendContiguous DEF SendFileMeta, Pipeline
    <2>3. DecoderNext' = DecoderNext /\ SaverNext' = SaverNext
      BY <1>10, <2>2, <1>a, <1>b DEF SendFileMeta, hasher, Pipeline, AfterBlock
    <2>4. eBlk' = DecoderNext' - 1
      BY <1>10, <2>3, <1>b DEF SendFileMeta, Pipeline
    <2>5. ePc' = "done" => DecoderNext' = End + 1
      <3>1. ePc' = "done" => eBlk' = End
        BY <1>10 DEF SendFileMeta, AfterBlock
      <3>2. DecoderNext' \in Int
        BY <2>3, <1>a
      <3> QED BY <3>1, <3>2, <2>4
    <2>6. ePc' # "off" /\ ePc' \notin {"events", "send"}
      BY <1>10 DEF SendFileMeta, AfterBlock
    <2>7. up' = up /\ sPc' = sPc /\ sBlk' = sBlk /\ hPc' = hPc /\ hNext' = hNext
          /\ hashCh' = hashCh
      BY <1>10 DEF SendFileMeta, hasher, saver, process
    <2>8. ePc = "send"
      BY <1>10 DEF SendFileMeta
    <2>9. Contiguous(hashCh, DecoderNext)' /\ Contiguous(fmCh, SaverNext)'
      BY <2>2, <2>3, <2>7, <1>b DEF Pipeline
    <2>10. (SaverBusy => sBlk = SaverNext - 1)'
      BY <2>3, <2>7, <1>b DEF Pipeline
    <2>11. (up <=> ePc # "off")' /\ (up <=> sPc # "off")'
      BY <2>6, <2>7, <2>8, <1>b DEF Pipeline
    <2>12. (hPc \in {"init", "push"} => hNext <= End)'
      BY <2>7, <1>b DEF Pipeline
    <2> QED
      BY <2>4, <2>5, <2>9, <2>10, <2>11, <2>12 DEF Pipeline
  <1>11. CASE RefreshMeta
    BY <1>11, <1>a, <1>b DEF RefreshMeta, AfterBlock, Pipeline, hasher, saver, process
  <1>12. CASE RecvFileMeta
    <2>1. /\ sBlk' = SaverNext
          /\ Len(fmCh') = Len(fmCh) - 1
          /\ Contiguous(fmCh', SaverNext + 1)
      BY <1>12, <1>a, <1>b, TailContiguous DEF RecvFileMeta, Pipeline
    <2>2. DecoderNext' = DecoderNext /\ SaverNext' = SaverNext + 1
      BY <1>12, <2>1, <1>a DEF RecvFileMeta, hasher, decoder
    <2>3. sBlk' = SaverNext' - 1
      BY <2>1, <2>2, <1>a
    <2> QED
      BY <1>12, <2>1, <2>2, <1>a, <1>b DEF RecvFileMeta, Pipeline, hasher, decoder, process
  <1>13. CASE MetasDone
    BY <1>13, <1>a, <1>b DEF MetasDone, Pipeline, hasher, decoder, process
  <1>14. CASE QueryFiles
    BY <1>14, <1>a, <1>b DEF QueryFiles, Pipeline, hasher, decoder, process
  <1>15. CASE SaveFile \/ SaveSwallowed
    BY <1>15, <1>a, <1>b DEF SaveFile, SaveSwallowed, NextFile, Pipeline, hasher, decoder, process
  <1>16. CASE SaveFails
    BY <1>16, <1>a, <1>b DEF SaveFails, GiveUp, NextFile, Pipeline, hasher, decoder, process
  <1>17. CASE Mark
    BY <1>17, <1>a, <1>b DEF Mark, Pipeline, hasher, decoder, process
  <1>18. CASE UNCHANGED vars
    BY <1>18, <1>b DEF vars, hasher, decoder, saver, process, Pipeline
  <1> QED
    BY <1>1, <1>2, <1>3, <1>4, <1>5, <1>6, <1>7, <1>8, <1>10, <1>11, <1>12,
       <1>13, <1>14, <1>15, <1>16, <1>17, <1>18
    DEF Next, Boot, Hasher, Decoder, Saver, Crash, Panic, Terminated

-----------------------------------------------------------------------------
\* Settled files stay settled: the rows of MySQL survive every step.
LEMMA SettledGrows == [Next]_vars => Settled \subseteq Settled'
  <1> SUFFICES ASSUME [Next]_vars PROVE Settled \subseteq Settled'
    OBVIOUS
  <1>1. CASE Boot
    BY <1>1 DEF Boot, BootResume, BootFresh, Settled, store
  <1>2. CASE Crash \/ Panic
    BY <1>2 DEF Crash, Panic, Die, Settled, store
  <1>3. CASE Hasher \/ RecvHash \/ GetEvents \/ SendFileMeta \/ RefreshMeta
    BY <1>3 DEF Hasher, FetchInit, PushHash, RecvHash, GetEvents, SendFileMeta,
                RefreshMeta, Settled, store
  <1>4. CASE RecvFileMeta \/ MetasDone \/ QueryFiles
    BY <1>4 DEF RecvFileMeta, MetasDone, QueryFiles, Settled, store
  <1>5. CASE SaveFile \/ SaveSwallowed \/ SaveFails \/ Mark
    BY <1>5 DEF SaveFile, SaveSwallowed, SaveFails, GiveUp, Mark, Settled
  <1>6. CASE UNCHANGED vars
    BY <1>6 DEF vars, store, Settled
  <1> QED
    BY <1>1, <1>2, <1>3, <1>4, <1>5, <1>6
    DEF Next, Decoder, Saver, Terminated, EventsUnreadable

\* Blocks whose files are settled stay so.
LEMMA CoveredGrows ==
    ASSUME NEW S, Settled \subseteq Settled', Covered(S)
    PROVE  Covered(S)'
  BY DEF Covered, FilesOf

\* What the hasher and the decoder do moves no block across the saver's frontier.
LEMMA SaverNextStable ==
    ASSUME IInv, FetchInit \/ PushHash \/ RecvHash \/ GetEvents \/ SendFileMeta \/ RefreshMeta
    PROVE  SaverNext' = SaverNext
  <1> USE DEF DecoderNext, SaverNext, hasher, decoder
  <1>a. /\ hashCh \in Seq(Blocks) /\ fmCh \in Seq(Blocks)
        /\ hNext \in Int /\ eBlk \in Int /\ Pipeline
    BY DEF IInv, TypeOK, HasherOK, DecoderOK, Blocks
  <1>1. CASE FetchInit \/ GetEvents \/ RefreshMeta
    BY <1>1, <1>a DEF FetchInit, GetEvents, RefreshMeta, AfterBlock
  <1>2. CASE PushHash
    <2>1. Len(hashCh') = Len(hashCh) + 1 /\ hNext' = hNext + 1
      BY <1>2, <1>a DEF PushHash
    <2> QED BY <1>2, <2>1, <1>a DEF PushHash
  <1>3. CASE RecvHash
    <2>1. Len(hashCh') = Len(hashCh) - 1 /\ eBlk' = DecoderNext
      BY <1>3, <1>a, TailContiguous, DecoderNext \in Int DEF RecvHash, Pipeline
    <2> QED BY <1>3, <2>1, <1>a DEF RecvHash
  <1>4. CASE SendFileMeta
    <2>1. Len(fmCh') = Len(fmCh) + 1 /\ eBlk = DecoderNext - 1
      BY <1>4, <1>a DEF SendFileMeta, Pipeline
    <2> QED BY <1>4, <2>1, <1>a DEF SendFileMeta, AfterBlock
  <1> QED BY <1>1, <1>2, <1>3, <1>4

\* Everything behind the saver is settled, and the checkpoint is behind it.
LEMMA ProgressStep == IInv /\ [Next]_vars => Progress' /\ CheckpointSound' /\ FinishedMeansSaved'
  <1> SUFFICES ASSUME IInv, [Next]_vars
               PROVE  Progress' /\ CheckpointSound' /\ FinishedMeansSaved'
    OBVIOUS
  <1>a. /\ hNext \in First .. End + 1 /\ eBlk \in Blocks /\ sBlk \in Blocks
        /\ fmCh \in Seq(Blocks) /\ hashCh \in Seq(Blocks)
        /\ checkpoint \in Blocks \cup {NoRow} /\ index \in Blocks
    BY DEF IInv, TypeOK, StoreOK, HasherOK, DecoderOK, SaverOK
  <1>b. Pipeline /\ Progress /\ CheckpointSound /\ FinishedMeansSaved
    BY DEF IInv
  <1>c. Settled \subseteq Settled'
    BY SettledGrows
  <1>d. DecoderNext \in Int /\ SaverNext \in Int /\ Blocks \subseteq Int
    BY <1>a DEF DecoderNext, SaverNext, Blocks
  \* A step that leaves the saver and the checkpoint alone.
  <1>1. ASSUME UNCHANGED <<saver, checkpoint, up>>, SaverNext' = SaverNext
        PROVE  Progress' /\ CheckpointSound' /\ FinishedMeansSaved'
    BY <1>1, <1>b, <1>c
    DEF Progress, CheckpointSound, FinishedMeansSaved, Finished, Covered, FilesOf,
        SaverBusy, saver
  <1>2. CASE Boot
    <2>1. PICK i \in Blocks : StartAt(i) /\ i = IF checkpoint = NoRow THEN First ELSE checkpoint
      BY <1>2, <1>a DEF Boot, BootResume, BootFresh, Blocks
    <2>2. Settled' = Settled
      BY <1>2 DEF Boot, BootResume, BootFresh, Settled, store
    <2>3. checkpoint' = checkpoint \/ (checkpoint' = First /\ checkpoint = NoRow)
      BY <1>2 DEF Boot, BootResume, BootFresh, store
    <2>4. CheckpointSound'
      BY <2>2, <2>3, <1>b DEF CheckpointSound, Covered, FilesOf, Blocks
    <2>5. ~SaverBusy' /\ up' /\ (sPc' = "done" <=> i >= End)
      BY <2>1 DEF StartAt, SaverBusy
    <2>6. i < End => SaverNext' = i
      BY <2>1, <2>5 DEF StartAt, SaverNext, DecoderNext, Blocks
    <2>7. Covered({b \in Blocks : b < i \/ i = End})
      BY <2>1, <1>b, <1>d DEF CheckpointSound, Covered, Blocks
    <2>8. i >= End => Covered(Blocks)'
      BY <2>2, <2>7 DEF Covered, FilesOf, Blocks
    <2>9. i < End => Covered({b \in Blocks : b < SaverNext})'
      BY <2>2, <2>6, <2>7 DEF Covered, FilesOf, Blocks
    <2>10. FinishedMeansSaved'
      BY <2>5, <2>8 DEF FinishedMeansSaved, Finished
    <2>11. Progress'
      BY <2>1, <2>5, <2>9 DEF Progress, SaverBusy, Blocks, StartAt
    <2> QED BY <2>4, <2>10, <2>11
  <1>3. CASE Crash \/ Panic
    <2>1. Settled' = Settled /\ checkpoint' = checkpoint /\ ~up' /\ sPc' = "off"
      BY <1>3 DEF Crash, Panic, Die, Settled, store
    <2> QED
      BY <2>1, <1>b DEF Progress, CheckpointSound, FinishedMeansSaved, Finished, Covered,
                        FilesOf, SaverBusy
  <1>4. CASE FetchInit \/ PushHash \/ RecvHash \/ GetEvents \/ SendFileMeta \/ RefreshMeta
    <2>1. UNCHANGED <<saver, checkpoint, up>>
      BY <1>4 DEF FetchInit, PushHash, RecvHash, GetEvents, SendFileMeta, RefreshMeta,
                  saver, store, process
    <2>2. SaverNext' = SaverNext
      BY <1>4, SaverNextStable
    <2> QED BY <1>1, <2>1, <2>2
  <1>5. CASE UNCHANGED vars
    BY <1>1, <1>5 DEF vars, saver, store, process, hasher, decoder, SaverNext, DecoderNext
  <1>6. CASE RecvFileMeta
    <2>1. sBlk' = SaverNext /\ up /\ sPc = "recv"
      BY <1>6, <1>a, <1>b, <1>d, TailContiguous DEF RecvFileMeta, Pipeline
    <2>2. Settled' = Settled /\ checkpoint' = checkpoint /\ up' = up
      BY <1>6 DEF RecvFileMeta, Settled, store, process
    <2>3. SaverBusy' /\ sPc' # "done" /\ sTodo' = CidsOf(sBlk') /\ (sPc' = "mark" => sTodo' = {})
          /\ sPc' # "save"
      BY <1>6 DEF RecvFileMeta, SaverBusy
    <2>4. sBlk' \in Blocks
      BY <1>6, <1>a DEF RecvFileMeta
    <2>5. Covered({b \in Blocks : b < sBlk})'
      BY <2>1, <2>2, <1>b DEF Progress, Covered, FilesOf, SaverBusy
    <2>6. (FilesOf[sBlk] \subseteq Settled \cup sTodo)'
      BY <2>3, <2>4 DEF FilesOf
    <2>7. Progress'
      BY <2>3, <2>5, <2>6 DEF Progress
    <2> QED
      BY <2>2, <2>3, <2>7, <1>b
      DEF CheckpointSound, FinishedMeansSaved, Finished, Covered, FilesOf
  <1>7. CASE MetasDone
    <2>1. up /\ sPc = "recv" /\ ePc = "done" /\ Len(fmCh) = 0 /\ DecoderNext = End + 1
      BY <1>7, <1>b DEF MetasDone, Pipeline
    <2>2. SaverNext = End + 1
      BY <2>1 DEF SaverNext
    <2>3. Covered(Blocks)
      BY <2>1, <2>2, <1>b DEF Progress, Covered, SaverBusy, Blocks
    <2>4. Settled' = Settled /\ checkpoint' = checkpoint /\ sPc' = "done"
      BY <1>7 DEF MetasDone, Settled, store
    <2> QED
      BY <2>3, <2>4, <1>b
      DEF Progress, CheckpointSound, FinishedMeansSaved, Finished, Covered, FilesOf, SaverBusy
  <1>8. CASE QueryFiles \/ SaveFile \/ SaveSwallowed \/ SaveFails
    <2>1. /\ SaverBusy /\ SaverBusy' /\ sPc \notin {"mark", "done"} /\ sPc' # "done"
          /\ UNCHANGED <<sBlk, checkpoint, up>>
      BY <1>8 DEF QueryFiles, SaveFile, SaveSwallowed, SaveFails, GiveUp, NextFile, SaverBusy, store, process
    <2>2. (sPc' = "mark" => sTodo' = {}) /\ (sPc' = "save" => sTodo' # {})
      BY <1>8, <1>b DEF QueryFiles, SaveFile, SaveSwallowed, SaveFails, GiveUp, NextFile, Progress
    <2>3. FilesOf[sBlk] \subseteq (Settled \cup sTodo)'
      <3>1. FilesOf[sBlk] \subseteq Settled \cup sTodo /\ FilesOf[sBlk] \subseteq Present
        BY <1>a, <1>b, <2>1 DEF Progress, FilesOf
      <3>2. CASE QueryFiles
        BY <3>1, <3>2, <1>c DEF QueryFiles
      <3>3. CASE SaveFile
        BY <3>1, <3>3 DEF SaveFile, NextFile, Settled
      <3>4. CASE SaveFails
        BY <3>1, <3>4 DEF SaveFails, GiveUp, NextFile, Settled
      <3>5. CASE SaveSwallowed
        BY <3>1, <3>5 DEF SaveSwallowed, NextFile, Settled
      <3> QED BY <1>8, <3>2, <3>3, <3>4, <3>5
    <2>4. Covered({b \in Blocks : b < sBlk})'
      <3>1. sPc # "done" /\ (up => Covered({b \in Blocks : b < sBlk}))
        BY <1>b, <2>1 DEF Progress
      <3>2. up
        BY <1>b, <2>1 DEF Pipeline, SaverBusy
      <3> QED BY <3>1, <3>2, <2>1, <1>c DEF Covered, FilesOf
    <2>5. Progress'
      BY <2>1, <2>2, <2>3, <2>4 DEF Progress, FilesOf
    <2> QED
      BY <2>1, <2>5, <1>b, <1>c
      DEF CheckpointSound, FinishedMeansSaved, Finished, Covered, FilesOf
  <1>9. CASE Mark
    <2>1. /\ sPc = "mark" /\ SaverBusy /\ sTodo = {} /\ up
          /\ sBlk = SaverNext - 1 /\ Covered({b \in Blocks : b < sBlk})
          /\ FilesOf[sBlk] \subseteq Settled
      BY <1>9, <1>b DEF Mark, Progress, Pipeline, SaverBusy
    <2>2. /\ Settled' = Settled /\ sPc' = "recv" /\ up' = up
          /\ SaverNext' = SaverNext
          /\ checkpoint' = checkpoint \/ checkpoint' = sBlk
      BY <1>9 DEF Mark, Settled, process, hasher, decoder, SaverNext, DecoderNext
    <2>3. Covered({b \in Blocks : b < SaverNext})
      <3>1. \A b \in Blocks : b < SaverNext => b < sBlk \/ b = sBlk
        BY <2>1, <1>a, <1>d
      <3> QED BY <3>1, <2>1 DEF Covered
    <2>4. Progress'
      BY <2>2, <2>3 DEF Progress, SaverBusy, Covered, FilesOf
    <2>5. CheckpointSound'
      <3>1. sBlk = End => Covered(Blocks)
        BY <2>1, <1>a DEF Covered, Blocks
      <3> QED BY <3>1, <2>1, <2>2, <1>b DEF CheckpointSound, Covered, FilesOf
    <2> QED BY <2>2, <2>4, <2>5 DEF FinishedMeansSaved, Finished
  <1> QED
    BY <1>2, <1>3, <1>4, <1>5, <1>6, <1>7, <1>8, <1>9
    DEF Next, Hasher, Decoder, Saver, EventsUnreadable, Terminated

-----------------------------------------------------------------------------
\* No step breaks the inductive invariant.
LEMMA StepInv == IInv /\ [Next]_vars => IInv'
  BY TypeStep, PipelineStep, ProgressStep DEF IInv

\* The inductive invariant holds in every state: the goroutines and channels hold the
\* blocks in order, and everything the saver has left behind is settled.
THEOREM Invariance == Spec => []IInv
  BY InitInv, StepInv, PTL DEF Spec

\* The hasher, the decoder and the saver keep to their blocks and channels.
THEOREM TypeCorrect == Spec => []TypeOK
  <1>1. IInv => TypeOK
    BY DEF IInv
  <1> QED BY Invariance, <1>1, PTL

\* A restart never skips an unsettled file: UpdateIndexKey comes after saveKeys
\* for every block up to its value, in whatever order the goroutines run.
THEOREM CheckpointIsSound == Spec => []CheckpointSound
  <1>1. IInv => CheckpointSound
    BY DEF IInv
  <1> QED BY Invariance, <1>1, PTL

\* wg.Done() of a segment means that all its files are settled.
THEOREM FinishIsSound == Spec => []FinishedMeansSaved
  <1>1. IInv => FinishedMeansSaved
    BY DEF IInv
  <1> QED BY Invariance, <1>1, PTL

-----------------------------------------------------------------------------
\* A block after which the metadata is not refreshed is followed by a block of
\* the same runtime; the state after a block is the runtime of the next one.
LEMMA NextRuntime ==
    ASSUME NEW b \in Int
    PROVE  /\ MetadataAt(b) = RuntimeOf(b + 1)
           /\ b \notin CodeUpdates => RuntimeOf(b) = MetadataAt(b)
  <1>1. \A u \in CodeUpdates : u \in Int
    BY DEF Blocks
  <1>2. \A u \in CodeUpdates : u <= b <=> u < b + 1
    BY <1>1
  <1>3. b \notin CodeUpdates => \A u \in CodeUpdates : u < b <=> u <= b
    BY <1>1
  <1>4. MetadataAt(b) = RuntimeOf(b + 1)
    BY <1>2 DEF MetadataAt, RuntimeOf
  <1>5. b \notin CodeUpdates => RuntimeOf(b) = MetadataAt(b)
    BY <1>3 DEF MetadataAt, RuntimeOf
  <1> QED BY <1>4, <1>5

\* No step leaves out an upgrade between the decoder and the block it takes next.
LEMMA MetadataStep == MetaInv /\ [Next]_vars => Metadata'
  <1> SUFFICES ASSUME IInv, Metadata, [Next]_vars PROVE Metadata'
    BY DEF MetaInv
  <1> USE DEF DecoderNext, Blocks, MetaFor
  <1>a. /\ hashCh \in Seq(Blocks) /\ hNext \in Int /\ eBlk \in Int /\ index \in Int
        /\ index \in Blocks /\ checkpoint \in Blocks \cup {NoRow}
    BY DEF IInv, TypeOK, StoreOK, HasherOK, DecoderOK
  <1>b. Pipeline
    BY DEF IInv
  \* A step that leaves the hasher, the decoder and the metadata alone.
  <1>1. ASSUME UNCHANGED <<hasher, decoder, meta, hashCh, index>> PROVE Metadata'
    BY <1>1 DEF Metadata, hasher, decoder, RuntimeOf, MetadataAt
  <1>2. CASE Boot
    <2>1. PICK i \in Blocks : StartAt(i)
      BY <1>2, <1>a DEF Boot, BootResume, BootFresh
    <2> QED BY <2>1 DEF StartAt, Metadata
  <1>3. CASE Crash \/ Panic
    BY <1>3 DEF Crash, Panic, Die, Metadata
  <1>4. CASE FetchInit
    BY <1>4, <1>a DEF FetchInit, Metadata, decoder, process, MetadataAt
  <1>5. CASE PushHash
    <2>1. DecoderNext' = DecoderNext
      BY <1>5, <1>a DEF PushHash
    <2> QED BY <1>5, <2>1 DEF PushHash, Metadata, decoder, process, RuntimeOf, MetadataAt
  <1>6. CASE RecvHash
    <2>1. eBlk' = DecoderNext /\ hPc # "init"
      BY <1>6, <1>a, <1>b, TailContiguous DEF RecvHash, Pipeline, Metadata
    <2> QED BY <1>6, <2>1 DEF RecvHash, Metadata, hasher, process, RuntimeOf, MetadataAt
  <1>7. CASE GetEvents
    BY <1>7 DEF GetEvents, Metadata, hasher, process, RuntimeOf, MetadataAt
  <1>8. CASE SendFileMeta
    <2>1. DecoderNext' = DecoderNext /\ DecoderNext = eBlk + 1 /\ eBlk >= index /\ hPc # "init"
      BY <1>8, <1>a, <1>b DEF SendFileMeta, Pipeline, Metadata, hasher
    <2>2. eBlk \notin CodeUpdates => MetaFor(DecoderNext)
      <3>1. meta # NoMetadata => meta = MetadataAt(eBlk) \/ meta = RuntimeOf(eBlk)
        BY <1>8 DEF SendFileMeta, Metadata
      <3>2. /\ MetadataAt(eBlk) = RuntimeOf(eBlk + 1)
            /\ eBlk \notin CodeUpdates => RuntimeOf(eBlk) = MetadataAt(eBlk)
        BY <1>a, NextRuntime
      <3>3. DecoderNext # index /\ DecoderNext = eBlk + 1
        BY <2>1, <1>a
      <3> HIDE DEF DecoderNext
      <3> QED BY <3>1, <3>2, <3>3
    <2>3. ePc' = "recv" => eBlk \notin CodeUpdates
      BY <1>8 DEF SendFileMeta
    <2>4. ePc' \in {"recv", "done", "upgrade"}
      BY <1>8 DEF SendFileMeta, AfterBlock
    <2>5. UNCHANGED <<hPc, hNext, hashCh, eBlk, meta, index>>
      BY <1>8 DEF SendFileMeta, hasher, process
    <2> QED BY <2>1, <2>2, <2>3, <2>4, <2>5, <1>a DEF Metadata, RuntimeOf, MetadataAt
  <1>9. CASE RefreshMeta
    <2>1. DecoderNext' = DecoderNext /\ DecoderNext = eBlk + 1 /\ eBlk >= index /\ hPc # "init"
      BY <1>9, <1>a, <1>b DEF RefreshMeta, Pipeline, Metadata, hasher
    <2>2. meta' = NoMetadata \/ meta' = RuntimeOf(DecoderNext)
      BY <1>9, <2>1, <1>a, NextRuntime DEF RefreshMeta
    <2>3. ePc' \in {"recv", "done"} /\ UNCHANGED <<hPc, hNext, hashCh, eBlk, index>>
      BY <1>9 DEF RefreshMeta, AfterBlock, hasher, process
    <2> QED BY <2>1, <2>2, <2>3, <1>a DEF Metadata, RuntimeOf, MetadataAt
  <1>10. CASE Saver
    BY <1>10, <1>1
    DEF Saver, RecvFileMeta, MetasDone, QueryFiles, SaveFile, SaveSwallowed, SaveFails,
        Mark, process
  <1>11. CASE UNCHANGED vars
    BY <1>11, <1>1 DEF vars, process
  <1> QED
    BY <1>2, <1>3, <1>4, <1>5, <1>6, <1>7, <1>8, <1>9, <1>10, <1>11
    DEF Next, Hasher, Decoder, EventsUnreadable, Terminated

\* Every block is decoded with the metadata of the runtime that encoded it, the
\* starting block of a run apart: the decoder refreshes the metadata between an
\* upgrade and the next block, however far the hasher is ahead.
THEOREM MetadataIsFresh == Spec => []MetadataFresh
  <1>1. Init => MetaInv
    BY InitInv DEF MetaInv, Metadata, Init
  <1>2. MetaInv /\ [Next]_vars => MetaInv'
    BY StepInv, MetadataStep DEF MetaInv
  <1>3. MetaInv => MetadataFresh
    BY DEF MetaInv, Metadata, MetadataFresh
  <1> QED BY <1>1, <1>2, <1>3, PTL DEF Spec

-----------------------------------------------------------------------------
\* The failures of the file at hand count as well: every attempt used up is one.
Cost ==
    /\ IsFiniteSet(errored) /\ IsFiniteSet(lost) /\ IsFiniteSet(swallowed)
    /\ RetryCnt * Cardinality(errored) + (RetryCnt + 1) * Cardinality(lost)
         + Cardinality(swallowed) + (RetryCnt - retry) <= faults

\* The block that the saver has at hand or takes next is not behind the row.
Ahead ==
    checkpoint # NoRow /\ up /\ sPc # "done" =>
        checkpoint <= IF SaverBusy THEN sBlk ELSE SaverNext

\* What one more file let go adds to the left-hand side.
LEMMA OneMore ==
    ASSUME NEW S, IsFiniteSet(S), NEW x, NEW r \in Nat
    PROVE  /\ IsFiniteSet(S \cup {x})
           /\ r * Cardinality(S) \in Nat
           /\ r * Cardinality(S \cup {x}) \in Nat
           /\ r * Cardinality(S \cup {x}) <= r * Cardinality(S) + r
  <1>1. IsFiniteSet(S \cup {x}) /\ Cardinality(S \cup {x}) \in {Cardinality(S), Cardinality(S) + 1}
    BY FS_AddElement, FS_CardinalityType
  <1>2. Cardinality(S) \in Nat
    BY FS_CardinalityType
  <1>3. \A n \in Nat : r * n \in Nat /\ r * (n + 1) = r * n + r
    OBVIOUS
  <1> HIDE SegmentAssumption, BoundAssumption
  <1>4. CASE Cardinality(S \cup {x}) = Cardinality(S)
    BY <1>1, <1>2, <1>3, <1>4
  <1>5. CASE Cardinality(S \cup {x}) = Cardinality(S) + 1
    <2>1. r * (Cardinality(S) + 1) = r * Cardinality(S) + r /\ r * Cardinality(S) \in Nat
      BY <1>2, <1>3
    <2> QED BY <1>1, <1>5, <2>1
  <1> QED BY <1>1, <1>4, <1>5

\* No step makes a file cheaper to give up.
LEMMA CostStep == IInv /\ Cost /\ [Next]_vars => Cost'
  <1> SUFFICES ASSUME IInv, Cost, [Next]_vars PROVE Cost'
    OBVIOUS
  <1>a. /\ retry \in 0 .. RetryCnt /\ faults \in Nat /\ RetryCnt \in Nat \ {0}
        /\ IsFiniteSet(errored) /\ IsFiniteSet(lost) /\ IsFiniteSet(swallowed)
    BY DEF IInv, TypeOK, SaverOK, StoreOK, Cost
  <1> DEFINE E(S) == RetryCnt * Cardinality(S)
             L(S) == (RetryCnt + 1) * Cardinality(S)
             W(S) == 1 * Cardinality(S)
  <1>b. E(errored) + L(lost) + W(swallowed) + (RetryCnt - retry) <= faults
    <2>1. W(swallowed) = Cardinality(swallowed)
      BY <1>a, FS_CardinalityType
    <2> HIDE DEF W
    <2> QED BY <2>1 DEF Cost
  <1>c. /\ IsFiniteSet(errored \cup {Current}) /\ E(errored) \in Nat
        /\ E(errored \cup {Current}) \in Nat /\ E(errored \cup {Current}) <= E(errored) + RetryCnt
    BY <1>a, OneMore
  <1>d. /\ IsFiniteSet(lost \cup {Current}) /\ L(lost) \in Nat
        /\ L(lost \cup {Current}) \in Nat /\ L(lost \cup {Current}) <= L(lost) + (RetryCnt + 1)
    <2>1. RetryCnt + 1 \in Nat
      BY <1>a
    <2> QED BY <1>a, <2>1, OneMore
  <1>f. /\ IsFiniteSet(swallowed \cup {Current}) /\ W(swallowed) \in Nat
        /\ W(swallowed \cup {Current}) \in Nat /\ W(swallowed \cup {Current}) <= W(swallowed) + 1
    BY <1>a, 1 \in Nat, OneMore
  <1>g. IsFiniteSet(swallowed') => W(swallowed') = Cardinality(swallowed')
    BY FS_CardinalityType
  <1> HIDE DEF E, L, W
  <1> HIDE SegmentAssumption, BoundAssumption
  <1>e. ASSUME IsFiniteSet(errored'), IsFiniteSet(lost'), IsFiniteSet(swallowed'),
               E(errored') + L(lost') + W(swallowed') + (RetryCnt - retry') <= faults'
        PROVE  Cost'
    BY <1>e, <1>g DEF Cost, E, L
  \* A step of anyone but the loop over the files of a block.
  <1>1. ASSUME UNCHANGED <<errored, lost, swallowed>>, retry' \in {retry, RetryCnt},
               faults' \in {faults, faults + 1}
        PROVE  Cost'
    BY <1>1, <1>a, <1>b, <1>c, <1>d, <1>e, <1>f
  <1>2. CASE Boot
    BY <1>2, <1>1 DEF Boot, BootResume, BootFresh, StartAt, store, bounds
  <1>3. CASE Crash \/ Panic
    BY <1>3, <1>1 DEF Crash, Panic, Die, store
  <1>4. CASE Hasher \/ RecvHash \/ GetEvents \/ SendFileMeta
    BY <1>4, <1>1 DEF Hasher, FetchInit, PushHash, RecvHash, GetEvents, SendFileMeta,
                      store, saver, bounds
  <1>5. CASE RefreshMeta
    BY <1>5, <1>1 DEF RefreshMeta, store, saver
  <1>6. CASE RecvFileMeta \/ MetasDone \/ QueryFiles
    BY <1>6, <1>1 DEF RecvFileMeta, MetasDone, QueryFiles, store, bounds
  <1>7. CASE SaveFile
    BY <1>7, <1>1 DEF SaveFile, NextFile, bounds
  <1>8. CASE Mark
    BY <1>8, <1>1 DEF Mark
  <1>11. CASE SaveSwallowed
    <2>1. /\ swallowed' = swallowed \cup {Current} /\ faults' = faults + 1
          /\ retry' = RetryCnt /\ UNCHANGED <<errored, lost>>
      BY <1>11 DEF SaveSwallowed, NextFile
    <2> QED BY <2>1, <1>a, <1>b, <1>c, <1>d, <1>e, <1>f
  <1>9. CASE SaveFails
    <2>0. swallowed' = swallowed
      BY <1>9 DEF SaveFails
    <2>1. CASE retry > 1 /\ retry' = retry - 1 /\ faults' = faults + 1 /\ UNCHANGED <<errored, lost>>
      BY <2>0, <2>1, <1>a, <1>b, <1>c, <1>d, <1>e, <1>f
    <2>2. CASE /\ retry <= 1 /\ faults' = faults + 1 /\ retry' = RetryCnt
               /\ errored' = errored \cup {Current} /\ UNCHANGED lost
      BY <2>0, <2>2, <1>a, <1>b, <1>c, <1>d, <1>e, <1>f
    <2>3. CASE /\ retry <= 1 /\ faults' = faults + 2 /\ retry' = RetryCnt
               /\ lost' = lost \cup {Current} /\ UNCHANGED errored
      BY <2>0, <2>3, <1>a, <1>b, <1>c, <1>d, <1>e, <1>f
    <2>4. CASE retry <= 1 /\ faults' = faults + 2 /\ retry' = 0 /\ UNCHANGED <<errored, lost>>
      BY <2>0, <2>4, <1>a, <1>b, <1>c, <1>d, <1>e, <1>f
    <2>5. retry > 1 \/ retry <= 1
      BY <1>a
    <2> QED BY <1>9, <2>1, <2>2, <2>3, <2>4, <2>5 DEF SaveFails, GiveUp, NextFile
  <1>10. CASE UNCHANGED vars
    BY <1>10, <1>1 DEF vars, store, saver, bounds
  <1> QED
    BY <1>2, <1>3, <1>4, <1>5, <1>6, <1>7, <1>8, <1>9, <1>10, <1>11
    DEF Next, Decoder, Saver, EventsUnreadable, Terminated

\* A file reaches error_file only by RetryCnt failures of SaveFiles, is dropped by
\* SaveError only by one more, and by InsertFiles only by a driver error of its
\* own: the attempts of one file never count for another.
THEOREM GivingUpIsDear == Spec => []GivingUpCosts
  <1>1. Init => Cost
    <2>1. RetryCnt \in Nat /\ RetryCnt * 0 = 0 /\ (RetryCnt + 1) * 0 = 0
      OBVIOUS
    <2> QED BY <2>1, FS_EmptySet DEF Init, Cost
  <1>2. IInv /\ Cost /\ [Next]_vars => (IInv /\ Cost)'
    BY StepInv, CostStep
  <1>3. IInv /\ Cost => GivingUpCosts
    <2> SUFFICES ASSUME IInv, Cost PROVE GivingUpCosts
      OBVIOUS
    <2>1. RetryCnt - retry >= 0 /\ retry \in Int /\ faults \in Int
      BY DEF IInv, TypeOK, SaverOK, StoreOK
    <2>2. /\ Cardinality(errored) \in Nat /\ Cardinality(lost) \in Nat
          /\ Cardinality(swallowed) \in Nat
      BY FS_CardinalityType DEF Cost
    <2> DEFINE e == RetryCnt * Cardinality(errored)
               l == (RetryCnt + 1) * Cardinality(lost)
               w == Cardinality(swallowed)
    <2>3. e \in Int /\ l \in Int /\ w \in Int
      BY <2>2
    <2>4. e + l + w + (RetryCnt - retry) <= faults
      BY DEF Cost
    <2> HIDE DEF e, l, w
    <2>5. e + l + w <= faults
      BY <2>1, <2>3, <2>4
    <2> QED BY <2>5 DEF GivingUpCosts, e, l, w
  <1> QED BY InitInv, <1>1, <1>2, <1>3, PTL DEF Spec

-----------------------------------------------------------------------------
\* The saver never comes back to a block before the one its row names.
LEMMA AheadStep == IInv /\ Ahead /\ [Next]_vars => Ahead'
  <1> SUFFICES ASSUME IInv, Ahead, [Next]_vars PROVE Ahead'
    OBVIOUS
  <1>a. /\ hNext \in First .. End + 1 /\ eBlk \in Blocks /\ sBlk \in Blocks
        /\ fmCh \in Seq(Blocks) /\ hashCh \in Seq(Blocks)
        /\ checkpoint \in Blocks \cup {NoRow} /\ index \in Blocks /\ Pipeline
    BY DEF IInv, TypeOK, StoreOK, HasherOK, DecoderOK, SaverOK
  <1>d. DecoderNext \in Int /\ SaverNext \in Int /\ Blocks \subseteq Int
    BY <1>a DEF DecoderNext, SaverNext, Blocks
  <1>1. ASSUME UNCHANGED <<saver, checkpoint, up>>, SaverNext' = SaverNext
        PROVE  Ahead'
    BY <1>1 DEF Ahead, SaverBusy, saver
  <1>2. CASE Boot
    <2>1. PICK i \in Blocks : StartAt(i) /\ (checkpoint' # NoRow => i = checkpoint')
      BY <1>2, <1>a DEF Boot, BootResume, BootFresh, Blocks, store
    <2>2. ~SaverBusy' /\ (sPc' # "done" => SaverNext' = i)
      BY <2>1 DEF StartAt, SaverBusy, SaverNext, DecoderNext, Blocks
    <2> QED BY <2>1, <2>2, <1>d DEF Ahead
  <1>3. CASE Crash \/ Panic
    BY <1>3 DEF Crash, Panic, Die, Ahead
  <1>4. CASE FetchInit \/ PushHash \/ RecvHash \/ GetEvents \/ SendFileMeta \/ RefreshMeta
    <2>1. UNCHANGED <<saver, checkpoint, up>>
      BY <1>4 DEF FetchInit, PushHash, RecvHash, GetEvents, SendFileMeta, RefreshMeta,
                  saver, store, process
    <2> QED BY <1>1, <1>4, <2>1, SaverNextStable
  <1>5. CASE UNCHANGED vars
    BY <1>1, <1>5 DEF vars, saver, store, process, hasher, decoder, SaverNext, DecoderNext
  <1>6. CASE RecvFileMeta
    <2>1. sBlk' = SaverNext /\ sPc = "recv" /\ SaverBusy'
      BY <1>6, <1>a, <1>d, TailContiguous DEF RecvFileMeta, Pipeline, SaverBusy
    <2>2. UNCHANGED <<checkpoint, up>>
      BY <1>6 DEF RecvFileMeta, store, process
    <2> QED BY <2>1, <2>2 DEF Ahead, SaverBusy
  <1>7. CASE MetasDone
    BY <1>7 DEF MetasDone, Ahead
  <1>8. CASE QueryFiles \/ SaveFile \/ SaveSwallowed \/ SaveFails
    BY <1>8 DEF QueryFiles, SaveFile, SaveSwallowed, SaveFails, GiveUp, NextFile, Ahead, SaverBusy, store, process
  <1>9. CASE Mark
    <2>1. /\ SaverBusy /\ sBlk = SaverNext - 1 /\ SaverNext' = SaverNext /\ ~SaverBusy'
          /\ sPc # "done" /\ up' = up /\ checkpoint' \in {checkpoint, sBlk}
          /\ (checkpoint' = sBlk \/ checkpoint' = checkpoint)
      BY <1>9, <1>a DEF Mark, Pipeline, SaverBusy, process, hasher, decoder, SaverNext, DecoderNext
    <2> QED BY <2>1, <1>a, <1>d DEF Ahead
  <1> QED
    BY <1>2, <1>3, <1>4, <1>5, <1>6, <1>7, <1>8, <1>9
    DEF Next, Hasher, Decoder, Saver, EventsUnreadable, Terminated

\* The pipeline, with its goroutines, channels, retries and restarts, is an
\* implementation of the scan that SegmentScan promises: a file is settled by
\* saveKeys, the row is advanced by saveFiles, and only over settled blocks.
THEOREM Implements == Spec => Refines
  <1>1. Init => Scan!Init /\ Ahead
    BY DEF Init, Scan!Init, Settled, Finished, Ahead
  <1>2. IInv /\ Ahead /\ [Next]_vars => [Scan!Next]_<<checkpoint, Settled, Finished>>
    <2> SUFFICES ASSUME IInv, Ahead, [Next]_vars PROVE [Scan!Next]_<<checkpoint, Settled, Finished>>
      OBVIOUS
    <2> USE DEF Scan!Next
    <2>a. /\ checkpoint \in Blocks \cup {NoRow} /\ sBlk \in Blocks /\ sTodo \subseteq Cids
          /\ Pipeline /\ Progress
      BY DEF IInv, TypeOK, StoreOK, SaverOK
    <2>b. CheckpointSound' /\ FinishedMeansSaved'
      BY StepInv DEF IInv
    <2>1. CASE Boot
      <3>1. Settled' = Settled /\ ~Finished
        BY <2>1 DEF Boot, BootResume, BootFresh, Settled, store, Finished
      <3>0. ~Finished' => Finished' = Finished
        BY <3>1 DEF Finished
      <3>2. CASE checkpoint' = checkpoint /\ ~Finished'
        BY <3>0, <3>1, <3>2
      <3>3. CASE checkpoint' = checkpoint /\ Finished'
        BY <3>1, <3>3, <2>b DEF FinishedMeansSaved, Covered, Scan!Finish, Scan!Covered, Scan!Blocks, Blocks,
                                FilesOf
      <3>4. CASE checkpoint = NoRow /\ checkpoint' = First /\ ~Finished'
        BY <3>0, <3>1, <3>4 DEF Scan!CreateRow
      <3>5. BootFresh => ~Finished'
        BY DEF BootFresh, StartAt, Finished
      <3> QED BY <2>1, <3>2, <3>3, <3>4, <3>5 DEF Boot, BootResume, BootFresh, store
    <2>2. CASE Crash \/ Panic
      BY <2>2 DEF Crash, Panic, Die, store, Settled, Finished, Scan!Forget
    <2>3. CASE FetchInit \/ PushHash \/ RecvHash \/ GetEvents \/ SendFileMeta \/ RefreshMeta
      BY <2>3 DEF FetchInit, PushHash, RecvHash, GetEvents, SendFileMeta, RefreshMeta,
                  store, saver, process, Settled, Finished
    <2>4. CASE RecvFileMeta \/ QueryFiles
      BY <2>4 DEF RecvFileMeta, QueryFiles, store, process, Settled, Finished
    <2>5. CASE MetasDone
      <3>1. Settled' = Settled /\ checkpoint' = checkpoint /\ Finished'
        BY <2>5, <2>a DEF MetasDone, store, process, Settled, Finished, Pipeline
      <3> QED BY <3>1, <2>b DEF FinishedMeansSaved, Covered, Scan!Finish, Scan!Covered, Scan!Blocks, Blocks,
                                FilesOf
    <2>6. CASE SaveFile \/ SaveSwallowed \/ SaveFails
      <3>1. Current \in Cids
        BY <2>6, <2>a, CurrentInTodo DEF SaveFile, SaveSwallowed, SaveFails, Progress
      <3>2. checkpoint' = checkpoint /\ Finished' = Finished
        BY <2>6 DEF SaveFile, SaveSwallowed, SaveFails, GiveUp, NextFile, process, Finished
      <3>3. Settled' = Settled \/ Settled' = Settled \cup {Current}
        BY <2>6 DEF SaveFile, SaveSwallowed, SaveFails, GiveUp, Settled
      <3> QED BY <3>1, <3>2, <3>3 DEF Scan!Settle
    <2>7. CASE Mark
      <3>1. Settled' = Settled /\ Finished' = Finished /\ up /\ SaverBusy
        BY <2>7, <2>a DEF Mark, Settled, Finished, Pipeline, SaverBusy
      <3>2. CASE checkpoint' = checkpoint
        BY <3>1, <3>2
      <3>3. CASE checkpoint # NoRow /\ checkpoint' = sBlk
        <4>1. sBlk >= checkpoint
          BY <3>1, <3>3, <2>a DEF Ahead, SaverBusy, Blocks
        <4>2. Scan!Covered(Scan!Behind(sBlk))
          BY <3>1, <3>3, <2>a, <2>b
          DEF CheckpointSound, Covered, Scan!Covered, Scan!Behind, Scan!Blocks, Blocks, FilesOf
        <4> QED BY <3>1, <3>3, <4>1, <4>2, <2>a DEF Scan!Advance, Scan!Blocks, Blocks
      <3> QED BY <2>7, <3>2, <3>3 DEF Mark
    <2>8. CASE UNCHANGED vars
      BY <2>8 DEF vars, store, saver, process, Settled, Finished
    <2> QED
      BY <2>1, <2>2, <2>3, <2>4, <2>5, <2>6, <2>7, <2>8
      DEF Next, Hasher, Decoder, Saver, EventsUnreadable, Terminated
  <1>3. IInv /\ Ahead /\ [Next]_vars => (IInv /\ Ahead)'
    BY StepInv, AheadStep
  <1> QED BY InitInv, <1>1, <1>2, <1>3, PTL DEF Spec, Refines, Scan!Spec, Scan!vars
=============================================================================
