------------------------------ MODULE Listener ------------------------------
(***************************************************************************)
(* The listener: src/chain/listener.go (pollBlocks, processEvents,         *)
(* handleEvents), with UpdateBlockNumber and SaveFileOrders of src/db, and *)
(* the metadata of its connection (src/chain/connection.go).               *)
(*                                                                         *)
(* It polls the finalized head, takes the next block when that lies        *)
(* Confirm blocks behind, decodes its events, updates the files they       *)
(* name, appends the orders of the block, refreshes the metadata after a   *)
(* code upgrade and marks the block as processed.  The process may die at  *)
(* any step and is started again at the block of its mark.                 *)
(*                                                                         *)
(* Abstractions.  The orders of a block are one batch: orders[b] counts    *)
(* how often it has been inserted.  updateFiles is one step (its           *)
(* statements are idempotent for a block; FileSync has them).  Block       *)
(* numbers are uint64: differences wrap at Wrap.  Metadata is the set of   *)
(* upgrades it includes, as in SegFetcher.  An extrinsic is either what    *)
(* its decoder expects or not (a report inside a batch or a proxy call is  *)
(* not).  The listener's row exists (see Fetcher for the case that it does *)
(* not).                                                                   *)
(***************************************************************************)
EXTENDS Integers, Sequences, FiniteSets

CONSTANTS
    Start,        \* initBlock + 1
    Confirm,      \* blocks the listener keeps behind the finalized head
    Ordering,     \* blocks with FileSuccess events
    CodeUpdates,  \* blocks with a System.CodeUpdated event
    Breaking,     \* upgrades that change the layout of the events
    MayBeOpaque,  \* blocks whose extrinsics may be wrapped in other calls
    Nil,          \* no header fetched yet
    Wrap,         \* 2^64
    MaxBlock,     \* bound: length of the chain
    FirstHead,    \* finalized head when the first process starts
    MaxLag,       \* how far the node of a restarted process may be behind
    MaxCrashes,   \* bound: process deaths
    MaxFaults     \* bound: failing calls that leave a trace

ASSUME ListenerAssumption ==
    /\ Start \in Nat \ {0} /\ Confirm \in Nat
    /\ MaxBlock \in Nat /\ FirstHead \in 0 .. MaxBlock /\ Start <= MaxBlock
    /\ Ordering \subseteq Start .. MaxBlock /\ CodeUpdates \subseteq Start .. MaxBlock
    /\ Breaking \subseteq CodeUpdates /\ MayBeOpaque \subseteq Start .. MaxBlock
    /\ Wrap \in Nat /\ MaxBlock + Confirm + 1 < Wrap
    /\ MaxLag \in Nat /\ MaxCrashes \in Nat /\ MaxFaults \in Nat
    /\ Nil \notin Nat

VARIABLES
    bn, orders,        \* MySQL: the listener's check_point row, file_order
    best, final,       \* the chain: its head and its finalized head
    opaque,            \* the chain: blocks with extrinsics no decoder can read
    head,              \* the finalized head of the node in use
    pc, cur, fin,      \* pollBlocks: position, currentBlock, finalizedHeader
    meta,              \* connection.meta
    dropped,           \* history: blocks whose SaveFileOrders failed
    skew,              \* history: why meta may differ from the runtime of cur
    crashes, faults

chain  == <<best, final, opaque, head>>
store  == <<bn, orders, dropped>>
bounds == <<crashes, faults>>
vars   == <<store, chain, pc, cur, fin, meta, skew, bounds>>

Blocks == Start .. MaxBlock

MetadataAt(b) == {u \in CodeUpdates : u <= b}
RuntimeOf(b)  == {u \in CodeUpdates : u < b}
Readable(b)   == meta \cap Breaking = RuntimeOf(b) \cap Breaking

Init ==
    /\ bn = 0 /\ orders = [b \in Blocks |-> 0] /\ dropped = {}
    /\ final = FirstHead /\ head = FirstHead /\ best \in FirstHead .. MaxBlock
    /\ opaque \in SUBSET MayBeOpaque
    /\ pc = "down" /\ cur = Start /\ fin = Nil /\ meta = {} /\ skew = {}
    /\ crashes = 0 /\ faults = 0

-----------------------------------------------------------------------------
\* The chain grows and finalizes; the node in use keeps up with it.
Produce == /\ best < MaxBlock
           /\ best' = best + 1
           /\ UNCHANGED <<store, final, opaque, head, pc, cur, fin, meta, skew, bounds>>

Finalize == /\ final < best
            /\ final' = final + 1
            /\ UNCHANGED <<store, best, opaque, head, pc, cur, fin, meta, skew, bounds>>

Import == /\ head < final
          /\ head' = head + 1
          /\ UNCHANGED <<store, best, final, opaque, pc, cur, fin, meta, skew, bounds>>

-----------------------------------------------------------------------------
\* Mutant: it begins a block before the mark, to be on the safe side.
BootEarlier ==
    /\ pc = "down"
    /\ head' \in {h \in 0 .. final : h + MaxLag >= final}
    /\ \E latest \in head' .. best :
         /\ meta' = MetadataAt(latest)
         /\ cur' = IF bn <= Start THEN Start ELSE bn - 1
         /\ skew' = IF meta' = RuntimeOf(cur') THEN {} ELSE {"boot"}
    /\ fin' = Nil
    /\ pc' = "poll"
    /\ UNCHANGED <<store, best, final, opaque, bounds>>

\* NewChain: Connect takes the latest metadata of the node it is given, and
\* the listener begins at its mark (or behind the init block).
Boot ==
    /\ pc = "down"
    /\ head' \in {h \in 0 .. final : h + MaxLag >= final}
    /\ \E latest \in head' .. best :
         /\ meta' = MetadataAt(latest)
         /\ cur' = IF bn = 0 THEN Start ELSE bn
         /\ skew' = IF meta' = RuntimeOf(cur') THEN {} ELSE {"boot"}
    /\ fin' = Nil
    /\ pc' = "poll"
    /\ UNCHANGED <<store, best, final, opaque, bounds>>

Crash == /\ pc # "down" /\ crashes < MaxCrashes
         /\ crashes' = crashes + 1
         /\ pc' = "down"
         /\ UNCHANGED <<store, chain, cur, fin, meta, skew, faults>>

\* uint64(finalizedHeader.Number) - currentBlock: wraps when negative.
Distance == (fin - cur) % Wrap

\* Mutant: the header is fetched once.
NeedHeaderOnce == fin = Nil

\* The cached header is used as long as it is far enough ahead.
NeedHeader == IF fin = Nil THEN TRUE ELSE Distance < Confirm

KeepHeader == /\ pc = "poll" /\ ~NeedHeader
              /\ pc' = "check"
              /\ UNCHANGED <<store, chain, cur, fin, meta, skew, bounds>>

FetchHeader == /\ pc = "poll" /\ NeedHeader
               /\ fin' = head
               /\ pc' = "check"
               /\ UNCHANGED <<store, chain, cur, meta, skew, bounds>>

\* GetHeader returns nil with its error.
HeaderFails == /\ pc = "poll" /\ NeedHeader /\ fin # Nil /\ faults < MaxFaults
               /\ faults' = faults + 1
               /\ fin' = Nil
               /\ UNCHANGED <<store, chain, pc, cur, meta, skew, crashes>>

\* Mutant: without the comparison of line 89 the wrapped difference decides.
NotReadyWrapped == Distance < Confirm

\* "Block not yet finalized" and "Block not ready, will retry".
NotReady == fin < cur \/ fin - cur < Confirm

Sleep == /\ pc = "check" /\ NotReady
         /\ pc' = "poll"
         /\ UNCHANGED <<store, chain, cur, fin, meta, skew, bounds>>

Take == /\ pc = "check" /\ ~NotReady
        /\ pc' = "events"
        /\ UNCHANGED <<store, chain, cur, fin, meta, skew, bounds>>

-----------------------------------------------------------------------------
\* The decodeCidsFrom... functions read the arguments of an extrinsic as those
\* of the call that their event stands for.
Decodable(b) == Readable(b) /\ b \notin opaque

\* processEvents up to updateFiles: an error of any kind sends the block round
\* again.
EventsFail == /\ pc = "events" /\ ~Decodable(cur)
              /\ pc' = "poll"
              /\ UNCHANGED <<store, chain, cur, fin, meta, skew, bounds>>

GetEvents == /\ pc = "events" /\ Decodable(cur)
             /\ pc' = "files"
             /\ UNCHANGED <<store, chain, cur, fin, meta, skew, bounds>>

\* Mutant: an error of updateFiles leaves the rest of the handler out.
UpdateFilesSkips ==
    /\ pc = "files"
    /\ \/ pc' = "orders" /\ UNCHANGED faults
       \/ faults < MaxFaults /\ faults' = faults + 1 /\ pc' = "mark"
    /\ UNCHANGED <<store, chain, cur, fin, meta, skew, crashes>>

\* updateFiles.  A failing statement ends it and the block is repeated; that the
\* statements succeed in the end is assumed.  A malformed cid, which is filtered
\* in the scan (fetch.go:251) and not here (listener.go:218), is beyond that: one
\* longer than its column would make the insertion fail at every repetition.
UpdateFiles ==
    /\ pc = "files"
    /\ \/ pc' = "orders" /\ UNCHANGED faults
       \/ faults < MaxFaults /\ faults' = faults + 1 /\ pc' = "poll"
    /\ UNCHANGED <<store, chain, cur, fin, meta, skew, crashes>>

\* Mutant: the CodeUpdated event is overlooked.
SaveFileOrdersOnly ==
    /\ pc = "orders"
    /\ orders' = IF cur \in Ordering THEN [orders EXCEPT ![cur] = @ + 1] ELSE orders
    /\ pc' = "mark"
    /\ UNCHANGED <<bn, dropped, chain, cur, fin, meta, skew, bounds>>

\* SaveFileOrders: one batch, and its error is not looked at.
SaveFileOrders ==
    /\ pc = "orders"
    /\ IF cur \in Ordering
         THEN \/ /\ orders' = [orders EXCEPT ![cur] = @ + 1]
                 /\ UNCHANGED <<dropped, faults>>
              \/ /\ faults < MaxFaults /\ faults' = faults + 1
                 /\ dropped' = dropped \cup {cur}
                 /\ UNCHANGED orders
         ELSE UNCHANGED <<orders, dropped, faults>>
    /\ pc' = IF cur \in CodeUpdates THEN "upgrade" ELSE "mark"
    /\ UNCHANGED <<bn, chain, cur, fin, meta, skew, crashes>>

\* updateMetadata: a failure is logged and forgotten.
UpdateMetadata ==
    /\ pc = "upgrade"
    /\ \/ /\ meta' = MetadataAt(cur)
          /\ skew' = {}
          /\ UNCHANGED faults
       \/ /\ faults < MaxFaults /\ faults' = faults + 1
          /\ skew' = skew \cup {"refresh"}
          /\ UNCHANGED meta
    /\ pc' = "mark"
    /\ UNCHANGED <<store, chain, cur, fin, crashes>>

\* Mutant: currentBlock is not incremented.
MarkStays ==
    /\ pc = "mark"
    /\ bn' = cur
    /\ pc' = "poll"
    /\ UNCHANGED <<orders, dropped, chain, cur, fin, meta, skew, bounds>>

\* UpdateBlockNumber: on an error the whole block is processed again.
Mark ==
    /\ pc = "mark"
    /\ \/ /\ bn' = cur /\ cur' = cur + 1
          /\ UNCHANGED <<skew, faults>>
       \/ /\ faults < MaxFaults /\ faults' = faults + 1
          /\ skew' = IF cur \in CodeUpdates THEN skew \cup {"again"} ELSE skew
          /\ UNCHANGED <<bn, cur>>
    /\ pc' = "poll"
    /\ UNCHANGED <<orders, dropped, chain, fin, meta, crashes>>

-----------------------------------------------------------------------------
Poll    == KeepHeader \/ FetchHeader \/ HeaderFails \/ Sleep \/ Take
Process == EventsFail \/ GetEvents \/ UpdateFiles \/ SaveFileOrders \/ UpdateMetadata \/ Mark
Chain   == Produce \/ Finalize \/ Import

Next == Boot \/ Crash \/ Chain \/ Poll \/ Process

Spec == Init /\ [][Next]_vars

\* The goroutine of pollBlocks runs, the chain finalizes its blocks and the
\* node follows it, a process that died is started again.
Fairness == /\ WF_vars(Produce) /\ WF_vars(Finalize) /\ WF_vars(Import)
            /\ WF_vars(Boot) /\ WF_vars(Poll) /\ WF_vars(Process)

FairSpec == Spec /\ Fairness

-----------------------------------------------------------------------------
\* Every variable keeps the type of the field or row it stands for.
TypeOK ==
    /\ bn \in Blocks \cup {0} /\ dropped \subseteq Blocks
    /\ orders \in [Blocks -> 0 .. 1 + MaxCrashes + MaxFaults]
    /\ best \in 0 .. MaxBlock /\ final \in 0 .. best /\ head \in 0 .. final
    /\ pc \in {"down", "poll", "check", "events", "files", "orders", "upgrade", "mark"}
    /\ cur \in Start .. MaxBlock + 1 /\ fin \in 0 .. MaxBlock \cup {Nil}
    /\ opaque \subseteq MayBeOpaque /\ meta \subseteq CodeUpdates
    /\ skew \subseteq {"boot", "refresh", "again"}
    /\ crashes \in 0 .. MaxCrashes /\ faults \in 0 .. MaxFaults

\* The mark moves as BlockLog promises: block after block, restarts included,
\* and never to a block that is not Confirm blocks behind the finalized head,
\* although the header is cached and compared in unsigned arithmetic.
Log == INSTANCE BlockLog WITH mark <- bn, finalized <- final
Refines == Log!Spec

\* No block is marked without its orders, unless their insertion failed.
OrdersKept ==
    \A b \in Ordering : b <= bn => orders[b] >= 1 \/ b \in dropped

\* Repeating a block (a failed mark, a restart at the mark) is the only way to
\* insert its orders twice: the surplus rows are paid for by crashes and faults.
SurplusPaid ==
    \A b \in Ordering : orders[b] <= 1 + crashes + faults

\* The orders of the blocks before the mark are final: the counts that
\* FileOrdersBySlot publishes for a slot behind the mark never change again.
OrdersFrozen ==
    [][\A b \in Blocks : b < bn => orders'[b] = orders[b]]_vars

\* The events of a block are decoded with the metadata of the runtime that
\* encoded them, unless the process was started across an upgrade, a refresh
\* failed, or an upgrade block is processed a second time.
MetadataFresh == pc = "events" /\ skew = {} => meta = RuntimeOf(cur)

\* "Number of file orders  by slot" (the help text of FileOrdersBySlot): the rows
\* that are counted are the orders, each of them once.
OrdersCountedOnce == \A b \in Ordering : orders[b] <= 1

\* "Sleep if the block we want comes after the most recently finalized block"
\* (comment in pollBlocks): a block that is far enough behind the finalized head
\* of the node is not slept on for ever.
ReadyBlockTaken ==
    \A b \in Blocks : (cur = b /\ head >= b + Confirm) ~> (bn >= b)

\* The listener reaches the block Confirm behind the end of the chain, or stands
\* still for one of three reasons: the wrapped difference keeps a header behind
\* currentBlock in use, or it has no metadata to decode the block with, or the
\* block holds an extrinsic of a shape that the decoders do not know.  Statements
\* succeed in the end (see UpdateFiles).
Frozen == pc # "down" /\ fin # Nil /\ fin < cur /\ ~NeedHeader
Undecodable == pc # "down" /\ cur <= MaxBlock - Confirm /\ ~Decodable(cur)

CatchesUp == <>[](bn >= MaxBlock - Confirm \/ Frozen \/ Undecodable)
=============================================================================
