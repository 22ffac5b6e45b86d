------------------------------ MODULE FileSync ------------------------------
(***************************************************************************)
(* How file_info and replica are filled by the scan of the history and     *)
(* then kept in step with the chain by the listener: the savers of         *)
(* ScanStore until all are done, then handleEvents and updateFiles of      *)
(* src/chain/listener.go, the handlers of src/chain/handlers.go and their  *)
(* statements in src/db/fileInfo.go, one statement per step.  A statement  *)
(* of the listener that fails sends the whole block round again; a crash   *)
(* sends it back to the block of its mark, or to the scan when there is    *)
(* none yet.                                                               *)
(*                                                                         *)
(* The chain is made up as it is read: what a block does to a cid is its   *)
(* set of event kinds and the version the file has afterwards.  Kinds:     *)
(*   renew   RenewFileSuccess                                              *)
(*   report  the reports and Spower updates, whose cids all become         *)
(*           UpdateRep                                                     *)
(*   order   FileSuccess                                                   *)
(*   close   FileClosed, IllegalFileClosed                                 *)
(* Block numbers count from the init block.                                *)
(***************************************************************************)
EXTENDS FileTable, FiniteSets

CONSTANTS
    Gone,         \* the file is not on the chain
    Versions,     \* contents of files, 0 among them
    Savers, Files, RetryCnt,   \* the scan, see ScanStore
    MaxBlock,     \* bound: length of the chain
    MaxCrashes,   \* bound: process deaths
    MaxFaults     \* bound: failing statements

ASSUME SyncAssumption ==
    /\ 0 \in Versions /\ Versions \subseteq Nat /\ Gone \notin Versions
    /\ NoFile \notin [id : Nat, ver : Versions]
    /\ Files \in [Savers -> SUBSET Cids] /\ RetryCnt \in Nat \ {0}
    /\ MaxBlock \in Nat /\ MaxCrashes \in Nat /\ MaxFaults \in Nat

VARIABLES
    first,       \* the chain at the init block: cid -> version or Gone
    hist,        \* the blocks read so far: cid -> [ev, after]
    bn, cur,     \* the mark in MySQL, currentBlock
    pc, todo,    \* position in updateFiles, cids still to be handled
    cid, op,     \* the cid at hand and its operation
    sPc, sTodo, sCid, sRetry, errored,   \* the savers, see ScanStore
    diverged,    \* history: cids whose rows are known to differ from the chain
    crashes, faults

Scan == INSTANCE ScanStore WITH
            pc <- sPc, todo <- sTodo, cid <- sCid, retry <- sRetry, damaged <- diverged

bounds == <<crashes, faults>>
log    == <<first, hist, bn, cur>>
scan   == <<sPc, sTodo, sCid, sRetry, errored>>
vars   == <<tables, log, scan, pc, todo, cid, op, diverged, bounds>>

Kinds == {"renew", "report", "order", "close"}
Stages == {"query", "create", "insert", "clear", "update", "delete"}

\* The version of c after block b.
At(c, b) == IF b = 0 THEN first[c] ELSE hist[b][c].after

\* What the market pallet can do to a file in one block.
Legal(before, ev, after) ==
    /\ ev = {} => after = before
    /\ before = Gone /\ "order" \notin ev => ev \subseteq {"report"} /\ after = Gone
    /\ "close" \in ev => after \in {Gone} \cup (IF "order" \in ev THEN {0} ELSE {})
    /\ "order" \in ev /\ "close" \notin ev => after # Gone
    /\ "close" \notin ev /\ "report" \notin ev =>
         after = IF before = Gone /\ "order" \in ev THEN 0 ELSE before
    /\ "close" \notin ev /\ before # Gone => after # Gone

\* Mutant: a renewal overrides the reports of the same block.
OpOfRenewal(ev) ==
    CASE "close" \in ev -> "Delete"
      [] "close" \notin ev /\ "order" \in ev -> "New"
      [] {"close", "order"} \cap ev = {} /\ "renew" \in ev -> "UpdateBase"
      [] {"close", "order", "renew"} \cap ev = {} /\ "report" \in ev -> "UpdateRep"
      [] OTHER -> "None"

\* handleEvents: a later category overrides an earlier one, whatever the order
\* of the events in the block.
OpOf(ev) ==
    CASE "close"  \in ev -> "Delete"
      [] "close"  \notin ev /\ "order" \in ev -> "New"
      [] {"close", "order"} \cap ev = {} /\ "report" \in ev -> "UpdateRep"
      [] {"close", "order", "report"} \cap ev = {} /\ "renew" \in ev -> "UpdateBase"
      [] OTHER -> "None"

\* updateFiles looks the version up in the storage at the block's hash.
After(c) == At(c, cur)
Todo == {c \in Cids : CASE OpOf(hist[cur][c].ev) = "Delete" -> TRUE
                        [] OpOf(hist[cur][c].ev) = "None" -> FALSE
                        [] OTHER -> After(c) # Gone}

\* NewChain with empty tables: no mark, the scan comes first.  A file of the
\* init block has been ordered in one of the segments.
Init ==
    /\ first \in [Cids -> Versions \cup {Gone}]
    /\ \A c \in Cids : first[c] # Gone => \E s \in Savers : c \in Files[s]
    /\ file = [c \in Cids |-> NoFile] /\ replica = <<>> /\ orphan = <<>>
    /\ Scan!Init /\ diverged = {}
    /\ hist = <<>> /\ bn = 0 /\ cur = 1
    /\ pc = "scan" /\ todo = {} /\ cid \in Cids /\ op = "None"
    /\ crashes = 0 /\ faults = 0

-----------------------------------------------------------------------------
\* A step of one of the savers.
ScanStep(s) ==
    /\ pc = "scan"
    /\ Scan!Saver(s)
    /\ UNCHANGED <<hist, bn, cur, pc, todo, cid, op, crashes>>

\* completeCh is closed: the listener begins behind the init block.  A file that
\* the scan gave up stays without its row until an event rewrites it.
Handover ==
    /\ pc = "scan" /\ Scan!AllSaved
    /\ pc' = "idle" /\ cur' = 1
    /\ diverged' = diverged \cup {c \in errored : ~Exists(c)}
    /\ UNCHANGED <<tables, first, hist, bn, scan, todo, cid, op, bounds>>

\* A block that no process has read before.
NewBlock ==
    /\ pc = "idle" /\ cur <= MaxBlock /\ cur = Len(hist) + 1
    /\ \E ev \in [Cids -> SUBSET Kinds], after \in [Cids -> Versions \cup {Gone}] :
         /\ \A c \in Cids : Legal(At(c, cur - 1), ev[c], after[c])
         /\ hist' = Append(hist, [c \in Cids |-> [ev |-> ev[c], after |-> after[c]]])
    /\ UNCHANGED <<tables, first, bn, cur, scan, pc, todo, cid, op, diverged, bounds>>

\* handleEvents up to the loop of updateFiles, for a block read now or before.
Classify ==
    /\ pc = "idle" /\ cur <= Len(hist)
    /\ todo' = Todo
    /\ pc' = IF todo' = {} THEN "mark" ELSE "pick"
    /\ UNCHANGED <<tables, log, scan, cid, op, diverged, bounds>>

\* The loop ranges over a map: any order of the cids.  A file that is renewed
\* and reported in one block keeps its old replicas when its row exists, and a
\* file ordered again behind its closing loses its row.
Pick(c) ==
    /\ pc = "pick" /\ c \in todo
    /\ cid' = c /\ op' = OpOf(hist[cur][c].ev)
    /\ todo' = todo \ {c}
    /\ pc' = IF op' = "UpdateBase" THEN "update" ELSE "query"
    /\ diverged' = IF \/ op' = "New" /\ Exists(c) /\ "report" \in hist[cur][c].ev
                      \/ op' = "Delete" /\ After(c) # Gone
                   THEN diverged \cup {c} ELSE diverged
    /\ UNCHANGED <<tables, log, scan, bounds>>

Leave == /\ pc' = IF todo = {} THEN "mark" ELSE "pick"
         /\ UNCHANGED <<log, scan, todo, cid, op, bounds>>

Continue(stage) == pc' = stage /\ UNCHANGED <<log, scan, todo, cid, op, bounds>>

\* QueryFileByCid, at the head of SaveFiles, UpdateReplicas and DeleteByCid.
Query ==
    /\ pc = "query" /\ UNCHANGED <<tables, diverged>>
    /\ \/ op = "New"       /\ Exists(cid)  /\ Continue("update")
       \/ op = "New"       /\ ~Exists(cid) /\ Continue("create")
       \/ op = "UpdateRep" /\ Exists(cid)  /\ Continue("clear")
       \/ op = "UpdateRep" /\ ~Exists(cid) /\ Continue("create")
       \/ op = "Delete"    /\ Exists(cid)  /\ Continue("clear")
       \/ op = "Delete"    /\ ~Exists(cid) /\ Leave

\* InsertFiles inserts the replicas next, UpdateReplicas clears them first.
Create ==
    /\ pc = "create"
    /\ CreateRow(cid, After(cid))
    /\ Continue(IF op = "New" THEN "insert" ELSE "clear")
    /\ UNCHANGED diverged

Insert ==
    /\ pc = "insert"
    /\ InsertReplicas(IdOf(cid), After(cid))
    /\ IF op = "New" THEN Leave ELSE Continue("update")
    /\ UNCHANGED diverged

\* Mutant: the old replicas are left in the table.
ClearSkipped ==
    /\ pc = "clear"
    /\ UNCHANGED tables
    /\ Continue(IF op = "Delete" THEN "delete" ELSE "insert")
    /\ UNCHANGED diverged

Clear ==
    /\ pc = "clear"
    /\ DeleteReplicas(IdOf(cid))
    /\ Continue(IF op = "Delete" THEN "delete" ELSE "insert")
    /\ UNCHANGED diverged

\* UpdateFile passes over a count that is 0: a file that has lost its last
\* replica keeps the old one.
Update ==
    /\ pc = "update"
    /\ UpdateFile(cid, After(cid))
    /\ Leave
    /\ diverged' = IF Exists(cid) /\ After(cid) = 0 /\ file[cid].ver # 0
                   THEN diverged \cup {cid} ELSE diverged

Delete ==
    /\ pc = "delete"
    /\ DeleteRow(cid)
    /\ Leave
    /\ UNCHANGED diverged

\* A row whose replicas are not inserted is not repaired by a repetition:
\* SaveFiles finds the row and only updates it.
TornInsert == {c \in {cid} : pc = "insert" /\ op = "New" /\ Torn(c, After(c))}

\* An error of a statement ends handleEvents; pollBlocks repeats the block.
Fail ==
    /\ pc \in Stages /\ faults < MaxFaults
    /\ faults' = faults + 1
    /\ pc' = "idle"
    /\ diverged' = diverged \cup TornInsert
    /\ UNCHANGED <<tables, log, scan, todo, cid, op, crashes>>

\* A driver error of Create (not a *mysql.MySQLError) is not an error for
\* InsertFiles, which goes on with the replicas of a file without a row.
CreateLost ==
    /\ pc = "create" /\ op = "New" /\ faults < MaxFaults
    /\ faults' = faults + 1
    /\ InsertOrphans(After(cid))
    /\ diverged' = diverged \cup {cid}
    /\ pc' = IF todo = {} THEN "mark" ELSE "pick"
    /\ UNCHANGED <<log, scan, todo, cid, op, crashes>>

\* UpdateBlockNumber; on an error the block is repeated.  What an operation
\* rewrote from scratch agrees with the chain again, unless the count it should
\* have written is 0.
Rewritten == {c \in Cids :
                 \/ OpOf(hist[cur][c].ev) = "UpdateRep" /\ After(c) \notin {Gone, 0}
                 \/ OpOf(hist[cur][c].ev) = "Delete" /\ After(c) = Gone}

Mark ==
    /\ pc = "mark"
    /\ \/ /\ bn' = cur /\ cur' = cur + 1
          /\ diverged' = diverged \ Rewritten
          /\ UNCHANGED faults
       \/ /\ faults < MaxFaults /\ faults' = faults + 1
          /\ UNCHANGED <<bn, cur, diverged>>
    /\ pc' = "idle"
    /\ UNCHANGED <<tables, first, hist, scan, todo, cid, op, crashes>>

Crash ==
    /\ pc # "down" /\ crashes < MaxCrashes
    /\ crashes' = crashes + 1
    /\ pc' = "down"
    /\ diverged' = diverged \cup (IF pc = "scan" THEN UNION {Scan!TornBy(s) : s \in Savers} ELSE TornInsert)
    /\ UNCHANGED <<tables, log, scan, todo, cid, op, faults>>

\* NewChain goes by the mark: without one the segments look at their
\* checkpoints again, even if the listener has begun with the first block.
Boot ==
    /\ pc = "down"
    /\ \/ bn = 0 /\ pc' = "scan" /\ Scan!Restart /\ UNCHANGED cur
       \/ bn > 0 /\ pc' = "idle" /\ cur' = bn /\ UNCHANGED <<first, scan>>
    /\ UNCHANGED <<tables, first, hist, bn, todo, cid, op, diverged, bounds>>

\* The listener waits for the next block.
UpToDate == pc = "idle" /\ cur > MaxBlock /\ UNCHANGED vars

Statement == Query \/ Create \/ Insert \/ Clear \/ Update \/ Delete

Next == \/ (\E s \in Savers : ScanStep(s)) \/ Handover
        \/ NewBlock \/ Classify \/ (\E c \in Cids : Pick(c))
        \/ Statement \/ Fail \/ CreateLost
        \/ Mark \/ Crash \/ Boot \/ UpToDate

Spec == Init /\ [][Next]_vars

-----------------------------------------------------------------------------
\* Every variable keeps the type of the row or variable it stands for.
TypeOK ==
    /\ \A c \in Cids : Exists(c) => file[c].id \in DOMAIN replica /\ file[c].ver \in Versions
    /\ \A i \in DOMAIN replica : replica[i] \in Seq(Versions \ {0})
    /\ orphan \in Seq(Versions \ {0})
    /\ bn \in 0 .. MaxBlock /\ cur \in 1 .. MaxBlock + 1 /\ Len(hist) <= MaxBlock
    /\ pc \in Stages \cup {"down", "scan", "idle", "pick", "mark"}
    /\ sTodo \in [Savers -> SUBSET Cids] /\ sCid \in [Savers -> Cids] /\ errored \subseteq Cids
    /\ sPc \in [Savers -> {"pick", "query", "create", "insert", "error"}]
    /\ sRetry \in [Savers -> 0 .. RetryCnt]
    /\ todo \subseteq Cids /\ cid \in Cids /\ diverged \subseteq Cids
    /\ op \in {"None", "New", "UpdateBase", "UpdateRep", "Delete"}

\* No replica has a file that is gone, and no file has two sets of them.
Owned ==
    \A i \in DOMAIN replica :
        /\ Len(replica[i]) <= 1
        /\ replica[i] # <<>> => \E c \in Cids : Exists(c) /\ IdOf(c) = i

\* Although nothing is atomic, no meeting of two savers on one cid and no order
\* of failures, crashes, repetitions of a block and second scans leaves replicas
\* of a deleted file or doubles those of a file.  The exception is the file_id 0
\* of InsertFiles (fileInfo.go:71-84): a driver error of Create that is taken
\* for success leaves one batch of replicas that belongs to no file and that
\* nothing removes, one for each such error and none otherwise.
ReplicasOwned == Owned /\ Len(orphan) <= faults

\* When the scan is over, every file of the init block is in error_file, or has
\* its row and its replicas, except where an insert was torn between its two
\* statements or a driver error was taken for success.
ScanStored ==
    pc = "scan" /\ Scan!AllSaved /\ hist = <<>> =>
        \A c \in UNION {Scan!Found(s) : s \in Savers} :
            c \in errored \cup diverged \/ Agrees(c, first[c])

\* When the newest block is marked, the rows of every file say what the chain
\* says, the count of replicas in the file's row included, unless the divergence
\* has one of the known causes: an insert torn between its two statements, a
\* driver error taken for success, a file given up by the scan, two kinds of
\* events for one file in one block, or a file that lost its last replica and
\* keeps the old count until replicas are reported again (fileInfo.go:91).
Mirror ==
    pc = "idle" /\ cur = bn + 1 /\ bn = Len(hist) =>
        \A c \in Cids \ diverged :
            IF At(c, bn) = Gone THEN ~Exists(c) ELSE Agrees(c, At(c, bn))

\* "return MysqlDb.Transaction(...)": the row of a new file and its replicas are
\* inserted together or not at all.
InsertAtomic ==
    [][pc = "insert" /\ op = "New" /\ pc' \in {"idle", "down"} =>
         ~Torn(cid, After(cid))]_vars
=============================================================================
