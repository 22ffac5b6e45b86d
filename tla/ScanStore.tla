----------------------------- MODULE ScanStore -----------------------------
(***************************************************************************)
(* The savers of several segments write to file_info, replica and          *)
(* error_file at the same time: saveKeys of src/chain/fetch.go with        *)
(* SaveFiles, InsertFiles and SaveError of src/db/fileInfo.go, one         *)
(* statement per step.  A cid ordered in two segments is saved by both.    *)
(* FileSync runs these steps before the listener's, in the same process.   *)
(***************************************************************************)
EXTENDS FileTable

CONSTANTS
    Gone,         \* the file is not on the chain
    Savers,       \* segments being scanned
    Files,        \* Files[s]: cids ordered in the segment s
    RetryCnt,     \* attempts at saving a file (5 in the code)
    MaxFaults     \* bound: failing statements

\* FileSync states the assumptions about these constants.

VARIABLES
    first,                  \* the chain at the init block: cid -> version or Gone
    pc, todo, cid, retry,   \* per saver: position, files left, file at hand
    errored,                \* MySQL: the cids of error_file
    damaged,                \* history: cids hit by a failure nobody repairs
    faults

local == <<pc, todo, cid, retry>>

\* GetFilesInfoV2ListWithCids at the init block: files closed by then are not found.
Found(s) == {c \in Files[s] : first[c] # Gone}

Init ==
    /\ pc = [s \in Savers |-> "pick"] /\ todo = [s \in Savers |-> Found(s)]
    /\ cid = [s \in Savers |-> CHOOSE c \in Cids : TRUE]
    /\ retry = [s \in Savers |-> RetryCnt]
    /\ errored = {}

-----------------------------------------------------------------------------
Goto(s, stage) == pc' = [pc EXCEPT ![s] = stage]
Is(s, stage) == pc[s] = stage

\* saveKeys takes the next file.
Pick(s) ==
    /\ Is(s, "pick") /\ todo[s] # {}
    /\ \E c \in todo[s] : /\ cid' = [cid EXCEPT ![s] = c]
                          /\ todo' = [todo EXCEPT ![s] = @ \ {c}]
    /\ retry' = [retry EXCEPT ![s] = RetryCnt]
    /\ Goto(s, "query")
    /\ UNCHANGED <<tables, first, errored, damaged, faults>>

\* SaveFiles(dbFile, false): a file that has a row is not touched.
Query(s) ==
    /\ Is(s, "query")
    /\ Goto(s, IF Exists(cid[s]) THEN "pick" ELSE "create")
    /\ UNCHANGED <<tables, todo, cid, retry, first, errored, damaged, faults>>

\* InsertFiles: the unique index rejects the second of two rows (error 1062),
\* which is taken for success.
Create(s) ==
    /\ Is(s, "create")
    /\ IF Exists(cid[s])
         THEN Goto(s, "pick") /\ UNCHANGED tables
         ELSE Goto(s, "insert") /\ CreateRow(cid[s], first[cid[s]])
    /\ UNCHANGED <<todo, cid, retry, first, errored, damaged, faults>>

Insert(s) ==
    /\ Is(s, "insert")
    /\ InsertReplicas(IdOf(cid[s]), first[cid[s]])
    /\ Goto(s, "pick")
    /\ UNCHANGED <<todo, cid, retry, first, errored, damaged, faults>>

\* The cid whose replicas are lost when saver s does not get to Insert now.
TornBy(s) == {c \in {cid[s]} : Is(s, "insert") /\ Torn(c, first[c])}

\* A driver error of Create is not noticed: the replicas get no file.
CreateLost(s) ==
    /\ Is(s, "create") /\ faults < MaxFaults
    /\ faults' = faults + 1
    /\ InsertOrphans(first[cid[s]])
    /\ damaged' = damaged \cup {cid[s]}
    /\ Goto(s, "pick")
    /\ UNCHANGED <<todo, cid, retry, first, errored>>

\* Mutant: a file is passed over when its attempts are used up.
FailForgotten(s) ==
    /\ Is(s, "query") \/ Is(s, "create") \/ Is(s, "insert")
    /\ faults < MaxFaults
    /\ faults' = faults + 1
    /\ damaged' = damaged \cup TornBy(s)
    /\ retry' = [retry EXCEPT ![s] = IF @ = 0 THEN 0 ELSE @ - 1]
    /\ Goto(s, IF retry[s] > 1 THEN "query" ELSE "pick")
    /\ UNCHANGED <<tables, todo, cid, first, errored>>

\* Any other error: SaveFiles is called again, RetryCnt times in all.  A row
\* whose replicas were not inserted is found by the next call and left so.
Fail(s) ==
    /\ Is(s, "query") \/ Is(s, "create") \/ Is(s, "insert")
    /\ faults < MaxFaults
    /\ faults' = faults + 1
    /\ damaged' = damaged \cup TornBy(s)
    /\ retry' = [retry EXCEPT ![s] = IF @ = 0 THEN 0 ELSE @ - 1]
    /\ Goto(s, IF retry[s] > 1 THEN "query" ELSE "error")
    /\ UNCHANGED <<tables, todo, cid, first, errored>>

\* SaveError: a server error goes back to SaveFiles, a driver error is not
\* reported and the file is in neither table.
SaveError(s) ==
    /\ Is(s, "error")
    /\ \/ /\ errored' = errored \cup {cid[s]}
          /\ Goto(s, "pick")
          /\ UNCHANGED <<damaged, faults>>
       \/ /\ faults < MaxFaults /\ faults' = faults + 1
          /\ \/ Goto(s, "query") /\ UNCHANGED damaged
             \/ Goto(s, "pick") /\ damaged' = damaged \cup {cid[s]}
          /\ UNCHANGED errored
    /\ UNCHANGED <<tables, todo, cid, retry, first>>

\* A restarted segment goes back to its checkpoint: to files not settled yet
\* and to none, some or all of the others (SegFetcher).
Restart ==
    LET left(s) == todo[s] \cup (IF Is(s, "pick") THEN {} ELSE {cid[s]})
    IN  /\ todo' \in {t \in [Savers -> SUBSET Cids] :
                        \A s \in Savers : t[s] \subseteq Found(s) /\ left(s) \subseteq t[s]}
        /\ pc' = [s \in Savers |-> "pick"]
        /\ UNCHANGED <<first, cid, retry, errored>>

AllSaved == \A s \in Savers : Is(s, "pick") /\ todo[s] = {}

Saver(s) == \/ Pick(s) \/ Query(s) \/ Create(s) \/ Insert(s)
            \/ CreateLost(s) \/ Fail(s) \/ SaveError(s)
=============================================================================
