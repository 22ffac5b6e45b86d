----------------------------- MODULE FileTable -----------------------------
(***************************************************************************)
(* The tables file_info and replica as the statements of                   *)
(* src/db/fileInfo.go see them.  Every statement runs on the shared handle *)
(* (MysqlDb), also inside MysqlDb.Transaction, and so commits by itself.   *)
(*                                                                         *)
(* The contents of a file on the chain are a version: 0 stands for a file  *)
(* without replicas, any other number for a set of replicas.               *)
(***************************************************************************)
EXTENDS Integers, Sequences

CONSTANTS Cids, NoFile

VARIABLES
    file,      \* file[c]: NoFile, or the row [id, ver] of cid c
    replica,   \* replica[i]: the batches of replica rows with file_id = i
    orphan     \* batches of replica rows with file_id = 0

tables == <<file, replica, orphan>>

Exists(c) == file[c] # NoFile
IdOf(c)   == file[c].id

\* MysqlDb.Create(info): the key is AUTO_INCREMENT, cid is unique.
CreateRow(c, v) ==
    /\ file' = [file EXCEPT ![c] = [id |-> Len(replica) + 1, ver |-> v]]
    /\ replica' = Append(replica, <<>>)
    /\ UNCHANGED orphan

\* Mutant: an empty slice leaves a row behind.
InsertReplicasAlways(i, v) ==
    /\ replica' = [replica EXCEPT ![i] = Append(@, v)]
    /\ UNCHANGED <<file, orphan>>

\* CreateInBatches(&info.Replicas): one INSERT, none for an empty slice.
InsertReplicas(i, v) ==
    /\ replica' = IF v = 0 THEN replica ELSE [replica EXCEPT ![i] = Append(@, v)]
    /\ UNCHANGED <<file, orphan>>

\* InsertFiles goes on after a driver error of Create, with info.ID = 0.
InsertOrphans(v) ==
    /\ orphan' = IF v = 0 THEN orphan ELSE Append(orphan, v)
    /\ UNCHANGED <<file, replica>>

DeleteReplicas(i) ==
    /\ replica' = [replica EXCEPT ![i] = <<>>]
    /\ UNCHANGED <<file, orphan>>

\* UpdateFile: Updates(struct) leaves columns alone whose new value is zero,
\* reported_replica_cnt among them, and a cid without row as it is.
UpdateFile(c, v) ==
    /\ file' = IF Exists(c) /\ v # 0 THEN [file EXCEPT ![c].ver = v] ELSE file
    /\ UNCHANGED <<replica, orphan>>

DeleteRow(c) ==
    /\ file' = [file EXCEPT ![c] = NoFile]
    /\ UNCHANGED <<replica, orphan>>

-----------------------------------------------------------------------------
Batches(v) == IF v = 0 THEN <<>> ELSE <<v>>

\* A row without the replicas it was inserted with.
Torn(c, v) == Exists(c) /\ replica[IdOf(c)] # Batches(v)

\* The rows of a file say what the chain says, the number of replicas in the
\* file's own row included.
Agrees(c, v) ==
    /\ Exists(c)
    /\ replica[IdOf(c)] = Batches(v)
    /\ file[c].ver = v
=============================================================================
