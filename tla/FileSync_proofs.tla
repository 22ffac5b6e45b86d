--------------------------- MODULE FileSync_proofs ---------------------------
(***************************************************************************)
(* Proofs about the tables of the files, for any number of files, savers,  *)
(* blocks, crashes and failing statements.                                 *)
(***************************************************************************)
EXTENDS FileSync, TLAPS

USE SyncAssumption

-----------------------------------------------------------------------------
Rows == [id : Nat, ver : Versions]

\* The two tables fit together: every replica has its file, and no two files
\* share an id.
Tables ==
    /\ file \in [Cids -> Rows \cup {NoFile}]
    /\ replica \in Seq(Seq(Versions \ {0})) /\ orphan \in Seq(Versions \ {0})
    /\ \A c \in Cids : Exists(c) => IdOf(c) \in DOMAIN replica
    /\ \A c, d \in Cids : Exists(c) /\ Exists(d) /\ IdOf(c) = IdOf(d) => c = d
    /\ Owned

\* The chain read so far is one that can be.
Block == [Cids -> [ev : SUBSET Kinds, after : Versions \cup {Gone}]]

Chain ==
    /\ first \in [Cids -> Versions \cup {Gone}] /\ hist \in Seq(Block)
    /\ \A c \in Cids : first[c] # Gone => \E s \in Savers : c \in Files[s]
    /\ \A k \in 1 .. Len(hist), c \in Cids : Legal(At(c, k - 1), hist[k][c].ev, At(c, k))

Busy == Stages \cup {"pick", "mark"}

\* A process is one block behind the mark, at most.
Position ==
    /\ bn <= Len(hist) /\ Len(hist) <= bn + 1
    /\ pc \in Busy \cup {"idle"} => cur \in {bn, bn + 1} /\ cur <= Len(hist) + 1
    /\ pc \in Busy => cur <= Len(hist)
    /\ pc = "scan" => bn = 0

Bare(c) == Exists(c) /\ replica[IdOf(c)] = <<>>

\* What the listener is about to do to the file at hand, and to which row.
Work ==
    /\ pc \in Busy => todo \subseteq Todo
    /\ pc = "mark" => todo = {}
    /\ pc \in Stages => cid \in Todo \ todo /\ op = OpOf(hist[cur][cid].ev)
    /\ pc = "query"  => op \in {"New", "UpdateRep", "Delete"}
    /\ pc = "create" => op \in {"New", "UpdateRep"} /\ ~Exists(cid)
    /\ pc = "insert" => op \in {"New", "UpdateRep"} /\ Bare(cid)
    /\ pc = "clear"  => op \in {"UpdateRep", "Delete"} /\ Exists(cid)
    /\ pc = "update" => op \in {"New", "UpdateRep", "UpdateBase"}
    /\ pc = "update" /\ op = "New" => Exists(cid)
    /\ pc = "update" /\ op = "UpdateRep" =>
         Exists(cid) /\ replica[IdOf(cid)] = Batches(After(cid))
    /\ pc = "delete" => op = "Delete" /\ Bare(cid)

\* Of two savers at one cid only one gets to insert its replicas.
Saving ==
    /\ \A s \in Savers : /\ sTodo[s] \subseteq Scan!Found(s)
                         /\ sPc[s] # "pick" => sCid[s] \in Scan!Found(s)
    /\ pc = "scan" =>
         /\ \A s \in Savers : sPc[s] = "insert" =>
              Bare(sCid[s]) /\ file[sCid[s]].ver = first[sCid[s]]
         /\ \A s, t \in Savers :
              sPc[s] = "insert" /\ sPc[t] = "insert" /\ sCid[s] = sCid[t] => s = t

TablesInv == TypeOK /\ Tables /\ Chain /\ Position /\ Work /\ Saving

-----------------------------------------------------------------------------
\* The row of c says v.
Row(c, v) == IF v = Gone THEN ~Exists(c) ELSE Agrees(c, v)

\* Block k writes the rows of c from scratch: what it leaves is right, or known
\* not to be.
Fixes(c, k) == \/ OpOf(hist[k][c].ev) = "UpdateRep" /\ At(c, k) # Gone
               \/ OpOf(hist[k][c].ev) = "Delete" /\ At(c, k) = Gone

\* Block k makes the rows of c right, whatever they were.
Rewrites(c, k) == \/ OpOf(hist[k][c].ev) = "UpdateRep" /\ At(c, k) \notin {Gone, 0}
                  \/ OpOf(hist[k][c].ev) = "Delete" /\ At(c, k) = Gone

\* Block k cannot be told from its events alone.
Blurred(c, k) == \/ OpOf(hist[k][c].ev) = "Delete" /\ At(c, k) # Gone
                 \/ /\ OpOf(hist[k][c].ev) = "New" /\ "report" \in hist[k][c].ev
                    /\ At(c, k - 1) # Gone

\* The rows of c agree with block b, or they will once the blocks behind it
\* have been handled, some of them for a second time.
Right(c, b) ==
    \/ Row(c, At(c, b))
    \/ \E k \in b + 1 .. Len(hist) : Fixes(c, k)
    \/ \E k \in b + 1 .. Len(hist) :
         OpOf(hist[k][c].ev) = "New" /\ At(c, k - 1) = Gone /\ Row(c, At(c, k))

FixedBehind(c, b) == b < Len(hist) /\ Fixes(c, b + 1)

Handled(c) == c \notin todo /\ (pc \in Stages => c # cid)

\* The file of an insert that is between its two statements.
Halfway(c) == \/ pc = "insert" /\ op = "New" /\ c = cid
              \/ pc = "scan" /\ \E s \in Savers : sPc[s] = "insert" /\ c = sCid[s]

\* A file the scan has yet to save, or has given up.
Unsaved(c) ==
    /\ ~Exists(c)
    /\ \/ c \in errored
       \/ \E s \in Savers : c \in sTodo[s] \/ (sPc[s] # "pick" /\ c = sCid[s])

Scanned ==
    pc = "scan" \/ (pc = "down" /\ bn = 0) =>
        \A c \in Cids \ diverged : Right(c, 0) \/ Unsaved(c) \/ Halfway(c)

\* Before the block at hand, and where a restart will begin.
Behind ==
    \A c \in Cids \ diverged, b \in 0 .. MaxBlock :
        /\ pc = "down" /\ b = bn - 1 => Right(c, b)
        /\ pc \in Busy \cup {"idle"} /\ b = cur - 1 =>
             (pc \in Busy /\ Handled(c)) \/ Right(c, b) \/ Halfway(c)

\* Behind it.
Handling ==
    \A c \in Cids, k \in 1 .. MaxBlock :
        pc \in Busy /\ k = cur /\ Handled(c) /\ (c \in diverged => Rewrites(c, k)) => Right(c, k)

\* What is known about the file at hand.
Hand ==
    \A c \in Cids \ diverged, k \in 1 .. MaxBlock :
        pc \in Stages /\ c = cid /\ k = cur =>
            /\ pc = "insert" /\ op = "New" => /\ file[c].ver = At(c, k)
                                              /\ At(c, k - 1) = Gone \/ FixedBehind(c, k)
            /\ pc \in {"query", "update"} /\ op = "New" /\ Exists(c) => "report" \notin hist[k][c].ev
            /\ op = "Delete" => At(c, k) = Gone

\* A block that is blurred is known to be, or a later one mends it.
Known ==
    \A c \in Cids \ diverged, k \in 1 .. MaxBlock :
        k = bn \/ (pc \in Busy /\ k = cur /\ Handled(c)) => (Blurred(c, k) => FixedBehind(c, k))

RowsInv == Scanned /\ Behind /\ Handling /\ Hand /\ Known

-----------------------------------------------------------------------------
(***************************************************************************)
(* The statements.                                                         *)
(***************************************************************************)
\* A statement leaves the rows of d alone.
SameRow(d) == file'[d] = file[d] /\ (Exists(d) => replica'[IdOf(d)] = replica[IdOf(d)])

\* The row of a file and its replicas.
LEMMA RowIsRow ==
    ASSUME Tables, NEW c \in Cids, Exists(c)
    PROVE  /\ file[c] \in Rows /\ IdOf(c) \in 1 .. Len(replica) /\ IdOf(c) \in DOMAIN replica
           /\ replica[IdOf(c)] \in Seq(Versions \ {0}) /\ Len(replica[IdOf(c)]) <= 1
  <1>1. file[c] \in Rows
    BY DEF Tables, Exists
  <1>2. IdOf(c) \in DOMAIN replica /\ DOMAIN replica = 1 .. Len(replica)
    BY DEF Tables
  <1>3. replica[IdOf(c)] \in Seq(Versions \ {0})
    BY <1>2 DEF Tables
  <1>4. Len(replica[IdOf(c)]) <= 1
    BY <1>2 DEF Tables, Owned
  <1> QED BY <1>1, <1>2, <1>3, <1>4

\* INSERT of a new file: its row is there, without replicas.
LEMMA Created ==
    ASSUME Tables, NEW c \in Cids, ~Exists(c), NEW v \in Versions, CreateRow(c, v)
    PROVE  /\ Tables' /\ Bare(c)' /\ file'[c].ver = v
           /\ \A d \in Cids \ {c} : SameRow(d)
  <1> DEFINE S == Seq(Versions \ {0})
             n == Len(replica) + 1
  <1>1. replica \in Seq(S) /\ Len(replica) \in Nat /\ <<>> \in S
    BY DEF Tables
  <1>2. replica' = Append(replica, <<>>) /\ orphan' = orphan
    BY DEF CreateRow
  <1>3. /\ replica' \in Seq(S) /\ DOMAIN replica' = 1 .. n /\ DOMAIN replica = 1 .. n - 1
        /\ replica'[n] = <<>> /\ \A i \in 1 .. n - 1 : replica'[i] = replica[i]
    <2> HIDE DEF S
    <2> QED BY <1>1, <1>2
  <1>4. n \in Nat \ {0}
    BY <1>1
  <1>5. file' = [file EXCEPT ![c] = [id |-> n, ver |-> v]] /\ file \in [Cids -> Rows \cup {NoFile}]
    BY DEF CreateRow, Tables
  <1> HIDE DEF n
  <1>6. file' \in [Cids -> Rows \cup {NoFile}] /\ file'[c] = [id |-> n, ver |-> v]
        /\ \A d \in Cids \ {c} : file'[d] = file[d]
    BY <1>4, <1>5 DEF Rows
  <1>7. Exists(c)' /\ file'[c].id = n /\ file'[c].ver = v
    BY <1>4, <1>6 DEF Exists
  <1>8. \A d \in Cids : Exists(d) => IdOf(d) \in 1 .. n - 1
    BY <1>3 DEF Tables
  <1>9. \A d \in Cids \ {c} : Exists(d)' = Exists(d) /\ IdOf(d)' = IdOf(d) /\ SameRow(d)
    BY <1>3, <1>6, <1>8 DEF Exists, IdOf, SameRow
  <1>10. Bare(c)' /\ IdOf(c)' = n
    BY <1>3, <1>4, <1>7 DEF Bare, IdOf
  <1>11. \A d \in Cids : Exists(d)' => IdOf(d)' \in DOMAIN replica'
    <2> SUFFICES ASSUME NEW d \in Cids, Exists(d)' PROVE IdOf(d)' \in 1 .. n
      BY <1>3
    <2>1. CASE d = c
      BY <1>4, <1>10, <2>1
    <2>2. CASE d # c
      BY <1>4, <1>8, <1>9, <2>2
    <2> QED BY <2>1, <2>2
  <1>12. \A d, e \in Cids : Exists(d)' /\ Exists(e)' /\ IdOf(d)' = IdOf(e)' => d = e
    <2> SUFFICES ASSUME NEW d \in Cids, NEW e \in Cids, Exists(d)', Exists(e)', IdOf(d)' = IdOf(e)'
                 PROVE  d = e
      OBVIOUS
    <2>1. \A x \in Cids \ {c} : Exists(x)' => IdOf(x)' # n
      BY <1>4, <1>8, <1>9
    <2> QED BY <1>9, <1>10, <2>1 DEF Tables
  <1>13. Owned'
    <2> SUFFICES ASSUME NEW i \in DOMAIN replica'
                 PROVE  /\ Len(replica'[i]) <= 1
                        /\ replica'[i] # <<>> => \E d \in Cids : Exists(d)' /\ IdOf(d)' = i
      BY DEF Owned
    <2>1. CASE i = n
      BY <1>3, <2>1
    <2>2. CASE i # n
      <3>1. i \in DOMAIN replica /\ replica'[i] = replica[i]
        BY <1>3, <1>4, <2>2
      <3>2. /\ Len(replica[i]) <= 1
            /\ replica[i] # <<>> => \E d \in Cids : Exists(d) /\ IdOf(d) = i
        BY <3>1 DEF Tables, Owned
      <3>3. \A d \in Cids : Exists(d) => d \in Cids \ {c}
        OBVIOUS
      <3> QED BY <1>9, <3>1, <3>2, <3>3
    <2> QED BY <2>1, <2>2
  <1>14. orphan' \in Seq(Versions \ {0})
    BY <1>2 DEF Tables
  <1>15. Tables'
    BY <1>3, <1>6, <1>11, <1>12, <1>13, <1>14 DEF Tables
  <1> QED BY <1>7, <1>9, <1>10, <1>15

\* INSERT of the replicas of a file that has none.
LEMMA Inserted ==
    ASSUME Tables, NEW c \in Cids, Bare(c), NEW v \in Versions, InsertReplicas(IdOf(c), v)
    PROVE  /\ Tables' /\ file' = file /\ replica'[IdOf(c)] = Batches(v)
           /\ \A d \in Cids \ {c} : SameRow(d)
  <1> DEFINE S == Seq(Versions \ {0})
             i == IdOf(c)
             w == Batches(v)
  <1>1. replica \in Seq(S) /\ i \in DOMAIN replica /\ replica[i] = <<>>
    BY RowIsRow DEF Tables, Bare
  <1>2. w \in S /\ Len(w) <= 1
    <2>1. CASE v = 0
      BY <2>1 DEF Batches
    <2>2. CASE v # 0
      <3>1. v \in Versions \ {0} /\ w = <<v>>
        BY <2>2 DEF Batches
      <3> QED BY <3>1
    <2> QED BY <2>1, <2>2
  <1>3. replica' = [replica EXCEPT ![i] = w] /\ UNCHANGED <<file, orphan>>
    <2>1. CASE v = 0
      BY <1>1, <2>1 DEF InsertReplicas, Batches
    <2>2. CASE v # 0
      <3>1. Append(replica[i], v) = <<v>>
        BY <1>1
      <3> QED BY <2>2, <3>1 DEF InsertReplicas, Batches
    <2> QED BY <2>1, <2>2
  <1> HIDE DEF w
  <1>4. /\ replica' \in Seq(S) /\ DOMAIN replica' = DOMAIN replica /\ replica'[i] = w
        /\ \A j \in DOMAIN replica : j # i => replica'[j] = replica[j]
    <2> HIDE DEF S, i
    <2> QED BY <1>1, <1>2, <1>3
  <1>5. \A d \in Cids : Exists(d)' = Exists(d) /\ IdOf(d)' = IdOf(d)
    BY <1>3 DEF Exists, IdOf
  <1>6. \A d \in Cids \ {c} : SameRow(d)
    BY <1>3, <1>4 DEF Tables, SameRow, Bare
  <1>7. Owned'
    <2> SUFFICES ASSUME NEW j \in DOMAIN replica'
                 PROVE  /\ Len(replica'[j]) <= 1
                        /\ replica'[j] # <<>> => \E d \in Cids : Exists(d)' /\ IdOf(d)' = j
      BY DEF Owned
    <2>1. CASE j = i
      BY <1>2, <1>4, <1>5, <2>1 DEF Bare
    <2>2. CASE j # i
      BY <1>4, <1>5, <2>2 DEF Tables, Owned
    <2> QED BY <2>1, <2>2
  <1>8. Tables'
    BY <1>3, <1>4, <1>5, <1>7 DEF Tables
  <1> QED BY <1>3, <1>4, <1>6, <1>8 DEF w

\* DELETE of the replicas of a file.
LEMMA Cleared ==
    ASSUME Tables, NEW c \in Cids, Exists(c), DeleteReplicas(IdOf(c))
    PROVE  /\ Tables' /\ file' = file /\ Bare(c)'
           /\ \A d \in Cids \ {c} : SameRow(d)
  <1> DEFINE S == Seq(Versions \ {0})
             i == IdOf(c)
  <1>1. replica \in Seq(S) /\ i \in DOMAIN replica /\ <<>> \in S
    BY RowIsRow DEF Tables
  <1>2. replica' = [replica EXCEPT ![i] = <<>>] /\ UNCHANGED <<file, orphan>>
    BY DEF DeleteReplicas
  <1>3. /\ replica' \in Seq(S) /\ DOMAIN replica' = DOMAIN replica /\ replica'[i] = <<>>
        /\ \A j \in DOMAIN replica : j # i => replica'[j] = replica[j]
    <2> HIDE DEF S, i
    <2> QED BY <1>1, <1>2
  <1>4. \A d \in Cids : Exists(d)' = Exists(d) /\ IdOf(d)' = IdOf(d)
    BY <1>2 DEF Exists, IdOf
  <1>5. \A d \in Cids \ {c} : SameRow(d)
    BY <1>2, <1>3 DEF Tables, SameRow
  <1>6. Owned'
    <2> SUFFICES ASSUME NEW j \in DOMAIN replica'
                 PROVE  /\ Len(replica'[j]) <= 1
                        /\ replica'[j] # <<>> => \E d \in Cids : Exists(d)' /\ IdOf(d)' = j
      BY DEF Owned
    <2>1. CASE j = i
      BY <1>3, <1>4, <2>1
    <2>2. CASE j # i
      BY <1>3, <1>4, <2>2 DEF Tables, Owned
    <2> QED BY <2>1, <2>2
  <1>7. Tables'
    BY <1>2, <1>3, <1>4, <1>6 DEF Tables
  <1> QED BY <1>2, <1>3, <1>4, <1>5, <1>7 DEF Bare

\* UPDATE of the row of a file, if there is one.
LEMMA Updated ==
    ASSUME Tables, NEW c \in Cids, NEW v \in Versions, UpdateFile(c, v)
    PROVE  /\ Tables' /\ replica' = replica
           /\ Exists(c)' = Exists(c) /\ IdOf(c)' = IdOf(c)
           /\ Exists(c) /\ v # 0 => file'[c].ver = v
           /\ v = 0 => file' = file
           /\ \A d \in Cids \ {c} : SameRow(d)
  <1>1. UNCHANGED <<replica, orphan>>
    BY DEF UpdateFile
  <1>2. CASE ~(Exists(c) /\ v # 0)
    <2>1. UNCHANGED file
      BY <1>2 DEF UpdateFile
    <2> QED BY <1>1, <1>2, <2>1 DEF Tables, Exists, IdOf, SameRow, Owned
  <1>3. CASE Exists(c) /\ v # 0
    <2>1. file' = [file EXCEPT ![c].ver = v] /\ file \in [Cids -> Rows \cup {NoFile}] /\ file[c] \in Rows
      BY <1>3, RowIsRow DEF UpdateFile, Tables
    <2>2. /\ file' \in [Cids -> Rows \cup {NoFile}] /\ file'[c] \in Rows
          /\ file'[c].ver = v /\ file'[c].id = file[c].id
          /\ \A d \in Cids \ {c} : file'[d] = file[d]
      BY <2>1 DEF Rows
    <2>3. \A d \in Cids : Exists(d)' = Exists(d) /\ (Exists(d) => IdOf(d)' = IdOf(d))
      BY <1>3, <2>2 DEF Exists, IdOf, Rows
    <2>4. \A d \in Cids \ {c} : SameRow(d)
      BY <1>1, <2>2 DEF SameRow
    <2>5. Owned'
      <3> SUFFICES ASSUME NEW i \in DOMAIN replica
                   PROVE  /\ Len(replica[i]) <= 1
                          /\ replica[i] # <<>> => \E d \in Cids : Exists(d)' /\ IdOf(d)' = i
        BY <1>1 DEF Owned
      <3> QED BY <2>3 DEF Tables, Owned
    <2>6. Tables'
      BY <1>1, <2>2, <2>3, <2>5 DEF Tables
    <2> QED BY <1>1, <1>3, <2>2, <2>3, <2>4, <2>6 DEF IdOf
  <1> QED BY <1>2, <1>3

\* DELETE of a file without replicas.
LEMMA Deleted ==
    ASSUME Tables, NEW c \in Cids, Bare(c), DeleteRow(c)
    PROVE  Tables' /\ ~Exists(c)' /\ \A d \in Cids \ {c} : SameRow(d)
  <1>1. UNCHANGED <<replica, orphan>> /\ file' = [file EXCEPT ![c] = NoFile]
    BY DEF DeleteRow
  <1>2. /\ file' \in [Cids -> Rows \cup {NoFile}] /\ file'[c] = NoFile
        /\ \A d \in Cids \ {c} : file'[d] = file[d]
    BY <1>1 DEF Tables
  <1>3. ~Exists(c)' /\ \A d \in Cids \ {c} : Exists(d)' = Exists(d) /\ IdOf(d)' = IdOf(d)
    BY <1>2 DEF Exists, IdOf
  <1>4. \A d \in Cids \ {c} : SameRow(d)
    BY <1>1, <1>2 DEF SameRow
  <1>5. Owned'
    <2> SUFFICES ASSUME NEW i \in DOMAIN replica
                 PROVE  /\ Len(replica[i]) <= 1
                        /\ replica[i] # <<>> => \E d \in Cids : Exists(d)' /\ IdOf(d)' = i
      BY <1>1 DEF Owned
    <2>1. Len(replica[i]) <= 1 /\ (replica[i] # <<>> => \E d \in Cids \ {c} : Exists(d) /\ IdOf(d) = i)
      BY DEF Tables, Owned, Bare
    <2> QED BY <1>3, <2>1
  <1>6. Tables'
    <2>1. \A d \in Cids : Exists(d)' => d # c
      BY <1>3
    <2>2. \A d \in Cids : Exists(d)' => Exists(d) /\ IdOf(d)' = IdOf(d)
      BY <1>3, <2>1
    <2> QED BY <1>1, <1>2, <1>5, <2>2 DEF Tables
  <1> QED BY <1>3, <1>4, <1>6

\* Replicas with file_id 0 belong to nobody.
LEMMA Orphaned ==
    ASSUME Tables, NEW v \in Versions, InsertOrphans(v)
    PROVE  Tables' /\ UNCHANGED <<file, replica>>
  <1>1. UNCHANGED <<file, replica>>
    BY DEF InsertOrphans
  <1>2. orphan' \in Seq(Versions \ {0})
    BY DEF InsertOrphans, Tables
  <1> QED BY <1>1, <1>2 DEF Tables, Exists, IdOf, Owned

\* No statement.
LEMMA Untouched ==
    ASSUME Tables, UNCHANGED tables
    PROVE  Tables' /\ UNCHANGED <<file, replica>>
  BY DEF tables, Tables, Exists, IdOf, Owned

-----------------------------------------------------------------------------
(***************************************************************************)
(* What a block does to one file.                                          *)
(***************************************************************************)
\* What the category of the events of a block says about the file, on a legal chain.
LEMMA Ops ==
    ASSUME NEW before, NEW ev, NEW after, Legal(before, ev, after), ev \subseteq Kinds
    PROVE  /\ OpOf(ev) \in {"None", "New", "UpdateBase", "UpdateRep", "Delete"}
           /\ OpOf(ev) = "None" => after = before
           /\ OpOf(ev) = "New" =>
                /\ after # Gone
                /\ "report" \notin ev => after = IF before = Gone THEN 0 ELSE before
           /\ OpOf(ev) = "UpdateBase" => before # Gone /\ after = before
           /\ OpOf(ev) = "UpdateRep" => (after = Gone <=> before = Gone)
           /\ OpOf(ev) = "Delete" => after \in {Gone, 0}
  <1>1. /\ ev = {} => after = before
        /\ before = Gone /\ "order" \notin ev => ev \subseteq {"report"} /\ after = Gone
        /\ "close" \in ev => after \in {Gone, 0}
        /\ "order" \in ev /\ "close" \notin ev => after # Gone
        /\ "close" \notin ev /\ "report" \notin ev =>
             after = IF before = Gone /\ "order" \in ev THEN 0 ELSE before
        /\ "close" \notin ev /\ before # Gone => after # Gone
    BY DEF Legal
  <1>2. CASE "close" \in ev
    <2>1. OpOf(ev) = "Delete"
      BY <1>2 DEF OpOf
    <2> QED BY <1>1, <1>2, <2>1
  <1>3. CASE "close" \notin ev /\ "order" \in ev
    <2>1. OpOf(ev) = "New"
      BY <1>3 DEF OpOf
    <2> QED BY <1>1, <1>3, <2>1
  <1>4. CASE {"close", "order"} \cap ev = {} /\ "report" \in ev
    <2>1. OpOf(ev) = "UpdateRep"
      BY <1>4 DEF OpOf
    <2> QED BY <1>1, <1>4, <2>1
  <1>5. CASE {"close", "order", "report"} \cap ev = {} /\ "renew" \in ev
    <2>1. OpOf(ev) = "UpdateBase"
      BY <1>5 DEF OpOf
    <2> QED BY <1>1, <1>5, <2>1
  <1>6. CASE ev = {}
    <2>1. OpOf(ev) = "None"
      BY <1>6 DEF OpOf
    <2> QED BY <1>1, <1>6, <2>1
  <1>7. ev \subseteq {"renew", "report", "order", "close"}
    BY DEF Kinds
  <1> QED BY <1>2, <1>3, <1>4, <1>5, <1>6, <1>7

\* A block of the history, and the state of a file after it.
LEMMA BlockIs ==
    ASSUME Chain, NEW c \in Cids, NEW k \in 0 .. Len(hist)
    PROVE  /\ At(c, k) \in Versions \cup {Gone}
           /\ k > 0 => /\ hist[k][c].ev \subseteq Kinds /\ At(c, k) = hist[k][c].after
                       /\ Legal(At(c, k - 1), hist[k][c].ev, At(c, k))
  <1>1. CASE k = 0
    BY <1>1 DEF Chain, At
  <1>2. CASE k > 0
    <2>1. k \in 1 .. Len(hist) /\ Len(hist) \in Nat
      BY <1>2 DEF Chain
    <2>2. hist[k] \in Block
      BY <2>1 DEF Chain
    <2>3. hist[k][c] \in [ev : SUBSET Kinds, after : Versions \cup {Gone}]
      BY <2>2 DEF Block
    <2> QED BY <1>2, <2>1, <2>3 DEF Chain, At
  <1> QED BY <1>1, <1>2

\* The files the listener takes up in a block: those that are deleted, and those
\* with an event that are still there.
LEMMA TodoIs ==
    ASSUME NEW c \in Cids
    PROVE  c \in Todo <=> \/ OpOf(hist[cur][c].ev) = "Delete"
                          \/ OpOf(hist[cur][c].ev) # "None" /\ At(c, cur) # Gone
  BY DEF Todo, After

\* The facts about numbers that the steps use.
LEMMA Types ==
    ASSUME TypeOK, Chain
    PROVE  /\ bn \in Nat /\ cur \in Nat /\ cur > 0 /\ Len(hist) \in Nat /\ MaxBlock \in Nat
           /\ cur <= MaxBlock + 1 /\ bn <= MaxBlock /\ Len(hist) <= MaxBlock /\ cid \in Cids
  BY DEF TypeOK, Chain

\* The version the listener writes.
LEMMA AtHand ==
    ASSUME TablesInv, pc \in Stages
    PROVE  /\ cur \in 1 .. Len(hist) /\ cid \in Todo /\ cid \in Cids
           /\ op = OpOf(hist[cur][cid].ev)
           /\ op # "Delete" => After(cid) \in Versions
  <1>1. cid \in Todo /\ cid \in Cids /\ op = OpOf(hist[cur][cid].ev)
    BY Types DEF TablesInv, Work
  <1>2. cur \in 1 .. Len(hist)
    BY Types DEF TablesInv, Position, Busy
  <1>3. After(cid) \in Versions \cup {Gone}
    BY <1>1, <1>2, BlockIs DEF TablesInv, After
  <1> QED BY <1>1, <1>2, <1>3, TodoIs DEF After

\* The version a saver writes.
LEMMA ScanHand ==
    ASSUME TablesInv, NEW s \in Savers
    PROVE  /\ sCid[s] \in Cids
           /\ sPc[s] # "pick" => first[sCid[s]] \in Versions
  BY DEF TablesInv, TypeOK, Saving, Chain, Scan!Found

\* The statements of ScanStore are those of the listener.
LEMMA SameStatements ==
    /\ \A c : Scan!Exists(c) = Exists(c) /\ Scan!IdOf(c) = IdOf(c)
    /\ \A c, v : Scan!CreateRow(c, v) = CreateRow(c, v) /\ Scan!Torn(c, v) = Torn(c, v)
    /\ \A i, v : Scan!InsertReplicas(i, v) = InsertReplicas(i, v)
    /\ \A v : Scan!InsertOrphans(v) = InsertOrphans(v)
    /\ Scan!tables = tables
  BY DEF Scan!Exists, Exists, Scan!IdOf, IdOf, Scan!CreateRow, CreateRow, Scan!InsertReplicas,
         InsertReplicas, Scan!InsertOrphans, InsertOrphans, Scan!tables, tables,
         Scan!Torn, Torn, Scan!Batches, Batches

-----------------------------------------------------------------------------
(***************************************************************************)
(* The tables, the types and the positions.                                *)
(***************************************************************************)
\* The tables are empty.
LEMMA InitTables == Init => TablesInv
  <1> SUFFICES ASSUME Init PROVE TablesInv
    OBVIOUS
  <1>1. Tables
    BY DEF Init, Tables, Exists, Owned
  <1>2. Chain
    BY DEF Init, Chain
  <1>3. Position /\ Work
    BY DEF Init, Position, Work, Busy, Stages
  <1>4. (CHOOSE c \in Cids : TRUE) \in Cids
    BY DEF Init
  <1>5. \A s \in Savers : Scan!Found(s) \subseteq Cids
    BY DEF Scan!Found
  <1>6. Saving
    BY <1>4, <1>5 DEF Init, Scan!Init, Saving
  <1>7. TypeOK
    <2>1. /\ \A c \in Cids : Exists(c) => file[c].id \in DOMAIN replica /\ file[c].ver \in Versions
          /\ \A i \in DOMAIN replica : replica[i] \in Seq(Versions \ {0})
          /\ orphan \in Seq(Versions \ {0})
      BY DEF Init, Exists
    <2>2. /\ sTodo \in [Savers -> SUBSET Cids] /\ sCid \in [Savers -> Cids] /\ errored \subseteq Cids
          /\ sPc \in [Savers -> {"pick", "query", "create", "insert", "error"}]
          /\ sRetry \in [Savers -> 0 .. RetryCnt]
      <3>1. RetryCnt \in 0 .. RetryCnt
        OBVIOUS
      <3> QED BY <1>4, <1>5, <3>1 DEF Init, Scan!Init
    <2>3. /\ bn \in 0 .. MaxBlock /\ cur \in 1 .. MaxBlock + 1 /\ Len(hist) <= MaxBlock
          /\ pc \in Stages \cup {"down", "scan", "idle", "pick", "mark"}
          /\ todo \subseteq Cids /\ cid \in Cids /\ diverged \subseteq Cids
          /\ op \in {"None", "New", "UpdateBase", "UpdateRep", "Delete"}
      BY DEF Init
    <2> QED BY <2>1, <2>2, <2>3 DEF TypeOK
  <1> QED BY <1>1, <1>2, <1>3, <1>6, <1>7 DEF TablesInv

\* A saver keeps the tables together, because it inserts replicas for a bare file only.
LEMMA ScanTables ==
    ASSUME TablesInv, NEW s \in Savers, ScanStep(s)
    PROVE  Tables'
  <1>1. Tables /\ Scan!Saver(s) /\ pc = "scan"
    BY DEF TablesInv, ScanStep
  <1>2. CASE Scan!Pick(s) \/ Scan!Query(s) \/ Scan!Fail(s) \/ Scan!SaveError(s)
    <2>1. UNCHANGED tables
      BY <1>2 DEF Scan!Pick, Scan!Query, Scan!Fail, Scan!SaveError, Scan!tables, tables
    <2> QED BY <1>1, <2>1, Untouched
  <1>3. CASE Scan!Create(s)
    <2>1. sPc[s] = "create"
      BY <1>3 DEF Scan!Create, Scan!Is
    <2>2. CASE Exists(sCid[s])
      <3>1. UNCHANGED tables
        BY <1>3, <2>2, SameStatements DEF Scan!Create, Scan!tables, tables
      <3> QED BY <1>1, <3>1, Untouched
    <2>3. CASE ~Exists(sCid[s])
      <3>1. CreateRow(sCid[s], first[sCid[s]])
        BY <1>3, <2>3, SameStatements DEF Scan!Create
      <3> QED BY <1>1, <2>1, <2>3, <3>1, Created, ScanHand
    <2> QED BY <2>2, <2>3
  <1>4. CASE Scan!Insert(s)
    <2>1. sPc[s] = "insert" /\ InsertReplicas(IdOf(sCid[s]), first[sCid[s]])
      BY <1>4, SameStatements DEF Scan!Insert, Scan!Is
    <2>2. Bare(sCid[s])
      BY <1>1, <2>1 DEF TablesInv, Saving
    <2> QED BY <1>1, <2>1, <2>2, Inserted, ScanHand
  <1>5. CASE Scan!CreateLost(s)
    <2>1. sPc[s] = "create" /\ InsertOrphans(first[sCid[s]])
      BY <1>5, SameStatements DEF Scan!CreateLost, Scan!Is
    <2> QED BY <1>1, <2>1, Orphaned, ScanHand
  <1> QED BY <1>1, <1>2, <1>3, <1>4, <1>5 DEF Scan!Saver

\* No statement leaves replicas without a file or gives a file two sets.
LEMMA TablesStep ==
    ASSUME TablesInv, [Next]_vars
    PROVE  Tables'
  <1>1. Tables /\ Work
    BY DEF TablesInv
  <1>2. ASSUME NEW s \in Savers, ScanStep(s) PROVE Tables'
    BY <1>2, ScanTables
  <1>3. CASE UNCHANGED tables
    BY <1>1, <1>3, Untouched
  <1>4. CASE Create
    <2>1. /\ pc \in Stages /\ ~Exists(cid) /\ op # "Delete" /\ CreateRow(cid, After(cid))
      BY <1>1, <1>4 DEF Create, Work, Stages
    <2> QED BY <1>1, <2>1, AtHand, Created
  <1>5. CASE Insert
    <2>1. /\ pc \in Stages /\ Bare(cid) /\ op # "Delete" /\ InsertReplicas(IdOf(cid), After(cid))
      BY <1>1, <1>5 DEF Insert, Work, Stages
    <2> QED BY <1>1, <2>1, AtHand, Inserted
  <1>6. CASE Clear
    <2>1. pc \in Stages /\ Exists(cid) /\ DeleteReplicas(IdOf(cid))
      BY <1>1, <1>6 DEF Clear, Work, Stages
    <2> QED BY <1>1, <2>1, AtHand, Cleared
  <1>7. CASE Update
    <2>1. pc \in Stages /\ op # "Delete" /\ UpdateFile(cid, After(cid))
      BY <1>1, <1>7 DEF Update, Work, Stages
    <2> QED BY <1>1, <2>1, AtHand, Updated
  <1>8. CASE Delete
    <2>1. pc \in Stages /\ Bare(cid) /\ DeleteRow(cid)
      BY <1>1, <1>8 DEF Delete, Work, Stages
    <2> QED BY <1>1, <2>1, AtHand, Deleted
  <1>9. CASE CreateLost
    <2>1. pc \in Stages /\ op # "Delete" /\ InsertOrphans(After(cid))
      BY <1>9 DEF CreateLost, Stages
    <2> QED BY <1>1, <2>1, AtHand, Orphaned
  <1>10. CASE Handover \/ NewBlock \/ Classify \/ Query \/ Fail \/ Mark \/ Crash \/ Boot
    <2>1. UNCHANGED tables
      BY <1>10 DEF Handover, NewBlock, Classify, Query, Fail, Mark, Crash, Boot
    <2> QED BY <1>3, <2>1
  <1>11. ASSUME NEW c \in Cids, Pick(c) PROVE Tables'
    <2>1. UNCHANGED tables
      BY <1>11 DEF Pick
    <2> QED BY <1>3, <2>1
  <1>12. CASE UNCHANGED vars
    BY <1>3, <1>12 DEF vars
  <1> QED BY <1>2, <1>4, <1>5, <1>6, <1>7, <1>8, <1>9, <1>10, <1>11, <1>12
          DEF Next, Statement, UpToDate

\* Blocks are added, and never change.
LEMMA ChainStep ==
    ASSUME TablesInv, [Next]_vars
    PROVE  /\ Chain' /\ first' = first
           /\ Len(hist) <= Len(hist') /\ \A k \in 1 .. Len(hist) : hist'[k] = hist[k]
           /\ ~NewBlock => hist' = hist
  <1>0. Chain
    BY DEF TablesInv
  <1>1. CASE UNCHANGED <<first, hist>>
    BY <1>0, <1>1 DEF Chain, At
  <1>2. CASE NewBlock
    <2>1. PICK ev \in [Cids -> SUBSET Kinds], after \in [Cids -> Versions \cup {Gone}] :
             /\ \A c \in Cids : Legal(At(c, cur - 1), ev[c], after[c])
             /\ hist' = Append(hist, [c \in Cids |-> [ev |-> ev[c], after |-> after[c]]])
      BY <1>2 DEF NewBlock
    <2> DEFINE b == [c \in Cids |-> [ev |-> ev[c], after |-> after[c]]]
    <2>2. b \in Block /\ \A c \in Cids : b[c].ev = ev[c] /\ b[c].after = after[c]
      BY DEF Block
    <2>3. cur = Len(hist) + 1 /\ Len(hist) \in Nat /\ first' = first
      BY <1>0, <1>2 DEF NewBlock, Chain
    <2> HIDE DEF b
    <2>4. /\ hist' \in Seq(Block) /\ Len(hist') = Len(hist) + 1
          /\ hist'[Len(hist) + 1] = b /\ \A k \in 1 .. Len(hist) : hist'[k] = hist[k]
      BY <1>0, <2>1, <2>2 DEF Chain, b
    <2>5. \A c \in Cids : \A k \in 0 .. Len(hist) : At(c, k)' = At(c, k)
      BY <2>3, <2>4 DEF At
    <2>6. ASSUME NEW k \in 1 .. Len(hist'), NEW c \in Cids
          PROVE  Legal(At(c, k - 1)', hist'[k][c].ev, At(c, k)')
      <3>1. CASE k \in 1 .. Len(hist)
        <4>1. At(c, k - 1)' = At(c, k - 1) /\ At(c, k)' = At(c, k) /\ hist'[k] = hist[k]
          BY <2>3, <2>4, <2>5, <3>1
        <4> QED BY <1>0, <3>1, <4>1 DEF Chain
      <3>2. CASE k = Len(hist) + 1
        <4>1. At(c, k - 1)' = At(c, cur - 1)
          BY <2>3, <2>5, <3>2
        <4>2. At(c, k)' = after[c] /\ hist'[k][c].ev = ev[c]
          BY <2>2, <2>3, <2>4, <3>2 DEF At
        <4> QED BY <2>1, <4>1, <4>2
      <3> QED BY <2>3, <2>4, <3>1, <3>2
    <2>7. \A k \in 1 .. Len(hist'), c \in Cids : Legal(At(c, k - 1), hist[k][c].ev, At(c, k))'
      BY <2>6 DEF Legal
    <2>8. Chain'
      BY <1>0, <2>3, <2>4, <2>7 DEF Chain
    <2> QED BY <1>2, <2>3, <2>4, <2>8
  <1>3. CASE Handover \/ Classify \/ Statement \/ Fail \/ CreateLost \/ Mark \/ Crash \/ UNCHANGED vars
    BY <1>1, <1>3 DEF Handover, Classify, Statement, Query, Create, Insert, Clear, Update, Delete,
           Fail, CreateLost, Mark, Crash, Leave, Continue, log, vars
  <1>4. CASE Boot
    BY <1>1, <1>4 DEF Boot
  <1>5. ASSUME NEW s \in Savers, ScanStep(s) PROVE UNCHANGED <<first, hist>>
    BY <1>5 DEF ScanStep, Scan!Saver, Scan!Pick, Scan!Query, Scan!Create, Scan!Insert,
           Scan!CreateLost, Scan!Fail, Scan!SaveError
  <1>6. ASSUME NEW c \in Cids, Pick(c) PROVE UNCHANGED <<first, hist>>
    BY <1>6 DEF Pick, log
  <1> QED BY <1>1, <1>2, <1>3, <1>4, <1>5, <1>6 DEF Next, UpToDate

\* A step of a saver in terms of its own position.
LEMMA ScanMoves ==
    ASSUME TypeOK, Saving, NEW s \in Savers, ScanStep(s)
    PROVE  /\ pc = "scan" /\ pc' = "scan"
           /\ UNCHANGED <<hist, bn, cur, todo, cid, op, first>>
           /\ sTodo' \in [Savers -> SUBSET Cids] /\ sCid' \in [Savers -> Cids]
           /\ sPc' \in [Savers -> {"pick", "query", "create", "insert", "error"}]
           /\ sRetry' \in [Savers -> 0 .. RetryCnt] /\ errored' \subseteq Cids
           /\ diverged' \subseteq Cids
           /\ errored \subseteq errored' /\ diverged \subseteq diverged'
           /\ \A t \in Savers \ {s} : sPc'[t] = sPc[t] /\ sTodo'[t] = sTodo[t] /\ sCid'[t] = sCid[t]
           /\ \/ Scan!Pick(s) /\ sCid'[s] \in sTodo[s] /\ sTodo'[s] = sTodo[s] \ {sCid'[s]}
              \/ UNCHANGED <<sCid, sTodo>> /\ sPc[s] # "pick"
  <1>0. /\ sTodo \in [Savers -> SUBSET Cids] /\ sCid \in [Savers -> Cids]
        /\ sPc \in [Savers -> {"pick", "query", "create", "insert", "error"}]
        /\ sRetry \in [Savers -> 0 .. RetryCnt] /\ errored \subseteq Cids /\ diverged \subseteq Cids
        /\ sCid[s] \in Cids /\ RetryCnt \in 0 .. RetryCnt
    BY DEF TypeOK
  <1>1. /\ pc = "scan" /\ pc' = "scan" /\ UNCHANGED <<hist, bn, cur, todo, cid, op>>
        /\ Scan!Saver(s)
    BY DEF ScanStep
  <1>2. CASE Scan!Pick(s)
    <2>1. PICK c \in sTodo[s] : /\ sCid' = [sCid EXCEPT ![s] = c]
                                /\ sTodo' = [sTodo EXCEPT ![s] = @ \ {c}]
      BY <1>2 DEF Scan!Pick
    <2>2. c \in Cids /\ sTodo[s] \subseteq Cids
      BY <1>0
    <2>3. /\ sPc' = [sPc EXCEPT ![s] = "query"] /\ sRetry' = [sRetry EXCEPT ![s] = RetryCnt]
          /\ UNCHANGED <<first, errored, diverged>>
      BY <1>2 DEF Scan!Pick, Scan!Goto
    <2>4. sTodo' \in [Savers -> SUBSET Cids] /\ sCid' \in [Savers -> Cids]
          /\ sPc' \in [Savers -> {"pick", "query", "create", "insert", "error"}]
          /\ sRetry' \in [Savers -> 0 .. RetryCnt]
      BY <1>0, <2>1, <2>2, <2>3
    <2>5. sCid'[s] \in sTodo[s] /\ sTodo'[s] = sTodo[s] \ {sCid'[s]}
      BY <1>0, <2>1
    <2>6. \A t \in Savers \ {s} : sPc'[t] = sPc[t] /\ sTodo'[t] = sTodo[t] /\ sCid'[t] = sCid[t]
      BY <1>0, <2>1, <2>3
    <2> QED BY <1>0, <1>1, <1>2, <2>3, <2>4, <2>5, <2>6
  <1>3. ASSUME sPc[s] # "pick", UNCHANGED <<first, sCid, sTodo>>,
               NEW stage \in {"pick", "query", "create", "insert", "error"},
               sPc' = [sPc EXCEPT ![s] = stage],
               sRetry' \in [Savers -> 0 .. RetryCnt],
               errored' \in {errored, errored \cup {sCid[s]}},
               diverged' \in {diverged, diverged \cup {sCid[s]}}
        PROVE  /\ sTodo' \in [Savers -> SUBSET Cids] /\ sCid' \in [Savers -> Cids]
               /\ sPc' \in [Savers -> {"pick", "query", "create", "insert", "error"}]
               /\ sRetry' \in [Savers -> 0 .. RetryCnt] /\ errored' \subseteq Cids
               /\ diverged' \subseteq Cids
               /\ errored \subseteq errored' /\ diverged \subseteq diverged'
               /\ \A t \in Savers \ {s} :
                    sPc'[t] = sPc[t] /\ sTodo'[t] = sTodo[t] /\ sCid'[t] = sCid[t]
               /\ UNCHANGED <<sCid, sTodo>> /\ sPc[s] # "pick"
    BY <1>0, <1>3
  <1>4. CASE Scan!Query(s)
    <2>1. /\ sPc[s] # "pick" /\ UNCHANGED <<first, sCid, sTodo, sRetry, errored, diverged>>
          /\ sPc' = [sPc EXCEPT ![s] = IF Scan!Exists(sCid[s]) THEN "pick" ELSE "create"]
      BY <1>4 DEF Scan!Query, Scan!Is, Scan!Goto
    <2> QED BY <1>0, <1>1, <1>3, <2>1
  <1>5. CASE Scan!Create(s)
    <2>1. /\ sPc[s] # "pick" /\ UNCHANGED <<first, sCid, sTodo, sRetry, errored, diverged>>
          /\ \/ sPc' = [sPc EXCEPT ![s] = "pick"]
             \/ sPc' = [sPc EXCEPT ![s] = "insert"]
      BY <1>5 DEF Scan!Create, Scan!Is, Scan!Goto
    <2> QED BY <1>0, <1>1, <1>3, <2>1
  <1>6. CASE Scan!Insert(s)
    <2>1. /\ sPc[s] # "pick" /\ UNCHANGED <<first, sCid, sTodo, sRetry, errored, diverged>>
          /\ sPc' = [sPc EXCEPT ![s] = "pick"]
      BY <1>6 DEF Scan!Insert, Scan!Is, Scan!Goto
    <2> QED BY <1>0, <1>1, <1>3, <2>1
  <1>7. CASE Scan!CreateLost(s)
    <2>1. /\ sPc[s] # "pick" /\ UNCHANGED <<first, sCid, sTodo, sRetry, errored>>
          /\ diverged' = diverged \cup {sCid[s]}
          /\ sPc' = [sPc EXCEPT ![s] = "pick"]
      BY <1>7 DEF Scan!CreateLost, Scan!Is, Scan!Goto
    <2> QED BY <1>0, <1>1, <1>3, <2>1
  <1>8. CASE Scan!Fail(s)
    <2>1. /\ sPc[s] # "pick" /\ UNCHANGED <<first, sCid, sTodo, errored>>
          /\ diverged' = diverged \cup Scan!TornBy(s)
          /\ sRetry' = [sRetry EXCEPT ![s] = IF @ = 0 THEN 0 ELSE @ - 1]
          /\ sPc' = [sPc EXCEPT ![s] = IF sRetry[s] > 1 THEN "query" ELSE "error"]
      BY <1>8 DEF Scan!Fail, Scan!Is, Scan!Goto
    <2>2. diverged' \in {diverged, diverged \cup {sCid[s]}}
      BY <2>1 DEF Scan!TornBy
    <2>3. sRetry' \in [Savers -> 0 .. RetryCnt]
      BY <1>0, <2>1
    <2> QED BY <1>0, <1>1, <1>3, <2>1, <2>2, <2>3
  <1>9. CASE Scan!SaveError(s)
    <2>1. /\ sPc[s] # "pick" /\ UNCHANGED <<first, sCid, sTodo, sRetry>>
          /\ errored' \in {errored, errored \cup {sCid[s]}}
          /\ diverged' \in {diverged, diverged \cup {sCid[s]}}
          /\ \/ sPc' = [sPc EXCEPT ![s] = "pick"]
             \/ sPc' = [sPc EXCEPT ![s] = "query"]
      BY <1>9 DEF Scan!SaveError, Scan!Is, Scan!Goto
    <2> QED BY <1>0, <1>1, <1>3, <2>1
  <1> QED BY <1>1, <1>2, <1>4, <1>5, <1>6, <1>7, <1>8, <1>9 DEF Scan!Saver

\* TypeOK without the tables.
Ranges ==
    /\ bn \in 0 .. MaxBlock /\ cur \in 1 .. MaxBlock + 1 /\ Len(hist) <= MaxBlock
    /\ pc \in Stages \cup {"down", "scan", "idle", "pick", "mark"}
    /\ sTodo \in [Savers -> SUBSET Cids] /\ sCid \in [Savers -> Cids] /\ errored \subseteq Cids
    /\ sPc \in [Savers -> {"pick", "query", "create", "insert", "error"}]
    /\ sRetry \in [Savers -> 0 .. RetryCnt]
    /\ todo \subseteq Cids /\ cid \in Cids /\ diverged \subseteq Cids
    /\ op \in {"None", "New", "UpdateBase", "UpdateRep", "Delete"}

\* No step breaks a type of the variables beside the tables and the chain.
LEMMA RangesStep ==
    ASSUME TablesInv, [Next]_vars
    PROVE  Ranges'
  <1> USE DEF log, scan, bounds, Stages
  <1>0. TypeOK /\ Saving /\ Position /\ Chain /\ Work /\ Ranges
    BY DEF TablesInv, TypeOK, Ranges
  <1>1. ASSUME NEW s \in Savers, ScanStep(s) PROVE Ranges'
    BY <1>0, <1>1, ScanMoves DEF Ranges
  <1>2. CASE Handover
    <2>1. 1 \in 1 .. MaxBlock + 1
      BY <1>0, Types
    <2>2. diverged' \subseteq Cids
      BY <1>0, <1>2 DEF Handover, Ranges
    <2> QED BY <1>0, <1>2, <2>1, <2>2 DEF Handover, Ranges
  <1>3. CASE NewBlock
    <2>1. Len(hist') <= MaxBlock
      BY <1>0, <1>3, Types DEF NewBlock
    <2> QED BY <1>0, <1>3, <2>1 DEF NewBlock, Ranges
  <1>4. CASE Classify
    <2>1. todo' \subseteq Cids
      BY <1>4 DEF Classify, Todo
    <2>2. pc' \in {"mark", "pick"}
      BY <1>4 DEF Classify
    <2> QED BY <1>0, <1>4, <2>1, <2>2 DEF Classify, Ranges
  <1>5. ASSUME NEW c \in Cids, Pick(c) PROVE Ranges'
    <2>1. cur \in 1 .. Len(hist)
      BY <1>0, <1>5, Types DEF Pick, Position, Busy
    <2>2. op' \in {"None", "New", "UpdateBase", "UpdateRep", "Delete"}
      BY <1>0, <1>5, <2>1, BlockIs, Ops DEF Pick
    <2>3. diverged' \subseteq Cids /\ todo' \subseteq Cids /\ cid' \in Cids
      BY <1>0, <1>5 DEF Pick, Ranges
    <2>4. pc' \in {"update", "query"} /\ UNCHANGED <<bn, cur, hist, scan>>
      BY <1>5 DEF Pick
    <2> QED BY <1>0, <2>2, <2>3, <2>4 DEF Ranges
  <1>6. CASE Statement \/ CreateLost
    <2>1. pc' \in Stages \cup {"mark", "pick"} /\ UNCHANGED <<bn, cur, hist, scan, todo, cid, op>>
      BY <1>0, <1>6 DEF Statement, CreateLost, Query, Create, Insert, Clear, Update, Delete,
                        Leave, Continue, Ranges
    <2>2. diverged' \in {diverged, diverged \cup {cid}}
      BY <1>6 DEF Statement, CreateLost, Query, Create, Insert, Clear, Update, Delete
    <2> QED BY <1>0, <2>1, <2>2 DEF Ranges
  <1>7. CASE Fail
    <2>1. diverged' \in {diverged, diverged \cup {cid}}
      BY <1>7 DEF Fail, TornInsert
    <2> QED BY <1>0, <1>7, <2>1 DEF Fail, Ranges
  <1>8. CASE Mark
    <2>1. cur \in 1 .. MaxBlock /\ cur + 1 \in 1 .. MaxBlock + 1
      BY <1>0, <1>8, Types DEF Mark, Position, Busy
    <2> QED BY <1>0, <1>8, <2>1 DEF Mark, Ranges
  <1>9. CASE Crash
    <2>1. diverged' \subseteq Cids
      <3>1. TornInsert \subseteq Cids
        BY <1>0 DEF TornInsert, Ranges
      <3>2. UNION {Scan!TornBy(s) : s \in Savers} \subseteq Cids
        BY <1>0 DEF Scan!TornBy, Ranges
      <3> QED BY <1>0, <1>9, <3>1, <3>2 DEF Crash, Ranges
    <2> QED BY <1>0, <1>9, <2>1 DEF Crash, Ranges
  <1>10. CASE Boot
    <2>1. CASE bn = 0 /\ pc' = "scan" /\ Scan!Restart /\ UNCHANGED cur
      <3>1. /\ sTodo' \in [Savers -> SUBSET Cids] /\ sPc' = [s \in Savers |-> "pick"]
            /\ UNCHANGED <<sCid, sRetry, errored>>
        BY <2>1 DEF Scan!Restart
      <3> QED BY <1>0, <1>10, <2>1, <3>1 DEF Boot, Ranges
    <2>2. CASE bn > 0 /\ pc' = "idle" /\ cur' = bn /\ UNCHANGED <<first, scan>>
      <3>1. bn \in 1 .. MaxBlock + 1
        BY <1>0, <2>2, Types
      <3> QED BY <1>0, <1>10, <2>2, <3>1 DEF Boot, Ranges
    <2> QED BY <1>10, <2>1, <2>2 DEF Boot
  <1>11. CASE UNCHANGED vars
    BY <1>0, <1>11 DEF vars, Ranges
  <1> QED BY <1>1, <1>2, <1>3, <1>4, <1>5, <1>6, <1>7, <1>8, <1>9, <1>10, <1>11
          DEF Next, UpToDate

\* No step breaks a type.
LEMMA TypeStep ==
    ASSUME TablesInv, [Next]_vars
    PROVE  TypeOK'
  <1>1. Tables'
    BY TablesStep
  <1>2. /\ \A c \in Cids : Exists(c)' => file'[c].id \in DOMAIN replica' /\ file'[c].ver \in Versions
        /\ \A i \in DOMAIN replica' : replica'[i] \in Seq(Versions \ {0})
        /\ orphan' \in Seq(Versions \ {0})
    BY <1>1 DEF Tables, Exists, IdOf, Rows
  <1> QED BY <1>2, RangesStep DEF TypeOK, Ranges, Exists

\* The mark follows the block at hand.
LEMMA PositionStep ==
    ASSUME TablesInv, [Next]_vars
    PROVE  Position'
  <1> USE DEF log, Busy, Stages
  <1>0. TypeOK /\ Saving /\ Position /\ Chain /\ Work
    BY DEF TablesInv
  <1>00. bn \in Nat /\ cur \in Nat /\ Len(hist) \in Nat /\ cur > 0
    BY <1>0, Types
  <1>1. ASSUME NEW s \in Savers, ScanStep(s) PROVE Position'
    BY <1>0, <1>1, ScanMoves DEF Position
  <1>2. CASE Handover
    BY <1>0, <1>00, <1>2 DEF Handover, Position
  <1>3. CASE NewBlock
    <2>1. Len(hist') = Len(hist) + 1 /\ cur = Len(hist) + 1 /\ UNCHANGED <<bn, cur, pc>> /\ pc = "idle"
      BY <1>0, <1>3, Types DEF NewBlock
    <2> QED BY <1>0, <1>00, <2>1 DEF Position
  <1>4. CASE Classify
    BY <1>0, <1>00, <1>4 DEF Classify, Position
  <1>5. ASSUME NEW c \in Cids, Pick(c) PROVE Position'
    BY <1>0, <1>00, <1>5 DEF Pick, Position
  <1>6. CASE Statement \/ CreateLost
    <2>1. pc \in Stages /\ pc' \in Busy /\ UNCHANGED <<bn, cur, hist>>
      BY <1>0, <1>6 DEF Statement, CreateLost, Query, Create, Insert, Clear, Update, Delete,
                        Leave, Continue
    <2> QED BY <1>0, <2>1 DEF Position
  <1>7. CASE Fail
    BY <1>0, <1>00, <1>7 DEF Fail, Position
  <1>8. CASE Mark
    <2>1. \/ bn' = cur /\ cur' = cur + 1
          \/ UNCHANGED <<bn, cur>>
      BY <1>8 DEF Mark
    <2>2. pc = "mark" /\ pc' = "idle" /\ hist' = hist
      BY <1>8 DEF Mark
    <2> QED BY <1>0, <1>00, <2>1, <2>2 DEF Position
  <1>9. CASE Crash
    BY <1>0, <1>9 DEF Crash, Position
  <1>10. CASE Boot
    BY <1>0, <1>00, <1>10 DEF Boot, Position
  <1>11. CASE UNCHANGED vars
    BY <1>0, <1>11 DEF vars, Position
  <1> QED BY <1>1, <1>2, <1>3, <1>4, <1>5, <1>6, <1>7, <1>8, <1>9, <1>10, <1>11
          DEF Next, UpToDate

\* The chain and the block at hand stay the same while the block is handled.
LEMMA SameLog ==
    ASSUME UNCHANGED log
    PROVE  /\ Todo' = Todo /\ \A c, k : At(c, k)' = At(c, k)
           /\ \A c : hist'[cur'][c].ev = hist[cur][c].ev
           /\ UNCHANGED <<first, hist, bn, cur>>
  BY DEF log, Todo, After, At

\* Each statement of the listener finds the row its predecessor left.
LEMMA WorkStep ==
    ASSUME TablesInv, [Next]_vars
    PROVE  Work'
  <1> USE DEF Stages, Busy
  <1>0. TypeOK /\ Tables /\ Chain /\ Position /\ Work
    BY DEF TablesInv
  <1>1. CASE pc' \in {"scan", "idle", "down"}
    BY <1>1 DEF Work
  <1>2. CASE Classify
    <2>1. Todo' = Todo /\ todo' = Todo /\ pc' \in {"mark", "pick"} /\ (pc' = "mark" => todo' = {})
      BY <1>2, SameLog DEF Classify
    <2> QED BY <2>1 DEF Work
  <1>3. ASSUME NEW c \in Cids, Pick(c) PROVE Work'
    <2>1. /\ Todo' = Todo /\ c \in Todo /\ todo' = todo \ {c} /\ cid' = c /\ todo \subseteq Todo
          /\ op' = OpOf(hist'[cur'][c].ev)
          /\ pc' = IF op' = "UpdateBase" THEN "update" ELSE "query"
      BY <1>0, <1>3, SameLog DEF Pick, Work
    <2>2. cur \in 1 .. Len(hist)
      BY <1>0, <1>3, Types DEF Pick, Position
    <2>3. op' \in {"New", "UpdateBase", "UpdateRep", "Delete"}
      <3>1. op' \in {"None", "New", "UpdateBase", "UpdateRep", "Delete"}
        BY <1>0, <1>3, <2>2, BlockIs, Ops DEF Pick
      <3>2. op' # "None"
        BY <1>3, <2>1, TodoIs DEF Pick
      <3> QED BY <3>1, <3>2
    <2>4. op' = OpOf(hist'[cur'][cid'].ev) /\ cid' \in Todo' \ todo' /\ todo' \subseteq Todo'
      BY <2>1
    <2> QED BY <2>1, <2>3, <2>4 DEF Work
  <1>4. ASSUME pc \in Stages, pc' \in Busy, UNCHANGED <<log, todo, cid, op>>,
               pc' \in {"pick", "mark"} => Leave
        PROVE  /\ pc' \in Busy => todo' \subseteq Todo'
               /\ pc' = "mark" => todo' = {}
               /\ pc' \in Stages => cid' \in Todo' \ todo' /\ op' = OpOf(hist'[cur'][cid'].ev)
    BY <1>0, <1>4, SameLog DEF Work, Leave
  <1>5. CASE Query
    <2>1. pc = "query" /\ UNCHANGED <<log, todo, cid, op, tables>> /\ pc' \in Busy
          /\ (pc' \in {"pick", "mark"} => Leave)
      BY <1>5 DEF Query, Leave, Continue
    <2>2. \/ pc' \in {"mark", "pick"}
          \/ op = "New"       /\ Exists(cid)  /\ pc' = "update"
          \/ op = "New"       /\ ~Exists(cid) /\ pc' = "create"
          \/ op = "UpdateRep" /\ Exists(cid)  /\ pc' = "clear"
          \/ op = "UpdateRep" /\ ~Exists(cid) /\ pc' = "create"
          \/ op = "Delete"    /\ Exists(cid)  /\ pc' = "clear"
      BY <1>5 DEF Query, Leave, Continue
    <2>3. Exists(cid)' = Exists(cid)
      BY <2>1 DEF tables, Exists
    <2> QED BY <1>4, <2>1, <2>2, <2>3 DEF Work
  <1>6. CASE Create
    <2>1. pc = "create" /\ UNCHANGED <<log, todo, cid, op>>
          /\ pc' = (IF op = "New" THEN "insert" ELSE "clear")
          /\ CreateRow(cid, After(cid))
      BY <1>6 DEF Create, Continue
    <2>2. op \in {"New", "UpdateRep"} /\ ~Exists(cid)
      BY <1>0, <2>1 DEF Work
    <2>3. Bare(cid)'
      <3>1. cid \in Cids /\ After(cid) \in Versions
        BY <2>1, <2>2, AtHand
      <3>2. ASSUME NEW c \in Cids, c = cid PROVE file'[c] # NoFile /\ replica'[file'[c].id] = <<>>
        BY <1>0, <2>1, <2>2, <3>1, <3>2, Created DEF Bare, Exists, IdOf
      <3> QED BY <2>1, <3>1, <3>2 DEF Bare, Exists, IdOf
    <2> QED BY <1>4, <2>1, <2>2, <2>3 DEF Work, Bare
  <1>7. CASE Insert
    <2>1. pc = "insert" /\ UNCHANGED <<log, todo, cid, op>> /\ pc' \in Busy
          /\ (pc' \in {"pick", "mark"} => Leave) /\ pc' \in {"pick", "mark", "update"}
          /\ (pc' = "update" => op # "New")
          /\ InsertReplicas(IdOf(cid), After(cid))
      BY <1>7 DEF Insert, Leave, Continue
    <2>2. op \in {"New", "UpdateRep"} /\ Bare(cid)
      BY <1>0, <2>1 DEF Work
    <2>3. file' = file /\ replica'[IdOf(cid)] = Batches(After(cid))
      BY <1>0, <2>1, <2>2, AtHand, Inserted
    <2>4. Exists(cid)' /\ replica'[IdOf(cid)'] = Batches(After(cid)')
      BY <2>1, <2>2, <2>3, SameLog DEF Exists, IdOf, Bare, After
    <2> QED BY <1>4, <2>1, <2>2, <2>4 DEF Work
  <1>8. CASE Clear
    <2>1. pc = "clear" /\ UNCHANGED <<log, todo, cid, op>>
          /\ pc' = (IF op = "Delete" THEN "delete" ELSE "insert")
          /\ DeleteReplicas(IdOf(cid))
      BY <1>8 DEF Clear, Continue
    <2>2. op \in {"UpdateRep", "Delete"} /\ Exists(cid)
      BY <1>0, <2>1 DEF Work
    <2>3. Bare(cid)'
      <3>1. cid \in Cids
        BY <2>1, AtHand
      <3>2. ASSUME NEW c \in Cids, c = cid PROVE file'[c] # NoFile /\ replica'[file'[c].id] = <<>>
        BY <1>0, <2>1, <2>2, <3>1, <3>2, Cleared DEF Bare, Exists, IdOf
      <3> QED BY <2>1, <3>1, <3>2 DEF Bare, Exists, IdOf
    <2> QED BY <1>4, <2>1, <2>2, <2>3 DEF Work, Bare
  <1>9. CASE Update \/ Delete
    <2>1. pc \in Stages /\ UNCHANGED <<log, todo, cid, op>> /\ Leave /\ pc' \in {"pick", "mark"}
      BY <1>9 DEF Update, Delete, Leave
    <2> QED BY <1>4, <2>1 DEF Work
  <1>10. CASE CreateLost
    <2>1. /\ UNCHANGED <<log, todo>> /\ pc' = (IF todo = {} THEN "mark" ELSE "pick")
          /\ pc = "create"
      BY <1>10 DEF CreateLost
    <2> QED BY <1>0, <2>1, SameLog DEF Work
  <1>11. CASE UNCHANGED vars
    <2>1. UNCHANGED <<log, tables, pc, todo, cid, op>>
      BY <1>11 DEF vars
    <2>2. Exists(cid)' = Exists(cid) /\ Bare(cid)' = Bare(cid)
          /\ replica'[IdOf(cid)'] = replica[IdOf(cid)] /\ After(cid)' = After(cid)
      BY <2>1, SameLog DEF Exists, Bare, IdOf, tables, After
    <2> QED BY <1>0, <2>1, <2>2, SameLog DEF Work
  <1>12. CASE Handover \/ NewBlock \/ Fail \/ Mark \/ Crash \/ Boot
    <2>1. pc' \in {"scan", "idle", "down"}
      BY <1>12 DEF Handover, NewBlock, Fail, Mark, Crash, Boot
    <2> QED BY <1>1, <2>1
  <1>13. ASSUME NEW s \in Savers, ScanStep(s) PROVE Work'
    BY <1>1, <1>13 DEF ScanStep
  <1> QED BY <1>2, <1>3, <1>5, <1>6, <1>7, <1>8, <1>9, <1>10, <1>11, <1>12, <1>13
          DEF Next, Statement, UpToDate

\* What a saver does to the tables.
ScanCreates(s) ==
    /\ sPc[s] = "create" /\ sPc'[s] = "insert" /\ ~Exists(sCid[s])
    /\ \A c \in Cids : c = sCid[s] => Bare(c)' /\ file'[c].ver = first[c]
    /\ \A c \in Cids \ {sCid[s]} : SameRow(c)

ScanInserts(s) ==
    /\ sPc[s] = "insert" /\ sPc'[s] = "pick"
    /\ file' = file /\ replica'[IdOf(sCid[s])] = Batches(first[sCid[s]])
    /\ \A c \in Cids \ {sCid[s]} : SameRow(c)

\* A step of a saver that changes the tables is one of its two insertions.
LEMMA ScanWrites ==
    ASSUME TablesInv, NEW s \in Savers, ScanStep(s)
    PROVE  \/ UNCHANGED <<file, replica>> /\ sPc'[s] # "insert"
           \/ Scan!Create(s) /\ ScanCreates(s)
           \/ Scan!Insert(s) /\ ScanInserts(s)
  <1>1. Tables /\ Scan!Saver(s) /\ pc = "scan" /\ TypeOK /\ Saving
    BY DEF TablesInv, ScanStep
  <1>2. sPc \in [Savers -> {"pick", "query", "create", "insert", "error"}]
    BY <1>1 DEF TypeOK
  <1>3. CASE Scan!Pick(s) \/ Scan!Query(s) \/ Scan!Fail(s) \/ Scan!SaveError(s)
    <2>1. UNCHANGED tables
      BY <1>3 DEF Scan!Pick, Scan!Query, Scan!Fail, Scan!SaveError, Scan!tables, tables
    <2>2. sPc'[s] # "insert"
      BY <1>2, <1>3 DEF Scan!Pick, Scan!Query, Scan!Fail, Scan!SaveError, Scan!Goto
    <2> QED BY <2>1, <2>2 DEF tables
  <1>4. CASE Scan!Create(s)
    <2>1. sPc[s] = "create" /\ UNCHANGED <<sCid, sTodo, errored, diverged>>
      BY <1>4 DEF Scan!Create, Scan!Is
    <2>2. CASE Exists(sCid[s])
      <3>1. UNCHANGED tables /\ sPc' = [sPc EXCEPT ![s] = "pick"]
        BY <1>4, <2>2, SameStatements DEF Scan!Create, Scan!Goto, Scan!tables, tables
      <3> QED BY <1>2, <2>1, <3>1 DEF tables
    <2>3. CASE ~Exists(sCid[s])
      <3>1. CreateRow(sCid[s], first[sCid[s]]) /\ sPc' = [sPc EXCEPT ![s] = "insert"]
        BY <1>4, <2>3, SameStatements DEF Scan!Create, Scan!Goto
      <3>2. sCid[s] \in Cids /\ first[sCid[s]] \in Versions
        BY <2>1, ScanHand
      <3>3. /\ \A c \in Cids : c = sCid[s] => Bare(c)' /\ file'[c].ver = first[c]
            /\ \A c \in Cids \ {sCid[s]} : SameRow(c)
        <4>1. ASSUME NEW c \in Cids, c = sCid[s]
              PROVE  Bare(c)' /\ file'[c].ver = first[c] /\ \A d \in Cids \ {c} : SameRow(d)
          BY <1>1, <2>3, <3>1, <3>2, <4>1, Created
        <4> QED BY <3>2, <4>1
      <3> QED BY <1>2, <1>4, <2>1, <2>3, <3>1, <3>3 DEF ScanCreates
    <2> QED BY <2>2, <2>3
  <1>5. CASE Scan!Insert(s)
    <2>1. /\ sPc[s] = "insert" /\ InsertReplicas(IdOf(sCid[s]), first[sCid[s]])
          /\ sPc' = [sPc EXCEPT ![s] = "pick"] /\ UNCHANGED <<sCid, sTodo, errored, diverged>>
      BY <1>5, SameStatements DEF Scan!Insert, Scan!Is, Scan!Goto
    <2>2. Bare(sCid[s]) /\ sCid[s] \in Cids /\ first[sCid[s]] \in Versions
      BY <1>1, <2>1, ScanHand DEF Saving
    <2> QED BY <1>1, <1>2, <1>5, <2>1, <2>2, Inserted DEF ScanInserts
  <1>6. CASE Scan!CreateLost(s)
    <2>1. /\ sPc[s] = "create" /\ InsertOrphans(first[sCid[s]])
          /\ sPc' = [sPc EXCEPT ![s] = "pick"]
      BY <1>6, SameStatements DEF Scan!CreateLost, Scan!Is, Scan!Goto
    <2>2. UNCHANGED <<file, replica>>
      BY <2>1 DEF InsertOrphans
    <2> QED BY <1>2, <1>6, <2>1, <2>2
  <1> QED BY <1>1, <1>3, <1>4, <1>5, <1>6 DEF Scan!Saver

\* What nobody touches stays bare.
LEMMA SameBare ==
    ASSUME NEW c, SameRow(c), Bare(c)
    PROVE  Bare(c)' /\ file'[c].ver = file[c].ver
  BY DEF SameRow, Bare, Exists, IdOf

\* A saver that finds the row of another does not insert replicas for it.
LEMMA SavingStep ==
    ASSUME TablesInv, [Next]_vars
    PROVE  Saving'
  <1>0. TypeOK /\ Tables /\ Chain /\ Saving
        /\ sPc \in [Savers -> {"pick", "query", "create", "insert", "error"}]
    BY DEF TablesInv, TypeOK
  <1>1. first' = first /\ \A s : Scan!Found(s)' = Scan!Found(s)
    BY ChainStep DEF Scan!Found
  <1>2. ASSUME NEW s \in Savers, ScanStep(s) PROVE Saving'
    <2>1. /\ pc = "scan"
          /\ \A t \in Savers \ {s} : sPc'[t] = sPc[t] /\ sTodo'[t] = sTodo[t] /\ sCid'[t] = sCid[t]
          /\ \/ Scan!Pick(s) /\ sCid'[s] \in sTodo[s] /\ sTodo'[s] = sTodo[s] \ {sCid'[s]}
             \/ UNCHANGED <<sCid, sTodo>> /\ sPc[s] # "pick"
          /\ sCid[s] \in Cids
      BY <1>0, <1>2, ScanMoves, ScanHand
    <2>2. \A t \in Savers : /\ sTodo'[t] \subseteq Scan!Found(t)'
                            /\ sPc'[t] # "pick" => sCid'[t] \in Scan!Found(t)'
      BY <1>0, <1>1, <2>1 DEF Saving
    <2>3. /\ \A t \in Savers : sPc[t] = "insert" => Bare(sCid[t]) /\ file[sCid[t]].ver = first[sCid[t]]
          /\ \A t, u \in Savers :
               sPc[t] = "insert" /\ sPc[u] = "insert" /\ sCid[t] = sCid[u] => t = u
          /\ \A t \in Savers : sCid[t] \in Cids
      BY <1>0, <2>1, ScanHand DEF Saving
    <2>4. CASE UNCHANGED <<file, replica>> /\ sPc'[s] # "insert"
      <3>1. \A c \in Cids : SameRow(c)
        BY <2>4 DEF SameRow
      <3>2. \A t \in Savers : sPc'[t] = "insert" => t # s
        BY <2>4
      <3>3. ASSUME NEW t \in Savers, sPc'[t] = "insert"
            PROVE  Bare(sCid[t])' /\ file'[sCid'[t]].ver = first'[sCid'[t]]
        <4>1. Bare(sCid[t]) /\ sCid'[t] = sCid[t] /\ file[sCid[t]].ver = first[sCid[t]]
          BY <2>1, <2>3, <3>2, <3>3
        <4> QED BY <1>1, <2>4, <4>1 DEF Bare, Exists, IdOf
      <3>4. \A t, u \in Savers :
               sPc'[t] = "insert" /\ sPc'[u] = "insert" /\ sCid'[t] = sCid'[u] => t = u
        BY <2>1, <2>3, <3>2
      <3> QED BY <2>2, <3>3, <3>4 DEF Saving
    <2>5. CASE Scan!Create(s) /\ ScanCreates(s)
      <3>0. UNCHANGED <<sCid, sTodo>>
        BY <2>5 DEF Scan!Create
      <3>1. ASSUME NEW t \in Savers, sPc'[t] = "insert"
            PROVE  /\ Bare(sCid[t])' /\ file'[sCid'[t]].ver = first'[sCid'[t]]
                   /\ t = s \/ sCid[t] # sCid[s]
        <4>1. CASE t = s
          <5>1. ASSUME NEW c \in Cids, c = sCid[s] PROVE Bare(c)' /\ file'[c].ver = first[c]
            BY <2>5, <5>1 DEF ScanCreates
          <5> QED BY <1>1, <2>1, <3>0, <4>1, <5>1 DEF Bare, Exists, IdOf
        <4>2. CASE t # s
          <5>1. Bare(sCid[t]) /\ file[sCid[t]].ver = first[sCid[t]] /\ sCid[t] \in Cids
            BY <2>1, <2>3, <3>1, <4>2
          <5>2. sCid[t] # sCid[s]
            BY <2>5, <5>1 DEF ScanCreates, Bare
          <5>3. ASSUME NEW c \in Cids, c = sCid[t] PROVE Bare(c)' /\ file'[c].ver = first[c]
            BY <2>5, <5>1, <5>2, <5>3, SameBare DEF ScanCreates
          <5> QED BY <1>1, <3>0, <5>1, <5>2, <5>3 DEF Bare, Exists, IdOf
        <4> QED BY <4>1, <4>2
      <3>2. \A t, u \in Savers :
               sPc'[t] = "insert" /\ sPc'[u] = "insert" /\ sCid'[t] = sCid'[u] => t = u
        BY <2>1, <2>3, <3>0, <3>1
      <3> QED BY <2>2, <3>1, <3>2 DEF Saving
    <2>6. CASE Scan!Insert(s) /\ ScanInserts(s)
      <3>0. UNCHANGED <<sCid, sTodo>> /\ sPc'[s] = "pick" /\ sPc[s] = "insert"
        BY <2>6 DEF Scan!Insert, ScanInserts
      <3>1. ASSUME NEW t \in Savers, sPc'[t] = "insert"
            PROVE  Bare(sCid[t])' /\ file'[sCid'[t]].ver = first'[sCid'[t]] /\ sPc[t] = "insert"
        <4>1. t # s /\ sPc[t] = "insert"
          BY <2>1, <3>0, <3>1
        <4>2. Bare(sCid[t]) /\ file[sCid[t]].ver = first[sCid[t]] /\ sCid[t] # sCid[s] /\ sCid[t] \in Cids
          BY <2>3, <3>0, <4>1
        <4>3. ASSUME NEW c \in Cids, c = sCid[t] PROVE Bare(c)' /\ file'[c].ver = first[c]
          BY <2>6, <4>2, <4>3, SameBare DEF ScanInserts
        <4> QED BY <1>1, <3>0, <4>1, <4>2, <4>3 DEF Bare, Exists, IdOf
      <3>2. \A t, u \in Savers :
               sPc'[t] = "insert" /\ sPc'[u] = "insert" /\ sCid'[t] = sCid'[u] => t = u
        BY <2>3, <3>0, <3>1
      <3> QED BY <2>2, <3>1, <3>2 DEF Saving
    <2> QED BY <1>2, <2>4, <2>5, <2>6, ScanWrites
  <1>3. CASE UNCHANGED scan /\ pc' # "scan"
    BY <1>0, <1>1, <1>3 DEF scan, Saving
  <1>4. CASE Boot
    <2>1. CASE Scan!Restart
      <3>1. /\ sPc' = [t \in Savers |-> "pick"]
            /\ \A t \in Savers : sTodo'[t] \subseteq Scan!Found(t)
        BY <2>1 DEF Scan!Restart
      <3> QED BY <1>1, <3>1 DEF Saving
    <2>2. CASE pc' = "idle" /\ UNCHANGED scan
      BY <1>3, <2>2
    <2> QED BY <1>4, <2>1, <2>2 DEF Boot
  <1>5. CASE UNCHANGED vars
    <2>1. UNCHANGED <<scan, file, replica, pc>>
      BY <1>5 DEF vars, tables
    <2> QED BY <1>0, <1>1, <2>1 DEF scan, Saving, Bare, Exists, IdOf
  <1>6. CASE Handover \/ NewBlock \/ Classify \/ Statement \/ Fail \/ CreateLost \/ Mark \/ Crash
    <2>1. UNCHANGED scan
      BY <1>6 DEF Handover, NewBlock, Classify, Statement, Query, Create, Insert, Clear, Update,
             Delete, Fail, CreateLost, Mark, Crash, Leave, Continue
    <2>2. pc' # "scan"
      BY <1>6 DEF Handover, NewBlock, Classify, Statement, Query, Create, Insert, Clear, Update,
             Delete, Fail, CreateLost, Mark, Crash, Leave, Continue
    <2> QED BY <1>3, <2>1, <2>2
  <1>7. ASSUME NEW c \in Cids, Pick(c) PROVE Saving'
    BY <1>3, <1>7 DEF Pick
  <1> QED BY <1>2, <1>4, <1>5, <1>6, <1>7 DEF Next, UpToDate

\* No step breaks the first half of the inductive invariant.
LEMMA TablesInvStep ==
    ASSUME TablesInv, [Next]_vars
    PROVE  TablesInv'
  BY TablesStep, TypeStep, ChainStep, PositionStep, WorkStep, SavingStep DEF TablesInv

-----------------------------------------------------------------------------
(***************************************************************************)
(* The rows of one file.                                                   *)
(***************************************************************************)
\* As long as no block is added, what is said of blocks stays.
LEMMA SameBlocks ==
    ASSUME UNCHANGED <<first, hist>>
    PROVE  \A c, k : /\ At(c, k)' = At(c, k) /\ Fixes(c, k)' = Fixes(c, k)
                     /\ Rewrites(c, k)' = Rewrites(c, k)
                     /\ Blurred(c, k)' = Blurred(c, k) /\ FixedBehind(c, k)' = FixedBehind(c, k)
                     /\ hist'[k][c].ev = hist[k][c].ev
  BY DEF At, Fixes, Rewrites, Blurred, FixedBehind

\* As long as no block is added, a row that nobody touches stays right or wrong.
LEMMA SameRights ==
    ASSUME NEW c, SameRow(c), UNCHANGED <<first, hist>>
    PROVE  /\ Exists(c)' = Exists(c) /\ \A v : Row(c, v)' = Row(c, v)
           /\ \A b : Right(c, b)' = Right(c, b)
  <1>1. Exists(c)' = Exists(c) /\ \A v : Row(c, v)' = Row(c, v)
    BY DEF SameRow, Row, Agrees, Exists, IdOf
  <1>2. ASSUME NEW b PROVE Right(c, b)' = Right(c, b)
    <2>1. \A k : Fixes(c, k)' = Fixes(c, k) /\ At(c, k)' = At(c, k) /\ hist'[k] = hist[k]
      BY SameBlocks
    <2>2. ASSUME NEW k PROVE Row(c, At(c, k))' = Row(c, At(c, k))
      <3>0. At(c, k)' = At(c, k)
        BY SameBlocks
      <3>1. CASE Exists(c)
        <4>1. file'[c] = file[c] /\ replica'[file[c].id] = replica[file[c].id]
          BY <3>1 DEF SameRow, IdOf
        <4> QED BY <3>0, <4>1 DEF Row, Agrees, Exists, IdOf
      <3>2. CASE ~Exists(c)
        <4>1. ~Exists(c)'
          BY <1>1, <3>2
        <4> QED BY <3>0, <3>2, <4>1 DEF Row, Agrees
      <3> QED BY <3>1, <3>2
    <2> QED BY <2>1, <2>2 DEF Right
  <1> QED BY <1>1, <1>2

\* A file is judged by the blocks read so far; another one does no harm.
LEMMA NewBlockRight ==
    ASSUME Chain, NewBlock, NEW c \in Cids, NEW b \in 0 .. Len(hist), Right(c, b)
    PROVE  Right(c, b)'
  <1>1. /\ Len(hist) \in Nat /\ first' = first /\ UNCHANGED tables
        /\ Len(hist') = Len(hist) + 1 /\ \A k \in 1 .. Len(hist) : hist'[k] = hist[k]
    BY DEF NewBlock, Chain
  <1>2. \A k \in 0 .. Len(hist) : At(c, k)' = At(c, k)
    BY <1>1 DEF At
  <1>3. ASSUME NEW k \in 0 .. Len(hist) PROVE Row(c, At(c, k))' = Row(c, At(c, k))
    BY <1>1, <1>2 DEF Row, Agrees, Exists, IdOf, tables
  <1>4. CASE Row(c, At(c, b))
    BY <1>3, <1>4 DEF Right
  <1>5. CASE \E k \in b + 1 .. Len(hist) : Fixes(c, k)
    <2>1. PICK k \in b + 1 .. Len(hist) : Fixes(c, k)
      BY <1>5
    <2>2. Fixes(c, k)' /\ k \in b + 1 .. Len(hist')
      BY <1>1, <1>2, <2>1 DEF Fixes
    <2> QED BY <2>2 DEF Right
  <1>6. CASE \E k \in b + 1 .. Len(hist) :
               OpOf(hist[k][c].ev) = "New" /\ At(c, k - 1) = Gone /\ Row(c, At(c, k))
    <2>1. PICK k \in b + 1 .. Len(hist) :
               OpOf(hist[k][c].ev) = "New" /\ At(c, k - 1) = Gone /\ Row(c, At(c, k))
      BY <1>6
    <2>2. k \in b + 1 .. Len(hist') /\ k - 1 \in 0 .. Len(hist) /\ k \in 1 .. Len(hist)
      BY <1>1, <2>1
    <2>3. OpOf(hist'[k][c].ev) = "New" /\ At(c, k - 1)' = Gone /\ Row(c, At(c, k))'
      BY <1>1, <1>2, <1>3, <2>1, <2>2
    <2> QED BY <2>2, <2>3 DEF Right
  <1> QED BY <1>4, <1>5, <1>6 DEF Right

\* A block behind b that writes the rows from scratch makes up for anything.
LEMMA FixesRight ==
    ASSUME NEW c, NEW b \in Nat, NEW k \in b + 1 .. Len(hist), Fixes(c, k)
    PROVE  Right(c, b) /\ (UNCHANGED <<first, hist>> => Right(c, b)')
  BY SameBlocks DEF Right

\* The row of the right version is right.
LEMMA RowRight ==
    ASSUME NEW c, NEW k, NEW v, v = At(c, k), UNCHANGED <<first, hist>>, Row(c, v)'
    PROVE  Right(c, k)'
  <1>1. At(c, k)' = v
    BY SameBlocks
  <1>2. Row(c, At(c, k))'
    BY <1>1 DEF Row, Agrees
  <1> QED BY <1>2 DEF Right

\* So does the next block.
LEMMA FixedBehindRight ==
    ASSUME Chain, NEW c, NEW b \in Nat, FixedBehind(c, b)
    PROVE  Right(c, b)
  <1>1. b + 1 \in b + 1 .. Len(hist)
    BY DEF Chain, FixedBehind
  <1> QED BY <1>1 DEF FixedBehind, Right

\* A block is no better known from behind than from before.
LEMMA RightBack ==
    ASSUME Chain, NEW c \in Cids, NEW k \in 1 .. Len(hist), Right(c, k),
           Blurred(c, k) => FixedBehind(c, k)
    PROVE  Right(c, k - 1)
  <1>0. Len(hist) \in Nat /\ k - 1 \in 0 .. Len(hist) /\ k - 1 \in Nat /\ (k - 1) + 1 = k
    BY DEF Chain
  <1>1. CASE \E j \in k + 1 .. Len(hist) : Fixes(c, j)
    BY <1>0, <1>1 DEF Right
  <1>2. CASE \E j \in k + 1 .. Len(hist) :
               OpOf(hist[j][c].ev) = "New" /\ At(c, j - 1) = Gone /\ Row(c, At(c, j))
    BY <1>0, <1>2 DEF Right
  <1>3. CASE FixedBehind(c, k)
    <2>1. k + 1 \in (k - 1) + 1 .. Len(hist)
      BY <1>0, <1>3 DEF FixedBehind
    <2> QED BY <1>3, <2>1 DEF FixedBehind, Right
  <1>4. CASE Row(c, At(c, k)) /\ ~Blurred(c, k)
    <2>0. k \in (k - 1) + 1 .. Len(hist)
      BY <1>0
    <2>1. /\ hist[k][c].ev \subseteq Kinds
          /\ Legal(At(c, k - 1), hist[k][c].ev, At(c, k))
      BY BlockIs
    <2>2. CASE Fixes(c, k)
      BY <2>0, <2>2 DEF Right
    <2>3. CASE OpOf(hist[k][c].ev) = "New" /\ At(c, k - 1) = Gone
      BY <1>4, <2>0, <2>3 DEF Right
    <2>4. CASE ~Fixes(c, k) /\ ~(OpOf(hist[k][c].ev) = "New" /\ At(c, k - 1) = Gone)
      <3>1. At(c, k - 1) = At(c, k)
        BY <1>4, <2>1, <2>4, Ops DEF Fixes, Blurred
      <3> QED BY <1>4, <3>1 DEF Right
    <2> QED BY <2>2, <2>3, <2>4
  <1> QED BY <1>1, <1>2, <1>3, <1>4 DEF Right

\* A block that leaves a file alone.
LEMMA RightOn ==
    ASSUME Chain, NEW c \in Cids, NEW k \in 1 .. Len(hist), Right(c, k - 1),
           OpOf(hist[k][c].ev) # "Delete", OpOf(hist[k][c].ev) = "None" \/ At(c, k) = Gone
    PROVE  Right(c, k) /\ ~Blurred(c, k) /\ ~Fixes(c, k)
  <1>0. Len(hist) \in Nat /\ (k - 1) + 1 = k
    BY DEF Chain
  <1>1. /\ hist[k][c].ev \subseteq Kinds
        /\ Legal(At(c, k - 1), hist[k][c].ev, At(c, k))
    BY BlockIs
  <1>2. OpOf(hist[k][c].ev) \in {"None", "UpdateRep"} /\ At(c, k - 1) = At(c, k)
    BY <1>1, Ops
  <1>3. ~Blurred(c, k) /\ ~Fixes(c, k)
    BY <1>2 DEF Blurred, Fixes
  <1>4. \A j \in (k - 1) + 1 .. Len(hist) : j = k \/ j \in k + 1 .. Len(hist)
    BY <1>0
  <1> QED BY <1>2, <1>3, <1>4 DEF Right

\* An update of a row that has its replicas.
LEMMA RightUpdate ==
    ASSUME Chain, Tables, NEW c \in Cids, NEW k \in 1 .. Len(hist), Len(hist) <= k + 1,
           Right(c, k - 1), UNCHANGED <<first, hist>>, UpdateFile(c, At(c, k)),
           \/ OpOf(hist[k][c].ev) = "New" /\ Exists(c) /\ "report" \notin hist[k][c].ev
           \/ OpOf(hist[k][c].ev) = "UpdateBase"
    PROVE  Right(c, k)' /\ ~Blurred(c, k)
  <1>0. Len(hist) \in Nat /\ (k - 1) + 1 = k
    BY DEF Chain
  <1>1. /\ hist[k][c].ev \subseteq Kinds /\ At(c, k) \in Versions \cup {Gone}
        /\ Legal(At(c, k - 1), hist[k][c].ev, At(c, k))
    BY BlockIs
  <1>2. /\ ~Blurred(c, k) /\ ~Fixes(c, k) /\ At(c, k) # Gone /\ At(c, k) \in Versions
        /\ At(c, k - 1) = Gone => OpOf(hist[k][c].ev) = "New" /\ At(c, k) = 0
        /\ At(c, k - 1) # Gone => At(c, k) = At(c, k - 1)
    BY <1>1, Ops DEF Blurred, Fixes
  <1>3. /\ replica' = replica /\ Exists(c)' = Exists(c) /\ IdOf(c)' = IdOf(c)
        /\ Exists(c) /\ At(c, k) # 0 => file'[c].ver = At(c, k)
        /\ At(c, k) = 0 => file' = file
    BY <1>2, Updated
  <1>4. \A j : At(c, j)' = At(c, j) /\ Fixes(c, j)' = Fixes(c, j)
    BY SameBlocks
  <1>5. CASE Row(c, At(c, k))
    <2>1. Agrees(c, At(c, k))
      BY <1>2, <1>5 DEF Row
    <2>2. Exists(c)' /\ replica'[IdOf(c)'] = Batches(At(c, k))
          /\ file'[c].ver = At(c, k)
      BY <1>3, <2>1 DEF Agrees
    <2>3. Row(c, At(c, k))'
      BY <1>2, <1>4, <2>2 DEF Row, Agrees
    <2> QED BY <1>2, <2>3 DEF Right
  <1>6. CASE \E j \in k + 1 .. Len(hist) : Fixes(c, j)
    BY <1>2, <1>4, <1>6 DEF Right
  <1>7. CASE Row(c, At(c, k - 1))
    <2>1. At(c, k - 1) # Gone
      BY <1>2, <1>7 DEF Row
    <2> QED BY <1>2, <1>5, <1>7, <2>1
  <1>8. ASSUME NEW j \in (k - 1) + 1 .. Len(hist),
               OpOf(hist[j][c].ev) = "New", At(c, j - 1) = Gone, Row(c, At(c, j))
        PROVE  Right(c, k)'
    <2>1. j = k \/ j = k + 1
      BY <1>0
    <2>2. j # k + 1
      BY <1>2, <1>8
    <2> QED BY <1>5, <1>8, <2>1, <2>2
  <1>9. ASSUME NEW j \in (k - 1) + 1 .. Len(hist), Fixes(c, j) PROVE Right(c, k)'
    <2>1. j \in k + 1 .. Len(hist)
      BY <1>0, <1>2, <1>9
    <2> QED BY <1>6, <1>9, <2>1
  <1> QED BY <1>2, <1>7, <1>8, <1>9 DEF Right

\* Rows written from scratch.
LEMMA RowWritten ==
    ASSUME Tables, NEW c \in Cids, NEW v \in Versions
    PROVE  /\ /\ Exists(c) /\ replica[IdOf(c)] = Batches(v) /\ UpdateFile(c, v)
              /\ v = 0 => file[c].ver = 0
              => Row(c, v)'
           /\ Bare(c) /\ file[c].ver = v /\ InsertReplicas(IdOf(c), v) => Row(c, v)'
  <1>1. ASSUME Exists(c), replica[IdOf(c)] = Batches(v), UpdateFile(c, v), v = 0 => file[c].ver = 0
        PROVE  Row(c, v)'
    <2>1. /\ replica' = replica /\ Exists(c)' /\ IdOf(c)' = IdOf(c)
          /\ file'[c].ver = v
      BY <1>1, Updated
    <2> QED BY <1>1, <2>1 DEF Row, Agrees
  <1>2. ASSUME Bare(c), file[c].ver = v, InsertReplicas(IdOf(c), v) PROVE Row(c, v)'
    <2>1. file' = file /\ replica'[IdOf(c)] = Batches(v)
      BY <1>2, Inserted
    <2> QED BY <1>2, <2>1 DEF Row, Agrees, Exists, IdOf, Bare
  <1> QED BY <1>1, <1>2

-----------------------------------------------------------------------------
(***************************************************************************)
(* The statements of the listener, one after the other.                    *)
(***************************************************************************)
\* The block the listener is busy with.
LEMMA BlockAtHand ==
    ASSUME TablesInv, pc \in Busy
    PROVE  /\ cur \in 1 .. MaxBlock /\ cur \in 1 .. Len(hist) /\ cur - 1 \in 0 .. MaxBlock
           /\ Len(hist) <= cur + 1 /\ Len(hist) \in Nat /\ (cur - 1) + 1 = cur /\ cur - 1 \in Nat
  BY Types DEF TablesInv, Position

\* All a statement has to show is about the file at hand.
LEMMA StageStep ==
    ASSUME TablesInv, RowsInv, pc \in Stages, pc' \in Busy, UNCHANGED <<log, todo, cid, op>>,
           diverged' \in {diverged, diverged \cup {cid}},
           NEW c \in Cids, c = cid, NEW k \in 1 .. MaxBlock, k = cur, NEW b \in 0 .. MaxBlock, b = k - 1,
           \A d \in Cids \ {c} : SameRow(d),
           pc' \in Stages /\ c \notin diverged' => Right(c, b)' \/ (pc' = "insert" /\ op = "New"),
           pc' \in {"pick", "mark"} =>
             /\ (c \in diverged' => Rewrites(c, k)) => Right(c, k)'
             /\ c \notin diverged' => (Blurred(c, k) => FixedBehind(c, k)),
           pc' \in Stages /\ c \notin diverged' =>
             /\ pc' = "insert" /\ op = "New" => /\ file'[c].ver = At(c, k)
                                                /\ At(c, k - 1) = Gone \/ FixedBehind(c, k)
             /\ pc' \in {"query", "update"} /\ op = "New" /\ Exists(c)' =>
                  "report" \notin hist[k][c].ev
             /\ op = "Delete" => At(c, k) = Gone
    PROVE  RowsInv'
  <1>0. /\ UNCHANGED <<first, hist, bn, cur>> /\ pc' \notin {"scan", "down", "idle"}
        /\ pc \notin {"scan", "down", "idle", "pick", "mark"} /\ pc \in Busy
        /\ c \notin todo /\ c \notin todo' /\ cid' = c
        /\ \A x : x \in Busy <=> x \in Stages \/ x \in {"pick", "mark"}
    BY SameLog DEF Stages, Busy, TablesInv, Work
  <1>1. \A d, j : /\ At(d, j)' = At(d, j) /\ Rewrites(d, j)' = Rewrites(d, j)
                  /\ Blurred(d, j)' = Blurred(d, j) /\ FixedBehind(d, j)' = FixedBehind(d, j)
                  /\ hist'[j][d].ev = hist[j][d].ev
    BY <1>0, SameBlocks
  <1>2. ASSUME NEW d \in Cids \ {c}
        PROVE  /\ d \in diverged' <=> d \in diverged
               /\ Handled(d)' = Handled(d) /\ ~Halfway(d)
               /\ \A j : Right(d, j)' = Right(d, j)
    BY <1>0, SameRights DEF Handled, Halfway
  <1>3. Scanned'
    BY <1>0 DEF Scanned
  <1>4. Behind'
    <2> SUFFICES ASSUME NEW d \in Cids \ diverged', NEW e \in 0 .. MaxBlock, e = cur - 1
                 PROVE  Handled(d)' \/ Right(d, e)' \/ Halfway(d)'
      BY <1>0 DEF Behind
    <2>1. CASE d = c
      <3>1. CASE pc' \in Stages
        <4>1. Right(c, b)' \/ (pc' = "insert" /\ op' = "New" /\ c = cid')
          BY <1>0, <2>1, <3>1
        <4> QED BY <2>1, <4>1 DEF Halfway
      <3>2. CASE pc' \notin Stages
        BY <1>0, <2>1, <3>2 DEF Handled
      <3> QED BY <3>1, <3>2
    <2>2. CASE d # c
      <3>1. d \in Cids \ diverged
        BY <1>2, <2>2
      <3>2. Handled(d) \/ Right(d, e) \/ Halfway(d)
        BY <1>0, <3>1 DEF RowsInv, Behind
      <3> QED BY <1>2, <2>2, <3>2
    <2> QED BY <2>1, <2>2
  <1>5. Handling'
    <2> SUFFICES ASSUME NEW d \in Cids, NEW j \in 1 .. MaxBlock, j = cur, Handled(d)',
                        d \in diverged' => Rewrites(d, j)
                 PROVE  Right(d, j)'
      BY <1>0, <1>1 DEF Handling
    <2>1. CASE d = c
      <3>1. pc' \in {"pick", "mark"}
        BY <1>0, <2>1 DEF Handled
      <3> QED BY <2>1, <3>1
    <2>2. CASE d # c
      BY <1>0, <1>2, <2>2 DEF RowsInv, Handling
    <2> QED BY <2>1, <2>2
  <1>6. Hand'
    <2> SUFFICES ASSUME NEW d \in Cids \ diverged', NEW j \in 1 .. MaxBlock, pc' \in Stages, d = c, j = k
                 PROVE  /\ pc' = "insert" /\ op' = "New" =>
                             /\ file'[d].ver = At(d, j)
                             /\ At(d, j - 1) = Gone \/ FixedBehind(d, j)
                        /\ pc' \in {"query", "update"} /\ op' = "New" /\ Exists(d)' =>
                             "report" \notin hist[j][d].ev
                        /\ op' = "Delete" => At(d, j) = Gone
      BY <1>0, <1>1 DEF Hand
    <2> QED OBVIOUS
  <1>7. Known'
    <2> SUFFICES ASSUME NEW d \in Cids \ diverged', NEW j \in 1 .. MaxBlock,
                        j = bn \/ (j = cur /\ Handled(d)'), Blurred(d, j)
                 PROVE  FixedBehind(d, j)
      BY <1>0, <1>1 DEF Known
    <2>1. d \in Cids \ diverged
      BY <1>2
    <2>2. CASE j = bn \/ d # c
      BY <1>0, <1>2, <2>1, <2>2 DEF RowsInv, Known
    <2>3. CASE j # bn /\ d = c
      <3>1. pc' \in {"pick", "mark"}
        BY <1>0, <2>3 DEF Handled
      <3> QED BY <2>3, <3>1
    <2> QED BY <2>2, <2>3
  <1> QED BY <1>3, <1>4, <1>5, <1>6, <1>7 DEF RowsInv

\* The file the listener is busy with.
LEMMA HandIs ==
    ASSUME TablesInv, RowsInv, pc \in Stages,
           NEW c \in Cids, c = cid, NEW k \in 1 .. MaxBlock, k = cur, NEW b \in 0 .. MaxBlock, b = k - 1
    PROVE  /\ k \in 1 .. Len(hist) /\ Len(hist) \in Nat /\ Len(hist) <= k + 1
           /\ b \in Nat /\ b + 1 = k /\ k \in b + 1 .. Len(hist)
           /\ OpOf(hist[k][c].ev) = op /\ At(c, k) = After(cid)
           /\ op # "Delete" => At(c, k) \in Versions /\ At(c, k) # Gone
           /\ op \in {"New", "UpdateBase"} => ~Rewrites(c, k) /\ ~Fixes(c, k)
           /\ op = "UpdateRep" => Fixes(c, k) /\ ~Blurred(c, k)
           /\ op = "UpdateRep" /\ Rewrites(c, k) => At(c, k) # 0
           /\ op = "Delete" /\ At(c, k) = Gone => Fixes(c, k) /\ ~Blurred(c, k)
           /\ op = "Delete" /\ Rewrites(c, k) => At(c, k) = Gone
           /\ c \notin diverged => Right(c, b) \/ (pc = "insert" /\ op = "New")
  <1>1. k \in 1 .. Len(hist) /\ Len(hist) <= k + 1 /\ Len(hist) \in Nat
    BY BlockAtHand DEF Busy
  <1>2. OpOf(hist[k][c].ev) = op /\ At(c, k) = After(cid)
        /\ (op # "Delete" => At(c, k) \in Versions /\ At(c, k) # Gone)
    BY AtHand DEF After
  <1>3. c \notin diverged => Right(c, b) \/ (pc = "insert" /\ op = "New")
    <2>1. ~Handled(c) /\ (Halfway(c) => pc = "insert" /\ op = "New") /\ pc \in Busy /\ b = cur - 1
      BY DEF Handled, Halfway, Busy, Stages
    <2> QED BY <2>1 DEF RowsInv, Behind
  <1> QED BY <1>1, <1>2, <1>3 DEF Fixes, Rewrites, Blurred

\* QueryFileByCid finds the row or not, and goes on accordingly.
LEMMA QueryRows ==
    ASSUME TablesInv, RowsInv, Query
    PROVE  RowsInv'
  <1>1. /\ pc = "query" /\ UNCHANGED <<log, todo, cid, op, tables, diverged>> /\ pc' \in Busy
    BY DEF Query, Leave, Continue, Busy, Stages
  <1>2. \/ op = "Delete"    /\ ~Exists(cid) /\ pc' \in {"mark", "pick"}
        \/ op = "New"       /\ Exists(cid)  /\ pc' = "update"
        \/ op = "New"       /\ ~Exists(cid) /\ pc' = "create"
        \/ op = "UpdateRep" /\ Exists(cid)  /\ pc' = "clear"
        \/ op = "UpdateRep" /\ ~Exists(cid) /\ pc' = "create"
        \/ op = "Delete"    /\ Exists(cid)  /\ pc' = "clear"
    BY DEF Query, Leave, Continue
  <1>3. pc \in Stages /\ cur \in 1 .. MaxBlock /\ cur - 1 \in 0 .. MaxBlock /\ cid \in Cids
    BY <1>1, BlockAtHand, AtHand DEF Stages, Busy
  <1>4. PICK c \in Cids, k \in 1 .. MaxBlock, b \in 0 .. MaxBlock : c = cid /\ k = cur /\ b = k - 1
    BY <1>3
  <1>5. /\ \A d \in Cids : SameRow(d)
        /\ UNCHANGED <<first, hist>>
    BY <1>1 DEF tables, SameRow, log
  <1>6. Exists(c)' = Exists(c) /\ Right(c, b)' = Right(c, b) /\ \A v : Row(c, v)' = Row(c, v)
    BY <1>5, SameRights
  <1>7. c \notin diverged => Right(c, b) /\ (op = "Delete" => At(c, k) = Gone)
                             /\ (op = "New" /\ Exists(c) => "report" \notin hist[k][c].ev)
    <2>1. c \notin diverged => Right(c, b)
      BY <1>1, <1>3, <1>4, HandIs
    <2> QED BY <1>1, <1>3, <1>4, <2>1 DEF RowsInv, Hand
  <1>8. pc' \in {"pick", "mark"} =>
             /\ (c \in diverged' => Rewrites(c, k)) => Right(c, k)'
             /\ c \notin diverged' => (Blurred(c, k) => FixedBehind(c, k))
    <2> SUFFICES ASSUME pc' \in {"pick", "mark"}, c \notin diverged \/ Rewrites(c, k)
                 PROVE  Right(c, k)' /\ ~Blurred(c, k)
      BY <1>1
    <2>1. op = "Delete" /\ ~Exists(c)
      BY <1>2, <1>4
    <2>2. At(c, k) = Gone /\ ~Blurred(c, k)
      BY <1>3, <1>4, <1>7, <2>1, HandIs
    <2>3. Row(c, Gone)'
      BY <1>6, <2>1 DEF Row
    <2> QED BY <1>5, <2>2, <2>3, RowRight
  <1>9. pc' \in Stages /\ c \notin diverged' => Right(c, b)' \/ (pc' = "insert" /\ op = "New")
    BY <1>1, <1>6, <1>7
  <1>10. pc' \in Stages /\ c \notin diverged' =>
             /\ pc' = "insert" /\ op = "New" => /\ file'[c].ver = At(c, k)
                                                /\ At(c, k - 1) = Gone \/ FixedBehind(c, k)
             /\ pc' \in {"query", "update"} /\ op = "New" /\ Exists(c)' =>
                  "report" \notin hist[k][c].ev
             /\ op = "Delete" => At(c, k) = Gone
    BY <1>1, <1>2, <1>6, <1>7
  <1> QED BY <1>1, <1>3, <1>4, <1>5, <1>8, <1>9, <1>10, StageStep

\* The row of a new file is on its way to the version of the block.
LEMMA CreateRows ==
    ASSUME TablesInv, RowsInv, Create
    PROVE  RowsInv'
  <1>1. /\ pc = "create" /\ UNCHANGED <<log, todo, cid, op, diverged>> /\ pc' \in Busy
        /\ CreateRow(cid, After(cid)) /\ pc' = (IF op = "New" THEN "insert" ELSE "clear")
    BY DEF Create, Continue, Busy, Stages
  <1>2. pc \in Stages /\ cur \in 1 .. MaxBlock /\ cur - 1 \in 0 .. MaxBlock /\ cid \in Cids
    BY <1>1, BlockAtHand, AtHand DEF Stages, Busy
  <1>3. PICK c \in Cids, k \in 1 .. MaxBlock, b \in 0 .. MaxBlock : c = cid /\ k = cur /\ b = k - 1
    BY <1>2
  <1>4. op \in {"New", "UpdateRep"} /\ ~Exists(c) /\ CreateRow(c, At(c, k)) /\ At(c, k) \in Versions
    BY <1>1, <1>2, <1>3, HandIs DEF TablesInv, Work
  <1>5. file'[c].ver = At(c, k) /\ \A d \in Cids \ {c} : SameRow(d)
    BY <1>4, Created DEF TablesInv
  <1>6. UNCHANGED <<first, hist>>
    BY <1>1 DEF log
  <1>7. ASSUME op = "New", c \notin diverged PROVE At(c, k - 1) = Gone \/ FixedBehind(c, k)
    <2>1. /\ Right(c, b) /\ OpOf(hist[k][c].ev) = "New" /\ ~Fixes(c, k) /\ Len(hist) \in Nat
          /\ Len(hist) <= k + 1 /\ b + 1 = k
      BY <1>1, <1>2, <1>3, <1>7, HandIs
    <2>2. CASE Row(c, At(c, b))
      BY <1>3, <1>4, <2>2 DEF Row, Agrees
    <2>3. ASSUME NEW j \in b + 1 .. Len(hist), Fixes(c, j) PROVE FixedBehind(c, k)
      <3>1. j = k + 1 /\ k < Len(hist)
        BY <2>1, <2>3
      <3> QED BY <2>3, <3>1 DEF FixedBehind
    <2>4. ASSUME NEW j \in b + 1 .. Len(hist), OpOf(hist[j][c].ev) = "New", Row(c, At(c, j))
          PROVE  FALSE
      <3>1. j \in 1 .. Len(hist) /\ j \in 0 .. Len(hist) /\ j > 0
        BY <2>1
      <3>2. At(c, j) # Gone
        BY <2>4, <3>1, BlockIs, Ops DEF TablesInv
      <3> QED BY <1>4, <2>4, <3>2 DEF Row, Agrees
    <2> QED BY <2>1, <2>2, <2>3, <2>4, <1>3 DEF Right
  <1>8. op = "UpdateRep" => Right(c, b)'
    BY <1>1, <1>2, <1>3, <1>6, HandIs, FixesRight
  <1>9. pc' \in Stages /\ c \notin diverged' => Right(c, b)' \/ (pc' = "insert" /\ op = "New")
    BY <1>1, <1>4, <1>8
  <1>10. pc' \in Stages /\ c \notin diverged' =>
             /\ pc' = "insert" /\ op = "New" => /\ file'[c].ver = At(c, k)
                                                /\ At(c, k - 1) = Gone \/ FixedBehind(c, k)
             /\ pc' \in {"query", "update"} /\ op = "New" /\ Exists(c)' =>
                  "report" \notin hist[k][c].ev
             /\ op = "Delete" => At(c, k) = Gone
    BY <1>1, <1>4, <1>5, <1>7
  <1>11. pc' \notin {"pick", "mark"}
    BY <1>1
  <1> QED BY <1>1, <1>2, <1>3, <1>5, <1>9, <1>10, <1>11, StageStep

\* With its replicas the file has the version of the block.
LEMMA InsertRows ==
    ASSUME TablesInv, RowsInv, Insert
    PROVE  RowsInv'
  <1>1. /\ pc = "insert" /\ UNCHANGED <<log, todo, cid, op, diverged>> /\ pc' \in Busy
        /\ InsertReplicas(IdOf(cid), After(cid))
        /\ \/ op = "New" /\ pc' \in {"pick", "mark"}
           \/ op # "New" /\ pc' = "update"
    BY DEF Insert, Leave, Continue, Busy, Stages
  <1>2. pc \in Stages /\ cur \in 1 .. MaxBlock /\ cur - 1 \in 0 .. MaxBlock /\ cid \in Cids
    BY <1>1, BlockAtHand, AtHand DEF Stages, Busy
  <1>3. PICK c \in Cids, k \in 1 .. MaxBlock, b \in 0 .. MaxBlock : c = cid /\ k = cur /\ b = k - 1
    BY <1>2
  <1>4. /\ op \in {"New", "UpdateRep"} /\ Bare(c)
        /\ InsertReplicas(IdOf(c), At(c, k)) /\ At(c, k) \in Versions
    BY <1>1, <1>2, <1>3, HandIs DEF TablesInv, Work
  <1>5. \A d \in Cids \ {c} : SameRow(d)
    BY <1>4, Inserted DEF TablesInv
  <1>6. UNCHANGED <<first, hist>>
    BY <1>1 DEF log
  <1>7. ASSUME op = "New", c \notin diverged
        PROVE  Right(c, k)' /\ (Blurred(c, k) => FixedBehind(c, k))
    <2>1. file[c].ver = At(c, k) /\ (At(c, k - 1) = Gone \/ FixedBehind(c, k))
      BY <1>1, <1>2, <1>3, <1>7 DEF RowsInv, Hand
    <2>2. PICK v \in Versions : v = At(c, k)
      BY <1>4
    <2>3. Row(c, v)'
      BY <1>4, <2>1, <2>2, RowWritten DEF TablesInv
    <2>4. OpOf(hist[k][c].ev) = "New"
      BY <1>2, <1>3, <1>7, HandIs
    <2> QED BY <1>6, <2>1, <2>2, <2>3, <2>4, RowRight DEF Blurred
  <1>8. op = "New" => ~Rewrites(c, k)
    BY <1>2, <1>3, HandIs
  <1>9. op = "UpdateRep" => Right(c, b)'
    BY <1>2, <1>3, <1>6, HandIs, FixesRight
  <1>10. pc' \in {"pick", "mark"} =>
             /\ (c \in diverged' => Rewrites(c, k)) => Right(c, k)'
             /\ c \notin diverged' => (Blurred(c, k) => FixedBehind(c, k))
    BY <1>1, <1>7, <1>8
  <1>11. pc' \in Stages /\ c \notin diverged' => Right(c, b)' \/ (pc' = "insert" /\ op = "New")
    BY <1>1, <1>4, <1>9 DEF Stages
  <1>12. pc' \in Stages /\ c \notin diverged' =>
             /\ pc' = "insert" /\ op = "New" => /\ file'[c].ver = At(c, k)
                                                /\ At(c, k - 1) = Gone \/ FixedBehind(c, k)
             /\ pc' \in {"query", "update"} /\ op = "New" /\ Exists(c)' =>
                  "report" \notin hist[k][c].ev
             /\ op = "Delete" => At(c, k) = Gone
    BY <1>1, <1>4 DEF Stages
  <1> QED BY <1>1, <1>2, <1>3, <1>5, <1>10, <1>11, <1>12, StageStep

\* The old replicas are gone, the new ones are next.
LEMMA ClearRows ==
    ASSUME TablesInv, RowsInv, Clear
    PROVE  RowsInv'
  <1>1. /\ pc = "clear" /\ UNCHANGED <<log, todo, cid, op, diverged>> /\ pc' \in Busy
        /\ DeleteReplicas(IdOf(cid)) /\ pc' = (IF op = "Delete" THEN "delete" ELSE "insert")
    BY DEF Clear, Continue, Busy, Stages
  <1>2. pc \in Stages /\ cur \in 1 .. MaxBlock /\ cur - 1 \in 0 .. MaxBlock /\ cid \in Cids
    BY <1>1, BlockAtHand, AtHand DEF Stages, Busy
  <1>3. PICK c \in Cids, k \in 1 .. MaxBlock, b \in 0 .. MaxBlock : c = cid /\ k = cur /\ b = k - 1
    BY <1>2
  <1>4. op \in {"UpdateRep", "Delete"} /\ Exists(c) /\ DeleteReplicas(IdOf(c))
    BY <1>1, <1>3 DEF TablesInv, Work
  <1>5. \A d \in Cids \ {c} : SameRow(d)
    BY <1>4, Cleared DEF TablesInv
  <1>6. UNCHANGED <<first, hist>>
    BY <1>1 DEF log
  <1>7. c \notin diverged /\ op = "Delete" => At(c, k) = Gone
    BY <1>1, <1>2, <1>3 DEF RowsInv, Hand
  <1>8. c \notin diverged => Right(c, b)'
    BY <1>2, <1>3, <1>4, <1>6, <1>7, HandIs, FixesRight
  <1>9. pc' \in Stages /\ c \notin diverged' => Right(c, b)' \/ (pc' = "insert" /\ op = "New")
    BY <1>1, <1>8
  <1>10. pc' \in Stages /\ c \notin diverged' =>
             /\ pc' = "insert" /\ op = "New" => /\ file'[c].ver = At(c, k)
                                                /\ At(c, k - 1) = Gone \/ FixedBehind(c, k)
             /\ pc' \in {"query", "update"} /\ op = "New" /\ Exists(c)' =>
                  "report" \notin hist[k][c].ev
             /\ op = "Delete" => At(c, k) = Gone
    BY <1>1, <1>4, <1>7
  <1>11. pc' \notin {"pick", "mark"}
    BY <1>1
  <1> QED BY <1>1, <1>2, <1>3, <1>5, <1>9, <1>10, <1>11, StageStep

\* An update of the base columns keeps the version, and the old count is known to
\* be left behind.
LEMMA UpdateRows ==
    ASSUME TablesInv, RowsInv, Update
    PROVE  RowsInv'
  <1>1. /\ pc = "update" /\ UNCHANGED <<log, todo, cid, op>>
        /\ pc' \in {"pick", "mark"} /\ pc' \in Busy /\ UpdateFile(cid, After(cid))
        /\ diverged' \in {diverged, diverged \cup {cid}}
        /\ cid \notin diverged' /\ Exists(cid) /\ After(cid) = 0 => file[cid].ver = 0
    BY DEF Update, Leave, Busy
  <1>2. pc \in Stages /\ cur \in 1 .. MaxBlock /\ cur - 1 \in 0 .. MaxBlock /\ cid \in Cids
    BY <1>1, BlockAtHand, AtHand DEF Stages, Busy
  <1>3. PICK c \in Cids, k \in 1 .. MaxBlock, b \in 0 .. MaxBlock : c = cid /\ k = cur /\ b = k - 1
    BY <1>2
  <1>4. /\ op \in {"New", "UpdateRep", "UpdateBase"} /\ UpdateFile(c, At(c, k)) /\ At(c, k) \in Versions
        /\ op = "New" => Exists(c)
        /\ op = "UpdateRep" => Exists(c) /\ replica[IdOf(c)] = Batches(At(c, k))
    BY <1>1, <1>2, <1>3, HandIs DEF TablesInv, Work
  <1>5. \A d \in Cids \ {c} : SameRow(d)
    BY <1>4, Updated DEF TablesInv
  <1>6. UNCHANGED <<first, hist>>
    BY <1>1 DEF log
  <1>7. CASE op = "UpdateRep"
    <2>1. PICK v \in Versions : v = At(c, k)
      BY <1>4
    <2>2. /\ ~Blurred(c, k) /\ At(c, k) = After(cid)
          /\ c \notin diverged' \/ Rewrites(c, k) => (v = 0 => file[c].ver = 0)
      BY <1>1, <1>2, <1>3, <1>4, <1>7, <2>1, HandIs
    <2>3. ASSUME c \notin diverged' \/ Rewrites(c, k) PROVE Right(c, k)'
      <3>1. Row(c, v)'
        BY <1>4, <1>7, <2>1, <2>2, <2>3, RowWritten DEF TablesInv
      <3> QED BY <1>6, <2>1, <3>1, RowRight
    <2> QED BY <1>1, <1>2, <1>3, <1>5, <2>2, <2>3, StageStep DEF Stages
  <1>8. CASE op # "UpdateRep"
    <2>1. ~Rewrites(c, k)
      BY <1>2, <1>3, <1>4, <1>8, HandIs
    <2>2. ASSUME c \notin diverged PROVE Right(c, k)' /\ ~Blurred(c, k)
      <3>1. /\ Right(c, b) /\ k \in 1 .. Len(hist) /\ Len(hist) <= k + 1 /\ b = k - 1
            /\ OpOf(hist[k][c].ev) = op
        BY <1>1, <1>2, <1>3, <2>2, HandIs
      <3>2. op = "New" => "report" \notin hist[k][c].ev
        BY <1>1, <1>2, <1>3, <1>4, <2>2 DEF RowsInv, Hand
      <3> QED BY <1>4, <1>6, <1>8, <3>1, <3>2, RightUpdate DEF TablesInv
    <2> QED BY <1>1, <1>2, <1>3, <1>5, <2>1, <2>2, StageStep DEF Stages
  <1> QED BY <1>7, <1>8

\* The file is gone, as it is on the chain.
LEMMA DeleteRows ==
    ASSUME TablesInv, RowsInv, Delete
    PROVE  RowsInv'
  <1>1. /\ pc = "delete" /\ UNCHANGED <<log, todo, cid, op, diverged>>
        /\ pc' \in {"pick", "mark"} /\ pc' \in Busy /\ DeleteRow(cid)
    BY DEF Delete, Leave, Busy
  <1>2. pc \in Stages /\ cur \in 1 .. MaxBlock /\ cur - 1 \in 0 .. MaxBlock /\ cid \in Cids
    BY <1>1, BlockAtHand, AtHand DEF Stages, Busy
  <1>3. PICK c \in Cids, k \in 1 .. MaxBlock, b \in 0 .. MaxBlock : c = cid /\ k = cur /\ b = k - 1
    BY <1>2
  <1>4. op = "Delete" /\ Bare(c) /\ DeleteRow(c)
    BY <1>1, <1>3 DEF TablesInv, Work
  <1>5. ~Exists(c)' /\ \A d \in Cids \ {c} : SameRow(d)
    BY <1>4, Deleted DEF TablesInv
  <1>6. UNCHANGED <<first, hist>>
    BY <1>1 DEF log
  <1>7. c \notin diverged \/ Rewrites(c, k) => At(c, k) = Gone
    <2>1. c \notin diverged => At(c, k) = Gone
      BY <1>1, <1>2, <1>3, <1>4 DEF RowsInv, Hand
    <2> QED BY <1>2, <1>3, <1>4, <2>1, HandIs
  <1>8. c \notin diverged \/ Rewrites(c, k) => Right(c, k)' /\ ~Blurred(c, k)
    <2>1. Row(c, Gone)'
      BY <1>5 DEF Row
    <2> QED BY <1>2, <1>3, <1>4, <1>6, <1>7, <2>1, HandIs, RowRight
  <1> QED BY <1>1, <1>2, <1>3, <1>5, <1>8, StageStep DEF Stages

\* A driver error taken for success is one of the named causes.
LEMMA CreateLostRows ==
    ASSUME TablesInv, RowsInv, CreateLost
    PROVE  RowsInv'
  <1>1. /\ pc = "create" /\ op = "New" /\ UNCHANGED <<log, todo, cid, op>>
        /\ pc' \in {"pick", "mark"} /\ pc' \in Busy /\ InsertOrphans(After(cid))
        /\ diverged' = diverged \cup {cid}
    BY DEF CreateLost, Busy
  <1>2. pc \in Stages /\ cur \in 1 .. MaxBlock /\ cur - 1 \in 0 .. MaxBlock /\ cid \in Cids
    BY <1>1, BlockAtHand, AtHand DEF Stages, Busy
  <1>3. PICK c \in Cids, k \in 1 .. MaxBlock, b \in 0 .. MaxBlock : c = cid /\ k = cur /\ b = k - 1
    BY <1>2
  <1>4. \A d \in Cids : SameRow(d)
    BY <1>1 DEF InsertOrphans, SameRow
  <1>5. ~Rewrites(c, k) /\ c \in diverged'
    BY <1>1, <1>2, <1>3, HandIs
  <1> QED BY <1>1, <1>2, <1>3, <1>4, <1>5, StageStep DEF Stages

-----------------------------------------------------------------------------
(***************************************************************************)
(* The block as a whole, the end of the scan and restarts.                 *)
(***************************************************************************)
\* Whenever the listener stops, it can begin again before the block at hand.
LEMMA AllBehind ==
    ASSUME TablesInv, RowsInv, pc \in Busy \cup {"idle"}, NEW c \in Cids \ diverged, c \notin TornInsert,
           NEW b \in 0 .. MaxBlock, b = cur - 1
    PROVE  Right(c, b)
  <1>0. Chain /\ Tables
    BY DEF TablesInv
  <1>1. (pc \in Busy /\ Handled(c)) \/ Right(c, b) \/ Halfway(c)
    BY DEF RowsInv, Behind
  <1>2. CASE pc \in Busy /\ Handled(c)
    <2>1. PICK k \in 1 .. MaxBlock : k = cur /\ k \in 1 .. Len(hist)
      BY <1>2, BlockAtHand
    <2>2. Right(c, k) /\ (Blurred(c, k) => FixedBehind(c, k))
      BY <1>2, <2>1 DEF RowsInv, Handling, Known
    <2>3. Right(c, k - 1) /\ b = k - 1
      BY <1>0, <2>1, <2>2, RightBack
    <2> QED BY <2>3
  <1>3. CASE Halfway(c)
    <2>1. pc = "insert" /\ op = "New" /\ c = cid /\ pc \in Busy /\ pc \in Stages
      BY <1>3 DEF Halfway, Busy, Stages
    <2>2. PICK k \in 1 .. MaxBlock : k = cur /\ b = k - 1
      BY <2>1, BlockAtHand
    <2>3. /\ k \in 1 .. Len(hist) /\ b \in Nat /\ b + 1 = k /\ k \in b + 1 .. Len(hist)
          /\ OpOf(hist[k][c].ev) = "New" /\ At(c, k) \in Versions /\ At(c, k) # Gone
          /\ At(c, k) = After(cid)
      BY <2>1, <2>2, HandIs
    <2>4. Bare(c) /\ file[c].ver = At(c, k) /\ (At(c, k - 1) = Gone \/ FixedBehind(c, k))
      BY <2>1, <2>2 DEF RowsInv, Hand, TablesInv, Work
    <2>5. CASE FixedBehind(c, k)
      <3>1. Fixes(c, k + 1) /\ k + 1 \in b + 1 .. Len(hist)
        BY <1>0, <2>3, <2>5 DEF FixedBehind, Chain
      <3> QED BY <2>3, <3>1, FixesRight
    <2>6. CASE At(c, k - 1) = Gone
      <3>1. ~Torn(c, At(c, k))
        BY <2>1, <2>3 DEF TornInsert
      <3>2. Batches(At(c, k)) = <<>>
        BY <2>4, <3>1 DEF Torn, Bare
      <3>3. At(c, k) = 0
        BY <3>2 DEF Batches
      <3>4. Row(c, At(c, k))
        BY <2>3, <2>4, <3>2, <3>3 DEF Row, Agrees, Bare
      <3> QED BY <2>3, <2>6, <3>4 DEF Right
    <2> QED BY <2>4, <2>5, <2>6
  <1> QED BY <1>1, <1>2, <1>3

\* Whatever is done with the file at hand, a restart repeats its block, and finds it
\* right or fixed later, unless an insert was torn.
LEMMA IdleRows ==
    ASSUME TablesInv, RowsInv, pc \in Busy, pc' = "idle", UNCHANGED <<tables, log>>,
           diverged' = diverged \cup TornInsert
    PROVE  RowsInv'
  <1>1. /\ pc' \notin Busy /\ UNCHANGED <<first, hist, bn, cur>> /\ \A d \in Cids : SameRow(d)
    BY DEF Busy, Stages, tables, log, SameRow
  <1>2. Scanned' /\ Handling' /\ Hand'
    BY <1>1 DEF Scanned, Handling, Hand, Stages
  <1>3. Behind'
    <2> SUFFICES ASSUME NEW c \in Cids \ diverged', NEW b \in 0 .. MaxBlock, b = cur - 1
                 PROVE  Right(c, b)'
      BY <1>1 DEF Behind
    <2>1. Right(c, b)
      BY AllBehind
    <2> QED BY <1>1, <2>1, SameRights
  <1>4. Known'
    <2> SUFFICES ASSUME NEW c \in Cids \ diverged', NEW k \in 1 .. MaxBlock, k = bn, Blurred(c, k)
                 PROVE  FixedBehind(c, k)
      BY <1>1, SameBlocks DEF Known
    <2> QED BY DEF RowsInv, Known
  <1> QED BY <1>2, <1>3, <1>4 DEF RowsInv

\* The files of the block are done when it is marked.
LEMMA MarkRows ==
    ASSUME TablesInv, RowsInv, Mark
    PROVE  RowsInv'
  <1>1. /\ pc = "mark" /\ pc \in Busy /\ pc \notin Stages /\ pc' = "idle" /\ pc' \notin Busy
        /\ UNCHANGED <<tables, first, hist>> /\ TornInsert = {}
        /\ \A d \in Cids : SameRow(d)
        /\ \/ UNCHANGED <<bn, cur, diverged>>
           \/ bn' = cur /\ cur' = cur + 1 /\ diverged' = diverged \ Rewritten
    BY DEF Mark, Busy, Stages, TornInsert, tables, SameRow
  <1>2. CASE UNCHANGED <<bn, cur, diverged>>
    BY <1>1, <1>2, IdleRows DEF log
  <1>3. CASE bn' = cur /\ cur' = cur + 1 /\ diverged' = diverged \ Rewritten
    <2>1. cur \in 1 .. MaxBlock
      BY <1>1, BlockAtHand
    <2>2. ASSUME NEW c \in Cids
          PROVE  /\ Handled(c)
                 /\ c \notin diverged' <=> c \notin diverged \/ Rewrites(c, cur)
      <3>1. c \in Rewritten <=> Rewrites(c, cur)
        BY DEF Rewritten, Rewrites, After
      <3> QED BY <1>1, <1>3, <3>1 DEF TablesInv, Work, Handled
    <2>3. Scanned' /\ Handling' /\ Hand'
      BY <1>1 DEF Scanned, Handling, Hand, Stages
    <2>4. Behind'
      <3> SUFFICES ASSUME NEW c \in Cids \ diverged', NEW b \in 0 .. MaxBlock, b = cur' - 1
                   PROVE  Right(c, b)'
        BY <1>1 DEF Behind
      <3>1. b = cur /\ b \in 1 .. MaxBlock
        BY <1>3, <2>1
      <3>2. Right(c, b)
        BY <1>1, <2>2, <3>1 DEF RowsInv, Handling
      <3> QED BY <1>1, <3>2, SameRights
    <2>5. Known'
      <3> SUFFICES ASSUME NEW c \in Cids \ diverged', NEW k \in 1 .. MaxBlock, k = cur, Blurred(c, k)
                   PROVE  FixedBehind(c, k)
        BY <1>1, <1>3, SameBlocks DEF Known
      <3>1. ~Rewrites(c, k)
        BY DEF Rewrites, Blurred
      <3>2. c \notin diverged /\ Handled(c)
        BY <2>2, <3>1
      <3> QED BY <1>1, <3>2 DEF RowsInv, Known
    <2> QED BY <2>3, <2>4, <2>5 DEF RowsInv
  <1> QED BY <1>1, <1>2, <1>3

\* A saver that is stopped between its two statements with nothing to insert.
LEMMA NotTorn ==
    ASSUME TablesInv, pc = "scan", NEW s \in Savers, sPc[s] = "insert",
           NEW c \in Cids, c = sCid[s], c \notin Scan!TornBy(s)
    PROVE  Right(c, 0)
  <1>1. Bare(c) /\ file[c].ver = first[c] /\ first[c] # Gone
    BY ScanHand DEF TablesInv, Saving
  <1>2. ~Torn(c, first[c])
    BY SameStatements DEF Scan!TornBy, Scan!Is
  <1>3. Agrees(c, first[c])
    BY <1>1, <1>2 DEF Agrees, Torn, Bare
  <1> QED BY <1>1, <1>3 DEF Right, Row, At

\* A crash leaves the files as they are: at the block at hand, or at the one before.
LEMMA CrashRows ==
    ASSUME TablesInv, RowsInv, Crash
    PROVE  RowsInv'
  <1>0. Tables /\ Chain /\ Position /\ TypeOK /\ Saving
    BY DEF TablesInv
  <1>1. /\ pc # "down" /\ pc' = "down" /\ pc' \notin Busy /\ pc' \notin Stages
        /\ UNCHANGED <<tables, first, hist, bn, cur, scan>>
        /\ \A d \in Cids : SameRow(d)
        /\ diverged' = diverged \cup (IF pc = "scan" THEN UNION {Scan!TornBy(s) : s \in Savers}
                                                    ELSE TornInsert)
    BY DEF Crash, Busy, Stages, tables, log, SameRow
  <1>2. Handling' /\ Hand'
    BY <1>1 DEF Handling, Hand
  <1>3. Known'
    <2> SUFFICES ASSUME NEW c \in Cids \ diverged', NEW k \in 1 .. MaxBlock, k = bn, Blurred(c, k)
                 PROVE  FixedBehind(c, k)
      BY <1>1, SameBlocks DEF Known
    <2> QED BY <1>1 DEF RowsInv, Known
  <1>4. pc = "scan" \/ pc \in Busy \cup {"idle"}
    BY <1>0, <1>1 DEF TypeOK, Busy
  <1>5. pc = "scan" => bn = 0
    BY <1>0 DEF Position
  <1>6. bn \in Nat /\ cur \in Nat /\ cur > 0 /\ Len(hist) \in Nat /\ cur <= MaxBlock + 1 /\ bn <= MaxBlock
        /\ MaxBlock \in Nat /\ bn <= Len(hist)
        /\ (pc # "scan" => cur \in {bn, bn + 1})
    BY <1>0, <1>4, Types DEF Position
  <1>7. Scanned'
    <2> SUFFICES ASSUME bn = 0, NEW c \in Cids \ diverged'
                 PROVE  Right(c, 0)' \/ Unsaved(c)' \/ Halfway(c)'
      BY <1>1 DEF Scanned
    <2>0. c \in Cids \ diverged
      BY <1>1
    <2>1. Right(c, 0)' = Right(c, 0) /\ Unsaved(c)' = Unsaved(c)
      BY <1>1, SameRights DEF scan, Unsaved
    <2>2. CASE pc = "scan"
      <3>1. Right(c, 0) \/ Unsaved(c) \/ Halfway(c)
        BY <2>0, <2>2 DEF RowsInv, Scanned
      <3>2. CASE Halfway(c)
        <4>1. PICK s \in Savers : sPc[s] = "insert" /\ c = sCid[s]
          BY <2>2, <3>2 DEF Halfway
        <4>2. c \notin Scan!TornBy(s)
          BY <1>1, <2>2
        <4>3. Right(c, 0)
          BY <2>2, <4>1, <4>2, NotTorn
        <4> QED BY <2>1, <4>3
      <3> QED BY <2>1, <3>1, <3>2
    <2>3. CASE pc # "scan"
      <3>1. 0 \in 0 .. MaxBlock /\ 0 = cur - 1
        BY <1>6, <2>3
      <3>2. Right(c, 0)
        BY <1>1, <1>4, <2>0, <2>3, <3>1, AllBehind
      <3> QED BY <2>1, <3>2
    <2> QED BY <2>2, <2>3
  <1>8. Behind'
    <2> SUFFICES ASSUME NEW c \in Cids \ diverged', NEW b \in 0 .. MaxBlock, b = bn - 1
                 PROVE  Right(c, b)'
      BY <1>1 DEF Behind
    <2>0. pc # "scan" /\ c \in Cids \ diverged /\ c \notin TornInsert /\ bn \in 1 .. Len(hist)
          /\ bn \in 1 .. MaxBlock /\ bn \in 0 .. MaxBlock
      BY <1>1, <1>5, <1>6
    <2>1. CASE cur = bn
      <3>1. Right(c, b)
        BY <1>4, <2>0, <2>1, AllBehind
      <3> QED BY <1>1, <3>1, SameRights
    <2>2. CASE cur = bn + 1
      <3>1. PICK k \in 1 .. MaxBlock : k = bn
        BY <2>0
      <3>2. k = cur - 1 /\ k \in 0 .. MaxBlock
        BY <1>6, <2>2, <3>1
      <3>3. Right(c, k)
        BY <1>4, <2>0, <3>2, AllBehind
      <3>4. Blurred(c, k) => FixedBehind(c, k)
        BY <2>0, <3>1 DEF RowsInv, Known
      <3>5. Right(c, k - 1) /\ b = k - 1
        BY <1>0, <2>0, <3>1, <3>3, <3>4, RightBack
      <3>6. Right(c, b)
        BY <3>5
      <3> QED BY <1>1, <3>6, SameRights
    <2> QED BY <1>6, <2>0, <2>1, <2>2
  <1> QED BY <1>2, <1>3, <1>7, <1>8 DEF RowsInv

\* A restart repeats the marked block, or the scan when there is no mark.
LEMMA BootRows ==
    ASSUME TablesInv, RowsInv, Boot
    PROVE  RowsInv'
  <1>0. Position /\ Saving /\ Chain /\ TypeOK
    BY DEF TablesInv
  <1>1. /\ pc = "down" /\ pc' \in {"scan", "idle"} /\ pc' \notin Busy /\ pc' \notin Stages
        /\ UNCHANGED <<tables, first, hist, bn, diverged>>
        /\ \A d \in Cids : SameRow(d)
        /\ \/ bn = 0 /\ pc' = "scan" /\ Scan!Restart
           \/ bn > 0 /\ pc' = "idle" /\ cur' = bn
    BY DEF Boot, Busy, Stages, tables, SameRow
  <1>2. Handling' /\ Hand'
    BY <1>1 DEF Handling, Hand
  <1>3. Known'
    <2> SUFFICES ASSUME NEW c \in Cids \ diverged, NEW k \in 1 .. MaxBlock, k = bn, Blurred(c, k)
                 PROVE  FixedBehind(c, k)
      BY <1>1, SameBlocks DEF Known
    <2> QED BY DEF RowsInv, Known
  <1>4. Scanned'
    <2> SUFFICES ASSUME pc' = "scan", NEW c \in Cids \ diverged
                 PROVE  Right(c, 0)' \/ Unsaved(c)'
      BY <1>1 DEF Scanned
    <2>1. bn = 0 /\ Scan!Restart
      BY <1>1
    <2>2. Right(c, 0) \/ Unsaved(c)
      BY <1>1, <2>1 DEF RowsInv, Scanned, Halfway
    <2>3. Right(c, 0)' = Right(c, 0) /\ Exists(c)' = Exists(c)
      BY <1>1, SameRights
    <2>4. Unsaved(c) => Unsaved(c)'
      <3>1. /\ errored' = errored
            /\ \A s \in Savers : sTodo[s] \cup (IF sPc[s] = "pick" THEN {} ELSE {sCid[s]}) \subseteq sTodo'[s]
        BY <2>1 DEF Scan!Restart, Scan!Is
      <3> QED BY <2>3, <3>1 DEF Unsaved
    <2> QED BY <2>2, <2>3, <2>4
  <1>5. Behind'
    <2> SUFFICES ASSUME pc' = "idle", NEW c \in Cids \ diverged, NEW b \in 0 .. MaxBlock, b = cur' - 1
                 PROVE  Right(c, b)'
      BY <1>1 DEF Behind
    <2>1. Right(c, b)
      BY <1>1 DEF RowsInv, Behind
    <2> QED BY <1>1, <2>1, SameRights
  <1> QED BY <1>2, <1>3, <1>4, <1>5 DEF RowsInv

\* The scan has stored every file of the init block.
LEMMA HandoverRows ==
    ASSUME TablesInv, RowsInv, Handover
    PROVE  RowsInv'
  <1>1. /\ pc = "scan" /\ pc' = "idle" /\ pc' \notin Busy /\ pc' \notin Stages /\ cur' = 1
        /\ UNCHANGED <<tables, first, hist, bn>> /\ Scan!AllSaved
        /\ \A d \in Cids : SameRow(d)
        /\ diverged' = diverged \cup {c \in errored : ~Exists(c)}
    BY DEF Handover, Busy, Stages, tables, SameRow
  <1>2. Handling' /\ Hand' /\ Scanned'
    BY <1>1 DEF Handling, Hand, Scanned
  <1>3. Known'
    <2> SUFFICES ASSUME NEW k \in 1 .. MaxBlock, k = bn PROVE FALSE
      BY <1>1 DEF Known
    <2> QED BY <1>1 DEF TablesInv, Position
  <1>4. Behind'
    <2> SUFFICES ASSUME NEW c \in Cids \ diverged', NEW b \in 0 .. MaxBlock, b = 0
                 PROVE  Right(c, b)'
      BY <1>1 DEF Behind
    <2>1. Right(c, 0) \/ Unsaved(c) \/ Halfway(c)
      BY <1>1 DEF RowsInv, Scanned
    <2>2. ~Unsaved(c) /\ ~Halfway(c)
      BY <1>1 DEF Unsaved, Halfway, Scan!AllSaved, Scan!Is
    <2> QED BY <1>1, <2>1, <2>2, SameRights
  <1> QED BY <1>2, <1>3, <1>4 DEF RowsInv

\* A new block is ahead of all rows.
LEMMA NewBlockRows ==
    ASSUME TablesInv, RowsInv, NewBlock
    PROVE  RowsInv'
  <1>0. Position /\ Chain /\ TypeOK
    BY DEF TablesInv
  <1>1. /\ pc = "idle" /\ pc' = "idle" /\ pc' \notin Busy /\ pc' \notin Stages /\ pc \notin Busy
        /\ UNCHANGED <<tables, first, bn, cur, diverged>> /\ Len(hist) \in Nat
        /\ cur = Len(hist) + 1 /\ Len(hist') = Len(hist) + 1
        /\ \A k \in 1 .. Len(hist) : hist'[k] = hist[k]
    BY <1>0 DEF NewBlock, Busy, Stages, Chain
  <1>2. Handling' /\ Hand' /\ Scanned'
    BY <1>1 DEF Handling, Hand, Scanned
  <1>3. Behind'
    <2> SUFFICES ASSUME NEW c \in Cids \ diverged, NEW b \in 0 .. MaxBlock, b = cur - 1
                 PROVE  Right(c, b)'
      BY <1>1 DEF Behind
    <2>1. Right(c, b)
      BY <1>1 DEF RowsInv, Behind, Halfway
    <2>2. b \in 0 .. Len(hist)
      BY <1>1
    <2> QED BY <1>0, <2>1, <2>2, NewBlockRight
  <1>4. Known'
    <2> SUFFICES ASSUME NEW c \in Cids \ diverged, NEW k \in 1 .. MaxBlock, k = bn, Blurred(c, k)'
                 PROVE  FixedBehind(c, k)'
      BY <1>1 DEF Known
    <2>1. k \in 1 .. Len(hist) /\ k - 1 \in 0 .. Len(hist) /\ k \in 0 .. Len(hist)
      BY <1>0, <1>1 DEF Position
    <2>2. \A j \in 0 .. Len(hist) : At(c, j)' = At(c, j)
      BY <1>1 DEF At
    <2>3. Blurred(c, k)
      BY <1>1, <2>1, <2>2 DEF Blurred
    <2>4. k < Len(hist) /\ Fixes(c, k + 1)
      BY <2>3 DEF RowsInv, Known, FixedBehind
    <2>5. k + 1 \in 1 .. Len(hist) /\ k + 1 \in 0 .. Len(hist)
      BY <1>1, <2>1, <2>4
    <2>6. Fixes(c, k + 1)'
      BY <1>1, <2>2, <2>4, <2>5 DEF Fixes
    <2>7. k < Len(hist')
      BY <1>1, <2>4
    <2> QED BY <2>6, <2>7 DEF FixedBehind
  <1> QED BY <1>2, <1>3, <1>4 DEF RowsInv

\* Files without an event in the block are right after it as they were before.
LEMMA ClassifyRows ==
    ASSUME TablesInv, RowsInv, Classify
    PROVE  RowsInv'
  <1>0. Position /\ Chain /\ TypeOK
    BY DEF TablesInv
  <1>1. /\ pc = "idle" /\ pc' \in {"mark", "pick"} /\ pc' \in Busy /\ pc' \notin Stages
        /\ pc \notin Busy /\ UNCHANGED <<tables, first, hist, bn, cur, diverged>>
        /\ \A d \in Cids : SameRow(d)
        /\ todo' = Todo /\ cur <= Len(hist)
    BY DEF Classify, Busy, Stages, tables, log, SameRow
  <1>2. \A c : Handled(c)' <=> c \notin Todo
    BY <1>1 DEF Handled
  <1>3. cur \in 1 .. Len(hist) /\ cur \in 1 .. MaxBlock /\ cur - 1 \in 0 .. MaxBlock /\ Len(hist) \in Nat
    BY <1>0, <1>1, Types
  <1>4. Scanned' /\ Hand'
    BY <1>1 DEF Scanned, Hand
  <1>5. ASSUME NEW c \in Cids \ diverged, NEW b \in 0 .. MaxBlock, b = cur - 1
        PROVE  Right(c, b)
    BY <1>1, <1>5 DEF RowsInv, Behind, Halfway
  <1>6. ASSUME NEW c \in Cids, c \notin Todo, NEW k \in 1 .. MaxBlock, k = cur
        PROVE  ~Rewrites(c, k) /\ ~Blurred(c, k) /\ (c \notin diverged => Right(c, k))
    <2>1. OpOf(hist[k][c].ev) # "Delete" /\ (OpOf(hist[k][c].ev) = "None" \/ At(c, k) = Gone)
      BY <1>6, TodoIs
    <2>2. hist[k][c].ev \subseteq Kinds /\ Legal(At(c, k - 1), hist[k][c].ev, At(c, k))
      BY <1>0, <1>3, <1>6, BlockIs
    <2>3. ~Rewrites(c, k) /\ ~Blurred(c, k)
      BY <2>1, <2>2, Ops DEF Rewrites, Blurred
    <2>4. c \notin diverged => Right(c, k - 1)
      BY <1>3, <1>5, <1>6
    <2> QED BY <1>0, <1>3, <1>6, <2>1, <2>3, <2>4, RightOn
  <1>7. Behind'
    <2> SUFFICES ASSUME NEW c \in Cids \ diverged, NEW b \in 0 .. MaxBlock, b = cur - 1
                 PROVE  Right(c, b)'
      BY <1>1 DEF Behind
    <2> QED BY <1>1, <1>5, SameRights
  <1>8. Handling'
    <2> SUFFICES ASSUME NEW c \in Cids, NEW k \in 1 .. MaxBlock, k = cur, c \notin Todo,
                        c \in diverged => Rewrites(c, k)
                 PROVE  Right(c, k)'
      BY <1>1, <1>2, SameBlocks DEF Handling
    <2>1. Right(c, k)
      BY <1>6
    <2> QED BY <1>1, <2>1, SameRights
  <1>9. Known'
    <2> SUFFICES ASSUME NEW c \in Cids \ diverged, NEW k \in 1 .. MaxBlock, Blurred(c, k),
                        k = bn \/ (k = cur /\ c \notin Todo)
                 PROVE  FixedBehind(c, k)
      BY <1>1, <1>2, SameBlocks DEF Known
    <2> QED BY <1>6 DEF RowsInv, Known
  <1> QED BY <1>4, <1>7, <1>8, <1>9 DEF RowsInv

\* The file at hand is the only one that is about to change.
LEMMA PickRows ==
    ASSUME TablesInv, RowsInv, NEW c \in Cids, Pick(c)
    PROVE  RowsInv'
  <1>0. Position /\ Chain /\ TypeOK /\ Work
    BY DEF TablesInv
  <1>1. /\ pc = "pick" /\ pc \in Busy /\ pc \notin Stages /\ c \in todo
        /\ pc' \in {"query", "update"} /\ pc' \in Busy /\ pc' \in Stages
        /\ UNCHANGED <<tables, first, hist, bn, cur>>
        /\ \A d \in Cids : SameRow(d)
        /\ todo' = todo \ {c} /\ cid' = c /\ op' = OpOf(hist[cur][c].ev)
        /\ diverged' = IF \/ op' = "New" /\ Exists(c) /\ "report" \in hist[cur][c].ev
                          \/ op' = "Delete" /\ After(c) # Gone
                       THEN diverged \cup {c} ELSE diverged
    BY DEF Pick, Busy, Stages, tables, log, SameRow
  <1>2. \A d : Handled(d)' <=> Handled(d)
    BY <1>1 DEF Handled
  <1>3. ~Handled(c) /\ cur \in 1 .. MaxBlock /\ cur - 1 \in 0 .. MaxBlock
        /\ diverged \subseteq diverged' /\ \A d : d # c => (d \in diverged' <=> d \in diverged)
    BY <1>1, BlockAtHand DEF Handled
  <1>4. Scanned'
    BY <1>1 DEF Scanned
  <1>5. Behind'
    <2> SUFFICES ASSUME NEW d \in Cids \ diverged', NEW b \in 0 .. MaxBlock, b = cur - 1
                 PROVE  Handled(d)' \/ Right(d, b)'
      BY <1>1 DEF Behind
    <2>1. Handled(d) \/ Right(d, b)
      BY <1>1, <1>3 DEF RowsInv, Behind, Halfway
    <2> QED BY <1>1, <1>2, <2>1, SameRights
  <1>6. Handling'
    <2> SUFFICES ASSUME NEW d \in Cids, NEW k \in 1 .. MaxBlock, k = cur, Handled(d),
                        d \in diverged' => Rewrites(d, k)
                 PROVE  Right(d, k)'
      BY <1>1, <1>2, SameBlocks DEF Handling
    <2>1. d # c
      BY <1>3
    <2>2. Right(d, k)
      BY <1>1, <1>3, <2>1 DEF RowsInv, Handling
    <2> QED BY <1>1, <2>2, SameRights
  <1>7. Hand'
    <2> SUFFICES ASSUME c \notin diverged', NEW k \in 1 .. MaxBlock, k = cur
                 PROVE  /\ op' = "New" /\ Exists(c)' => "report" \notin hist[k][c].ev
                        /\ op' = "Delete" => At(c, k) = Gone
      BY <1>1, SameBlocks DEF Hand
    <2>1. Exists(c)' = Exists(c)
      BY <1>1, SameRights
    <2> QED BY <1>1, <2>1 DEF After
  <1>8. Known'
    <2> SUFFICES ASSUME NEW d \in Cids \ diverged', NEW k \in 1 .. MaxBlock, Blurred(d, k),
                        k = bn \/ (k = cur /\ Handled(d))
                 PROVE  FixedBehind(d, k)
      BY <1>1, <1>2, SameBlocks DEF Known
    <2> QED BY <1>1, <1>3 DEF RowsInv, Known
  <1> QED BY <1>4, <1>5, <1>6, <1>7, <1>8 DEF RowsInv

\* A saver stores the version of the init block, or notes why not.
LEMMA ScanRows ==
    ASSUME TablesInv, RowsInv, NEW s \in Savers, ScanStep(s)
    PROVE  RowsInv'
  <1>0. /\ Tables /\ Chain /\ TypeOK /\ Saving /\ bn = 0
        /\ sPc \in [Savers -> {"pick", "query", "create", "insert", "error"}]
        /\ sCid[s] \in Cids /\ Scan!Saver(s)
    BY ScanHand DEF TablesInv, TypeOK, ScanStep, Position
  <1>1. /\ pc = "scan" /\ pc' = "scan" /\ pc' \notin Busy /\ pc' \notin Stages
        /\ UNCHANGED <<hist, bn, cur, first>>
        /\ errored \subseteq errored' /\ diverged \subseteq diverged'
        /\ \A t \in Savers \ {s} : sPc'[t] = sPc[t] /\ sTodo'[t] = sTodo[t] /\ sCid'[t] = sCid[t]
        /\ \/ Scan!Pick(s) /\ sCid'[s] \in sTodo[s] /\ sTodo'[s] = sTodo[s] \ {sCid'[s]}
           \/ UNCHANGED <<sCid, sTodo>> /\ sPc[s] # "pick"
    BY <1>0, ScanMoves DEF Busy, Stages
  <1>2. Behind' /\ Handling' /\ Hand' /\ Known'
    BY <1>0, <1>1 DEF Behind, Handling, Hand, Known
  <1>3. SUFFICES ASSUME NEW c \in Cids \ diverged'
                 PROVE  Right(c, 0)' \/ Unsaved(c)' \/ Halfway(c)'
    BY <1>1, <1>2 DEF RowsInv, Scanned
  <1>4. c \in Cids \ diverged /\ (Right(c, 0) \/ Unsaved(c) \/ Halfway(c))
    BY <1>1, <1>3 DEF RowsInv, Scanned
  <1>5. ASSUME SameRow(c) PROVE /\ Right(c, 0)' = Right(c, 0) /\ Exists(c)' = Exists(c)
    BY <1>1, <1>5, SameRights
  <1>6. CASE Scan!Pick(s)
    <2>1. SameRow(c) /\ sPc[s] = "pick" /\ sPc'[s] = "query" /\ UNCHANGED <<errored, diverged>>
      BY <1>0, <1>6 DEF Scan!Pick, Scan!tables, Scan!Goto, Scan!Is, SameRow
    <2>2. Unsaved(c) => Unsaved(c)'
      BY <1>1, <1>5, <2>1 DEF Unsaved
    <2>3. Halfway(c) => Halfway(c)'
      BY <1>1, <2>1 DEF Halfway
    <2> QED BY <1>4, <1>5, <2>1, <2>2, <2>3
  <1>7. CASE ~Scan!Pick(s) /\ c # sCid[s]
    <2>1. SameRow(c)
      <3>1. UNCHANGED <<file, replica>> \/ ScanCreates(s) \/ ScanInserts(s)
        BY ScanWrites
      <3> QED BY <1>7, <3>1 DEF SameRow, ScanCreates, ScanInserts
    <2>2. UNCHANGED <<sCid, sTodo>>
      BY <1>1, <1>7
    <2>3. Unsaved(c) => Unsaved(c)'
      BY <1>1, <1>5, <1>7, <2>1, <2>2 DEF Unsaved
    <2>4. Halfway(c) => Halfway(c)'
      BY <1>1, <1>7, <2>2 DEF Halfway
    <2> QED BY <1>4, <1>5, <2>1, <2>3, <2>4
  <1>8. ASSUME SameRow(c), c = sCid[s], ~Scan!Pick(s), sPc[s] # "insert"
        PROVE  /\ Right(c, 0) \/ Halfway(c) => Right(c, 0)' \/ Halfway(c)'
               /\ Exists(c) => Right(c, 0) \/ Halfway(c)
               /\ Exists(c)' = Exists(c) /\ c = sCid'[s]
    <2>1. UNCHANGED <<sCid, sTodo>>
      BY <1>1, <1>8
    <2>2. Halfway(c) => Halfway(c)'
      BY <1>1, <1>8, <2>1 DEF Halfway
    <2>3. Exists(c) => ~Unsaved(c)
      BY DEF Unsaved
    <2> QED BY <1>4, <1>5, <1>8, <2>1, <2>2, <2>3
  <1>9. CASE Scan!Query(s) /\ c = sCid[s]
    <2>1. /\ SameRow(c) /\ sPc[s] = "query" /\ sPc'[s] = IF Exists(c) THEN "pick" ELSE "create"
          /\ ~Scan!Pick(s)
      BY <1>0, <1>9, SameStatements
         DEF Scan!Query, Scan!Pick, Scan!tables, Scan!Goto, Scan!Is, SameRow
    <2>2. CASE Exists(c)
      BY <1>8, <1>9, <2>1, <2>2
    <2>3. CASE ~Exists(c)
      <3>1. sPc'[s] # "pick" /\ ~Exists(c)' /\ c = sCid'[s]
        BY <1>8, <1>9, <2>1, <2>3
      <3> QED BY <3>1 DEF Unsaved
    <2> QED BY <2>2, <2>3
  <1>10. CASE Scan!Create(s) /\ c = sCid[s]
    <2>1. sPc[s] = "create" /\ ~Scan!Pick(s) /\ UNCHANGED sCid
      BY <1>10 DEF Scan!Create, Scan!Pick, Scan!Is
    <2>2. CASE Exists(c)
      <3>1. SameRow(c)
        BY <1>10, <2>2, SameStatements DEF Scan!Create, Scan!tables, SameRow
      <3> QED BY <1>8, <1>10, <2>1, <2>2, <3>1
    <2>3. CASE ~Exists(c)
      <3>1. sPc' = [sPc EXCEPT ![s] = "insert"]
        BY <1>10, <2>3, SameStatements DEF Scan!Create, Scan!Goto
      <3>2. sPc'[s] = "insert" /\ c = sCid'[s]
        BY <1>0, <1>10, <2>1, <3>1
      <3> QED BY <1>1, <3>2 DEF Halfway
    <2> QED BY <2>2, <2>3
  <1>11. CASE Scan!Insert(s) /\ c = sCid[s]
    <2>1. sPc[s] = "insert" /\ InsertReplicas(IdOf(c), first[c])
      BY <1>11, SameStatements DEF Scan!Insert, Scan!Is
    <2>2. Bare(c) /\ file[c].ver = first[c] /\ first[c] \in Versions
      BY <1>0, <1>1, <1>11, <2>1, ScanHand DEF Saving
    <2>3. PICK v \in Versions : v = first[c] /\ v = At(c, 0)
      BY <2>2 DEF At
    <2>4. Row(c, v)'
      BY <1>0, <2>1, <2>2, <2>3, RowWritten
    <2> QED BY <1>1, <2>3, <2>4, RowRight
  <1>12. CASE Scan!CreateLost(s) /\ c = sCid[s]
    <2>1. c \in diverged'
      BY <1>12 DEF Scan!CreateLost
    <2> QED BY <1>3, <2>1
  <1>13. CASE Scan!Fail(s) /\ c = sCid[s]
    <2>1. /\ SameRow(c) /\ ~Scan!Pick(s) /\ UNCHANGED <<file, replica, sCid>>
          /\ sPc' = [sPc EXCEPT ![s] = IF sRetry[s] > 1 THEN "query" ELSE "error"]
          /\ diverged' = diverged \cup Scan!TornBy(s)
          /\ sPc[s] \in {"query", "create", "insert"}
      BY <1>13 DEF Scan!Fail, Scan!Pick, Scan!tables, Scan!Goto, Scan!Is, SameRow
    <2>2. sPc'[s] # "pick" /\ c = sCid'[s]
      BY <1>0, <1>13, <2>1
    <2>3. CASE ~Exists(c)
      BY <1>5, <2>1, <2>2, <2>3 DEF Unsaved
    <2>4. CASE Exists(c) /\ sPc[s] # "insert"
      BY <1>8, <1>13, <2>1, <2>4
    <2>5. CASE sPc[s] = "insert"
      <3>1. Right(c, 0)
        BY <1>1, <1>3, <1>13, <2>1, <2>5, NotTorn
      <3> QED BY <1>5, <2>1, <3>1
    <2> QED BY <2>3, <2>4, <2>5
  <1>14. CASE Scan!SaveError(s) /\ c = sCid[s]
    <2>1. /\ SameRow(c) /\ ~Scan!Pick(s) /\ UNCHANGED sCid /\ sPc[s] = "error"
          /\ \/ errored' = errored \cup {c}
             \/ sPc' = [sPc EXCEPT ![s] = "query"]
             \/ diverged' = diverged \cup {c}
      BY <1>14 DEF Scan!SaveError, Scan!Pick, Scan!tables, Scan!Goto, Scan!Is, SameRow
    <2>2. CASE Exists(c)
      BY <1>8, <1>14, <2>1, <2>2
    <2>3. CASE ~Exists(c)
      <3>1. ~Exists(c)' /\ c = sCid'[s]
        BY <1>5, <1>14, <2>1, <2>3
      <3>2. c \in errored' \/ sPc'[s] = "query"
        BY <1>0, <1>3, <2>1
      <3> QED BY <3>1, <3>2 DEF Unsaved
    <2> QED BY <2>2, <2>3
  <1> QED BY <1>0, <1>6, <1>7, <1>9, <1>10, <1>11, <1>12, <1>13, <1>14 DEF Scan!Saver

\* Nothing happens.
LEMMA StutterRows ==
    ASSUME RowsInv, UNCHANGED vars
    PROVE  RowsInv'
  <1>1. /\ UNCHANGED <<file, replica, first, hist, bn, cur, pc, todo, cid, op, diverged>>
        /\ UNCHANGED <<sPc, sTodo, sCid, errored>> /\ \A d \in Cids : SameRow(d)
    BY DEF vars, log, scan, tables, SameRow
  <1>2. \A d \in Cids : /\ Handled(d)' = Handled(d) /\ Halfway(d)' = Halfway(d)
                        /\ Unsaved(d)' = Unsaved(d) /\ Exists(d)' = Exists(d)
                        /\ \A j : Right(d, j)' = Right(d, j)
    BY <1>1, SameRights DEF Handled, Halfway, Unsaved
  <1>3. Scanned'
    BY <1>1, <1>2 DEF RowsInv, Scanned
  <1>4. Behind'
    BY <1>1, <1>2 DEF RowsInv, Behind
  <1>5. Handling'
    BY <1>1, <1>2, SameBlocks DEF RowsInv, Handling
  <1>6. Hand'
    BY <1>1, <1>2, SameBlocks DEF RowsInv, Hand
  <1>7. Known'
    BY <1>1, <1>2, SameBlocks DEF RowsInv, Known
  <1> QED BY <1>3, <1>4, <1>5, <1>6, <1>7 DEF RowsInv

\* No step breaks the second half of the inductive invariant.
LEMMA RowsStep ==
    ASSUME TablesInv, RowsInv, [Next]_vars
    PROVE  RowsInv'
  <1>1. CASE Fail
    <2>1. /\ pc \in Busy /\ pc' = "idle" /\ UNCHANGED <<tables, log>>
          /\ diverged' = diverged \cup TornInsert
      BY <1>1 DEF Fail, Busy
    <2> QED BY <2>1, IdleRows
  <1> QED BY <1>1, ScanRows, HandoverRows, NewBlockRows, ClassifyRows, PickRows, QueryRows, CreateRows,
             InsertRows, ClearRows, UpdateRows, DeleteRows, CreateLostRows, MarkRows, CrashRows,
             BootRows, StutterRows
          DEF Next, Statement, UpToDate

\* Nothing has been stored, and every file has a saver that will find it.
LEMMA InitRows == Init => RowsInv
  <1> SUFFICES ASSUME Init PROVE RowsInv
    OBVIOUS
  <1>1. pc = "scan" /\ bn = 0 /\ errored = {} /\ diverged = {} /\ hist = <<>>
        /\ \A c \in Cids : ~Exists(c)
        /\ sTodo = [s \in Savers |-> Scan!Found(s)]
    BY DEF Init, Scan!Init, Exists
  <1>2. Behind /\ Handling /\ Hand /\ Known
    BY <1>1 DEF Behind, Handling, Hand, Known, Busy, Stages
  <1>3. ASSUME NEW c \in Cids PROVE Right(c, 0) \/ Unsaved(c)
    <2>1. CASE first[c] = Gone
      BY <1>1, <2>1 DEF Right, Row, At
    <2>2. CASE first[c] # Gone
      <3>1. PICK s \in Savers : c \in Files[s]
        BY <2>2 DEF Init
      <3>2. c \in sTodo[s]
        BY <1>1, <2>2, <3>1 DEF Scan!Found
      <3> QED BY <1>1, <3>2 DEF Unsaved
    <2> QED BY <2>1, <2>2
  <1> QED BY <1>1, <1>2, <1>3 DEF RowsInv, Scanned

-----------------------------------------------------------------------------
\* The invariant holds in every state: the tables fit together, and every file
\* outside diverged agrees with the chain or will once the blocks that have
\* been read are handled.
THEOREM Invariance == Spec => [](TablesInv /\ RowsInv)
  <1>1. Init => TablesInv /\ RowsInv
    BY InitTables, InitRows
  <1>2. TablesInv /\ RowsInv /\ [Next]_vars => (TablesInv /\ RowsInv)'
    BY TablesInvStep, RowsStep
  <1> QED BY <1>1, <1>2, PTL DEF Spec

\* The rows of file_info and replica, the mark, the savers and the listener
\* keep their types.
THEOREM TypeCorrect == Spec => []TypeOK
  BY Invariance, PTL DEF TablesInv

\* Replicas without a file are paid for with an error each.
Paid == faults \in Nat /\ Len(orphan) <= faults

\* Only InsertFiles after an error that it swallows adds to them.
LEMMA PaidStep ==
    ASSUME TablesInv, Paid, [Next]_vars
    PROVE  Paid'
  <1>0. orphan \in Seq(Versions \ {0})
    BY DEF TablesInv, Tables
  <1>1. SUFFICES \/ orphan' = orphan /\ faults' \in {faults, faults + 1}
                 \/ faults' = faults + 1 /\ \E v : InsertOrphans(v)
    <2>1. CASE orphan' = orphan /\ faults' \in {faults, faults + 1}
      <3>1. Len(orphan) \in Nat
        BY <1>0
      <3> QED BY <2>1, <3>1 DEF Paid
    <2>2. ASSUME faults' = faults + 1, NEW v, InsertOrphans(v) PROVE Paid'
      <3>1. Len(orphan') <= Len(orphan) + 1 /\ Len(orphan) \in Nat
        <4>1. CASE v = 0
          BY <1>0, <2>2, <4>1 DEF InsertOrphans
        <4>2. CASE v # 0
          <5>1. orphan' = Append(orphan, v)
            BY <2>2, <4>2 DEF InsertOrphans
          <5> QED BY <1>0, <5>1
        <4> QED BY <4>1, <4>2
      <3> QED BY <2>2, <3>1 DEF Paid
    <2> QED BY <1>1, <2>1, <2>2
  <1> USE DEF tables, bounds
  <1>2. ASSUME NEW s \in Savers, Scan!Pick(s) \/ Scan!Query(s) \/ Scan!Create(s) \/ Scan!Insert(s)
                                  \/ Scan!Fail(s) \/ Scan!SaveError(s)
        PROVE  orphan' = orphan /\ faults' \in {faults, faults + 1}
    BY <1>2, SameStatements
       DEF Scan!Pick, Scan!Query, Scan!Create, Scan!Insert, Scan!Fail, Scan!SaveError,
           Scan!tables, CreateRow, InsertReplicas
  <1>3. ASSUME NEW s \in Savers, Scan!CreateLost(s)
        PROVE  faults' = faults + 1 /\ \E v : InsertOrphans(v)
    BY <1>3, SameStatements DEF Scan!CreateLost
  <1>4. CASE CreateLost
    BY <1>4 DEF CreateLost
  <1>5. CASE \/ Create \/ Insert \/ Clear \/ Update \/ Delete
    BY <1>5 DEF Create, Insert, Clear, Update, Delete, Leave, Continue, CreateRow, InsertReplicas,
                DeleteReplicas, UpdateFile, DeleteRow
  <1>6. CASE Handover \/ NewBlock \/ Classify \/ Query \/ Fail \/ Mark \/ Crash \/ Boot
    BY <1>6 DEF Handover, NewBlock, Classify, Query, Fail, Mark, Crash, Boot, Leave, Continue
  <1>7. ASSUME NEW c \in Cids, Pick(c) PROVE orphan' = orphan /\ faults' = faults
    BY <1>7 DEF Pick
  <1>8. CASE UNCHANGED vars
    BY <1>8 DEF vars
  <1> QED BY <1>2, <1>3, <1>4, <1>5, <1>6, <1>7, <1>8
          DEF Next, ScanStep, Scan!Saver, Statement, UpToDate

\* However many savers, cids, failing statements and crashes there are, no
\* replica is left behind by its file and no file gets its replicas twice; the
\* replicas that never had a file, with file_id 0, are no more batches than
\* there were errors (src/db/fileInfo.go).
THEOREM ReplicasAreOwned == Spec => []ReplicasOwned
  <1>1. TablesInv /\ Paid => ReplicasOwned
    BY DEF TablesInv, Tables, Paid, ReplicasOwned
  <1>2. Init => Paid
    BY DEF Init, Paid
  <1>3. TablesInv /\ TablesInv' /\ Paid /\ [Next]_vars => Paid'
    BY PaidStep
  <1> QED BY <1>1, <1>2, <1>3, Invariance, PTL DEF Spec

\* When saveKeys is done in every segment, what is in neither table has been
\* hit by one of the two failures nobody repairs.
THEOREM ScanIsStored == Spec => []ScanStored
  <1>1. TablesInv /\ RowsInv => ScanStored
    <2> SUFFICES ASSUME TablesInv, RowsInv, pc = "scan", Scan!AllSaved, hist = <<>>,
                        NEW s \in Savers, NEW c \in Scan!Found(s), c \notin errored \cup diverged
                 PROVE  Agrees(c, first[c])
      BY DEF ScanStored
    <2>1. c \in Cids /\ first[c] # Gone
      BY DEF Scan!Found
    <2>2. Right(c, 0) \/ Unsaved(c) \/ Halfway(c)
      BY <2>1 DEF RowsInv, Scanned
    <2>3. ~Unsaved(c) /\ ~Halfway(c)
      BY DEF Unsaved, Halfway, Scan!AllSaved, Scan!Is
    <2>4. Row(c, At(c, 0))
      BY <2>2, <2>3 DEF Right
    <2> QED BY <2>1, <2>4 DEF Row, At
  <1> QED BY <1>1, Invariance, PTL

\* When the mark has caught up with the chain, handleEvents and updateFiles have
\* brought every file into line with it, replays and second scans included,
\* unless one of the known causes is on record.
THEOREM MirrorsTheChain == Spec => []Mirror
  <1>1. TablesInv /\ RowsInv => Mirror
    <2> SUFFICES ASSUME TablesInv, RowsInv, pc = "idle", cur = bn + 1, bn = Len(hist),
                        NEW c \in Cids \ diverged
                 PROVE  Row(c, At(c, bn))
      BY DEF Mirror, Row
    <2>1. bn \in 0 .. MaxBlock /\ bn = cur - 1
      BY Types DEF TablesInv
    <2>2. Right(c, bn)
      BY <2>1 DEF RowsInv, Behind, Busy, Stages, Halfway
    <2>3. bn + 1 .. Len(hist) = {}
      BY <2>1
    <2> QED BY <2>2, <2>3 DEF Right
  <1> QED BY <1>1, Invariance, PTL
==============================================================================
