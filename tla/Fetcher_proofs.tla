--------------------------- MODULE Fetcher_proofs ---------------------------
(***************************************************************************)
(* Proofs about the start of the indexer and the handover to the listener, *)
(* for every set of configurations, every chain and every number of        *)
(* crashes and unnoticed failures.                                         *)
(***************************************************************************)
EXTENDS Fetcher, FiniteSetTheorems, TLAPS

USE ConfigAssumption

-----------------------------------------------------------------------------
\* Where the loop of NewFetcher may cut under configuration c, how far it
\* reaches from such a place, and the end the segment is given there.
Grid(c) == {c.zero + k * c.size : k \in Nat}

Reach(c, s) == IF s = c.zero THEN Lesser(c.zero + c.size - 1, c.init) ELSE s + c.size - 1

EndOf(c, s) == IF Reach(c, s) <= c.init THEN Reach(c, s) ELSE c.init + 1

Starts(c) == {s \in Grid(c) : s <= c.init}

\* What a value v of the row or of the field index says of the segment that
\* begins at s and ends at e.
Vouched(c, s, e, v) ==
    /\ s <= v /\ v <= e
    /\ s .. v - 1 \subseteq scanned
    /\ v = e => e \in scanned \cup Skipped(c)

SegFetchers == [end : 0 .. MaxBlock, index : Nat, pos : Nat,
                state : {"idle", "running", "done"}]

\* The rows are keyed by ends, the segments follow each other.
Shapes ==
    /\ segs \in Seq(SegFetchers)
    /\ segRow \in [DOMAIN segRow -> 0 .. MaxBlock]
    /\ IsFiniteSet(scanConfigs)

Begin(i) == StartOf(cfg, i)
Edge == StartOf(cfg, Len(segs) + 1)

Cutting ==
    /\ pc \in {"down", "init"} => segs = <<>>
    /\ pc = "cut" =>
         /\ next.start \in Starts(cfg)
         /\ next.end = Reach(cfg, next.start)
         /\ next.start = Edge
         /\ \A b \in cfg.zero .. next.start - 1 :
              \E i \in DOMAIN segs : b \in Begin(i) .. segs[i].end
    /\ pc \in {"spawn", "wait", "listen"} =>
         \A b \in cfg.zero .. cfg.init :
              \E i \in DOMAIN segs : b \in Begin(i) .. segs[i].end
    /\ \A i \in DOMAIN segs :
         Begin(i) \in Starts(cfg) /\ segs[i].end = EndOf(cfg, Begin(i))

Unmarked == bnRow = NoRow \/ bnRow = 0

\* The listener's row is the block last marked; a process that read 0 there
\* leaves it so until its listener runs.
Marking ==
    /\ IF bnRow = NoRow THEN marked = 0 ELSE marked = bnRow
    /\ pc \in {"init", "cut"} => startBlock = marked
    /\ startBlock > 0 => ~Unmarked
    /\ pc \in {"init", "cut", "spawn", "wait"} /\ startBlock = 0 => Unmarked
    /\ pc \in {"spawn", "wait", "listen"} => cur >= marked

\* A segment is at work only while its process scans.
Work ==
    /\ \A i \in DOMAIN segs :
         /\ segs[i].state = "running" => pc \in {"spawn", "wait"} /\ startBlock = 0
         /\ segs[i].state = "done" => segs[i].index >= segs[i].end \/ segs[i].pos > segs[i].end
    /\ pc = "listen" /\ startBlock = 0 => \A i \in DOMAIN segs : segs[i].state = "done"
    /\ pc # "down" /\ startBlock = 0 => cfg \in scanConfigs
    /\ scanConfigs = {} => pc = "down" /\ segRow = <<>> /\ bnRow = NoRow

\* If c is the only configuration a process ever scanned under, then ...
\* ... a row tells the truth about the one segment of c that ends there,
Rows(c) ==
    Unmarked => \A e \in DOMAIN segRow :
                  \E s \in Starts(c) : e = EndOf(c, s) /\ Vouched(c, s, e, segRow[e])

\* ... and so does the index of a segment, whose position is behind its work,
Indices(c) ==
    startBlock = 0 =>
        \A i \in DOMAIN segs :
            /\ Vouched(c, Begin(i), segs[i].end, segs[i].index)
            /\ segs[i].index <= segs[i].pos
            /\ Begin(i) .. segs[i].pos - 1 \subseteq scanned

\* ... and the history is complete before the listener has processed a block.
Handover(c) ==
    /\ pc = "listen" \/ ~Unmarked => c.zero .. c.init \subseteq scanned \cup Skipped(c)
    /\ ~Unmarked => c.init + 1 .. marked \subseteq followed
    /\ pc \in {"spawn", "wait", "listen"} => c.init + 1 .. cur - 1 \subseteq followed

Sound == \A c \in Configs : scanConfigs = {c} => Rows(c) /\ Indices(c) /\ Handover(c)

FInv == TypeOK /\ Shapes /\ Cutting /\ Marking /\ Work /\ Sound

-----------------------------------------------------------------------------
\* The loop cuts on a grid, so an end belongs to one start.
LEMMA GridOf ==
    ASSUME NEW c \in Configs
    PROVE  /\ c.zero \in Starts(c)
           /\ \A s \in Grid(c) : s \in Nat /\ s >= c.zero /\ s + c.size \in Grid(c)
  <1> c.zero \in Nat /\ c.size \in Nat \ {0} /\ c.init \in Nat /\ c.zero <= c.init
    OBVIOUS
  <1>1. c.zero = c.zero + 0 * c.size /\ 0 \in Nat
    OBVIOUS
  <1>2. c.zero \in Starts(c)
    BY <1>1 DEF Starts, Grid
  <1>3. ASSUME NEW s \in Grid(c) PROVE s \in Nat /\ s >= c.zero /\ s + c.size \in Grid(c)
    <2>1. PICK k \in Nat : s = c.zero + k * c.size
      BY DEF Grid
    <2>2. k * c.size \in Nat
      OBVIOUS
    <2>3. s + c.size = c.zero + (k + 1) * c.size /\ k + 1 \in Nat
      BY <2>1, <2>2
    <2> QED BY <2>1, <2>2, <2>3 DEF Grid
  <1> QED BY <1>2, <1>3

\* Two segments of a configuration begin a whole size apart.
LEMMA GridApart ==
    ASSUME NEW c \in Configs, NEW s \in Grid(c), NEW t \in Grid(c),
           s <= t, t < s + c.size
    PROVE  s = t
  <1> c.zero \in Nat /\ c.size \in Nat \ {0}
    OBVIOUS
  <1>1. PICK j \in Nat : s = c.zero + j * c.size
    BY DEF Grid
  <1>2. PICK k \in Nat : t = c.zero + k * c.size
    BY DEF Grid
  <1>0. j * c.size \in Nat /\ k * c.size \in Nat
    OBVIOUS
  <1>3. ASSUME NEW a \in Nat, NEW b \in Nat, a < b PROVE a * c.size + c.size <= b * c.size
    <2>1. b - a - 1 \in Nat
      BY <1>3
    <2>2. (b - a - 1) * c.size \in Nat
      BY <2>1
    <2>3. b * c.size = a * c.size + c.size + (b - a - 1) * c.size
      BY <2>1
    <2>4. a * c.size \in Nat /\ b * c.size \in Nat
      OBVIOUS
    <2> QED BY <2>2, <2>3, <2>4
  <1>4. ~ j < k
    BY <1>0, <1>1, <1>2, <1>3
  <1>5. ~ k < j
    BY <1>0, <1>1, <1>2, <1>3
  <1>6. j = k
    BY <1>4, <1>5
  <1> QED BY <1>1, <1>2, <1>6

\* Where the segment that begins at s ends.
LEMMA EndBounds ==
    ASSUME NEW c \in Configs, NEW s \in Starts(c)
    PROVE  /\ s \in Nat /\ s >= c.zero /\ s <= c.init
           /\ Reach(c, s) \in Nat /\ s <= Reach(c, s)
           /\ EndOf(c, s) \in 0 .. MaxBlock /\ s <= EndOf(c, s)
           /\ EndOf(c, s) = s => s \in Skipped(c)
  <1> c.zero \in Nat /\ c.size \in Nat \ {0} /\ c.init \in Nat /\ c.zero <= c.init
      /\ c.init < MaxBlock /\ MaxBlock \in Nat
    OBVIOUS
  <1>1. s \in Nat /\ s >= c.zero /\ s <= c.init
    BY GridOf DEF Starts
  <1>2. Reach(c, s) \in Nat /\ s <= Reach(c, s)
    BY <1>1 DEF Reach, Lesser
  <1>3. EndOf(c, s) = s => s \in Skipped(c)
    BY <1>1 DEF Reach, Lesser, EndOf, Skipped
  <1> QED BY <1>1, <1>2, <1>3 DEF EndOf

\* Segments with one end are one segment, so a row found by its end is its own.
LEMMA EndTellsStart ==
    ASSUME NEW c \in Configs, NEW s \in Starts(c), NEW t \in Starts(c),
           EndOf(c, s) = EndOf(c, t)
    PROVE  s = t
  <1> c.zero \in Nat /\ c.size \in Nat \ {0} /\ c.init \in Nat /\ c.zero <= c.init
    OBVIOUS
  <1>1. /\ s \in Grid(c) /\ t \in Grid(c) /\ s \in Nat /\ t \in Nat
        /\ s >= c.zero /\ t >= c.zero /\ s <= c.init /\ t <= c.init
    BY EndBounds DEF Starts
  <1>2. s < t + c.size /\ t < s + c.size
    BY <1>1 DEF EndOf, Reach, Lesser
  <1> QED BY <1>1, <1>2, GridApart

-----------------------------------------------------------------------------
\* Nothing has been stored, and no process runs.
LEMMA InitInv == Init => FInv
  <1> SUFFICES ASSUME Init PROVE FInv
    OBVIOUS
  <1> USE DEF Init
  <1>1. TypeOK
    BY DEF TypeOK
  <1>2. Shapes
    BY FS_EmptySet DEF Shapes
  <1>3. Cutting /\ Marking /\ Work
    BY DEF Cutting, Marking, Work, Unmarked
  <1>4. Sound
    BY DEF Sound
  <1> QED BY <1>1, <1>2, <1>3, <1>4 DEF FInv

\* A configuration has the fields its assumption names.
LEMMA ConfigFields ==
    \A c \in Configs : /\ c.zero \in Nat /\ c.size \in Nat \ {0} /\ c.init \in Nat \ {0}
                       /\ c.zero <= c.init /\ c.init < MaxBlock
  OBVIOUS

\* The segment and the row that GetOrInit and newSegFetcher leave behind.
New(start, end) == [end |-> end, index |-> IF end \in DOMAIN segRow THEN segRow[end] ELSE start,
                    pos |-> IF end \in DOMAIN segRow THEN segRow[end] ELSE start,
                    state |-> "idle"]

\* GetOrInit gives a segment its row, or keeps the one it finds.
LEMMA NewSegmentEffect ==
    ASSUME TypeOK, Shapes, NEW start \in Starts(cfg), NEW end, end = EndOf(cfg, start),
           NewSegment(start, end)
    PROVE  /\ segs' = Append(segs, New(start, end))
           /\ New(start, end) \in [end : 0 .. MaxBlock, index : 0 .. MaxBlock,
                                   pos : 0 .. MaxBlock, state : {"idle"}]
           /\ New(start, end).index <= end
           /\ Len(segs') = Len(segs) + 1 /\ DOMAIN segs' = 1 .. Len(segs) + 1
           /\ \A i \in DOMAIN segs : segs'[i] = segs[i]
           /\ segs'[Len(segs) + 1] = New(start, end)
           /\ segs' \in Seq(SegFetchers)
           /\ segRow' \in [DOMAIN segRow' -> 0 .. MaxBlock]
           /\ \A e \in DOMAIN segRow' :
                \/ e \in DOMAIN segRow /\ segRow'[e] = segRow[e]
                \/ e \notin DOMAIN segRow /\ e = end /\ segRow'[e] = start
           /\ faults' \in 0 .. MaxFaults
  <1> cfg \in Configs
    BY DEF TypeOK
  <1>1. start \in Nat /\ end \in 0 .. MaxBlock /\ start <= end /\ MaxBlock \in Nat
    BY EndBounds
  <1>2. segs' = Append(segs, New(start, end))
    BY DEF NewSegment, New
  <1>3. end \in DOMAIN segRow => segRow[end] \in 0 .. end
    BY DEF TypeOK
  <1>4. /\ New(start, end) \in [end : 0 .. MaxBlock, index : 0 .. MaxBlock,
                                pos : 0 .. MaxBlock, state : {"idle"}]
        /\ New(start, end).index <= end
    BY <1>1, <1>3 DEF New
  <1>5. New(start, end) \in SegFetchers
    BY <1>1, <1>4 DEF SegFetchers
  <1>6. /\ Len(segs') = Len(segs) + 1 /\ DOMAIN segs' = 1 .. Len(segs) + 1
        /\ \A i \in DOMAIN segs : segs'[i] = segs[i]
        /\ segs'[Len(segs) + 1] = New(start, end)
        /\ segs' \in Seq(SegFetchers)
    BY <1>2, <1>5 DEF Shapes
  <1>7. faults' \in 0 .. MaxFaults
    BY DEF NewSegment, TypeOK
  <1>8. CASE segRow' = segRow
    BY <1>2, <1>4, <1>6, <1>7, <1>8 DEF Shapes
  <1>9. CASE /\ end \notin DOMAIN segRow
             /\ segRow' = [e \in DOMAIN segRow \cup {end} |->
                             IF e = end THEN start ELSE segRow[e]]
    <2>1. /\ DOMAIN segRow' = DOMAIN segRow \cup {end}
          /\ \A e \in DOMAIN segRow' : segRow'[e] = IF e = end THEN start ELSE segRow[e]
      BY <1>9
    <2>2. start \in 0 .. MaxBlock
      BY <1>1
    <2>3. \A e \in DOMAIN segRow' : segRow'[e] \in 0 .. MaxBlock
      BY <2>1, <2>2 DEF Shapes
    <2>4. segRow' \in [DOMAIN segRow' -> 0 .. MaxBlock]
      BY <2>3, <1>9
    <2> QED BY <1>2, <1>4, <1>6, <1>7, <1>9, <2>1, <2>4
  <1> QED BY <1>8, <1>9 DEF NewSegment

\* What the two steps of NewFetcher's loop do to its variables.
LEMMA CutEffect ==
    ASSUME TypeOK, Cutting, CutSegment
    PROVE  /\ next.start \in Starts(cfg) /\ next.end = EndOf(cfg, next.start)
           /\ next'.start = next.end + 1 /\ next'.start \in Starts(cfg)
           /\ next'.end = Reach(cfg, next'.start)
  <1> cfg \in Configs /\ cfg.size \in Nat \ {0} /\ cfg.zero \in Nat /\ cfg.init \in Nat
    BY DEF TypeOK
  <1>1. pc = "cut" /\ next.start \in Starts(cfg) /\ next.end = Reach(cfg, next.start)
        /\ next.end < cfg.init /\ next' = [start |-> next.end + 1, end |-> next.end + cfg.size]
    BY DEF CutSegment, Cutting
  <1>2. next.start \in Nat /\ next.start >= cfg.zero /\ next.start <= next.end
        /\ next.end \in Nat
    BY <1>1, EndBounds
  <1>3. next.end = EndOf(cfg, next.start)
    BY <1>1, <1>2 DEF EndOf
  <1>4. next.end + 1 = next.start + cfg.size
    BY <1>1, <1>2 DEF Reach, Lesser
  <1>5. next.end + 1 \in Starts(cfg)
    BY <1>1, <1>2, <1>4, GridOf DEF Starts
  <1>6. next.end + cfg.size = Reach(cfg, next.end + 1)
    BY <1>2 DEF Reach
  <1> QED BY <1>1, <1>3, <1>5, <1>6

\* The last segment reaches the init block.
LEMMA LastEffect ==
    ASSUME TypeOK, Cutting, LastSegment
    PROVE  LET end == EndOf(cfg, next.start)
           IN  /\ next.start \in Starts(cfg) /\ end >= cfg.init
               /\ NewSegment(next.start, end)
  <1> cfg \in Configs /\ cfg.size \in Nat \ {0} /\ cfg.zero \in Nat /\ cfg.init \in Nat
    BY DEF TypeOK
  <1>1. pc = "cut" /\ next.start \in Starts(cfg) /\ next.end = Reach(cfg, next.start)
        /\ next.end >= cfg.init
    BY DEF LastSegment, Cutting
  <1>2. next.end \in Nat
    BY <1>1, EndBounds
  <1>3. (IF next.end > cfg.init THEN cfg.init + 1 ELSE next.end) = EndOf(cfg, next.start)
    BY <1>1, <1>2 DEF EndOf
  <1> QED BY <1>1, <1>2, <1>3 DEF LastSegment, EndOf

\* What TypeOK says of segments and rows.
SegmentsOK ==
    \A i \in DOMAIN segs :
       /\ segs[i].end \in 0 .. MaxBlock /\ segs[i].index \in 0 .. segs[i].end
       /\ segs[i].pos \in segs[i].index .. segs[i].end + 1
       /\ segs[i].state \in {"idle", "running", "done"}

RowsOK == \A e \in DOMAIN segRow : e \in 0 .. MaxBlock /\ segRow[e] \in 0 .. e

\* A new segment fits to the ones before it.
LEMMA NewSegmentTypes ==
    ASSUME TypeOK, Shapes, NEW start \in Starts(cfg), NewSegment(start, EndOf(cfg, start))
    PROVE  /\ SegmentsOK' /\ RowsOK'
           /\ segs' \in Seq(SegFetchers) /\ segRow' \in [DOMAIN segRow' -> 0 .. MaxBlock]
           /\ faults' \in 0 .. MaxFaults
  <1> DEFINE end == EndOf(cfg, start)
             n == New(start, end)
  <1>0. cfg \in Configs /\ MaxBlock \in Nat
    BY DEF TypeOK
  <1>1. /\ segs' \in Seq(SegFetchers) /\ segRow' \in [DOMAIN segRow' -> 0 .. MaxBlock]
        /\ faults' \in 0 .. MaxFaults
        /\ DOMAIN segs' = 1 .. Len(segs) + 1
        /\ \A i \in DOMAIN segs : segs'[i] = segs[i]
        /\ segs'[Len(segs) + 1] = n
        /\ n \in [end : 0 .. MaxBlock, index : 0 .. MaxBlock, pos : 0 .. MaxBlock,
                  state : {"idle"}]
        /\ n.index <= end
        /\ \A e \in DOMAIN segRow' :
             \/ e \in DOMAIN segRow /\ segRow'[e] = segRow[e]
             \/ e \notin DOMAIN segRow /\ e = end /\ segRow'[e] = start
    BY NewSegmentEffect
  <1>2. start \in Nat /\ end \in 0 .. MaxBlock /\ start <= end
    BY <1>0, EndBounds
  <1>3. RowsOK'
    <2> SUFFICES ASSUME NEW e \in DOMAIN segRow'
                 PROVE  e \in 0 .. MaxBlock /\ segRow'[e] \in 0 .. e
      BY DEF RowsOK
    <2>1. CASE e \in DOMAIN segRow /\ segRow'[e] = segRow[e]
      BY <2>1 DEF TypeOK
    <2>2. CASE e = end /\ segRow'[e] = start
      BY <1>2, <2>2
    <2> QED BY <1>1, <2>1, <2>2
  <1>4. n.end = end /\ n.pos = n.index
    BY DEF New
  <1>5. DOMAIN segs = 1 .. Len(segs) /\ Len(segs) \in Nat
    BY DEF Shapes
  <1>6. ASSUME NEW i \in DOMAIN segs'
        PROVE  /\ segs'[i].end \in 0 .. MaxBlock /\ segs'[i].index \in 0 .. segs'[i].end
               /\ segs'[i].pos \in segs'[i].index .. segs'[i].end + 1
               /\ segs'[i].state \in {"idle", "running", "done"}
    <2>1. CASE i \in DOMAIN segs
      BY <1>1, <2>1 DEF TypeOK
    <2>2. CASE i = Len(segs) + 1
      <3> HIDE DEF n, end
      <3> QED BY <1>1, <1>2, <1>4, <2>2
    <2> QED BY <1>1, <1>5, <2>1, <2>2
  <1> QED BY <1>1, <1>3, <1>6 DEF SegmentsOK

\* A step that puts r in the place of a segment.
LEMMA Replaced ==
    ASSUME segs \in Seq(SegFetchers), NEW i \in DOMAIN segs, NEW r \in SegFetchers,
           segs' = [segs EXCEPT ![i] = r]
    PROVE  /\ DOMAIN segs' = DOMAIN segs /\ Len(segs') = Len(segs)
           /\ segs' \in Seq(SegFetchers)
           /\ \A j \in DOMAIN segs : segs'[j] = IF j = i THEN r ELSE segs[j]
  OBVIOUS

\* Starting a segment changes its state only.
LEMMA SpawnEffect ==
    ASSUME Shapes, NEW i \in DOMAIN segs, Spawn(i)
    PROVE  /\ DOMAIN segs' = DOMAIN segs /\ Len(segs') = Len(segs)
           /\ segs' \in Seq(SegFetchers)
           /\ \A j \in DOMAIN segs :
                /\ segs'[j].end = segs[j].end /\ segs'[j].index = segs[j].index
                /\ segs'[j].pos = segs[j].pos
                /\ segs'[j].state = IF j = i THEN (IF segs[i].index >= segs[i].end THEN "done" ELSE "running") ELSE segs[j].state
  <1> DEFINE state == (IF segs[i].index >= segs[i].end THEN "done" ELSE "running")
             pos == segs[i].pos
             r == [end |-> segs[i].end, index |-> segs[i].index, pos |-> pos, state |-> state]
  <1>1. segs \in Seq(SegFetchers) /\ segs[i] \in SegFetchers
    BY DEF Shapes
  <1>2. /\ segs[i] = [end |-> segs[i].end, index |-> segs[i].index, pos |-> segs[i].pos,
                      state |-> segs[i].state]
        /\ segs[i].end \in 0 .. MaxBlock /\ segs[i].index \in Nat /\ segs[i].pos \in Nat
        /\ segs[i].state \in {"idle", "running", "done"}
    BY <1>1 DEF SegFetchers
  <1>3. r \in SegFetchers
    BY <1>2 DEF SegFetchers
  <1>4. segs' = [segs EXCEPT ![i] = r]
    <2>1. segs' = [segs EXCEPT ![i] = [segs[i] EXCEPT !.state = state]]
      BY <1>1 DEF Spawn
    <2>2. [segs[i] EXCEPT !.state = state] = r
      BY <1>2
    <2> QED BY <2>1, <2>2
  <1>5. r.end = segs[i].end /\ r.index = segs[i].index /\ r.pos = pos /\ r.state = state
    OBVIOUS
  <1> HIDE DEF r
  <1>6. /\ DOMAIN segs' = DOMAIN segs /\ Len(segs') = Len(segs) /\ segs' \in Seq(SegFetchers)
        /\ \A j \in DOMAIN segs : segs'[j] = IF j = i THEN r ELSE segs[j]
    BY <1>1, <1>3, <1>4, Replaced
  <1> QED BY <1>5, <1>6

\* A scanned block changes the position of its segment only.
LEMMA ScanEffect ==
    ASSUME Shapes, NEW i \in DOMAIN segs, ScanBlock(i)
    PROVE  /\ DOMAIN segs' = DOMAIN segs /\ Len(segs') = Len(segs)
           /\ segs' \in Seq(SegFetchers)
           /\ \A j \in DOMAIN segs :
                /\ segs'[j].end = segs[j].end /\ segs'[j].index = segs[j].index
                /\ segs'[j].pos = IF j = i THEN segs[i].pos + 1 ELSE segs[j].pos
                /\ segs'[j].state = segs[j].state
  <1> DEFINE state == segs[i].state
             pos == segs[i].pos + 1
             r == [end |-> segs[i].end, index |-> segs[i].index, pos |-> pos, state |-> state]
  <1>1. segs \in Seq(SegFetchers) /\ segs[i] \in SegFetchers
    BY DEF Shapes
  <1>2. /\ segs[i] = [end |-> segs[i].end, index |-> segs[i].index, pos |-> segs[i].pos,
                      state |-> segs[i].state]
        /\ segs[i].end \in 0 .. MaxBlock /\ segs[i].index \in Nat /\ segs[i].pos \in Nat
        /\ segs[i].state \in {"idle", "running", "done"}
    BY <1>1 DEF SegFetchers
  <1>3. r \in SegFetchers
    BY <1>2 DEF SegFetchers
  <1>4. segs' = [segs EXCEPT ![i] = r]
    <2>1. segs' = [segs EXCEPT ![i] = [segs[i] EXCEPT !.pos = pos]]
      BY <1>1 DEF ScanBlock
    <2>2. [segs[i] EXCEPT !.pos = pos] = r
      BY <1>2
    <2> QED BY <2>1, <2>2
  <1>5. r.end = segs[i].end /\ r.index = segs[i].index /\ r.pos = pos /\ r.state = state
    OBVIOUS
  <1> HIDE DEF r
  <1>6. /\ DOMAIN segs' = DOMAIN segs /\ Len(segs') = Len(segs) /\ segs' \in Seq(SegFetchers)
        /\ \A j \in DOMAIN segs : segs'[j] = IF j = i THEN r ELSE segs[j]
    BY <1>1, <1>3, <1>4, Replaced
  <1> QED BY <1>5, <1>6

\* A segment that is done changes its state only.
LEMMA DoneEffect ==
    ASSUME Shapes, NEW i \in DOMAIN segs, SegmentDone(i)
    PROVE  /\ DOMAIN segs' = DOMAIN segs /\ Len(segs') = Len(segs)
           /\ segs' \in Seq(SegFetchers)
           /\ \A j \in DOMAIN segs :
                /\ segs'[j].end = segs[j].end /\ segs'[j].index = segs[j].index
                /\ segs'[j].pos = segs[j].pos
                /\ segs'[j].state = IF j = i THEN "done" ELSE segs[j].state
  <1> DEFINE state == "done"
             pos == segs[i].pos
             r == [end |-> segs[i].end, index |-> segs[i].index, pos |-> pos, state |-> state]
  <1>1. segs \in Seq(SegFetchers) /\ segs[i] \in SegFetchers
    BY DEF Shapes
  <1>2. /\ segs[i] = [end |-> segs[i].end, index |-> segs[i].index, pos |-> segs[i].pos,
                      state |-> segs[i].state]
        /\ segs[i].end \in 0 .. MaxBlock /\ segs[i].index \in Nat /\ segs[i].pos \in Nat
        /\ segs[i].state \in {"idle", "running", "done"}
    BY <1>1 DEF SegFetchers
  <1>3. r \in SegFetchers
    BY <1>2 DEF SegFetchers
  <1>4. segs' = [segs EXCEPT ![i] = r]
    <2>1. segs' = [segs EXCEPT ![i] = [segs[i] EXCEPT !.state = state]]
      BY <1>1 DEF SegmentDone
    <2>2. [segs[i] EXCEPT !.state = state] = r
      BY <1>2
    <2> QED BY <2>1, <2>2
  <1>5. r.end = segs[i].end /\ r.index = segs[i].index /\ r.pos = pos /\ r.state = state
    OBVIOUS
  <1> HIDE DEF r
  <1>6. /\ DOMAIN segs' = DOMAIN segs /\ Len(segs') = Len(segs) /\ segs' \in Seq(SegFetchers)
        /\ \A j \in DOMAIN segs : segs'[j] = IF j = i THEN r ELSE segs[j]
    BY <1>1, <1>3, <1>4, Replaced
  <1> QED BY <1>5, <1>6

\* No step breaks a type or the shape of rows and segments.
LEMMA TypeStep == FInv /\ [Next]_vars => TypeOK' /\ Shapes'
  <1> SUFFICES ASSUME TypeOK, Shapes, Cutting, Marking, Work, [Next]_vars PROVE TypeOK' /\ Shapes'
    BY DEF FInv
  <1> USE DEF vars, history
  <1>0. /\ segs \in Seq(SegFetchers)
        /\ segRow \in [DOMAIN segRow -> 0 .. MaxBlock]
        /\ MaxBlock \in Nat /\ cfg \in Configs
    BY DEF Shapes, TypeOK
  <1>00. \A i \in DOMAIN segs : /\ segs[i].pos \in Nat /\ segs[i].index \in Nat
                               /\ segs[i].end \in 0 .. MaxBlock
                               /\ segs[i].state \in {"idle", "running", "done"}
    <2>1. \A i \in DOMAIN segs : segs[i] \in SegFetchers
      BY <1>0
    <2> QED BY <2>1 DEF SegFetchers
  <1>01. SegmentsOK /\ RowsOK
    BY DEF SegmentsOK, RowsOK, TypeOK
  <1>02. /\ bnRow \in 0 .. MaxBlock \cup {NoRow} /\ marked \in 0 .. MaxBlock
         /\ cur \in 0 .. MaxBlock + 1 /\ faults \in 0 .. MaxFaults /\ MaxFaults \in Nat
         /\ followed \subseteq 0 .. MaxBlock /\ scanned \subseteq 0 .. MaxBlock
         /\ scanConfigs \subseteq Configs
    BY DEF TypeOK
  <1>1. CASE Boot
    <2>1. IsFiniteSet(scanConfigs')
      BY <1>1, FS_AddElement DEF Boot, Shapes
    <2>2. /\ DOMAIN segs' = {} /\ segs' = <<>>
      BY <1>1 DEF Boot
    <2>3. segs' \in Seq(SegFetchers)
      BY <2>2
    <2>4. /\ cfg' \in Configs /\ scanConfigs' \subseteq Configs /\ pc' = "init"
          /\ bnRow' \in 0 .. MaxBlock \cup {NoRow} /\ startBlock' \in 0 .. MaxBlock
          /\ faults' \in 0 .. MaxFaults
      <3>1. startBlock' \in 0 .. MaxBlock /\ bnRow' \in 0 .. MaxBlock \cup {NoRow}
            /\ faults' \in 0 .. MaxFaults
        <4>1. CASE bnRow # NoRow
          BY <1>0, <1>02, <1>1, <4>1 DEF Boot
        <4>2. CASE bnRow = NoRow
          <5>1. /\ startBlock' = 0 /\ (bnRow' = 0 \/ bnRow' = bnRow)
                /\ faults' = faults \/ (faults < MaxFaults /\ faults' = faults + 1)
            BY <1>1, <4>2 DEF Boot
          <5>2. faults' \in 0 .. MaxFaults
            BY <1>02, <5>1
          <5> QED BY <1>0, <1>02, <5>1, <5>2
        <4> QED BY <4>1, <4>2
      <3>2. cfg' \in Configs /\ scanConfigs' \subseteq Configs /\ pc' = "init"
        BY <1>02, <1>1 DEF Boot
      <3> QED BY <3>1, <3>2
    <2>5. UNCHANGED <<segRow, next, cur, history, crashes>>
      BY <1>1 DEF Boot
    <2>6. TypeOK'
      BY <2>2, <2>4, <2>5 DEF TypeOK
    <2>7. Shapes'
      BY <2>1, <2>3, <2>5 DEF Shapes
    <2> QED BY <2>6, <2>7
  <1>2. CASE FirstSegment
    <2>1. next'.start \in Nat /\ next'.end \in Nat
      BY <1>0, <1>2, ConfigFields DEF FirstSegment, Lesser
    <2> QED BY <1>2, <2>1 DEF FirstSegment, TypeOK, Shapes
  <1>3. CASE CutSegment
    <2>1. /\ next.start \in Starts(cfg) /\ NewSegment(next.start, EndOf(cfg, next.start))
          /\ next'.start \in Nat /\ next'.end \in Nat
      BY <1>0, <1>3, CutEffect, EndBounds DEF CutSegment
    <2> QED BY <1>3, <2>1, NewSegmentTypes DEF CutSegment, TypeOK, Shapes, SegmentsOK, RowsOK
  <1>4. CASE LastSegment
    <2>1. next.start \in Starts(cfg) /\ NewSegment(next.start, EndOf(cfg, next.start))
      BY <1>4, LastEffect
    <2>2. cur' \in 0 .. MaxBlock + 1
      <3>1. cur' = cfg.init + 1 \/ cur' = startBlock
        BY <1>4 DEF LastSegment
      <3>2. cfg.init \in Nat /\ cfg.init < MaxBlock
        BY <1>0, ConfigFields
      <3>3. startBlock \in 0 .. MaxBlock
        BY DEF TypeOK
      <3> QED BY <1>0, <3>1, <3>2, <3>3
    <2> QED BY <1>4, <2>1, <2>2, NewSegmentTypes
            DEF LastSegment, TypeOK, Shapes, SegmentsOK, RowsOK
  <1>5. CASE SkipScan \/ Complete
    BY <1>5 DEF SkipScan, Complete, TypeOK, Shapes
  <1>6. ASSUME NEW i \in DOMAIN segs, Spawn(i) PROVE TypeOK' /\ Shapes'
    <2>2. /\ DOMAIN segs' = DOMAIN segs
          /\ segs' \in Seq(SegFetchers)
          /\ \A j \in DOMAIN segs : /\ segs'[j].end = segs[j].end
                                    /\ segs'[j].index = segs[j].index
                                    /\ segs'[j].pos = segs[j].pos
                                    /\ segs'[j].state \in {"idle", "running", "done"}
      BY <1>00, <1>6, SpawnEffect
    <2> QED BY <1>6, <2>2 DEF Spawn, TypeOK, Shapes
  <1>7. ASSUME NEW i \in DOMAIN segs, ScanBlock(i) PROVE TypeOK' /\ Shapes'
    <2>2. /\ DOMAIN segs' = DOMAIN segs
          /\ segs' \in Seq(SegFetchers)
          /\ \A j \in DOMAIN segs :
               /\ segs'[j].end = segs[j].end /\ segs'[j].index = segs[j].index
               /\ segs'[j].pos = IF j = i THEN segs[i].pos + 1 ELSE segs[j].pos
               /\ segs'[j].state = segs[j].state
      BY <1>7, ScanEffect
    <2>3. /\ segs[i].pos <= segs[i].end /\ segs[i].pos \in 0 .. MaxBlock
          /\ segs[i].pos \in segs[i].index .. segs[i].end /\ segs[i].index \in Nat
      <3>1. /\ segs[i].end \in 0 .. MaxBlock /\ segs[i].index \in 0 .. segs[i].end
            /\ segs[i].pos \in segs[i].index .. segs[i].end + 1
        BY <1>01 DEF SegmentsOK
      <3> QED BY <1>0, <1>7, <3>1 DEF ScanBlock
    <2>4. \A j \in DOMAIN segs' :
             /\ segs'[j].end \in 0 .. MaxBlock /\ segs'[j].index \in 0 .. segs'[j].end
             /\ segs'[j].pos \in segs'[j].index .. segs'[j].end + 1
             /\ segs'[j].state \in {"idle", "running", "done"}
      <3> TAKE j \in DOMAIN segs'
      <3>1. CASE j = i
        <4>1. /\ segs[i].end \in 0 .. MaxBlock /\ segs[i].index \in 0 .. segs[i].end
              /\ segs[i].state \in {"idle", "running", "done"}
          BY <1>01 DEF SegmentsOK
        <4>2. segs[i].pos + 1 \in segs[i].index .. segs[i].end + 1
          BY <2>3, <4>1
        <4> QED BY <2>2, <3>1, <4>1, <4>2
      <3>2. CASE j # i
        BY <1>01, <2>2, <3>2 DEF SegmentsOK
      <3> QED BY <3>1, <3>2
    <2>5. CASE segRow' = segRow
      BY <1>7, <2>2, <2>3, <2>4, <2>5 DEF ScanBlock, TypeOK, Shapes
    <2>6. CASE segs[i].end \in DOMAIN segRow
               /\ segRow' = [segRow EXCEPT ![segs[i].end] = segs[i].pos]
      <3>1. /\ DOMAIN segRow' = DOMAIN segRow
            /\ \A e \in DOMAIN segRow :
                  segRow'[e] = IF e = segs[i].end THEN segs[i].pos ELSE segRow[e]
            /\ segRow' \in [DOMAIN segRow' -> 0 .. MaxBlock]
        BY <1>0, <2>3, <2>6
      <3>2. \A e \in DOMAIN segRow' : e \in 0 .. MaxBlock /\ segRow'[e] \in 0 .. e
        BY <2>3, <3>1 DEF TypeOK
      <3> QED BY <1>7, <2>2, <2>3, <2>4, <3>1, <3>2 DEF ScanBlock, TypeOK, Shapes
    <2> QED BY <1>7, <2>5, <2>6 DEF ScanBlock
  <1>8. ASSUME NEW i \in DOMAIN segs, SegmentDone(i) PROVE TypeOK' /\ Shapes'
    <2>2. /\ DOMAIN segs' = DOMAIN segs
          /\ segs' \in Seq(SegFetchers)
          /\ \A j \in DOMAIN segs : /\ segs'[j].end = segs[j].end
                                    /\ segs'[j].index = segs[j].index
                                    /\ segs'[j].pos = segs[j].pos
                                    /\ segs'[j].state \in {"idle", "running", "done"}
      BY <1>00, <1>8, DoneEffect
    <2> QED BY <1>8, <2>2 DEF SegmentDone, TypeOK, Shapes
  <1>9. CASE Follow
    <2>1. cur \in 0 .. MaxBlock
      BY <1>9 DEF Follow, TypeOK
    <2>2. /\ bnRow' \in 0 .. MaxBlock \cup {NoRow} /\ marked' \in 0 .. MaxBlock
          /\ cur' \in 0 .. MaxBlock + 1 /\ faults' \in 0 .. MaxFaults
          /\ followed' \subseteq 0 .. MaxBlock
      <3>1. /\ bnRow' \in {bnRow, cur} /\ marked' \in {marked, cur}
            /\ cur' \in {cur, cur + 1} /\ followed' = followed \cup {cur}
        BY <1>9 DEF Follow
      <3>2. faults' = faults \/ (faults < MaxFaults /\ faults' = faults + 1)
        BY <1>9 DEF Follow
      <3>3. faults' \in 0 .. MaxFaults
        BY <1>02, <3>2
      <3>4. bnRow' \in 0 .. MaxBlock \cup {NoRow} /\ marked' \in 0 .. MaxBlock
        BY <1>02, <2>1, <3>1
      <3>5. cur' \in 0 .. MaxBlock + 1
        BY <1>0, <2>1, <3>1
      <3> QED BY <1>02, <2>1, <3>1, <3>3, <3>4, <3>5
    <2> QED BY <1>9, <2>2 DEF Follow, TypeOK, Shapes
  <1>10. CASE Crash
    <2>1. DOMAIN segs' = {} /\ segs' = <<>>
      BY <1>10 DEF Crash
    <2>2. crashes' \in 0 .. MaxCrashes
      BY <1>10 DEF Crash, TypeOK
    <2>3. /\ UNCHANGED <<bnRow, segRow, cfg, startBlock, next, cur, history, scanConfigs, faults>>
          /\ pc' = "down"
      BY <1>10 DEF Crash
    <2>4. TypeOK'
      BY <2>1, <2>2, <2>3 DEF TypeOK
    <2>5. Shapes'
      BY <2>1, <2>3 DEF Shapes
    <2> QED BY <2>4, <2>5
  <1>11. CASE UNCHANGED vars
    BY <1>11 DEF TypeOK, Shapes
  <1> QED BY <1>1, <1>2, <1>3, <1>4, <1>5, <1>6, <1>7, <1>8, <1>9, <1>10, <1>11
        DEF Next, Starting, Segment, UpToDate

\* A step that keeps the ends keeps the beginnings.
LEMMA SameBegin ==
    ASSUME cfg' = cfg, segs \in Seq(SegFetchers), cfg \in Configs,
           \A i \in DOMAIN segs : segs'[i].end = segs[i].end
    PROVE  /\ \A i \in 1 .. Len(segs) + 1 : Begin(i)' = Begin(i)
           /\ Len(segs') = Len(segs) => Edge' = Edge
  <1>1. ASSUME NEW i \in 1 .. Len(segs) + 1 PROVE Begin(i)' = Begin(i)
    <2>1. i # 1 => i - 1 \in DOMAIN segs
      OBVIOUS
    <2> QED BY <2>1 DEF Begin, StartOf
  <1>2. Len(segs') = Len(segs) => Edge' = Edge
    <2>1. Len(segs) # 0 => Len(segs) \in DOMAIN segs
      OBVIOUS
    <2>2. Len(segs) + 1 - 1 = Len(segs) /\ (Len(segs) + 1 = 1 <=> Len(segs) = 0)
      OBVIOUS
    <2> QED BY <2>1, <2>2 DEF Edge, StartOf
  <1> QED BY <1>1, <1>2

\* The segments cut the history into pieces without a gap.
LEMMA CuttingStep == FInv /\ [Next]_vars => Cutting'
  <1> SUFFICES ASSUME TypeOK, Shapes, Cutting, Marking, Work, [Next]_vars PROVE Cutting'
    BY DEF FInv
  <1> USE DEF vars, history
  <1>0. /\ segs \in Seq(SegFetchers) /\ DOMAIN segs = 1 .. Len(segs) /\ Len(segs) \in Nat
        /\ cfg \in Configs /\ cfg.zero \in Nat /\ cfg.init \in Nat
    BY DEF Shapes, TypeOK
  <1>1. ASSUME cfg' = cfg, DOMAIN segs' = DOMAIN segs, Len(segs') = Len(segs),
               \A i \in DOMAIN segs : segs'[i].end = segs[i].end,
               next' = next,
               \/ pc' = pc
               \/ pc \in {"spawn", "wait", "listen"} /\ pc' \in {"spawn", "wait", "listen"}
        PROVE  Cutting'
    <2>1. (\A i \in 1 .. Len(segs) + 1 : Begin(i)' = Begin(i)) /\ Edge' = Edge
      BY <1>0, <1>1, SameBegin
    <2>2. pc' \in {"down", "init"} => segs' = <<>>
      BY <1>0, <1>1 DEF Cutting
    <2>3. \A i \in DOMAIN segs' : Begin(i)' \in Starts(cfg')
                                  /\ segs'[i].end = EndOf(cfg', Begin(i)')
      <3> SUFFICES ASSUME NEW i \in DOMAIN segs
                   PROVE  Begin(i)' \in Starts(cfg) /\ segs'[i].end = EndOf(cfg, Begin(i)')
        BY <1>1
      <3>1. Begin(i)' = Begin(i)
        BY <1>0, <2>1
      <3>2. Begin(i) \in Starts(cfg) /\ segs[i].end = EndOf(cfg, Begin(i))
        BY DEF Cutting
      <3> QED BY <1>1, <3>1, <3>2
    <2>4. pc' \in {"spawn", "wait", "listen"} =>
             \A b \in cfg'.zero .. cfg'.init :
               \E i \in DOMAIN segs' : b \in Begin(i)' .. segs'[i].end
      <3> SUFFICES ASSUME pc \in {"spawn", "wait", "listen"}, NEW b \in cfg.zero .. cfg.init
                   PROVE  \E i \in DOMAIN segs' : b \in Begin(i)' .. segs'[i].end
        BY <1>1
      <3>1. PICK i \in DOMAIN segs : b \in Begin(i) .. segs[i].end
        BY DEF Cutting
      <3>2. Begin(i)' = Begin(i)
        BY <1>0, <2>1
      <3> QED BY <1>1, <3>1, <3>2
    <2>5. pc' = "cut" =>
            /\ next'.start \in Starts(cfg') /\ next'.end = Reach(cfg', next'.start)
            /\ next'.start = Edge'
            /\ \A b \in cfg'.zero .. next'.start - 1 :
                 \E i \in DOMAIN segs' : b \in Begin(i)' .. segs'[i].end
      BY <1>0, <1>1, <2>1 DEF Cutting
    <2> QED BY <2>2, <2>3, <2>4, <2>5 DEF Cutting
  <1>2. CASE Boot \/ Crash
    <2>1. segs' = <<>> /\ pc' \in {"init", "down"}
      BY <1>2 DEF Boot, Crash
    <2> QED BY <2>1 DEF Cutting
  <1>3. CASE FirstSegment
    <2>1. /\ segs = <<>> /\ segs' = <<>> /\ cfg' = cfg /\ pc' = "cut"
          /\ next'.start = cfg.zero /\ next'.end = Reach(cfg, cfg.zero)
      BY <1>3 DEF FirstSegment, Cutting, Reach
    <2>2. next'.start \in Starts(cfg') /\ next'.start = Edge'
      BY <1>0, <2>1, GridOf DEF Edge, StartOf
    <2> QED BY <1>0, <2>1, <2>2 DEF Cutting
  <1>4. ASSUME NEW start \in Starts(cfg), NewSegment(start, EndOf(cfg, start)), cfg' = cfg,
               start = Edge,
               \A b \in cfg.zero .. start - 1 :
                 \E i \in DOMAIN segs : b \in Begin(i) .. segs[i].end
        PROVE  /\ DOMAIN segs' = 1 .. Len(segs) + 1 /\ Len(segs') = Len(segs) + 1
               /\ \A i \in DOMAIN segs' : Begin(i)' \in Starts(cfg')
                                          /\ segs'[i].end = EndOf(cfg', Begin(i)')
               /\ \A b \in cfg.zero .. EndOf(cfg, start) :
                    \E i \in DOMAIN segs' : b \in Begin(i)' .. segs'[i].end
               /\ Edge' = EndOf(cfg, start) + 1
    <2> DEFINE end == EndOf(cfg, start)
    <2>1. start \in Nat /\ end \in Nat /\ start <= end
      BY <1>0, EndBounds
    <2>2. /\ DOMAIN segs' = 1 .. Len(segs) + 1 /\ Len(segs') = Len(segs) + 1
          /\ \A i \in DOMAIN segs : segs'[i] = segs[i]
          /\ segs'[Len(segs) + 1].end = end
      <3>1. New(start, end).end = end
        BY DEF New
      <3> HIDE DEF end
      <3> QED BY <1>4, <3>1, NewSegmentEffect DEF end
    <2>3. \A i \in 1 .. Len(segs) + 1 : Begin(i)' = Begin(i)
      BY <1>0, <1>4, <2>2, SameBegin
    <2>4. Edge' = end + 1
      BY <1>0, <2>2 DEF Edge, StartOf
    <2>5. ASSUME NEW i \in DOMAIN segs'
          PROVE  Begin(i)' \in Starts(cfg') /\ segs'[i].end = EndOf(cfg', Begin(i)')
      <3>1. CASE i \in DOMAIN segs
        BY <1>0, <1>4, <2>2, <2>3, <3>1 DEF Cutting
      <3>2. CASE i = Len(segs) + 1
        <4>1. Begin(i)' = Begin(i) /\ Begin(i) = Edge
          BY <1>0, <2>3, <3>2 DEF Begin, Edge
        <4> QED BY <1>4, <2>2, <3>2, <4>1
      <3> QED BY <1>0, <2>2, <3>1, <3>2
    <2>6. ASSUME NEW b \in cfg.zero .. end
          PROVE  \E i \in DOMAIN segs' : b \in Begin(i)' .. segs'[i].end
      <3>1. CASE b < start
        BY <1>0, <1>4, <2>1, <2>2, <2>3, <3>1
      <3>2. CASE b >= start
        <4>1. PICK k \in 1 .. Len(segs) + 1 : k = Len(segs) + 1
          BY <1>0
        <4>2. k \in DOMAIN segs' /\ segs'[k].end = end
          BY <2>2, <4>1
        <4>3. Begin(k)' = start
          BY <1>4, <2>3, <4>1 DEF Begin, Edge
        <4>4. b \in start .. end
          BY <1>0, <2>1, <3>2
        <4> QED BY <4>2, <4>3, <4>4
      <3> QED BY <1>0, <2>1, <3>1, <3>2
    <2> QED BY <2>2, <2>4, <2>5, <2>6
  <1>5. CASE CutSegment
    <2>1. /\ next.start \in Starts(cfg) /\ next.end = EndOf(cfg, next.start)
          /\ next'.start = next.end + 1 /\ next'.start \in Starts(cfg)
          /\ next'.end = Reach(cfg, next'.start)
          /\ NewSegment(next.start, EndOf(cfg, next.start)) /\ cfg' = cfg /\ pc' = "cut"
      BY <1>5, CutEffect DEF CutSegment
    <2>2. /\ next.start = Edge
          /\ \A b \in cfg.zero .. next.start - 1 :
               \E i \in DOMAIN segs : b \in Begin(i) .. segs[i].end
      BY <1>5 DEF CutSegment, Cutting
    <2>3. next.end \in Nat
      BY <1>0, <2>1, EndBounds
    <2>4. /\ Len(segs') = Len(segs) + 1
          /\ \A i \in DOMAIN segs' : Begin(i)' \in Starts(cfg')
                                     /\ segs'[i].end = EndOf(cfg', Begin(i)')
          /\ \A b \in cfg.zero .. next.end :
               \E i \in DOMAIN segs' : b \in Begin(i)' .. segs'[i].end
          /\ Edge' = next.end + 1
      BY <1>4, <2>1, <2>2
    <2>5. next'.start - 1 = next.end
      BY <1>0, <2>1, <2>3, <2>4
    <2> QED BY <2>1, <2>4, <2>5 DEF Cutting
  <1>6. CASE LastSegment
    <2>1. /\ next.start \in Starts(cfg) /\ EndOf(cfg, next.start) >= cfg.init
          /\ NewSegment(next.start, EndOf(cfg, next.start)) /\ cfg' = cfg /\ pc' = "spawn"
      BY <1>6, LastEffect DEF LastSegment
    <2>2. /\ next.start = Edge
          /\ \A b \in cfg.zero .. next.start - 1 :
               \E i \in DOMAIN segs : b \in Begin(i) .. segs[i].end
      BY <1>6 DEF LastSegment, Cutting
    <2>3. EndOf(cfg, next.start) \in Nat
      BY <1>0, <2>1, EndBounds
    <2>4. /\ \A i \in DOMAIN segs' : Begin(i)' \in Starts(cfg')
                                     /\ segs'[i].end = EndOf(cfg', Begin(i)')
          /\ \A b \in cfg.zero .. EndOf(cfg, next.start) :
               \E i \in DOMAIN segs' : b \in Begin(i)' .. segs'[i].end
      BY <1>4, <2>1, <2>2
    <2>5. \A b \in cfg.zero .. cfg.init : b \in cfg.zero .. EndOf(cfg, next.start)
      BY <1>0, <2>1, <2>3
    <2> QED BY <2>1, <2>4, <2>5 DEF Cutting
  <1>7. CASE SkipScan \/ Complete \/ Follow \/ UNCHANGED vars
    BY <1>1, <1>7 DEF SkipScan, Complete, Follow
  <1>8. ASSUME NEW i \in DOMAIN segs, Spawn(i) PROVE Cutting'
    BY <1>1, <1>8, SpawnEffect DEF Spawn
  <1>9. ASSUME NEW i \in DOMAIN segs, ScanBlock(i) PROVE Cutting'
    BY <1>1, <1>9, ScanEffect DEF ScanBlock
  <1>10. ASSUME NEW i \in DOMAIN segs, SegmentDone(i) PROVE Cutting'
    BY <1>1, <1>10, DoneEffect DEF SegmentDone
  <1> QED BY <1>2, <1>3, <1>5, <1>6, <1>7, <1>8, <1>9, <1>10
        DEF Next, Starting, Segment, UpToDate

\* The row of the listener and the block a process begins at keep to the block last marked.
LEMMA MarkingStep == FInv /\ [Next]_vars => Marking'
  <1> SUFFICES ASSUME TypeOK, Marking, [Next]_vars PROVE Marking'
    BY DEF FInv
  <1> USE DEF vars, history
  <1>0. /\ bnRow \in 0 .. MaxBlock \cup {NoRow} /\ marked \in 0 .. MaxBlock
        /\ cur \in 0 .. MaxBlock + 1 /\ startBlock \in 0 .. MaxBlock
        /\ MaxBlock \in Nat /\ NoRow \notin Nat /\ cfg \in Configs
    BY DEF TypeOK
  <1>1. CASE Boot
    <2>1. CASE bnRow # NoRow
      BY <1>0, <1>1, <2>1 DEF Boot, Marking, Unmarked
    <2>2. CASE bnRow = NoRow
      BY <1>0, <1>1, <2>2 DEF Boot, Marking, Unmarked
    <2> QED BY <2>1, <2>2
  <1>2. CASE FirstSegment \/ CutSegment
    BY <1>0, <1>2 DEF FirstSegment, CutSegment, Marking, Unmarked
  <1>3. CASE LastSegment
    <2>1. startBlock = marked /\ UNCHANGED <<bnRow, marked, startBlock>> /\ pc = "cut"
          /\ pc' = "spawn" /\ cur' = IF startBlock = 0 THEN cfg.init + 1 ELSE startBlock
      BY <1>3 DEF LastSegment, Marking
    <2>2. cur' >= marked'
      BY <1>0, <2>1, ConfigFields
    <2> QED BY <2>1, <2>2 DEF Marking, Unmarked
  <1>4. CASE SkipScan \/ Complete
    BY <1>4 DEF SkipScan, Complete, Marking, Unmarked
  <1>5. ASSUME NEW i \in DOMAIN segs, Spawn(i) PROVE Marking'
    BY <1>5 DEF Spawn, Marking, Unmarked
  <1>6. ASSUME NEW i \in DOMAIN segs, ScanBlock(i) \/ SegmentDone(i) PROVE Marking'
    BY <1>6 DEF ScanBlock, SegmentDone, Marking, Unmarked
  <1>7. CASE Follow
    <2>1. /\ pc = "listen" /\ pc' = "listen" /\ startBlock' = startBlock
          /\ \/ UNCHANGED <<bnRow, cur, marked>>
             \/ bnRow = NoRow /\ bnRow' = NoRow /\ marked' = marked /\ cur' = cur + 1
             \/ bnRow # NoRow /\ bnRow' = cur /\ marked' = cur /\ cur' = cur + 1
      BY <1>7 DEF Follow
    <2> QED BY <1>0, <2>1 DEF Marking, Unmarked
  <1>8. CASE Crash
    BY <1>8 DEF Crash, Marking, Unmarked
  <1>9. CASE UNCHANGED vars
    BY <1>9 DEF Marking, Unmarked
  <1> QED BY <1>1, <1>2, <1>3, <1>4, <1>5, <1>6, <1>7, <1>8, <1>9
        DEF Next, Starting, Segment, UpToDate

\* Segments work in a process that scans, and have passed what they count as done.
LEMMA WorkStep == FInv /\ [Next]_vars => Work'
  <1> SUFFICES ASSUME TypeOK, Shapes, Cutting, Work, [Next]_vars PROVE Work'
    BY DEF FInv
  <1> USE DEF vars, history
  <1>0. /\ segs \in Seq(SegFetchers) /\ DOMAIN segs = 1 .. Len(segs) /\ Len(segs) \in Nat
        /\ cfg \in Configs /\ startBlock \in 0 .. MaxBlock /\ MaxBlock \in Nat
    BY DEF Shapes, TypeOK
  <1>1. CASE Boot
    <2>1. segs' = <<>> /\ pc' = "init" /\ (startBlock' = 0 => cfg' \in scanConfigs')
      BY <1>1 DEF Boot
    <2>2. scanConfigs' # {}
      BY <1>1 DEF Boot, Work
    <2> QED BY <2>1, <2>2 DEF Work
  <1>2. CASE FirstSegment
    BY <1>2 DEF FirstSegment, Work
  <1>3. ASSUME NEW start \in Starts(cfg), NewSegment(start, EndOf(cfg, start)),
               pc = "cut", pc' \in {"cut", "spawn"}, UNCHANGED <<cfg, startBlock, scanConfigs>>
        PROVE  Work'
    <2>1. New(start, EndOf(cfg, start)).state = "idle"
      BY DEF New
    <2>2. /\ DOMAIN segs' = 1 .. Len(segs) + 1
          /\ \A i \in DOMAIN segs : segs'[i] = segs[i]
          /\ segs'[Len(segs) + 1].state = "idle"
      BY <1>3, <2>1, NewSegmentEffect
    <2>3. \A i \in DOMAIN segs' :
            /\ segs'[i].state # "running"
            /\ segs'[i].state = "done" => segs'[i].index >= segs'[i].end
                                          \/ segs'[i].pos > segs'[i].end
      <3> TAKE i \in DOMAIN segs'
      <3>1. i \in DOMAIN segs \/ i = Len(segs) + 1
        BY <1>0, <2>2
      <3> QED BY <1>3, <2>2, <3>1 DEF Work
    <2> QED BY <1>3, <2>3 DEF Work
  <1>4. CASE CutSegment
    BY <1>3, <1>4, CutEffect DEF CutSegment
  <1>5. CASE LastSegment
    BY <1>3, <1>5, LastEffect DEF LastSegment
  <1>6. CASE SkipScan
    BY <1>0, <1>6 DEF SkipScan, Work
  <1>7. CASE Complete
    BY <1>0, <1>7 DEF Complete, Work
  <1>8. ASSUME NEW i \in DOMAIN segs, Spawn(i) PROVE Work'
    <2>1. /\ pc = "spawn" /\ startBlock = 0 /\ pc' \in {"spawn", "wait"}
          /\ UNCHANGED <<startBlock, cfg, scanConfigs, segRow, bnRow>>
      BY <1>8 DEF Spawn
    <2>2. \A j \in DOMAIN segs' :
            segs'[j].state = "done" => segs'[j].index >= segs'[j].end
                                       \/ segs'[j].pos > segs'[j].end
      BY <1>8, SpawnEffect DEF Work
    <2> QED BY <2>1, <2>2 DEF Work
  <1>9. ASSUME NEW i \in DOMAIN segs, ScanBlock(i) PROVE Work'
    <2>1. /\ pc \in {"spawn", "wait"} /\ startBlock = 0 /\ cfg \in scanConfigs
          /\ UNCHANGED <<pc, startBlock, cfg, scanConfigs, bnRow>>
          /\ segs[i].state = "running"
      BY <1>9 DEF ScanBlock, Work
    <2>2. \A j \in DOMAIN segs' :
            segs'[j].state = "done" => segs'[j].index >= segs'[j].end
                                       \/ segs'[j].pos > segs'[j].end
      BY <1>9, <2>1, ScanEffect DEF Work
    <2> QED BY <2>1, <2>2 DEF Work
  <1>10. ASSUME NEW i \in DOMAIN segs, SegmentDone(i) PROVE Work'
    <2>1. /\ pc \in {"spawn", "wait"} /\ startBlock = 0 /\ cfg \in scanConfigs
          /\ UNCHANGED <<pc, startBlock, cfg, scanConfigs, bnRow>>
          /\ segs[i].pos > segs[i].end
      BY <1>10 DEF SegmentDone, Work
    <2>2. \A j \in DOMAIN segs' :
            segs'[j].state = "done" => segs'[j].index >= segs'[j].end
                                       \/ segs'[j].pos > segs'[j].end
      BY <1>10, <2>1, DoneEffect DEF Work
    <2> QED BY <2>1, <2>2 DEF Work
  <1>11. CASE Follow
    BY <1>11 DEF Follow, Work
  <1>12. CASE Crash
    <2>1. segs' = <<>> /\ pc' = "down" /\ UNCHANGED <<segRow, bnRow, scanConfigs>>
      BY <1>12 DEF Crash
    <2> QED BY <2>1 DEF Work
  <1>13. CASE UNCHANGED vars
    BY <1>13 DEF Work
  <1> QED BY <1>1, <1>2, <1>4, <1>5, <1>6, <1>7, <1>8, <1>9, <1>10, <1>11, <1>12, <1>13
        DEF Next, Starting, Segment, UpToDate

-----------------------------------------------------------------------------
\* What is said of one configuration c, step by step.
LEMMA BootSound ==
    ASSUME FInv, Boot, NEW c \in Configs, scanConfigs' = {c}
    PROVE  Rows(c)' /\ Indices(c)' /\ Handover(c)'
  <1> USE DEF history
  <1>1. /\ segs' = <<>> /\ pc' = "init"
        /\ UNCHANGED <<segRow, cur, scanned, followed, marked>>
        /\ Unmarked' <=> Unmarked
    BY DEF Boot, Unmarked
  <1>2. CASE scanConfigs = {}
    <2>1. segRow = <<>> /\ bnRow = NoRow
      BY <1>2 DEF FInv, Work
    <2>2. bnRow' = NoRow \/ bnRow' = 0
      BY <2>1 DEF Boot
    <2>3. segRow' = <<>> /\ Unmarked'
      BY <1>1, <2>1, <2>2 DEF Unmarked
    <2> QED BY <1>1, <2>3 DEF Rows, Indices, Handover
  <1>3. CASE scanConfigs # {}
    <2>1. scanConfigs = {c}
      BY <1>3 DEF Boot
    <2>2. Rows(c) /\ Handover(c)
      BY <2>1 DEF FInv, Sound
    <2>3. Rows(c)'
      <3> SUFFICES ASSUME Unmarked, NEW e \in DOMAIN segRow
                   PROVE  \E s \in Starts(c) : e = EndOf(c, s)
                                                /\ Vouched(c, s, e, segRow[e])'
        BY <1>1 DEF Rows, Vouched
      <3>1. PICK s \in Starts(c) : e = EndOf(c, s) /\ Vouched(c, s, e, segRow[e])
        BY <2>2 DEF Rows
      <3> QED BY <1>1, <3>1 DEF Vouched
    <2>4. Handover(c)'
      BY <1>1, <2>2 DEF Handover
    <2> QED BY <1>1, <2>3, <2>4 DEF Indices
  <1> QED BY <1>2, <1>3

\* What lies behind the row a segment is given has been scanned.
LEMMA NewSegmentSound ==
    ASSUME FInv, NEW c \in Configs, scanConfigs = {c}, pc = "cut",
           NEW start \in Starts(cfg), NewSegment(start, EndOf(cfg, start)), start = Edge,
           UNCHANGED <<cfg, startBlock, bnRow, scanned>>
    PROVE  Rows(c)' /\ Indices(c)'
  <1> DEFINE end == EndOf(cfg, start)
             n == New(start, end)
  <1>0. /\ segs \in Seq(SegFetchers) /\ DOMAIN segs = 1 .. Len(segs) /\ Len(segs) \in Nat
        /\ cfg \in Configs /\ TypeOK /\ Shapes /\ startBlock \in Nat /\ Rows(c) /\ Indices(c)
    <2>1. TypeOK /\ Shapes /\ Rows(c) /\ Indices(c) /\ Handover(c)
      BY DEF FInv, Sound
    <2>2. cfg \in Configs /\ startBlock \in Nat
      BY <2>1 DEF TypeOK
    <2> QED BY <2>1, <2>2 DEF Shapes
  <1>1. start \in Nat /\ end \in Nat /\ start <= end /\ (end = start => start \in Skipped(cfg))
    BY <1>0, EndBounds
  <1>2. Unmarked => startBlock = 0
    BY <1>0 DEF FInv, Marking, Unmarked
  <1>3. startBlock = 0 => cfg = c /\ Unmarked
    BY DEF FInv, Work, Marking
  <1>4. Vouched(c, start, end, start) \/ cfg # c
    BY <1>1 DEF Vouched
  <1>5. /\ DOMAIN segs' = 1 .. Len(segs) + 1
        /\ \A i \in DOMAIN segs : segs'[i] = segs[i]
        /\ segs'[Len(segs) + 1] = n
        /\ \A e \in DOMAIN segRow' :
             \/ e \in DOMAIN segRow /\ segRow'[e] = segRow[e]
             \/ e \notin DOMAIN segRow /\ e = end /\ segRow'[e] = start
    <2>1. end = EndOf(cfg, start) /\ NewSegment(start, end)
      OBVIOUS
    <2> HIDE DEF end
    <2>2. TypeOK /\ Shapes /\ start \in Starts(cfg)
      BY <1>0
    <2>3. /\ DOMAIN segs' = 1 .. Len(segs) + 1
          /\ \A i \in DOMAIN segs : segs'[i] = segs[i]
          /\ segs'[Len(segs) + 1] = New(start, end)
      BY <2>1, <2>2, NewSegmentEffect
    <2>4. \A e \in DOMAIN segRow' :
             \/ e \in DOMAIN segRow /\ segRow'[e] = segRow[e]
             \/ e \notin DOMAIN segRow /\ e = end /\ segRow'[e] = start
      BY <2>1, <2>2, NewSegmentEffect
    <2> QED BY <2>3, <2>4
  <1>6. n.end = end /\ n.pos = n.index
        /\ n.index = IF end \in DOMAIN segRow THEN segRow[end] ELSE start
    BY DEF New
  <1> HIDE DEF n, end
  <1>7. Rows(c)'
    <2>1. SUFFICES ASSUME Unmarked', NEW e \in DOMAIN segRow'
                   PROVE  \E s \in Starts(c) : e = EndOf(c, s) /\ Vouched(c, s, e, segRow[e])'
      BY DEF Rows, Vouched
    <2>2. Unmarked /\ cfg = c
      BY <1>2, <1>3, <2>1 DEF Unmarked
    <2>3. CASE e \in DOMAIN segRow /\ segRow'[e] = segRow[e]
      <3>1. PICK s \in Starts(c) : e = EndOf(c, s) /\ Vouched(c, s, e, segRow[e])
        BY <1>0, <2>2, <2>3 DEF Rows
      <3> QED BY <2>3, <3>1 DEF Vouched
    <2>4. CASE e = end /\ segRow'[e] = start
      BY <1>4, <2>2, <2>4 DEF Vouched, end
    <2> QED BY <1>5, <2>3, <2>4
  <1>8. Indices(c)'
    <2>1. SUFFICES ASSUME startBlock = 0, NEW i \in DOMAIN segs'
                   PROVE  /\ Vouched(c, Begin(i), segs[i].end, segs[i].index)'
                          /\ segs'[i].index <= segs'[i].pos
                          /\ Begin(i)' .. segs'[i].pos - 1 \subseteq scanned
      BY DEF Indices
    <2>2. cfg = c /\ Unmarked
      BY <1>3, <2>1
    <2>3. Begin(i)' = Begin(i)
      BY <1>0, <1>5, SameBegin
    <2>4. CASE i \in DOMAIN segs
      BY <1>0, <1>5, <2>1, <2>3, <2>4 DEF Indices, Vouched
    <2>5. CASE i = Len(segs) + 1
      <3>1. Begin(i)' = start
        BY <2>3, <2>5 DEF Begin, Edge
      <3>2. Vouched(c, start, end, n.index)
        <4>1. CASE end \in DOMAIN segRow
          <5>1. PICK s \in Starts(c) : end = EndOf(c, s) /\ Vouched(c, s, end, segRow[end])
            BY <1>0, <2>2, <4>1 DEF Rows
          <5>2. s = start
            BY <2>2, <5>1, EndTellsStart DEF end
          <5> QED BY <1>6, <4>1, <5>1, <5>2
        <4>2. CASE end \notin DOMAIN segRow
          BY <1>4, <1>6, <2>2, <4>2
        <4> QED BY <4>1, <4>2
      <3>3. n.index \in Nat
        <4>1. end \in DOMAIN segRow => segRow[end] \in Nat
          BY <1>0 DEF TypeOK
        <4> QED BY <1>1, <1>6, <4>1
      <3> QED BY <1>5, <1>6, <2>5, <3>1, <3>2, <3>3 DEF Vouched
    <2> QED BY <1>0, <1>5, <2>4, <2>5
  <1> QED BY <1>7, <1>8

\* A row moves to a block only when what lies before it has been scanned.
LEMMA ScanSound ==
    ASSUME FInv, NEW c \in Configs, scanConfigs = {c}, NEW i \in DOMAIN segs, ScanBlock(i)
    PROVE  Rows(c)' /\ Indices(c)' /\ Handover(c)'
  <1>0. /\ segs \in Seq(SegFetchers) /\ DOMAIN segs = 1 .. Len(segs) /\ Len(segs) \in Nat
        /\ cfg \in Configs /\ TypeOK /\ Shapes /\ Rows(c) /\ Indices(c) /\ Handover(c)
    <2>1. TypeOK /\ Shapes /\ Rows(c) /\ Indices(c) /\ Handover(c)
      BY DEF FInv, Sound
    <2>2. cfg \in Configs /\ startBlock \in Nat
      BY <2>1 DEF TypeOK
    <2> QED BY <2>1, <2>2 DEF Shapes
  <1>1. startBlock = 0 /\ cfg = c
    BY DEF FInv, Work, ScanBlock
  <1>2. /\ UNCHANGED <<pc, cfg, startBlock, bnRow, marked, followed, cur>>
        /\ scanned' = scanned \cup {segs[i].pos} /\ segs[i].pos <= segs[i].end
    BY DEF ScanBlock
  <1>3. /\ DOMAIN segs' = DOMAIN segs
        /\ \A j \in DOMAIN segs :
             /\ segs'[j].end = segs[j].end /\ segs'[j].index = segs[j].index
             /\ segs'[j].pos = IF j = i THEN segs[i].pos + 1 ELSE segs[j].pos
    BY <1>0, ScanEffect
  <1>4. \A j \in DOMAIN segs : Begin(j)' = Begin(j) /\ Begin(j) \in Starts(c)
                               /\ segs[j].end = EndOf(c, Begin(j)) /\ Begin(j) \in Nat
    BY <1>0, <1>1, <1>2, <1>3, SameBegin, EndBounds DEF FInv, Cutting
  <1>5. \A j \in DOMAIN segs : /\ segs[j].end \in Nat /\ segs[j].index \in Nat
                               /\ segs[j].pos \in Nat
    <2>1. \A j \in DOMAIN segs : segs[j] \in SegFetchers
      BY <1>0
    <2> QED BY <2>1 DEF SegFetchers
  <1>6. \A j \in DOMAIN segs :
          /\ Vouched(c, Begin(j), segs[j].end, segs[j].index)
          /\ segs[j].index <= segs[j].pos
          /\ Begin(j) .. segs[j].pos - 1 \subseteq scanned
    BY <1>0, <1>1 DEF Indices
  <1>7. Handover(c)'
    BY <1>0, <1>2 DEF Handover, Unmarked
  <1>8. Indices(c)'
    <2> SUFFICES ASSUME NEW j \in DOMAIN segs
                 PROVE  /\ Vouched(c, Begin(j), segs[j].end, segs[j].index)'
                        /\ segs'[j].index <= segs'[j].pos
                        /\ Begin(j)' .. segs'[j].pos - 1 \subseteq scanned'
      BY <1>3 DEF Indices
    <2>1. Vouched(c, Begin(j), segs[j].end, segs[j].index)'
      BY <1>2, <1>3, <1>4, <1>6 DEF Vouched
    <2>2. CASE j = i
      BY <1>2, <1>3, <1>4, <1>5, <1>6, <2>1, <2>2
    <2>3. CASE j # i
      BY <1>2, <1>3, <1>4, <1>5, <1>6, <2>1, <2>3
    <2> QED BY <2>2, <2>3
  <1>9. Rows(c)'
    <2> SUFFICES ASSUME Unmarked', NEW e \in DOMAIN segRow'
                 PROVE  \E s \in Starts(c) : e = EndOf(c, s) /\ Vouched(c, s, e, segRow[e])'
      BY DEF Rows, Vouched
    <2>1. Unmarked
      BY <1>2 DEF Unmarked
    <2>2. CASE e \in DOMAIN segRow /\ segRow'[e] = segRow[e]
      <3>1. PICK s \in Starts(c) : e = EndOf(c, s) /\ Vouched(c, s, e, segRow[e])
        BY <1>0, <2>1, <2>2 DEF Rows
      <3> QED BY <1>2, <2>2, <3>1 DEF Vouched
    <2>3. CASE e = segs[i].end /\ segRow'[e] = segs[i].pos
      <3>1. PICK s \in Starts(c) : s = Begin(i)
        BY <1>4
      <3>2. e = EndOf(c, s)
        BY <1>4, <2>3, <3>1
      <3>3. s <= segs[i].index /\ s \in Nat
        BY <1>4, <1>6, <3>1 DEF Vouched
      <3>4. s <= segs[i].pos /\ s .. segs[i].pos - 1 \subseteq scanned'
        BY <1>2, <1>5, <1>6, <3>1, <3>3
      <3>5. Vouched(c, s, e, segRow[e])'
        BY <1>2, <2>3, <3>4 DEF Vouched
      <3> QED BY <3>2, <3>5
    <2>4. segRow' = segRow \/ (segs[i].end \in DOMAIN segRow
                               /\ segRow' = [segRow EXCEPT ![segs[i].end] = segs[i].pos])
      BY DEF ScanBlock
    <2> QED BY <2>2, <2>3, <2>4
  <1> QED BY <1>7, <1>8, <1>9

\* wg.Wait() returns: every piece of the history has been scanned.
LEMMA CompleteSound ==
    ASSUME FInv, NEW c \in Configs, scanConfigs = {c}, Complete
    PROVE  Handover(c)'
  <1> USE DEF history
  <1>0. /\ DOMAIN segs = 1 .. Len(segs) /\ cfg \in Configs /\ TypeOK /\ Shapes
        /\ segs \in Seq(SegFetchers) /\ c.zero \in Nat /\ c.init \in Nat
        /\ startBlock \in Nat /\ Indices(c) /\ Handover(c)
    <2>1. TypeOK /\ Shapes /\ Rows(c) /\ Indices(c) /\ Handover(c)
      BY DEF FInv, Sound
    <2>2. cfg \in Configs /\ startBlock \in Nat
      BY <2>1 DEF TypeOK
    <2> QED BY <2>1, <2>2 DEF Shapes
  <1>1. /\ pc = "wait" /\ pc' = "listen" /\ \A i \in DOMAIN segs : segs[i].state = "done"
        /\ UNCHANGED <<scanned, followed, marked, bnRow, cur>>
    BY DEF Complete
  <1>2. c.zero .. c.init \subseteq scanned \cup Skipped(c)
    <2>1. CASE startBlock > 0
      BY <1>0, <2>1 DEF FInv, Marking, Handover
    <2>2. CASE startBlock = 0
      <3>0. cfg = c
        BY <1>1, <2>2 DEF FInv, Work
      <3> SUFFICES ASSUME NEW b \in c.zero .. c.init PROVE b \in scanned \cup Skipped(c)
        OBVIOUS
      <3>1. PICK i \in DOMAIN segs : b \in Begin(i) .. segs[i].end
        BY <1>1, <3>0 DEF FInv, Cutting
      <3>2. segs[i].index >= segs[i].end \/ segs[i].pos > segs[i].end
        BY <1>1 DEF FInv, Work
      <3>3. /\ Vouched(c, Begin(i), segs[i].end, segs[i].index)
            /\ Begin(i) .. segs[i].pos - 1 \subseteq scanned
        BY <1>0, <2>2 DEF Indices
      <3>4. segs[i].index \in Nat /\ segs[i].pos \in Nat /\ segs[i].end \in Nat
            /\ Begin(i) \in Nat
        <4>1. Begin(i) \in Starts(cfg)
          BY DEF FInv, Cutting
        <4>2. segs[i] \in SegFetchers
          BY <1>0
        <4> QED BY <1>0, <4>1, <4>2, EndBounds DEF SegFetchers
      <3>5. CASE segs[i].pos > segs[i].end
        <4>1. b \in Begin(i) .. segs[i].pos - 1
          BY <3>1, <3>4, <3>5
        <4> QED BY <3>3, <4>1
      <3>6. CASE segs[i].index >= segs[i].end
        <4>1. segs[i].index = segs[i].end
          BY <3>3, <3>4, <3>6 DEF Vouched
        <4>2. b \in Begin(i) .. segs[i].index - 1 \/ b = segs[i].end
          BY <1>0, <3>1, <3>4, <4>1
        <4> QED BY <3>3, <4>1, <4>2 DEF Vouched
      <3> QED BY <3>2, <3>5, <3>6
    <2> QED BY <1>0, <2>1, <2>2
  <1> QED BY <1>0, <1>1, <1>2 DEF Handover, Unmarked

\* No step leaves a block out, as long as one configuration has scanned.
LEMMA SoundStep == FInv /\ [Next]_vars => Sound'
  <1> SUFFICES ASSUME FInv, [Next]_vars, NEW c \in Configs, scanConfigs' = {c}
               PROVE  Rows(c)' /\ Indices(c)' /\ Handover(c)'
    BY DEF Sound
  <1> USE DEF vars, history
  <1>0. /\ segs \in Seq(SegFetchers) /\ DOMAIN segs = 1 .. Len(segs) /\ Len(segs) \in Nat
        /\ cfg \in Configs /\ TypeOK /\ Shapes /\ c.init \in Nat
    <2>1. TypeOK /\ Shapes
      BY DEF FInv
    <2>2. segs \in Seq(SegFetchers) /\ cfg \in Configs
      BY <2>1 DEF TypeOK, Shapes
    <2>3. c.init \in Nat
      BY ConfigFields
    <2> QED BY <2>1, <2>2, <2>3
  <1>1. CASE Boot
    BY <1>1, BootSound
  <1>2. CASE ~Boot
    <2>1. scanConfigs = {c}
      BY <1>2 DEF Next, Starting, Segment, FirstSegment, CutSegment, LastSegment, SkipScan,
                  Spawn, Complete, ScanBlock, SegmentDone, Follow, Crash, UpToDate
    <2>2. Rows(c) /\ Indices(c) /\ Handover(c)
      BY <2>1 DEF FInv, Sound
    <2>3. ASSUME UNCHANGED <<cfg, startBlock, bnRow, segRow, scanned>>,
                 DOMAIN segs' = DOMAIN segs,
                 \A i \in DOMAIN segs : /\ segs'[i].end = segs[i].end
                                        /\ segs'[i].index = segs[i].index
                                        /\ segs'[i].pos = segs[i].pos
          PROVE  Rows(c)' /\ Indices(c)'
      <3>1. \A i \in DOMAIN segs : Begin(i)' = Begin(i)
        BY <1>0, <2>3, SameBegin
      <3>2. Rows(c)'
        BY <2>2, <2>3 DEF Rows, Vouched, Unmarked
      <3>3. Indices(c)'
        BY <2>2, <2>3, <3>1 DEF Indices, Vouched
      <3> QED BY <3>2, <3>3
    <2>4. CASE FirstSegment
      BY <2>2, <2>3, <2>4 DEF FirstSegment, Handover, Unmarked
    <2>5. CASE CutSegment
      <3>1. Rows(c)' /\ Indices(c)'
        BY <1>0, <2>1, <2>5, CutEffect, NewSegmentSound DEF CutSegment, Cutting, FInv
      <3>2. Handover(c)'
        BY <2>2, <2>5 DEF CutSegment, Handover, Unmarked
      <3> QED BY <3>1, <3>2
    <2>6. CASE LastSegment
      <3>1. Rows(c)' /\ Indices(c)'
        BY <1>0, <2>1, <2>6, LastEffect, NewSegmentSound DEF LastSegment, Cutting, FInv
      <3>2. /\ pc = "cut" /\ pc' = "spawn" /\ UNCHANGED <<bnRow, marked, scanned, followed>>
            /\ cur' = IF startBlock = 0 THEN cfg.init + 1 ELSE startBlock
        BY <2>6 DEF LastSegment
      <3>3. startBlock = marked /\ startBlock \in Nat /\ cfg.init \in Nat
            /\ (startBlock > 0 => ~Unmarked) /\ (startBlock = 0 => cfg = c)
        BY <1>0, <2>1, <3>2 DEF FInv, Marking, Work, TypeOK
      <3>4. c.init + 1 .. cur' - 1 \subseteq followed
        <4>1. CASE startBlock = 0
          BY <1>0, <3>2, <3>3, <4>1
        <4>2. CASE startBlock > 0
          BY <1>0, <2>2, <3>2, <3>3, <4>2 DEF Handover
        <4> QED BY <3>3, <4>1, <4>2
      <3>5. Handover(c)'
        BY <2>2, <3>2, <3>4 DEF Handover, Unmarked
      <3> QED BY <3>1, <3>5
    <2>7. CASE SkipScan
      <3>1. ~Unmarked /\ pc = "spawn" /\ UNCHANGED <<bnRow, marked, scanned, followed, cur>>
        BY <2>7 DEF SkipScan, FInv, Marking
      <3>2. Handover(c)'
        BY <2>2, <3>1 DEF Handover, Unmarked
      <3> QED BY <2>3, <2>7, <3>2 DEF SkipScan
    <2>8. CASE Complete
      BY <2>1, <2>3, <2>8, CompleteSound DEF Complete
    <2>9. ASSUME NEW i \in DOMAIN segs, Spawn(i)
          PROVE  Rows(c)' /\ Indices(c)' /\ Handover(c)'
      <3>1. Handover(c)'
        BY <2>2, <2>9 DEF Spawn, Handover, Unmarked
      <3>2. Rows(c)' /\ Indices(c)'
        BY <1>0, <2>3, <2>9, SpawnEffect DEF Spawn
      <3> QED BY <3>1, <3>2
    <2>10. ASSUME NEW i \in DOMAIN segs, ScanBlock(i)
           PROVE  Rows(c)' /\ Indices(c)' /\ Handover(c)'
      BY <2>1, <2>10, ScanSound
    <2>11. ASSUME NEW i \in DOMAIN segs, SegmentDone(i)
           PROVE  Rows(c)' /\ Indices(c)' /\ Handover(c)'
      <3>1. Handover(c)'
        BY <2>2, <2>11 DEF SegmentDone, Handover, Unmarked
      <3>2. Rows(c)' /\ Indices(c)'
        BY <1>0, <2>3, <2>11, DoneEffect DEF SegmentDone
      <3> QED BY <3>1, <3>2
    <2>12. CASE Follow
      <3>1. /\ pc = "listen" /\ pc' = "listen" /\ cur \in 0 .. MaxBlock /\ MaxBlock \in Nat
            /\ scanned' = scanned /\ followed' = followed \cup {cur}
            /\ \/ UNCHANGED <<bnRow, cur, marked>>
               \/ bnRow = NoRow /\ bnRow' = NoRow /\ marked' = marked /\ cur' = cur + 1
               \/ bnRow # NoRow /\ bnRow' = cur /\ marked' = cur /\ cur' = cur + 1
        BY <1>0, <2>12 DEF Follow, TypeOK
      <3>2. c.zero .. c.init \subseteq scanned' \cup Skipped(c)
        BY <2>2, <3>1 DEF Handover
      <3>3. c.init + 1 .. cur - 1 \subseteq followed
        BY <2>2, <3>1 DEF Handover
      <3>4. c.init + 1 .. cur' - 1 \subseteq followed'
        BY <1>0, <3>1, <3>3
      <3>5. ~Unmarked' => c.init + 1 .. marked' \subseteq followed'
        <4>1. CASE UNCHANGED <<bnRow, marked>>
          BY <2>2, <3>1, <4>1 DEF Handover, Unmarked
        <4>2. CASE marked' = cur /\ cur' = cur + 1
          BY <1>0, <3>1, <3>4, <4>2
        <4> QED BY <3>1, <4>1, <4>2
      <3>6. Handover(c)'
        BY <3>2, <3>4, <3>5 DEF Handover
      <3>7. Indices(c)'
        BY <2>2, <2>12 DEF Follow, Indices, Vouched, Begin, StartOf
      <3>8. Rows(c)'
        <4>1. Unmarked' => Unmarked \/ marked = 0
          <5>1. cur >= marked /\ (bnRow # NoRow => marked = bnRow) /\ marked \in Nat
            BY <1>0, <3>1 DEF FInv, Marking, TypeOK
          <5> QED BY <3>1, <5>1 DEF Unmarked
        <4>2. marked = 0 => Unmarked
          BY DEF FInv, Marking, Unmarked
        <4>3. UNCHANGED <<segRow, scanned>>
          BY <2>12 DEF Follow
        <4> QED BY <2>2, <4>1, <4>2, <4>3 DEF Rows, Vouched
      <3> QED BY <3>6, <3>7, <3>8
    <2>13. CASE Crash
      <3>1. segs' = <<>> /\ pc' = "down"
            /\ UNCHANGED <<bnRow, segRow, scanned, followed, marked>>
        BY <2>13 DEF Crash
      <3>2. Rows(c)'
        BY <2>2, <3>1 DEF Rows, Vouched, Unmarked
      <3>3. Handover(c)' /\ Indices(c)'
        BY <2>2, <3>1 DEF Indices, Handover, Unmarked
      <3> QED BY <3>2, <3>3
    <2>14. CASE UNCHANGED vars
      BY <2>2, <2>3, <2>14 DEF Handover, Unmarked
    <2> QED BY <1>2, <2>4, <2>5, <2>6, <2>7, <2>8, <2>9, <2>10, <2>11, <2>12, <2>13, <2>14
          DEF Next, Starting, Segment, UpToDate
  <1> QED BY <1>1, <1>2

-----------------------------------------------------------------------------
\* The invariant holds in every state: NewFetcher cuts one and the same pieces
\* for one configuration, and rows, indices and the wait group tell the truth
\* about them.
THEOREM Invariance == Spec => []FInv
  <1>1. Init => FInv
    BY InitInv
  <1>2. FInv /\ [Next]_vars => FInv'
    BY TypeStep, CuttingStep, MarkingStep, WorkStep, SoundStep DEF FInv
  <1> QED BY <1>1, <1>2, PTL DEF Spec

\* Rows, indices, positions and the listener's block stay within the chain,
\* although the last segment of NewFetcher reaches beyond the init block.
THEOREM TypeCorrect == Spec => []TypeOK
  BY Invariance, PTL DEF FInv

\* A restart never goes back behind the block in the listener's row (main.go,
\* NewListener), and no segment is at work once a block has reached it
\* (fetcher.start), under any number of crashes and edits of the configuration:
\* a process scans only if it read 0, and then the row stays so until it listens.
THEOREM MarkIsKept == Spec => []MarkKept
  <1>1. FInv => MarkKept
    <2> SUFFICES ASSUME FInv, pc \in {"spawn", "wait", "listen"}
                 PROVE  /\ cur >= marked
                        /\ marked > 0 => \A i \in DOMAIN segs : segs[i].state # "running"
      BY DEF MarkKept
    <2>1. cur >= marked
      BY DEF FInv, Marking
    <2>2. ASSUME NEW i \in DOMAIN segs, segs[i].state = "running" PROVE marked = 0
      <3>1. pc \in {"spawn", "wait"} /\ startBlock = 0
        BY <2>2 DEF FInv, Work
      <3>2. Unmarked
        BY <3>1 DEF FInv, Marking
      <3> QED BY <3>2 DEF FInv, Marking, Unmarked
    <2> QED BY <2>1, <2>2
  <1> QED BY <1>1, Invariance, PTL

\* If all scans so far had one configuration, it is one of Configs.
LEMMA OneConfig == FInv /\ OneScanConfig => \E c \in Configs : scanConfigs = {c}
  BY FS_Singleton DEF FInv, Shapes, TypeOK, OneScanConfig

\* The row that GetOrInit finds by an end vouches for the segment that is cut
\* there again: what lies before its value has been scanned.
THEOREM ResumeIsSound == Spec => []ResumeSound
  <1>1. FInv => ResumeSound
    <2> SUFFICES ASSUME FInv, OneScanConfig, startBlock = 0, NEW i \in DOMAIN segs
                 PROVE  /\ StartOf(cfg, i) .. segs[i].index - 1 \subseteq scanned
                        /\ segs[i].index = segs[i].end =>
                             segs[i].end \in scanned \cup Skipped(cfg)
      BY DEF ResumeSound
    <2>1. PICK c \in Configs : scanConfigs = {c}
      BY OneConfig
    <2>2. Vouched(c, Begin(i), segs[i].end, segs[i].index)
      BY <2>1 DEF FInv, Sound, Indices
    <2>3. cfg = c
      <3>1. pc # "down"
        BY DEF FInv, Cutting
      <3> QED BY <2>1, <3>1 DEF FInv, Work
    <2> QED BY <2>2, <2>3 DEF Vouched, Begin
  <1> QED BY <1>1, Invariance, PTL

\* When the listener runs, no block before its own is missing from the index,
\* the blocks of one-block segments apart (fetcher.start, NewListener).
THEOREM HistoryIsComplete == Spec => []HistoryComplete
  <1>1. FInv => HistoryComplete
    <2> SUFFICES ASSUME FInv, OneScanConfig, pc = "listen", NEW c \in scanConfigs
                 PROVE  /\ c.zero .. c.init \subseteq scanned \cup Skipped(c)
                        /\ c.init + 1 .. cur - 1 \subseteq followed
      BY DEF HistoryComplete
    <2>1. c \in Configs /\ scanConfigs = {c}
      BY OneConfig
    <2> QED BY <2>1 DEF FInv, Sound, Handover
  <1> QED BY <1>1, Invariance, PTL
=============================================================================
