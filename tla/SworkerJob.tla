----------------------------- MODULE SworkerJob -----------------------------
(***************************************************************************)
(* The refresh of the sworker tables and the gauges fed from them:         *)
(* handlerSwoker with the goroutines it starts (src/metrics/handler.go),   *)
(* the paged reads of GetAllSworkReports, GetGroupInfo and GetPubKeys      *)
(* (src/chain/sworker.go) and the tables of src/db/sworker.go.             *)
(*                                                                         *)
(* Every tick of the scheduler starts a run in a goroutine of its own; the *)
(* flag sworkerActive lets one of them through.  It empties the three      *)
(* tables, copies the active work reports page by page, starts the version *)
(* count (which copies the public keys, outside the flag) and the storage  *)
(* gauges, builds the groups from their members' reports and starts the    *)
(* group gauges.  No goroutine but the run itself is covered by the flag.  *)
(*                                                                         *)
(* Abstractions.  A storage key is the number of its place in the trie,    *)
(* the key of a report, of its identity and of its public key the same     *)
(* one.  A table is the number of its rows per key.  Groups are read in    *)
(* pages of one.  Ticks lie an interval apart: testing and setting the     *)
(* flag is one step.  A gauge handler that reads the tables by two queries *)
(* does not influence anything else, so one of them is followed at a time  *)
(* (watch); those with one query are part of Buckets.                      *)
(***************************************************************************)
EXTENDS Integers, Sequences, FiniteSetsExt

CONSTANTS
    Keys,        \* places of the storage keys
    Page,        \* keys of a page of GetKeysPaged
    Inclusive,   \* does the node repeat the start key in its page?
    Snapshots,   \* possible storages: [keys |-> all reports, fresh |-> active ones]
    Members,     \* Members[g]: the members of group g
    VersionOf,   \* VersionOf[k]: versionMap of the code behind the key
    Runs,        \* goroutines of ticks under way together
    Counters,    \* goroutines of handlerSworkerVersion under way together
    MaxCycles, MaxFaults   \* bounds: ticks let through, failures

ASSUME SworkerAssumption ==
    /\ Keys \subseteq Nat \ {0} /\ IsFiniteSet(Keys)
    /\ Page \in Nat /\ Page > 1          \* 500, 800 and 1000 in the code
    /\ Inclusive \in BOOLEAN
    /\ \A s \in Snapshots : s.fresh \subseteq s.keys /\ s.keys \subseteq Keys
    /\ \A g \in DOMAIN Members : g \in Nat \ {0} /\ Members[g] \subseteq Keys
    /\ IsFiniteSet(DOMAIN Members)
    /\ DOMAIN VersionOf = Keys
    /\ Runs \subseteq Nat /\ Counters \subseteq Nat
    /\ MaxCycles \in Nat /\ MaxFaults \in Nat

Groups == DOMAIN Members

VARIABLES
    sworkerActive,
    report, pubkey,    \* work_report, pub_key: rows per key
    groups,            \* sworker_group: active counts of the rows per group
    pc, snap, start,   \* per run: position, storage at its block hash, startKey
    vpc, vsnap, vstart,\* per version count: position, its keys and the cycle's reports, startKey
    total,             \* the version gauges
    watch,             \* a gauge handler on its way, or what it has published
    partial,           \* history: groups whose members or rows were lost this cycle
    late, mixed,       \* history: a count outlived its cycle; the counts this concerns
    cycles, faults

run    == <<pc, snap, start>>
ver    == <<vpc, vsnap, vstart>>
tables == <<report, pubkey, groups>>
mixing == <<late, mixed>>
gauges == <<total, watch>>
vars   == <<sworkerActive, tables, run, ver, gauges, partial, mixing, cycles, faults>>

Counting == {c \in Counters : vpc[c] # "idle"}

\* Local variables of a goroutine that has ended.
NoSnap == [keys |-> {}, fresh |-> {}]

Empty == [k \in Keys |-> 0]

\* The rows of a table for the keys of S, and their number.
RowsOf(table, S) == UNION {{k} \X (1 .. table[k]) : k \in S}
Rows(table, S)   == Cardinality(RowsOf(table, S))

Versions == {VersionOf[k] : k \in Keys} \cup {"unknown"}

\* The version of a key, given the public keys that are known.
Version(k, known) == IF k \in known THEN VersionOf[k] ELSE "unknown"

NoTotal == [v \in Versions |-> 0]
NoWatch == [pc |-> "idle", kind |-> "storage", read |-> <<>>, want |-> <<0, 0>>, whole |-> TRUE]

Init ==
    /\ sworkerActive = FALSE
    /\ report = Empty /\ pubkey = Empty /\ groups = [g \in Groups |-> <<>>]
    /\ pc = [r \in Runs |-> "idle"] /\ start = [r \in Runs |-> 0]
    /\ snap = [r \in Runs |-> NoSnap]
    /\ vpc = [c \in Counters |-> "idle"] /\ vstart = [c \in Counters |-> 0]
    /\ vsnap = [c \in Counters |-> NoSnap]
    /\ total = NoTotal /\ watch = NoWatch
    /\ partial = {} /\ late = FALSE /\ mixed = {} /\ cycles = 0 /\ faults = 0

-----------------------------------------------------------------------------
\* The node's page: the first keys after the start key, or from it on.
GetKeysPaged(S, from, len) ==
    LET rest == {k \in S : IF Inclusive THEN k >= from ELSE k > from}
    IN {k \in rest : Cardinality({j \in rest : j < k}) < len}

\* Mutant: the start key is not removed from the page.
NextKeysKept(S, from, len) ==
    LET p == GetKeysPaged(S, from, len) IN IF p = {from} THEN {} ELSE p

\* "remove the startIndexKey"; an empty page ends the loop, and so does a page
\* of nothing but the start key.
NextKeys(S, from, len) == GetKeysPaged(S, from, len) \ {from}

Add(table, S) == [k \in Keys |-> IF k \in S THEN table[k] + 1 ELSE table[k]]

\* A new goroutine takes the first free name.
Free(names, position, x) ==
    position[x] = "idle" /\ \A y \in names : position[y] = "idle" => x <= y

Fault == faults < MaxFaults /\ faults' = faults + 1

-----------------------------------------------------------------------------
\* Mutant: the flag is tested but not set.
TickUnset(r) ==
    /\ Free(Runs, pc, r) /\ ~sworkerActive /\ cycles < MaxCycles
    /\ cycles' = cycles + 1
    /\ pc' = [pc EXCEPT ![r] = "clear"]
    /\ UNCHANGED <<sworkerActive, tables, snap, start, ver, gauges, partial, mixing, faults>>

\* A tick that finds the flag set returns at once.
Tick(r) ==
    /\ Free(Runs, pc, r) /\ ~sworkerActive /\ cycles < MaxCycles
    /\ sworkerActive' = TRUE /\ cycles' = cycles + 1
    /\ pc' = [pc EXCEPT ![r] = "clear"]
    /\ UNCHANGED <<tables, snap, start, ver, gauges, partial, mixing, faults>>

\* Every return of handlerSwoker resets the flag.
Leave(r) == /\ pc' = [pc EXCEPT ![r] = "idle"]
            /\ snap' = [snap EXCEPT ![r] = NoSnap] /\ start' = [start EXCEPT ![r] = 0]

Return(r) == sworkerActive' = FALSE /\ Leave(r)

\* The tables are emptied under the goroutines of an earlier cycle.
Outlived == /\ late' = (Counting # {}) /\ mixed' = Counting
            /\ watch' = [watch EXCEPT !.whole = @ /\ watch.pc \notin {"first", "second"}]

\* Mutant: pub_key is not emptied.
ClearTwo(r) ==
    /\ pc[r] = "clear"
    /\ groups' = [g \in Groups |-> <<>>] /\ partial' = {}
    /\ Outlived
    /\ report' = Empty
    /\ snap' \in {[snap EXCEPT ![r] = s] : s \in Snapshots}
    /\ start' = [start EXCEPT ![r] = 0]
    /\ pc' = [pc EXCEPT ![r] = "reports"]
    /\ UNCHANGED <<sworkerActive, pubkey, ver, total, cycles, faults>>

\* ClearSworker empties sworker_group, pub_key and work_report, in this order;
\* GetAllSworkReports then fixes the block hash it reads at.
Clear(r) ==
    /\ pc[r] = "clear"
    /\ groups' = [g \in Groups |-> <<>>] /\ partial' = {}
    /\ Outlived
    /\ pubkey' = Empty /\ report' = Empty
    /\ snap' \in {[snap EXCEPT ![r] = s] : s \in Snapshots}
    /\ start' = [start EXCEPT ![r] = 0]
    /\ pc' = [pc EXCEPT ![r] = "reports"]
    /\ UNCHANGED <<sworkerActive, ver, total, cycles, faults>>

ClearFails(r) ==
    /\ pc[r] = "clear" /\ Fault
    /\ \/ UNCHANGED <<tables, partial, mixing, watch>>
       \/ /\ groups' = [g \in Groups |-> <<>>] /\ partial' = {}
          /\ Outlived
          /\ pubkey' \in {pubkey, Empty}
          /\ UNCHANGED report
    /\ Return(r)
    /\ UNCHANGED <<ver, total, cycles>>

\* A page of GetAllSworkReports: its reports of recent slots are inserted.
ReportPage(r) ==
    LET keys == NextKeys(snap[r].keys, start[r], Page) IN
    /\ pc[r] = "reports" /\ keys # {}
    /\ report' = Add(report, keys \cap snap[r].fresh)
    /\ start' = [start EXCEPT ![r] = Max(keys)]
    /\ UNCHANGED <<sworkerActive, pubkey, groups, pc, snap, ver, gauges, partial, mixing, cycles, faults>>

\* A gauge handler is started, and followed if no other one is; want: the numbers
\* it ought to read.
Watch(kind, want, whole) ==
    watch' = IF watch.pc \in {"first", "second"} THEN watch
             ELSE [pc |-> "first", kind |-> kind, read |-> <<>>, want |-> want, whole |-> whole]

\* The last page: the version count and the storage gauges are started, then
\* the groups are read.
ReportsDone(r) ==
    /\ pc[r] = "reports" /\ NextKeys(snap[r].keys, start[r], Page) = {}
    /\ \E c \in Counters :
         /\ Free(Counters, vpc, c)
         /\ vpc' = [vpc EXCEPT ![c] = "keys"]
         /\ \E s \in Snapshots :
              vsnap' = [vsnap EXCEPT ![c] = [keys |-> s.keys, fresh |-> snap[r].fresh]]
         /\ vstart' = [vstart EXCEPT ![c] = 0]
         /\ mixed' = IF late THEN mixed \cup {c} ELSE mixed
    /\ late' = FALSE
    /\ LET active == Cardinality(snap[r].fresh)
       IN  Watch("storage", <<active, active>>, TRUE)
    /\ start' = [start EXCEPT ![r] = 0]
    /\ pc' = [pc EXCEPT ![r] = "groups"]
    /\ UNCHANGED <<sworkerActive, tables, snap, total, partial, cycles, faults>>

\* Mutant: the flag stays set.
ReadFailsKeeps(r) ==
    /\ pc[r] \in {"reports", "groups"} /\ Fault
    /\ Leave(r)
    /\ UNCHANGED <<sworkerActive, tables, ver, gauges, partial, mixing, cycles>>

\* An error of the node or of the insertion of reports gives the cycle up.
ReadFails(r) ==
    /\ pc[r] \in {"reports", "groups"} /\ Fault
    /\ Return(r)
    /\ UNCHANGED <<tables, ver, gauges, partial, mixing, cycles>>

\* A page of GetGroupInfo: the members' identities lead to their reports.
GroupPage(r) ==
    /\ pc[r] = "groups"
    /\ \E g \in NextKeys(Groups, start[r], Page) :
         /\ \A h \in NextKeys(Groups, start[r], Page) : g <= h
         /\ groups' = [groups EXCEPT ![g] = Append(@, Rows(report, Members[g]))]
         /\ start' = [start EXCEPT ![r] = g]
    /\ UNCHANGED <<sworkerActive, report, pubkey, pc, snap, ver, gauges, partial, mixing, cycles, faults>>

\* The errors of queryMember and of saveGroups are not looked at: members are
\* missing from the row, or the row is missing.
GroupPageLoses(r) ==
    /\ pc[r] = "groups" /\ Fault
    /\ \E g \in NextKeys(Groups, start[r], Page) :
         /\ \A h \in NextKeys(Groups, start[r], Page) : g <= h
         /\ \/ UNCHANGED groups
            \/ \E found \in SUBSET Members[g] :
                 groups' = [groups EXCEPT ![g] = Append(@, Rows(report, found))]
         /\ partial' = partial \cup {g}
         /\ start' = [start EXCEPT ![r] = g]
    /\ UNCHANGED <<sworkerActive, report, pubkey, pc, snap, ver, gauges, mixing, cycles>>

\* Mutant: the group gauges are started before the last page.
GroupsDoneEarly(r) ==
    /\ pc[r] = "groups"
    /\ Return(r)
    /\ LET working == {g \in Groups : Members[g] \cap snap[r].fresh # {}}
       IN  Watch("groups", <<Cardinality(Groups), Cardinality(working)>>, partial = {})
    /\ UNCHANGED <<tables, ver, total, partial, mixing, cycles, faults>>

\* The last page: the group gauges are started; every sixth time the top
\* groups, which are read from the same table.
GroupsDone(r) ==
    /\ pc[r] = "groups" /\ NextKeys(Groups, start[r], Page) = {}
    /\ Return(r)
    /\ LET working == {g \in Groups : Members[g] \cap snap[r].fresh # {}}
       IN  Watch("groups", <<Cardinality(Groups), Cardinality(working)>>, partial = {})
    /\ UNCHANGED <<tables, ver, total, partial, mixing, cycles, faults>>

-----------------------------------------------------------------------------
Stop(c) == /\ vpc' = [vpc EXCEPT ![c] = "idle"] /\ mixed' = mixed \ {c}
           /\ vsnap' = [vsnap EXCEPT ![c] = NoSnap] /\ vstart' = [vstart EXCEPT ![c] = 0]

\* handlerSworkerVersion: a page of GetPubKeys is inserted into pub_key.
PubKeyPage(c) ==
    LET keys == NextKeys(vsnap[c].keys, vstart[c], Page) IN
    /\ vpc[c] = "keys" /\ keys # {}
    /\ pubkey' = Add(pubkey, keys)
    /\ vstart' = [vstart EXCEPT ![c] = Max(keys)]
    /\ UNCHANGED <<sworkerActive, report, groups, run, vpc, vsnap, gauges, partial, mixing, cycles, faults>>

PubKeysFail(c) ==
    /\ vpc[c] = "keys" /\ Fault
    /\ Stop(c)
    /\ UNCHANGED <<sworkerActive, tables, run, gauges, partial, late, cycles>>

\* GetVersionCnt: work_report LEFT JOIN pub_key, counted by version; a report
\* without a public key is joined with NULL (0).
Joined(v) == Cardinality(UNION
    {RowsOf(report, {k}) \X (IF pubkey[k] = 0 THEN {0} ELSE 1 .. pubkey[k]) :
        k \in {k \in Keys : v = Version(k, {j \in Keys : pubkey[j] > 0})}})

\* The gauges of the versions found are set, those of other versions keep the
\* number they had.
CountVersions(c) ==
    /\ vpc[c] = "keys" /\ NextKeys(vsnap[c].keys, vstart[c], Page) = {}
    /\ total' = [v \in Versions |-> IF Joined(v) > 0 THEN Joined(v) ELSE total[v]]
    /\ Stop(c)
    /\ UNCHANGED <<sworkerActive, tables, run, watch, partial, late, cycles, faults>>

\* handlerStorage: sum(free), then sum(file_size), a row counting 1 in either.
\* handlerGroupCnt: all groups, then those with an active member.
GroupRows == UNION {{g} \X DOMAIN groups[g] : g \in Groups}

WatchFirst ==
    /\ watch.pc = "first"
    /\ watch' = [watch EXCEPT !.pc = "second",
                  !.read = <<IF watch.kind = "storage" THEN Rows(report, Keys)
                             ELSE Cardinality(GroupRows)>>]
    /\ UNCHANGED <<sworkerActive, tables, run, ver, total, partial, mixing, cycles, faults>>

WatchSecond ==
    LET active == {row \in GroupRows : groups[row[1]][row[2]] > 0} IN
    /\ watch.pc = "second"
    /\ watch' = [watch EXCEPT !.pc = "shown",
                  !.read = Append(@, IF watch.kind = "storage" THEN Rows(report, Keys)
                                     ELSE Cardinality(active))]
    /\ UNCHANGED <<sworkerActive, tables, run, ver, total, partial, mixing, cycles, faults>>

\* A query that fails leaves the gauges as they were.
WatchFails ==
    /\ watch.pc \in {"first", "second"} /\ Fault
    /\ watch' = NoWatch
    /\ UNCHANGED <<sworkerActive, tables, run, ver, total, partial, mixing, cycles>>

\* The process dies and is started again; the tables are still there.
Crash ==
    /\ Fault
    /\ sworkerActive' = FALSE
    /\ pc' = [r \in Runs |-> "idle"] /\ vpc' = [c \in Counters |-> "idle"]
    /\ snap' = [r \in Runs |-> NoSnap] /\ vsnap' = [c \in Counters |-> NoSnap]
    /\ start' = [r \in Runs |-> 0] /\ vstart' = [c \in Counters |-> 0]
    /\ total' = NoTotal /\ watch' = NoWatch
    /\ UNCHANGED <<tables, partial, mixing, cycles>>

-----------------------------------------------------------------------------
Refresh(r) == \/ Clear(r) \/ ClearFails(r) \/ ReportPage(r) \/ ReportsDone(r)
              \/ ReadFails(r) \/ GroupPage(r) \/ GroupPageLoses(r) \/ GroupsDone(r)

Count(c) == PubKeyPage(c) \/ PubKeysFail(c) \/ CountVersions(c)

Next == \/ \E r \in Runs : Tick(r) \/ Refresh(r)
        \/ \E c \in Counters : Count(c)
        \/ WatchFirst \/ WatchSecond \/ WatchFails
        \/ Crash

Spec == Init /\ [][Next]_vars

\* The goroutines run; ticks and failures need not come.
FairSpec == /\ Spec
            /\ \A r \in Runs : WF_vars(Refresh(r))
            /\ \A c \in Counters : WF_vars(Count(c))

-----------------------------------------------------------------------------
\* When the groups are built, work_report holds every active report of the
\* block they are read at, each of them once, however the node pages them,
\* whatever an earlier run left behind and whichever runs were started since.
ReportsComplete ==
    \A r \in Runs : pc[r] = "groups" =>
        \A k \in Keys : report[k] = IF k \in snap[r].fresh THEN 1 ELSE 0

\* A group has one row, which counts its members with an active report, as
\* long as none of the errors that GetGroupInfo ignores occurred for it.
GroupsRight ==
    \A r \in Runs : pc[r] = "groups" =>
        \A g \in Groups : g <= start[r] /\ g \notin partial =>
            groups[g] = <<Cardinality(Members[g] \cap snap[r].fresh)>>

\* "sworker number by version" (help text of the gauge): a version that active
\* sworkers run shows their number, each counted once, if the tables were not
\* emptied during the count, nor by this cycle during an earlier count.  The
\* gauge of a version that nobody runs any more keeps its last number.
VersionsAddUp ==
    [][\A c \in Counters : CountVersions(c) /\ c \notin mixed =>
         \A v \in Versions :
             LET n == Cardinality({k \in vsnap[c].fresh : Version(k, vsnap[c].keys) = v})
             IN  n > 0 => total'[v] = n]_vars

\* What a gauge handler puts together from two queries belongs to the cycle that
\* started it, although no flag protects it from the next one: only emptying
\* the tables under it spoils the numbers, or a group lost in this cycle.
GaugesAgree == watch.pc = "shown" /\ watch.whole => watch.read = watch.want

\* Whatever fails, a run that set the flag resets it, so that the sworker
\* metrics are not frozen for the rest of the process.
FlagReleased == sworkerActive ~> ~sworkerActive
=============================================================================
