---------------------------- MODULE MetricsStore ----------------------------
(***************************************************************************)
(* The metrics of a node that outlive its process: how they are persisted    *)
(* by the background loop and by instances that become ready, loaded by the  *)
(* next start, and moved from the hashes that an older version filed them     *)
(* under.  Kept are the number of requests under each args hash, whose sums  *)
(* and peaks are carried the same way, and the number of requests in flight,  *)
(* which a start must not carry over: shutdown waits until it is zero.        *)
(* A cookbook names some of the profiles, and an edit adds and removes them;  *)
(* it leaves their arguments alone here: the count of a request that waits    *)
(* through an edit of its profile moves to the new hash.                      *)
(*                                                                         *)
(* A history variable goes with the counts, in memory and in the files: what  *)
(* each profile's metrics should show (owed).                                *)
(*                                                                         *)
(* Sources: metrics.rs (load, from_snapshot, migrate_args_hashes, snapshot)  *)
(* and node_state/mod.rs (persist_metrics_snapshot).                        *)
(***************************************************************************)
EXTENDS Integers, FiniteSets, Functions

CONSTANTS
    Persisters,     \* the tasks that persist metrics
    Profiles,       \* the profiles that some cookbook names, told apart by their arguments
    Own,            \* those that may have metrics of their own beside older ones
    LegacyHash,     \* the hash of each profile's arguments in older versions
    ArgsHash        \* and now

VARIABLES
    mem,            \* hash_metrics (counts) and current_requests, and what is owed
    serving,        \* how many requests this process really serves
    disk,           \* the snapshot file: whether it can be parsed, and what it holds
    tmp,            \* the temporary file
    persister,      \* what each task does
    taken,          \* the snapshot each has taken
    persistLock     \* metrics_persist_lock

metricsVars == <<mem, serving, disk, tmp, persister, taken, persistLock>>

Nothing == [h \in {} |-> 0]
NoneOwed == [p \in Profiles |-> 0]
Fresh == [counts |-> Nothing, current |-> 0, owed |-> NoneOwed]
NoFile == [ok |-> FALSE, counts |-> Nothing, current |-> 0, owed |-> NoneOwed]

At(counts, h) == IF h \in DOMAIN counts THEN counts[h] ELSE 0

\* What a profile's metrics count, under its own hash or else its old one
HistoryOf(counts, p) ==
    IF ArgsHash[p] \in DOMAIN counts THEN counts[ArgsHash[p]] ELSE At(counts, LegacyHash[p])

----------------------------------------------------------------------------
\* The profiles of a cookbook whose metrics are still filed under their old hash
Moved(counts, book) ==
    {p \in book : LegacyHash[p] # ArgsHash[p] /\ LegacyHash[p] \in DOMAIN counts}

\* Variant: an old hash is dropped with the first copy
MigrateOnce(counts, book) ==
    LET moved == Moved(counts, book)
        first == {p \in moved : p = CHOOSE q \in moved : LegacyHash[q] = LegacyHash[p]}
        new == {ArgsHash[p] : p \in first} \ DOMAIN counts
        source(h) == LegacyHash[CHOOSE p \in first : ArgsHash[p] = h]
    IN [h \in (DOMAIN counts \ {LegacyHash[p] : p \in moved}) \cup new |->
          IF h \in new THEN counts[source(h)] ELSE counts[h]]

\* Variant: old metrics are added to those that the profile has
MigrateAdding(counts, book) ==
    LET moved == Moved(counts, book)
        new == {ArgsHash[p] : p \in moved}
        source(h) == LegacyHash[CHOOSE p \in moved : ArgsHash[p] = h]
    IN [h \in (DOMAIN counts \ {LegacyHash[p] : p \in moved}) \cup new |->
          At(counts, h) + (IF h \in new THEN counts[source(h)] ELSE 0)]

\* migrate_args_hashes: every profile of the cookbook, disabled ones included, gets a copy
\* of what was filed under its old hash, unless it has metrics of its own, and then the
\* old hashes are dropped
Migrate(counts, book) ==
    LET moved == Moved(counts, book)
        new == {ArgsHash[p] : p \in moved} \ DOMAIN counts
        source(h) == LegacyHash[CHOOSE p \in moved : ArgsHash[p] = h]
    IN [h \in (DOMAIN counts \ {LegacyHash[p] : p \in moved}) \cup new |->
          IF h \in new THEN counts[source(h)] ELSE counts[h]]

\* The profiles that are in no copy of an old entry when it goes: the cookbook does not
\* name them yet, but one that shared the entry
Late(counts, book) ==
    {p \in Profiles \ book : /\ ArgsHash[p] \notin DOMAIN counts
                             /\ \E q \in Moved(counts, book) : LegacyHash[q] = LegacyHash[p]}

Migrated(m, book) ==
    [m EXCEPT !.counts = Migrate(@, book),
              !.owed = [p \in Profiles |-> IF p \in Late(m.counts, book) THEN 0 ELSE @[p]]]

\* Metrics::snapshot
Snapshot == [ok |-> TRUE, counts |-> mem.counts, current |-> mem.current, owed |-> mem.owed]

\* Variant: everything in the file is restored
FromSnapshotWhole(f) == [counts |-> f.counts, current |-> f.current, owed |-> f.owed]

\* Metrics::from_snapshot: totals are restored, what was in flight is not
FromSnapshot(f) == [counts |-> f.counts, current |-> 0, owed |-> f.owed]

\* Metrics::load: a file that is missing or cannot be parsed starts afresh
Load(book) == IF disk.ok THEN Migrated(FromSnapshot(disk), book) ELSE Fresh

\* What a start can find: no file, one of an older version, or one that this version
\* wrote and then an older one again
OldFile(own) ==
    LET hashes == {ArgsHash[p] : p \in own}
        counts == [h \in {LegacyHash[p] : p \in Profiles} \cup hashes |-> IF h \in hashes THEN 2 ELSE 1]
    IN  [ok |-> TRUE, counts |-> counts, current |-> 0,
         owed |-> [p \in Profiles |-> HistoryOf(counts, p)]]

MetricsInit ==
    /\ mem = Fresh /\ serving = 0 /\ tmp = NoFile
    /\ disk \in {NoFile, OldFile({}), OldFile(Own)}
    /\ persister = [p \in Persisters |-> "idle"]
    /\ taken = [p \in Persisters |-> NoFile]
    /\ persistLock = {}

LoadMetrics(book) ==
    /\ mem' = Load(book)
    /\ UNCHANGED <<serving, disk, tmp, persister, taken, persistLock>>

\* A reload of the cookbook migrates again, for the profiles that it names now
ReloadMetrics(book) ==
    /\ mem' = Migrated(mem, book)
    /\ UNCHANGED <<serving, disk, tmp, persister, taken, persistLock>>

\* A request is counted under the hash of the profile that serves it, and in flight
\* until its guard is dropped
CountRequest(p) ==
    LET one(h) == IF h = ArgsHash[p] THEN 1 ELSE 0 IN
    /\ mem' = [counts |-> [h \in DOMAIN mem.counts \cup {ArgsHash[p]} |-> At(mem.counts, h) + one(h)],
               current |-> mem.current + 1,
               owed |-> [q \in Profiles |-> mem.owed[q] + one(ArgsHash[q])]]
    /\ serving' = serving + 1
    /\ UNCHANGED <<disk, tmp, persister, taken, persistLock>>

EndRequest ==
    /\ serving > 0
    /\ serving' = serving - 1 /\ mem' = [mem EXCEPT !.current = @ - 1]
    /\ UNCHANGED <<disk, tmp, persister, taken, persistLock>>

----------------------------------------------------------------------------
\* persist_metrics_snapshot

\* Variant: only the writing is exclusive
PersistUnlocked(t) ==
    /\ persister[t] = "idle"
    /\ persister' = [persister EXCEPT ![t] = "write"] /\ taken' = [taken EXCEPT ![t] = Snapshot]
    /\ UNCHANGED <<mem, serving, disk, tmp, persistLock>>

\* The lock is taken, then the snapshot
BeginPersist(t) ==
    /\ persister[t] = "idle" /\ persistLock = {}
    /\ persister' = [persister EXCEPT ![t] = "write"] /\ taken' = [taken EXCEPT ![t] = Snapshot]
    /\ persistLock' = {t}
    /\ UNCHANGED <<mem, serving, disk, tmp>>

\* The temporary file is created, then it is complete
WriteTmp(t) ==
    /\ \/ /\ persister[t] = "write" /\ persister' = [persister EXCEPT ![t] = "written"]
          /\ tmp' = NoFile
       \/ /\ persister[t] = "written" /\ persister' = [persister EXCEPT ![t] = "rename"]
          /\ tmp' = taken[t]
    /\ UNCHANGED <<mem, serving, disk, taken, persistLock>>

RenameTmp(t) ==
    /\ persister[t] = "rename"
    /\ disk' = tmp /\ tmp' = NoFile
    /\ persister' = [persister EXCEPT ![t] = "idle"] /\ taken' = [taken EXCEPT ![t] = NoFile]
    /\ persistLock' = {}
    /\ UNCHANGED <<mem, serving>>

\* Writing or renaming fails: the file stays as it is until the next time
PersistFails(t) ==
    /\ persister[t] \in {"written", "rename"}
    /\ persister' = [persister EXCEPT ![t] = "idle"] /\ taken' = [taken EXCEPT ![t] = NoFile]
    /\ persistLock' = {}
    /\ UNCHANGED <<mem, serving, disk, tmp>>

Persist(t) == BeginPersist(t) \/ WriteTmp(t) \/ RenameTmp(t) \/ PersistFails(t)

\* The process ends, and with it everything that is not in a file
LoseMetrics ==
    /\ mem' = Fresh /\ serving' = 0
    /\ persister' = [p \in Persisters |-> "idle"] /\ taken' = [p \in Persisters |-> NoFile]
    /\ persistLock' = {}
    /\ UNCHANGED <<disk, tmp>>

----------------------------------------------------------------------------
\* Every profile's metrics show its own history exactly, over starts, upgrades and reloads:
\* each request once, and what older versions filed under its hash once, also where
\* several profiles shared the hash or the profile came into the cookbook later.  The one
\* history that is given up is that of a profile that is added to the cookbook after
\* another one took the entry they shared.
HistoryIsExact ==
    /\ \A p \in Profiles : HistoryOf(mem.counts, p) = mem.owed[p]
    /\ disk.ok => \A p \in Profiles : HistoryOf(disk.counts, p) = disk.owed[p]

\* The requests in flight that shutdown waits for are the ones this process serves: a
\* start on a file that was written while requests were served begins with none.
InFlightIsServed == mem.current = serving

\* Persisting never takes the file back: whoever renames, and whatever crashed before,
\* it stays readable and no count under a profile's own hash falls.
SnapshotsMoveForward ==
    [][disk.ok => /\ disk'.ok
                  /\ \A p \in Profiles :
                        At(disk'.counts, ArgsHash[p]) >= At(disk.counts, ArgsHash[p])]_metricsVars

=============================================================================
