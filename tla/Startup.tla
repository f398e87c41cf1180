------------------------------ MODULE Startup ------------------------------
(***************************************************************************)
(* The life of a node between its files and its server: a start reads and    *)
(* checks the configuration and the cookbook, prepares the log files, loads  *)
(* the metrics, loads or creates the node's key and token, and then serves,   *)
(* while metrics are persisted, entries are logged and edits of the cookbook  *)
(* are picked up.  The process may crash between any two steps and is started *)
(* again on the files it left.                                              *)
(*                                                                         *)
(* What the server does is the subject of module Serving.                   *)
(*                                                                         *)
(* Sources: main.rs, config.rs, noise/mod.rs, noise/keypair.rs,              *)
(* noise/token.rs, noise/permissions.rs, node_state/mod.rs (new,             *)
(* reload_cookbook), node_state/model_index.rs.                             *)
(***************************************************************************)
EXTENDS LogFiles, MetricsStore

CONSTANTS
    Configs,        \* configurations, records of the fields that Validate reads
    Books,          \* cookbooks, a sequence of sequences of entries, see CookbookValid
    Happens(_),     \* the kinds of outside events that a configuration is explored with
    MaxEvents(_)    \* bound on what happens from outside: see Budget

ASSUME StartupAssumption == (\A c \in Configs : MaxEvents(c) \in Nat) /\ Len(Books) > 0

VARIABLES
    config,         \* the configuration file and the secrets file
    pc,             \* where the process is; "down" when there is none
    idFiles,        \* the directory, key and token: absent, empty, open or ok
    bookFile,       \* the cookbook file: an index of Books, or 0 while it is written
    book,           \* the cookbook in memory: an index of Books, or 0
    watcher,        \* the cookbook watcher: pc, events, what it read, and whether an
                    \* edit came after the start read the cookbook and while it was off
    events          \* how many things happened from outside

idVars == <<config, idFiles>>
bookVars == <<bookFile, book, watcher>>
vars == <<logVars, metricsVars, idVars, bookVars, pc, events>>

----------------------------------------------------------------------------
\* Configuration

\* Variant: a range counts as ports, whatever its bounds
PortsGiven(c) == c.ports.set => c.ports.list # {} \/ c.ports.ranges # {}

\* Configured ports leave the pool something to hand out
PortsUsable(c) ==
    c.ports.set =>
        /\ \A r \in c.ports.ranges : r.start <= r.end
        /\ c.ports.list # {} \/ c.ports.ranges # {}

TlsUsable(c) == c.cluster_tls => c.server_tls

BreakerUsable(c) ==
    c.breaker =>
        /\ c.failures > 0 /\ c.successes > 0
        /\ c.backoff_base > 0 /\ c.backoff_max > 0 /\ c.backoff_base <= c.backoff_max

ClusterUsable(c) ==
    c.cluster =>
        /\ c.gossip_interval > 0 /\ c.gossip_permits > 0
        /\ BreakerUsable(c)
        /\ c.version_action \in {"warn", "reject_major", "reject_any"}

HttpUsable(c) ==
    c.body_limit > 0 /\ c.idle_timeout > 0 /\ c.body_timeout > 0 /\ c.detect_timeout > 0

WatchdogUsable(c) == c.watchdog => c.window > 0 /\ c.sample_interval > 0

AuthUsable(c) == c.auth.enabled => c.auth.keys # {} /\ c.auth.header

\* NodeConfig::validate
Validate(c) ==
    /\ TlsUsable(c) /\ PortsUsable(c) /\ ClusterUsable(c) /\ c.instances > 0
    /\ HttpUsable(c) /\ WatchdogUsable(c) /\ AuthUsable(c)

\* merge_secrets: what the secrets file sets replaces what the configuration has
Merged(c) ==
    [f \in DOMAIN c |-> IF c.secrets = "read" /\ f \in DOMAIN c.secret THEN c.secret[f] ELSE c[f]]

\* load_startup_secrets: only a default file that is not there is skipped
SecretsLoad(c) == c.secrets = "read" \/ (c.secrets = "absent" /\ ~c.secrets_explicit)

\* Variant: names are told apart by case
CookbookValidByCase(b) ==
    \A i \in 1..Len(b) :
        /\ b[i].source # {} /\ ~({"path", "repo"} \subseteq b[i].source)
        /\ b[i].enabled => ~b[i].colon

\* Profile::validate
ProfileValid(entry) == entry.source # {} /\ ~({"path", "repo"} \subseteq entry.source)

\* Cookbook::validate.  An entry is a model and profile: its key in lower case, whether
\* its names contain a colon, whether it is enabled, and where its model comes from.
CookbookValid(b) ==
    /\ \A i \in 1..Len(b) :
          ProfileValid(b[i]) /\ (b[i].enabled => ~b[i].colon)
    /\ \A i, j \in 1..Len(b) : b[i].enabled /\ b[j].enabled /\ b[i].key = b[j].key => i = j

\* build_model_index: a later entry overwrites an earlier one of the same key
Index(b) ==
    LET on == {i \in 1..Len(b) : b[i].enabled} IN
    [k \in {b[i].key : i \in on} |-> CHOOSE i \in on : b[i].key = k /\ \A j \in on : b[j].key = k => j <= i]

\* ModelIndex::resolve of the name that an entry is listed under: a colon in it splits it
Resolved(b, i) == IF b[i].colon \/ b[i].key \notin DOMAIN Index(b) THEN 0 ELSE Index(b)[b[i].key]

\* The profiles of a cookbook, and those that requests can name
ProfilesOf(b) == {b[i].key : i \in 1..Len(b)}
EnabledOf(b) == {b[i].key : i \in {j \in 1..Len(b) : b[j].enabled}}

----------------------------------------------------------------------------
NoWatcher == [pc |-> "off", events |-> 0, read |-> 0, missed |-> FALSE]

Init ==
    /\ config \in Configs
    /\ pc = "down" /\ events = 0
    /\ idFiles = [dir |-> "absent", key |-> "absent", token |-> "absent"]
    /\ bookFile = 1 /\ book = 0
    /\ watcher = NoWatcher
    /\ LogInit /\ (config.logging = "off" => wrote = {})
    /\ MetricsInit /\ ("request" \notin Happens(config) => ~disk.ok)

\* Edits, entries, requests, days and ends of the process come out of one budget
Budget(kind) == kind \in Happens(config) /\ events < MaxEvents(config) /\ events' = events + 1

Starting == pc \notin {"down", "running"}

\* What a step of the process that touches only some of the state leaves alone
Goes(from, to) == pc = from /\ pc' = to
QuietLog == UNCHANGED logVars
QuietMetrics == UNCHANGED metricsVars
QuietId == UNCHANGED idVars
QuietBook == UNCHANGED bookVars

----------------------------------------------------------------------------
\* main, up to the configuration: it exits before it touches a file when something is
\* wrong with it

Loads == /\ bookFile # 0 /\ CookbookValid(Books[bookFile])
         /\ SecretsLoad(config) /\ Validate(Merged(config))

Launch ==
    /\ Loads
    /\ Goes("down", IF config.logging = "off" THEN "metrics" ELSE "copies")
    /\ book' = bookFile /\ watcher' = [watcher EXCEPT !.missed = FALSE]
    /\ UNCHANGED <<bookFile, events>> /\ QuietLog /\ QuietMetrics /\ QuietId

\* logging::init: one step of it
Prepare(from, to, step) ==
    /\ Goes(from, to) /\ step
    /\ UNCHANGED events /\ QuietMetrics /\ QuietId /\ QuietBook

Restores == config.logging = "gzip" /\ Reopens

InitLogging ==
    \/ Prepare("copies", "reopen", RemoveIncompleteCopies)
    \/ Restores /\ Prepare("reopen", "restore", BeginRestore)
    \/ ~Restores /\ Prepare("reopen", "adopt", QuietLog)
    \/ Prepare("restore", "restored", RenameRestored)
    \/ Prepare("restored", "adopt", RemoveCompressed)
    \/ Adopts /\ Unmerged /\ Prepare("adopt", "merge", BeginMerge)
    \/ Adopts /\ ~Unmerged /\ Prepare("adopt", "merged", QuietLog)
    \/ ~Adopts /\ Prepare("adopt", "appender", QuietLog)
    \/ Prepare("merge", "merged", RenameMerged)
    \/ Prepare("merged", "appender", RemoveNextDay)
    \/ Prepare("appender", "metrics", OpenAppender)

\* NodeState::new loads the metrics, then the identity if the cluster uses Noise
InitMetrics ==
    /\ Goes("metrics", IF config.cluster /\ config.noise THEN "dir" ELSE "watch")
    /\ LoadMetrics(ProfilesOf(Books[book]))
    /\ UNCHANGED events /\ QuietLog /\ QuietId /\ QuietBook

----------------------------------------------------------------------------
\* noise::initialize.  A file is created, written and then made private; one that is
\* there must be private and whole.

Id(f, state) ==
    /\ idFiles' = [idFiles EXCEPT ![f] = state]
    /\ UNCHANGED <<config, events>> /\ QuietLog /\ QuietMetrics /\ QuietBook

Writing(f) == CASE f = "dir" -> "dir_write" [] f = "key" -> "key_write" [] f = "token" -> "token_write"
AfterFile(f) == CASE f = "dir" -> "key" [] f = "key" -> "token" [] f = "token" -> "watch"

\* The key and the token may come from the environment
FromEnv(f) == f # "dir" /\ config.env

\* Variant: any file that is there will do
FileUsableIfThere(f) == idFiles[f] # "absent"

FileUsable(f) == idFiles[f] = "ok"

CreateFile(f) ==
    /\ pc = f /\ ~FromEnv(f) /\ idFiles[f] = "absent"
    /\ pc' = Writing(f) /\ Id(f, IF f = "dir" THEN "open" ELSE "empty")

WriteFile(f) ==
    /\ pc = Writing(f)
    /\ IF idFiles[f] = "empty" THEN pc' = pc /\ Id(f, "open") ELSE pc' = AfterFile(f) /\ Id(f, "ok")

UseFile(f) ==
    /\ pc = f /\ (FromEnv(f) \/ FileUsable(f))
    /\ pc' = AfterFile(f) /\ Id(f, idFiles[f])

\* The process ends: its memory is lost, its files stay as they are
End ==
    /\ pc' = "down" /\ book' = 0 /\ watcher' = NoWatcher
    /\ CloseLog /\ LoseMetrics
    /\ UNCHANGED bookFile /\ QuietId

\* A file that is not private or not whole ends the start
RefuseFile(f) ==
    /\ pc = f /\ ~FromEnv(f) /\ idFiles[f] # "absent" /\ ~FileUsable(f)
    /\ End /\ UNCHANGED events

InitNoise ==
    \E f \in {"dir", "key", "token"} : CreateFile(f) \/ WriteFile(f) \/ UseFile(f) \/ RefuseFile(f)

\* The process crashes, or a node that serves exits
Stops == pc # "down" /\ Budget("stop") /\ End

----------------------------------------------------------------------------
\* The cookbook: an editor writes it in place or renames a file over it, and the
\* directory watcher reports each change

Edited(n) ==
    /\ bookFile' = n /\ UNCHANGED book
    /\ watcher' = IF watcher.pc = "off" THEN [watcher EXCEPT !.missed = pc # "down"]
                  ELSE [watcher EXCEPT !.events = @ + 1, !.missed = FALSE]

Edit ==
    /\ \/ bookFile # 0 /\ Budget("rename") /\ \E n \in (1..Len(Books)) \ {bookFile} : Edited(n)
       \/ bookFile # 0 /\ Budget("write") /\ Edited(0)
       \/ bookFile = 0 /\ UNCHANGED events /\ \E n \in 1..Len(Books) : Edited(n)
    /\ UNCHANGED pc /\ QuietLog /\ QuietMetrics /\ QuietId

\* The thread that watches is started, and the node serves
Serves ==
    /\ Goes("watch", "running")
    /\ UNCHANGED events /\ QuietLog /\ QuietMetrics /\ QuietId /\ QuietBook

\* It begins to watch at some time, or, when that fails, never
StartWatcher ==
    /\ pc = "running" /\ watcher.pc = "off" /\ watcher' = [watcher EXCEPT !.pc = "idle"]
    /\ UNCHANGED <<bookFile, book, events, pc>> /\ QuietLog /\ QuietMetrics /\ QuietId

WatcherEvent ==
    /\ watcher.pc = "idle" /\ watcher.events > 0
    /\ watcher' = [watcher EXCEPT !.pc = "debounce", !.events = @ - 1]
    /\ UNCHANGED <<bookFile, book, events, pc>> /\ QuietLog /\ QuietMetrics /\ QuietId

\* Variant: a reload does not validate
WatcherReadsAny ==
    /\ watcher.pc = "debounce"
    /\ watcher' = IF bookFile # 0
                  THEN [watcher EXCEPT !.pc = "read", !.read = bookFile]
                  ELSE [watcher EXCEPT !.pc = "idle"]
    /\ UNCHANGED <<bookFile, book, events, pc>> /\ QuietLog /\ QuietMetrics /\ QuietId

\* reload_cookbook, after the debounce, reads the file; one that does not parse or is
\* not valid changes nothing
WatcherReads ==
    /\ watcher.pc = "debounce"
    /\ watcher' = IF bookFile # 0 /\ CookbookValid(Books[bookFile])
                  THEN [watcher EXCEPT !.pc = "read", !.read = bookFile]
                  ELSE [watcher EXCEPT !.pc = "idle"]
    /\ UNCHANGED <<bookFile, book, events, pc>> /\ QuietLog /\ QuietMetrics /\ QuietId

\* Variant: the events of a burst are taken for one change
InstalledAll == [watcher EXCEPT !.pc = "idle", !.read = 0, !.events = 0]

Installed == [watcher EXCEPT !.pc = "idle", !.read = 0]

WatcherInstalls ==
    /\ watcher.pc = "read"
    /\ watcher' = Installed /\ book' = watcher.read
    /\ ReloadMetrics(ProfilesOf(Books[watcher.read]))
    /\ UNCHANGED <<bookFile, events, pc>> /\ QuietLog /\ QuietId

WatcherStep == WatcherEvent \/ WatcherReads \/ WatcherInstalls

----------------------------------------------------------------------------
\* A node that serves: it logs, counts requests and persists its metrics

Quiet == UNCHANGED pc /\ QuietId /\ QuietBook

Logs ==
    /\ open # 0 /\ Budget("log") /\ WriteEntry(config.logging = "gzip")
    /\ QuietMetrics /\ Quiet

Counts ==
    /\ pc = "running" /\ Budget("request")
    /\ \E p \in EnabledOf(Books[book]) : CountRequest(p)
    /\ QuietLog /\ Quiet

Finishes ==
    /\ pc = "running" /\ EndRequest
    /\ UNCHANGED events /\ QuietLog /\ Quiet

Persists ==
    /\ pc = "running" /\ "request" \in Happens(config)
    /\ \E t \in Persisters : Persist(t)
    /\ UNCHANGED events /\ QuietLog /\ Quiet

\* The clock goes on; it is set back only while the node is down
Clock ==
    /\ Budget("clock")
    /\ \/ today < LastDay /\ ClockTo(today + 1)
       \/ pc = "down" /\ today > 1 /\ ClockTo(today - 1)
    /\ QuietMetrics /\ Quiet

Next ==
    \/ Launch \/ InitLogging \/ InitMetrics \/ InitNoise \/ Serves \/ Stops
    \/ StartWatcher \/ Edit \/ WatcherStep \/ Logs \/ Counts \/ Finishes \/ Persists \/ Clock

Spec == Init /\ [][Next]_vars

\* The task that reads the watcher's events runs
FairSpec == Spec /\ WF_vars(WatcherStep)

----------------------------------------------------------------------------
Pcs ==
    {"down", "running", "copies", "reopen", "restore", "restored", "adopt", "merge",
     "merged", "appender", "metrics", "dir", "dir_write", "key", "key_write", "token",
     "token_write", "watch"}

TypeOK ==
    /\ LogTypeOK
    /\ config \in Configs /\ pc \in Pcs /\ events \in 0..MaxEvents(config)
    /\ idFiles \in [{"dir", "key", "token"} -> {"absent", "empty", "open", "ok"}]
    /\ bookFile \in 0..Len(Books) /\ book \in 0..Len(Books)
    /\ watcher.pc \in {"off", "idle", "debounce", "read"} /\ watcher.read \in 0..Len(Books)
    /\ (book = 0) = (pc = "down") /\ (watcher.pc # "off" => pc = "running")

\* What the port pool can hand out, and the shortest wait of the circuit breaker after n
\* failures
PortPool(c) == c.ports.list \cup UNION {r.start .. r.end : r \in c.ports.ranges}
Backoff(c, n) == Min({c.backoff_base * 2 ^ n, c.backoff_max})

\* A process that got past its configuration can do its work: there is a port to hand
\* out, a blocked peer waits some time and is not blocked without a failure, every
\* timeout leaves time, and someone can log in when keys are asked for, also after the
\* secrets file replaced what the configuration said.
StartedNodeCanWork ==
    pc # "down" =>
        LET c == Merged(config) IN
        /\ c.ports.set => PortPool(c) # {}
        /\ c.cluster /\ c.breaker => c.failures > 0 /\ \A n \in 0..3 : Backoff(c, n) > 0
        /\ Min({c.idle_timeout, c.body_timeout, c.detect_timeout}) > 0
        /\ c.auth.enabled => \E k \in c.auth.keys : c.auth.header

\* A node that joins a cluster with keys of its own uses files that are complete and
\* readable by it alone, whenever the start that created them crashed.
IdentityIsWholeAndPrivate ==
    pc \in {"watch", "running"} /\ config.cluster /\ config.noise =>
        /\ idFiles["dir"] = "ok"
        /\ config.env \/ (idFiles["key"] = "ok" /\ idFiles["token"] = "ok")

\* Every enabled profile of the cookbook that is served is found under its own name,
\* after a start and after every reload.
EnabledProfilesAreFound ==
    book # 0 => \A i \in 1..Len(Books[book]) : Books[book][i].enabled => Resolved(Books[book], i) = i

\* A valid cookbook that stays in its file is served at last, however many edits came
\* while another was read; an edit after the start's own read and before the watcher
\* begins, if it ever does, is the exception, until the next one.
CookbookFollowsFile ==
    \A n \in 1..Len(Books) :
        pc = "running" /\ bookFile = n /\ CookbookValid(Books[n]) /\ ~watcher.missed
            ~> book = n \/ bookFile # n \/ pc # "running"

\* A process that has started is fit to serve: its settings, its identity and the
\* cookbook it serves are complete.
StartedNodeIsFit ==
    TypeOK /\ StartedNodeCanWork /\ IdentityIsWholeAndPrivate /\ EnabledProfilesAreFound

\* What a node keeps in files survives crashes, restarts, upgrades and edits: log entries
\* are kept, and not copied twice into a file; the metrics of each profile are
\* exactly its history; and no requests of a process that has gone are waited for.
RestartsLoseNothing ==
    EntriesAreKept /\ EntriesAreNotRepeated /\ HistoryIsExact /\ InFlightIsServed

=============================================================================
