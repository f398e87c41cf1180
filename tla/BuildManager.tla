---------------------------- MODULE BuildManager ----------------------------
(***************************************************************************)
(* The llama.cpp builds of a node.  Three tasks ask for them: the startup   *)
(* build with its retries, the scheduled update, and the rebuild endpoint.  *)
(* A lock lets one attempt run at a time.  An attempt fetches the upstream  *)
(* commit, reuses or compiles its build directory, verifies the binary,     *)
(* swaps the symlink, and cleans old directories up.  A build whose binary  *)
(* fails its verification is rebuilt in its own directory, under the link   *)
(* if it is the live one.  Directories survive the process, everything else *)
(* it knows does not; the node may be killed between any two steps, and its *)
(* compiler and linker in the middle of one.                                *)
(*                                                                         *)
(* Each commit has one build directory (one set of build arguments, no      *)
(* legacy directories).  The swap counter is kept as `swapped`, whether it  *)
(* moved since startup, which is all its reader here looks at.              *)
(*                                                                         *)
(* Sources: build_manager.rs, main.rs (initial build, auto-update loop),    *)
(* api.rs (rebuild_llama_handler), util.rs (retry_with_backoff).            *)
(***************************************************************************)
EXTENDS Naturals, FiniteSets

CONSTANTS
    Commits,         \* upstream commits
    Broken,          \* those whose build gives a binary that does not run
    FirstHeads,      \* those upstream may be at when the node is first started
    NoCommit,
    KeepBuilds,      \* keep_builds
    InitialRetries,  \* entries of INITIAL_BUILD_RETRY_DELAYS
    UpdateRetries,   \* entries of SCHEDULED_UPDATE_RETRY_DELAYS
    MaxMoves,        \* bound on upstream changes
    MaxCrashes,      \* bound on crashes
    Flaky            \* a working binary may fail to start once

ASSUME BuildAssumption ==
    /\ NoCommit \notin Commits /\ Broken \subseteq Commits
    /\ FirstHeads \subseteq Commits
    /\ KeepBuilds \in Nat /\ InitialRetries \in Nat /\ UpdateRetries \in Nat
    /\ MaxMoves \in Nat /\ MaxCrashes \in Nat
    /\ Flaky \in BOOLEAN

VARIABLES
    \* on disk
    objs,            \* a build directory's intermediate files
    bin,             \* its bin/llama-server
    older,           \* the directories that were there when it was created
    link,            \* the build binary_path resolves to
    rewritten,       \* history: the live build, and those with truncated files, whose
                     \* binary was written over since it was last verified
    \* in the process
    task, retries,   \* each task's state and failed attempts
    holder,          \* whose attempt holds rebuild_lock
    phase, target,   \* the attempt's step and commit
    fresh,           \* it compiled its target
    building, prepared, current_version, swapped,
    \* the environment
    head, moves, crashes

diskVars == <<objs, bin, older, link, rewritten>>
taskVars == <<task, retries>>
attemptVars == <<holder, phase, target, fresh>>
memVars == <<building, prepared, current_version, swapped>>
envVars == <<head, moves, crashes>>
vars == <<diskVars, taskVars, attemptVars, memVars, envVars>>

Tasks == {"initial", "scheduled", "manual"}

\* What a process starts with
Start ==
    /\ task' = [t \in Tasks |-> IF t = "initial" THEN "waiting" ELSE "idle"]
    /\ retries' = [t \in Tasks |-> 0]
    /\ holder' = "nobody" /\ phase' = "none" /\ target' = NoCommit /\ fresh' = FALSE
    /\ building' = FALSE /\ prepared' = {} /\ current_version' = NoCommit
    /\ swapped' = FALSE

Init ==
    /\ objs = [c \in Commits |-> "none"] /\ bin = [c \in Commits |-> "none"]
    /\ older = [c \in Commits |-> {}] /\ link = NoCommit /\ rewritten = {}
    /\ task = [t \in Tasks |-> IF t = "initial" THEN "waiting" ELSE "idle"]
    /\ retries = [t \in Tasks |-> 0]
    /\ holder = "nobody" /\ phase = "none" /\ target = NoCommit /\ fresh = FALSE
    /\ building = FALSE /\ prepared = {} /\ current_version = NoCommit
    /\ swapped = FALSE
    /\ head \in FirstHeads /\ moves = 0 /\ crashes = 0

----------------------------------------------------------------------------
\* The tasks

\* The attempt of t takes the lock and begins
Begin(t) ==
    /\ holder = "nobody"
    /\ holder' = t /\ phase' = "fetch" /\ target' = NoCommit /\ fresh' = FALSE
    /\ task' = [task EXCEPT ![t] = "running"]
    /\ UNCHANGED <<diskVars, retries, memVars, envVars>>

\* An initial attempt that got the lock after a swap has nothing to do
InitialSkips ==
    /\ task["initial"] = "waiting" /\ holder = "nobody" /\ swapped
    /\ task' = [task EXCEPT !["initial"] = "done"]
    /\ UNCHANGED <<diskVars, retries, attemptVars, memVars, envVars>>

InitialBegins == task["initial"] = "waiting" /\ ~swapped /\ Begin("initial")

\* The scheduled update passes when a build is running, and else queues for the
\* lock it just probed
ScheduledTick ==
    /\ task["scheduled"] = "idle" /\ holder = "nobody"
    /\ task' = [task EXCEPT !["scheduled"] = "waiting"]
    /\ retries' = [retries EXCEPT !["scheduled"] = 0]
    /\ UNCHANGED <<diskVars, attemptVars, memVars, envVars>>

ScheduledBegins == task["scheduled"] = "waiting" /\ Begin("scheduled")

\* rebuild_llama_handler; with the lock taken it answers 409
ManualBegins == task["manual"] = "idle" /\ Begin("manual")

\* retry_with_backoff wakes: the initial task asks whether it is still needed
RetryWakes(t) ==
    /\ task[t] = "sleeping"
    /\ task' = [task EXCEPT ![t] = IF t = "initial" /\ swapped THEN "done" ELSE "waiting"]
    /\ UNCHANGED <<diskVars, retries, attemptVars, memVars, envVars>>

MaxRetries == [t \in Tasks |-> CASE t = "initial"   -> InitialRetries
                                 [] t = "scheduled" -> UpdateRetries
                                 [] t = "manual"    -> 0]

\* Variant: <= for <
AfterAttemptOneMore(t, ok) ==
    IF ~ok /\ retries[t] <= MaxRetries[t] THEN "sleeping"
    ELSE IF t = "initial" THEN "done" ELSE "idle"

\* Where a task goes when its attempt has ended
AfterAttempt(t, ok) ==
    IF ~ok /\ retries[t] < MaxRetries[t] THEN "sleeping"
    ELSE IF t = "initial" THEN "done" ELSE "idle"

\* The attempt returns: the guards give up the building flag and the lock
Return(ok) ==
    /\ task' = [task EXCEPT ![holder] = AfterAttempt(holder, ok)]
    /\ retries' = [retries EXCEPT ![holder] =
          IF AfterAttempt(holder, ok) = "sleeping" THEN @ + 1 ELSE 0]
    /\ holder' = "nobody" /\ phase' = "none" /\ target' = NoCommit /\ fresh' = FALSE
    /\ building' = FALSE

At(p) == phase = p

Goto(p) == phase' = p /\ UNCHANGED <<holder, target, fresh, taskVars>>

----------------------------------------------------------------------------
\* One attempt

\* Any command or file operation of an attempt may fail; a linker that fails removes
\* its output
CanFail == phase \in {"fetch", "prepare", "compile", "link", "swap"}

Fail ==
    /\ CanFail
    /\ bin' = IF At("link") THEN [bin EXCEPT ![target] = "none"] ELSE bin
    /\ Return(FALSE)
    /\ UNCHANGED <<objs, older, link, rewritten, prepared, current_version, swapped, envVars>>

Fetch ==
    /\ At("fetch")
    /\ target' = head /\ phase' = "select"
    /\ UNCHANGED <<diskVars, taskVars, holder, fresh, memVars, envVars>>

\* Variant: the binary only has to exist
Found(c) == {bin[c] # "none"}

\* verify_binary, by running it
Verified(c) == {bin[c] = "good"} \cup (IF Flaky THEN {FALSE} ELSE {})

\* A verified build that is live already needs no swap
ReuseLive ==
    /\ At("select") /\ TRUE \in Verified(target) /\ link = target
    /\ current_version' = target
    /\ rewritten' = rewritten \ {target}
    /\ Return(TRUE)
    /\ UNCHANGED <<objs, bin, older, link, prepared, swapped, envVars>>

ReuseBuilt ==
    /\ At("select") /\ TRUE \in Verified(target) /\ link # target
    /\ Goto("swap")
    /\ UNCHANGED <<diskVars, memVars, envVars>>

\* Variant: the version is recorded when the build starts
StartBuildRecords ==
    /\ At("select") /\ FALSE \in Verified(target)
    /\ building' = TRUE
    /\ current_version' = target
    /\ Goto("prepare")
    /\ UNCHANGED <<diskVars, prepared, swapped, envVars>>

StartBuild ==
    /\ At("select") /\ FALSE \in Verified(target)
    /\ building' = TRUE
    /\ Goto("prepare")
    /\ UNCHANGED <<diskVars, prepared, current_version, swapped, envVars>>

Unfinished(c) == bin[c] = "none" /\ objs[c] # "none"

\* Variant: an unfinished directory is always reused
NeverStartsOver(c) == FALSE

\* prepare_build_dir
StartsOver(c) == c \notin prepared /\ Unfinished(c)

Directories == {c \in Commits : objs[c] # "none"}

\* The creation times once c has gone
Without(c) == [d \in Commits |-> IF d = c THEN {} ELSE older[d] \ {c}]

Prepare ==
    /\ At("prepare")
    /\ LET new == StartsOver(target) \/ objs[target] = "none" IN
          /\ objs' = [objs EXCEPT ![target] = IF new THEN "whole" ELSE @]
          /\ older' = IF new THEN [Without(target) EXCEPT ![target] = Directories \ {target}]
                             ELSE older
    /\ prepared' = prepared \cup {target}
    /\ Goto("compile")
    /\ UNCHANGED <<bin, link, rewritten, building, current_version, swapped, envVars>>

\* The build tool leaves a binary alone that is newer than what it is made from
UpToDate ==
    /\ At("compile") /\ bin[target] # "none"
    /\ fresh' = TRUE /\ phase' = "verify"
    /\ UNCHANGED <<diskVars, holder, target, taskVars, memVars, envVars>>

\* and else writes it anew, in place: from here on it is not the old one any more
BeginLink ==
    /\ At("compile")
    /\ rewritten' = IF bin[target] # "none" /\ (target = link \/ objs[target] = "torn")
                    THEN rewritten \cup {target} ELSE rewritten
    /\ bin' = [bin EXCEPT ![target] = "bad"]
    /\ Goto("link")
    /\ UNCHANGED <<objs, older, link, memVars, envVars>>

Compile == UpToDate \/ BeginLink

\* It never repairs a truncated object file, and nothing links with one
EndLink ==
    /\ At("link") /\ objs[target] # "torn"
    /\ bin' = [bin EXCEPT ![target] = IF target \in Broken THEN "bad" ELSE "good"]
    /\ fresh' = TRUE /\ phase' = "verify"
    /\ UNCHANGED <<objs, older, link, rewritten, holder, target, taskVars, memVars, envVars>>

VerifyPasses ==
    /\ At("verify") /\ TRUE \in Verified(target)
    /\ Goto("swap")
    /\ UNCHANGED <<diskVars, memVars, envVars>>

VerifyFails ==
    /\ At("verify") /\ FALSE \in Verified(target)
    /\ Return(FALSE)
    /\ UNCHANGED <<diskVars, prepared, current_version, swapped, envVars>>

\* update_symlink renames the new link into place
SwapLink ==
    /\ At("swap")
    /\ link' = target
    /\ rewritten' = rewritten \ {target}
    /\ Goto("swapped")
    /\ UNCHANGED <<objs, bin, older, memVars, envVars>>

\* and signals the swap; only then is the version recorded
Signal ==
    /\ At("swapped")
    /\ swapped' = TRUE
    /\ current_version' = target
    /\ IF fresh THEN Goto("cleanup") /\ building' = building ELSE Return(TRUE)
    /\ UNCHANGED <<diskVars, prepared, envVars>>

----------------------------------------------------------------------------
\* cleanup_old_builds

\* Complete builds other than the live one, which resolving binary_path protects
Previous == {c \in Commits \ {link} : bin[c] # "none"}

Newer(c, d) == d \in older[c]

\* Variant: one build too few is kept
SurplusByOne(c) ==
    /\ c \in Previous
    /\ Cardinality({d \in Previous : Newer(d, c)}) + 1 >= KeepBuilds

Surplus(c) ==
    /\ c \in Previous
    /\ Cardinality({d \in Previous : Newer(d, c)}) >= KeepBuilds

Doomed == {c \in Commits \ {link} : Unfinished(c) \/ Surplus(c)}

RemoveBuild ==
    /\ At("cleanup")
    /\ \E c \in Doomed :
          /\ objs' = [objs EXCEPT ![c] = "none"]
          /\ bin' = [bin EXCEPT ![c] = "none"]
          /\ older' = Without(c)
          /\ rewritten' = rewritten \ {c}
    /\ UNCHANGED <<link, taskVars, attemptVars, memVars, envVars>>

\* A directory that cannot be read or removed is left; the build is a success
CleanupEnds ==
    /\ At("cleanup")
    /\ Return(TRUE)
    /\ UNCHANGED <<diskVars, prepared, current_version, swapped, envVars>>

----------------------------------------------------------------------------
\* The environment

UpstreamMoves ==
    /\ moves < MaxMoves
    /\ moves' = moves + 1
    /\ head' \in Commits \ {head}
    /\ UNCHANGED <<diskVars, taskVars, attemptVars, memVars, crashes>>

\* What a killed compilation leaves of its directory: files cut short or not.  (A killed
\* link leaves the binary as far as it was written.)
CompileInterrupted ==
    /\ objs' \in {objs, [objs EXCEPT ![target] = "torn"]}
    /\ bin' = bin

\* What a killed removal leaves: some files, the binary among them or not
RemovalInterrupted ==
    \E c \in Doomed :
        /\ objs' \in {objs, [objs EXCEPT ![c] = "torn"]}
        /\ bin' \in {bin, [bin EXCEPT ![c] = "none"]}

\* The node and its children are killed, and it starts again
Crash ==
    /\ crashes < MaxCrashes
    /\ crashes' = crashes + 1
    /\ CASE At("compile") -> CompileInterrupted
         [] At("cleanup") /\ Doomed # {} -> RemovalInterrupted
         [] OTHER -> UNCHANGED <<objs, bin>>
    /\ Start
    /\ UNCHANGED <<older, link, rewritten, head, moves>>

----------------------------------------------------------------------------
Attempt ==
    \/ Fetch \/ ReuseLive \/ ReuseBuilt \/ StartBuild \/ Prepare \/ UpToDate
    \/ BeginLink \/ EndLink \/ VerifyPasses \/ VerifyFails \/ SwapLink \/ Signal \/ RemoveBuild \/ CleanupEnds

Next ==
    \/ InitialSkips \/ InitialBegins \/ ScheduledTick \/ ScheduledBegins \/ ManualBegins
    \/ \E t \in Tasks : RetryWakes(t)
    \/ Attempt \/ Fail \/ UpstreamMoves \/ Crash

Spec == Init /\ [][Next]_vars

\* The scheduled update comes round while no build is running, sleeps end, an
\* attempt runs on or fails, and no command that can succeed fails for ever
Fairness ==
    /\ WF_vars(ScheduledTick) /\ WF_vars(ScheduledBegins)
    /\ WF_vars(RetryWakes("scheduled"))
    /\ SF_vars(Fetch) /\ SF_vars(Prepare) /\ SF_vars(Compile)
    /\ SF_vars(EndLink) /\ SF_vars(VerifyPasses) /\ SF_vars(SwapLink)
    /\ WF_vars(Attempt \/ Fail)

FairSpec == Spec /\ Fairness

----------------------------------------------------------------------------
\* Properties

\* Every variable stays within its type.
TypeOK ==
    /\ objs \in [Commits -> {"none", "whole", "torn"}]
    /\ bin \in [Commits -> {"none", "bad", "good"}]
    /\ older \in [Commits -> SUBSET Commits]
    /\ link \in Commits \cup {NoCommit} /\ rewritten \subseteq Commits
    /\ task \in [Tasks -> {"idle", "waiting", "running", "sleeping", "done"}]
    /\ retries \in [Tasks -> Nat] /\ \A t \in Tasks : retries[t] <= MaxRetries[t]
    /\ holder \in Tasks \cup {"nobody"}
    /\ phase \in {"none", "fetch", "select", "prepare", "compile", "link", "verify",
                  "swap", "swapped", "cleanup"}
    /\ target \in Commits \cup {NoCommit}
    /\ fresh \in BOOLEAN /\ building \in BOOLEAN /\ swapped \in BOOLEAN
    /\ prepared \subseteq Commits
    /\ current_version \in Commits \cup {NoCommit}
    /\ head \in Commits /\ moves \in 0 .. MaxMoves /\ crashes \in 0 .. MaxCrashes

\* binary_path resolves to a binary that runs, whatever attempt failed, whatever
\* cleanup removed and wherever the node was killed, with one exception: a rebuild in
\* place of the live build, which a failed verification of its binary starts, may have
\* begun to write over that binary, and be under way, have failed or have been killed.
\* The exception ends when the binary is verified again or another build goes live.
LiveBuildWorks == link # NoCommit /\ link \notin rewritten => bin[link] = "good"

\* A version get_version reports from its record is the live build's, except
\* between the rename and the record that follows it.
VersionIsLive ==
    phase # "swapped" => current_version \in {NoCommit, link}

\* A complete build is only removed while keep_builds newer ones and the live
\* one stay to roll back to.  (A linker that fails on a binary in place may remove it.)
RollbacksAreKept ==
    [][\A c \in Commits :
          bin[c] # "none" /\ bin'[c] = "none" /\ phase # "link" /\ crashes' = crashes =>
          /\ c # link
          /\ Cardinality({d \in Previous : Newer(d, c) /\ bin'[d] # "none"}) >= KeepBuilds]_vars

\* Only the existence of a binary is tested: a directory whose binary was cut short is
\* built on as it is, and so are truncated files beside a binary that was written over.
BuiltOnAsItIs(c) == bin[c] = "bad" \/ (objs[c] = "torn" /\ c \in rewritten)

\* When upstream has settled and the node is no longer killed, the commit goes live if it
\* can be built: a directory an interrupted build left without a binary does not stand
\* in the way.
HeadGoesLive == <>[](head \notin Broken /\ ~BuiltOnAsItIs(head) => link = head)

\* The link, the binary behind it and the reported version agree after any failure or
\* kill.
LinkIsSound == TypeOK /\ LiveBuildWorks /\ VersionIsLive

============================================================================
