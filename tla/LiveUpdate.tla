----------------------------- MODULE LiveUpdate -----------------------------
(***************************************************************************)
(* What happens to running and starting instances when the llama.cpp build *)
(* or the cookbook changes under them.  Two updaters run beside the         *)
(* spawning requests: the build manager swaps the symlink and signals a     *)
(* watcher that drains the instances, and a cookbook reload replaces the    *)
(* model index, bumps a version and reconciles the instances.  An instance  *)
(* that is being spawned is not in the map yet and is missed by both, so    *)
(* its insertion re-checks the generation and the version.                  *)
(*                                                                         *)
(* The same `draining` flag also serves the scheduler, which drains an      *)
(* instance for a competing model and cancels that drain again; a drain     *)
(* for an update must survive it.                                           *)
(*                                                                         *)
(* Sources: node_state/mod.rs (reload_cookbook, the spawn loop,             *)
(* drain_instances_for_binary_update, maybe_cancel_drains,                  *)
(* check_idle_instances), node_state/model_index.rs, build_manager.rs       *)
(* (update_symlink), main.rs (the swap watcher), router.rs (request         *)
(* cleanup).                                                               *)
(***************************************************************************)
EXTENDS Naturals

CONSTANTS
    Ids,           \* spawn attempts and the instances they become
    Args,          \* launch arguments a profile may have
    NoProfile,     \* the profile is not in the cookbook
    MaxSwaps,      \* bound on symlink swaps
    MaxReloads     \* bound on cookbook reloads

ASSUME LiveUpdateAssumption ==
    /\ NoProfile \notin Args
    /\ MaxSwaps \in Nat /\ MaxReloads \in Nat

VARIABLES
    \* the build manager and the watcher of its swaps
    link,          \* the build the symlink resolves to
    generation,    \* binary_generation
    permit,        \* notify_one stored a wake for the watcher
    seen_gen,      \* the generation the watcher read, while it drains
    last_gen,      \* the generation it processed last
    \* the cookbook
    index,         \* the profile's arguments in the model index
    version,       \* cookbook_version
    reload,        \* how far a running reload has come
    \* each spawn
    pc, resolved, args, spawn_gen, build, seen, checked, replaced,
    \* each instance
    busy,          \* it has requests in flight
    draining, for_competitor,
    \* the scheduler
    competitor,    \* a request of another model is queued and needs eviction
    trigger,       \* request cleanups that saw a competitor
    cancel         \* how far maybe_cancel_drains has come with each instance

buildVars   == <<link, generation, permit, seen_gen, last_gen>>
cookVars    == <<index, version, reload>>
spawnVars   == <<pc, resolved, args, spawn_gen, build, seen, checked, replaced>>
drainVars   == <<draining, for_competitor>>
schedVars   == <<competitor, trigger, cancel>>
vars == <<buildVars, cookVars, spawnVars, busy, drainVars, schedVars>>

Mapped == {i \in Ids : pc[i] = "mapped"}

----------------------------------------------------------------------------
Init ==
    /\ link = 0 /\ generation = 0 /\ permit = FALSE /\ seen_gen = 0 /\ last_gen = 0
    /\ index \in Args /\ version = 0 /\ reload = "idle"
    /\ pc = [i \in Ids |-> "new"]
    /\ resolved = [i \in Ids |-> 0]
    /\ args = [i \in Ids |-> NoProfile]
    /\ spawn_gen = [i \in Ids |-> 0]
    /\ build = [i \in Ids |-> 0]
    /\ seen = [i \in Ids |-> 0]
    /\ checked = [i \in Ids |-> 0]
    /\ replaced = [i \in Ids |-> FALSE]
    /\ busy = [i \in Ids |-> FALSE]
    /\ draining = [i \in Ids |-> FALSE]
    /\ for_competitor = [i \in Ids |-> FALSE]
    /\ competitor = FALSE
    /\ trigger = [i \in Ids |-> FALSE]
    /\ cancel = [i \in Ids |-> "no"]

----------------------------------------------------------------------------
\* The build manager and the swap watcher

\* rename() of the new link; the signal follows in a later step
SwapLink ==
    /\ link < MaxSwaps /\ link = generation
    /\ link' = link + 1
    /\ UNCHANGED <<generation, permit, seen_gen, last_gen, cookVars, spawnVars, busy,
                   drainVars, schedVars>>

\* signal_binary_swap
SignalSwap ==
    /\ generation < link
    /\ generation' = generation + 1
    /\ permit' = TRUE
    /\ UNCHANGED <<link, seen_gen, last_gen, cookVars, spawnVars, busy, drainVars,
                   schedVars>>

\* The watcher wakes and reads the generation
WatcherWakes ==
    /\ permit /\ seen_gen = last_gen
    /\ permit' = FALSE
    /\ seen_gen' = generation
    /\ UNCHANGED <<link, generation, last_gen, cookVars, spawnVars, busy, drainVars,
                   schedVars>>

\* Variant: a drain for a competitor stays one
DrainKeepsReason(S) ==
    /\ draining' = [i \in Ids |-> draining[i] \/ i \in S]
    /\ for_competitor' = for_competitor

\* A drain for an update is for good: it takes over a drain for a competitor
DrainForGood(S) ==
    /\ draining' = [i \in Ids |-> draining[i] \/ i \in S]
    /\ for_competitor' = [i \in Ids |-> for_competitor[i] /\ i \notin S]

\* drain_instances_for_binary_update, under the read lock of the map
WatcherDrains ==
    /\ seen_gen > last_gen
    /\ DrainForGood(Mapped)
    /\ last_gen' = seen_gen
    /\ UNCHANGED <<link, generation, permit, seen_gen, cookVars, spawnVars, busy,
                   schedVars>>

----------------------------------------------------------------------------
\* A cookbook reload; the file watcher runs one at a time

RebuildIndex ==
    /\ reload = "idle" /\ version < MaxReloads
    /\ index' \in Args \cup {NoProfile}
    /\ reload' = "indexed"
    /\ UNCHANGED <<buildVars, version, spawnVars, busy, drainVars, schedVars>>

BumpVersion ==
    /\ reload = "indexed"
    /\ version' = version + 1
    /\ reload' = "bumped"
    /\ UNCHANGED <<buildVars, index, spawnVars, busy, drainVars, schedVars>>

\* Variant: only removed profiles are reconciled
OutdatedIfRemoved == {i \in Mapped : index = NoProfile}

\* Mapped instances whose profile is gone or whose arguments changed
Outdated == {i \in Mapped : args[i] # index}

\* reconcile_instances_with_cookbook, under the read lock of the map
Reconcile ==
    /\ reload = "bumped"
    /\ DrainForGood(Outdated)
    /\ reload' = "idle"
    /\ UNCHANGED <<buildVars, index, version, spawnVars, busy, schedVars>>

----------------------------------------------------------------------------
\* A request or a prewarm spawns an instance

Step(i, from, to) == pc[i] = from /\ pc' = [pc EXCEPT ![i] = to]

\* Everything but the spawning instance's own record
Others == <<buildVars, cookVars, busy, drainVars, schedVars>>

\* The version is sampled before the profile is resolved
Sample(i) ==
    /\ Step(i, "new", "resolve")
    /\ resolved' = [resolved EXCEPT ![i] = version]
    /\ UNCHANGED <<args, spawn_gen, build, seen, checked, replaced, Others>>

Resolve(i) ==
    /\ IF index = NoProfile THEN Step(i, "resolve", "gone") ELSE Step(i, "resolve", "adopt")
    /\ args' = [args EXCEPT ![i] = index]
    /\ UNCHANGED <<resolved, spawn_gen, build, seen, checked, replaced, Others>>

\* refresh_profile_after_reload, for a request; a prewarm skips it
KeepProfile(i) ==
    /\ Step(i, "adopt", "spawn")
    /\ UNCHANGED <<resolved, args, spawn_gen, build, seen, checked, replaced, Others>>

ObserveReload(i) ==
    /\ version # resolved[i]
    /\ Step(i, "adopt", "lookup")
    /\ seen' = [seen EXCEPT ![i] = version]
    /\ UNCHANGED <<resolved, args, spawn_gen, build, checked, replaced, Others>>

Lookup(i) ==
    /\ Step(i, "lookup", "confirm")
    /\ args' = [args EXCEPT ![i] = index]
    /\ UNCHANGED <<resolved, spawn_gen, build, seen, checked, replaced, Others>>

\* A reload that landed during the lookup makes the caller resolve again
Confirm(i) ==
    /\ IF version # seen[i]
         THEN Step(i, "confirm", "adopt") /\ UNCHANGED resolved
         ELSE IF args[i] = NoProfile
                THEN Step(i, "confirm", "gone") /\ UNCHANGED resolved
                ELSE /\ Step(i, "confirm", "spawn")
                     /\ resolved' = [resolved EXCEPT ![i] = version]
    /\ UNCHANGED <<args, spawn_gen, build, seen, checked, replaced, Others>>

ReadGeneration(i) ==
    /\ Step(i, "spawn", "path")
    /\ spawn_gen' = [spawn_gen EXCEPT ![i] = generation]
    /\ UNCHANGED <<resolved, args, build, seen, checked, replaced, Others>>

\* canonicalize fixes the build that is executed; a failed exec starts the
\* attempt over
Exec(i) ==
    /\ Step(i, "path", "exec") \/ Step(i, "path", "spawn")
    /\ build' = [build EXCEPT ![i] = link]
    /\ UNCHANGED <<resolved, args, spawn_gen, seen, checked, replaced, Others>>

\* version_seen; the profile is compared only if the version moved
SeeVersion(i) ==
    /\ IF version # resolved[i] THEN Step(i, "exec", "compare") ELSE Step(i, "exec", "check")
    /\ seen' = [seen EXCEPT ![i] = version]
    /\ replaced' = [replaced EXCEPT ![i] = FALSE]
    /\ UNCHANGED <<resolved, args, spawn_gen, build, checked, Others>>

\* profile_replaced_since_resolve
Compare(i) ==
    /\ Step(i, "compare", "check")
    /\ replaced' = [replaced EXCEPT ![i] = args[i] # index]
    /\ UNCHANGED <<resolved, args, spawn_gen, build, seen, checked, Others>>

\* Variant: a reload during the comparison goes unseen
CheckVersionAlone(i) ==
    /\ Step(i, "check", "insert")
    /\ checked' = [checked EXCEPT ![i] = version]
    /\ UNCHANGED <<resolved, args, spawn_gen, build, seen, replaced, Others>>

\* version_checked
CheckVersion(i) ==
    /\ Step(i, "check", "insert")
    /\ checked' = [checked EXCEPT ![i] = version]
    /\ replaced' = [replaced EXCEPT ![i] = @ \/ version # seen[i]]
    /\ UNCHANGED <<resolved, args, spawn_gen, build, seen, Others>>

\* Variant: the build's generation is not compared again
SpawnedAcrossReload(i) == replaced[i] \/ version # checked[i]

\* What the re-check under the map's write lock finds
SpawnedAcrossUpdate(i) ==
    replaced[i] \/ version # checked[i] \/ generation # spawn_gen[i]

Insert(i) ==
    /\ Step(i, "insert", "mapped")
    /\ draining' = [draining EXCEPT ![i] = SpawnedAcrossUpdate(i)]
    /\ \E b \in BOOLEAN : busy' = [busy EXCEPT ![i] = b]
    /\ UNCHANGED <<resolved, args, spawn_gen, build, seen, checked, replaced, buildVars,
                   cookVars, for_competitor, schedVars>>

----------------------------------------------------------------------------
\* Requests come and go, and the scheduler drains for competing models

\* Only instances that are not draining are joined
Join(i) ==
    /\ i \in Mapped /\ ~draining[i] /\ ~busy[i]
    /\ busy' = [busy EXCEPT ![i] = TRUE]
    /\ UNCHANGED <<buildVars, cookVars, spawnVars, drainVars, schedVars>>

\* A request on i ends.  Its cleanup saw whether the instance was draining and
\* whether a competitor waits; it acts on that after giving the lock up.
Finish(i, last) ==
    /\ i \in Mapped /\ busy[i]
    /\ busy' = [busy EXCEPT ![i] = ~last]
    /\ \E t \in {trigger[i], trigger[i] \/ (competitor /\ ~draining[i])} :
          trigger' = [trigger EXCEPT ![i] = t]
    /\ UNCHANGED <<buildVars, cookVars, spawnVars, drainVars, competitor, cancel>>

DrainForCompetitor(i) ==
    /\ trigger[i]
    /\ trigger' = [trigger EXCEPT ![i] = FALSE]
    /\ draining' = [draining EXCEPT ![i] = TRUE]
    /\ for_competitor' = [for_competitor EXCEPT ![i] = @ \/ ~draining[i]]
    /\ UNCHANGED <<buildVars, cookVars, spawnVars, busy, competitor, cancel>>

CompetitorChanges ==
    /\ competitor' = ~competitor
    /\ UNCHANGED <<buildVars, cookVars, spawnVars, busy, drainVars, trigger, cancel>>

\* maybe_cancel_drains lists the scheduler's drains, ...
ListDrain(i) ==
    /\ i \in Mapped /\ cancel[i] = "no" /\ for_competitor[i]
    /\ cancel' = [cancel EXCEPT ![i] = "listed"]
    /\ UNCHANGED <<buildVars, cookVars, spawnVars, busy, drainVars, competitor, trigger>>

\* ... looks for competitors without holding the instance, ...
CheckDrain(i) ==
    /\ cancel[i] = "listed"
    /\ cancel' = [cancel EXCEPT ![i] = IF competitor THEN "no" ELSE "clear"]
    /\ UNCHANGED <<buildVars, cookVars, spawnVars, busy, drainVars, competitor, trigger>>

\* Variant: the drain is cancelled on what was listed
ListedForCompetitor(i) == TRUE

\* ... and under its write lock cancels a drain that is still the scheduler's
StillForCompetitor(i) == for_competitor[i]

CancelDrain(i) ==
    /\ cancel[i] = "clear"
    /\ cancel' = [cancel EXCEPT ![i] = "no"]
    /\ IF StillForCompetitor(i)
         THEN /\ draining' = [draining EXCEPT ![i] = FALSE]
              /\ for_competitor' = [for_competitor EXCEPT ![i] = FALSE]
         ELSE UNCHANGED drainVars
    /\ UNCHANGED <<buildVars, cookVars, spawnVars, busy, competitor, trigger>>

\* check_idle_instances: drained instances go, outdated ones do not wait for
\* their idle timeout, and the others do
SweepNow(i) ==
    /\ i \in Mapped /\ ~busy[i]
    /\ draining[i] \/ args[i] # index
    /\ Step(i, "mapped", "gone")
    /\ UNCHANGED <<resolved, args, spawn_gen, build, seen, checked, replaced, Others>>

SweepIdle(i) ==
    /\ i \in Mapped /\ ~busy[i]
    /\ Step(i, "mapped", "gone")
    /\ UNCHANGED <<resolved, args, spawn_gen, build, seen, checked, replaced, Others>>

----------------------------------------------------------------------------
Spawn(i) ==
    \/ Sample(i) \/ Resolve(i) \/ KeepProfile(i) \/ ObserveReload(i) \/ Lookup(i)
    \/ Confirm(i) \/ ReadGeneration(i) \/ Exec(i) \/ SeeVersion(i) \/ Compare(i)
    \/ CheckVersion(i) \/ Insert(i)

Schedule(i) ==
    \/ DrainForCompetitor(i) \/ ListDrain(i) \/ CheckDrain(i) \/ CancelDrain(i)

Swap == SwapLink \/ SignalSwap \/ WatcherWakes \/ WatcherDrains

Reload == RebuildIndex \/ BumpVersion \/ Reconcile

Next ==
    \/ Swap \/ Reload \/ CompetitorChanges
    \/ \E i \in Ids : \/ Spawn(i) \/ Schedule(i) \/ Join(i)
                      \/ Finish(i, TRUE) \/ Finish(i, FALSE)
                      \/ SweepNow(i) \/ SweepIdle(i)

Spec == Init /\ [][Next]_vars

\* The swap is signalled, the watcher and a reload run on, requests end, and
\* the sweep comes round
Fairness ==
    /\ WF_vars(SignalSwap) /\ WF_vars(WatcherWakes) /\ WF_vars(WatcherDrains)
    /\ WF_vars(BumpVersion) /\ WF_vars(Reconcile)
    /\ \A i \in Ids : WF_vars(Finish(i, TRUE)) /\ WF_vars(SweepNow(i))

FairSpec == Spec /\ Fairness

----------------------------------------------------------------------------
\* Properties

\* Every variable stays within its type.
TypeOK ==
    /\ link \in 0 .. MaxSwaps /\ generation \in 0 .. MaxSwaps /\ permit \in BOOLEAN
    /\ seen_gen \in 0 .. MaxSwaps /\ last_gen \in 0 .. MaxSwaps
    /\ index \in Args \cup {NoProfile}
    /\ version \in 0 .. MaxReloads
    /\ reload \in {"idle", "indexed", "bumped"}
    /\ pc \in [Ids -> {"new", "resolve", "adopt", "lookup", "confirm", "spawn", "path",
                       "exec", "compare", "check", "insert", "mapped", "gone"}]
    /\ resolved \in [Ids -> 0 .. MaxReloads]
    /\ args \in [Ids -> Args \cup {NoProfile}]
    /\ spawn_gen \in [Ids -> 0 .. MaxSwaps] /\ build \in [Ids -> 0 .. MaxSwaps]
    /\ seen \in [Ids -> 0 .. MaxReloads] /\ checked \in [Ids -> 0 .. MaxReloads]
    /\ replaced \in [Ids -> BOOLEAN] /\ busy \in [Ids -> BOOLEAN]
    /\ draining \in [Ids -> BOOLEAN] /\ for_competitor \in [Ids -> BOOLEAN]
    /\ competitor \in BOOLEAN /\ trigger \in [Ids -> BOOLEAN]
    /\ cancel \in [Ids -> {"no", "listed", "clear"}]

\* Once the watcher has drained for a swap, no instance that takes requests runs
\* an older build, wherever its spawn was when the swap happened.
NoStaleBuild ==
    \A i \in Mapped : draining[i] \/ build[i] >= last_gen

\* Once a reload has reconciled, no instance that takes requests was started
\* with arguments the cookbook no longer has.
NoStaleArgs ==
    reload = "idle" => \A i \in Mapped : draining[i] \/ args[i] = index

\* A drain for an update is never undone by the scheduler's cancellation, not
\* even by one that was decided while the drain was still the scheduler's.
UpdateDrainIsFinal ==
    [][\A i \in Ids : draining[i] /\ ~for_competitor[i] =>
          draining'[i] /\ ~for_competitor'[i]]_vars

\* An instance of a replaced build is gone in the end.
OldBuildsRetire ==
    \A i \in Ids : (pc[i] = "mapped" /\ build[i] < link) ~> pc[i] = "gone"

\* An instance with outdated arguments is gone in the end, unless a later reload
\* brings its arguments back.
OldArgsRetire ==
    \A i \in Ids : (pc[i] = "mapped" /\ args[i] # index) ~>
                       (pc[i] = "gone" \/ args[i] = index)

\* After an update every instance that predates it is gone in the end, whether the
\* swap or the reload made it old.
OldInstancesRetire == OldBuildsRetire /\ OldArgsRetire

============================================================================
