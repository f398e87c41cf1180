--------------------------- MODULE SpawnAdmission ---------------------------
(***************************************************************************)
(* Admission of new llama-server processes on one node: the instances map,  *)
(* the spawn reservations that commit count and memory before a process     *)
(* exists, the port pool, eviction of idle instances, and the retirement    *)
(* tasks that stop them.  Models `try_get_or_spawn_resolved` and its        *)
(* helpers in node_state/mod.rs, with spawn_reservations.rs, port_pool.rs   *)
(* and the process ownership of instance.rs.                                *)
(*                                                                         *)
(* A step is what the code does between two points where it may be          *)
(* suspended.  The write lock of the instances map is held across           *)
(* suspension points only between an eviction plan and its commit, so the   *)
(* lock is taken exactly while some spawner is at "commit".                 *)
(*                                                                         *)
(* A process is taken to use what was estimated for it, and one number      *)
(* stands for the VRAM and the system memory limits, which the code treats  *)
(* alike.  The least-recently-used order of eviction candidates is          *)
(* arbitrary.                                                              *)
(***************************************************************************)
EXTENDS Naturals, FiniteSets

CONSTANTS
    Spawners,      \* requests and prewarms that acquire an instance
    Prewarms,      \* the ones that claim no slot (reserve_slot = false)
    Clients,       \* the ones whose future may be dropped at any await
    Ids,           \* instance ids
    Profiles,      \* model:profile keys
    ProfileOf,     \* the profile each spawner asks for
    Cost,          \* the memory estimate of each profile
    MaxMem,        \* max_vram_mb
    MaxNode,       \* max_instances_per_node
    Limits,        \* values that max_instances takes over cookbook reloads
    MaxSlots,      \* max_concurrent_requests_per_instance
    Ports,         \* the port pool
    MaxAttempts,   \* MAX_SPAWN_RETRIES
    External,      \* amounts of device memory used by other programs
    MayCrash,      \* whether processes crash and startups fail
    NoOne

ASSUME SpawnersAssumption ==
    /\ IsFiniteSet(Spawners) /\ IsFiniteSet(Ids)
    /\ Prewarms \subseteq Spawners /\ Clients \subseteq Spawners
    /\ ProfileOf \in [Spawners -> Profiles]
    /\ NoOne \notin Spawners \cup Ids \cup Ports

ASSUME LimitsAssumption ==
    /\ Cost \in [Profiles -> Nat] /\ MaxMem \in Nat /\ MaxNode \in Nat
    /\ Limits \subseteq Nat /\ Limits # {}
    /\ MaxSlots \in Nat /\ MaxAttempts \in Nat \ {0}
    /\ External \subseteq Nat /\ 0 \in External
    /\ MayCrash \in BOOLEAN

VARIABLES
    pc,            \* where each spawner stands
    limit,         \* max_instances of the profile it resolved
    target,        \* the instance it is spawning or using
    victims,       \* the eviction plan it is about to commit
    holds,         \* it keeps a RetirementWake for its whole admission
    attempt,       \* spawn attempts made
    max_instances, \* the cookbook's current value
    map,           \* ids in the instances map
    prof, status, proc, in_flight, leaving, draining, port,
                   \* per instance id; `leaving` counts slots whose request
                   \* left and whose SlotReleaseGuard waits for the load
    reg,           \* ids with a memory commitment in the registry
    pending,       \* those that also reserve a place in the map
    plan_current,  \* the registry revision is still the plan's
    used,          \* ports marked used
    dropping,      \* leases whose Drop was deferred to a task
    batches,       \* running retirement tasks
    external,      \* device memory used by other programs
    owed,          \* capacity was freed since the last notify_all_queues
    waking         \* a task is about to call notify_all_queues

spawnerVars  == <<pc, limit, target, victims, holds, attempt>>
instanceVars == <<prof, status, proc, in_flight, leaving, draining, port>>
registryVars == <<reg, pending, plan_current>>
portVars     == <<used, dropping>>
wakeVars     == <<owed, waking>>
vars == <<spawnerVars, max_instances, map, instanceVars, registryVars, portVars,
          batches, external, wakeVars>>

----------------------------------------------------------------------------
\* Accounting

LockFree == \A s \in Spawners : pc[s] # "commit"

\* The sum of the estimates of the instances in S, counted unit by unit
MemoryOf(S) == Cardinality(UNION {{i} \X (1 .. Cost[prof[i]]) : i \in S})

\* Variant: reservations are not counted
InProfileMap(p) == {i \in map : prof[i] = p}

\* count_profile_instances plus the profile_count of the reservations
InProfile(p) == {i \in map \cup pending : prof[i] = p}

\* Variant: a loaded instance counts as idle whatever runs on it
IdleWhenReady == {i \in map : status[i] = "ready"}

Idle == {i \in map : in_flight[i] = 0}

\* Instance::is_alive is false: the process exited, or its handle was taken
Dead == {i \in map : proc[i] # "up"}

\* The `fits` closure, once the instances in V are gone
Fits(V, p) ==
    /\ MemoryOf(reg \ V) + external + Cost[p] <= MaxMem
    /\ Cardinality(map \ V) + Cardinality(pending) < MaxNode

\* pick_victims: candidates are dropped one at a time until the spawn fits
Victims(p) ==
    {V \in SUBSET Idle : Fits(V, p) /\ \E v \in V : ~Fits(V \ {v}, p)}

Retiring == UNION {b.ids : b \in batches}

FreeId(i) ==
    /\ i \notin map \cup reg \cup Retiring
    /\ \A s \in Spawners : target[s] # i
    /\ leaving[i] = 0

\* Instances a request may join: alive, not failed, not draining, with room
Joinable(s) ==
    {i \in map : /\ prof[i] = ProfileOf[s]
                 /\ proc[i] = "up" /\ status[i] # "failed" /\ draining[i] = "no"
                 /\ s \in Prewarms \/ MaxSlots = 0 \/ in_flight[i] < MaxSlots}

----------------------------------------------------------------------------
\* The registry (SpawnReservations) and the wakes of freed capacity

\* MemoryReservation::finish for the ids in S.  A reservation that was not
\* handed off to the map yet wakes the queues itself (on_abandon).
FinishReservations(S) ==
    /\ reg' = reg \ S
    /\ pending' = pending \ S
    /\ plan_current' = (plan_current /\ S \cap reg = {})

Abandoned(S) == S \cap pending # {}

KeepRegistry == UNCHANGED registryVars

\* Freed: capacity became available.  Woken: notify_all_queues is scheduled.
Announce(freed, woken) ==
    /\ owed' = (owed \/ freed)
    /\ waking' = (waking \/ woken)

Goto(s, label) == pc' = [pc EXCEPT ![s] = label]

\* The wakes an admission still holds go off when its future ends
DropWake(s) == holds' = [holds EXCEPT ![s] = FALSE]

\* retire_instances: a task takes the removed instances over, returns their
\* ports while it still has the map lock, and reports to s when they are gone
Retire(V, kind, s) ==
    /\ map' = map \ V
    /\ used' = used \ {port[i] : i \in V}
    /\ port' = [i \in Ids |-> IF i \in V THEN NoOne ELSE port[i]]
    /\ batches' = batches \cup {[ids |-> V, kind |-> kind, for |-> s]}

\* is_alive collects the exit status of a crashed process and ends its
\* commitment; the instance stays in the map until it is pruned or swept
CollectExits(V) ==
    LET exited == {i \in V : proc[i] = "exited"}
    IN  /\ proc' = [i \in Ids |-> IF i \in exited THEN "none" ELSE proc[i]]
        /\ FinishReservations(exited)

----------------------------------------------------------------------------
Init ==
    /\ pc = [s \in Spawners |-> "new"]
    /\ limit = [s \in Spawners |-> 0]
    /\ target = [s \in Spawners |-> NoOne]
    /\ victims = [s \in Spawners |-> {}]
    /\ holds = [s \in Spawners |-> FALSE]
    /\ attempt = [s \in Spawners |-> 0]
    /\ max_instances \in Limits
    /\ map = {}
    /\ \E p \in Profiles : prof = [i \in Ids |-> p]
    /\ status = [i \in Ids |-> "starting"]
    /\ proc = [i \in Ids |-> "none"]
    /\ in_flight = [i \in Ids |-> 0]
    /\ leaving = [i \in Ids |-> 0]
    /\ draining = [i \in Ids |-> "no"]
    /\ port = [i \in Ids |-> NoOne]
    /\ reg = {} /\ pending = {} /\ plan_current = FALSE
    /\ used = {} /\ dropping = {}
    /\ batches = {}
    /\ external = 0
    /\ owed = FALSE /\ waking = FALSE

----------------------------------------------------------------------------
\* One pass of the admission loop, under the map lock

\* get_instance_for_model resolves the profile and starts an admission
Resolve(s) ==
    /\ pc[s] = "new"
    /\ Goto(s, "lock")
    /\ limit' = [limit EXCEPT ![s] = max_instances]
    /\ UNCHANGED <<target, victims, holds, attempt, max_instances, map,
                   instanceVars, registryVars, portVars, batches, external, wakeVars>>

AtLock(s) == pc[s] = "lock" /\ LockFree

\* Crashed instances are retired first, and the pass starts over
Prune(s) ==
    /\ AtLock(s) /\ Dead # {}
    /\ Goto(s, "retire")
    /\ Retire(Dead, "crash", s)
    /\ CollectExits(Dead)
    /\ Announce(TRUE, FALSE)
    /\ UNCHANGED <<limit, target, victims, holds, attempt, max_instances, prof,
                   status, in_flight, leaving, draining, dropping, external>>

\* A request takes a slot of the joinable instance with the fewest; a prewarm
\* is content with any
Join(s) ==
    /\ AtLock(s) /\ Dead = {}
    /\ \E i \in Joinable(s) :
        /\ s \notin Prewarms =>
              \A j \in Joinable(s) : in_flight[i] <= in_flight[j]
        /\ IF s \in Prewarms
             THEN Goto(s, "done") /\ UNCHANGED <<target, in_flight>>
             ELSE /\ Goto(s, "load")
                  /\ target' = [target EXCEPT ![s] = i]
                  /\ in_flight' = [in_flight EXCEPT ![i] = @ + 1]
    /\ DropWake(s) /\ Announce(FALSE, holds[s])
    /\ KeepRegistry
    /\ UNCHANGED <<limit, victims, attempt, max_instances, map, prof, status, proc,
                   leaving, draining, port, portVars, batches, external>>

\* plan_spawn is reached with nothing to join
AtPlan(s) == AtLock(s) /\ Dead = {} /\ Joinable(s) = {}

ProfileFull(s) == Cardinality(InProfile(ProfileOf[s])) >= limit[s]

\* MaxInstancesProfile, MaxInstancesNode or InsufficientResources
Refuse(s) ==
    /\ AtPlan(s)
    /\ \/ ProfileFull(s)
       \/ ~Fits({}, ProfileOf[s]) /\ Victims(ProfileOf[s]) = {}
    /\ Goto(s, "refused")
    /\ DropWake(s) /\ Announce(FALSE, holds[s])
    /\ UNCHANGED <<limit, target, victims, attempt, max_instances, map, instanceVars,
                   registryVars, portVars, batches, external>>

\* The spawn fits: count and memory are reserved before the lock is dropped
Reserve(s) ==
    /\ AtPlan(s) /\ ~ProfileFull(s) /\ Fits({}, ProfileOf[s])
    /\ \E i \in {j \in Ids : FreeId(j)} :
        /\ target' = [target EXCEPT ![s] = i]
        /\ reg' = reg \cup {i} /\ pending' = pending \cup {i}
        /\ plan_current' = FALSE
        /\ prof' = [prof EXCEPT ![i] = ProfileOf[s]]
        /\ status' = [status EXCEPT ![i] = "starting"]
        /\ draining' = [draining EXCEPT ![i] = "no"]
        /\ in_flight' = [in_flight EXCEPT ![i] = IF s \in Prewarms THEN 0 ELSE 1]
    /\ Goto(s, "port")
    /\ attempt' = [attempt EXCEPT ![s] = 1]
    /\ UNCHANGED <<limit, victims, holds, max_instances, map, proc, leaving, port,
                   portVars, batches, external, wakeVars>>

\* The spawn fits without some idle instances: the plan is made, the lock kept
Plan(s) ==
    /\ AtPlan(s) /\ ~ProfileFull(s) /\ ~Fits({}, ProfileOf[s])
    /\ \E V \in Victims(ProfileOf[s]) : victims' = [victims EXCEPT ![s] = V]
    /\ plan_current' = TRUE
    /\ Goto(s, "commit")
    /\ UNCHANGED <<limit, target, holds, attempt, max_instances, map, instanceVars,
                   reg, pending, portVars, batches, external, wakeVars>>

\* Variant: the plan is carried out whatever changed
PlanAlwaysHolds == TRUE

\* with_revision: the plan is carried out only if no reservation changed
PlanHolds == plan_current

Evict(s) ==
    /\ pc[s] = "commit" /\ PlanHolds
    /\ Goto(s, "retire")
    /\ Retire(victims[s], "capacity", s)
    /\ victims' = [victims EXCEPT ![s] = {}]
    /\ Announce(TRUE, FALSE)
    /\ UNCHANGED <<limit, target, holds, attempt, max_instances, prof, status, proc,
                   in_flight, leaving, draining, registryVars, dropping, external>>

Replan(s) ==
    /\ pc[s] = "commit" /\ ~PlanHolds
    /\ Goto(s, "lock")
    /\ victims' = [victims EXCEPT ![s] = {}]
    /\ UNCHANGED <<limit, target, holds, attempt, max_instances, map, instanceVars,
                   registryVars, portVars, batches, external, wakeVars>>

----------------------------------------------------------------------------
\* Spawning, outside the map lock

\* The attempt ends before a process exists: the reservation is dropped
Abandon(s, label) ==
    /\ Goto(s, label)
    /\ target' = [target EXCEPT ![s] = NoOne]
    /\ FinishReservations({target[s]})
    /\ DropWake(s) /\ Announce(TRUE, TRUE)

\* get_available_port; an unusable API key file ends the attempt here too
LeasePort(s) ==
    /\ pc[s] = "port"
    /\ \E p \in Ports \ used :
        /\ used' = used \cup {p}
        /\ port' = [port EXCEPT ![target[s]] = p]
    /\ Goto(s, "exec")
    /\ UNCHANGED <<limit, target, victims, holds, attempt, max_instances, map, prof,
                   status, proc, in_flight, leaving, draining, registryVars, dropping,
                   batches, external, wakeVars>>

NoPort(s) ==
    /\ pc[s] = "port"
    /\ Abandon(s, "refused")
    /\ UNCHANGED <<limit, victims, attempt, max_instances, map, instanceVars, portVars,
                   batches, external>>

\* Variant: the port stays marked
ForgetPort(i) ==
    /\ used' = used
    /\ port' = [port EXCEPT ![i] = NoOne]

\* port_lease.release()
ReturnPort(i) ==
    /\ used' = used \ {port[i]}
    /\ port' = [port EXCEPT ![i] = NoOne]

\* The memory sample taken right before exec; our own promise is included
Overcommitted == MemoryOf(reg) + external > MaxMem

Resample(s) ==
    /\ pc[s] = "exec" /\ LockFree /\ Overcommitted
    /\ ReturnPort(target[s])
    /\ Abandon(s, "refused")
    /\ UNCHANGED <<limit, victims, attempt, max_instances, map, prof, status, proc,
                   in_flight, leaving, draining, dropping, batches, external>>

Exec(s) ==
    /\ pc[s] = "exec" /\ LockFree /\ ~Overcommitted
    /\ Goto(s, "insert")
    /\ proc' = [proc EXCEPT ![target[s]] = "up"]
    /\ plan_current' = FALSE
    /\ UNCHANGED <<limit, target, victims, holds, attempt, max_instances, map, prof,
                   status, in_flight, leaving, draining, port, reg, pending, portVars,
                   batches, external, wakeVars>>

\* Variant: <= for <
MayRetryOnceMore(s) == attempt[s] <= MaxAttempts

MayRetry(s) == attempt[s] < MaxAttempts

\* The process cannot be started: another port, up to MAX_SPAWN_RETRIES times
ExecFails(s) ==
    /\ pc[s] = "exec" /\ LockFree /\ ~Overcommitted
    /\ ReturnPort(target[s])
    /\ IF MayRetry(s)
         THEN /\ Goto(s, "port")
              /\ attempt' = [attempt EXCEPT ![s] = @ + 1]
              /\ UNCHANGED <<target, holds, registryVars, wakeVars>>
         ELSE Abandon(s, "refused") /\ UNCHANGED attempt
    /\ UNCHANGED <<limit, victims, max_instances, map, prof, status, proc, in_flight,
                   leaving, draining, dropping, batches, external>>

\* The re-checks before insertion, which count the map only
MapIsFull(s) ==
    \/ Cardinality({i \in map : prof[i] = ProfileOf[s]}) >= limit[s]
    \/ Cardinality(map) >= MaxNode

\* Insertion, port handoff and reservation handoff are one step.  A binary
\* swap or a cookbook reload since the attempt began makes it draining.
Insert(s) ==
    /\ pc[s] = "insert" /\ LockFree /\ ~MapIsFull(s)
    /\ map' = map \cup {target[s]}
    /\ pending' = pending \ {target[s]}
    /\ plan_current' = FALSE
    /\ \E d \in {"no", "forced"} : draining' = [draining EXCEPT ![target[s]] = d]
    /\ IF s \in Prewarms
         THEN Goto(s, "done") /\ target' = [target EXCEPT ![s] = NoOne]
         ELSE Goto(s, "load") /\ UNCHANGED target
    /\ DropWake(s) /\ Announce(FALSE, holds[s])
    /\ UNCHANGED <<limit, victims, attempt, max_instances, prof, status, proc, in_flight,
                   leaving, port, reg, portVars, batches, external>>

\* The re-check failed: the process is stopped, and the caller waits for it
InsertFails(s) ==
    /\ pc[s] = "insert" /\ LockFree /\ MapIsFull(s)
    /\ ReturnPort(target[s])
    /\ proc' = [proc EXCEPT ![target[s]] = "dying"]
    /\ Goto(s, "stopping")
    /\ UNCHANGED <<limit, target, victims, holds, attempt, max_instances, map, prof,
                   status, in_flight, leaving, draining, registryVars, dropping,
                   batches, external, wakeVars>>

Stopped(s) ==
    /\ pc[s] = "stopping" /\ target[s] \notin reg
    /\ Goto(s, "refused")
    /\ target' = [target EXCEPT ![s] = NoOne]
    /\ DropWake(s) /\ Announce(FALSE, holds[s])
    /\ UNCHANGED <<limit, victims, attempt, max_instances, map, instanceVars,
                   registryVars, portVars, batches, external>>

----------------------------------------------------------------------------
\* Using an instance

\* The readiness wait of get_instance_for_model
Loaded(s) ==
    /\ pc[s] = "load" /\ status[target[s]] = "ready"
    /\ Goto(s, "serve")
    /\ UNCHANGED <<limit, target, victims, holds, attempt, max_instances, map,
                   instanceVars, registryVars, portVars, batches, external, wakeVars>>

\* The request is answered
Serve(s) ==
    /\ pc[s] = "serve"
    /\ Goto(s, "done")
    /\ in_flight' = [in_flight EXCEPT ![target[s]] = @ - 1]
    /\ target' = [target EXCEPT ![s] = NoOne]
    /\ UNCHANGED <<limit, victims, holds, attempt, max_instances, map, prof, status, proc,
                   leaving, draining, port, registryVars, portVars, batches, external,
                   wakeVars>>

\* Variant: no guard takes the slot over
LoseSlot(s) ==
    /\ leaving' = leaving
    /\ target' = [target EXCEPT ![s] = NoOne]

\* The slot of a request that leaves goes back through a spawned task
DropSlot(s) ==
    /\ leaving' = [leaving EXCEPT ![target[s]] = @ + 1]
    /\ target' = [target EXCEPT ![s] = NoOne]

\* The load failed: the request retries, or recovers from a cold-start OOM
LoadFailed(s) ==
    /\ pc[s] = "load" /\ status[target[s]] = "failed"
    /\ DropSlot(s)
    /\ Goto(s, "new") \/ Goto(s, "recover")
    /\ UNCHANGED <<limit, victims, holds, attempt, max_instances, map, prof, status, proc,
                   in_flight, draining, port, registryVars, portVars, batches, external,
                   wakeVars>>

\* Variant: the slot is released while the instance loads
ReleaseSlotAtOnce(i) ==
    /\ leaving[i] > 0
    /\ leaving' = [leaving EXCEPT ![i] = @ - 1]
    /\ in_flight' = [in_flight EXCEPT ![i] = @ - 1]
    /\ UNCHANGED <<spawnerVars, max_instances, map, prof, status, proc, draining, port,
                   registryVars, portVars, batches, external, wakeVars>>

\* SlotReleaseGuard's task keeps the slot while the instance loads
ReleaseSlot(i) ==
    /\ leaving[i] > 0 /\ status[i] # "starting"
    /\ leaving' = [leaving EXCEPT ![i] = @ - 1]
    /\ in_flight' = [in_flight EXCEPT ![i] = @ - 1]
    /\ UNCHANGED <<spawnerVars, max_instances, map, prof, status, proc, draining, port,
                   registryVars, portVars, batches, external, wakeVars>>

\* Cold-start recovery, stage 1: retire every idle instance
RecoverIdle == {i \in Idle : status[i] # "failed" /\ draining[i] = "no"}

EvictAllIdle(s) ==
    /\ pc[s] = "recover" /\ LockFree /\ RecoverIdle # {}
    /\ Goto(s, "retire")
    /\ Retire(RecoverIdle, "recover", s)
    /\ Announce(TRUE, FALSE)
    /\ UNCHANGED <<limit, target, victims, holds, attempt, max_instances, prof, status,
                   proc, in_flight, leaving, draining, registryVars, dropping, external>>

\* Stage 2, with nobody idle or after a second failure (cold_retry_stage is not kept):
\* drain everything, wait until it is idle or the grace period ends, and retire it
DrainAll(s) ==
    /\ pc[s] = "recover" /\ LockFree
    /\ draining' = [i \in Ids |-> IF i \in map THEN "forced" ELSE draining[i]]
    /\ victims' = [victims EXCEPT ![s] = map]
    /\ Goto(s, IF map = {} THEN "new" ELSE "drain")
    /\ UNCHANGED <<limit, target, holds, attempt, max_instances, map, prof, status, proc,
                   in_flight, leaving, port, registryVars, portVars, batches, external,
                   wakeVars>>

EvictDrained(s) ==
    /\ pc[s] = "drain" /\ LockFree
    /\ Goto(s, "retire")
    /\ Retire(victims[s] \cap map, "recover", s)
    /\ victims' = [victims EXCEPT ![s] = {}]
    /\ Announce(TRUE, FALSE)
    /\ UNCHANGED <<limit, target, holds, attempt, max_instances, prof, status, proc,
                   in_flight, leaving, draining, registryVars, dropping, external>>

----------------------------------------------------------------------------
\* Retirement tasks and processes

\* Variant: the commitment ends when the process is told to stop
StopReleases(i) ==
    /\ i \in Retiring /\ proc[i] \in {"up", "exited"}
    /\ proc' = [proc EXCEPT ![i] = "dying"]
    /\ FinishReservations({i})
    /\ UNCHANGED <<spawnerVars, max_instances, map, prof, status, in_flight, leaving,
                   draining, port, portVars, batches, external, wakeVars>>

\* stop_and_cleanup_instance; Instance::stop takes the process handle
Stop(i) ==
    /\ i \in Retiring /\ proc[i] \in {"up", "exited"}
    /\ proc' = [proc EXCEPT ![i] = "dying"]
    /\ UNCHANGED <<spawnerVars, max_instances, map, prof, status, in_flight, leaving,
                   draining, port, registryVars, portVars, batches, external, wakeVars>>

\* Variant: a reservation that was never handed off is left to its caller
ReapHandedOff(i) ==
    /\ proc[i] = "dying"
    /\ proc' = [proc EXCEPT ![i] = "none"]
    /\ FinishReservations({i} \ pending)
    /\ Announce(TRUE, FALSE)
    /\ UNCHANGED <<spawnerVars, max_instances, map, prof, status, in_flight, leaving,
                   draining, port, portVars, batches, external>>

\* reap_child: the commitment ends only with the process
Reap(i) ==
    /\ proc[i] = "dying"
    /\ proc' = [proc EXCEPT ![i] = "none"]
    /\ FinishReservations({i})
    /\ Announce(TRUE, Abandoned({i}))
    /\ UNCHANGED <<spawnerVars, max_instances, map, prof, status, in_flight, leaving,
                   draining, port, portVars, batches, external>>

CallerWaits(b) == b.for # NoOne /\ pc[b.for] = "retire"

\* Variant: a deferred wake is the caller's, there or not
WakeStaysDeferred(b) == b.for # NoOne /\ b.kind = "capacity"

\* A deferred wake goes to its caller only while the caller is there to take it
CallerKeepsWake(b) == CallerWaits(b) /\ b.kind = "capacity"

\* All victims are released: the caller takes the deferred wake over, or the
\* task wakes the queues because the wake is not deferred or its caller left
RetireDone(b) ==
    /\ b \in batches /\ b.ids \cap reg = {}
    /\ batches' = batches \ {b}
    /\ IF CallerWaits(b)
         THEN Goto(b.for, IF b.kind = "recover" THEN "new" ELSE "lock")
         ELSE UNCHANGED pc
    /\ IF CallerKeepsWake(b)
         THEN holds' = [holds EXCEPT ![b.for] = TRUE]
         ELSE UNCHANGED holds
    /\ Announce(FALSE, ~CallerKeepsWake(b))
    /\ UNCHANGED <<limit, target, victims, attempt, max_instances, map, instanceVars,
                   registryVars, portVars, external>>

Crash(i) ==
    /\ MayCrash /\ proc[i] = "up"
    /\ proc' = [proc EXCEPT ![i] = "exited"]
    /\ UNCHANGED <<spawnerVars, max_instances, map, prof, status, in_flight, leaving,
                   draining, port, registryVars, portVars, batches, external, wakeVars>>

\* Any reader of the map may be the one to notice that a process exited
NoticeExit(i) ==
    /\ i \in map /\ proc[i] = "exited"
    /\ CollectExits({i})
    /\ Announce(TRUE, FALSE)
    /\ UNCHANGED <<spawnerVars, max_instances, map, prof, status, in_flight, leaving,
                   draining, port, portVars, batches, external>>

\* The readiness task of an inserted instance
Holders(i) == {s \in Spawners : pc[s] \in {"load", "serve"} /\ target[s] = i}

Inserted(i) == i \in map \cup Retiring \/ leaving[i] > 0 \/ Holders(i) # {}

BecomeReady(i) ==
    /\ Inserted(i) /\ status[i] = "starting" /\ proc[i] = "up"
    /\ status' = [status EXCEPT ![i] = "ready"]
    /\ plan_current' = (plan_current /\ i \notin reg)
    /\ Announce(FALSE, TRUE)
    /\ UNCHANGED <<spawnerVars, max_instances, map, prof, proc, in_flight, leaving,
                   draining, port, reg, pending, portVars, batches, external>>

\* The health check times out or finds the process gone; what is left of the
\* process is stopped
StartupFails(i) ==
    /\ Inserted(i) /\ status[i] = "starting"
    /\ MayCrash \/ proc[i] # "up"
    /\ status' = [status EXCEPT ![i] = "failed"]
    /\ proc' = [proc EXCEPT ![i] = IF @ = "none" THEN @ ELSE "dying"]
    /\ UNCHANGED <<spawnerVars, max_instances, map, prof, in_flight, leaving, draining,
                   port, registryVars, portVars, batches, external, wakeVars>>

\* check_idle_instances: crashed and drained instances, and any idle ones whose
\* timeout ran out
Sweep ==
    /\ LockFree
    /\ \E T \in SUBSET {i \in Idle : draining[i] = "no"} :
        LET V == Dead \cup {i \in Idle : draining[i] # "no"} \cup T
        IN  /\ V # {}
            /\ Retire(V, "sweep", NoOne)
            /\ CollectExits(V)
    /\ Announce(TRUE, FALSE)
    /\ UNCHANGED <<spawnerVars, max_instances, prof, status, in_flight, leaving, draining,
                   dropping, external>>

\* PortLease::drop found the pool locked and left the port to a task
DropPort(p) ==
    /\ p \in dropping
    /\ dropping' = dropping \ {p}
    /\ used' = used \ {p}
    /\ UNCHANGED <<spawnerVars, max_instances, map, instanceVars, registryVars, batches,
                   external, wakeVars>>

WakeQueues ==
    /\ waking
    /\ owed' = FALSE /\ waking' = FALSE
    /\ UNCHANGED <<spawnerVars, max_instances, map, instanceVars, registryVars, portVars,
                   batches, external>>

----------------------------------------------------------------------------
\* The environment

\* A refused request is woken in its queue and tries again
Retry(s) ==
    /\ pc[s] = "refused"
    /\ Goto(s, "new")
    /\ UNCHANGED <<limit, target, victims, holds, attempt, max_instances, map,
                   instanceVars, registryVars, portVars, batches, external, wakeVars>>

\* A binary swap or a reload drains an instance for good; a competing model's
\* drain may be cancelled
SetDraining(i) ==
    /\ i \in map /\ draining[i] # "forced"
    /\ \E d \in {"no", "competitor", "forced"} \ {draining[i]} :
          draining' = [draining EXCEPT ![i] = d]
    /\ UNCHANGED <<spawnerVars, max_instances, map, prof, status, proc, in_flight,
                   leaving, port, registryVars, portVars, batches, external, wakeVars>>

ReloadLimit ==
    /\ max_instances' \in Limits \ {max_instances}
    /\ UNCHANGED <<spawnerVars, map, instanceVars, registryVars, portVars, batches,
                   external, wakeVars>>

OtherProgram ==
    /\ external' \in External \ {external}
    /\ UNCHANGED <<spawnerVars, max_instances, map, instanceVars, registryVars, portVars,
                   batches, wakeVars>>

\* The future of a request is dropped at an await.  Its guards run: the lease
\* returns the port, an unshared process is killed and keeps its commitment
\* until it is reaped, a slot goes to SlotReleaseGuard, a wake goes off.
Cancel(s) ==
    /\ s \in Clients /\ pc[s] \notin {"done", "port", "exec", "insert", "stopping"}
    /\ Goto(s, "done")
    /\ IF pc[s] \in {"load", "serve"}
         THEN DropSlot(s)
         ELSE UNCHANGED <<target, leaving>>
    /\ victims' = [victims EXCEPT ![s] = {}]
    /\ DropWake(s) /\ Announce(FALSE, holds[s])
    /\ UNCHANGED <<limit, attempt, max_instances, map, prof, status, proc, in_flight,
                   draining, port, registryVars, portVars, batches, external>>

\* Variant: the reservation always ends with its caller
AlwaysEndsWithCaller(i) == {i}

\* A dropped future ends the reservation of a process it never started; that of
\* a process ends with the process
EndsWithCaller(i) == IF proc[i] # "none" THEN {} ELSE {i}

\* ... between the reservation and the insertion
CancelSpawn(s) ==
    LET i == target[s]
    IN  /\ s \in Clients /\ pc[s] \in {"port", "exec", "insert", "stopping"}
        /\ Goto(s, "done")
        /\ target' = [target EXCEPT ![s] = NoOne]
        /\ proc' = [proc EXCEPT ![i] = IF @ = "none" THEN @ ELSE "dying"]
        /\ FinishReservations(EndsWithCaller(i))
        /\ dropping' = dropping \cup ({port[i]} \ {NoOne})
        /\ port' = [port EXCEPT ![i] = NoOne]
        /\ DropWake(s)
        /\ Announce(EndsWithCaller(i) \cap reg # {},
                    holds[s] \/ Abandoned(EndsWithCaller(i)))
        /\ UNCHANGED <<limit, victims, attempt, max_instances, map, prof, status,
                       in_flight, leaving, draining, used, batches, external>>

----------------------------------------------------------------------------
Admit(s) ==
    \/ Resolve(s) \/ Prune(s) \/ Join(s) \/ Refuse(s) \/ Reserve(s)
    \/ Plan(s) \/ Evict(s) \/ Replan(s)

SpawnProcess(s) ==
    \/ LeasePort(s) \/ NoPort(s) \/ Resample(s) \/ Exec(s) \/ ExecFails(s)
    \/ Insert(s) \/ InsertFails(s) \/ Stopped(s)

Use(s) ==
    \/ Loaded(s) \/ Serve(s) \/ LoadFailed(s)
    \/ EvictAllIdle(s) \/ DrainAll(s) \/ EvictDrained(s)

Process(i) ==
    \/ ReleaseSlot(i) \/ Stop(i) \/ Reap(i) \/ NoticeExit(i)
    \/ BecomeReady(i) \/ StartupFails(i)

\* Every request was answered or gave up, and no task is left to run
Quiet ==
    /\ \A s \in Spawners : pc[s] = "done"
    /\ UNCHANGED vars

Next ==
    \/ \E s \in Spawners : Admit(s) \/ SpawnProcess(s) \/ Use(s) \/ Retry(s)
                           \/ Cancel(s) \/ CancelSpawn(s)
    \/ \E i \in Ids : Process(i) \/ Crash(i) \/ SetDraining(i)
    \/ \E b \in batches : RetireDone(b)
    \/ \E p \in Ports : DropPort(p)
    \/ Sweep \/ WakeQueues \/ ReloadLimit \/ OtherProgram
    \/ Quiet

Spec == Init /\ [][Next]_vars

\* Futures and tasks are polled, a lock is granted in the end, a startup times
\* out, a killed process exits, and the sweep runs every ten seconds
Fairness ==
    /\ \A s \in Spawners : /\ WF_vars(Admit(s)) /\ WF_vars(SpawnProcess(s))
                           /\ WF_vars(Use(s))
    /\ \A i \in Ids : WF_vars(Process(i))
    /\ WF_vars(\E b \in batches : RetireDone(b))
    /\ WF_vars(\E p \in Ports : DropPort(p))
    /\ WF_vars(Sweep) /\ WF_vars(WakeQueues)

FairSpec == Spec /\ Fairness

----------------------------------------------------------------------------
\* Properties

\* Every variable stays within its type.
TypeOK ==
    /\ pc \in [Spawners -> {"new", "lock", "commit", "retire", "refused", "port", "exec",
                            "insert", "stopping", "load", "serve", "recover", "drain",
                            "done"}]
    /\ limit \in [Spawners -> Limits \cup {0}]
    /\ target \in [Spawners -> Ids \cup {NoOne}]
    /\ victims \in [Spawners -> SUBSET Ids]
    /\ holds \in [Spawners -> BOOLEAN]
    /\ attempt \in [Spawners -> 0 .. MaxAttempts]
    /\ max_instances \in Limits
    /\ map \subseteq Ids
    /\ prof \in [Ids -> Profiles]
    /\ status \in [Ids -> {"starting", "ready", "failed"}]
    /\ proc \in [Ids -> {"none", "up", "exited", "dying"}]
    /\ in_flight \in [Ids -> Nat] /\ leaving \in [Ids -> Nat]
    /\ draining \in [Ids -> {"no", "competitor", "forced"}]
    /\ port \in [Ids -> Ports \cup {NoOne}]
    /\ reg \subseteq Ids /\ pending \subseteq Ids /\ plan_current \in BOOLEAN
    /\ used \subseteq Ports /\ dropping \subseteq Ports
    /\ batches \subseteq [ids : SUBSET Ids, for : Spawners \cup {NoOne},
                          kind : {"crash", "capacity", "recover", "sweep"}]
    /\ external \in External
    /\ owed \in BOOLEAN /\ waking \in BOOLEAN

\* Mapped instances and pending reservations together never exceed
\* max_instances_per_node, nor a profile's max_instances: the reservation made
\* under the map lock holds the place until the insertion, however many other
\* admissions, evictions and cancellations run in between.
AdmissionWithinLimits ==
    /\ Cardinality(map) + Cardinality(pending) <= MaxNode
    /\ \A p \in Profiles : \E l \in Limits :
          Cardinality({i \in map \cup pending : prof[i] = p}) <= l

\* A process that exists - spawned and not yet inserted, killed and not yet
\* reaped, orphaned by a cancelled request - still has its memory commitment.
ProcessesAreCommitted ==
    \A i \in Ids : proc[i] \in {"up", "dying"} => i \in reg

\* The processes of the node never use more than its memory limit, the
\* retiring ones and the ones being spawned included.
MemoryWithinLimit ==
    MemoryOf({i \in Ids : proc[i] \in {"up", "dying"}}) <= MaxMem

\* A port is marked used exactly while one lease, instance or pending lease
\* drop owns it, so no port leaks and no two instances share one.
PortsAreOwned ==
    /\ used = dropping \cup ({port[i] : i \in Ids} \ {NoOne})
    /\ \A i \in Ids : port[i] \notin dropping
    /\ \A i, j \in Ids : port[i] = port[j] /\ port[i] # NoOne => i = j
    /\ \A i \in map : port[i] # NoOne

\* The slots counted on a mapped instance are those of the requests using it
\* and of the departed ones whose guard has not run.
SlotsAreHeld ==
    \A i \in map : in_flight[i] = Cardinality(Holders(i)) + leaving[i]

\* An idle instance is evicted for capacity only if the new one does not fit
\* beside it at that moment, whatever was released since the plan was made
\* (what other programs use may have changed after it was sampled).
EvictionIsNecessary ==
    [][\A s \in Spawners :
          pc[s] = "commit" /\ pc'[s] = "retire" =>
              \/ \E e \in External : MemoryOf(reg) + e + Cost[ProfileOf[s]] > MaxMem
              \/ Cardinality(map) + Cardinality(pending) >= MaxNode]_vars

\* No eviction takes a live instance from the requests on it, except the last
\* stage of cold-start recovery, which waits for them first.
BusyInstancesAreKept ==
    \A i \in map \ map' :
          \/ in_flight[i] = 0
          \/ proc[i] # "up"
          \/ \E s \in Spawners : pc[s] = "drain" /\ pc'[s] = "retire"

\* A load that a request started is never left without a slot by requests that
\* give up, so no sweep or eviction mistakes it for an idle instance.
LoadKeepsItsSlots ==
    \A i \in map \cap map' :
          status[i] = "starting" /\ status'[i] = "starting" =>
              in_flight'[i] >= in_flight[i]

\* Capacity that a retirement, a crash or an abandoned spawn freed is announced
\* to the queues in the end, also when the request that evicted is cancelled.
FreedCapacityIsAnnounced == owed ~> ~owed

\* The reservation of a cancelled spawn is released in the end.
AbandonedSpawnIsReclaimed ==
    \A i \in Ids : (i \in pending /\ \A s \in Spawners : target[s] # i) ~> i \notin pending

\* An admission fits what the node has, whoever else was admitted, loads or retires
\* since it was planned.
AdmissionsFit == AdmissionWithinLimits /\ MemoryWithinLimit

\* Ports, processes and slots have one owner from lease and exec to reaping, on every
\* path of failure, retry and cancellation.
ResourcesAreOwned == TypeOK /\ PortsAreOwned /\ ProcessesAreCommitted /\ SlotsAreHeld

\* No eviction, sweep or release takes an instance that a request uses or whose load a
\* request waits for.
UsedInstancesAreKept == [][BusyInstancesAreKept /\ LoadKeepsItsSlots]_vars

\* Every teardown completes: what it frees is announced to the queues and what an
\* abandoned spawn held is given back.
TeardownCompletes == FreedCapacityIsAnnounced /\ AbandonedSpawnIsReclaimed

============================================================================
