---------------------------- MODULE RequestQueue ----------------------------
(***************************************************************************)
(* The wait queue of one model:profile key: get_instance_for_model, the    *)
(* priority tokens, the wake path and the guards that clean up after a     *)
(* request that is cancelled.                                              *)
(*                                                                         *)
(* The key is served by one loaded instance (max_instances = 1) with Slots *)
(* concurrent slots, so a request either takes a slot, or is blocked by    *)
(* MaxInstancesProfile and queues.  Only a reload takes the instance away. *)
(* Admission among several profiles is the subject of SpawnAdmission.      *)
(*                                                                         *)
(* A step is what runs between two lock acquisitions.  Another thread may  *)
(* run between any two steps, and a client may disconnect between any two  *)
(* steps of its request, which drops the request's future there.           *)
(***************************************************************************)
EXTENDS Naturals, Sequences, FiniteSets

CONSTANTS
    Requests,     \* calls of get_instance_for_model
    Deadlines,    \* those with a queue deadline (max_wait_in_queue_ms # 0)
    Clients,      \* those whose client may disconnect
    Tasks,        \* runtime threads that run spawned wake tasks
    Maintenance,  \* the background loop
    NoOne,        \* "no request"
    Slots,        \* max_concurrent_requests_per_instance
    Limits,       \* the limits to explore: max_queue_size and max_total_queue_entries
    MayShutDown,  \* whether shutdown may begin
    MayReload     \* whether a cookbook reload may remove the profile

ASSUME RequestsAssumption ==
    /\ IsFiniteSet(Requests)
    /\ Deadlines \subseteq Requests /\ Clients \subseteq Requests
    /\ NoOne \notin Requests
    /\ Requests \cap Tasks = {}
    /\ Maintenance \notin Requests \cup Tasks

ASSUME LimitsAssumption ==
    /\ Slots \in Nat \ {0} /\ Limits \subseteq [queue : Nat, total : Nat]
    /\ MayShutDown \in BOOLEAN /\ MayReload \in BOOLEAN

(* Whoever can be inside notify_queue_by_key. *)
Callers == Requests \cup Tasks \cup {Maintenance}

VARIABLES
    limit,        \* the configured limits, 0 = unlimited
    pc,           \* where each request is in get_instance_for_model
    token,        \* my_token: whether the request holds a priority permit
    chan,         \* its oneshot channel: idle, open, permit or closed
    queue,        \* the VecDeque of this key (tokens are named by request)
    pending,      \* pending_tokens of this key
    inst,         \* the instance: live, draining or gone
    in_flight,    \* its in_flight_requests
    map_lock,     \* the request that holds the instances write lock
    stage,        \* where each caller is in notify_queue_by_key
    hand,         \* the entry it popped
    budget,       \* notify_queue calls it has left, 0 in notify_all_queues
    jobs,         \* wake tasks spawned and not yet started
    releases,     \* slot-release tasks spawned and not yet run
    entry_drops,  \* queue entries a dropped QueueEntryGuard will remove
    permit_drops, \* tokens a dropped PendingQueuePermit will remove
    draining,     \* the node is shutting down
    removed       \* the profile is gone from the cookbook

request == <<pc, token, chan>>
waiting == <<queue, pending>>
wakers  == <<stage, hand, budget>>
drops   == <<entry_drops, permit_drops>>
node    == <<draining, removed, limit>>
instance == <<inst, in_flight>>
vars == <<pc, token, chan, queue, pending, inst, in_flight, map_lock, stage,
          hand, budget, jobs, releases, entry_drops, permit_drops, draining,
          removed, limit>>

PCs == {"new", "top", "fair", "nudge", "nudging", "again", "again_pending",
        "lock", "held", "blocked", "yield", "enqueue", "recheck",
        "rechecking", "wait", "expired", "acquired", "running", "done"}

Stages == {"idle", "pop", "promote", "release"}

(* One type invariant for the queue, its wakers and its guards. *)
TypeOK ==
    /\ limit \in Limits
    /\ pc \in [Requests -> PCs]
    /\ token \in [Requests -> BOOLEAN]
    /\ chan \in [Requests -> {"idle", "open", "permit", "closed"}]
    /\ queue \in Seq(Requests) /\ (limit.queue # 0 => Len(queue) <= limit.queue)
    /\ pending \in SUBSET Requests
    /\ inst \in {"live", "draining", "gone"}
    /\ in_flight \in Nat
    /\ map_lock \in Requests \cup {NoOne}
    /\ stage \in [Callers -> Stages]
    /\ hand \in [Callers -> Requests \cup {NoOne}]
    /\ budget \in [Callers -> Nat]
    /\ jobs \in [{"one", "all"} -> Nat]
    /\ releases \in Nat
    /\ entry_drops \in SUBSET Requests
    /\ permit_drops \in SUBSET Requests
    /\ draining \in BOOLEAN /\ removed \in BOOLEAN

Init ==
    /\ limit \in Limits
    /\ pc = [r \in Requests |-> "new"]
    /\ token = [r \in Requests |-> FALSE]
    /\ chan = [r \in Requests |-> "idle"]
    /\ queue = << >>
    /\ pending = {}
    /\ inst = "live"
    /\ in_flight = 0
    /\ map_lock = NoOne
    /\ stage = [c \in Callers |-> "idle"]
    /\ hand = [c \in Callers |-> NoOne]
    /\ budget = [c \in Callers |-> 0]
    /\ jobs = [k \in {"one", "all"} |-> 0]
    /\ releases = 0
    /\ entry_drops = {}
    /\ permit_drops = {}
    /\ draining = FALSE
    /\ removed = FALSE

-----------------------------------------------------------------------------
(* State shared by the operations *)

Queued == {queue[i] : i \in 1..Len(queue)}
InHand == {hand[c] : c \in Callers} \ {NoOne}

(* The receiver of the request's oneshot channel still exists. *)
RxAlive(r) == pc[r] \in {"recheck", "rechecking", "wait"}

(* VecDeque::retain: the entries that are in keep, in their order.  The    *)
(* entry at i moves to the place that counts the entries kept up to it.    *)
Rank(I, i) == Cardinality({k \in I : k <= i})

Retain(q, keep) ==
    LET kept == {i \in 1..Len(q) : q[i] \in keep}
    IN  [j \in 1..Cardinality(kept) |-> q[CHOOSE i \in kept : Rank(kept, i) = j]]

Without(q, r) == Retain(q, Requests \ {r})

Goto(r, label) == pc' = [pc EXCEPT ![r] = label]

Spawn(kind) == jobs' = [jobs EXCEPT ![kind] = @ + 1]

(* my_token.take() and release(). *)
ReleaseToken(r) ==
    /\ token' = [token EXCEPT ![r] = FALSE]
    /\ pending' = IF token[r] THEN pending \ {r} ELSE pending

(* Variant: one slot is always held back. *)
WakeBudgetShort ==
    LET free == IF inst = "live" /\ in_flight < Slots
                THEN Slots - in_flight ELSE 0
        held == Cardinality(pending) + 1
    IN  IF held < free THEN free - held ELSE 0

(* available_ready_slots_for_model less pending_token_count. *)
WakeBudget ==
    LET free == IF inst = "live" /\ in_flight < Slots
                THEN Slots - in_flight ELSE 0
        held == Cardinality(pending)
    IN  IF held < free THEN free - held ELSE 0

-----------------------------------------------------------------------------
(* notify_queue_by_key: pop the front entry, promote its token and send it *)
(* the permit; an entry whose receiver is gone is released and skipped.    *)

StartWake(c, b) ==
    /\ stage' = [stage EXCEPT ![c] = "pop"]
    /\ budget' = [budget EXCEPT ![c] = b]

EndWake(c) ==
    /\ stage' = [stage EXCEPT ![c] = "idle"]
    /\ budget' = [budget EXCEPT ![c] = 0]

(* notify_queue returned true: notify_all_queues takes the next entry only *)
(* while draining, notify_waiters_for_available_slots while it has budget. *)
AfterNotify(c) ==
    IF budget[c] = 0
    THEN IF draining THEN StartWake(c, 0) ELSE EndWake(c)
    ELSE IF budget[c] > 1 THEN StartWake(c, budget[c] - 1) ELSE EndWake(c)

Pop(c) ==
    /\ stage[c] = "pop"
    /\ IF queue = << >>
       THEN EndWake(c) /\ UNCHANGED <<queue, hand>>
       ELSE /\ hand' = [hand EXCEPT ![c] = Head(queue)]
            /\ queue' = Tail(queue)
            /\ stage' = [stage EXCEPT ![c] = "promote"]
            /\ UNCHANGED budget
    /\ UNCHANGED <<request, pending, instance, map_lock, jobs, releases,
                   drops, node>>

(* The pending insert and the send have no await between them. *)
Promote(c) ==
    /\ stage[c] = "promote"
    /\ pending' = pending \cup {hand[c]}
    /\ IF RxAlive(hand[c])
       THEN /\ chan' = [chan EXCEPT ![hand[c]] = "permit"]
            /\ hand' = [hand EXCEPT ![c] = NoOne]
            /\ AfterNotify(c)
       ELSE /\ stage' = [stage EXCEPT ![c] = "release"]
            /\ UNCHANGED <<chan, hand, budget>>
    /\ UNCHANGED <<pc, token, queue, instance, map_lock, jobs, releases,
                   drops, node>>

ReleaseReturned(c) ==
    /\ stage[c] = "release"
    /\ pending' = pending \ {hand[c]}
    /\ hand' = [hand EXCEPT ![c] = NoOne]
    /\ stage' = [stage EXCEPT ![c] = "pop"]
    /\ UNCHANGED <<request, queue, instance, map_lock, budget, jobs,
                   releases, drops, node>>

(* A spawned task that calls notify_queue or notify_all_queues. *)
RunJob(t) ==
    /\ stage[t] = "idle"
    /\ \E kind \in {"one", "all"} :
          /\ jobs[kind] > 0
          /\ jobs' = [jobs EXCEPT ![kind] = @ - 1]
          /\ StartWake(t, IF kind = "all" THEN 0 ELSE 1)
    /\ UNCHANGED <<request, waiting, instance, map_lock, hand, releases,
                   drops, node>>

(* wake_admissible_queues on the maintenance tick.  A removed profile does *)
(* not resolve and is skipped.                                             *)
MaintenanceTick ==
    /\ stage[Maintenance] = "idle"
    /\ map_lock = NoOne
    /\ queue # << >> /\ ~removed /\ WakeBudget > 0
    /\ StartWake(Maintenance, WakeBudget)
    /\ UNCHANGED <<request, waiting, instance, map_lock, hand, jobs,
                   releases, drops, node>>

-----------------------------------------------------------------------------
(* get_instance_for_model *)

Arrive(r) ==
    /\ pc[r] = "new"
    /\ Goto(r, "top")
    /\ UNCHANGED <<token, chan, waiting, instance, map_lock, wakers, jobs,
                   releases, drops, node>>

(* adopt_reloaded_profile on a removed profile: the request fails and      *)
(* passes the wake it may have consumed on to the next waiter.             *)
FailRemoved(r) ==
    /\ removed
    /\ ReleaseToken(r)
    /\ Spawn("one")
    /\ Goto(r, "done")
    /\ UNCHANGED <<chan, queue, instance, map_lock, wakers, releases, drops,
                   node>>

(* The top of the loop: reload, draining and deadline checks, then the     *)
(* first half of the fairness check (has_pending_waiters reads the queue). *)
LeaveAtTop(r) ==
    /\ draining \/ r \in Deadlines
    /\ ReleaseToken(r)
    /\ Goto(r, "done")
    /\ UNCHANGED <<chan, queue, instance, map_lock, wakers, jobs, releases,
                   drops, node>>

FairnessCheck(r) ==
    /\ ~draining
    /\ Goto(r, CASE token[r]      -> "lock"
                 [] queue # << >> -> "nudge"
                 [] OTHER         -> "fair")
    /\ UNCHANGED <<token, chan, waiting, instance, map_lock, wakers, jobs,
                   releases, drops, node>>

Top(r) ==
    /\ pc[r] = "top"
    /\ \/ FailRemoved(r)
       \/ ~removed /\ LeaveAtTop(r)
       \/ ~removed /\ FairnessCheck(r)

(* The second half: has_pending_waiters reads pending_tokens. *)
FairnessPending(r) ==
    /\ pc[r] = "fair"
    /\ Goto(r, IF pending # {} THEN "nudge" ELSE "lock")
    /\ UNCHANGED <<token, chan, waiting, instance, map_lock, wakers, jobs,
                   releases, drops, node>>

(* notify_waiters_for_available_slots, from the fairness path and from     *)
(* wake_queue_if_admissible after a blocked request has queued, which also *)
(* wakes one waiter if plan_spawn would admit it.  Both read the map.      *)
WakeForSlots(r) ==
    /\ pc[r] \in {"nudge", "recheck"}
    /\ map_lock = NoOne
    /\ Goto(r, IF pc[r] = "nudge" THEN "nudging" ELSE "rechecking")
    /\ LET spawn == IF pc[r] = "recheck" /\ inst = "gone" THEN 1 ELSE 0
       IN  IF WakeBudget + spawn > 0
           THEN StartWake(r, WakeBudget + spawn)
           ELSE UNCHANGED <<stage, budget>>
    /\ UNCHANGED <<token, chan, waiting, instance, map_lock, hand, jobs,
                   releases, drops, node>>

WakeReturns(r) ==
    /\ pc[r] \in {"nudging", "rechecking"}
    /\ stage[r] = "idle"
    /\ Goto(r, IF pc[r] = "nudging" THEN "again" ELSE "wait")
    /\ UNCHANGED <<token, chan, waiting, instance, map_lock, wakers, jobs,
                   releases, drops, node>>

(* The second has_pending_waiters of the fairness path. *)
StillWaiters(r) ==
    /\ \/ /\ pc[r] = "again"
          /\ Goto(r, IF queue # << >> THEN "yield" ELSE "again_pending")
       \/ /\ pc[r] = "again_pending"
          /\ Goto(r, IF pending # {} THEN "yield" ELSE "top")
    /\ UNCHANGED <<token, chan, waiting, instance, map_lock, wakers, jobs,
                   releases, drops, node>>

(* Variant: <= for <. *)
PickFullInstance(r) ==
    IF inst = "gone" \/ (inst = "live" /\ in_flight <= Slots)
    THEN /\ in_flight' = in_flight + 1
         /\ inst' = IF inst = "gone" THEN "draining" ELSE inst
         /\ Goto(r, "acquired")
    ELSE Goto(r, "blocked") /\ UNCHANGED instance

(* try_get_or_spawn_resolved under the instances write lock: pick the      *)
(* instance if it has a free slot; spawn one if there is none, which the   *)
(* cookbook version check marks draining; otherwise MaxInstancesProfile.   *)
PickInstance(r) ==
    IF inst = "gone" \/ (inst = "live" /\ in_flight < Slots)
    THEN /\ in_flight' = in_flight + 1
         /\ inst' = IF inst = "gone" THEN "draining" ELSE inst
         /\ Goto(r, "acquired")
    ELSE Goto(r, "blocked") /\ UNCHANGED instance

TakeMapLock(r) ==
    /\ pc[r] = "lock"
    /\ map_lock = NoOne
    /\ ~removed
    /\ CASE token[r] ->
                PickInstance(r) /\ UNCHANGED map_lock
         [] ~token[r] /\ queue # << >> ->
                Goto(r, "yield") /\ UNCHANGED <<instance, map_lock>>
         [] OTHER ->
                Goto(r, "held") /\ map_lock' = r /\ UNCHANGED instance
    /\ UNCHANGED <<token, chan, waiting, wakers, jobs, releases, drops, node>>

SecondAdopt(r) ==
    /\ pc[r] = "lock"
    /\ FailRemoved(r)

(* The fairness recheck under the lock reads pending_tokens last. *)
UnderMapLock(r) ==
    /\ pc[r] = "held"
    /\ map_lock' = NoOne
    /\ IF pending # {}
       THEN Goto(r, "yield") /\ UNCHANGED instance
       ELSE PickInstance(r)
    /\ UNCHANGED <<token, chan, waiting, wakers, jobs, releases, drops, node>>

Blocked(r) ==
    /\ pc[r] = "blocked"
    /\ ReleaseToken(r)
    /\ Goto(r, "enqueue")
    /\ UNCHANGED <<chan, queue, instance, map_lock, wakers, jobs, releases,
                   drops, node>>

(* Variant: entries of requests that are still re-checking are pruned. *)
LiveSleepers(q) == Retain(q, {e \in Requests : pc[e] = "wait"})

(* Both enqueue blocks, each one critical section of the queues lock.  The *)
(* global limit counts entries before the closed ones are pruned.  Only a  *)
(* request blocked by a limit re-checks admission once it is queued.       *)
Live(q) == Retain(q, {e \in Requests : RxAlive(e)})

(* Variant: <= for <. *)
MayEnqueueOneMore ==
    /\ ~draining
    /\ limit.total = 0 \/ Len(queue) < limit.total
    /\ limit.queue = 0 \/ Len(Live(queue)) <= limit.queue

(* Variant: draining was only checked at the top of the loop. *)
MayEnqueueDraining ==
    /\ limit.total = 0 \/ Len(queue) < limit.total
    /\ limit.queue = 0 \/ Len(Live(queue)) < limit.queue

MayEnqueue ==
    /\ ~draining
    /\ limit.total = 0 \/ Len(queue) < limit.total
    /\ limit.queue = 0 \/ Len(Live(queue)) < limit.queue

Enqueue(r) ==
    /\ pc[r] \in {"yield", "enqueue"}
    /\ IF MayEnqueue
       THEN /\ queue' = Append(Live(queue), r)
            /\ chan' = [chan EXCEPT ![r] = "open"]
            /\ Goto(r, IF pc[r] = "yield" THEN "wait" ELSE "recheck")
       ELSE /\ queue' = IF ~draining /\ (limit.total = 0 \/ Len(queue) < limit.total)
                        THEN Live(queue) ELSE queue
            /\ Goto(r, "done")
            /\ UNCHANGED chan
    /\ UNCHANGED <<token, pending, instance, map_lock, wakers, jobs,
                   releases, drops, node>>

(* The wait on the oneshot channel. *)
ReceivePermit(r) ==
    /\ pc[r] = "wait" /\ chan[r] = "permit"
    /\ token' = [token EXCEPT ![r] = TRUE]
    /\ chan' = [chan EXCEPT ![r] = "idle"]
    /\ Goto(r, "top")
    /\ UNCHANGED <<waiting, instance, map_lock, wakers, jobs, releases,
                   drops, node>>

(* The deadline fires: the receiver is dropped, with a permit sent to it   *)
(* at the same moment; SenderGone is the QueueError path.                  *)
Expire(r) ==
    /\ pc[r] = "wait" /\ r \in Deadlines /\ chan[r] # "closed"
    /\ permit_drops' = IF chan[r] = "permit" THEN permit_drops \cup {r}
                                             ELSE permit_drops
    /\ chan' = [chan EXCEPT ![r] = "idle"]
    /\ Goto(r, "expired")
    /\ UNCHANGED <<token, waiting, instance, map_lock, wakers, jobs,
                   releases, entry_drops, node>>

SenderGone(r) ==
    /\ pc[r] = "wait" /\ chan[r] = "closed"
    /\ chan' = [chan EXCEPT ![r] = "idle"]
    /\ Goto(r, "expired")
    /\ UNCHANGED <<token, waiting, instance, map_lock, wakers, jobs,
                   releases, drops, node>>

(* remove_queue_entry, disarm, remove_pending_token. *)
RemoveOwnEntry(r) ==
    /\ pc[r] = "expired"
    /\ queue' = Without(queue, r)
    /\ pending' = pending \ {r}
    /\ Goto(r, "done")
    /\ UNCHANGED <<token, chan, instance, map_lock, wakers, jobs, releases,
                   drops, node>>

(* The slot is taken: release the token, detach the SlotReleaseGuard. *)
Acquired(r) ==
    /\ pc[r] = "acquired"
    /\ ReleaseToken(r)
    /\ Goto(r, "running")
    /\ UNCHANGED <<chan, queue, instance, map_lock, wakers, jobs, releases,
                   drops, node>>

(* The response ends, or its client goes away: the router's RequestGuard,  *)
(* AutoCleanup or CleanupStream spawns the release of the slot.            *)
Finish(r) ==
    /\ pc[r] = "running"
    /\ Goto(r, "done")
    /\ releases' = releases + 1
    /\ UNCHANGED <<token, chan, waiting, instance, map_lock, wakers, jobs,
                   drops, node>>

ReleaseSlot ==
    /\ releases > 0
    /\ releases' = releases - 1
    /\ in_flight' = in_flight - 1
    /\ Spawn(IF in_flight' = 0 THEN "all" ELSE "one")
    /\ UNCHANGED <<request, waiting, inst, map_lock, wakers, drops, node>>

-----------------------------------------------------------------------------
(* The client disconnects while the request acquires an instance: the      *)
(* future is dropped where it stands, with what it holds.                  *)

(* Variant: the permit in a dropped channel is forgotten. *)
DroppedHeldTokens(r) == {x \in {r} : token[x]}

DroppedTokens(r) ==
    {r : x \in {y \in {r} : token[y] \/ chan[y] = "permit"}}
        \cup {hand[r] : x \in {y \in {r} : stage[y] = "release"}}

(* Variant: the slot of a request that leaves before its router guard takes *)
(* it over is lost.                                                         *)
LostSlots(r) == 0

(* SlotReleaseGuard is armed from the moment the slot is taken. *)
DroppedSlots(r) == IF pc[r] = "acquired" THEN 1 ELSE 0

(* The popped entry of a wake that is dropped before its promote takes its *)
(* sender with it.                                                         *)
CloseChannels(r) ==
    chan' = [w \in Requests |->
                CASE w = r -> "idle"
                  [] w # r /\ stage[r] = "promote" /\ hand[r] = w /\ RxAlive(w) ->
                         "closed"
                  [] OTHER -> chan[w]]

Cancel(r) ==
    /\ r \in Clients
    /\ pc[r] \notin {"new", "running", "done"}
    /\ Goto(r, "done")
    /\ token' = [token EXCEPT ![r] = FALSE]
    /\ permit_drops' = permit_drops \cup DroppedTokens(r)
    /\ entry_drops' = IF RxAlive(r) \/ pc[r] = "expired"
                      THEN entry_drops \cup {r} ELSE entry_drops
    /\ releases' = releases + DroppedSlots(r)
    /\ map_lock' = IF map_lock = r THEN NoOne ELSE map_lock
    /\ CloseChannels(r)
    /\ EndWake(r)
    /\ hand' = [hand EXCEPT ![r] = NoOne]
    /\ UNCHANGED <<waiting, instance, jobs, node>>

(* The tasks spawned by the guards' Drop. *)
DropEntry(r) ==
    /\ r \in entry_drops
    /\ entry_drops' = entry_drops \ {r}
    /\ queue' = Without(queue, r)
    /\ UNCHANGED <<request, pending, instance, map_lock, wakers, jobs,
                   releases, permit_drops, node>>

DropPermit(r) ==
    /\ r \in permit_drops
    /\ permit_drops' = permit_drops \ {r}
    /\ pending' = pending \ {r}
    /\ UNCHANGED <<request, queue, instance, map_lock, wakers, jobs,
                   releases, entry_drops, node>>

-----------------------------------------------------------------------------
(* begin_shutdown_drain; reload_cookbook with the profile removed, which   *)
(* drains its instance; and the idle check that stops a drained instance.  *)

BeginShutdownDrain ==
    /\ MayShutDown /\ ~draining
    /\ draining' = TRUE
    /\ Spawn("all")
    /\ UNCHANGED <<request, waiting, instance, map_lock, wakers, releases,
                   drops, removed, limit>>

ReloadCookbook ==
    /\ MayReload /\ ~removed
    /\ map_lock = NoOne
    /\ removed' = TRUE
    /\ inst' = "draining"
    /\ Spawn("all")
    /\ UNCHANGED <<request, waiting, in_flight, map_lock, wakers, releases,
                   drops, draining, limit>>

RetireDrained ==
    /\ inst = "draining" /\ in_flight = 0 /\ map_lock = NoOne
    /\ inst' = "gone"
    /\ Spawn("all")
    /\ UNCHANGED <<request, waiting, in_flight, map_lock, wakers, releases,
                   drops, node>>

Quiet ==
    /\ \A c \in Callers : stage[c] = "idle"
    /\ jobs["one"] = 0 /\ jobs["all"] = 0 /\ releases = 0
    /\ entry_drops = {} /\ permit_drops = {}

(* Every request has been answered: nothing is left to do. *)
AllAnswered ==
    /\ \A r \in Requests : pc[r] = "done"
    /\ Quiet
    /\ UNCHANGED vars

Acquire(r) ==
    \/ Top(r) \/ FairnessPending(r) \/ WakeForSlots(r) \/ WakeReturns(r)
    \/ StillWaiters(r) \/ TakeMapLock(r) \/ SecondAdopt(r) \/ UnderMapLock(r)
    \/ Blocked(r) \/ Enqueue(r) \/ ReceivePermit(r) \/ SenderGone(r)
    \/ RemoveOwnEntry(r) \/ Acquired(r)

Notify(c) == Pop(c) \/ Promote(c) \/ ReleaseReturned(c)

Next ==
    \/ \E r \in Requests : Arrive(r) \/ Acquire(r) \/ Expire(r) \/ Finish(r)
    \/ \E r \in Requests : Cancel(r) \/ DropEntry(r) \/ DropPermit(r)
    \/ \E c \in Callers : Notify(c)
    \/ \E t \in Tasks : RunJob(t)
    \/ MaintenanceTick \/ ReleaseSlot
    \/ BeginShutdownDrain \/ ReloadCookbook \/ RetireDrained
    \/ AllAnswered

Spec == Init /\ [][Next]_vars

(* tokio polls every woken task, the maintenance loop ticks for ever, the  *)
(* idle check retires a drained instance, and a response ends.  Arrivals,  *)
(* deadlines, disconnects, shutdown and reloads may never happen.          *)
Fairness ==
    /\ \A r \in Requests :
          /\ WF_vars(Acquire(r) /\ pc[r] \notin {"lock", "nudge", "recheck"})
          /\ WF_vars(TakeMapLock(r) \/ SecondAdopt(r)) /\ WF_vars(WakeForSlots(r))
          /\ WF_vars(Finish(r))
          /\ WF_vars(DropEntry(r)) /\ WF_vars(DropPermit(r))
    /\ \A c \in Callers : WF_vars(Notify(c))
    /\ \A t \in Tasks : WF_vars(RunJob(t))
    /\ WF_vars(MaintenanceTick) /\ WF_vars(ReleaseSlot) /\ WF_vars(RetireDrained)

FairSpec == Spec /\ Fairness

-----------------------------------------------------------------------------
(* A request asleep on its channel can still be found: its entry is in the *)
(* queue or in the hands of a wake that will deliver it.  An entry lost by *)
(* the prune, the guards or the wake path would make                       *)
(* get_instance_for_model wait for ever.                                   *)
SleepersAreReachable ==
    \A r \in Requests :
        RxAlive(r) /\ chan[r] = "open" => r \in Queued \/ r \in InHand

(* Every token in pending_tokens has an owner that will release it: its    *)
(* request, its channel, a wake that got it back, or a scheduled cleanup.  *)
(* A token without an owner would make has_pending_waiters true for ever,  *)
(* and every later request of the profile would queue.                     *)
PendingTokensAreOwned ==
    \A r \in pending :
        \/ token[r] \/ chan[r] = "permit"
        \/ r \in permit_drops
        \/ \E c \in Callers : stage[c] = "release" /\ hand[c] = r

(* in_flight_requests counts exactly the requests that use a slot and the  *)
(* releases that are scheduled, and never exceeds the instance's slots:    *)
(* cancelling a request at any await neither leaks nor double-frees one.   *)
SlotsAreAccounted ==
    /\ in_flight =
          Cardinality({r \in Requests : pc[r] \in {"acquired", "running"}})
              + releases
    /\ in_flight <= Slots

(* Shutdown's wake reaches everyone: once draining is set and no           *)
(* notify_all_queues is outstanding, no request is left in the queue,      *)
(* because the draining check and the push share the queues lock.          *)
DrainEmptiesQueue ==
    /\ draining
    /\ jobs["all"] = 0
    /\ \A c \in Callers : stage[c] # "idle" => budget[c] # 0
    => queue = << >>

(* A request that starts to wait is answered, or served, whoever cancels,  *)
(* times out or finishes around it, as long as its profile exists.         *)
WaitersLeaveTheQueue ==
    \A r \in Requests : RxAlive(r) ~> (pc[r] \in {"running", "done"} \/ removed)

(* Shutdown is not held open by the queue: after draining begins the node  *)
(* becomes idle (no queued request, no slot in use).                       *)
DrainEndsIdle == draining ~> (queue = << >> /\ in_flight = 0)

\* Everything a request can hold (a queue place, a token, a slot) has one owner, also
\* between the drop of a guard and its clean-up task, and a drained queue is empty.
QueueIsConsistent ==
    TypeOK /\ PendingTokensAreOwned /\ SlotsAreAccounted /\ DrainEmptiesQueue

=============================================================================
