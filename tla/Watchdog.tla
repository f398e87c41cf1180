------------------------------ MODULE Watchdog ------------------------------
(***************************************************************************)
(* Local instances, the responses that stream from them, and the watchdog   *)
(* that stops a hung instance.  A request takes a slot of an instance,      *)
(* waits for it to be ready, and reads its response as fast as the client   *)
(* takes it.  The watchdog samples the activity of the instances that hold  *)
(* requests, and stops one that was idle for a whole window although        *)
(* requests wait for it.                                                   *)
(*                                                                         *)
(* Time is counted in samples of the watchdog.  What a process really does  *)
(* (its work since the last sample, how long it was quiet) is part of the   *)
(* state so that the watchdog's decisions can be compared with it.          *)
(*                                                                         *)
(* Sources: node_state/mod.rs (detect_and_kill_wedged_instances,            *)
(* kill_wedged_instance, shutdown_all_instances), wedge_detector.rs,        *)
(* memory_sampler.rs, instance.rs (wait_for_ready, mark_ready, stop),       *)
(* router.rs (RequestGuard, AutoCleanup, CleanupStream, DownstreamWait).    *)
(***************************************************************************)
EXTENDS TokenCounter, FiniteSets

CONSTANTS
    Instances, NoInst,
    Requests,
    Slots,          \* max_concurrent_requests of an instance
    Window,         \* wedge_detector.window_ms, in samples
    MaxFaults       \* bound on unreadable samples and crashes

ASSUME WatchdogAssumption ==
    /\ Slots \in Nat \ {0} /\ Window \in Nat \ {0} /\ MaxFaults \in Nat
    /\ NoInst \notin Instances

VARIABLES
    node,           \* an NVML GPU, none as the operator says, or perhaps an invisible one
    inst,           \* the instances
    req,            \* the requests
    dog,            \* the watchdog's current round
    per,            \* wedge_state.per_instance
    trusted,        \* wedge_state.gpu_util_trusted
    faults,         \* unreadable samples and crashes so far
    quiet           \* samples of a candidate without work before them

vars == <<node, inst, req, dog, per, trusted, faults, quiet>>
dogVars == <<dog, per, trusted, faults>>

NoEntry == [known |-> FALSE, since |-> -1]
Unseen == [i \in Instances |-> <<>>]
Condemned(S) == [pc |-> IF S = {} THEN "idle" ELSE "kill", seen |-> Unseen, doomed |-> S]

Init ==
    /\ node \in {"gpu", "cpu_only", "unknown"}
    /\ inst = [i \in Instances |->
                  [status |-> "starting", listed |-> TRUE, alive |-> TRUE, hung |-> FALSE,
                   flight |-> 0, awaiting |-> 0, stamped |-> FALSE, work |-> {}]]
    /\ req = [r \in Requests |->
                  [pc |-> "new", inst |-> NoInst, fresh |-> FALSE, cleanup |-> "held"]]
    /\ dog = Condemned({})
    /\ per = [i \in Instances |-> NoEntry]
    /\ trusted = FALSE
    /\ faults = 0
    /\ quiet = [i \in Instances |-> 0]

----------------------------------------------------------------------------
\* Loading: wait_for_ready polls until the process answers, exits or is late

LoadEnds(i, status) ==
    /\ inst' = [inst EXCEPT ![i].status = status]
    /\ UNCHANGED <<node, req, dogVars, quiet>>

MarkReady(i) ==
    /\ inst[i].status = "starting" /\ inst[i].alive /\ ~inst[i].hung
    /\ LoadEnds(i, "ready")

\* The process exited, or the startup timeout passed; the task that waits for
\* the instance then stops and removes it
MarkFailed(i) ==
    /\ inst[i].status = "starting"
    /\ inst' = [inst EXCEPT ![i].status = "failed", ![i].alive = FALSE, ![i].listed = FALSE]
    /\ UNCHANGED <<node, req, dogVars, quiet>>

----------------------------------------------------------------------------
\* Requests

\* last_activity only matters as compared with the snapshot of a round in progress
Later == dog.pc # "idle"

\* A slot is taken and the instance stamped
Join(r, i) ==
    /\ req[r].pc = "new"
    /\ inst[i].listed /\ inst[i].alive /\ inst[i].status # "failed" /\ inst[i].flight < Slots
    /\ inst' = [inst EXCEPT ![i].flight = @ + 1, ![i].stamped = Later]
    /\ req' = [req EXCEPT ![r].pc = "wait", ![r].inst = i, ![r].fresh = Later]
    /\ UNCHANGED <<node, dogVars, quiet>>

\* The instance became ready; the handler stamps it again and sends
Send(r) ==
    LET i == req[r].inst
    IN
    /\ req[r].pc = "wait" /\ inst[i].status = "ready"
    /\ inst' = [inst EXCEPT ![i].stamped = Later]
    /\ req' = [req EXCEPT ![r].pc = "sent"]
    /\ UNCHANGED <<node, dogVars, quiet>>

\* What ends a request spawns its cleanup: RequestGuard, AutoCleanup and CleanupStream
\* hold it one after the other, and whoever has it spawns it
Spawned(r) == [req[r] EXCEPT !.pc = "closed", !.cleanup = IF @ = "held" THEN "spawned" ELSE @]

\* A request that is over and cleaned up leaves nothing
Forget(q) ==
    IF q.pc = "closed" /\ q.cleanup = "ran"
    THEN [q EXCEPT !.pc = "done", !.inst = NoInst, !.fresh = FALSE] ELSE q

\* The load failed, or the client went away before the response began, or the
\* send or the read of the whole body failed
GiveUp(r) ==
    /\ req[r].pc \in {"wait", "sent"}
    /\ req' = [req EXCEPT ![r] = Forget(Spawned(r))]
    /\ UNCHANGED <<node, inst, dogVars, quiet>>

Answers(r) == inst[req[r].inst].alive /\ ~inst[req[r].inst].hung

\* The head of a response that streams: the stream takes the cleanup over
ResponseHead(r) ==
    /\ req[r].pc = "sent" /\ Answers(r)
    /\ req' = [req EXCEPT ![r].pc = "poll"]
    /\ UNCHANGED <<node, inst, dogVars, quiet>>

\* The handler reads a body that does not stream, and answers
ReadBody(r) ==
    /\ req[r].pc = "sent" /\ Answers(r)
    /\ req' = [req EXCEPT ![r] = Spawned(r)]
    /\ UNCHANGED <<node, inst, dogVars, quiet>>

\* A chunk arrives and is handed to the writer: the response waits for its client
HandedOff(r) ==
    /\ req[r].pc = "poll" /\ Answers(r)
    /\ req' = [req EXCEPT ![r].pc = "handed"]
    /\ inst' = [inst EXCEPT ![req[r].inst].awaiting = @ + 1]
    /\ UNCHANGED <<node, dogVars, quiet>>

\* Variant: the response is still counted as waiting for its client
PolledWaiting(r) ==
    /\ req[r].pc = "handed"
    /\ req' = [req EXCEPT ![r].pc = "poll"]
    /\ UNCHANGED <<node, inst, dogVars, quiet>>

\* The writer asks for the next chunk
Polled(r) ==
    /\ req[r].pc = "handed"
    /\ req' = [req EXCEPT ![r].pc = "poll"]
    /\ inst' = [inst EXCEPT ![req[r].inst].awaiting = @ - 1]
    /\ UNCHANGED <<node, dogVars, quiet>>

\* The body ends; the stream stays until its owner drops it
BodyEnds(r) ==
    /\ req[r].pc = "poll" /\ Answers(r)
    /\ req' = [req EXCEPT ![r].pc = "ended", ![r].cleanup = "spawned"]
    /\ UNCHANGED <<node, inst, dogVars, quiet>>

\* The process is gone, or the request's timeout passed: the body breaks off
BodyFails(r) ==
    /\ req[r].pc = "poll"
    /\ req' = [req EXCEPT ![r].pc = "failed"]
    /\ UNCHANGED <<node, inst, dogVars, quiet>>

\* Variant: a response that the client abandons stays counted as waiting for it
DropStreamWaiting(r) ==
    /\ req[r].pc \in {"poll", "handed", "ended", "failed"}
    /\ req' = [req EXCEPT ![r] = Forget(Spawned(r))]
    /\ UNCHANGED <<node, inst, dogVars, quiet>>

\* The stream is dropped, at its end or because the client went away
DropStream(r) ==
    /\ req[r].pc \in {"poll", "handed", "ended", "failed"}
    /\ req' = [req EXCEPT ![r] = Forget(Spawned(r))]
    /\ inst' = [inst EXCEPT ![req[r].inst].awaiting = IF req[r].pc = "handed" THEN @ - 1 ELSE @]
    /\ UNCHANGED <<node, dogVars, quiet>>

\* The cleanup task gives the slot back
Cleanup(r) ==
    /\ req[r].cleanup = "spawned"
    /\ req' = [req EXCEPT ![r] = Forget([@ EXCEPT !.cleanup = "ran"])]
    /\ inst' = [inst EXCEPT ![req[r].inst].flight = IF @ = 0 THEN 0 ELSE @ - 1]
    /\ UNCHANGED <<node, dogVars, quiet>>

----------------------------------------------------------------------------
\* Processes

\* Kinds of work a process can do: no GPU works where the operator said so
Kinds == IF node = "cpu_only" THEN {"cpu"} ELSE {"cpu", "gpu"}

Work(i, kind) ==
    /\ inst[i].alive /\ ~inst[i].hung /\ inst[i].status = "ready" /\ inst[i].flight > 0
    /\ kind \in Kinds \ inst[i].work
    /\ inst' = [inst EXCEPT ![i].work = @ \cup {kind}]
    /\ quiet' = [quiet EXCEPT ![i] = 0]
    /\ UNCHANGED <<node, req, dogVars>>

Hang(i) ==
    /\ inst[i].alive /\ ~inst[i].hung
    /\ inst' = [inst EXCEPT ![i].hung = TRUE]
    /\ UNCHANGED <<node, req, dogVars, quiet>>

Crash(i) ==
    /\ inst[i].alive /\ inst[i].listed /\ faults < MaxFaults
    /\ inst' = [inst EXCEPT ![i].alive = FALSE, ![i].work = {}]
    /\ faults' = faults + 1
    /\ UNCHANGED <<node, req, dog, per, trusted, quiet>>

\* check_idle_instances: what is idle for long and what has crashed
Evict(i) ==
    /\ inst[i].listed /\ (inst[i].flight = 0 \/ ~inst[i].alive)
    /\ inst' = [inst EXCEPT ![i].listed = FALSE]
    /\ UNCHANGED <<node, req, dogVars, quiet>>

\* shutdown_all_instances, when the grace period is over
ShutDown ==
    /\ \E i \in Instances : inst[i].listed
    /\ inst' = [i \in Instances |-> [inst[i] EXCEPT !.listed = FALSE]]
    /\ UNCHANGED <<node, req, dogVars, quiet>>

\* stop: SIGTERM, and SIGKILL after ten seconds; a hung process ends as well
Stop(i) ==
    /\ ~inst[i].listed /\ inst[i].alive
    /\ inst' = [inst EXCEPT ![i].alive = FALSE, ![i].work = {}]
    /\ UNCHANGED <<node, req, dogVars, quiet>>

----------------------------------------------------------------------------
\* The watchdog

\* The instances that hold requests, with what the kill has to find again
Snapshot ==
    /\ dog.pc = "idle"
    /\ dog' = [dog EXCEPT !.pc = "sample",
                          !.seen = [i \in Instances |->
                              IF /\ inst[i].listed /\ inst[i].flight > 0
                                 /\ inst[i].status = "ready" /\ inst[i].alive
                              THEN <<inst[i].flight, inst[i].awaiting>> ELSE <<>>]]
    /\ UNCHANGED <<node, inst, req, per, trusted, faults, quiet>>

\* The next round compares with a snapshot of its own
RoundOf(d) == [r \in Requests |-> [req[r] EXCEPT !.fresh = @ /\ d.pc = "kill"]]

Candidates == {i \in Instances : dog.seen[i] # <<>>}

\* sample_cpu_busy_ticks against the previous sample, none on the first
CpuReading(i, readable) ==
    IF ~per[i].known \/ ~readable \/ ~inst[i].alive THEN "none"
    ELSE IF "cpu" \in inst[i].work THEN "busy" ELSE "idle"

\* sample_process_gpu_sm_util reports the processes that were busy; a low
\* reading is possible for the others.  When the sweep is not usable some device
\* did not answer, perhaps the one that was busy.
GpuReadings(i, usable) ==
    CASE node # "gpu" -> {"none"}
      [] node = "gpu" /\ "gpu" \notin inst[i].work -> {"low", "none"}
      [] OTHER -> IF usable THEN {"busy"} ELSE {"busy", "low", "none"}

\* Variant: the readings of a degraded sweep count
EvaluateDegraded(seen, cpu, gpu, usable, latch) ==
    /\ seen[1] > seen[2]
    /\ cpu = "idle"
    /\ CASE gpu = "low" -> TRUE
         [] gpu = "busy" -> FALSE
         [] gpu = "none" -> IF node = "gpu" THEN latch ELSE node = "cpu_only"

\* Variant: one response that waits for its client speaks for all requests
EvaluateAnyWait(seen, cpu, gpu, usable, latch) ==
    /\ seen[1] > 0 /\ seen[2] = 0
    /\ cpu = "idle"
    /\ IF usable /\ gpu # "none" THEN gpu = "low"
       ELSE IF node = "gpu" THEN latch /\ usable
       ELSE node = "cpu_only"

\* evaluate_wedge: nothing moves although a request waits for the instance.
\* The readings of a degraded sweep are ignored, and then so is their absence.
EvaluateWedge(seen, cpu, gpu, usable, latch) ==
    /\ seen[1] > seen[2]
    /\ cpu = "idle"
    /\ IF usable /\ gpu # "none" THEN gpu = "low"
       ELSE IF node = "gpu" THEN latch /\ usable
       ELSE node = "cpu_only"

\* Variant: activity does not end the wait for the window
NextEntrySticky(i, wedged) ==
    IF i \notin Candidates THEN NoEntry
    ELSE [known |-> TRUE, since |-> IF per[i].since >= 0 THEN per[i].since + 1
                                    ELSE IF wedged THEN 0 ELSE -1]

\* The entry of i after a sample: how long it has looked wedged without a break
NextEntry(i, wedged) ==
    IF i \notin Candidates THEN NoEntry
    ELSE [known |-> TRUE, since |-> IF wedged THEN per[i].since + 1 ELSE -1]

\* One round of samples, and the decision about every instance.  The readable
\* CPU counter is the baseline of the next round.
Sample ==
    /\ dog.pc = "sample"
    /\ \E usable \in BOOLEAN, readable \in [Candidates -> BOOLEAN],
          gpu \in [Instances -> {"busy", "low", "none"}] :
          /\ \A i \in Instances : gpu[i] \in GpuReadings(i, usable)
          /\ usable => node = "gpu"
          /\ LET bad == (node = "gpu" /\ ~usable) \/ \E i \in Candidates : ~readable[i]
                 latch == trusted \/ \E i \in Instances : gpu[i] = "busy"
                 wedged(i) == EvaluateWedge(dog.seen[i], CpuReading(i, readable[i]), gpu[i],
                                            usable, latch)
                 next == [i \in Instances |-> NextEntry(i, i \in Candidates /\ wedged(i))]
             IN
             /\ faults' = IF bad THEN faults + 1 ELSE faults
             /\ faults' <= MaxFaults
             /\ trusted' = latch
             /\ per' = [i \in Instances |-> [next[i] EXCEPT !.since = IF @ > Window THEN Window ELSE @]]
             /\ dog' = Condemned({i \in Candidates : next[i].since >= Window})
             \* a counter first read as unreadable starts from zero: all that was
             \* ever done counts in the next round
             /\ inst' = [i \in Instances |->
                    [inst[i] EXCEPT !.work = IF i \notin Candidates \/ readable[i] THEN {}
                                             ELSE IF per[i].known THEN @ \ {"gpu"} ELSE {"cpu"},
                                    !.stamped = @ /\ dog'.pc = "kill"]]
             /\ req' = RoundOf(dog')
    /\ quiet' = [i \in Instances |-> IF i \notin Candidates THEN 0
                                    ELSE IF quiet[i] > Window THEN quiet[i] ELSE quiet[i] + 1]
    /\ UNCHANGED node

\* Variant: only the process and its slots are verified
StillWedgedCount(i) ==
    /\ inst[i].listed /\ inst[i].alive
    /\ inst[i].flight > inst[i].awaiting

\* kill_wedged_instance verifies under the write lock
StillWedged(i) ==
    /\ inst[i].listed /\ inst[i].alive
    /\ inst[i].flight > inst[i].awaiting
    /\ ~inst[i].stamped

Kill(i) ==
    /\ dog.pc = "kill" /\ i \in dog.doomed
    /\ dog' = Condemned(dog.doomed \ {i})
    /\ inst' = [j \in Instances |->
                   [inst[j] EXCEPT !.listed = @ /\ ~(j = i /\ StillWedged(i)),
                                   !.stamped = @ /\ dog'.pc = "kill"]]
    /\ req' = RoundOf(dog')
    /\ UNCHANGED <<node, per, trusted, faults, quiet>>

----------------------------------------------------------------------------
Handle(r) ==
    \/ Send(r) \/ GiveUp(r) \/ ResponseHead(r) \/ ReadBody(r) \/ HandedOff(r) \/ BodyEnds(r)
    \/ BodyFails(r) \/ Cleanup(r)

Client(r) == Polled(r) \/ DropStream(r) \/ \E i \in Instances : Join(r, i)

Process(i) ==
    MarkReady(i) \/ MarkFailed(i) \/ Hang(i) \/ Crash(i) \/ Evict(i) \/ \E k \in {"cpu", "gpu"} : Work(i, k)

Watch == Snapshot \/ Sample \/ \E i \in Instances : Kill(i)

Next ==
    \/ \E r \in Requests : Handle(r) \/ Client(r)
    \/ \E i \in Instances : Process(i) \/ Stop(i)
    \/ ShutDown
    \/ Watch

Spec == Init /\ [][Next]_vars

\* The watchdog's ticker runs, a stopped process ends, reads from a dead process
\* fail, a failed stream is dropped by its owner, and spawned tasks run
Fairness ==
    /\ WF_vars(Watch)
    /\ \A i \in Instances : WF_vars(Stop(i))
    /\ \A r \in Requests : /\ WF_vars(Cleanup(r))
                           /\ WF_vars(BodyFails(r) /\ ~inst[req[r].inst].alive)
                           /\ WF_vars(DropStream(r) /\ req[r].pc \in {"ended", "failed"})
                           /\ WF_vars(GiveUp(r) /\ ~inst[req[r].inst].alive)

FairSpec == Spec /\ Fairness

----------------------------------------------------------------------------
\* Properties

\* The shape of the state
TypeOK ==
    /\ \A i \in Instances :
          /\ inst[i].status \in {"starting", "ready", "failed"}
          /\ inst[i].flight \in 0..Slots /\ inst[i].awaiting \in 0..Slots
          /\ inst[i].work \subseteq {"cpu", "gpu"}
          /\ per[i].since \in -1..Window
    /\ \A r \in Requests :
          /\ req[r].pc \in {"new", "wait", "sent", "poll", "handed", "ended", "failed", "closed",
                          "done"}
          /\ req[r].cleanup \in {"held", "spawned", "ran"}
    /\ dog.pc \in {"idle", "sample", "kill"} /\ dog.doomed \subseteq Instances
    /\ faults \in 0..MaxFaults

\* Whatever ends a request, its slot is given back once and its stream leaves the
\* count of those that wait for their client
\* (RequestGuard, AutoCleanup, CleanupStream and DownstreamWait)
SlotsAndWaitsAreCounted ==
    TypeOK /\ \A i \in Instances :
          /\ inst[i].flight = Cardinality({r \in Requests : req[r].inst = i /\ req[r].cleanup # "ran"})
          /\ inst[i].awaiting = Cardinality({r \in Requests : req[r].inst = i /\ req[r].pc = "handed"})

\* The watchdog stops an instance only after it did no work, on the CPU or on a GPU,
\* from the sample before the first of a whole window of samples to the last: no
\* missing, degraded or invisible reading is mistaken for idleness
\* (evaluate_wedge and the window of detect_and_kill_wedged_instances)
OnlyIdleInstancesAreDoomed ==
    \A i \in Instances : i \in dog'.doomed /\ i \notin dog.doomed => quiet[i] > Window

\* When an instance is stopped some request still waits for it, and no request has
\* joined it since the sample that condemned it (kill_wedged_instance)
FreshWorkIsSpared ==
    \A i \in dog.doomed \ dog'.doomed : inst[i].listed /\ ~inst'[i].listed =>
          /\ \E r \in Requests : /\ req[r].inst = i /\ req[r].cleanup # "ran"
                                 /\ req[r].pc # "handed"
          /\ \A r \in Requests : req[r].inst = i => ~req[r].fresh

\* A request on a hung instance does not keep its slot for ever, where the watchdog
\* can see that the instance hangs
HungInstanceLosesItsRequests ==
    \A r \in Requests, i \in Instances :
        /\ req[r].inst = i /\ req[r].pc \in {"sent", "poll"} /\ inst[i].hung
        /\ IF node = "gpu" THEN trusted ELSE node = "cpu_only"
        ~> req[r].cleanup = "ran"

\* A response that was streamed to its end is counted right wherever the network cut
\* it: every body it may have had gives the tokens of its complete lines, unless a
\* line was longer than the buffer (poll_upstream)
ChunkingIsInvisible == (\E r \in Requests : req[r].pc = "ended") => CountsAreExact

\* A kill is justified when it is decided and still when it is carried out.
KillsAreJustified == [][OnlyIdleInstancesAreDoomed /\ FreshWorkIsSpared]_vars

=============================================================================
