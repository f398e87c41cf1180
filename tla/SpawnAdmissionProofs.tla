------------------------ MODULE SpawnAdmissionProofs ------------------------
(***************************************************************************)
(* Proofs about SpawnAdmission, for any number of spawners, instances,      *)
(* profiles and ports and any limits: what is admitted fits, every port,    *)
(* process and slot has one owner, an eviction is needed when it is         *)
(* carried out and takes no instance that is in use.                        *)
(*                                                                         *)
(* None of these is inductive.  The strengthening says where the id of a    *)
(* spawn can be at each step of its attempt (Attempts), that a process and  *)
(* a reserved place have a commitment (Committed), who owns a port          *)
(* (Leases), that the slots of an instance are counted as long as somebody  *)
(* may return one (Slots), and what stays true of an eviction plan between  *)
(* the two moments at which the planner has the map lock (Plans).           *)
(***************************************************************************)
EXTENDS SpawnAdmission, TLAPS

\* Between the reservation and the end of the attempt; while it has the place
\* it reserved; while it has no process; while it leases a port.
Spawning  == {"port", "exec", "insert", "stopping"}
Reserving == {"port", "exec", "insert"}
Unstarted == {"port", "exec"}
Leasing   == {"exec", "insert"}
Using     == {"load", "serve"}

\* A spawner names an id exactly while it spawns it or has a slot of it.  An id that
\* is being spawned is named by nobody else, is in no map and no retirement, and has
\* no slot but the spawner's own.
Attempts ==
    /\ \A s \in Spawners : target[s] # NoOne <=> pc[s] \in Spawning \cup Using
    /\ \A s \in Spawners : pc[s] \in Spawning =>
          /\ target[s] \notin map \cup Retiring
          /\ \A t \in Spawners : target[t] = target[s] => t = s
          /\ leaving[target[s]] = 0
    /\ \A s \in Spawners : pc[s] \in Reserving =>
          /\ target[s] \in pending
          /\ in_flight[target[s]] = IF s \in Prewarms THEN 0 ELSE 1
          /\ proc[target[s]] # "dying"
    /\ \A s \in Spawners : pc[s] \in Unstarted => proc[target[s]] = "none"

\* Reserved places and processes, the exited ones included, have a commitment, and a
\* reserved place is not in the map yet.
Committed ==
    /\ pending \subseteq reg /\ pending \cap map = {}
    /\ \A i \in Ids : proc[i] # "none" => i \in reg

\* A port belongs to a mapped instance or to an attempt that leased it.
Leases ==
    /\ PortsAreOwned
    /\ \A s \in Spawners : pc[s] \in Leasing => port[target[s]] # NoOne
    /\ \A i \in Ids : port[i] # NoOne =>
          i \in map \/ \E s \in Spawners : pc[s] \in Leasing /\ target[s] = i

\* The slots of an instance are counted until the last one is returned, in the map or
\* not, and nobody is served by an instance that still loads.
Slots ==
    /\ \A i \in Ids : i \in map \/ Holders(i) # {} \/ leaving[i] > 0 =>
          in_flight[i] = Cardinality(Holders(i)) + leaving[i]
    /\ \A s \in Spawners : pc[s] = "serve" => status[target[s]] # "starting"

\* What is committed fits.
Limited == AdmissionWithinLimits /\ MemoryOf(reg) <= MaxMem

Needed(s) ==
    \/ \E e \in External : MemoryOf(reg) + e + Cost[ProfileOf[s]] > MaxMem
    \/ Cardinality(map) + Cardinality(pending) >= MaxNode

\* One spawner at a time has a plan.  Its victims stay idle, and as long as the
\* revision is the plan's the spawn does not fit without them.
Plans ==
    \A s \in Spawners : pc[s] = "commit" =>
        /\ \A t \in Spawners : pc[t] = "commit" => t = s
        /\ \A i \in victims[s] : i \in map /\ in_flight[i] = 0
        /\ plan_current => Needed(s)

IInv == TypeOK /\ Attempts /\ Committed /\ Leases /\ Slots /\ Limited /\ Plans

\* Zenon proves what follows by instantiation and rewriting; the leaves about numbers,
\* function updates and larger case splits name SMT.
USE Zenon

-----------------------------------------------------------------------------
\* One action at a time

\* Whoever is about to return a slot has one that is counted.
Counted ==
    /\ \A s \in Spawners : pc[s] \in Using => in_flight[target[s]] > 0
    /\ \A i \in Ids : leaving[i] > 0 => in_flight[i] > 0

\* A spawner that spawns or uses an instance has its id.
LEMMA NamedIds ==
    ASSUME TypeOK, Attempts
    PROVE  \A s \in Spawners : pc[s] \in Spawning \cup Using => target[s] \in Ids
  BY SpawnersAssumption, SMT DEF TypeOK, Attempts

\* A SlotReleaseGuard that runs finds a slot to return.
LEMMA SlotReleased ==
    ASSUME TypeOK, Counted, NEW i \in Ids, ReleaseSlot(i)
    PROVE  in_flight' \in [Ids -> Nat] /\ leaving' \in [Ids -> Nat]
  <1>1. leaving[i] > 0
    BY DEF ReleaseSlot
  <1>2. in_flight[i] > 0
    BY <1>1 DEF Counted
  <1>3. leaving[i] \in Nat /\ in_flight[i] \in Nat
    BY DEF TypeOK
  <1>4. leaving[i] - 1 \in Nat /\ in_flight[i] - 1 \in Nat
    BY <1>1, <1>2, <1>3, SMT
  <1>5. /\ leaving' = [leaving EXCEPT ![i] = @ - 1]
        /\ in_flight' = [in_flight EXCEPT ![i] = @ - 1]
    BY DEF ReleaseSlot
  <1> QED BY <1>4, <1>5 DEF TypeOK

\* Each action keeps the types.
LEMMA TypeStep ==
    ASSUME IInv, Counted, [Next]_vars
    PROVE  TypeOK'
  <1>n. /\ TypeOK
        /\ \A s \in Spawners : pc[s] \in Spawning \cup Using => target[s] \in Ids
    BY NamedIds DEF IInv
  <1> USE <1>n, SpawnersAssumption
  <1>1. \A s \in Spawners : Resolve(s) => TypeOK'
    BY LimitsAssumption, SMT
       DEF Resolve, Goto, instanceVars, registryVars, portVars, wakeVars, TypeOK
  <1>2. \A s \in Spawners : Prune(s) => TypeOK'
    BY SMT
       DEF Prune, AtLock, Goto, Retire, CollectExits, FinishReservations, Announce, Dead,
           TypeOK
  <1>3. \A s \in Spawners : Join(s) => TypeOK'
    BY SMT
       DEF Join, AtLock, Joinable, Goto, DropWake, Announce, KeepRegistry, registryVars,
           portVars, TypeOK
  <1>4. \A s \in Spawners : Refuse(s) => TypeOK'
    BY SMT
       DEF Refuse, AtPlan, AtLock, Goto, DropWake, Announce, instanceVars, registryVars,
           portVars, TypeOK
  <1>5. ASSUME NEW s \in Spawners, Reserve(s) PROVE TypeOK'
    <2>1. PICK i \in Ids :
            /\ target' = [target EXCEPT ![s] = i]
            /\ reg' = reg \cup {i} /\ pending' = pending \cup {i}
            /\ prof' = [prof EXCEPT ![i] = ProfileOf[s]]
            /\ status' = [status EXCEPT ![i] = "starting"]
            /\ draining' = [draining EXCEPT ![i] = "no"]
            /\ in_flight' = [in_flight EXCEPT ![i] = IF s \in Prewarms THEN 0 ELSE 1]
      BY <1>5 DEF Reserve
    <2>2. plan_current' = FALSE
      BY <1>5 DEF Reserve
    <2>3. /\ pc' = [pc EXCEPT ![s] = "port"] /\ attempt' = [attempt EXCEPT ![s] = 1]
          /\ UNCHANGED <<limit, victims, holds, max_instances, map, proc, leaving, port,
                         used, dropping, batches, external, owed, waking>>
      BY <1>5 DEF Reserve, Goto, portVars, wakeVars
    <2>4. /\ target' \in [Spawners -> Ids \cup {NoOne}] /\ reg' \subseteq Ids
          /\ pending' \subseteq Ids /\ prof' \in [Ids -> Profiles]
      BY <2>1 DEF TypeOK
    <2>5. /\ status' \in [Ids -> {"starting", "ready", "failed"}]
          /\ draining' \in [Ids -> {"no", "competitor", "forced"}]
          /\ in_flight' \in [Ids -> Nat]
      BY <2>1 DEF TypeOK
    <2>6. attempt' \in [Spawners -> 0 .. MaxAttempts]
      BY <2>3, LimitsAssumption, SMT DEF TypeOK
    <2> QED BY <2>2, <2>3, <2>4, <2>5, <2>6 DEF TypeOK
  <1>6. \A s \in Spawners : Plan(s) => TypeOK'
    BY SMT
       DEF Plan, AtPlan, AtLock, Victims, Idle, Goto, instanceVars, portVars, wakeVars,
           TypeOK
  <1>7. \A s \in Spawners : Evict(s) => TypeOK'
    BY SMT DEF Evict, Goto, Retire, Announce, registryVars, TypeOK
  <1>8. \A s \in Spawners : Replan(s) => TypeOK'
    BY SMT DEF Replan, Goto, instanceVars, registryVars, portVars, wakeVars, TypeOK
  <1>9. \A s \in Spawners : LeasePort(s) => TypeOK'
    BY SMT DEF LeasePort, Goto, registryVars, wakeVars, TypeOK, Spawning, Using
  <1>10. \A s \in Spawners : NoPort(s) => TypeOK'
    BY SMT
       DEF NoPort, Abandon, Goto, FinishReservations, DropWake, Announce, instanceVars,
           portVars, TypeOK, Spawning, Using
  <1>11. \A s \in Spawners : Resample(s) => TypeOK'
    BY SMT
       DEF Resample, ReturnPort, Abandon, Goto, FinishReservations, DropWake, Announce,
           TypeOK, Spawning, Using
  <1>12. ASSUME NEW s \in Spawners, Exec(s) PROVE TypeOK'
    BY <1>12 DEF Exec, Goto, portVars, wakeVars, TypeOK, Spawning, Using
  <1>13. ASSUME NEW s \in Spawners, ExecFails(s) PROVE TypeOK'
    <2>1. target[s] \in Ids
      BY <1>13 DEF ExecFails, Spawning
    <2>2. CASE MayRetry(s)
      BY <1>13, <2>1, <2>2, LimitsAssumption, SMT
         DEF ExecFails, MayRetry, ReturnPort, Goto, registryVars, wakeVars, TypeOK
    <2>3. CASE ~MayRetry(s)
      BY <1>13, <2>1, <2>3
         DEF ExecFails, ReturnPort, Abandon, Goto, FinishReservations, DropWake, Announce,
             TypeOK
    <2> QED BY <2>2, <2>3
  <1>14. ASSUME NEW s \in Spawners, Insert(s) PROVE TypeOK'
    <2>1. PICK d \in {"no", "forced"} : draining' = [draining EXCEPT ![target[s]] = d]
      BY <1>14 DEF Insert
    <2>2. target[s] \in Ids
      BY <1>14 DEF Insert, Spawning
    <2>3. draining' \in [Ids -> {"no", "competitor", "forced"}]
      BY <2>1 DEF TypeOK
    <2>4. pc' \in [Spawners -> {"new", "lock", "commit", "retire", "refused", "port",
    "exec",
                            "insert", "stopping", "load", "serve", "recover", "drain",
                            "done"}]
          /\ target' \in [Spawners -> Ids \cup {NoOne}]
      BY <1>14, SMT DEF Insert, Goto, TypeOK
    <2> QED BY <1>14, <2>2, <2>3, <2>4
               DEF Insert, Goto, DropWake, Announce, portVars, TypeOK
  <1>15. \A s \in Spawners : InsertFails(s) => TypeOK'
    BY SMT
       DEF InsertFails, ReturnPort, Goto, registryVars, wakeVars, TypeOK, Spawning, Using
  <1>16. \A s \in Spawners : Stopped(s) => TypeOK'
    BY SMT
       DEF Stopped, Goto, DropWake, Announce, instanceVars, registryVars, portVars,
           TypeOK, Spawning, Using
  <1>17. \A s \in Spawners : Loaded(s) => TypeOK'
    BY SMT
       DEF Loaded, Goto, instanceVars, registryVars, portVars, wakeVars, TypeOK, Spawning,
           Using
  <1>18. ASSUME NEW s \in Spawners, Serve(s) PROVE TypeOK'
    <2>1. in_flight' \in [Ids -> Nat]
      BY <1>18, SMT DEF Counted, Serve, TypeOK, Using
    <2> QED BY <1>18, <2>1 DEF Serve, Goto, registryVars, portVars, wakeVars, TypeOK
  <1>19. \A s \in Spawners : LoadFailed(s) => TypeOK'
    BY SMT
       DEF LoadFailed, DropSlot, Goto, registryVars, portVars, wakeVars, TypeOK, Spawning,
           Using
  <1>20. \A s \in Spawners : EvictAllIdle(s) => TypeOK'
    BY SMT
       DEF EvictAllIdle, RecoverIdle, Idle, Goto, Retire, Announce, registryVars, TypeOK
  <1>21. \A s \in Spawners : DrainAll(s) => TypeOK'
    BY SMT DEF DrainAll, Goto, registryVars, portVars, wakeVars, TypeOK
  <1>22. \A s \in Spawners : EvictDrained(s) => TypeOK'
    BY SMT DEF EvictDrained, Goto, Retire, Announce, registryVars, TypeOK
  <1>23. \A s \in Spawners : Retry(s) => TypeOK'
    BY SMT DEF Retry, Goto, instanceVars, registryVars, portVars, wakeVars, TypeOK
  <1>24. \A s \in Spawners : Cancel(s) => TypeOK'
    BY SMT
       DEF Cancel, DropSlot, Goto, DropWake, Announce, registryVars, portVars, TypeOK,
           Spawning, Using
  <1>25. \A s \in Spawners : CancelSpawn(s) => TypeOK'
    BY SMT
       DEF CancelSpawn, EndsWithCaller, FinishReservations, Goto, DropWake, Announce,
           TypeOK, Spawning, Using
  <1>26. ASSUME NEW i \in Ids, ReleaseSlot(i) PROVE TypeOK'
    <2>1. in_flight' \in [Ids -> Nat] /\ leaving' \in [Ids -> Nat]
      BY <1>26, SlotReleased
    <2> QED BY <1>26, <2>1
               DEF ReleaseSlot, spawnerVars, registryVars, portVars, wakeVars, TypeOK
  <1>27. \A i \in Ids : Stop(i) => TypeOK'
    BY SMT DEF Stop, spawnerVars, registryVars, portVars, wakeVars, TypeOK
  <1>28. \A i \in Ids : Reap(i) => TypeOK'
    BY SMT DEF Reap, FinishReservations, Announce, spawnerVars, portVars, TypeOK
  <1>29. \A i \in Ids : NoticeExit(i) => TypeOK'
    BY SMT
       DEF NoticeExit, CollectExits, FinishReservations, Announce, spawnerVars, portVars,
           TypeOK
  <1>30. \A i \in Ids : BecomeReady(i) => TypeOK'
    BY SMT DEF BecomeReady, Announce, spawnerVars, portVars, TypeOK
  <1>31. \A i \in Ids : StartupFails(i) => TypeOK'
    BY SMT DEF StartupFails, spawnerVars, registryVars, portVars, wakeVars, TypeOK
  <1>32. \A i \in Ids : Crash(i) => TypeOK'
    BY SMT DEF Crash, spawnerVars, registryVars, portVars, wakeVars, TypeOK
  <1>33. \A i \in Ids : SetDraining(i) => TypeOK'
    BY SMT DEF SetDraining, spawnerVars, registryVars, portVars, wakeVars, TypeOK
  <1>34. ASSUME NEW b \in batches, RetireDone(b) PROVE TypeOK'
    BY <1>34, ZenonT(30)
       DEF RetireDone, CallerWaits, CallerKeepsWake, Goto, Announce, instanceVars,
           registryVars, portVars, TypeOK
  <1>35. \A p \in Ports : DropPort(p) => TypeOK'
    BY DEF DropPort, spawnerVars, instanceVars, registryVars, wakeVars, TypeOK
  <1>36. Sweep => TypeOK'
    BY SMT
       DEF Sweep, Dead, Idle, Retire, CollectExits, FinishReservations, Announce,
           spawnerVars, TypeOK
  <1>37. WakeQueues => TypeOK'
    BY DEF WakeQueues, spawnerVars, instanceVars, registryVars, portVars, TypeOK
  <1>38. ReloadLimit => TypeOK'
    BY LimitsAssumption
       DEF ReloadLimit, spawnerVars, instanceVars, registryVars, portVars, wakeVars,
           TypeOK
  <1>39. OtherProgram => TypeOK'
    BY LimitsAssumption
       DEF OtherProgram, spawnerVars, instanceVars, registryVars, portVars, wakeVars,
           TypeOK
  <1>40. UNCHANGED vars => TypeOK'
    BY DEF vars, spawnerVars, instanceVars, registryVars, portVars, wakeVars, TypeOK
  <1> QED BY <1>1, <1>2, <1>3, <1>4, <1>5, <1>6, <1>7, <1>8, <1>9, <1>10, <1>11, <1>12,
             <1>13, <1>14, <1>15, <1>16, <1>17, <1>18, <1>19, <1>20, <1>21, <1>22, <1>23,
             <1>24, <1>25, <1>26, <1>27, <1>28, <1>29, <1>30, <1>31, <1>32, <1>33, <1>34,
             <1>35, <1>36, <1>37, <1>38, <1>39, <1>40
             DEF Next, Admit, SpawnProcess, Use, Process, Quiet

\* Only FreeId names a new target, and only the map is retired from.
LEMMA AttemptsStep ==
    ASSUME IInv, [Next]_vars
    PROVE  Attempts'
  <1>n. /\ TypeOK /\ Attempts /\ Committed /\ Plans
        /\ \A s \in Spawners : pc[s] \in Spawning \cup Using => target[s] \in Ids
    BY NamedIds DEF IInv
  <1> USE <1>n, SpawnersAssumption
  <1> DEFINE Elsewhere == {"new", "lock", "commit", "retire", "refused", "recover", "drain"}
             Away(s) == /\ \E l \in Elsewhere : pc' = [pc EXCEPT ![s] = l]
                        /\ pc[s] \in Elsewhere
             Keeps == UNCHANGED <<target, leaving, pending, in_flight, proc>>
             Retires == \/ UNCHANGED <<map, batches>>
                        \/ \E V, k, r : V \subseteq map /\ Retire(V, k, r)
  \* Most actions neither begin nor end an attempt, and may retire instances.
  <1>1. \A s \in Spawners : (Resolve(s) \/ Refuse(s) \/ Plan(s) \/ Replan(s)
                             \/ DrainAll(s) \/ Retry(s)) =>
            Away(s) /\ Keeps /\ Retires
    BY DEF Resolve, Refuse, Plan, Replan, DrainAll, Retry, Goto, AtPlan, AtLock,
           instanceVars, registryVars, Spawning, Using
  <1>2. \A s \in Spawners : (Evict(s) \/ EvictAllIdle(s) \/ EvictDrained(s)) =>
            Away(s) /\ Keeps /\ Retires
    BY DEF Evict, EvictAllIdle, EvictDrained, RecoverIdle, Idle, Plans, Goto,
           registryVars, Spawning, Using
  <1>3. \A i \in Ids : (BecomeReady(i) \/ SetDraining(i)) => UNCHANGED pc /\ Keeps /\ Retires
    BY DEF BecomeReady, SetDraining, spawnerVars, registryVars
  <1>4. ((\E p \in Ports : DropPort(p)) \/ WakeQueues \/ ReloadLimit
         \/ OtherProgram \/ UNCHANGED vars) =>
            UNCHANGED pc /\ Keeps /\ Retires
    BY DEF DropPort, WakeQueues, ReloadLimit, OtherProgram, spawnerVars, instanceVars,
           registryVars, vars
  <1>5. Retires => (map \cup Retiring)' \subseteq map \cup Retiring
    BY SMT DEF Retiring, Retire
  <1>6. ASSUME NEW s \in Spawners, Away(s), Keeps, Retires PROVE Attempts'
    <2>1. /\ \A t \in Spawners : pc'[t] \in Spawning \cup Using <=> pc[t] \in Spawning \cup Using
          /\ \A t \in Spawners : pc'[t] \in Spawning => pc'[t] = pc[t]
      BY <1>6 DEF TypeOK, Spawning, Using
    <2> QED BY <1>5, <1>6, <2>1 DEF Attempts, Spawning, Reserving, Unstarted
  <1>7. UNCHANGED pc /\ Keeps /\ Retires => Attempts'
    BY <1>5 DEF Attempts
  <1>8. \A s \in Spawners : Prune(s) => Attempts'
    BY SMT
       DEF Prune, AtLock, Goto, Retire, CollectExits, FinishReservations, Dead, Attempts,
           TypeOK, Spawning, Reserving, Unstarted, Using, Retiring
  <1>9. \A s \in Spawners : Join(s) => Attempts'
    BY SMT
       DEF Join, AtLock, Joinable, Goto, KeepRegistry, registryVars, portVars, Attempts,
           TypeOK, Spawning, Reserving, Unstarted, Using, Retiring
  <1>10. ASSUME NEW s \in Spawners, Reserve(s) PROVE Attempts'
    <2>1. PICK i \in Ids :
            /\ FreeId(i)
            /\ target' = [target EXCEPT ![s] = i] /\ pending' = pending \cup {i}
            /\ in_flight' = [in_flight EXCEPT ![i] = IF s \in Prewarms THEN 0 ELSE 1]
      BY <1>10 DEF Reserve
    <2>2. /\ pc' = [pc EXCEPT ![s] = "port"]
          /\ UNCHANGED <<map, proc, leaving, batches>>
      BY <1>10 DEF Reserve, Goto
    <2>3. i \notin map \cup Retiring /\ leaving[i] = 0 /\ proc[i] = "none"
      BY <2>1 DEF FreeId, Committed
    <2>4. /\ pc'[s] = "port" /\ target'[s] = i /\ in_flight'[i] = IF s \in Prewarms THEN 0 ELSE 1
          /\ \A t \in Spawners \ {s} : /\ pc'[t] = pc[t] /\ target'[t] = target[t]
                                        /\ target[t] # i
      BY <2>1, <2>2 DEF TypeOK, FreeId
    <2>5. \A j \in Ids \ {i} : in_flight'[j] = in_flight[j]
      BY <2>1 DEF TypeOK
    <2>6. Retiring' = Retiring
      BY <2>2 DEF Retiring
    <2> QED BY <2>1, <2>2, <2>3, <2>4, <2>5, <2>6, SMT
               DEF Attempts, Spawning, Reserving, Unstarted, Using
  <1>11. \A s \in Spawners : LeasePort(s) => Attempts'
    BY SMT
       DEF LeasePort, Goto, registryVars, wakeVars, Attempts, TypeOK, Spawning, Reserving,
           Unstarted, Using, Retiring
  <1>12. \A s \in Spawners : NoPort(s) => Attempts'
    BY SMT
       DEF NoPort, Abandon, Goto, FinishReservations, instanceVars, portVars, Attempts,
           TypeOK, Spawning, Reserving, Unstarted, Using, Retiring
  <1>13. \A s \in Spawners : Resample(s) => Attempts'
    BY SMT
       DEF Resample, ReturnPort, Abandon, Goto, FinishReservations, Attempts, TypeOK,
           Spawning, Reserving, Unstarted, Using, Retiring
  <1>14. \A s \in Spawners : Exec(s) => Attempts'
    BY SMT
       DEF Exec, Goto, portVars, wakeVars, Attempts, TypeOK, Spawning, Reserving,
           Unstarted, Using, Retiring
  <1>15. \A s \in Spawners : ExecFails(s) => Attempts'
    BY SMT
       DEF ExecFails, ReturnPort, Abandon, Goto, FinishReservations, DropWake, Announce,
           MayRetry, registryVars, wakeVars, Attempts, TypeOK, Spawning, Reserving,
           Unstarted, Using, Retiring
  <1>16. \A s \in Spawners : Insert(s) => Attempts'
    BY SMT
       DEF Insert, Goto, portVars, Attempts, TypeOK, Spawning, Reserving, Unstarted,
           Using, Retiring
  <1>17. \A s \in Spawners : InsertFails(s) => Attempts'
    BY SMT
       DEF InsertFails, ReturnPort, Goto, registryVars, wakeVars, Attempts, TypeOK,
           Spawning, Reserving, Unstarted, Using, Retiring
  <1>18. \A s \in Spawners : Stopped(s) => Attempts'
    BY SMT
       DEF Stopped, Goto, instanceVars, registryVars, portVars, Attempts, TypeOK,
           Spawning, Reserving, Unstarted, Using, Retiring
  <1>19. \A s \in Spawners : Loaded(s) => Attempts'
    BY SMT
       DEF Loaded, Goto, instanceVars, registryVars, portVars, wakeVars, Attempts, TypeOK,
           Spawning, Reserving, Unstarted, Using, Retiring
  <1>20. \A s \in Spawners : Serve(s) => Attempts'
    BY SMT
       DEF Serve, Goto, registryVars, portVars, wakeVars, Attempts, TypeOK, Spawning,
           Reserving, Unstarted, Using, Retiring
  <1>21. \A s \in Spawners : LoadFailed(s) => Attempts'
    BY SMT
       DEF LoadFailed, DropSlot, Goto, registryVars, portVars, wakeVars, Attempts, TypeOK,
           Spawning, Reserving, Unstarted, Using, Retiring
  <1>22. \A s \in Spawners : Cancel(s) => Attempts'
    BY SMT
       DEF Cancel, DropSlot, Goto, registryVars, portVars, Attempts, TypeOK, Spawning,
           Reserving, Unstarted, Using, Retiring
  <1>23. \A s \in Spawners : CancelSpawn(s) => Attempts'
    BY SMT
       DEF CancelSpawn, EndsWithCaller, FinishReservations, Goto, Attempts, TypeOK,
           Spawning, Reserving, Unstarted, Using, Retiring
  <1>24. \A i \in Ids : ReleaseSlot(i) => Attempts'
    BY SMT
       DEF ReleaseSlot, spawnerVars, registryVars, portVars, wakeVars, Attempts, TypeOK,
           Spawning, Reserving, Unstarted, Using, Retiring
  <1>25. \A i \in Ids : Stop(i) => Attempts'
    BY SMT
       DEF Stop, spawnerVars, registryVars, portVars, wakeVars, Attempts, TypeOK,
           Spawning, Reserving, Unstarted, Using, Retiring
  <1>26. \A i \in Ids : Reap(i) => Attempts'
    BY SMT
       DEF Reap, FinishReservations, spawnerVars, portVars, Attempts, TypeOK, Spawning,
           Reserving, Unstarted, Using, Retiring
  <1>27. \A i \in Ids : NoticeExit(i) => Attempts'
    BY SMT
       DEF NoticeExit, CollectExits, FinishReservations, spawnerVars, portVars, Attempts,
           TypeOK, Spawning, Reserving, Unstarted, Using, Retiring
  <1>28. ASSUME NEW i \in Ids, StartupFails(i) PROVE Attempts'
    <2>1. \A s \in Spawners : pc[s] \in Spawning => target[s] # i
      BY <1>28, SMT DEF StartupFails, Inserted, Holders, Attempts, TypeOK, Spawning, Using
    <2> QED BY <1>28, <2>1, SMT
               DEF StartupFails, spawnerVars, registryVars, portVars, wakeVars, Attempts,
                   TypeOK, Spawning, Reserving, Unstarted, Using, Retiring
  <1>29. \A i \in Ids : Crash(i) => Attempts'
    BY SMT
       DEF Crash, spawnerVars, registryVars, portVars, wakeVars, Attempts, TypeOK,
           Spawning, Reserving, Unstarted, Using, Retiring
  <1>30. \A b \in batches : RetireDone(b) => Attempts'
    BY SMT
       DEF RetireDone, CallerWaits, CallerKeepsWake, Goto, instanceVars, registryVars,
           portVars, Attempts, TypeOK, Spawning, Reserving, Unstarted, Using, Retiring
  <1>31. Sweep => Attempts'
    BY SMT
       DEF Sweep, Dead, Idle, Retire, CollectExits, FinishReservations, spawnerVars,
           Attempts, TypeOK, Spawning, Reserving, Unstarted, Using, Retiring
  <1> HIDE DEF Away, Keeps, Retires
  <1> QED BY <1>1, <1>2, <1>3, <1>4, <1>5, <1>6, <1>7, <1>8, <1>9, <1>10, <1>11, <1>12,
             <1>13, <1>14, <1>15, <1>16, <1>17, <1>18, <1>19, <1>20, <1>21, <1>22, <1>23,
             <1>24, <1>25, <1>26, <1>27, <1>28, <1>29, <1>30, <1>31
             DEF Next, Admit, SpawnProcess, Use, Process, Quiet

\* A commitment ends with its process, or with an attempt that has none.
LEMMA CommittedStep ==
    ASSUME IInv, [Next]_vars
    PROVE  Committed'
  <1>n. /\ TypeOK /\ Attempts /\ Committed /\ Plans
        /\ \A s \in Spawners : pc[s] \in Spawning \cup Using => target[s] \in Ids
    BY NamedIds DEF IInv
  <1> USE <1>n, SpawnersAssumption
  <1> DEFINE Keeps == map' \subseteq map /\ UNCHANGED <<proc, reg, pending>>
             Kills == /\ UNCHANGED <<map, reg, pending>>
                      /\ \A j \in Ids : proc'[j] # "none" => proc[j] # "none"
             Ends == map' \subseteq map /\ \E V : CollectExits(V)
  <1>1. \A s \in Spawners : (Resolve(s) \/ Join(s) \/ Refuse(s) \/ Plan(s)
                             \/ Replan(s) \/ LeasePort(s) \/ Stopped(s) \/ Evict(s)) =>
            Keeps
    BY DEF Resolve, Join, Refuse, Plan, Replan, LeasePort, Stopped, Evict, Retire,
           instanceVars, registryVars, KeepRegistry
  <1>2. \A s \in Spawners : (Use(s) \/ Retry(s) \/ Cancel(s)) => Keeps
    BY DEF Use, Loaded, Serve, LoadFailed, DrainAll, EvictAllIdle, EvictDrained, Retire,
           Retry, Cancel, instanceVars, registryVars
  <1>3. \A i \in Ids : (ReleaseSlot(i) \/ BecomeReady(i) \/ SetDraining(i)) => Keeps
    BY DEF ReleaseSlot, BecomeReady, SetDraining, registryVars
  <1>4. ((\E b \in batches : RetireDone(b)) \/ (\E p \in Ports : DropPort(p))
         \/ WakeQueues \/ ReloadLimit \/ OtherProgram \/ UNCHANGED vars) =>
            Keeps
    BY DEF RetireDone, DropPort, WakeQueues, ReloadLimit, OtherProgram, instanceVars,
           registryVars, vars
  <1>5. \A i \in Ids : (Stop(i) \/ StartupFails(i) \/ Crash(i)) => Kills
    BY SMT DEF Stop, StartupFails, Crash, registryVars, TypeOK
  <1>6. \A s \in Spawners : InsertFails(s) => Committed'
    BY SMT DEF InsertFails, registryVars, Committed, Attempts, TypeOK, Spawning, Reserving
  <1>7. ((\E s \in Spawners : Prune(s)) \/ (\E i \in Ids : NoticeExit(i)) \/ Sweep) => Ends
    BY DEF Prune, NoticeExit, Sweep, Retire
  <1>8. Keeps \/ Kills => Committed'
    BY DEF Committed
  <1>9. Ends => Committed'
    BY DEF CollectExits, FinishReservations, Committed, TypeOK
  <1>10. \A s \in Spawners : Reserve(s) => Committed'
    BY SMT
       DEF Reserve, AtPlan, AtLock, FreeId, Goto, portVars, wakeVars, Committed, Attempts,
           TypeOK, Spawning, Reserving, Unstarted, Using
  <1>11. \A s \in Spawners : NoPort(s) => Committed'
    BY SMT
       DEF NoPort, Abandon, Goto, FinishReservations, instanceVars, portVars, Committed,
           Attempts, TypeOK, Spawning, Reserving, Unstarted, Using
  <1>12. \A s \in Spawners : Resample(s) => Committed'
    BY SMT
       DEF Resample, ReturnPort, Abandon, Goto, FinishReservations, Committed, Attempts,
           TypeOK, Spawning, Reserving, Unstarted, Using
  <1>13. \A s \in Spawners : Exec(s) => Committed'
    BY SMT
       DEF Exec, Goto, portVars, wakeVars, Committed, Attempts, TypeOK, Spawning,
           Reserving, Unstarted, Using
  <1>14. \A s \in Spawners : ExecFails(s) => Committed'
    BY SMT
       DEF ExecFails, ReturnPort, Abandon, Goto, FinishReservations, DropWake, Announce,
           MayRetry, registryVars, wakeVars, Committed, Attempts, TypeOK, Spawning,
           Reserving, Unstarted, Using
  <1>15. \A s \in Spawners : Insert(s) => Committed'
    BY SMT
       DEF Insert, Goto, portVars, Committed, Attempts, TypeOK, Spawning, Reserving,
           Unstarted, Using
  <1>16. \A s \in Spawners : CancelSpawn(s) => Committed'
    BY SMT
       DEF CancelSpawn, EndsWithCaller, FinishReservations, Goto, Committed, Attempts,
           TypeOK, Spawning, Reserving, Unstarted, Using
  <1>17. \A i \in Ids : Reap(i) => Committed'
    BY SMT
       DEF Reap, FinishReservations, spawnerVars, portVars, Committed, Attempts, TypeOK,
           Spawning, Reserving, Unstarted, Using
  <1> HIDE DEF Keeps, Kills, Ends
  <1> QED BY <1>1, <1>2, <1>3, <1>4, <1>5, <1>6, <1>7, <1>8, <1>9, <1>10, <1>11, <1>12,
             <1>13, <1>14, <1>15, <1>16, <1>17
             DEF Next, Admit, SpawnProcess, Use, Process, Quiet

\* A port is returned by whoever ends the lease, once.
LEMMA LeasesStep ==
    ASSUME IInv, [Next]_vars
    PROVE  Leases'
  <1>n. /\ TypeOK /\ Attempts /\ Leases /\ Plans
        /\ \A s \in Spawners : pc[s] \in Spawning \cup Using => target[s] \in Ids
    BY NamedIds DEF IInv
  <1> USE <1>n, SpawnersAssumption
  <1> DEFINE Away(s) == \E l : /\ pc' = [pc EXCEPT ![s] = l]
                               /\ l # "exec" /\ l # "insert"
                               /\ pc[s] # "exec" /\ pc[s] # "insert"
             Names(s) == target' = target \/ \E x : target' = [target EXCEPT ![s] = x]
             Retires == \E V, k, r : V \subseteq map /\ Retire(V, k, r)
             Same == \A t \in Spawners : /\ pc'[t] \in Leasing <=> pc[t] \in Leasing
                                         /\ pc[t] \in Leasing => target'[t] = target[t]
  <1>1. \A s \in Spawners : (Resolve(s) \/ Join(s) \/ Refuse(s) \/ Reserve(s)
                             \/ Plan(s) \/ Replan(s) \/ NoPort(s)) =>
            Away(s) /\ Names(s) /\ UNCHANGED <<map, port, used, dropping>>
    BY DEF Resolve, Join, Refuse, Reserve, Plan, Replan, NoPort, Abandon, AtPlan, AtLock,
           Goto, instanceVars, portVars, Leasing
  <1>2. \A s \in Spawners : (Stopped(s) \/ Loaded(s) \/ Serve(s) \/ LoadFailed(s)
                             \/ DrainAll(s) \/ Retry(s) \/ Cancel(s)) =>
            Away(s) /\ Names(s) /\ UNCHANGED <<map, port, used, dropping>>
    BY DEF Stopped, Loaded, Serve, LoadFailed, DrainAll, Retry, Cancel, DropSlot, Goto,
           instanceVars, portVars, Leasing
  <1>3. \A s \in Spawners : (Prune(s) \/ Evict(s) \/ EvictAllIdle(s)
                             \/ EvictDrained(s)) =>
            Away(s) /\ Names(s) /\ Retires /\ UNCHANGED dropping
    BY DEF Prune, Evict, EvictAllIdle, EvictDrained, RecoverIdle, Idle, Dead, AtLock,
           Goto, Plans, Leasing
  <1>4. \A i \in Ids : (Process(i) \/ Crash(i) \/ SetDraining(i)) =>
            Same /\ UNCHANGED <<map, port, used, dropping>>
    BY DEF Process, ReleaseSlot, Stop, Reap, NoticeExit, BecomeReady, StartupFails, Crash,
           SetDraining, spawnerVars, portVars
  <1>5. (WakeQueues \/ ReloadLimit \/ OtherProgram \/ UNCHANGED vars) =>
            Same /\ UNCHANGED <<map, port, used, dropping>>
    BY DEF WakeQueues, ReloadLimit, OtherProgram, spawnerVars, instanceVars, portVars,
           vars
  <1>6. Sweep => Same /\ Retires /\ UNCHANGED dropping
    BY DEF Sweep, Dead, Idle, spawnerVars
  <1>7. \A s \in Spawners : Away(s) /\ Names(s) => Same
    BY DEF TypeOK, Leasing
  <1>8. Same /\ UNCHANGED <<map, port, used, dropping>> => Leases'
    BY SMT DEF Leases, PortsAreOwned
  <1>9. Same /\ Retires /\ UNCHANGED dropping => Leases'
    BY SMT DEF Leases, PortsAreOwned, Retire, Attempts, TypeOK, Spawning, Leasing
  <1>10. \A s \in Spawners : LeasePort(s) => Leases'
    BY SMT
       DEF LeasePort, Goto, registryVars, wakeVars, Leases, PortsAreOwned, Leasing,
           Attempts, TypeOK, Spawning, Using
  <1>11. \A s \in Spawners : Resample(s) => Leases'
    BY SMT
       DEF Resample, ReturnPort, Abandon, Goto, FinishReservations, Leases, PortsAreOwned,
           Leasing, Attempts, TypeOK, Spawning, Using
  <1>12. \A s \in Spawners : Exec(s) => Leases'
    BY SMT
       DEF Exec, Goto, portVars, wakeVars, Leases, PortsAreOwned, Leasing, Attempts,
           TypeOK, Spawning, Using
  <1>13. \A s \in Spawners : ExecFails(s) => Leases'
    BY SMT
       DEF ExecFails, ReturnPort, Abandon, Goto, FinishReservations, DropWake, Announce,
           MayRetry, registryVars, wakeVars, Leases, PortsAreOwned, Leasing, Attempts,
           TypeOK, Spawning, Using
  <1>14. \A s \in Spawners : Insert(s) => Leases'
    BY SMT
       DEF Insert, Goto, portVars, Leases, PortsAreOwned, Leasing, Attempts, TypeOK,
           Spawning, Using
  <1>15. \A s \in Spawners : InsertFails(s) => Leases'
    BY SMT
       DEF InsertFails, ReturnPort, Goto, registryVars, wakeVars, Leases, PortsAreOwned,
           Leasing, Attempts, TypeOK, Spawning, Using
  <1>16. \A s \in Spawners : CancelSpawn(s) => Leases'
    BY SMT
       DEF CancelSpawn, EndsWithCaller, FinishReservations, Goto, Leases, PortsAreOwned,
           Leasing, Attempts, TypeOK, Spawning, Using
  <1>17. \A b \in batches : RetireDone(b) => Leases'
    BY SMT
       DEF RetireDone, CallerWaits, CallerKeepsWake, Goto, instanceVars, registryVars,
           portVars, Leases, PortsAreOwned, Leasing, Attempts, TypeOK, Spawning, Using
  <1>18. \A p \in Ports : DropPort(p) => Leases'
    BY SMT
       DEF DropPort, spawnerVars, instanceVars, registryVars, wakeVars, Leases,
           PortsAreOwned, Leasing, Attempts, TypeOK, Spawning, Using
  <1> HIDE DEF Away, Names, Retires, Same
  <1> QED BY <1>1, <1>2, <1>3, <1>4, <1>5, <1>6, <1>7, <1>8, <1>9, <1>10, <1>11, <1>12,
             <1>13, <1>14, <1>15, <1>16, <1>17, <1>18
             DEF Next, Admit, SpawnProcess, Use, Process, Quiet

\* The step reserves nothing.
Shrinking ==
    /\ map' \cup pending' \subseteq map \cup pending
    /\ reg' \subseteq reg /\ prof' = prof

\* Reserve is the only action that commits anything new.
LEMMA NothingElseReserves ==
    ASSUME IInv, [Next]_vars
    PROVE  Shrinking \/ \E s \in Spawners : Reserve(s)
  <1> DEFINE Less == /\ map' \subseteq map /\ prof' = prof
                     /\ reg' \subseteq reg /\ pending' \subseteq pending
  <1>1. \A s \in Spawners : (Resolve(s) \/ Prune(s) \/ Join(s) \/ Refuse(s)
                             \/ Plan(s) \/ Evict(s) \/ Replan(s)) =>
            Less
    BY DEF Resolve, Prune, Join, Refuse, Plan, Evict, Replan, Retire, CollectExits,
           FinishReservations, KeepRegistry, instanceVars, registryVars
  <1>2. \A s \in Spawners : (LeasePort(s) \/ NoPort(s) \/ Resample(s) \/ Exec(s)
                             \/ ExecFails(s) \/ InsertFails(s) \/ Stopped(s)) =>
            Less
    BY DEF LeasePort, NoPort, Resample, Exec, ExecFails, InsertFails, Stopped, Abandon,
           FinishReservations, instanceVars, registryVars
  <1>3. \A s \in Spawners : (Use(s) \/ Retry(s) \/ Cancel(s) \/ CancelSpawn(s)) => Less
    BY DEF Use, Loaded, Serve, LoadFailed, EvictAllIdle, DrainAll, EvictDrained, Retry,
           Cancel, CancelSpawn, Retire, FinishReservations, instanceVars, registryVars
  <1>4. \A i \in Ids : (Process(i) \/ Crash(i) \/ SetDraining(i)) => Less
    BY DEF Process, Crash, SetDraining, ReleaseSlot, Stop, Reap, NoticeExit, BecomeReady,
           StartupFails, CollectExits, FinishReservations, registryVars
  <1>5. ((\E b \in batches : RetireDone(b)) \/ (\E p \in Ports : DropPort(p))
         \/ Sweep \/ WakeQueues \/ ReloadLimit \/ OtherProgram \/ UNCHANGED vars) =>
            Less
    BY DEF RetireDone, DropPort, Sweep, WakeQueues, ReloadLimit, OtherProgram, Retire,
           CollectExits, FinishReservations, vars, instanceVars, registryVars
  <1>6. \A s \in Spawners : Insert(s) => Shrinking
    BY SMT DEF Insert, Shrinking, IInv, Attempts, Reserving
  <1>7. Less => Shrinking
    BY DEF Shrinking
  <1> HIDE DEF Less
  <1> QED BY <1>1, <1>2, <1>3, <1>4, <1>5, <1>6, <1>7 DEF Next, Admit, SpawnProcess, Quiet

\* The step makes no plan, and if somebody has one, it leaves the victims idle in the
\* map, and what is committed as it was unless it moves the revision.
Undisturbed ==
    /\ \A s \in Spawners : pc'[s] = "commit" => pc[s] = "commit" /\ victims'[s] = victims[s]
    /\ (\E s \in Spawners : pc'[s] = "commit") =>
          /\ map' = map /\ prof' = prof
          /\ \A i \in map : in_flight[i] = 0 => in_flight'[i] = 0
          /\ plan_current' => plan_current /\ reg' = reg /\ pending' = pending

\* Whoever plans keeps the lock, so that only slots and commitments are released.
LEMMA NothingElsePlans ==
    ASSUME IInv, Counted, [Next]_vars
    PROVE  Undisturbed \/ \E s \in Spawners : Plan(s)
  <1>n. /\ TypeOK /\ Committed /\ Plans
        /\ \A s \in Spawners : pc[s] \in Spawning \cup Using => target[s] \in Ids
        /\ \A s \in Spawners : pc[s] \in Using => in_flight[target[s]] > 0
        /\ \A i \in Ids : leaving[i] > 0 => in_flight[i] > 0
    BY NamedIds DEF IInv, Counted
  <1> USE <1>n
  <1> DEFINE Moves(s) == \E l : l # "commit" /\ pc' = [pc EXCEPT ![s] = l]
             Forgets(s) == \A t \in Spawners \ {s} : victims'[t] = victims[t]
             Finishes == KeepRegistry \/ \E S : FinishReservations(S)
             Keeps == map' = map /\ prof' = prof /\ in_flight' = in_flight
  \* The actions under the lock run when nobody plans.
  <1>1. \A s \in Spawners : (Prune(s) \/ Join(s) \/ Refuse(s) \/ Reserve(s)
                             \/ Resample(s) \/ Exec(s) \/ ExecFails(s) \/ Insert(s)) =>
            LockFree /\ Moves(s)
    BY DEF Prune, Join, Refuse, Reserve, Resample, Exec, ExecFails, Insert, AtPlan,
           AtLock, Abandon, Goto
  <1>2. \A s \in Spawners : (InsertFails(s) \/ EvictAllIdle(s) \/ DrainAll(s)
                             \/ EvictDrained(s)) =>
            LockFree /\ Moves(s)
    BY DEF InsertFails, EvictAllIdle, DrainAll, EvictDrained, Goto
  <1>3. \A s \in Spawners : LockFree /\ Moves(s) => Undisturbed
    BY DEF LockFree, Undisturbed, TypeOK
  <1>4. Sweep => Undisturbed
    BY DEF Sweep, LockFree, spawnerVars, Undisturbed
  <1>5. ASSUME NEW s \in Spawners, Evict(s) PROVE Undisturbed
    <2>1. \A t \in Spawners : pc'[t] # "commit"
      BY <1>5 DEF Evict, Goto, Plans, TypeOK
    <2> QED BY <2>1 DEF Undisturbed
  \* The others leave the map and the slots as they are, and tell of the registry.
  <1>6. Finishes => (plan_current' => plan_current /\ reg' = reg /\ pending' = pending)
    BY DEF FinishReservations, KeepRegistry, registryVars, Committed
  <1>7. \A s \in Spawners : (Resolve(s) \/ Replan(s) \/ LeasePort(s) \/ NoPort(s)
                             \/ Stopped(s) \/ Loaded(s) \/ LoadFailed(s)
                             \/ Retry(s) \/ Cancel(s) \/ CancelSpawn(s)) =>
            Moves(s) /\ Finishes /\ Keeps
    BY DEF Resolve, Replan, LeasePort, NoPort, Stopped, Loaded, LoadFailed, Retry, Cancel,
           CancelSpawn, Abandon, Goto, KeepRegistry, instanceVars
  <1>8. \A s \in Spawners : (Resolve(s) \/ Replan(s) \/ LeasePort(s) \/ NoPort(s)
                             \/ Stopped(s) \/ Loaded(s) \/ LoadFailed(s)
                             \/ Retry(s) \/ Cancel(s) \/ CancelSpawn(s)) =>
            Forgets(s)
    BY DEF Resolve, Replan, LeasePort, NoPort, Stopped, Loaded, LoadFailed, Retry, Cancel,
           CancelSpawn, TypeOK
  <1>9. \A s \in Spawners : Moves(s) /\ Forgets(s) /\ Finishes /\ Keeps => Undisturbed
    BY <1>6, SMT DEF Undisturbed, TypeOK
  <1>10. \A i \in Ids : (Stop(i) \/ Reap(i) \/ NoticeExit(i) \/ StartupFails(i)
                         \/ Crash(i) \/ SetDraining(i)) =>
             UNCHANGED <<pc, victims>> /\ Finishes /\ Keeps
    BY DEF Stop, Reap, NoticeExit, StartupFails, Crash, SetDraining, CollectExits,
           KeepRegistry, spawnerVars
  <1>11. ((\E p \in Ports : DropPort(p)) \/ WakeQueues \/ ReloadLimit
          \/ OtherProgram \/ UNCHANGED vars) =>
             UNCHANGED <<pc, victims>> /\ Finishes /\ Keeps
    BY DEF DropPort, WakeQueues, ReloadLimit, OtherProgram, spawnerVars, instanceVars,
           registryVars, KeepRegistry, vars
  <1>12. UNCHANGED <<pc, victims>> /\ Finishes /\ Keeps => Undisturbed
    BY <1>6 DEF Undisturbed
  <1>13. \A s \in Spawners : Serve(s) => Undisturbed
    BY SMT DEF Serve, Goto, registryVars, Undisturbed, TypeOK, Using
  <1>14. \A i \in Ids : ReleaseSlot(i) => Undisturbed
    BY SMT DEF ReleaseSlot, spawnerVars, registryVars, Undisturbed, TypeOK
  <1>15. \A i \in Ids : BecomeReady(i) => Undisturbed
    BY DEF BecomeReady, spawnerVars, Undisturbed
  <1>16. \A b \in batches : RetireDone(b) => Undisturbed
    BY SMT
       DEF RetireDone, CallerWaits, Goto, instanceVars, registryVars, Undisturbed, TypeOK
  <1> HIDE DEF Moves, Forgets, Finishes, Keeps
  <1> QED BY <1>1, <1>2, <1>3, <1>4, <1>5, <1>7, <1>8, <1>9, <1>10, <1>11, <1>12, <1>13,
             <1>14, <1>15, <1>16
             DEF Next, Admit, SpawnProcess, Use, Process, Quiet

\* What leaves the map is idle or dead, or was drained for a cold start.
LEMMA OnlyUnusedLeave ==
    ASSUME IInv, [Next]_vars
    PROVE  BusyInstancesAreKept
  <1>n. TypeOK /\ Plans
    BY DEF IInv
  <1> USE <1>n
  <1>1. \A s \in Spawners : (Resolve(s) \/ Join(s) \/ Refuse(s) \/ Reserve(s)
                             \/ Plan(s) \/ Replan(s) \/ LeasePort(s) \/ NoPort(s)
                             \/ Resample(s) \/ Exec(s)) =>
            UNCHANGED map
    BY DEF Resolve, Join, Refuse, Reserve, Plan, Replan, LeasePort, NoPort, Resample, Exec
  <1>2. \A s \in Spawners : (ExecFails(s) \/ InsertFails(s) \/ Stopped(s)
                             \/ Loaded(s) \/ Serve(s) \/ LoadFailed(s)
                             \/ DrainAll(s) \/ Retry(s) \/ Cancel(s)
                             \/ CancelSpawn(s)) =>
            UNCHANGED map
    BY DEF ExecFails, InsertFails, Stopped, Loaded, Serve, LoadFailed, DrainAll, Retry,
           Cancel, CancelSpawn
  <1>3. \A i \in Ids : (Process(i) \/ Crash(i) \/ SetDraining(i)) => UNCHANGED map
    BY DEF Process, ReleaseSlot, Stop, Reap, NoticeExit, BecomeReady, StartupFails, Crash,
           SetDraining
  <1>4. ((\E b \in batches : RetireDone(b)) \/ (\E p \in Ports : DropPort(p))
         \/ WakeQueues \/ ReloadLimit \/ OtherProgram \/ UNCHANGED vars) =>
            UNCHANGED map
    BY DEF RetireDone, DropPort, WakeQueues, ReloadLimit, OtherProgram, vars
  <1>5. \A s \in Spawners : (Prune(s) \/ Insert(s) \/ EvictAllIdle(s)) => BusyInstancesAreKept
    BY DEF Prune, Insert, EvictAllIdle, Retire, Dead, RecoverIdle, Idle,
           BusyInstancesAreKept
  <1>6. \A s \in Spawners : Evict(s) => BusyInstancesAreKept
    BY DEF Evict, Goto, Retire, registryVars, TypeOK, BusyInstancesAreKept, Plans
  <1>7. \A s \in Spawners : EvictDrained(s) => BusyInstancesAreKept
    BY DEF EvictDrained, Goto, Retire, registryVars, TypeOK, BusyInstancesAreKept
  <1>8. Sweep => BusyInstancesAreKept
    BY DEF Sweep, Dead, Idle, Retire, BusyInstancesAreKept
  <1>9. UNCHANGED map => BusyInstancesAreKept
    BY DEF BusyInstancesAreKept
  <1> QED BY <1>1, <1>2, <1>3, <1>4, <1>5, <1>6, <1>7, <1>8, <1>9
             DEF Next, Admit, SpawnProcess, Use, Quiet

\* A slot is given back by a request that was served, or after the load ended.
LEMMA LoadsKeepSlots ==
    ASSUME IInv, [Next]_vars
    PROVE  LoadKeepsItsSlots
  <1>n. TypeOK /\ Slots
    BY DEF IInv
  <1> USE <1>n
  <1>1. \A s \in Spawners : (Resolve(s) \/ Prune(s) \/ Refuse(s) \/ Plan(s)
                             \/ Evict(s) \/ Replan(s) \/ LeasePort(s) \/ NoPort(s)
                             \/ Resample(s) \/ Exec(s) \/ ExecFails(s)) =>
            UNCHANGED in_flight
    BY DEF Resolve, Prune, Refuse, Plan, Evict, Replan, LeasePort, NoPort, Resample, Exec,
           ExecFails, instanceVars
  <1>2. \A s \in Spawners : (Insert(s) \/ InsertFails(s) \/ Stopped(s)
                             \/ Loaded(s) \/ LoadFailed(s) \/ EvictAllIdle(s)
                             \/ DrainAll(s) \/ EvictDrained(s) \/ Retry(s)
                             \/ Cancel(s) \/ CancelSpawn(s)) =>
            UNCHANGED in_flight
    BY DEF Insert, InsertFails, Stopped, Loaded, LoadFailed, EvictAllIdle, DrainAll,
           EvictDrained, Retry, Cancel, CancelSpawn, instanceVars
  <1>3. \A i \in Ids : (Stop(i) \/ Reap(i) \/ NoticeExit(i) \/ BecomeReady(i)
                        \/ StartupFails(i) \/ Crash(i) \/ SetDraining(i)) =>
            UNCHANGED in_flight
    BY DEF Stop, Reap, NoticeExit, BecomeReady, StartupFails, Crash, SetDraining
  <1>4. ((\E b \in batches : RetireDone(b)) \/ (\E p \in Ports : DropPort(p))
         \/ Sweep \/ WakeQueues \/ ReloadLimit \/ OtherProgram \/ UNCHANGED vars) =>
            UNCHANGED in_flight
    BY DEF RetireDone, DropPort, Sweep, WakeQueues, ReloadLimit, OtherProgram,
           instanceVars, vars
  <1>5. \A s \in Spawners : Join(s) => LoadKeepsItsSlots
    BY SMT
       DEF Join, AtLock, Joinable, Goto, KeepRegistry, registryVars, TypeOK,
           LoadKeepsItsSlots
  <1>6. \A s \in Spawners : Reserve(s) => LoadKeepsItsSlots
    BY SMT DEF Reserve, AtPlan, AtLock, FreeId, Goto, TypeOK, LoadKeepsItsSlots
  <1>7. \A s \in Spawners : Serve(s) => LoadKeepsItsSlots
    BY SMT DEF Serve, TypeOK, LoadKeepsItsSlots, Slots
  <1>8. \A i \in Ids : ReleaseSlot(i) => LoadKeepsItsSlots
    BY SMT DEF ReleaseSlot, TypeOK, LoadKeepsItsSlots
  <1>9. UNCHANGED in_flight => LoadKeepsItsSlots
    BY SMT DEF LoadKeepsItsSlots, TypeOK
  <1> QED BY <1>1, <1>2, <1>3, <1>4, <1>5, <1>6, <1>7, <1>8, <1>9
             DEF Next, Admit, SpawnProcess, Use, Process, Quiet

\* Whoever had a plan and waits for a retirement has just carried the plan out.
CommitIsEviction(r) == pc[r] = "commit" /\ pc'[r] = "retire" => Evict(r)

LEMMA CommitsAreEvictions ==
    ASSUME IInv, [Next]_vars, NEW r \in Spawners
    PROVE  CommitIsEviction(r)
  <1> DEFINE Moves(s) == \E l : /\ pc' = [pc EXCEPT ![s] = l]
                                /\ pc[s] # "commit" \/ l # "retire"
  <1>1. \A s \in Spawners : (Resolve(s) \/ Prune(s) \/ Join(s) \/ Refuse(s)
                             \/ Reserve(s) \/ Plan(s) \/ Replan(s)) =>
            Moves(s)
    BY DEF Resolve, Prune, Join, Refuse, Reserve, Plan, Replan, AtPlan, AtLock, Goto
  <1>2. \A s \in Spawners : SpawnProcess(s) => Moves(s)
    BY DEF SpawnProcess, LeasePort, NoPort, Resample, Exec, ExecFails, Insert,
           InsertFails, Stopped, Abandon, Goto
  <1>3. \A s \in Spawners : (Use(s) \/ Retry(s) \/ Cancel(s) \/ CancelSpawn(s)) => Moves(s)
    BY DEF Use, Loaded, Serve, LoadFailed, EvictAllIdle, DrainAll, EvictDrained, Retry,
           Cancel, CancelSpawn, Goto
  <1>4. \A i \in Ids : (Process(i) \/ Crash(i) \/ SetDraining(i)) => UNCHANGED pc
    BY DEF Process, ReleaseSlot, Stop, Reap, NoticeExit, BecomeReady, StartupFails, Crash,
           SetDraining, spawnerVars
  <1>5. ((\E p \in Ports : DropPort(p)) \/ Sweep \/ WakeQueues \/ ReloadLimit
         \/ OtherProgram \/ UNCHANGED vars) =>
            UNCHANGED pc
    BY DEF DropPort, Sweep, WakeQueues, ReloadLimit, OtherProgram, spawnerVars, vars
  <1>6. \A b \in batches : RetireDone(b) => CommitIsEviction(r)
    BY DEF RetireDone, CallerWaits, Goto, CommitIsEviction, IInv, TypeOK
  <1>7. \A s \in Spawners : Evict(s) => CommitIsEviction(r)
    BY DEF Evict, Goto, CommitIsEviction, IInv, TypeOK
  <1>8. \A s \in Spawners : Moves(s) => CommitIsEviction(r)
    BY DEF CommitIsEviction, IInv, TypeOK
  <1>9. UNCHANGED pc => CommitIsEviction(r)
    BY DEF CommitIsEviction
  <1> HIDE DEF Moves
  <1> QED BY <1>1, <1>2, <1>3, <1>4, <1>5, <1>6, <1>7, <1>8, <1>9 DEF Next, Admit, Quiet

\* The step takes and returns no slot.
SlotsKept ==
    /\ map' \subseteq map /\ UNCHANGED <<in_flight, leaving>>
    /\ \A i \in Ids : Holders(i)' = Holders(i)
    /\ \A s \in Spawners : pc'[s] = "serve" => status'[target'[s]] # "starting"

\* The actions that move slots.
SlotsMove ==
    \/ \E s \in Spawners : \/ Join(s) \/ Reserve(s) \/ Insert(s)
                           \/ Serve(s) \/ LoadFailed(s) \/ Cancel(s)
    \/ \E i \in Ids : ReleaseSlot(i)

\* All others leave the slots and their holders as they are.
LEMMA NothingElseMovesSlots ==
    ASSUME IInv, [Next]_vars
    PROVE  SlotsKept \/ SlotsMove
  <1>n. TypeOK /\ Slots
    BY DEF IInv
  <1> USE <1>n
  <1> DEFINE Away(s) == \E l : /\ pc' = [pc EXCEPT ![s] = l]
                               /\ l # "load" /\ l # "serve"
                               /\ pc[s] # "load" /\ pc[s] # "serve"
             Names(s) == target' = target \/ \E x : target' = [target EXCEPT ![s] = x]
             Keeps == map' \subseteq map /\ UNCHANGED <<in_flight, leaving>>
             Readier == \A i \in Ids : status'[i] = "starting" => status[i] = "starting"
  <1>1. \A s \in Spawners : (Resolve(s) \/ Prune(s) \/ Refuse(s) \/ Plan(s)
                             \/ Evict(s) \/ Replan(s) \/ Retry(s)) =>
            Away(s) /\ Names(s) /\ Keeps /\ UNCHANGED status
    BY DEF Resolve, Prune, Refuse, Plan, Evict, Replan, Retry, AtPlan, AtLock, Goto,
           Retire, instanceVars
  <1>2. \A s \in Spawners : (LeasePort(s) \/ NoPort(s) \/ Resample(s) \/ Exec(s)
                             \/ ExecFails(s) \/ InsertFails(s) \/ Stopped(s)) =>
            Away(s) /\ Names(s) /\ Keeps /\ UNCHANGED status
    BY DEF LeasePort, NoPort, Resample, Exec, ExecFails, InsertFails, Stopped, Abandon,
           Goto, instanceVars
  <1>3. \A s \in Spawners : (EvictAllIdle(s) \/ DrainAll(s) \/ EvictDrained(s)
                             \/ CancelSpawn(s)) =>
            Away(s) /\ Names(s) /\ Keeps /\ UNCHANGED status
    BY DEF EvictAllIdle, DrainAll, EvictDrained, CancelSpawn, Goto, Retire
  <1>4. ASSUME NEW s \in Spawners, Away(s), Names(s), Keeps, UNCHANGED status
        PROVE  SlotsKept
    <2>1. \A t \in Spawners :
             pc[t] \in Using \/ pc'[t] \in Using => pc'[t] = pc[t] /\ target'[t] = target[t]
      BY <1>4 DEF TypeOK, Using
    <2>2. \A i \in Ids : Holders(i)' = Holders(i)
      BY <2>1 DEF Holders, Using
    <2> QED BY <1>4, <2>1, <2>2 DEF SlotsKept, Slots, Using
  <1>5. \A i \in Ids : (Stop(i) \/ Reap(i) \/ NoticeExit(i) \/ Crash(i)
                        \/ SetDraining(i)) =>
            UNCHANGED <<pc, target, map, in_flight, leaving, status>>
    BY DEF Stop, Reap, NoticeExit, Crash, SetDraining, spawnerVars
  <1>6. ((\E p \in Ports : DropPort(p)) \/ WakeQueues \/ ReloadLimit
         \/ OtherProgram \/ UNCHANGED vars) =>
            UNCHANGED <<pc, target, map, in_flight, leaving, status>>
    BY DEF DropPort, WakeQueues, ReloadLimit, OtherProgram, spawnerVars, instanceVars,
           vars
  <1>7. Sweep => UNCHANGED <<pc, target, status>> /\ Keeps
    BY DEF Sweep, Retire, spawnerVars
  <1>8. \A i \in Ids : (BecomeReady(i) \/ StartupFails(i)) =>
            UNCHANGED <<pc, target>> /\ Keeps /\ Readier
    BY DEF BecomeReady, StartupFails, spawnerVars, TypeOK
  <1>9. ASSUME UNCHANGED <<pc, target>>, Keeps, Readier PROVE SlotsKept
    <2>1. \A s \in Spawners : pc[s] = "serve" => target[s] \in Ids
      BY NamedIds DEF IInv, Using
    <2> QED BY <1>9, <2>1 DEF SlotsKept, Slots, Holders
  <1>10. ASSUME NEW b \in batches, RetireDone(b) PROVE SlotsKept
    <2>1. \A t \in Spawners : pc[t] \in Using \/ pc'[t] \in Using => pc'[t] = pc[t]
      BY <1>10 DEF RetireDone, CallerWaits, Goto, TypeOK, Using
    <2>2. Keeps /\ UNCHANGED <<target, status>>
      BY <1>10 DEF RetireDone, instanceVars
    <2>3. \A i \in Ids : Holders(i)' = Holders(i)
      BY <2>1, <2>2 DEF Holders, Using
    <2> QED BY <2>1, <2>2, <2>3 DEF SlotsKept, Slots, Using
  <1>11. \A s \in Spawners : Loaded(s) => SlotsKept
    BY SMT DEF Loaded, Goto, instanceVars, SlotsKept, Slots, Holders, TypeOK
  <1> HIDE DEF Away, Names, Keeps, Readier
  <1>12. UNCHANGED <<map, in_flight, leaving>> => Keeps
    BY DEF Keeps
  <1>13. UNCHANGED status => Readier
    BY DEF Readier
  <1> QED BY <1>1, <1>2, <1>3, <1>4, <1>5, <1>6, <1>7, <1>8, <1>9, <1>10, <1>11, <1>12,
             <1>13
             DEF SlotsMove, Next, Admit, SpawnProcess, Use, Process, Quiet

-----------------------------------------------------------------------------
\* Slots

INSTANCE FiniteSetTheorems

\* The requests that have a slot of an instance can be counted.
LEMMA HoldersFinite ==
    ASSUME NEW i
    PROVE  IsFiniteSet(Holders(i)) /\ Cardinality(Holders(i)) \in Nat
  <1>1. Holders(i) \subseteq Spawners
    BY DEF Holders
  <1> QED BY <1>1, SpawnersAssumption, FS_Subset, FS_CardinalityType

LEMMA SlotIsCounted ==
    ASSUME TypeOK, Attempts, Slots
    PROVE  Counted
  <1>1. ASSUME NEW s \in Spawners, pc[s] \in Using PROVE in_flight[target[s]] > 0
    <2>1. PICK i \in Ids : target[s] = i
      BY <1>1, NamedIds
    <2>2. s \in Holders(i)
      BY <1>1, <2>1 DEF Holders, Using
    <2>3. Cardinality(Holders(i)) \in Nat \ {0}
      BY <2>2, HoldersFinite, FS_EmptySet
    <2>4. in_flight[i] = Cardinality(Holders(i)) + leaving[i] /\ leaving[i] \in Nat
      BY <2>2 DEF Slots, TypeOK
    <2> QED BY <2>1, <2>3, <2>4, SMT
  <1>2. ASSUME NEW i \in Ids, leaving[i] > 0 PROVE in_flight[i] > 0
    <2>1. in_flight[i] = Cardinality(Holders(i)) + leaving[i] /\ leaving[i] \in Nat
      BY <1>2 DEF Slots, TypeOK
    <2> QED BY <1>2, <2>1, HoldersFinite, SMT
  <1> QED BY <1>1, <1>2 DEF Counted

\* Slots moved on one instance only, and they add up there.
LEMMA SlotsMoved ==
    ASSUME Slots, NEW i \in Ids, map' \subseteq map \cup {i},
           \A j \in Ids \ {i} : /\ Holders(j)' = Holders(j)
                                /\ in_flight'[j] = in_flight[j] /\ leaving'[j] = leaving[j],
           in_flight'[i] = Cardinality(Holders(i)') + leaving'[i],
           \A s \in Spawners : pc'[s] = "serve" => status'[target'[s]] # "starting"
    PROVE  Slots'
  <1>1. ASSUME NEW j \in Ids, j \in map' \/ Holders(j)' # {} \/ leaving'[j] > 0
        PROVE  in_flight'[j] = Cardinality(Holders(j)') + leaving'[j]
    <2>1. CASE j = i
      BY <2>1
    <2>2. CASE j # i
      BY <1>1, <2>2 DEF Slots
    <2> QED BY <2>1, <2>2
  <1> QED BY <1>1 DEF Slots

\* A request that leaves its instance is one holder less.
LEMMA HolderLeaves ==
    ASSUME TypeOK, Attempts, Slots, NEW s \in Spawners, pc[s] \in Using, NEW l,
           l \notin Using, pc' = [pc EXCEPT ![s] = l],
           target' = [target EXCEPT ![s] = NoOne], NEW i \in Ids, target[s] = i
    PROVE  /\ in_flight[i] = Cardinality(Holders(i)) + leaving[i]
           /\ Cardinality(Holders(i)') = Cardinality(Holders(i)) - 1
           /\ \A j \in Ids \ {i} : Holders(j)' = Holders(j)
  <1>1. s \in Holders(i)
    BY DEF Holders, Using
  <1>2. /\ \A j \in Ids \ {i} : Holders(j)' = Holders(j)
        /\ Holders(i)' = Holders(i) \ {s}
    BY SpawnersAssumption DEF Holders, TypeOK, Using
  <1>3. Cardinality(Holders(i) \ {s}) = Cardinality(Holders(i)) - 1
    BY <1>1, HoldersFinite, FS_RemoveElement
  <1> QED BY <1>1, <1>2, <1>3 DEF Slots

\* The slot of a request that gives up goes to its SlotReleaseGuard.
LEMMA SlotDropped ==
    ASSUME TypeOK, Attempts, Slots, NEW s \in Spawners, pc[s] \in Using, DropSlot(s),
           NEW l, l \notin Using, pc' = [pc EXCEPT ![s] = l],
           UNCHANGED <<map, in_flight, status>>
    PROVE  Slots'
  <1>1. PICK i \in Ids : i = target[s]
    BY NamedIds
  <1>2. /\ leaving' = [leaving EXCEPT ![i] = @ + 1]
        /\ target' = [target EXCEPT ![s] = NoOne]
    BY <1>1 DEF DropSlot
  <1>3. /\ in_flight[i] = Cardinality(Holders(i)) + leaving[i]
        /\ Cardinality(Holders(i)') = Cardinality(Holders(i)) - 1
        /\ \A j \in Ids \ {i} : Holders(j)' = Holders(j)
    BY <1>1, <1>2, HolderLeaves
  <1>4. in_flight'[i] = Cardinality(Holders(i)') + leaving'[i]
    BY <1>2, <1>3, HoldersFinite, SMT DEF TypeOK
  <1>5. /\ \A t \in Spawners : pc'[t] = "serve" => status'[target'[t]] # "starting"
        /\ \A j \in Ids \ {i} : in_flight'[j] = in_flight[j] /\ leaving'[j] = leaving[j]
    BY <1>2 DEF Slots, TypeOK, Using
  <1> QED BY <1>3, <1>4, <1>5, SlotsMoved

\* Each step moves the slots of one instance or none.
LEMMA SlotsStep ==
    ASSUME IInv, [Next]_vars
    PROVE  Slots'
  <1>n. /\ TypeOK /\ Attempts /\ Slots
        /\ \A s \in Spawners : pc[s] \in Spawning \cup Using => target[s] \in Ids
    BY NamedIds DEF IInv
  <1> USE <1>n, SpawnersAssumption
  <1>1. SlotsKept => Slots'
    BY DEF SlotsKept, Slots
  <1>2. ASSUME NEW s \in Spawners, Join(s) PROVE Slots'
    <2>1. PICK i \in Joinable(s) :
            IF s \in Prewarms
              THEN Goto(s, "done") /\ UNCHANGED <<target, in_flight>>
              ELSE /\ Goto(s, "load") /\ target' = [target EXCEPT ![s] = i]
                   /\ in_flight' = [in_flight EXCEPT ![i] = @ + 1]
      BY <1>2 DEF Join
    <2>2. i \in map /\ i \in Ids /\ pc[s] = "lock" /\ UNCHANGED <<map, leaving, status>>
      BY <1>2 DEF Join, Joinable, AtLock, TypeOK
    <2>3. CASE s \in Prewarms
      BY <2>1, <2>2, <2>3, SMT DEF Slots, Holders, Goto, TypeOK
    <2>4. CASE s \notin Prewarms
      <3>1. /\ pc' = [pc EXCEPT ![s] = "load"] /\ target' = [target EXCEPT ![s] = i]
            /\ in_flight' = [in_flight EXCEPT ![i] = @ + 1]
        BY <2>1, <2>4 DEF Goto
      <3>2. /\ Holders(i)' = Holders(i) \cup {s} /\ s \notin Holders(i)
            /\ \A j \in Ids \ {i} : Holders(j)' = Holders(j)
        BY <2>2, <3>1, SMT DEF Holders, TypeOK, Attempts, Spawning, Using
      <3>3. /\ Cardinality(Holders(i)') = Cardinality(Holders(i)) + 1
            /\ Cardinality(Holders(i)) \in Nat
        BY <3>2, HoldersFinite, FS_AddElement
      <3>4. /\ in_flight[i] = Cardinality(Holders(i)) + leaving[i]
            /\ leaving[i] \in Nat /\ leaving'[i] = leaving[i]
            /\ in_flight'[i] = in_flight[i] + 1
        BY <2>2, <3>1 DEF Slots, TypeOK
      <3>5. in_flight'[i] = Cardinality(Holders(i)') + leaving'[i]
        BY <3>3, <3>4, SMT
      <3>6. \A t \in Spawners : pc'[t] = "serve" => status'[target'[t]] # "starting"
        BY <2>2, <3>1 DEF Slots, TypeOK
      <3>7. \A j \in Ids \ {i} : in_flight'[j] = in_flight[j] /\ leaving'[j] = leaving[j]
        BY <2>2, <3>1 DEF TypeOK
      <3> QED BY <2>2, <3>2, <3>5, <3>6, <3>7, SlotsMoved
    <2> QED BY <2>3, <2>4
  <1>3. \A s \in Spawners : Reserve(s) => Slots'
    BY SMT
       DEF Reserve, AtPlan, AtLock, FreeId, Goto, portVars, wakeVars, Slots, Holders,
           TypeOK, Spawning, Using
  <1>4. ASSUME NEW s \in Spawners, Insert(s) PROVE Slots'
    <2>1. PICK i \in Ids : i = target[s]
      BY <1>4 DEF Insert, Spawning
    <2>2. /\ map' = map \cup {i} /\ UNCHANGED <<in_flight, leaving, status>>
          /\ IF s \in Prewarms
               THEN /\ pc' = [pc EXCEPT ![s] = "done"]
                    /\ target' = [target EXCEPT ![s] = NoOne]
               ELSE pc' = [pc EXCEPT ![s] = "load"] /\ target' = target
      BY <1>4, <2>1 DEF Insert, Goto
    <2>3. /\ pc[s] = "insert" /\ leaving[i] = 0
          /\ in_flight[i] = IF s \in Prewarms THEN 0 ELSE 1
          /\ \A t \in Spawners : target[t] = i => t = s
      BY <1>4, <2>1 DEF Insert, Attempts, Spawning, Reserving
    <2>4. /\ Holders(i)' = IF s \in Prewarms THEN {} ELSE {s}
          /\ \A j \in Ids \ {i} : Holders(j)' = Holders(j)
      BY <2>1, <2>2, <2>3, SMT DEF Holders, TypeOK
    <2>5. Cardinality(Holders(i)') = IF s \in Prewarms THEN 0 ELSE 1
      BY <2>4, FS_EmptySet, FS_Singleton
    <2>6. in_flight'[i] = Cardinality(Holders(i)') + leaving'[i]
      BY <2>2, <2>3, <2>5, SMT
    <2>7. \A t \in Spawners : pc'[t] = "serve" => status'[target'[t]] # "starting"
      BY <2>2, SMT DEF Slots, TypeOK
    <2> QED BY <2>2, <2>4, <2>6, <2>7, SlotsMoved
  <1>5. ASSUME NEW s \in Spawners, Serve(s) PROVE Slots'
    <2>1. PICK i \in Ids : i = target[s]
      BY <1>5 DEF Serve, Using
    <2>2. /\ pc[s] \in Using /\ pc' = [pc EXCEPT ![s] = "done"] /\ "done" \notin Using
          /\ target' = [target EXCEPT ![s] = NoOne]
          /\ in_flight' = [in_flight EXCEPT ![i] = @ - 1]
          /\ UNCHANGED <<map, leaving, status>>
      BY <1>5, <2>1 DEF Serve, Goto, Using
    <2>3. /\ in_flight[i] = Cardinality(Holders(i)) + leaving[i]
          /\ Cardinality(Holders(i)') = Cardinality(Holders(i)) - 1
          /\ \A j \in Ids \ {i} : Holders(j)' = Holders(j)
      BY <2>1, <2>2, HolderLeaves
    <2>4. in_flight'[i] = Cardinality(Holders(i)') + leaving'[i]
      BY <2>2, <2>3, HoldersFinite, SMT DEF TypeOK
    <2>5. /\ \A t \in Spawners : pc'[t] = "serve" => status'[target'[t]] # "starting"
          /\ \A j \in Ids \ {i} : in_flight'[j] = in_flight[j] /\ leaving'[j] = leaving[j]
      BY <2>2 DEF Slots, TypeOK
    <2> QED BY <2>2, <2>3, <2>4, <2>5, SlotsMoved
  <1>6. ASSUME NEW s \in Spawners, LoadFailed(s) PROVE Slots'
    <2>1. PICK l \in {"new", "recover"} : pc' = [pc EXCEPT ![s] = l]
      BY <1>6 DEF LoadFailed, Goto
    <2>2. /\ pc[s] \in Using /\ DropSlot(s) /\ l \notin Using
          /\ UNCHANGED <<map, in_flight, status>>
      BY <1>6 DEF LoadFailed, Using
    <2> QED BY <2>1, <2>2, SlotDropped
  <1>7. ASSUME NEW s \in Spawners, Cancel(s) PROVE Slots'
    <2>1. /\ pc' = [pc EXCEPT ![s] = "done"] /\ "done" \notin Using
          /\ UNCHANGED <<map, in_flight, status>>
      BY <1>7 DEF Cancel, Goto, Using
    <2>2. CASE pc[s] \in Using
      <3>1. DropSlot(s)
        BY <1>7, <2>2 DEF Cancel, Using
      <3> QED BY <2>1, <2>2, <3>1, SlotDropped
    <2>3. CASE pc[s] \notin Using
      <3>1. UNCHANGED <<target, leaving>>
        BY <1>7, <2>3 DEF Cancel, Using
      <3> QED BY <2>1, <2>3, <3>1 DEF Slots, Holders, TypeOK, Using
    <2> QED BY <2>2, <2>3
  <1>8. ASSUME NEW i \in Ids, ReleaseSlot(i) PROVE Slots'
    <2>1. /\ leaving' = [leaving EXCEPT ![i] = @ - 1] /\ leaving[i] > 0
          /\ in_flight' = [in_flight EXCEPT ![i] = @ - 1]
          /\ UNCHANGED <<pc, target, map, status>>
      BY <1>8 DEF ReleaseSlot, spawnerVars
    <2>2. \A j \in Ids : Holders(j)' = Holders(j)
      BY <2>1 DEF Holders
    <2>3. in_flight[i] = Cardinality(Holders(i)) + leaving[i] /\ leaving[i] \in Nat
      BY <2>1 DEF Slots, TypeOK
    <2>4. leaving'[i] = leaving[i] - 1 /\ in_flight'[i] = in_flight[i] - 1
      BY <2>1 DEF TypeOK
    <2>5. in_flight'[i] = Cardinality(Holders(i)') + leaving'[i]
      BY <2>2, <2>3, <2>4, HoldersFinite, SMT
    <2>6. /\ \A t \in Spawners : pc'[t] = "serve" => status'[target'[t]] # "starting"
          /\ \A j \in Ids \ {i} : in_flight'[j] = in_flight[j] /\ leaving'[j] = leaving[j]
      BY <2>1 DEF Slots, TypeOK
    <2> QED BY <2>1, <2>2, <2>5, <2>6, SlotsMoved
  <1> QED BY <1>1, <1>2, <1>3, <1>4, <1>5, <1>6, <1>7, <1>8, NothingElseMovesSlots
             DEF SlotsMove

-----------------------------------------------------------------------------
\* Limits

\* The units of memory that MemoryOf counts, for any assignment of profiles.
Units(f, S) == UNION {{i} \X (1 .. Cost[f[i]]) : i \in S}

LEMMA UpTo ==
    ASSUME NEW n \in Nat
    PROVE  IsFiniteSet(1 .. n) /\ Cardinality(1 .. n) = n
  BY FS_Interval, SMT

LEMMA UnitsFinite ==
    ASSUME NEW f \in [Ids -> Profiles], NEW S \in SUBSET Ids
    PROVE  IsFiniteSet(Units(f, S)) /\ Cardinality(Units(f, S)) \in Nat
  <1> DEFINE g == [i \in S |-> {i} \X (1 .. Cost[f[i]])]
             R == {{i} \X (1 .. Cost[f[i]]) : i \in S}
  <1>1. IsFiniteSet(S)
    BY SpawnersAssumption, FS_Subset
  <1>2. g \in Surjection(S, R)
    BY DEF Surjection
  <1>3. IsFiniteSet(R)
    BY <1>1, <1>2, FS_Surjection
  <1>4. ASSUME NEW T \in R PROVE IsFiniteSet(T)
    <2>1. PICK i \in S : T = {i} \X (1 .. Cost[f[i]])
      BY <1>4
    <2>2. Cost[f[i]] \in Nat
      BY LimitsAssumption
    <2>3. IsFiniteSet({i})
      BY FS_Singleton
    <2>4. IsFiniteSet(1 .. Cost[f[i]])
      BY <2>2, UpTo
    <2> QED BY <2>1, <2>3, <2>4, FS_Product
  <1>5. IsFiniteSet(UNION R)
    BY <1>3, <1>4, FS_UNION
  <1> QED BY <1>5, FS_CardinalityType DEF Units

\* A part of the instances needs no more memory than all of them.
LEMMA UnitsMonotone ==
    ASSUME NEW f \in [Ids -> Profiles], NEW S \in SUBSET Ids, NEW T \in SUBSET S
    PROVE  Cardinality(Units(f, T)) <= Cardinality(Units(f, S))
  <1>1. Units(f, T) \subseteq Units(f, S)
    BY DEF Units
  <1> QED BY <1>1, UnitsFinite, FS_Subset

\* The memory depends only on the profiles of the instances that are counted.
LEMMA UnitsSame ==
    ASSUME NEW f, NEW g, NEW S, \A i \in S : f[i] = g[i]
    PROVE  Units(f, S) = Units(g, S)
  BY DEF Units

\* One more instance adds what its profile is estimated to need.
LEMMA UnitsAdd ==
    ASSUME NEW f \in [Ids -> Profiles], NEW S \in SUBSET Ids, NEW i \in Ids \ S
    PROVE  Cardinality(Units(f, S \cup {i})) = Cardinality(Units(f, S)) + Cost[f[i]]
  <1> DEFINE A == {i} \X (1 .. Cost[f[i]])
  <1>1. Units(f, S \cup {i}) = Units(f, S) \cup A
    BY DEF Units
  <1>2. Units(f, S) \cap A = {}
    BY SMT DEF Units
  <1>3. Cost[f[i]] \in Nat
    BY LimitsAssumption
  <1>4. IsFiniteSet({i}) /\ Cardinality({i}) = 1
    BY FS_Singleton
  <1>5. IsFiniteSet(A) /\ Cardinality(A) = Cost[f[i]]
    <2>1. IsFiniteSet(1 .. Cost[f[i]]) /\ Cardinality(1 .. Cost[f[i]]) = Cost[f[i]]
      BY <1>3, UpTo
    <2>2. IsFiniteSet(A) /\ Cardinality(A) = Cardinality({i}) * Cardinality(1 .. Cost[f[i]])
      BY <1>4, <2>1, FS_Product
    <2>3. Cardinality(A) = 1 * Cost[f[i]]
      BY <1>4, <2>1, <2>2
    <2> QED BY <1>3, <2>2, <2>3, SMT
  <1>6. IsFiniteSet(Units(f, S)) /\ Cardinality(Units(f, S)) \in Nat
    BY UnitsFinite
  <1> HIDE DEF A
  <1>7. Cardinality(Units(f, S) \cap A) = 0
    BY <1>2, FS_EmptySet
  <1>8. Cardinality(Units(f, S) \cup A) = Cardinality(Units(f, S)) + Cardinality(A)
                                        - Cardinality(Units(f, S) \cap A)
    BY <1>5, <1>6, FS_Union
  <1>9. Cardinality(Units(f, S) \cup A) = Cardinality(Units(f, S)) + Cost[f[i]]
    BY <1>3, <1>5, <1>6, <1>7, <1>8, SMT
  <1> QED BY <1>1, <1>9

LEMMA MemoryIsUnits ==
    /\ \A S : MemoryOf(S) = Cardinality(Units(prof, S))
    /\ MemoryOf(reg)' = Cardinality(Units(prof', reg'))
  BY DEF MemoryOf, Units

LEMMA DisjointUnion ==
    ASSUME NEW S, NEW T, IsFiniteSet(S), IsFiniteSet(T), T \cap S = {}
    PROVE  Cardinality(S \cup T) = Cardinality(S) + Cardinality(T)
  <1>1. Cardinality(S \cap T) = 0
    BY FS_EmptySet
  <1>2. Cardinality(S) \in Nat /\ Cardinality(T) \in Nat
    BY FS_CardinalityType
  <1>3. Cardinality(S \cup T) = Cardinality(S) + Cardinality(T) - Cardinality(S \cap T)
    BY FS_Union
  <1> QED BY <1>1, <1>2, <1>3, SMT

\* What is released or leaves the map makes room; a place that is filled was reserved.
LEMMA LimitedShrinks ==
    ASSUME TypeOK, TypeOK', Limited, Shrinking, pending \cap map = {},
           pending' \cap map' = {}
    PROVE  Limited'
  <1> USE DEF Shrinking
  <1>1. /\ IsFiniteSet(map) /\ IsFiniteSet(pending) /\ IsFiniteSet(map \cup pending)
        /\ IsFiniteSet(map') /\ IsFiniteSet(pending') /\ IsFiniteSet(map' \cup pending')
    <2>1. /\ map \subseteq Ids /\ pending \subseteq Ids
          /\ map' \subseteq Ids /\ pending' \subseteq Ids
      BY DEF TypeOK
    <2> QED BY <2>1, SpawnersAssumption, FS_Subset
  <1>2. /\ Cardinality(map \cup pending) = Cardinality(map) + Cardinality(pending)
        /\ Cardinality(map' \cup pending') = Cardinality(map') + Cardinality(pending')
    BY <1>1, DisjointUnion
  <1>3. Cardinality(map') + Cardinality(pending') <= MaxNode
    <2>1. Cardinality(map' \cup pending') <= Cardinality(map \cup pending)
      BY <1>1, FS_Subset
    <2>2. /\ Cardinality(map \cup pending) \in Nat /\ Cardinality(map' \cup pending') \in Nat
          /\ MaxNode \in Nat
      BY <1>1, FS_CardinalityType, LimitsAssumption
    <2>3. Cardinality(map \cup pending) <= MaxNode
      BY <1>2 DEF Limited, AdmissionWithinLimits
    <2> QED BY <1>2, <2>1, <2>2, <2>3, SMT
  <1>4. ASSUME NEW p \in Profiles
        PROVE  \E l \in Limits :
                  Cardinality({i \in map' \cup pending' : prof'[i] = p}) <= l
    <2>1. PICK l \in Limits : Cardinality({i \in map \cup pending : prof[i] = p}) <= l
      BY DEF Limited, AdmissionWithinLimits
    <2> DEFINE A == {i \in map \cup pending : prof[i] = p}
               B == {i \in map' \cup pending' : prof'[i] = p}
    <2>2. B \subseteq A /\ A \subseteq map \cup pending
      OBVIOUS
    <2>3. Cardinality(A) <= l
      BY <2>1
    <2> HIDE DEF A, B
    <2>4. IsFiniteSet(A) /\ IsFiniteSet(B) /\ Cardinality(B) <= Cardinality(A)
      BY <1>1, <2>2, FS_Subset
    <2>5. Cardinality(B) <= l
      BY <2>3, <2>4, FS_CardinalityType, LimitsAssumption, SMT
    <2> QED BY <2>5 DEF B
  <1>5. MemoryOf(reg)' <= MaxMem
    <2>1. /\ prof \in [Ids -> Profiles] /\ reg \in SUBSET Ids /\ reg' \in SUBSET reg
          /\ MaxMem \in Nat
      BY LimitsAssumption DEF TypeOK
    <2>2. /\ Cardinality(Units(prof, reg')) <= Cardinality(Units(prof, reg))
          /\ Cardinality(Units(prof, reg')) \in Nat /\ Cardinality(Units(prof, reg)) \in Nat
      BY <2>1, UnitsMonotone, UnitsFinite
    <2>3. Cardinality(Units(prof, reg)) <= MaxMem
      BY MemoryIsUnits DEF Limited
    <2>4. MemoryOf(reg)' = Cardinality(Units(prof, reg'))
      BY MemoryIsUnits
    <2> QED BY <2>1, <2>2, <2>3, <2>4, SMT
  <1> QED BY <1>3, <1>4, <1>5 DEF Limited, AdmissionWithinLimits

\* A spawn that is admitted fits: count, profile and memory are looked at with every
\* other reservation in the registry.
LEMMA ReserveFits ==
    ASSUME TypeOK, Limited, Committed, NEW s \in Spawners, Reserve(s)
    PROVE  Limited'
  <1>1. PICK i \in Ids :
          /\ FreeId(i)
          /\ reg' = reg \cup {i} /\ pending' = pending \cup {i}
          /\ prof' = [prof EXCEPT ![i] = ProfileOf[s]]
    BY DEF Reserve
  <1>2. map' = map /\ ~ProfileFull(s) /\ Fits({}, ProfileOf[s])
    BY DEF Reserve
  <1>3. i \notin map /\ i \notin reg /\ i \notin pending
    BY <1>1 DEF FreeId, Committed
  <1>4. ProfileOf[s] \in Profiles /\ Cost[ProfileOf[s]] \in Nat /\ external \in Nat
        /\ MaxMem \in Nat /\ MaxNode \in Nat
    BY SpawnersAssumption, LimitsAssumption DEF TypeOK
  <1>5. /\ map \subseteq Ids /\ pending \subseteq Ids /\ reg \subseteq Ids
        /\ prof \in [Ids -> Profiles] /\ prof' \in [Ids -> Profiles]
    BY <1>1, <1>4 DEF TypeOK
  <1>6. IsFiniteSet(map) /\ IsFiniteSet(pending) /\ IsFiniteSet(map \cup pending)
    BY <1>5, SpawnersAssumption, FS_Subset
  <1>7. Cardinality(map') + Cardinality(pending') <= MaxNode
    <2>1. Cardinality(pending') = Cardinality(pending) + 1
      BY <1>1, <1>3, <1>6, FS_AddElement
    <2>2. Cardinality(map \ {}) + Cardinality(pending) < MaxNode
      BY <1>2 DEF Fits
    <2>3. map \ {} = map /\ Cardinality(map) \in Nat /\ Cardinality(pending) \in Nat
      BY <1>6, FS_CardinalityType
    <2> QED BY <1>2, <1>4, <2>1, <2>2, <2>3, SMT
  <1>8. ASSUME NEW p \in Profiles
        PROVE  \E l \in Limits :
                  Cardinality({j \in map' \cup pending' : prof'[j] = p}) <= l
    <2> DEFINE A == {j \in map \cup pending : prof[j] = p}
               B == {j \in map' \cup pending' : prof'[j] = p}
    <2>1. IsFiniteSet(A) /\ Cardinality(A) \in Nat
      BY <1>6, FS_Subset, FS_CardinalityType
    <2>2. CASE p = ProfileOf[s]
      <3>1. B = A \cup {i} /\ i \notin A
        BY <1>1, <1>2, <1>3, <1>5, <2>2
      <3>2. ~(Cardinality(A) >= limit[s])
        BY <1>2, <2>2 DEF ProfileFull, InProfile
      <3> HIDE DEF A, B
      <3>3. Cardinality(B) = Cardinality(A) + 1
        BY <2>1, <3>1, FS_AddElement
      <3>4. limit[s] \in Limits \cup {0} /\ limit[s] \in Nat
        BY LimitsAssumption, ZenonT(30) DEF TypeOK
      <3>5. limit[s] \in Limits /\ Cardinality(B) <= limit[s]
        BY <2>1, <3>2, <3>3, <3>4, SMT
      <3> QED BY <3>5 DEF B
    <2>3. CASE p # ProfileOf[s]
      <3>1. B = A
        BY <1>1, <1>2, <1>3, <1>5, <2>3
      <3> QED BY <3>1 DEF Limited, AdmissionWithinLimits
    <2> QED BY <2>2, <2>3
  <1>9. MemoryOf(reg)' <= MaxMem
    <2>1. Units(prof', reg) = Units(prof, reg)
      <3>1. \A j \in reg : prof'[j] = prof[j]
        BY <1>1, <1>3, <1>5
      <3> QED BY <3>1, UnitsSame
    <2>2. prof'[i] = ProfileOf[s]
      BY <1>1, <1>5
    <2>3. Cardinality(Units(prof', reg \cup {i}))
            = Cardinality(Units(prof', reg)) + Cost[prof'[i]]
      BY <1>3, <1>5, UnitsAdd
    <2>4. Cardinality(Units(prof, reg)) \in Nat
      BY <1>5, UnitsFinite
    <2>5. Cardinality(Units(prof, reg)) + external + Cost[ProfileOf[s]] <= MaxMem
      <3>1. reg \ {} = reg
        OBVIOUS
      <3> QED BY <1>2, <3>1, MemoryIsUnits DEF Fits
    <2>6. MemoryOf(reg)' = Cardinality(Units(prof, reg)) + Cost[ProfileOf[s]]
      BY <1>1, <2>1, <2>2, <2>3, MemoryIsUnits
    <2> QED BY <1>4, <2>4, <2>5, <2>6, SMT
  <1> QED BY <1>7, <1>8, <1>9 DEF Limited, AdmissionWithinLimits

LEMMA LimitedStep ==
    ASSUME IInv, [Next]_vars, TypeOK', Committed'
    PROVE  Limited'
  BY NothingElseReserves, ReserveFits, LimitedShrinks DEF IInv, Committed

-----------------------------------------------------------------------------
\* Plans

LEMMA PlansKept ==
    ASSUME TypeOK, Plans, Undisturbed
    PROVE  Plans'
  <1> SUFFICES ASSUME NEW s \in Spawners, pc'[s] = "commit"
               PROVE  /\ \A t \in Spawners : pc'[t] = "commit" => t = s
                      /\ \A i \in victims'[s] : i \in map' /\ in_flight'[i] = 0
                      /\ plan_current' => Needed(s)'
      BY DEF Plans
  <1>1. /\ pc[s] = "commit" /\ victims'[s] = victims[s] /\ map' = map /\ prof' = prof
        /\ \A i \in map : in_flight[i] = 0 => in_flight'[i] = 0
        /\ plan_current' => plan_current /\ reg' = reg /\ pending' = pending
    BY DEF Undisturbed
  <1>2. \A t \in Spawners : pc'[t] = "commit" => t = s
    BY <1>1 DEF Undisturbed, Plans
  <1>3. \A i \in victims'[s] : i \in map' /\ in_flight'[i] = 0
    BY <1>1 DEF Plans
  <1>4. ASSUME plan_current' PROVE Needed(s)'
    <2>1. Needed(s) /\ reg' = reg /\ pending' = pending
      BY <1>1, <1>4 DEF Plans
    <2> QED BY <1>1, <2>1 DEF Needed, MemoryOf
  <1> QED BY <1>2, <1>3, <1>4

\* A plan is made with the lock free, for a spawn that does not fit.
LEMMA PlanIsNeeded ==
    ASSUME TypeOK, Plans, NEW s \in Spawners, Plan(s)
    PROVE  Plans'
  <1>1. PICK V \in Victims(ProfileOf[s]) : victims' = [victims EXCEPT ![s] = V]
    BY DEF Plan
  <1>2. /\ pc' = [pc EXCEPT ![s] = "commit"] /\ ~Fits({}, ProfileOf[s])
        /\ \A t \in Spawners : pc[t] # "commit"
        /\ UNCHANGED <<map, in_flight, prof, reg, pending>>
    BY DEF Plan, AtPlan, AtLock, LockFree, Goto, instanceVars
  <1>3. \A t \in Spawners : pc'[t] = "commit" => t = s
    BY <1>2 DEF TypeOK
  <1>4. \A i \in victims'[s] : i \in map' /\ in_flight'[i] = 0
    BY <1>1, <1>2 DEF TypeOK, Victims, Idle
  <1>5. Needed(s)
    <2>1. map \ {} = map /\ reg \ {} = reg
      OBVIOUS
    <2>2. /\ external \in External /\ external \in Nat /\ MemoryOf(reg) \in Nat
          /\ Cost[ProfileOf[s]] \in Nat /\ MaxMem \in Nat
      BY LimitsAssumption, SpawnersAssumption, UnitsFinite, MemoryIsUnits DEF TypeOK
    <2>3. Cardinality(map) \in Nat /\ Cardinality(pending) \in Nat /\ MaxNode \in Nat
      BY LimitsAssumption, SpawnersAssumption, FS_Subset, FS_CardinalityType DEF TypeOK
    <2>4. \/ ~(MemoryOf(reg) + external + Cost[ProfileOf[s]] <= MaxMem)
          \/ ~(Cardinality(map) + Cardinality(pending) < MaxNode)
      BY <1>2, <2>1 DEF Fits
    <2> QED BY <2>2, <2>3, <2>4, SMT DEF Needed
  <1>6. Needed(s)'
    BY <1>2, <1>5 DEF Needed, MemoryOf
  <1> QED BY <1>3, <1>4, <1>6 DEF Plans

LEMMA PlansStep ==
    ASSUME IInv, [Next]_vars
    PROVE  Plans'
  BY SlotIsCounted, NothingElsePlans, PlansKept, PlanIsNeeded DEF IInv

-----------------------------------------------------------------------------
\* The invariant

LEMMA IInvInit == Init => IInv
  <1> SUFFICES ASSUME Init PROVE IInv
      OBVIOUS
  <1>1. TypeOK
    <2>1. /\ limit \in [Spawners -> Limits \cup {0}]
          /\ target \in [Spawners -> Ids \cup {NoOne}]
          /\ attempt \in [Spawners -> 0 .. MaxAttempts]
          /\ prof \in [Ids -> Profiles] /\ port \in [Ids -> Ports \cup {NoOne}]
          /\ external \in External
      BY LimitsAssumption, SMT DEF Init
    <2>2. /\ victims \in [Spawners -> SUBSET Ids] /\ holds \in [Spawners -> BOOLEAN]
          /\ in_flight \in [Ids -> Nat] /\ leaving \in [Ids -> Nat]
      BY DEF Init
    <2>3. /\ status \in [Ids -> {"starting", "ready", "failed"}]
          /\ proc \in [Ids -> {"none", "up", "exited", "dying"}]
          /\ draining \in [Ids -> {"no", "competitor", "forced"}]
      BY DEF Init
    <2>4. /\ map = {} /\ reg = {} /\ pending = {} /\ used = {} /\ dropping = {}
          /\ batches = {} /\ plan_current = FALSE /\ owed = FALSE /\ waking = FALSE
          /\ max_instances \in Limits /\ pc = [s \in Spawners |-> "new"]
      BY DEF Init
    <2> QED BY <2>1, <2>2, <2>3, <2>4 DEF TypeOK
  <1>2. Attempts
    BY DEF Init, Attempts, Spawning, Reserving, Unstarted, Using
  <1>3. Committed
    BY DEF Init, Committed
  <1>4. Leases
    BY DEF Init, Leases, PortsAreOwned, Leasing
  <1>5. Slots
    <2>1. \A i \in Ids : Holders(i) = {} /\ leaving[i] = 0 /\ i \notin map
      BY DEF Init, Holders
    <2>2. \A s \in Spawners : pc[s] # "serve"
      BY DEF Init
    <2> QED BY <2>1, <2>2, SMT DEF Slots
  <1>6. Limited
    <2>1. map = {} /\ pending = {} /\ reg = {}
      BY DEF Init
    <2>2. Cardinality({}) = 0
      BY FS_EmptySet
    <2>3. Cardinality(map) + Cardinality(pending) <= MaxNode
      BY <2>1, <2>2, LimitsAssumption, SMT
    <2>4. ASSUME NEW p \in Profiles
          PROVE  \E l \in Limits : Cardinality({i \in map \cup pending : prof[i] = p}) <= l
      <3>1. {i \in map \cup pending : prof[i] = p} = {}
        BY <2>1
      <3>2. PICK l \in Limits : l \in Nat
        BY LimitsAssumption
      <3> QED BY <2>2, <3>1, <3>2, SMT
    <2>5. Units(prof, reg) = {}
      BY <2>1 DEF Units
    <2>6. MemoryOf(reg) <= MaxMem
      BY <2>2, <2>5, MemoryIsUnits, LimitsAssumption, SMT
    <2> QED BY <2>3, <2>4, <2>6 DEF Limited, AdmissionWithinLimits
  <1>7. Plans
    BY DEF Init, Plans
  <1> QED BY <1>1, <1>2, <1>3, <1>4, <1>5, <1>6, <1>7 DEF IInv

\* Every step keeps each part of the invariant.
LEMMA IInvStep == IInv /\ [Next]_vars => IInv'
  BY SlotIsCounted, TypeStep, AttemptsStep, CommittedStep, LeasesStep, SlotsStep,
     LimitedStep, PlansStep
     DEF IInv

-----------------------------------------------------------------------------
\* Theorems

\* try_get_or_spawn_resolved admits no more than max_instances_per_node, the profile's
\* max_instances and the memory limit allow, for any number of concurrent admissions,
\* evictions, cancellations and crashes: what is reserved, mapped, running or not yet
\* reaped always fits.
THEOREM AdmissionsAlwaysFit == Spec => []AdmissionsFit
  <1>1. ASSUME IInv PROVE AdmissionsFit
    <2> DEFINE R == {i \in Ids : proc[i] \in {"up", "dying"}}
    <2>1. R \subseteq reg
      BY <1>1 DEF IInv, Committed
    <2>2. /\ prof \in [Ids -> Profiles] /\ reg \in SUBSET Ids /\ R \in SUBSET reg
          /\ R \in SUBSET Ids /\ MaxMem \in Nat
      BY <1>1, <2>1, LimitsAssumption DEF IInv, TypeOK
    <2> HIDE DEF R
    <2>3. /\ Cardinality(Units(prof, R)) <= Cardinality(Units(prof, reg))
          /\ Cardinality(Units(prof, R)) \in Nat /\ Cardinality(Units(prof, reg)) \in Nat
      BY <2>2, UnitsMonotone, UnitsFinite
    <2>4. Cardinality(Units(prof, reg)) <= MaxMem
      BY <1>1, MemoryIsUnits DEF IInv, Limited
    <2>5. MemoryOf(R) <= MaxMem
      BY <2>2, <2>3, <2>4, MemoryIsUnits, SMT
    <2> QED BY <1>1, <2>5 DEF R, IInv, Limited, AdmissionsFit, MemoryWithinLimit
  <1> QED BY <1>1, IInvInit, IInvStep, PTL DEF Spec

\* Every port has one owner from its lease to its return, every process keeps its memory
\* commitment until it is reaped, and the slots of a mapped instance are those of the
\* requests on it and of the guards that have not run, on every path of failure, retry,
\* cancellation and crash.
THEOREM ResourcesStayOwned == Spec => []ResourcesAreOwned
  <1>1. ASSUME IInv PROVE ResourcesAreOwned
    <2>1. ProcessesAreCommitted
      BY <1>1 DEF IInv, Committed, ProcessesAreCommitted
    <2>2. SlotsAreHeld
      BY <1>1 DEF IInv, TypeOK, Slots, SlotsAreHeld
    <2> QED BY <1>1, <2>1, <2>2 DEF IInv, Leases, ResourcesAreOwned
  <1> QED BY <1>1, IInvInit, IInvStep, PTL DEF Spec

\* with_revision lets an eviction plan through only if the spawn still does not fit
\* without it, whatever was released between the plan and its commit.
THEOREM EvictionsAreNecessary == Spec => EvictionIsNecessary
  <1>1. IInv /\ [Next]_vars =>
          [\A s \in Spawners :
              pc[s] = "commit" /\ pc'[s] = "retire" =>
                  \/ \E e \in External : MemoryOf(reg) + e + Cost[ProfileOf[s]] > MaxMem
                  \/ Cardinality(map) + Cardinality(pending) >= MaxNode]_vars
    <2> SUFFICES ASSUME IInv, Next, NEW s \in Spawners, pc[s] = "commit", pc'[s] = "retire"
                 PROVE  Needed(s)
        BY DEF Needed
    <2>1. Evict(s)
      BY CommitsAreEvictions DEF CommitIsEviction
    <2> QED BY <2>1 DEF Evict, PlanHolds, IInv, Plans
  <1> QED BY <1>1, IInvInit, IInvStep, PTL DEF Spec, EvictionIsNecessary

\* No eviction, prune or sweep takes a live instance from the requests on it, but for the
\* drain of cold-start recovery, and no slot is returned while its instance loads.
THEOREM UsedInstancesStay == Spec => UsedInstancesAreKept
  <1>1. IInv /\ [Next]_vars => [BusyInstancesAreKept /\ LoadKeepsItsSlots]_vars
    BY OnlyUnusedLeave, LoadsKeepSlots
  <1> QED BY <1>1, IInvInit, IInvStep, PTL DEF Spec, UsedInstancesAreKept

=============================================================================
