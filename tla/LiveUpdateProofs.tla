-------------------------- MODULE LiveUpdateProofs --------------------------
(***************************************************************************)
(* Proofs about LiveUpdate, for any number of instances, swaps and reloads. *)
(*                                                                         *)
(* NoStaleBuild and NoStaleArgs speak of instances in the map.  What makes  *)
(* them inductive is what a spawn knows before it gets there: a build at    *)
(* least as new as the generation it read, and arguments that are the       *)
(* cookbook's unless the version it recorded has moved.  Both also need the *)
(* stronger reading of a drain: only one that is not the scheduler's keeps  *)
(* an outdated instance from taking requests for good.                      *)
(***************************************************************************)
EXTENDS LiveUpdate, TLAPS

\* Spawns that have not inserted their instance
Starting == {i \in Ids : pc[i] \notin {"mapped", "gone"}}

\* Drained for an update
Retired(i) == draining[i] /\ ~for_competitor[i]

\* The generation follows the link, and the watcher follows the generation
GenerationsInOrder ==
    /\ last_gen <= seen_gen /\ seen_gen <= generation /\ generation <= link

\* No version is recorded before the cookbook has it
VersionsInOrder ==
    /\ reload = "indexed" => version < MaxReloads
    /\ \A i \in Ids : resolved[i] <= version /\ seen[i] <= version /\ checked[i] <= version

\* Nothing drains an instance that is not in the map yet
StartingUndrained ==
    \A i \in Starting : ~draining[i] /\ ~for_competitor[i] /\ ~trigger[i]

\* A process runs a build at least as new as the generation its spawn read
BuildFollowsGeneration ==
    \A i \in Ids :
       /\ pc[i] \in {"path", "exec", "compare", "check", "insert"} => spawn_gen[i] <= generation
       /\ pc[i] \in {"exec", "compare", "check", "insert"} => spawn_gen[i] <= build[i]

\* The arguments of i are the cookbook's, unless the version has moved past v
\* or is about to
CurrentSince(i, v) == v = version /\ reload # "indexed" => args[i] = index

\* What each step of a spawn knows of its arguments
ArgsFollowVersion ==
    \A i \in Ids :
       /\ pc[i] \in {"adopt", "lookup", "confirm", "spawn", "path", "exec"} =>
             CurrentSince(i, resolved[i])
       /\ pc[i] = "confirm" => CurrentSince(i, seen[i])
       /\ pc[i] = "check" /\ ~replaced[i] => CurrentSince(i, seen[i])
       /\ pc[i] = "insert" /\ ~replaced[i] => CurrentSince(i, checked[i])

BuildsRetired == \A i \in Mapped : Retired(i) \/ build[i] >= last_gen

ArgsRetired == reload = "idle" => \A i \in Mapped : Retired(i) \/ args[i] = index

IInv ==
    /\ TypeOK /\ GenerationsInOrder /\ VersionsInOrder /\ StartingUndrained
    /\ BuildFollowsGeneration /\ ArgsFollowVersion /\ BuildsRetired /\ ArgsRetired

----------------------------------------------------------------------------
\* The initial states satisfy the inductive invariant.
LEMMA InitIInv == Init => IInv
<1> SUFFICES ASSUME Init PROVE IInv
  OBVIOUS
<1> USE LiveUpdateAssumption DEF Init
<1>1. TypeOK
  <2>1. /\ 0 \in 0 .. MaxSwaps /\ 0 \in 0 .. MaxReloads
        /\ index \in Args \cup {NoProfile} /\ NoProfile \in Args \cup {NoProfile}
    OBVIOUS
  <2>2. QED
    BY <2>1, Zenon DEF TypeOK
<1>2. GenerationsInOrder
  BY DEF GenerationsInOrder
<1>3. VersionsInOrder
  BY DEF VersionsInOrder
<1>4. StartingUndrained
  BY DEF StartingUndrained, Starting
<1>5. BuildFollowsGeneration
  BY DEF BuildFollowsGeneration
<1>6. ArgsFollowVersion
  BY DEF ArgsFollowVersion, CurrentSince
<1>7. BuildsRetired
  BY DEF BuildsRetired, Mapped
<1>8. ArgsRetired
  BY Zenon DEF ArgsRetired, Mapped
<1>9. QED
  BY <1>1, <1>2, <1>3, <1>4, <1>5, <1>6, <1>7, <1>8 DEF IInv

\* Every step preserves the inductive invariant.
LEMMA NextIInv == IInv /\ [Next]_vars => IInv'
<1> SUFFICES ASSUME IInv, [Next]_vars PROVE IInv'
  OBVIOUS
<1> USE LiveUpdateAssumption
<1> USE DEF IInv, TypeOK, GenerationsInOrder, VersionsInOrder, StartingUndrained,
          BuildFollowsGeneration, ArgsFollowVersion, BuildsRetired, ArgsRetired, CurrentSince,
          Starting, Retired, Mapped
<1> USE DEF buildVars, cookVars, spawnVars, drainVars, schedVars, Others
<1>1. CASE SwapLink
  BY <1>1 DEF SwapLink
<1>2. CASE SignalSwap
  BY <1>2 DEF SignalSwap
<1>3. CASE WatcherWakes
  <2>1. TypeOK'
    BY <1>3, Zenon DEF WatcherWakes
  <2>2. GenerationsInOrder'
    BY <1>3 DEF WatcherWakes
  <2>3. VersionsInOrder'
    BY <1>3 DEF WatcherWakes
  <2>4. StartingUndrained'
    BY <1>3 DEF WatcherWakes
  <2>5. BuildFollowsGeneration'
    BY <1>3 DEF WatcherWakes
  <2>6. ArgsFollowVersion'
    BY <1>3 DEF WatcherWakes
  <2>7. BuildsRetired'
    BY <1>3 DEF WatcherWakes
  <2>8. ArgsRetired'
    BY <1>3 DEF WatcherWakes
  <2>9. QED
    BY <2>1, <2>2, <2>3, <2>4, <2>5, <2>6, <2>7, <2>8
<1>4. CASE WatcherDrains
  <2>1. TypeOK'
    BY <1>4 DEF WatcherDrains, DrainForGood
  <2>2. GenerationsInOrder'
    BY <1>4 DEF WatcherDrains, DrainForGood
  <2>3. VersionsInOrder'
    BY <1>4 DEF WatcherDrains, DrainForGood
  <2>4. StartingUndrained'
    BY <1>4 DEF WatcherDrains, DrainForGood
  <2>5. BuildFollowsGeneration'
    BY <1>4 DEF WatcherDrains, DrainForGood
  <2>6. ArgsFollowVersion'
    BY <1>4 DEF WatcherDrains, DrainForGood
  <2>7. BuildsRetired'
    BY <1>4, Zenon DEF WatcherDrains, DrainForGood
  <2>8. ArgsRetired'
    BY <1>4 DEF WatcherDrains, DrainForGood
  <2>9. QED
    BY <2>1, <2>2, <2>3, <2>4, <2>5, <2>6, <2>7, <2>8
<1>5. CASE RebuildIndex
  BY <1>5 DEF RebuildIndex
<1>6. CASE BumpVersion
  BY <1>6 DEF BumpVersion
<1>7. CASE Reconcile
  BY <1>7, ZenonT(20) DEF Reconcile, DrainForGood, Outdated
<1>8. CASE CompetitorChanges
  BY <1>8 DEF CompetitorChanges
<1>9. ASSUME NEW i \in Ids, Sample(i) PROVE IInv'
  BY <1>9 DEF Sample, Step
<1>10. ASSUME NEW i \in Ids, Resolve(i) PROVE IInv'
  BY <1>10 DEF Resolve, Step
<1>11. ASSUME NEW i \in Ids, KeepProfile(i) PROVE IInv'
  BY <1>11 DEF KeepProfile, Step
<1>12. ASSUME NEW i \in Ids, ObserveReload(i) PROVE IInv'
  BY <1>12 DEF ObserveReload, Step
<1>13. ASSUME NEW i \in Ids, Lookup(i) PROVE IInv'
  BY <1>13 DEF Lookup, Step
<1>14. ASSUME NEW i \in Ids, Confirm(i) PROVE IInv'
  BY <1>14 DEF Confirm, Step
<1>15. ASSUME NEW i \in Ids, ReadGeneration(i) PROVE IInv'
  BY <1>15 DEF ReadGeneration, Step
<1>16. ASSUME NEW i \in Ids, Exec(i) PROVE IInv'
  BY <1>16 DEF Exec, Step
<1>17. ASSUME NEW i \in Ids, SeeVersion(i) PROVE IInv'
  BY <1>17 DEF SeeVersion, Step
<1>18. ASSUME NEW i \in Ids, Compare(i) PROVE IInv'
  BY <1>18, Zenon DEF Compare, Step
<1>19. ASSUME NEW i \in Ids, CheckVersion(i) PROVE IInv'
  <2>1. TypeOK'
    BY <1>19 DEF CheckVersion, Step
  <2>2. GenerationsInOrder'
    BY <1>19 DEF CheckVersion, Step
  <2>3. VersionsInOrder'
    BY <1>19 DEF CheckVersion, Step
  <2>4. StartingUndrained'
    BY <1>19 DEF CheckVersion, Step
  <2>5. BuildFollowsGeneration'
    BY <1>19 DEF CheckVersion, Step
  <2>6. ArgsFollowVersion'
    BY <1>19, ZenonT(20) DEF CheckVersion, Step
  <2>7. BuildsRetired'
    BY <1>19 DEF CheckVersion, Step
  <2>8. ArgsRetired'
    BY <1>19 DEF CheckVersion, Step
  <2>9. QED
    BY <2>1, <2>2, <2>3, <2>4, <2>5, <2>6, <2>7, <2>8
<1>20. ASSUME NEW i \in Ids, Insert(i) PROVE IInv'
  <2>1. TypeOK'
    BY <1>20 DEF Insert, SpawnedAcrossUpdate, Step
  <2>2. GenerationsInOrder'
    BY <1>20 DEF Insert, SpawnedAcrossUpdate, Step
  <2>3. VersionsInOrder'
    BY <1>20 DEF Insert, SpawnedAcrossUpdate, Step
  <2>4. StartingUndrained'
    BY <1>20 DEF Insert, SpawnedAcrossUpdate, Step
  <2>5. BuildFollowsGeneration'
    BY <1>20 DEF Insert, SpawnedAcrossUpdate, Step
  <2>6. ArgsFollowVersion'
    BY <1>20 DEF Insert, SpawnedAcrossUpdate, Step
  <2>7. BuildsRetired'
    <3> SUFFICES ASSUME NEW j \in Ids, pc'[j] = "mapped", ~Retired(j)'
                 PROVE  build'[j] >= last_gen'
      BY DEF Retired
    <3>1. CASE j = i
      <4>1. draining'[i] = SpawnedAcrossUpdate(i) /\ ~for_competitor'[i]
        BY <1>20, Zenon DEF Insert, Step
      <4>2. generation = spawn_gen[i]
        BY <3>1, <4>1, Zenon DEF SpawnedAcrossUpdate
      <4>3. QED
        BY <1>20, <3>1, <4>2 DEF Insert, Step
    <3>2. CASE j # i
      BY <1>20, <3>2 DEF Insert, Step
    <3>3. QED
      BY <3>1, <3>2
  <2>8. ArgsRetired'
    BY <1>20, Zenon DEF Insert, SpawnedAcrossUpdate, Step
  <2>9. QED
    BY <2>1, <2>2, <2>3, <2>4, <2>5, <2>6, <2>7, <2>8
<1>21. ASSUME NEW i \in Ids, Join(i) PROVE IInv'
  BY <1>21 DEF Join, Step
<1>22. ASSUME NEW i \in Ids, DrainForCompetitor(i) PROVE IInv'
  BY <1>22 DEF DrainForCompetitor, Step
<1>23. ASSUME NEW i \in Ids, ListDrain(i) PROVE IInv'
  BY <1>23 DEF ListDrain, Step
<1>24. ASSUME NEW i \in Ids, CheckDrain(i) PROVE IInv'
  BY <1>24 DEF CheckDrain, Step
<1>25. ASSUME NEW i \in Ids, CancelDrain(i) PROVE IInv'
  <2>1. UNCHANGED <<buildVars, cookVars, spawnVars, busy>>
    BY <1>25 DEF CancelDrain
  <2>2. TypeOK'
    <3>1. cancel' \in [Ids -> {"no", "listed", "clear"}] /\ competitor' \in BOOLEAN
          /\ trigger' \in [Ids -> BOOLEAN]
      BY <1>25 DEF CancelDrain
    <3>2. draining' \in [Ids -> BOOLEAN] /\ for_competitor' \in [Ids -> BOOLEAN]
      BY <1>25, Zenon DEF CancelDrain
    <3>3. QED
      BY <2>1, <3>1, <3>2, Zenon
  <2>3. GenerationsInOrder' /\ VersionsInOrder' /\ BuildFollowsGeneration' /\ ArgsFollowVersion'
    BY <2>1, Zenon
  <2>4. StartingUndrained'
    BY <1>25, <2>1 DEF CancelDrain, StillForCompetitor
  <2>5. BuildsRetired' /\ ArgsRetired'
    BY <1>25, <2>1 DEF CancelDrain, StillForCompetitor
  <2>6. QED
    BY <2>2, <2>3, <2>4, <2>5
<1>26. ASSUME NEW i \in Ids, SweepNow(i) PROVE IInv'
  BY <1>26 DEF SweepNow, Step
<1>27. ASSUME NEW i \in Ids, SweepIdle(i) PROVE IInv'
  BY <1>27 DEF SweepIdle, Step
<1>28. ASSUME NEW i \in Ids, NEW last \in BOOLEAN, Finish(i, last) PROVE IInv'
  BY <1>28 DEF Finish
<1>29. CASE UNCHANGED vars
  BY <1>29 DEF vars
<1>30. QED
  BY <1>1, <1>2, <1>3, <1>4, <1>5, <1>6, <1>7, <1>8, <1>9, <1>10, <1>11, <1>12, <1>13,
     <1>14, <1>15, <1>16, <1>17, <1>18, <1>19, <1>20, <1>21, <1>22, <1>23, <1>24, <1>25,
     <1>26, <1>27, <1>28, <1>29, ZenonT(30) DEF Next, Swap, Reload, Spawn, Schedule

----------------------------------------------------------------------------
\* In every behaviour the inductive invariant always holds.
LEMMA AlwaysIInv == Spec => []IInv
  BY InitIInv, NextIInv, PTL DEF Spec

\* Every variable keeps its type, whatever the updaters, the spawns and the
\* scheduler do.
THEOREM TypesAreKept == Spec => []TypeOK
<1>1. IInv => TypeOK
  BY DEF IInv
<1>2. QED
  BY <1>1, AlwaysIInv, PTL

\* The re-check of the generation at the map insertion, with the watcher's drain,
\* leaves no instance of a replaced build that takes requests.
THEOREM NoStaleBuildHolds == Spec => []NoStaleBuild
<1>1. IInv => NoStaleBuild
  BY DEF IInv, BuildsRetired, Retired, NoStaleBuild, Mapped
<1>2. QED
  BY <1>1, AlwaysIInv, PTL

\* The three readings of the cookbook version around an insertion, with the
\* reload's reconciliation, leave no instance with replaced arguments that takes
\* requests.
THEOREM NoStaleArgsHolds == Spec => []NoStaleArgs
<1>1. IInv => NoStaleArgs
  BY DEF IInv, ArgsRetired, Retired, NoStaleArgs, Mapped
<1>2. QED
  BY <1>1, AlwaysIInv, PTL

\* No step takes back a drain for an update: the cancellation re-reads the reason
\* under the instance's lock, and an insertion finds its instance undrained.
THEOREM UpdateDrainIsFinalHolds == Spec => UpdateDrainIsFinal
<1> DEFINE Kept == \A i \in Ids : draining[i] /\ ~for_competitor[i] =>
                                   draining'[i] /\ ~for_competitor'[i]
<1>1. IInv /\ [Next]_vars => [Kept]_vars
  <2> SUFFICES ASSUME IInv, Next PROVE Kept
    OBVIOUS
  <2> USE DEF IInv, TypeOK, drainVars
  <2>1. CASE Swap
    BY <2>1 DEF Swap, SwapLink, SignalSwap, WatcherWakes, WatcherDrains, DrainForGood, Mapped,
                StartingUndrained, Starting
  <2>2. CASE Reload
    BY <2>2 DEF Reload, RebuildIndex, BumpVersion, Reconcile, DrainForGood, Outdated
  <2>3. CASE CompetitorChanges
    BY <2>3 DEF CompetitorChanges
  <2>4. ASSUME NEW i \in Ids, Spawn(i) PROVE Kept
    <3>1. CASE Insert(i)
      BY <3>1 DEF Insert, Step, StartingUndrained, Starting
    <3>2. CASE ~Insert(i)
      BY <2>4, <3>2 DEF Spawn, Sample, Resolve, KeepProfile, ObserveReload, Lookup, Confirm,
                        ReadGeneration, Exec, SeeVersion, Compare, CheckVersion, Others
    <3>3. QED
      BY <3>1, <3>2
  <2>5. ASSUME NEW i \in Ids, Schedule(i) PROVE Kept
    BY <2>5 DEF Schedule, DrainForCompetitor, ListDrain, CheckDrain, CancelDrain,
                StillForCompetitor
  <2>6. ASSUME NEW i \in Ids,
               \/ Join(i) \/ Finish(i, TRUE) \/ Finish(i, FALSE)
               \/ SweepNow(i) \/ SweepIdle(i)
        PROVE  Kept
    BY <2>6 DEF Join, Finish, SweepNow, SweepIdle, Others
  <2>7. QED
    BY <2>1, <2>2, <2>3, <2>4, <2>5, <2>6, Zenon DEF Next
<1>2. QED
  BY <1>1, AlwaysIInv, PTL DEF Spec, UpdateDrainIsFinal

============================================================================
