------------------------- MODULE BuildManagerProofs -------------------------
(***************************************************************************)
(* Proofs about BuildManager, for any set of commits, any of them broken,   *)
(* any keep_builds and retry counts, and any number of upstream changes and *)
(* crashes: the link only points at a binary that does not run once a       *)
(* rebuild of the live build itself wrote over it, the recorded version is  *)
(* the live one, and cleanup keeps its rollbacks.                           *)
(*                                                                         *)
(* The argument follows one attempt.  Between its verification and the      *)
(* rename nothing touches the binary it verified: the lock keeps other      *)
(* attempts out, and a kill ends the attempt.  Between the rename and the   *)
(* record the link is the attempt's target.  Cleanup and a killed removal   *)
(* spare the link.  A link step writes over a binary that was there, and    *)
(* then says so, or makes one that was not, which was not live.             *)
(***************************************************************************)
EXTENDS BuildManager, TLAPS

\* What an attempt knows at each of its steps.
Attempting ==
    /\ phase # "none" => holder \in Tasks
    /\ phase \notin {"none", "fetch"} => target \in Commits
    /\ phase = "link" /\ target = link => link \in rewritten
    /\ phase = "swap" => bin[target] = "good"
    /\ phase = "swapped" => link = target

\* No directory is older than itself.
Ordered == \A c \in Commits : c \notin older[c]

IInv == LinkIsSound /\ Attempting /\ Ordered

LEMMA IInvInit == Init => IInv
  <1> SUFFICES ASSUME Init PROVE IInv
    OBVIOUS
  <1>1. TypeOK
    <2>1. \A t \in Tasks : 0 <= MaxRetries[t]
      BY BuildAssumption DEF MaxRetries, Tasks
    <2>2. moves \in 0 .. MaxMoves /\ crashes \in 0 .. MaxCrashes
      BY BuildAssumption DEF Init
    <2>3. /\ task \in [Tasks -> {"idle", "waiting", "running", "sleeping", "done"}]
          /\ retries \in [Tasks -> Nat] /\ \A t \in Tasks : retries[t] <= MaxRetries[t]
      BY <2>1 DEF Init
    <2>4. head \in Commits
      BY BuildAssumption DEF Init
    <2> QED BY <2>2, <2>3, <2>4 DEF Init, TypeOK
  <1> QED BY <1>1
          DEF Init, IInv, LinkIsSound, LiveBuildWorks, VersionIsLive, Attempting, Ordered

----------------------------------------------------------------------------
(* Types.                                                                  *)

LEMMA MaxRetriesType == MaxRetries \in [Tasks -> Nat]
  BY BuildAssumption DEF MaxRetries, Tasks

\* What the return of an attempt leaves in the process.
LEMMA ReturnTypes ==
    ASSUME TypeOK, NEW ok \in BOOLEAN, holder \in Tasks, Return(ok)
    PROVE  /\ task' \in [Tasks -> {"idle", "waiting", "running", "sleeping", "done"}]
           /\ retries' \in [Tasks -> Nat] /\ \A t \in Tasks : retries'[t] <= MaxRetries[t]
           /\ holder' \in Tasks \cup {"nobody"} /\ phase' = "none"
           /\ target' \in Commits \cup {NoCommit} /\ fresh' \in BOOLEAN
           /\ building' \in BOOLEAN
  <1>1. AfterAttempt(holder, ok) \in {"sleeping", "done", "idle"}
    BY DEF AfterAttempt
  <1>2. task' \in [Tasks -> {"idle", "waiting", "running", "sleeping", "done"}]
    BY <1>1 DEF Return, TypeOK
  <1>3. AfterAttempt(holder, ok) = "sleeping" => retries[holder] < MaxRetries[holder]
    BY DEF AfterAttempt
  <1> DEFINE n == IF AfterAttempt(holder, ok) = "sleeping" THEN retries[holder] + 1 ELSE 0
  <1>4. n \in Nat /\ n <= MaxRetries[holder]
    BY <1>3, MaxRetriesType DEF TypeOK
  <1>5. retries' = [retries EXCEPT ![holder] = n]
    BY DEF Return
  <1> HIDE DEF n
  <1>6. retries' \in [Tasks -> Nat] /\ \A t \in Tasks : retries'[t] <= MaxRetries[t]
    BY <1>4, <1>5 DEF TypeOK
  <1> QED BY <1>2, <1>6 DEF Return

LEMMA GotoTypes ==
    ASSUME TypeOK, NEW p, Goto(p),
           p \in {"prepare", "compile", "link", "swap", "swapped", "cleanup"}
    PROVE  /\ task' \in [Tasks -> {"idle", "waiting", "running", "sleeping", "done"}]
           /\ retries' \in [Tasks -> Nat] /\ \A t \in Tasks : retries'[t] <= MaxRetries[t]
           /\ holder' \in Tasks \cup {"nobody"}
           /\ phase' \in {"none", "fetch", "select", "prepare", "compile", "link",
                          "verify", "swap", "swapped", "cleanup"}
           /\ target' \in Commits \cup {NoCommit} /\ fresh' \in BOOLEAN
  BY DEF Goto, TypeOK, taskVars

LEMMA TypeStep ==
    ASSUME IInv, [Next]_vars
    PROVE  TypeOK'
  <1>0. TypeOK /\ Attempting
    BY DEF IInv, LinkIsSound
  <1>1. ASSUME NEW t \in Tasks, Begin(t) PROVE TypeOK'
    BY <1>0, <1>1 DEF Begin, TypeOK, diskVars, memVars, envVars
  <1>2. ASSUME InitialSkips \/ ScheduledTick \/ \E t \in Tasks : RetryWakes(t) PROVE TypeOK'
    <2>1. task' \in [Tasks -> {"idle", "waiting", "running", "sleeping", "done"}]
      BY <1>0, <1>2 DEF InitialSkips, ScheduledTick, RetryWakes, TypeOK, Tasks
    <2>2. retries' \in [Tasks -> Nat] /\ \A t \in Tasks : retries'[t] <= MaxRetries[t]
      <3>1. CASE retries' = retries
        BY <1>0, <3>1 DEF TypeOK
      <3>2. CASE retries' = [retries EXCEPT !["scheduled"] = 0]
        <4>1. 0 <= MaxRetries["scheduled"]
          BY MaxRetriesType DEF Tasks
        <4> QED BY <1>0, <3>2, <4>1 DEF TypeOK
      <3> QED BY <1>2, <3>1, <3>2 DEF InitialSkips, ScheduledTick, RetryWakes
    <2> QED BY <1>0, <1>2, <2>1, <2>2
            DEF InitialSkips, ScheduledTick, RetryWakes, TypeOK, diskVars, attemptVars,
                memVars, envVars
  <1>3. ASSUME Fail \/ VerifyFails \/ CleanupEnds PROVE TypeOK'
    <2>1. \E ok \in BOOLEAN : Return(ok)
      BY <1>3 DEF Fail, VerifyFails, CleanupEnds
    <2>2. holder \in Tasks
      BY <1>0, <1>3 DEF Fail, VerifyFails, CleanupEnds, CanFail, At, Attempting
    <2>3. bin' \in [Commits -> {"none", "bad", "good"}]
      BY <1>0, <1>3 DEF Fail, VerifyFails, CleanupEnds, TypeOK, diskVars
    <2> QED BY <1>0, <1>3, <2>1, <2>2, <2>3, ReturnTypes
            DEF Fail, VerifyFails, CleanupEnds, TypeOK, diskVars, envVars
  <1>4. ASSUME ReuseLive PROVE TypeOK'
    <2>1. holder \in Tasks
      BY <1>0, <1>4 DEF ReuseLive, At, Attempting
    <2> QED BY <1>0, <1>4, <2>1, ReturnTypes DEF ReuseLive, TypeOK, diskVars, envVars
  <1>5. ASSUME Signal PROVE TypeOK'
    <2>1. holder \in Tasks
      BY <1>0, <1>5 DEF Signal, At, Attempting
    <2>2. CASE fresh
      BY <1>0, <1>5, <2>2, GotoTypes DEF Signal, TypeOK, diskVars, envVars
    <2>3. CASE ~fresh
      BY <1>0, <1>5, <2>1, <2>3, ReturnTypes DEF Signal, TypeOK, diskVars, envVars
    <2> QED BY <2>2, <2>3
  <1>6. ASSUME Fetch PROVE TypeOK'
    BY <1>0, <1>6 DEF Fetch, TypeOK, diskVars, taskVars, memVars, envVars
  <1>7. ASSUME ReuseBuilt \/ VerifyPasses PROVE TypeOK'
    BY <1>0, <1>7, GotoTypes
       DEF ReuseBuilt, VerifyPasses, TypeOK, diskVars, memVars, envVars
  <1>8. ASSUME StartBuild PROVE TypeOK'
    BY <1>0, <1>8, GotoTypes DEF StartBuild, TypeOK, diskVars, envVars
  <1>9. ASSUME Prepare PROVE TypeOK'
    <2>1. target \in Commits
      BY <1>0, <1>9 DEF Prepare, At, Attempting
    <2>2. objs' \in [Commits -> {"none", "whole", "torn"}]
      BY <1>0, <1>9, <2>1 DEF Prepare, TypeOK
    <2>3. older' \in [Commits -> SUBSET Commits]
      <3>1. Without(target) \in [Commits -> SUBSET Commits]
        BY <1>0 DEF Without, TypeOK
      <3>2. Directories \in SUBSET Commits
        BY DEF Directories
      <3> QED BY <1>0, <1>9, <2>1, <3>1, <3>2 DEF Prepare, TypeOK
    <2> QED BY <1>0, <1>9, <2>1, <2>2, <2>3, GotoTypes DEF Prepare, TypeOK, envVars
  <1>10. ASSUME UpToDate \/ BeginLink \/ EndLink PROVE TypeOK'
    <2>1. target \in Commits
      BY <1>0, <1>10 DEF UpToDate, BeginLink, EndLink, At, Attempting
    <2>2. bin' \in [Commits -> {"none", "bad", "good"}]
      BY <1>0, <1>10, <2>1 DEF UpToDate, BeginLink, EndLink, TypeOK, diskVars
    <2>3. rewritten' \subseteq Commits
      BY <1>0, <1>10, <2>1 DEF UpToDate, BeginLink, EndLink, TypeOK, diskVars
    <2>4. CASE UpToDate
      BY <1>0, <2>4 DEF UpToDate, TypeOK, diskVars, taskVars, memVars, envVars
    <2>5. CASE BeginLink
      BY <1>0, <2>2, <2>3, <2>5, GotoTypes DEF BeginLink, TypeOK, memVars, envVars
    <2>6. CASE EndLink
      BY <1>0, <2>2, <2>6 DEF EndLink, TypeOK, taskVars, memVars, envVars
    <2> QED BY <1>10, <2>4, <2>5, <2>6
  <1>11. ASSUME SwapLink PROVE TypeOK'
    BY <1>0, <1>11, GotoTypes DEF SwapLink, TypeOK, memVars, envVars
  <1>12. ASSUME RemoveBuild PROVE TypeOK'
    <2>1. PICK c \in Doomed : /\ objs' = [objs EXCEPT ![c] = "none"]
                              /\ bin' = [bin EXCEPT ![c] = "none"]
                              /\ older' = Without(c)
                              /\ rewritten' = rewritten \ {c}
      BY <1>12 DEF RemoveBuild
    <2>2. older' \in [Commits -> SUBSET Commits]
      BY <1>0, <2>1 DEF Without, TypeOK
    <2> QED BY <1>0, <1>12, <2>1, <2>2
            DEF RemoveBuild, TypeOK, taskVars, attemptVars, memVars, envVars
  <1>13. ASSUME UpstreamMoves PROVE TypeOK'
    <2>1. moves' \in 0 .. MaxMoves
      BY <1>0, <1>13, BuildAssumption DEF UpstreamMoves, TypeOK
    <2> QED BY <1>0, <1>13, <2>1
            DEF UpstreamMoves, TypeOK, diskVars, taskVars, attemptVars, memVars
  <1>14. ASSUME Crash PROVE TypeOK'
    <2>1. crashes' \in 0 .. MaxCrashes
      BY <1>0, <1>14, BuildAssumption DEF Crash, TypeOK
    <2>2. /\ objs' \in [Commits -> {"none", "whole", "torn"}]
          /\ bin' \in [Commits -> {"none", "bad", "good"}]
      BY <1>0, <1>14 DEF Crash, CompileInterrupted, RemovalInterrupted, TypeOK
    <2>3. /\ task' \in [Tasks -> {"idle", "waiting", "running", "sleeping", "done"}]
          /\ retries' \in [Tasks -> Nat] /\ \A t \in Tasks : retries'[t] <= MaxRetries[t]
      BY <1>14, MaxRetriesType DEF Crash, Start
    <2> QED BY <1>0, <1>14, <2>1, <2>2, <2>3 DEF Crash, Start, TypeOK
  <1>15. ASSUME UNCHANGED vars PROVE TypeOK'
    BY <1>0, <1>15 DEF vars, TypeOK, diskVars, taskVars, attemptVars, memVars, envVars
  <1>16. ASSUME InitialBegins \/ ScheduledBegins \/ ManualBegins PROVE TypeOK'
    BY <1>1, <1>16 DEF InitialBegins, ScheduledBegins, ManualBegins, Tasks
  <1> QED BY <1>2, <1>3, <1>4, <1>5, <1>6, <1>7, <1>8, <1>9, <1>10, <1>11, <1>12, <1>13,
             <1>14, <1>15, <1>16 DEF Next, Attempt

----------------------------------------------------------------------------
(* The link, the binary behind it and the version.                         *)

Sound == LiveBuildWorks /\ VersionIsLive /\ Attempting

\* A step that leaves the link and its binary alone and is not the end of a swap.
LEMMA SoundKept ==
    ASSUME TypeOK, Sound, link' = link,
           link # NoCommit /\ link \notin rewritten' =>
               link \notin rewritten /\ bin'[link] = bin[link],
           current_version' \in {NoCommit, current_version, link}, phase # "swapped",
           phase' \notin {"link", "swap", "swapped"},
           phase' # "none" => holder' \in Tasks,
           phase' \notin {"none", "fetch"} => target' \in Commits
    PROVE  Sound'
  BY DEF Sound, LiveBuildWorks, VersionIsLive, Attempting

LEMMA SoundStep ==
    ASSUME TypeOK, Sound, [Next]_vars
    PROVE  Sound'
  <1>1. ASSUME NEW t \in Tasks, Begin(t) PROVE Sound'
    <2>1. phase \notin {"swapped", "swap"}
      BY <1>1 DEF Begin, Sound, Attempting, Tasks
    <2> QED BY <1>1, <2>1, SoundKept DEF Begin, diskVars, memVars
  <1>2. ASSUME UNCHANGED <<bin, link, rewritten, phase, holder, target, current_version>>
        PROVE  Sound'
    BY <1>2 DEF Sound, LiveBuildWorks, VersionIsLive, Attempting
  <1>3. ASSUME \/ InitialSkips \/ ScheduledTick \/ (\E t \in Tasks : RetryWakes(t))
               \/ UpstreamMoves \/ UNCHANGED vars
        PROVE  Sound'
    BY <1>2, <1>3 DEF InitialSkips, ScheduledTick, RetryWakes, UpstreamMoves, vars, diskVars,
                      attemptVars, memVars
  <1>4. ASSUME Fail \/ VerifyFails \/ CleanupEnds PROVE Sound'
    <2>1. /\ phase' = "none" /\ UNCHANGED <<link, rewritten, current_version>>
          /\ phase # "swapped"
      BY <1>4 DEF Fail, VerifyFails, CleanupEnds, CanFail, At, Return, diskVars
    <2>2. link # NoCommit /\ link \notin rewritten => bin'[link] = bin[link]
      BY <1>4 DEF Fail, VerifyFails, CleanupEnds, At, diskVars, Sound, Attempting, TypeOK
    <2> QED BY <2>1, <2>2, SoundKept
  <1>5. ASSUME ReuseLive PROVE Sound'
    <2>1. /\ phase' = "none" /\ UNCHANGED <<bin, link>> /\ phase # "swapped"
          /\ current_version' = link /\ bin[link] = "good"
      BY <1>5 DEF ReuseLive, At, Return, Verified
    <2> QED BY <2>1 DEF Sound, LiveBuildWorks, VersionIsLive, Attempting
  <1>6. ASSUME Fetch PROVE Sound'
    BY <1>6, SoundKept DEF Fetch, At, diskVars, memVars, Sound, Attempting, TypeOK
  <1>7. ASSUME ReuseBuilt \/ VerifyPasses PROVE Sound'
    <2>1. bin[target] = "good"
      BY <1>7 DEF ReuseBuilt, VerifyPasses, Verified
    <2>2. /\ phase' = "swap" /\ phase \in {"select", "verify"}
          /\ UNCHANGED <<bin, link, rewritten, current_version, holder, target>>
      BY <1>7 DEF ReuseBuilt, VerifyPasses, At, Goto, diskVars, memVars
    <2> QED BY <2>1, <2>2 DEF Sound, LiveBuildWorks, VersionIsLive, Attempting
  <1>8. ASSUME StartBuild PROVE Sound'
    BY <1>8, SoundKept DEF StartBuild, At, Goto, diskVars, Sound, Attempting
  <1>9. ASSUME Prepare PROVE Sound'
    BY <1>9, SoundKept DEF Prepare, At, Goto, Sound, Attempting
  <1>10. ASSUME UpToDate \/ EndLink PROVE Sound'
    <2>1. /\ phase # "swapped" /\ phase' = "verify"
          /\ UNCHANGED <<link, rewritten, current_version, holder, target>>
      BY <1>10 DEF UpToDate, EndLink, At, diskVars, memVars
    <2>2. link # NoCommit /\ link \notin rewritten => bin'[link] = bin[link]
      BY <1>10 DEF UpToDate, EndLink, At, diskVars, Sound, Attempting, TypeOK
    <2>3. phase \notin {"none", "fetch"}
      BY <1>10 DEF UpToDate, EndLink, At
    <2> QED BY <2>1, <2>2, <2>3, SoundKept DEF Sound, Attempting
  <1>16. ASSUME BeginLink PROVE Sound'
    <2>1. /\ phase = "compile" /\ phase' = "link"
          /\ UNCHANGED <<link, current_version, holder, target>>
      BY <1>16 DEF BeginLink, At, Goto, memVars
    <2>2. target \in Commits
      BY <2>1 DEF Sound, Attempting
    <2>3. rewritten \subseteq rewritten' /\ (target = link => link \in rewritten')
      <3>1. CASE bin[target] # "none"
        BY <1>16, <3>1 DEF BeginLink
      <3>2. CASE bin[target] = "none"
        BY <1>16, <2>2, <3>2, BuildAssumption DEF BeginLink, Sound, LiveBuildWorks
      <3> QED BY <3>1, <3>2
    <2>4. target # link /\ link # NoCommit => bin'[link] = bin[link]
      BY <1>16 DEF BeginLink, TypeOK
    <2> QED BY <2>1, <2>2, <2>3, <2>4
            DEF Sound, LiveBuildWorks, VersionIsLive, Attempting
  <1>11. ASSUME SwapLink PROVE Sound'
    BY <1>11 DEF SwapLink, At, Goto, memVars, Sound, LiveBuildWorks, VersionIsLive, Attempting
  <1>12. ASSUME Signal PROVE Sound'
    <2>1. /\ phase = "swapped" /\ UNCHANGED <<bin, link, rewritten>>
          /\ current_version' = link
          /\ phase' = "none" \/ (phase' = "cleanup" /\ UNCHANGED <<holder, target>>)
      BY <1>12 DEF Signal, At, Goto, Return, diskVars, Sound, Attempting
    <2> QED BY <2>1 DEF Sound, LiveBuildWorks, VersionIsLive, Attempting
  <1>13. ASSUME RemoveBuild PROVE Sound'
    <2>1. /\ phase = "cleanup" /\ UNCHANGED <<link, current_version, phase, holder, target>>
      BY <1>13 DEF RemoveBuild, At, attemptVars, memVars
    <2>2. link # NoCommit /\ link \notin rewritten' =>
              link \notin rewritten /\ bin'[link] = bin[link]
      BY <1>13 DEF RemoveBuild, Doomed, TypeOK
    <2> QED BY <2>1, <2>2, SoundKept DEF Sound, Attempting
  <1>14. ASSUME Crash PROVE Sound'
    <2>1. link' = link /\ rewritten' = rewritten /\ current_version' = NoCommit /\ phase' = "none"
      BY <1>14 DEF Crash, Start
    <2>2. link # NoCommit => bin'[link] = bin[link]
      <3>1. CASE ~At("compile") /\ At("cleanup") /\ Doomed # {}
        <4>1. PICK c \in Doomed : bin' \in {bin, [bin EXCEPT ![c] = "none"]}
          BY <1>14, <3>1 DEF Crash, RemovalInterrupted, At
        <4>2. c # link
          BY DEF Doomed
        <4> QED BY <4>1, <4>2 DEF TypeOK
      <3>2. CASE At("compile")
        BY <1>14, <3>2 DEF Crash, CompileInterrupted, At
      <3>3. CASE ~At("compile") /\ ~(At("cleanup") /\ Doomed # {})
        BY <1>14, <3>3 DEF Crash
      <3> QED BY <3>1, <3>2, <3>3
    <2> QED BY <2>1, <2>2 DEF Sound, LiveBuildWorks, VersionIsLive, Attempting
  <1>15. ASSUME InitialBegins \/ ScheduledBegins \/ ManualBegins PROVE Sound'
    BY <1>1, <1>15 DEF InitialBegins, ScheduledBegins, ManualBegins, Tasks
  <1> QED BY <1>3, <1>4, <1>5, <1>6, <1>7, <1>8, <1>9, <1>10, <1>11, <1>12, <1>13, <1>14,
             <1>15, <1>16 DEF Next, Attempt

----------------------------------------------------------------------------
(* The order of the directories.                                           *)

\* A directory comes and goes; only these steps change the creation times.
LEMMA OrderedStep ==
    ASSUME TypeOK, Attempting, Ordered, [Next]_vars
    PROVE  Ordered'
  <1>1. ASSUME older' = older PROVE Ordered'
    BY <1>1 DEF Ordered
  <1>2. ASSUME Prepare PROVE Ordered'
    <2>1. target \in Commits
      BY <1>2 DEF Prepare, At, Attempting
    <2>2. CASE older' = [Without(target) EXCEPT ![target] = Directories \ {target}]
      BY <2>1, <2>2 DEF Ordered, Without
    <2> QED BY <1>1, <1>2, <2>2 DEF Prepare
  <1>3. ASSUME RemoveBuild PROVE Ordered'
    <2>1. PICK c \in Doomed : older' = Without(c)
      BY <1>3 DEF RemoveBuild
    <2> QED BY <2>1 DEF Ordered, Without
  <1>4. ASSUME ~Prepare, ~RemoveBuild PROVE older' = older
    BY <1>4 DEF Next, InitialSkips, InitialBegins, ScheduledTick, ScheduledBegins,
                ManualBegins, Begin, RetryWakes, Attempt, Fetch, ReuseLive, ReuseBuilt,
                StartBuild, UpToDate, BeginLink, EndLink, VerifyPasses, VerifyFails, SwapLink,
                Signal, CleanupEnds, Fail, UpstreamMoves, Crash, vars, diskVars
  <1> QED BY <1>1, <1>2, <1>3, <1>4

\* What a removal leaves to roll back to.
LEMMA RemovalKeeps ==
    ASSUME TypeOK, Ordered, NEW c \in Commits, bin[c] # "none", bin'[c] = "none",
           phase # "link", crashes' = crashes, [Next]_vars
    PROVE  /\ c # link
           /\ Cardinality({d \in Previous : Newer(d, c) /\ bin'[d] # "none"}) >= KeepBuilds
  <1>1. RemoveBuild
    <2>1. ASSUME bin' = bin PROVE FALSE
      BY <2>1
    <2>2. ASSUME Crash PROVE FALSE
      <3>1. crashes' = crashes + 1 /\ crashes \in Nat
        BY <2>2, BuildAssumption DEF Crash, TypeOK
      <3> QED BY <3>1
    <2>3. ASSUME BeginLink \/ EndLink \/ Fail PROVE FALSE
      BY <2>3 DEF BeginLink, EndLink, Fail, At, TypeOK
    <2> QED BY <2>1, <2>2, <2>3
            DEF Next, InitialSkips, InitialBegins, ScheduledTick, ScheduledBegins,
                ManualBegins, Begin, RetryWakes, Attempt, Fetch, ReuseLive, ReuseBuilt,
                StartBuild, Prepare, UpToDate, VerifyPasses, VerifyFails, SwapLink, Signal,
                CleanupEnds, UpstreamMoves, vars, diskVars
  <1>2. PICK e \in Doomed : bin' = [bin EXCEPT ![e] = "none"]
    BY <1>1 DEF RemoveBuild
  <1>3. e = c /\ c # link
    BY <1>2 DEF Doomed, TypeOK
  <1>4. Surplus(c)
    BY <1>2, <1>3 DEF Doomed, Unfinished
  <1>5. \A d \in Previous : Newer(d, c) => bin'[d] # "none"
    <2> SUFFICES ASSUME NEW d \in Previous, Newer(d, c) PROVE bin'[d] # "none"
      OBVIOUS
    <2>1. d \in Commits /\ bin[d] # "none" /\ d # c
      BY DEF Previous, Newer, Ordered
    <2> QED BY <1>2, <1>3, <2>1 DEF TypeOK
  <1>6. {d \in Previous : Newer(d, c) /\ bin'[d] # "none"} = {d \in Previous : Newer(d, c)}
    BY <1>5
  <1> QED BY <1>3, <1>4, <1>6 DEF Surplus

----------------------------------------------------------------------------
(* The theorems.                                                           *)

LEMMA IInvStep == IInv /\ [Next]_vars => IInv'
  BY TypeStep, SoundStep, OrderedStep DEF IInv, LinkIsSound, Sound

\* run_build and update_symlink of build_manager.rs: whatever attempt fails, whatever
\* cleanup removes and wherever the node is killed, binary_path resolves to a binary that
\* ran when it was verified, unless a rebuild of the live build itself, in its own
\* directory, has written over it since; and a recorded version is the live one.
THEOREM LinkSoundness == Spec => []LinkIsSound
  <1>1. IInv => LinkIsSound
    BY DEF IInv
  <1> QED BY <1>1, IInvInit, IInvStep, PTL DEF Spec

\* cleanup_old_builds removes a complete build only while keep_builds newer ones stay, and
\* never the live one, for any keep_builds, zero included.
THEOREM RollbacksKept == Spec => RollbacksAreKept
  <1>1. IInv /\ [Next]_vars =>
            [\A c \in Commits :
                bin[c] # "none" /\ bin'[c] = "none" /\ phase # "link" /\ crashes' = crashes =>
                /\ c # link
                /\ Cardinality({d \in Previous : Newer(d, c) /\ bin'[d] # "none"})
                       >= KeepBuilds]_vars
    BY RemovalKeeps DEF IInv, LinkIsSound
  <1> QED BY <1>1, IInvInit, IInvStep, PTL DEF Spec, RollbacksAreKept

=============================================================================
