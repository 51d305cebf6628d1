----------------------- MODULE SimulationRunnerProofs -----------------------
(***************************************************************************)
(* What simulations keep true of each other, for any number of runs asked  *)
(* for, any number of requests in flight and any number of faults.         *)
(***************************************************************************)
EXTENDS SimulationRunner, TLAPS, FiniteSetTheorems

(* A request names a new run, is gone with the process that took it, and   *)
(* finds no run RUNNING; two are under way together only in a race.        *)
RequestsOK ==
  /\ \A r \in requested : status[r] = "none"
  /\ process # "serving" => requested = {}
  /\ raced \/ \A r, s \in requested : r = s
  /\ raced \/ requested = {} \/ \A r \in Runs : status[r] # "RUNNING"

(* A run goes on only while its record says RUNNING and the process is up. *)
TasksOK ==
  /\ \A r \in Runs : status[r] = "none" <=> pc[r] = "none"
  /\ \A r \in Runs : Executing(r) => status[r] = "RUNNING" /\ process # "down"
  /\ raced \/ \A r, s \in Runs : Executing(r) /\ Executing(s) => r = s

(* A run that has cleared the campaigns, until its workers are stopped,    *)
(* finds none of another run RUNNING.                                      *)
HasCleared == (Seeding \ {"clearCampaigns"}) \cup Trying \cup {"stopWorkers"}

CampaignsOK ==
  raced \/ \A r \in Runs : pc[r] \in HasCleared =>
    \A other \in Runs \ {r} : campaign[other] # "RUNNING"

(* What may still go on at each await after the workers were stopped, if   *)
(* nothing went wrong with the run.                                        *)
NotYetStopped(phase) ==
  CASE phase = "stopSimulator" -> {"heartbeat", "heartbeatError", "carriers"}
    [] phase = "stopCarriers"  -> {"carriers"}
    [] phase \in {"settle", "report", "finish"} -> {}
    [] OTHER -> BackgroundTasks

CleanupOK ==
  \A r \in Runs : verdict[r] = "passed" =>
    /\ running[r] \subseteq NotYetStopped(pc[r])
    /\ pc[r] \in {"drain", "stopRecovery", "stopSimulator", "stopCarriers",
                  "settle", "report", "finish"} => campaign[r] # "RUNNING"

RunnerInv ==
  /\ RunnerTypeOK
  /\ RequestsOK
  /\ TasksOK
  /\ WorkersStopWithTheirRun
  /\ CampaignsOK
  /\ CallsAreOfTheirOwnRun
  /\ CleanupOK
  /\ CompletedRunLeftNothing

LEMMA RunnerInit == Init => RunnerInv
<1> SUFFICES ASSUME Init PROVE RunnerInv
  OBVIOUS
<1>1. RunnerTypeOK
  <2>1. \A r \in Runs : running[r] = {}
    BY DEF Init
  <2>2. running \in [Runs -> SUBSET BackgroundTasks]
    BY <2>1 DEF Init
  <2>3. requested \subseteq Runs /\ cancelled \subseteq Runs
    BY DEF Init
  <2>4. faults \in 0..MaxFaults
    BY RunnerAssumption DEF Init
  <2>5. QED
    BY <2>2, <2>3, <2>4 DEF Init, RunnerTypeOK, Phases
<1>2. QED
  BY <1>1 DEF Init, RunnerInv, RequestsOK, TasksOK, WorkersStopWithTheirRun,
     CampaignsOK, CallsAreOfTheirOwnRun, CleanupOK, CompletedRunLeftNothing,
     NotYetStopped, Executing, HasCleared, Seeding, Trying

-----------------------------------------------------------------------------
(* The parts of the invariant, one lemma for each.                         *)

(* Where an exception takes a run is one of its phases.                    *)
LEMMA UnwoundIsPhase ==
  ASSUME NEW phase \in Phases \ {"none", "lost", "over"}, phase \notin Stopping
  PROVE  /\ Unwound(phase) \in {"stopWorkers", "finish", "lost"}
         /\ phase \in Trying => Unwound(phase) = "stopWorkers"
         /\ phase \notin Trying => Unwound(phase) \in {"finish", "lost"}
BY DEF Unwound, Phases, Seeding, Trying, Stopping, Ending

LEMMA TypeNext ==
  ASSUME RunnerTypeOK, Next PROVE RunnerTypeOK'
<1> USE DEF RunnerTypeOK
<1>1. CASE FindRunning
  <2> DEFINE unused == {r \in Runs \ requested : status[r] = "none"}
  <2>1. (CHOOSE r \in unused : TRUE) \in unused
    BY <1>1 DEF FindRunning
  <2>2. QED
    BY <1>1, <2>1 DEF FindRunning, taskVars, databaseVars, processVars
<1>2. ASSUME NEW r \in Runs, CreateRun(r) \/ CreateFails(r)
      PROVE  RunnerTypeOK'
  BY <1>2, RunnerAssumption
  DEF CreateRun, CreateFails, Fault, Phases, taskVars, databaseVars, processVars
<1>3. CASE Reconcile \/ StopOrphanedCampaigns
  BY <1>3
  DEF Reconcile, StopOrphanedCampaigns, recordVars, taskVars, databaseVars
<1>4. CASE Shutdown
  BY <1>4, RunnerAssumption DEF Shutdown, Fault, recordVars, databaseVars
<1>5. CASE ShutdownEnds \/ Crash
  BY <1>5, RunnerAssumption
  DEF ShutdownEnds, Crash, ProcessEnds, Fault, databaseVars, Phases
<1>6. ASSUME NEW r \in Runs,
             Start(r) \/ Seed(r) \/ LogIn(r) \/ TimelineEnds(r) \/ AgentsLeave(r)
      PROVE  RunnerTypeOK'
  BY <1>6
  DEF Start, Seed, LogIn, TimelineEnds, AgentsLeave, Go, Cleared, Phases,
      Seeding, Trying, Stopping, BackgroundTasks, recordVars, taskVars,
      databaseVars, processVars
<1>7. ASSUME NEW r \in Runs, FindViolation(r) \/ ConfirmViolation(r)
      PROVE  RunnerTypeOK'
  BY <1>7
  DEF FindViolation, ConfirmViolation, Go, Phases, Trying, Stopping,
      recordVars, databaseVars, processVars
<1>8. ASSUME NEW r \in Runs,
             \/ StopWorkers(r) \/ StopCampaign(r) \/ Drain(r) \/ StopRecovery(r)
             \/ StopSimulator(r) \/ StopCarriers(r)
      PROVE  RunnerTypeOK'
  BY <1>8
  DEF StopWorkers, StopCampaign, Drain, StopRecovery, StopSimulator,
      StopCarriers, StopTasks, Go, Phases, Ending, Stopping, recordVars,
      databaseVars, processVars
<1>9. ASSUME NEW r \in Runs, Settle(r) \/ Report(r) \/ Finish(r)
      PROVE  RunnerTypeOK'
  BY <1>9, RunnerAssumption
  DEF Settle, Report, Finish, Fault, Go, Phases, recordVars, databaseVars,
      processVars
<1>10. ASSUME NEW r \in Runs, RunFails(r) \/ RunCancelled(r)
       PROVE  RunnerTypeOK'
  <2>1. pc[r] \in Phases \ {"none", "lost", "over"} /\ pc[r] \notin Stopping
    BY <1>10
    DEF RunFails, RunCancelled, Executing, Phases, Seeding, Trying, Stopping
  <2>2. Unwound(pc[r]) \in Phases
    BY <2>1, UnwoundIsPhase DEF Phases, Stopping
  <2>3. QED
    BY <1>10, <2>2, RunnerAssumption
    DEF RunFails, RunCancelled, Fault, Go, recordVars, databaseVars, processVars
<1>11. ASSUME NEW r \in Runs,
              CancellationSwallowed(r) \/ CallEnds(r) \/ HeartbeatFails(r)
       PROVE  RunnerTypeOK'
  BY <1>11, RunnerAssumption
  DEF CancellationSwallowed, CallEnds, HeartbeatFails, Fault, BackgroundTasks,
      recordVars, taskVars, databaseVars, processVars
<1>12. ASSUME NEW r \in Runs, NEW other \in Runs,
              Dial(r, other) \/ HeartbeatTimesOut(r, other)
       PROVE  RunnerTypeOK'
  BY <1>12
  DEF Dial, HeartbeatTimesOut, recordVars, taskVars, processVars
<1>13. QED
  BY <1>1, <1>2, <1>3, <1>4, <1>5, <1>6, <1>7, <1>8, <1>9, <1>10, <1>11, <1>12
  DEF Next, RunStep

(* Every other step of a run leaves the records alone, and moves only that *)
(* run.                                                                    *)
LEMMA RecordsKept ==
  ASSUME RunnerTypeOK,
         \/ \E r \in Runs :
              \/ RunStep(r) /\ ~Finish(r)
              \/ AgentsLeave(r) \/ FindViolation(r) \/ RunFails(r)
              \/ CallEnds(r) \/ HeartbeatFails(r)
         \/ \E r, other \in Runs : Dial(r, other) \/ HeartbeatTimesOut(r, other)
  PROVE  /\ UNCHANGED <<recordVars, process>>
         /\ \/ UNCHANGED pc
            \/ \E r \in Runs, phase \in Phases \ {"none"} :
                 Executing(r) /\ Go(r, phase)
<1> USE DEF processVars
<1>1. ASSUME NEW r \in Runs,
             \/ Start(r) \/ Seed(r) \/ LogIn(r) \/ TimelineEnds(r)
             \/ StopWorkers(r) \/ StopCampaign(r) \/ Drain(r) \/ StopRecovery(r)
             \/ StopCarriers(r) \/ Report(r) \/ FindViolation(r)
      PROVE  /\ UNCHANGED <<recordVars, process>>
             /\ Executing(r)
             /\ \E phase \in Phases \ {"none"} : Go(r, phase)
  BY <1>1
  DEF Start, Seed, LogIn, TimelineEnds, StopWorkers, StopCampaign, Drain,
      StopRecovery, StopCarriers, Report, FindViolation, At, Executing, Phases,
      Seeding, Trying, Stopping, Ending
<1>2. ASSUME NEW r \in Runs, ConfirmViolation(r) \/ StopSimulator(r) \/ Settle(r)
      PROVE  /\ UNCHANGED <<recordVars, process>>
             /\ Executing(r)
             /\ \E phase \in Phases \ {"none"} : Go(r, phase)
  BY <1>2
  DEF ConfirmViolation, StopSimulator, Settle, At, Executing, Phases, Trying,
      Stopping, Ending
<1>3. ASSUME NEW r \in Runs, RunFails(r) \/ RunCancelled(r)
      PROVE  /\ UNCHANGED <<recordVars, process>>
             /\ Executing(r)
             /\ \E phase \in Phases \ {"none"} : Go(r, phase)
  <2>1. pc[r] \in Phases \ {"none", "lost", "over"} /\ pc[r] \notin Stopping
    BY <1>3
    DEF RunFails, RunCancelled, Executing, RunnerTypeOK, Phases, Seeding,
        Trying, Stopping
  <2>2. Unwound(pc[r]) \in Phases \ {"none"}
    BY <2>1, UnwoundIsPhase DEF Phases, Stopping
  <2>3. QED
    BY <1>3, <2>1, <2>2 DEF RunFails, RunCancelled, Executing
<1>4. ASSUME NEW r \in Runs,
             CancellationSwallowed(r) \/ AgentsLeave(r) \/ CallEnds(r)
               \/ HeartbeatFails(r)
      PROVE  UNCHANGED <<recordVars, process, pc>>
  BY <1>4
  DEF CancellationSwallowed, AgentsLeave, CallEnds, HeartbeatFails, taskVars
<1>5. ASSUME NEW r \in Runs, NEW other \in Runs,
             Dial(r, other) \/ HeartbeatTimesOut(r, other)
      PROVE  UNCHANGED <<recordVars, process, pc>>
  BY <1>5 DEF Dial, HeartbeatTimesOut, taskVars
<1>6. QED
  BY <1>1, <1>2, <1>3, <1>4, <1>5 DEF RunStep

LEMMA RequestsNext ==
  ASSUME RunnerTypeOK, RequestsOK, TasksOK, Next PROVE RequestsOK'
<1> USE DEF RequestsOK
<1>1. CASE FindRunning
  <2> DEFINE unused == {r \in Runs \ requested : status[r] = "none"}
  <2>1. (CHOOSE r \in unused : TRUE) \in unused
    BY <1>1 DEF FindRunning
  <2>2. QED
    BY <1>1, <2>1 DEF FindRunning, processVars
<1>2. ASSUME NEW r \in Runs, CreateRun(r)
      PROVE  RequestsOK'
  BY <1>2 DEF CreateRun, processVars, RunnerTypeOK
<1>3. ASSUME NEW r \in Runs, CreateFails(r)
      PROVE  RequestsOK'
  BY <1>3 DEF CreateFails
<1>4. CASE Reconcile
  BY <1>4 DEF Reconcile, RunnerTypeOK
<1>5. CASE StopOrphanedCampaigns \/ Shutdown
  BY <1>5 DEF StopOrphanedCampaigns, Shutdown, recordVars
<1>6. CASE ShutdownEnds \/ Crash
  BY <1>6 DEF ShutdownEnds, Crash, ProcessEnds
<1>7. ASSUME NEW r \in Runs, Finish(r)
      PROVE  RequestsOK'
  <2>1. status[r] = "RUNNING"
    BY <1>7 DEF Finish, At, TasksOK, Executing
  <2>2. QED
    BY <1>7, <2>1 DEF Finish, processVars, RunnerTypeOK
<1>8. CASE UNCHANGED <<recordVars, process>>
  BY <1>8 DEF recordVars
<1>9. QED
  BY <1>1, <1>2, <1>3, <1>4, <1>5, <1>6, <1>7, <1>8, RecordsKept
  DEF Next, RunStep

LEMMA TasksNext ==
  ASSUME RunnerTypeOK, RequestsOK, TasksOK, Next PROVE TasksOK'
<1> USE DEF TasksOK, Executing
<1>1. CASE FindRunning
  BY <1>1 DEF FindRunning, taskVars, processVars
<1>2. ASSUME NEW r \in Runs, CreateRun(r)
      PROVE  TasksOK'
  BY <1>2 DEF CreateRun, processVars, RunnerTypeOK, RequestsOK
<1>3. ASSUME NEW r \in Runs, CreateFails(r)
      PROVE  TasksOK'
  BY <1>3 DEF CreateFails, taskVars
<1>4. CASE Reconcile
  BY <1>4 DEF Reconcile, taskVars, RunnerTypeOK
<1>5. CASE StopOrphanedCampaigns \/ Shutdown
  BY <1>5 DEF StopOrphanedCampaigns, Shutdown, recordVars, taskVars
<1>6. CASE ShutdownEnds \/ Crash
  BY <1>6 DEF ShutdownEnds, Crash, ProcessEnds, RunnerTypeOK
<1>7. ASSUME NEW r \in Runs, Finish(r)
      PROVE  TasksOK'
  BY <1>7 DEF Finish, Go, At, processVars, RunnerTypeOK
<1>8. CASE UNCHANGED <<recordVars, process>> /\ UNCHANGED pc
  BY <1>8 DEF recordVars
<1>9. ASSUME UNCHANGED <<recordVars, process>>,
             NEW r \in Runs, Executing(r), NEW phase \in Phases \ {"none"},
             Go(r, phase)
      PROVE  TasksOK'
  BY <1>9 DEF recordVars, RunnerTypeOK, Go
<1>10. QED
  BY <1>1, <1>2, <1>3, <1>4, <1>5, <1>6, <1>7, <1>8, <1>9, RecordsKept
  DEF Next, RunStep

LEMMA WorkersNext ==
  ASSUME RunnerTypeOK, RequestsOK, TasksOK, WorkersStopWithTheirRun, Next
  PROVE  WorkersStopWithTheirRun'
<1> USE DEF WorkersStopWithTheirRun, RunnerTypeOK
<1>1. ASSUME NEW r \in Runs, CreateRun(r)
      PROVE  WorkersStopWithTheirRun'
  BY <1>1 DEF CreateRun, RequestsOK, TasksOK
<1>2. CASE ShutdownEnds \/ Crash
  BY <1>2 DEF ShutdownEnds, Crash, ProcessEnds
<1>3. ASSUME NEW r \in Runs,
             Start(r) \/ Seed(r) \/ TimelineEnds(r) \/ FindViolation(r)
               \/ ConfirmViolation(r) \/ Drain(r) \/ Settle(r) \/ Report(r)
               \/ StopCampaign(r) \/ Finish(r)
      PROVE  WorkersStopWithTheirRun'
  BY <1>3
  DEF Start, Seed, TimelineEnds, FindViolation, ConfirmViolation, Drain, Settle,
      Report, StopCampaign, Finish, Go, At
<1>4. ASSUME NEW r \in Runs,
             LogIn(r) \/ StopWorkers(r) \/ StopRecovery(r) \/ StopSimulator(r)
               \/ StopCarriers(r)
      PROVE  WorkersStopWithTheirRun'
  BY <1>4
  DEF LogIn, StopWorkers, StopRecovery, StopSimulator, StopCarriers, StopTasks,
      Go, At
<1>5. ASSUME NEW r \in Runs, RunFails(r) \/ RunCancelled(r)
      PROVE  WorkersStopWithTheirRun'
  <2>1. pc[r] \in Phases \ {"none", "lost", "over"} /\ pc[r] \notin Stopping
    BY <1>5
    DEF RunFails, RunCancelled, Executing, Phases, Seeding, Trying, Stopping
  <2>2. pc[r] \in {"timeline", "confirm"} => Unwound(pc[r]) = "stopWorkers"
    BY <2>1, UnwoundIsPhase DEF Trying
  <2>3. "workers" \in running[r] => pc[r] \in {"timeline", "confirm"}
    BY <2>1 DEF Stopping
  <2>4. QED
    BY <1>5, <2>2, <2>3 DEF RunFails, RunCancelled, Go
<1>6. ASSUME NEW r \in Runs, HeartbeatFails(r)
      PROVE  WorkersStopWithTheirRun'
  BY <1>6 DEF HeartbeatFails
<1>7. CASE UNCHANGED <<pc, running>>
  BY <1>7
<1>8. ASSUME NEW r \in Runs,
             CreateFails(r) \/ AgentsLeave(r) \/ CallEnds(r)
               \/ CancellationSwallowed(r)
               \/ \E other \in Runs : Dial(r, other) \/ HeartbeatTimesOut(r, other)
      PROVE  UNCHANGED <<pc, running>>
  BY <1>8
  DEF CreateFails, AgentsLeave, CallEnds, CancellationSwallowed, Dial,
      HeartbeatTimesOut, taskVars
<1>9. CASE FindRunning \/ Reconcile \/ StopOrphanedCampaigns \/ Shutdown
  BY <1>9 DEF FindRunning, Reconcile, StopOrphanedCampaigns, Shutdown, taskVars
<1>10. QED
  BY <1>1, <1>2, <1>3, <1>4, <1>5, <1>6, <1>7, <1>8, <1>9 DEF Next, RunStep

(* No campaign becomes RUNNING but that of the run that inserts it.        *)
LEMMA CampaignsKept ==
  ASSUME RunnerTypeOK, Next
  PROVE  \A r \in Runs : campaign'[r] = "RUNNING" =>
           \/ campaign[r] = "RUNNING"
           \/ At(r, "insertCampaign") /\ Seed(r)
<1> USE DEF RunnerTypeOK
<1>1. ASSUME NEW r \in Runs, Seed(r)
      PROVE  \A s \in Runs : campaign'[s] = "RUNNING" =>
               campaign[s] = "RUNNING" \/ (s = r /\ At(r, "insertCampaign"))
  BY <1>1 DEF Seed, Cleared
<1>2. ASSUME NEW r \in Runs, StopCampaign(r)
      PROVE  \A s \in Runs : campaign'[s] = "RUNNING" => campaign[s] = "RUNNING"
  BY <1>2 DEF StopCampaign
<1>3. CASE StopOrphanedCampaigns
  BY <1>3 DEF StopOrphanedCampaigns
<1>4. ASSUME NEW r \in Runs,
             \/ Start(r) \/ LogIn(r) \/ TimelineEnds(r) \/ ConfirmViolation(r)
             \/ StopWorkers(r) \/ Drain(r) \/ StopRecovery(r) \/ StopSimulator(r)
             \/ StopCarriers(r) \/ Settle(r) \/ Report(r) \/ Finish(r)
             \/ RunCancelled(r) \/ CancellationSwallowed(r)
      PROVE  campaign' = campaign
  BY <1>4
  DEF Start, LogIn, TimelineEnds, ConfirmViolation, StopWorkers, Drain,
      StopRecovery, StopSimulator, StopCarriers, Settle, Report, Finish,
      RunCancelled, CancellationSwallowed, databaseVars
<1>5. ASSUME NEW r \in Runs,
             \/ CreateRun(r) \/ CreateFails(r) \/ AgentsLeave(r)
             \/ FindViolation(r) \/ RunFails(r) \/ CallEnds(r) \/ HeartbeatFails(r)
             \/ \E other \in Runs : Dial(r, other) \/ HeartbeatTimesOut(r, other)
      PROVE  campaign' = campaign
  BY <1>5
  DEF CreateRun, CreateFails, AgentsLeave, FindViolation, RunFails, CallEnds,
      HeartbeatFails, Dial, HeartbeatTimesOut, databaseVars
<1>6. CASE FindRunning \/ Reconcile \/ Shutdown \/ ShutdownEnds \/ Crash
  BY <1>6
  DEF FindRunning, Reconcile, Shutdown, ShutdownEnds, Crash, ProcessEnds,
      databaseVars
<1>7. QED
  BY <1>1, <1>2, <1>3, <1>4, <1>5, <1>6 DEF Next, RunStep

(* A run comes to have cleared the campaigns only by clearing them.        *)
LEMMA PhasesKept ==
  ASSUME RunnerTypeOK, Next, NEW r \in Runs, pc'[r] \in HasCleared
  PROVE  pc[r] \in HasCleared \/ (At(r, "clearCampaigns") /\ Seed(r))
<1> USE DEF RunnerTypeOK, HasCleared, Seeding, Trying
<1>1. ASSUME NEW s \in Runs, CreateRun(s) \/ Start(s)
      PROVE  pc[r] \in HasCleared
  BY <1>1 DEF CreateRun, Start, Go
<1>2. ASSUME NEW s \in Runs, Seed(s)
      PROVE  pc[r] \in HasCleared \/ (s = r /\ At(r, "clearCampaigns"))
  BY <1>2 DEF Seed, Go, At
<1>3. ASSUME NEW s \in Runs, LogIn(s) \/ TimelineEnds(s) \/ FindViolation(s)
                               \/ ConfirmViolation(s)
      PROVE  pc[r] \in HasCleared
  BY <1>3 DEF LogIn, TimelineEnds, FindViolation, ConfirmViolation, Go, At
<1>4. ASSUME NEW s \in Runs,
             \/ StopWorkers(s) \/ StopCampaign(s) \/ Drain(s) \/ StopRecovery(s)
             \/ StopSimulator(s) \/ StopCarriers(s)
      PROVE  pc[r] \in HasCleared
  BY <1>4
  DEF StopWorkers, StopCampaign, Drain, StopRecovery, StopSimulator,
      StopCarriers, Go, At
<1>5. ASSUME NEW s \in Runs, Settle(s) \/ Report(s) \/ Finish(s)
      PROVE  pc[r] \in HasCleared
  BY <1>5 DEF Settle, Report, Finish, Go, At
<1>6. ASSUME NEW s \in Runs, RunFails(s) \/ RunCancelled(s)
      PROVE  pc[r] \in HasCleared
  <2>1. pc[s] \in Phases \ {"none", "lost", "over"} /\ pc[s] \notin Stopping
    BY <1>6 DEF RunFails, RunCancelled, Executing, Phases, Stopping
  <2>2. Unwound(pc[s]) \in HasCleared => pc[s] \in Trying
    BY <2>1, UnwoundIsPhase
  <2>3. QED
    BY <1>6, <2>2 DEF RunFails, RunCancelled, Go
<1>7. ASSUME NEW s \in Runs,
             \/ CreateFails(s) \/ AgentsLeave(s) \/ CallEnds(s)
             \/ HeartbeatFails(s) \/ CancellationSwallowed(s)
             \/ \E other \in Runs : Dial(s, other) \/ HeartbeatTimesOut(s, other)
      PROVE  pc[r] \in HasCleared
  BY <1>7
  DEF CreateFails, AgentsLeave, CallEnds, HeartbeatFails, CancellationSwallowed,
      Dial, HeartbeatTimesOut, taskVars
<1>8. CASE FindRunning \/ Reconcile \/ StopOrphanedCampaigns \/ Shutdown
  BY <1>8 DEF FindRunning, Reconcile, StopOrphanedCampaigns, Shutdown, taskVars
<1>9. CASE ShutdownEnds \/ Crash
  BY <1>9 DEF ShutdownEnds, Crash, ProcessEnds
<1>10. QED
  BY <1>1, <1>2, <1>3, <1>4, <1>5, <1>6, <1>7, <1>8, <1>9 DEF Next, RunStep

LEMMA RacedKept == ASSUME RunnerTypeOK, Next, raced PROVE raced'
<1>1. CASE FindRunning \/ \E r \in Runs : CreateRun(r) \/ CreateFails(r)
  BY <1>1 DEF FindRunning, CreateRun, CreateFails
<1>2. CASE \/ Reconcile \/ StopOrphanedCampaigns \/ Shutdown \/ ShutdownEnds
           \/ Crash
  BY <1>2
  DEF Reconcile, StopOrphanedCampaigns, Shutdown, ShutdownEnds, Crash,
      ProcessEnds, recordVars
<1>3. CASE \E r \in Runs : Finish(r)
  BY <1>3 DEF Finish
<1>4. QED
  BY <1>1, <1>2, <1>3, RecordsKept DEF Next, RunStep, recordVars

LEMMA CampaignsNext ==
  ASSUME RunnerTypeOK, TasksOK, CampaignsOK, Next PROVE CampaignsOK'
<1> SUFFICES ASSUME ~raced', NEW r \in Runs, pc'[r] \in HasCleared,
                    NEW other \in Runs \ {r}, campaign'[other] = "RUNNING"
             PROVE  FALSE
  BY DEF CampaignsOK
<1>1. ~raced
  BY RacedKept
<1>2. CASE At(r, "clearCampaigns") /\ Seed(r)
  BY <1>2 DEF Seed, At, Cleared
<1>3. CASE pc[r] \in HasCleared
  <2>1. campaign[other] # "RUNNING"
    BY <1>1, <1>3 DEF CampaignsOK
  <2>2. At(other, "insertCampaign")
    BY <2>1, CampaignsKept
  <2>3. Executing(other) /\ Executing(r)
    BY <1>3, <2>2 DEF At, Executing, HasCleared, Seeding, Trying
  <2>4. QED
    BY <1>1, <2>3 DEF TasksOK
<1>4. QED
  BY <1>2, <1>3, PhasesKept

LEMMA CallsNext ==
  ASSUME RunnerTypeOK, WorkersStopWithTheirRun, CampaignsOK,
         CallsAreOfTheirOwnRun, Next
  PROVE  CallsAreOfTheirOwnRun'
<1> SUFFICES ASSUME ~raced', NEW r \in Runs
             PROVE  dialledBy'[r] \in {r, None}
  BY DEF CallsAreOfTheirOwnRun
<1>1. ~raced /\ dialledBy[r] \in {r, None}
  BY RacedKept DEF CallsAreOfTheirOwnRun
<1> USE DEF RunnerTypeOK
<1>2. ASSUME NEW s \in Runs, NEW other \in Runs, Dial(s, other)
      PROVE  dialledBy'[r] \in {r, None}
  <2>1. pc[s] \in HasCleared
    BY <1>2
    DEF Dial, WorkersStopWithTheirRun, HasCleared, Trying
  <2>2. other = s
    BY <1>1, <1>2, <2>1 DEF Dial, CampaignsOK
  <2>3. QED
    BY <1>1, <1>2, <2>2 DEF Dial
<1>3. ASSUME NEW s \in Runs,
             Seed(s) \/ Settle(s) \/ CallEnds(s)
               \/ \E other \in Runs : HeartbeatTimesOut(s, other)
      PROVE  dialledBy'[r] \in {dialledBy[r], None}
  BY <1>3 DEF Seed, Cleared, Settle, CallEnds, HeartbeatTimesOut
<1>4. ASSUME NEW s \in Runs,
             \/ Start(s) \/ LogIn(s) \/ TimelineEnds(s) \/ ConfirmViolation(s)
             \/ StopWorkers(s) \/ StopCampaign(s) \/ Drain(s) \/ StopRecovery(s)
             \/ StopSimulator(s) \/ StopCarriers(s) \/ Report(s) \/ Finish(s)
             \/ RunCancelled(s) \/ CancellationSwallowed(s)
      PROVE  dialledBy' = dialledBy
  BY <1>4
  DEF Start, LogIn, TimelineEnds, ConfirmViolation, StopWorkers, StopCampaign,
      Drain, StopRecovery, StopSimulator, StopCarriers, Report, Finish,
      RunCancelled, CancellationSwallowed, databaseVars
<1>5. ASSUME NEW s \in Runs,
             \/ CreateRun(s) \/ CreateFails(s) \/ AgentsLeave(s)
             \/ FindViolation(s) \/ RunFails(s) \/ HeartbeatFails(s)
      PROVE  dialledBy' = dialledBy
  BY <1>5
  DEF CreateRun, CreateFails, AgentsLeave, FindViolation, RunFails,
      HeartbeatFails, databaseVars
<1>6. CASE FindRunning \/ Reconcile \/ StopOrphanedCampaigns
  BY <1>1, <1>6 DEF FindRunning, Reconcile, StopOrphanedCampaigns, databaseVars
<1>7. CASE Shutdown \/ ShutdownEnds \/ Crash
  BY <1>1, <1>7 DEF Shutdown, ShutdownEnds, Crash, ProcessEnds, databaseVars
<1>8. QED
  BY <1>1, <1>2, <1>3, <1>4, <1>5, <1>6, <1>7 DEF Next, RunStep

(* A step of one run's task changes nothing of another's.                  *)
LEMMA OwnStepOnly ==
  ASSUME RunnerTypeOK, NEW r \in Runs, NEW s \in Runs, s # r,
         RunStep(s) \/ AgentsLeave(s) \/ FindViolation(s) \/ RunFails(s)
           \/ CallEnds(s) \/ HeartbeatFails(s)
  PROVE  pc'[r] = pc[r] /\ running'[r] = running[r] /\ verdict'[r] = verdict[r]
<1> USE DEF RunnerTypeOK
<1>1. CASE Start(s) \/ Seed(s) \/ LogIn(s) \/ TimelineEnds(s)
             \/ FindViolation(s) \/ ConfirmViolation(s)
  BY <1>1
  DEF Start, Seed, LogIn, TimelineEnds, FindViolation, ConfirmViolation, Go
<1>2. CASE \/ StopWorkers(s) \/ StopCampaign(s) \/ Drain(s) \/ StopRecovery(s)
           \/ StopSimulator(s) \/ StopCarriers(s)
  BY <1>2
  DEF StopWorkers, StopCampaign, Drain, StopRecovery, StopSimulator,
      StopCarriers, StopTasks, Go
<1>3. CASE Settle(s) \/ Report(s) \/ Finish(s) \/ RunFails(s) \/ RunCancelled(s)
  BY <1>3 DEF Settle, Report, Finish, RunFails, RunCancelled, Go
<1>4. CASE \/ CancellationSwallowed(s) \/ AgentsLeave(s) \/ CallEnds(s)
           \/ HeartbeatFails(s)
  BY <1>4
  DEF CancellationSwallowed, AgentsLeave, CallEnds, HeartbeatFails, taskVars
<1>5. QED
  BY <1>1, <1>2, <1>3, <1>4 DEF RunStep

LEMMA RunIsExecuting ==
  ASSUME RunnerTypeOK, NEW r \in Runs,
         RunStep(r) \/ FindViolation(r) \/ RunFails(r)
  PROVE  Executing(r)
<1>1. CASE Start(r) \/ Seed(r) \/ LogIn(r) \/ TimelineEnds(r)
             \/ FindViolation(r) \/ ConfirmViolation(r)
  BY <1>1
  DEF Start, Seed, LogIn, TimelineEnds, FindViolation, ConfirmViolation, At,
      Executing
<1>2. CASE \/ StopWorkers(r) \/ StopCampaign(r) \/ Drain(r) \/ StopRecovery(r)
           \/ StopSimulator(r) \/ StopCarriers(r)
  BY <1>2
  DEF StopWorkers, StopCampaign, Drain, StopRecovery, StopSimulator,
      StopCarriers, At, Executing
<1>3. CASE \/ Settle(r) \/ Report(r) \/ Finish(r) \/ RunFails(r)
           \/ RunCancelled(r) \/ CancellationSwallowed(r)
  BY <1>3
  DEF Settle, Report, Finish, RunFails, RunCancelled, CancellationSwallowed, At,
      Executing, Seeding, Trying, Stopping
<1>4. QED
  BY <1>1, <1>2, <1>3 DEF RunStep

(* A status is written when the run starts, and again when it ends.        *)
LEMMA StatusKept ==
  ASSUME RunnerTypeOK, RequestsOK, TasksOK, Next, NEW r \in Runs
  PROVE  /\ status'[r] = "COMPLETED" => status[r] = "COMPLETED" \/ Finish(r)
         /\ status[r] \in {"COMPLETED", "FAILED"} => status'[r] = status[r]
<1> USE DEF RunnerTypeOK
<1>1. ASSUME NEW s \in Runs, CreateRun(s) \/ CreateFails(s)
      PROVE  /\ status'[r] \in {status[r], "RUNNING"}
             /\ status[r] \in {"COMPLETED", "FAILED"} => status'[r] = status[r]
  BY <1>1 DEF CreateRun, CreateFails, RequestsOK
<1>2. CASE Reconcile
  BY <1>2 DEF Reconcile
<1>3. CASE \/ FindRunning \/ StopOrphanedCampaigns \/ Shutdown \/ ShutdownEnds
           \/ Crash
  BY <1>3
  DEF FindRunning, StopOrphanedCampaigns, Shutdown, ShutdownEnds, Crash,
      ProcessEnds, recordVars
<1>4. ASSUME NEW s \in Runs, Finish(s)
      PROVE  s = r \/ status'[r] = status[r]
  BY <1>4 DEF Finish
<1>5. Finish(r) => status[r] = "RUNNING"
  BY DEF Finish, At, TasksOK, Executing
<1>6. QED
  BY <1>1, <1>2, <1>3, <1>4, <1>5, RecordsKept DEF Next, RunStep, recordVars

(* Nor does a run's way to its end leave behind what it has stopped.       *)
LEMMA CleanupNext ==
  ASSUME RunnerTypeOK, RequestsOK, TasksOK, WorkersStopWithTheirRun, CleanupOK,
         Next
  PROVE  CleanupOK'
<1> USE DEF RunnerTypeOK
<1> DEFINE Past == {"drain", "stopRecovery", "stopSimulator", "stopCarriers",
                    "settle", "report", "finish"}
           CleanAfter(r) == verdict'[r] = "passed" =>
             /\ running'[r] \subseteq NotYetStopped(pc'[r])
             /\ pc'[r] \in Past => campaign'[r] # "RUNNING"
<1>1. SUFFICES ASSUME NEW r \in Runs
               PROVE  CleanAfter(r)
  BY DEF CleanupOK
<1>2. verdict[r] = "passed" =>
        /\ running[r] \subseteq NotYetStopped(pc[r])
        /\ pc[r] \in Past => campaign[r] # "RUNNING"
  BY DEF CleanupOK
<1>3. pc[r] = "insertCampaign" => pc[r] \notin Past
  OBVIOUS
<1>4. CASE FindRunning \/ Reconcile \/ Shutdown
  BY <1>2, <1>4 DEF FindRunning, Reconcile, Shutdown, taskVars, databaseVars
<1>5. CASE StopOrphanedCampaigns
  BY <1>2, <1>5 DEF StopOrphanedCampaigns, taskVars
<1>6. CASE ShutdownEnds \/ Crash
  BY <1>6 DEF ShutdownEnds, Crash, ProcessEnds, NotYetStopped
<1>7. ASSUME NEW s \in Runs, CreateRun(s) \/ CreateFails(s)
      PROVE  CleanAfter(r)
  BY <1>2, <1>7
  DEF CreateRun, CreateFails, RequestsOK, TasksOK, NotYetStopped, taskVars,
      databaseVars
<1>8. ASSUME NEW s \in Runs, s # r,
             RunStep(s) \/ AgentsLeave(s) \/ FindViolation(s) \/ RunFails(s)
               \/ CallEnds(s) \/ HeartbeatFails(s)
      PROVE  CleanAfter(r)
  <2>1. pc'[r] = pc[r] /\ running'[r] = running[r] /\ verdict'[r] = verdict[r]
    BY <1>8, OwnStepOnly
  <2>2. pc[r] \in Past => (campaign'[r] = "RUNNING" => campaign[r] = "RUNNING")
    BY CampaignsKept DEF At
  <2>3. QED
    BY <1>2, <2>1, <2>2
<1>9. ASSUME NEW s \in Runs, NEW other \in Runs,
             Dial(s, other) \/ HeartbeatTimesOut(s, other)
      PROVE  CleanAfter(r)
  BY <1>2, <1>9 DEF Dial, HeartbeatTimesOut, taskVars
<1>10. CASE Start(r) \/ Seed(r) \/ TimelineEnds(r)
  BY <1>2, <1>10
  DEF Start, Seed, TimelineEnds, At, Go, NotYetStopped
<1>11. CASE LogIn(r) \/ FindViolation(r) \/ ConfirmViolation(r)
  BY <1>2, <1>11
  DEF LogIn, FindViolation, ConfirmViolation, At, Go, NotYetStopped,
      BackgroundTasks
<1>12. CASE StopWorkers(r) \/ StopCampaign(r) \/ Drain(r)
  BY <1>2, <1>12
  DEF StopWorkers, StopCampaign, Drain, StopTasks, At, Go, NotYetStopped,
      databaseVars
<1>13. CASE StopRecovery(r)
  <2>1. "workers" \notin running[r]
    BY <1>13 DEF StopRecovery, At, WorkersStopWithTheirRun
  <2>2. QED
    BY <1>2, <1>13, <2>1
    DEF StopRecovery, StopTasks, At, Go, NotYetStopped, BackgroundTasks,
        databaseVars
<1>14. CASE StopSimulator(r) \/ StopCarriers(r)
  BY <1>2, <1>14
  DEF StopSimulator, StopCarriers, StopTasks, At, Go, NotYetStopped,
      databaseVars
<1>15. CASE Settle(r) \/ Report(r)
  BY <1>2, <1>15
  DEF Settle, Report, At, Go, NotYetStopped, databaseVars
<1>16. CASE Finish(r)
  BY <1>16 DEF Finish, At, Go, NotYetStopped
<1>17. CASE RunFails(r) \/ RunCancelled(r)
  BY <1>17 DEF RunFails, RunCancelled
<1>18. CASE CancellationSwallowed(r) \/ AgentsLeave(r) \/ CallEnds(r)
  BY <1>2, <1>18
  DEF CancellationSwallowed, AgentsLeave, CallEnds, taskVars, databaseVars
<1>19. CASE HeartbeatFails(r)
  BY <1>2, <1>19
  DEF HeartbeatFails, NotYetStopped, databaseVars, BackgroundTasks
<1>20. QED
  BY <1>4, <1>5, <1>6, <1>7, <1>8, <1>9, <1>10, <1>11, <1>12, <1>13, <1>14,
     <1>15, <1>16, <1>17, <1>18, <1>19
  DEF Next, RunStep

LEMMA CompletedNext ==
  ASSUME RunnerTypeOK, RequestsOK, TasksOK, CleanupOK, CompletedRunLeftNothing,
         Next
  PROVE  CompletedRunLeftNothing'
<1> USE DEF RunnerTypeOK
<1> SUFFICES ASSUME NEW r \in Runs, status'[r] = "COMPLETED"
             PROVE  running'[r] = {} /\ campaign'[r] # "RUNNING"
  BY DEF CompletedRunLeftNothing
<1>1. CASE Finish(r)
  <2>1. running'[r] = running[r] /\ campaign' = campaign
    BY <1>1 DEF Finish, databaseVars
  <2>2. verdict[r] = "passed" /\ pc[r] = "finish"
    BY <1>1 DEF Finish, At
  <2>3. QED
    BY <2>1, <2>2 DEF CleanupOK, NotYetStopped
<1>2. CASE status[r] = "COMPLETED"
  <2>1. running[r] = {} /\ campaign[r] # "RUNNING" /\ ~Executing(r)
    BY <1>2 DEF CompletedRunLeftNothing, TasksOK
  <2>2. campaign'[r] # "RUNNING"
    BY <2>1, CampaignsKept DEF At, Executing
  <2>3. CASE \/ FindRunning \/ Reconcile \/ StopOrphanedCampaigns \/ Shutdown
             \/ ShutdownEnds \/ Crash
    BY <2>1, <2>2, <2>3
    DEF FindRunning, Reconcile, StopOrphanedCampaigns, Shutdown, ShutdownEnds,
        Crash, ProcessEnds, taskVars
  <2>4. CASE \E s \in Runs :
               \/ CreateRun(s) \/ CreateFails(s)
               \/ \E other \in Runs : Dial(s, other) \/ HeartbeatTimesOut(s, other)
    BY <2>1, <2>2, <2>4
    DEF CreateRun, CreateFails, Dial, HeartbeatTimesOut, taskVars
  <2>5. ASSUME NEW s \in Runs, s # r,
               RunStep(s) \/ AgentsLeave(s) \/ FindViolation(s) \/ RunFails(s)
                 \/ CallEnds(s) \/ HeartbeatFails(s)
        PROVE  running'[r] = {}
    BY <2>1, <2>5, OwnStepOnly
  <2>6. CASE AgentsLeave(r) \/ CallEnds(r) \/ HeartbeatFails(r)
    BY <2>1, <2>6 DEF AgentsLeave, CallEnds, HeartbeatFails, taskVars
  <2>7. CASE RunStep(r) \/ FindViolation(r) \/ RunFails(r)
    BY <2>1, <2>7, RunIsExecuting
  <2>8. QED
    BY <2>2, <2>3, <2>4, <2>5, <2>6, <2>7 DEF Next
<1>3. CASE status[r] # "COMPLETED" /\ ~Finish(r)
  <2>1. status'[r] # "COMPLETED"
    BY <1>3, StatusKept
  <2>2. QED
    BY <2>1
<1>4. QED
  BY <1>1, <1>2, <1>3

-----------------------------------------------------------------------------
(* The invariant, and what follows from it.                                *)

LEMMA RunnerNext == RunnerInv /\ [Next]_vars => RunnerInv'
<1> SUFFICES ASSUME RunnerInv, [Next]_vars PROVE RunnerInv'
  OBVIOUS
<1>1. CASE Next
  BY <1>1, TypeNext, RequestsNext, TasksNext, WorkersNext, CampaignsNext,
     CallsNext, CleanupNext, CompletedNext
  DEF RunnerInv
<1>2. CASE UNCHANGED vars
  BY <1>2
  DEF RunnerInv, RunnerTypeOK, RequestsOK, TasksOK, WorkersStopWithTheirRun,
      CampaignsOK, CallsAreOfTheirOwnRun, CleanupOK, CompletedRunLeftNothing,
      Executing, vars, recordVars, taskVars, databaseVars, processVars
<1>3. QED
  BY <1>1, <1>2

LEMMA RunnerInvariance == Spec => []RunnerInv
BY RunnerInit, RunnerNext, PTL DEF Spec

(* Every record, task and document of every reachable state has its type.  *)
THEOREM RunnerTypeCorrect == Spec => []RunnerTypeOK
<1>1. RunnerInv => RunnerTypeOK
  BY DEF RunnerInv
<1>2. QED
  BY <1>1, RunnerInvariance, PTL

(* find_running and create are two operations: it takes a race between two *)
(* requests for two runs to be under way together, and nothing else, no    *)
(* crash, restart or error, does it.                                       *)
THEOREM OneRunWithoutARace == Spec => []OneSimulationAtATime
<1>1. RunnerInv => OneSimulationAtATime
  <2> SUFFICES ASSUME RunnerInv, ~raced
               PROVE  Cardinality({r \in Runs : Executing(r)}) <= 1
    BY DEF OneSimulationAtATime
  <2> DEFINE S == {r \in Runs : Executing(r)}
  <2>1. CASE S = {}
    BY <2>1, FS_EmptySet
  <2>2. CASE S # {}
    <3>1. PICK r \in S : TRUE
      BY <2>2
    <3>2. S = {r}
      BY <3>1 DEF RunnerInv, TasksOK
    <3>3. Cardinality({r}) = 1
      BY FS_Singleton
    <3>4. QED
      BY <3>2, <3>3
  <2>3. QED
    BY <2>1, <2>2
<1>2. QED
  BY <1>1, RunnerInvariance, PTL

(* Whichever await of a run an error or a cancellation interrupts, its     *)
(* dialer workers are stopped before its task ends.                        *)
THEOREM WorkersNeverOutliveARun == Spec => []WorkersStopWithTheirRun
<1>1. RunnerInv => WorkersStopWithTheirRun
  BY DEF RunnerInv
<1>2. QED
  BY <1>1, RunnerInvariance, PTL

(* A worker finds every RUNNING campaign of the one simulation database,   *)
(* and yet, unless two requests raced, it dials its own run's only.        *)
THEOREM RunsDialTheirOwn == Spec => []CallsAreOfTheirOwnRun
<1>1. RunnerInv => CallsAreOfTheirOwnRun
  BY DEF RunnerInv
<1>2. QED
  BY <1>1, RunnerInvariance, PTL

(* A run whose record says COMPLETED has stopped all of its background     *)
(* tasks and its campaign, and neither comes back.                         *)
THEOREM CompletedRunsLeaveNothing == Spec => []CompletedRunLeftNothing
<1>1. RunnerInv => CompletedRunLeftNothing
  BY DEF RunnerInv
<1>2. QED
  BY <1>1, RunnerInvariance, PTL

(* No late _finish, restart or reconcile changes a verdict.                *)
THEOREM VerdictsAreFinal == Spec => VerdictIsFinal
<1>1. RunnerInv /\ [Next]_vars =>
        [\A r \in Runs : status[r] \in {"COMPLETED", "FAILED"} =>
           status'[r] = status[r]]_vars
  BY StatusKept DEF RunnerInv, vars
<1>2. QED
  BY <1>1, RunnerInvariance, PTL DEF Spec, VerdictIsFinal

=============================================================================
