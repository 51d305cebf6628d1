-------------------------- MODULE SimulationRunner --------------------------
(***************************************************************************)
(* Simulations: SimulationRunner (app/simulation/runner.py), which the API *)
(* asks to start runs, and SimulationEngine.run (engine.py), the task that *)
(* each run is.  All runs share one database, which a run clears and seeds *)
(* before it starts dialer workers, a recovery worker, a heartbeat loop    *)
(* and carriers of its own, and whose records are in the live database.    *)
(*                                                                         *)
(* A run is a coroutine: pc names the await it is at.  An await that       *)
(* raises, for a database error or a cancellation, is left without its     *)
(* effect; an effect made before the cancellation was noticed is the same  *)
(* as a cancellation one await later.  What a run dials with is modelled   *)
(* in SmartDialer: here a campaign has one agent and one borrower.         *)
(***************************************************************************)
EXTENDS Naturals, FiniteSets

CONSTANTS
  None,         \* no run
  Runs,         \* bound: the runs ever asked for
  MaxRequests,  \* bound: the requests in flight at a time
  Faults,       \* bound: what can go wrong
  MaxFaults     \* bound: how often something does

ASSUME RunnerAssumption ==
  /\ None \notin Runs
  /\ MaxRequests \in Nat
  /\ MaxFaults \in Nat
  /\ Faults \subseteq {"crash", "shutdown", "dbError"}

VARIABLES
  status,     \* simulation_runs: the status of each run's record
  requested,  \* the runs that requests which found none RUNNING will record
  raced,      \* history: two requests were at that point together
  task,       \* SimulationRunner._task, the last run started
  pc,         \* the await at which the task of each run is
  cancelled,  \* runs with a cancellation not yet noticed
  verdict,    \* what the task has to report
  running,    \* the background tasks of each run
  campaign,   \* simulation database: the status of each run's campaign
  agent,      \* simulation database: the agent of each run's campaign
  dialledBy,  \* simulation database: whose worker placed its active call
  process,    \* the API process
  faults      \* how much went wrong

recordVars == <<status, requested, raced, task>>
taskVars == <<pc, cancelled, verdict, running>>
databaseVars == <<campaign, agent, dialledBy>>
processVars == <<process, faults>>
vars == <<recordVars, taskVars, databaseVars, processVars>>

BackgroundTasks == {"workers", "recovery", "heartbeat", "heartbeatError",
                    "carriers"}

(* The awaits of SimulationEngine.run, by where an exception takes it.     *)
Seeding  == {"clearCampaigns", "clearAgents", "clearCalls", "insertCampaign",
             "insertAgents"}
Trying   == {"login", "timeline", "confirm"}
Stopping == {"stopWorkers", "stopRecovery", "stopSimulator"}
Ending   == {"stopCampaign", "drain", "stopCarriers", "settle"}
Phases == Seeding \cup Trying \cup Stopping \cup Ending \cup
          {"none", "created", "report", "finish", "lost", "over"}

RunnerTypeOK ==
  /\ status \in [Runs -> {"none", "RUNNING", "COMPLETED", "FAILED"}]
  /\ requested \subseteq Runs
  /\ raced \in BOOLEAN
  /\ task \in Runs \cup {None}
  /\ pc \in [Runs -> Phases]
  /\ cancelled \subseteq Runs
  /\ verdict \in [Runs -> {"passed", "failed", "raised"}]
  /\ running \in [Runs -> SUBSET BackgroundTasks]
  /\ campaign \in [Runs -> {"none", "RUNNING", "STOPPED"}]
  /\ agent \in [Runs -> {"none", "offline", "available"}]
  /\ dialledBy \in [Runs -> Runs \cup {None}]
  /\ process \in {"down", "reconciled", "serving", "stopping"}
  /\ faults \in 0..MaxFaults

Init ==
  /\ status = [r \in Runs |-> "none"]
  /\ requested = {}
  /\ raced = FALSE
  /\ task = None
  /\ pc = [r \in Runs |-> "none"]
  /\ cancelled = {}
  /\ verdict = [r \in Runs |-> "passed"]
  /\ running = [r \in Runs |-> {}]
  /\ campaign = [r \in Runs |-> "none"]
  /\ agent = [r \in Runs |-> "none"]
  /\ dialledBy = [r \in Runs |-> None]
  /\ process = "down"
  /\ faults = 0

(* One more fault of an explored kind.                                     *)
Fault(kind) ==
  kind \in Faults /\ faults < MaxFaults /\ faults' = faults + 1

Executing(r) == pc[r] \notin {"none", "lost", "over"}

-----------------------------------------------------------------------------
(* The runner                                                              *)

(* Mutation: a start that does not look for a run RUNNING.                 *)
FindNone ==
  LET unused == {r \in Runs \ requested : status[r] = "none"} IN
  /\ process = "serving"
  /\ Cardinality(requested) < MaxRequests
  /\ unused # {}
  /\ requested' = requested \cup {CHOOSE r \in unused : TRUE}
  /\ raced' = (raced \/ requested # {})
  /\ UNCHANGED <<status, task, taskVars, databaseVars, processVars>>

(* start, up to find_running: a request that finds a run RUNNING is        *)
(* refused.  The id is a new one.                                          *)
FindRunning ==
  LET unused == {r \in Runs \ requested : status[r] = "none"} IN
  /\ process = "serving"
  /\ Cardinality(requested) < MaxRequests
  /\ \A r \in Runs : status[r] # "RUNNING"
  /\ unused # {}
  /\ requested' = requested \cup {CHOOSE r \in unused : TRUE}
  /\ raced' = (raced \/ requested # {})
  /\ UNCHANGED <<status, task, taskVars, databaseVars, processVars>>

(* The rest of start: the record is written, and the task made of it is    *)
(* the one the runner remembers.                                           *)
CreateRun(r) ==
  /\ r \in requested
  /\ status' = [status EXCEPT ![r] = "RUNNING"]
  /\ pc' = [pc EXCEPT ![r] = "created"]
  /\ task' = r
  /\ requested' = requested \ {r}
  /\ UNCHANGED <<raced, cancelled, verdict, running, databaseVars, processVars>>

CreateFails(r) ==
  /\ Fault("dbError")
  /\ r \in requested
  /\ requested' = requested \ {r}
  /\ UNCHANGED <<status, raced, task, taskVars, databaseVars, process>>

(* Mutations: reconcile, of every run; of none.                            *)
ReconcileAll ==
  /\ process = "down"
  /\ status' = [r \in Runs |-> IF status[r] = "none" THEN "none" ELSE "FAILED"]
  /\ process' = "reconciled"
  /\ UNCHANGED <<requested, raced, task, taskVars, databaseVars, faults>>

ReconcileNone ==
  /\ process = "down"
  /\ process' = "reconciled"
  /\ UNCHANGED <<recordVars, taskVars, databaseVars, faults>>

(* lifespan, before the first request: reconcile and                       *)
(* stop_orphaned_simulation_campaigns.                                     *)
Reconcile ==
  /\ process = "down"
  /\ status' = [r \in Runs |->
                  IF status[r] = "RUNNING" THEN "FAILED" ELSE status[r]]
  /\ process' = "reconciled"
  /\ UNCHANGED <<requested, raced, task, taskVars, databaseVars, faults>>

StopOrphanedCampaigns ==
  /\ process = "reconciled"
  /\ campaign' = [r \in Runs |->
                    IF campaign[r] = "RUNNING" THEN "STOPPED" ELSE campaign[r]]
  /\ process' = "serving"
  /\ UNCHANGED <<recordVars, taskVars, agent, dialledBy, faults>>

(* lifespan, after the last request: shutdown cancels the run the runner   *)
(* remembers and waits for it.                                             *)
Shutdown ==
  /\ Fault("shutdown")
  /\ process = "serving"
  /\ requested = {}
  /\ cancelled' = {r \in {task} : r # None /\ Executing(r)}
  /\ process' = "stopping"
  /\ UNCHANGED <<recordVars, pc, verdict, running, databaseVars>>

(* With the process, every task of it is gone.                             *)
ProcessEnds ==
  /\ process' = "down"
  /\ requested' = {}
  /\ task' = None
  /\ pc' = [r \in Runs |-> IF pc[r] = "none" THEN "none" ELSE "over"]
  /\ cancelled' = {}
  /\ verdict' = [r \in Runs |-> "passed"]
  /\ running' = [r \in Runs |-> {}]
  /\ UNCHANGED <<status, raced, databaseVars>>

ShutdownEnds ==
  /\ process = "stopping"
  /\ task # None => ~Executing(task)
  /\ ProcessEnds
  /\ UNCHANGED faults

Crash ==
  /\ Fault("crash")
  /\ process # "down"
  /\ ProcessEnds

-----------------------------------------------------------------------------
(* The run                                                                 *)

At(r, phase) == pc[r] = phase /\ r \notin cancelled

Go(r, phase) == pc' = [pc EXCEPT ![r] = phase]

(* Mutation: a run clears only what is its own.                            *)
ClearedOwn(documents, r, value) == [documents EXCEPT ![r] = value]

(* A collection of the simulation database after delete_many({}).          *)
Cleared(documents, r, value) == [other \in Runs |-> value]

Start(r) ==
  /\ At(r, "created")
  /\ Go(r, "clearCampaigns")
  /\ UNCHANGED <<recordVars, cancelled, verdict, running, databaseVars,
                 processVars>>

(* _seed clears what any run left and writes this run's campaign.          *)
Seed(r) ==
  /\ \/ /\ At(r, "clearCampaigns")
        /\ Go(r, "clearAgents")
        /\ campaign' = Cleared(campaign, r, "none")
        /\ UNCHANGED <<agent, dialledBy>>
     \/ /\ At(r, "clearAgents")
        /\ Go(r, "clearCalls")
        /\ agent' = Cleared(agent, r, "none")
        /\ UNCHANGED <<campaign, dialledBy>>
     \/ /\ At(r, "clearCalls")
        /\ Go(r, "insertCampaign")
        /\ dialledBy' = Cleared(dialledBy, r, None)
        /\ UNCHANGED <<campaign, agent>>
     \/ /\ At(r, "insertCampaign")
        /\ Go(r, "insertAgents")
        /\ campaign' = [campaign EXCEPT ![r] = "RUNNING"]
        /\ UNCHANGED <<agent, dialledBy>>
     \/ /\ At(r, "insertAgents")
        /\ Go(r, "login")
        /\ agent' = [agent EXCEPT ![r] = "offline"]
        /\ UNCHANGED <<campaign, dialledBy>>
  /\ UNCHANGED <<recordVars, cancelled, verdict, running, processVars>>

(* log_everyone_in; then every background task is started at once.         *)
LogIn(r) ==
  /\ At(r, "login")
  /\ Go(r, "timeline")
  /\ agent' = [agent EXCEPT ![r] = IF @ = "offline" THEN "available" ELSE @]
  /\ running' = [running EXCEPT
       ![r] = {"workers", "recovery", "heartbeat", "carriers"}]
  /\ UNCHANGED <<recordVars, cancelled, verdict, campaign, dialledBy,
                 processVars>>

(* agent_availability_drop: only agents who wait for a call leave.         *)
AgentsLeave(r) ==
  /\ At(r, "timeline")
  /\ agent[r] = "available" /\ dialledBy[r] = None
  /\ agent' = [agent EXCEPT ![r] = "offline"]
  /\ UNCHANGED <<recordVars, taskVars, campaign, dialledBy, processVars>>

(* InvariantChecker: a campaign has no more active calls than usable       *)
(* agents.                                                                 *)
CapacityExceeded(r) ==
  dialledBy[r] # None /\ agent[r] \in {"none", "offline"}

(* _run_timeline believes a violation that it finds twice.                 *)
FindViolation(r) ==
  /\ At(r, "timeline")
  /\ CapacityExceeded(r)
  /\ Go(r, "confirm")
  /\ UNCHANGED <<recordVars, cancelled, verdict, running, databaseVars,
                 processVars>>

ConfirmViolation(r) ==
  /\ At(r, "confirm")
  /\ IF CapacityExceeded(r)
     THEN /\ Go(r, "stopWorkers")
          /\ verdict' = [verdict EXCEPT ![r] = "failed"]
     ELSE Go(r, "timeline") /\ UNCHANGED verdict
  /\ UNCHANGED <<recordVars, cancelled, running, databaseVars, processVars>>

TimelineEnds(r) ==
  /\ At(r, "timeline")
  /\ Go(r, "stopWorkers")
  /\ UNCHANGED <<recordVars, cancelled, verdict, running, databaseVars,
                 processVars>>

-----------------------------------------------------------------------------
(* The finally clause                                                      *)

StopTasks(r, tasks) == running' = [running EXCEPT ![r] = @ \ tasks]

StopWorkers(r) ==
  /\ At(r, "stopWorkers")
  /\ Go(r, "stopCampaign")
  /\ StopTasks(r, {"workers"})
  /\ UNCHANGED <<recordVars, cancelled, verdict, databaseVars, processVars>>

StopCampaign(r) ==
  /\ At(r, "stopCampaign")
  /\ Go(r, "drain")
  /\ campaign' = [campaign EXCEPT ![r] = IF @ = "none" THEN @ ELSE "STOPPED"]
  /\ UNCHANGED <<recordVars, cancelled, verdict, running, agent, dialledBy,
                 processVars>>

(* _drain waits for the calls to end, but not for ever.                    *)
Drain(r) ==
  /\ At(r, "drain")
  /\ Go(r, "stopRecovery")
  /\ UNCHANGED <<recordVars, cancelled, verdict, running, databaseVars,
                 processVars>>

StopRecovery(r) ==
  /\ At(r, "stopRecovery")
  /\ Go(r, "stopSimulator")
  /\ StopTasks(r, {"recovery"})
  /\ UNCHANGED <<recordVars, cancelled, verdict, databaseVars, processVars>>

(* AgentSimulator.stop waits for the heartbeat loop, and raises what ended *)
(* it.                                                                     *)
StopSimulator(r) ==
  /\ At(r, "stopSimulator")
  /\ StopTasks(r, {"heartbeat", "heartbeatError"})
  /\ IF "heartbeatError" \in running[r]
     THEN Go(r, "finish") /\ verdict' = [verdict EXCEPT ![r] = "raised"]
     ELSE Go(r, "stopCarriers") /\ UNCHANGED verdict
  /\ UNCHANGED <<recordVars, cancelled, databaseVars, processVars>>

StopCarriers(r) ==
  /\ At(r, "stopCarriers")
  /\ Go(r, "settle")
  /\ StopTasks(r, {"carriers"})
  /\ UNCHANGED <<recordVars, cancelled, verdict, databaseVars, processVars>>

(* _settle lets every lease run out and sweeps, which ends the calls that  *)
(* are left; a sweep that fails is skipped.                                *)
Settle(r) ==
  /\ At(r, "settle")
  /\ Go(r, IF verdict[r] = "raised" THEN "finish" ELSE "report")
  /\ \/ dialledBy' = [dialledBy EXCEPT ![r] = None] /\ UNCHANGED faults
     \/ Fault("dbError") /\ UNCHANGED dialledBy
  /\ UNCHANGED <<recordVars, cancelled, verdict, running, campaign, agent,
                 process>>

(* The final check, which also looks for agents left RESERVED, and         *)
(* _reload, which raises if the campaign is no longer there.               *)
Report(r) ==
  /\ At(r, "report")
  /\ Go(r, "finish")
  /\ \E found \in {CapacityExceeded(r), dialledBy[r] # None} :
       verdict' = [verdict EXCEPT
         ![r] = IF campaign[r] = "none" THEN "raised"
                ELSE IF found THEN "failed" ELSE @]
  /\ UNCHANGED <<recordVars, cancelled, running, databaseVars, processVars>>

(* Mutations: a run that raised reported COMPLETED; a status that is the   *)
(* verdict itself.                                                         *)
FinishUnlessFailed(r) ==
  /\ At(r, "finish")
  /\ status' = [status EXCEPT
       ![r] = IF verdict[r] = "failed" THEN "FAILED" ELSE "COMPLETED"]
  /\ Go(r, "over")
  /\ verdict' = [verdict EXCEPT ![r] = "passed"]
  /\ UNCHANGED <<requested, raced, task, cancelled, running, databaseVars,
                 processVars>>

FinishVerbatim(r) ==
  /\ At(r, "finish")
  /\ status' = [status EXCEPT ![r] = verdict[r]]
  /\ Go(r, "over")
  /\ UNCHANGED <<requested, raced, task, cancelled, verdict, running,
                 databaseVars, processVars>>

(* _finish, whichever way the run ended.                                   *)
Finish(r) ==
  /\ At(r, "finish")
  /\ status' = [status EXCEPT
       ![r] = IF verdict[r] = "passed" THEN "COMPLETED" ELSE "FAILED"]
  /\ Go(r, "over")
  /\ verdict' = [verdict EXCEPT ![r] = "passed"]
  /\ UNCHANGED <<requested, raced, task, cancelled, running, databaseVars,
                 processVars>>

-----------------------------------------------------------------------------
(* Exceptions                                                              *)

(* Mutation: no finally clause.                                            *)
UnwoundAtOnce(phase) ==
  IF phase \in {"created", "finish"} THEN "lost" ELSE "finish"

(* Where an exception takes a run: out of run and to _finish, unless it    *)
(* meets the finally clause; out of that too, and its remaining lines are  *)
(* not executed; out of _finish, and nothing is recorded.                  *)
Unwound(phase) ==
  CASE phase \in Trying                        -> "stopWorkers"
    [] phase \in Seeding \cup Ending \cup {"report"} -> "finish"
    [] phase \in {"created", "finish"}         -> "lost"

(* A database error: in the try block it is noted and the run goes on.     *)
RunFails(r) ==
  /\ Fault("dbError")
  /\ r \notin cancelled
  /\ pc[r] \in Seeding \cup Trying \cup {"stopCampaign", "drain", "settle",
                                         "report", "finish"}
  /\ Go(r, Unwound(pc[r]))
  /\ verdict' = [verdict EXCEPT
       ![r] = IF pc[r] \in Trying THEN "failed" ELSE "raised"]
  /\ UNCHANGED <<recordVars, cancelled, running, databaseVars, process>>

(* A cancellation that is not swallowed.                                   *)
RunCancelled(r) ==
  /\ r \in cancelled
  /\ Executing(r) /\ pc[r] \notin Stopping
  /\ Go(r, Unwound(pc[r]))
  /\ verdict' = [verdict EXCEPT ![r] = "raised"]
  /\ cancelled' = cancelled \ {r}
  /\ UNCHANGED <<recordVars, running, databaseVars, processVars>>

(* The stop methods of the worker, the recovery worker and the simulator   *)
(* take a cancellation for that of the task they stop: the run goes on.    *)
CancellationSwallowed(r) ==
  /\ r \in cancelled
  /\ pc[r] \in Stopping
  /\ cancelled' = cancelled \ {r}
  /\ UNCHANGED <<recordVars, pc, verdict, running, databaseVars, processVars>>

-----------------------------------------------------------------------------
(* The background tasks of a run                                           *)

(* DialerWorker.run_once: every RUNNING campaign of the database.          *)
Dial(r, other) ==
  /\ "workers" \in running[r]
  /\ campaign[other] = "RUNNING"
  /\ agent[other] = "available" /\ dialledBy[other] = None
  /\ dialledBy' = [dialledBy EXCEPT ![other] = r]
  /\ UNCHANGED <<recordVars, taskVars, campaign, agent, processVars>>

CallEnds(r) ==
  /\ dialledBy[r] # None
  /\ "carriers" \in running[dialledBy[r]]
  /\ dialledBy' = [dialledBy EXCEPT ![r] = None]
  /\ UNCHANGED <<recordVars, taskVars, campaign, agent, processVars>>

(* _heartbeat_loop has no handler for a database error.                    *)
HeartbeatFails(r) ==
  /\ Fault("dbError")
  /\ "heartbeat" \in running[r]
  /\ running' = [running EXCEPT
       ![r] = (@ \ {"heartbeat"}) \cup {"heartbeatError"}]
  /\ UNCHANGED <<recordVars, pc, cancelled, verdict, databaseVars, process>>

(* Agents without a heartbeat are logged out, and their calls ended, by    *)
(* any recovery worker.                                                    *)
HeartbeatTimesOut(r, other) ==
  /\ "recovery" \in running[r]
  /\ "heartbeatError" \in running[other]
  /\ agent[other] = "available"
  /\ agent' = [agent EXCEPT ![other] = "offline"]
  /\ dialledBy' = [dialledBy EXCEPT ![other] = None]
  /\ UNCHANGED <<recordVars, taskVars, campaign, processVars>>

-----------------------------------------------------------------------------

RunStep(r) ==
  \/ Start(r) \/ Seed(r) \/ LogIn(r)
  \/ TimelineEnds(r) \/ ConfirmViolation(r)
  \/ StopWorkers(r) \/ StopCampaign(r) \/ Drain(r)
  \/ StopRecovery(r) \/ StopSimulator(r) \/ StopCarriers(r) \/ Settle(r)
  \/ Report(r) \/ Finish(r)
  \/ RunCancelled(r) \/ CancellationSwallowed(r)

Next ==
  \/ FindRunning \/ \E r \in Runs : CreateRun(r) \/ CreateFails(r)
  \/ Reconcile \/ StopOrphanedCampaigns
  \/ Shutdown \/ ShutdownEnds \/ Crash
  \/ \E r \in Runs :
       \/ RunStep(r) \/ AgentsLeave(r) \/ FindViolation(r) \/ RunFails(r)
       \/ CallEnds(r) \/ HeartbeatFails(r)
       \/ \E other \in Runs : Dial(r, other) \/ HeartbeatTimesOut(r, other)

(* The event loop runs each task, the clock of the timeline runs out, and  *)
(* a process that is down is started again.                                *)
Fairness ==
  /\ WF_vars(Reconcile \/ StopOrphanedCampaigns \/ ShutdownEnds)
  /\ \A r \in Runs : WF_vars(RunStep(r))

Spec == Init /\ [][Next]_vars

FairSpec == Spec /\ Fairness

-----------------------------------------------------------------------------
(* Properties                                                              *)

(* "A simulation is already running": two runs are under way together only *)
(* if two requests had both found none before either recorded its own.     *)
OneSimulationAtATime ==
  raced \/ Cardinality({r \in Runs : Executing(r)}) <= 1

(* No run leaves a dialer worker behind, whichever way it ends: errors and *)
(* cancellations before, in and after its finally clause included.         *)
WorkersStopWithTheirRun ==
  \A r \in Runs :
    "workers" \in running[r] => pc[r] \in {"timeline", "confirm", "stopWorkers"}

(* Runs are isolated from each other by time alone: a worker finds every   *)
(* RUNNING campaign of the database, whatever an earlier run left in it.   *)
(* Unless two requests raced, it dials the campaign of its own run only.   *)
CallsAreOfTheirOwnRun ==
  \A r \in Runs : raced \/ dialledBy[r] \in {r, None}

(* A run reported COMPLETED took everything down: none of its tasks goes   *)
(* on and its campaign is not dialled any more.                            *)
CompletedRunLeftNothing ==
  \A r \in Runs : status[r] = "COMPLETED" =>
    running[r] = {} /\ campaign[r] # "RUNNING"

(* What a run reported is never changed: not by a late _finish, and not by *)
(* reconcile after a restart.                                              *)
VerdictIsFinal ==
  [][\A r \in Runs : status[r] \in {"COMPLETED", "FAILED"} =>
       status'[r] = status[r]]_vars

Undecided(r) == status[r] = "RUNNING" /\ pc[r] # "lost"

(* A record does not stay RUNNING, which would have every later start      *)
(* refused, unless the write of the verdict itself failed or shutdown came *)
(* before the first step of the run; a restart settles those too.          *)
EveryRunIsDecided ==
  (\E r \in Runs : Undecided(r)) ~> (\A r \in Runs : ~Undecided(r))

=============================================================================
