--------------------------- MODULE RecoveryWorker ---------------------------
(***************************************************************************)
(* RecoveryWorker.run_sweeps (app/workers/recovery_worker.py): five sweeps *)
(* in a fixed order, each a query followed by one item after the other.    *)
(* An agent or a call item is the document as the query returned it.       *)
(***************************************************************************)
EXTENDS MockProvider

VARIABLE
  sweep         \* the sweep running, its items left, and the item at hand

Stages == {"asleep", "agentLeases", "borrowerLeases", "orphans",
           "heartbeats", "wrapUps"}

(* Mutation: the borrower leases come first.                               *)
BorrowersFirst ==
  [asleep         |-> {"agentLeases", "borrowerLeases", "orphans",
                       "heartbeats", "wrapUps"},
   borrowerLeases |-> {"agentLeases", "orphans", "heartbeats", "wrapUps"},
   agentLeases    |-> {"orphans", "heartbeats", "wrapUps"},
   orphans        |-> {"heartbeats", "wrapUps"},
   heartbeats     |-> {"wrapUps"},
   wrapUps        |-> {}]

(* The sweeps still to come in a pass, whose order is fixed.               *)
SweepsAfter ==
  [asleep         |-> {"agentLeases", "borrowerLeases", "orphans",
                       "heartbeats", "wrapUps"},
   agentLeases    |-> {"borrowerLeases", "orphans", "heartbeats", "wrapUps"},
   borrowerLeases |-> {"orphans", "heartbeats", "wrapUps"},
   orphans        |-> {"heartbeats", "wrapUps"},
   heartbeats     |-> {"wrapUps"},
   wrapUps        |-> {}]

AgentSnapshots == [agent : Agents, state : AgentStates, version : Nat,
                   call : CallKeys \cup {None}]

CallSnapshots == [call : CallKeys, line : LineIds \cup {None}]

Items == AgentSnapshots \cup Borrowers \cup CallSnapshots

SweepSteps == {"next", "freeAgent", "freeBorrower", "settle"}

RecoveryTypeOK ==
  sweep \in [stage : Stages, todo : SUBSET Items, step : SweepSteps,
             item : Items \cup {None}]

Asleep == [stage |-> "asleep", todo |-> {}, step |-> "next", item |-> None]

RecoveryInit == sweep = Asleep

At(stage, step) == sweep.stage = stage /\ sweep.step = step

Step(step, item) == sweep' = [sweep EXCEPT !.step = step, !.item = item]

ItemDone(item) ==
  sweep' = [sweep EXCEPT !.todo = @ \ {item}, !.step = "next", !.item = None]

Snapshot(a) == [agent |-> a, state |-> agents[a].state,
                version |-> agents[a].version, call |-> agents[a].call]

(* The query of each sweep.                                               *)
Found(stage) ==
  CASE stage = "agentLeases"    -> {Snapshot(a) : a \in ExpiredAgentLeases}
    [] stage = "borrowerLeases" -> ExpiredBorrowerLeases
    [] stage = "orphans"        ->
         {[call |-> k, line |-> calls[k].line] : k \in FindStaleCalls}
    [] stage = "heartbeats"     ->
         {Snapshot(a) : a \in {x \in Agents :
            agents[x].state # "OFFLINE" /\ ~agents[x].alive}}
    [] stage = "wrapUps"        ->
         {Snapshot(a) : a \in {x \in Agents : agents[x].state = "WRAP_UP"}}

BeginSweep(stage, items) ==
  sweep' = [Asleep EXCEPT !.stage = stage, !.todo = items]

(* The next sweep that finds anything.  Every query compares deadlines     *)
(* with the time the pass started, so nothing turns up while it runs and a *)
(* sweep that finds nothing can be passed over.  Which wrap-ups have       *)
(* outlasted their grace period is left open.                              *)
NextSweep ==
  /\ sweep.step = "next"
  /\ sweep.todo = {}
  /\ LET due == {s \in SweepsAfter[sweep.stage] \ {"wrapUps"} : Found(s) # {}}
     IN  \/ \E s \in due :
              /\ due \subseteq SweepsAfter[s] \cup {s}
              /\ BeginSweep(s, Found(s))
         \/ /\ due = {}
            /\ sweep.stage # "wrapUps"
            /\ \E items \in (SUBSET Found("wrapUps")) \ {{}} :
                 BeginSweep("wrapUps", items)
         \/ /\ due = {}
            /\ sweep.stage # "asleep"
            /\ sweep' = Asleep
  /\ UNCHANGED <<storeVars, providerVars>>

(* _cancel_bound_call: the call the document named when it was read.       *)
CancelBoundCall(item) ==
  /\ At("agentLeases", "next") \/ At("heartbeats", "next")
  /\ item \in sweep.todo
  /\ IF item.call = None
     THEN UNCHANGED calls /\ Step("settle", item)
     ELSE /\ TransitionCall(item.call, "CANCELLED")
          /\ IF TransitionCallMatches(item.call, "CANCELLED")
             THEN Step("freeBorrower", item)
             ELSE Step("settle", item)
  /\ UNCHANGED <<agents, borrowers, providerVars>>

FreeBoundBorrower ==
  /\ \/ At("agentLeases", "freeBorrower")
     \/ At("heartbeats", "freeBorrower")
  /\ LET k == sweep.item.call
     IN  ReleaseBorrower(k.borrower, calls[k].by, "RETRY")
  /\ Step("settle", sweep.item)
  /\ UNCHANGED <<agents, calls, providerVars>>

(* _sweep_expired_agent_leases and _sweep_heartbeat_timeouts: the agent,   *)
(* compare-and-set on the document as it was read.                         *)
ReclaimAgent ==
  /\ At("agentLeases", "settle")
  /\ ReleaseExpiredAgentLease(sweep.item.agent, sweep.item.state,
                              sweep.item.version)
  /\ ItemDone(sweep.item)
  /\ UNCHANGED <<borrowers, calls, providerVars>>

TakeOffline ==
  /\ At("heartbeats", "settle")
  /\ TransitionAgent(sweep.item.agent, sweep.item.state, "OFFLINE",
                     "RECOVERY", sweep.item.version)
  /\ ItemDone(sweep.item)
  /\ UNCHANGED <<borrowers, calls, providerVars>>

(* _sweep_expired_borrower_leases.                                         *)
SweepBorrower(b) ==
  /\ At("borrowerLeases", "next")
  /\ b \in sweep.todo
  /\ ReclaimBorrower(b)
  /\ ItemDone(b)
  /\ UNCHANGED <<agents, calls, providerVars>>

(* _reconcile_with_provider: only a call the provider says is completed is *)
(* not failed.                                                             *)
ReconciledState(item) ==
  IF item.line # None /\ lines[item.line].status = "COMPLETED"
  THEN "COMPLETED" ELSE "FAILED"

(* _sweep_orphaned_calls, and _release_parties when the update applied.    *)
ReconcileCall(item) ==
  /\ At("orphans", "next")
  /\ item \in sweep.todo
  /\ TransitionCall(item.call, ReconciledState(item))
  /\ IF TransitionCallMatches(item.call, ReconciledState(item))
     THEN Step("freeAgent", item)
     ELSE ItemDone(item)
  /\ UNCHANGED <<agents, borrowers, providerVars>>

FreeOrphanAgent ==
  /\ At("orphans", "freeAgent")
  /\ LET k == sweep.item.call
     IN  ReleaseAgent(k.agent, calls[k].by, "AVAILABLE", "RECOVERY")
  /\ Step("freeBorrower", sweep.item)
  /\ UNCHANGED <<borrowers, calls, providerVars>>

FreeOrphanBorrower ==
  /\ At("orphans", "freeBorrower")
  /\ LET k == sweep.item.call
     IN  ReleaseBorrower(k.borrower, calls[k].by, "RETRY")
  /\ ItemDone(sweep.item)
  /\ UNCHANGED <<agents, calls, providerVars>>

(* _sweep_stuck_wrap_ups.                                                  *)
ReleaseStuckWrapUp(item) ==
  /\ At("wrapUps", "next")
  /\ item \in sweep.todo
  /\ TransitionAgent(item.agent, "WRAP_UP", "AVAILABLE", "RECOVERY",
                     item.version)
  /\ ItemDone(item)
  /\ UNCHANGED <<borrowers, calls, providerVars>>

RecoveryStep ==
  \/ NextSweep
  \/ \E item \in sweep.todo :
       \/ CancelBoundCall(item) \/ SweepBorrower(item)
       \/ ReconcileCall(item) \/ ReleaseStuckWrapUp(item)
  \/ FreeBoundBorrower \/ ReclaimAgent \/ TakeOffline
  \/ FreeOrphanAgent \/ FreeOrphanBorrower

(* An exception ends the sweep it is raised in; the next ones still run.   *)
SweepFails ==
  /\ sweep.stage # "asleep"
  /\ sweep.todo # {}
  /\ sweep' = [Asleep EXCEPT !.stage = sweep.stage]
  /\ UNCHANGED <<storeVars, providerVars>>

=============================================================================
