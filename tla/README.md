# Smart Dialer in TLA+

A TLA+ model of the Smart Dialer (`src/app`), the runs with which TLC checks it
on small instances, and theorems about it that TLAPS proves for instances of
any size.

The program places calls on behalf of collection agents.  One asyncio process
runs a dialer worker, a recovery worker and an HTTP API over a MongoDB; a
telephone carrier, mocked inside the process, reports what becomes of each call
by events.  No lock and no transaction spans two operations: every guarantee
rests on single `find_one_and_update`s with the right filter, on the order of
awaits, on leases, and on sweeps that repair what was left half done.  That is
what is modelled: **one step of the model is one database operation**, with the
local variables of every task kept between its steps.

- [1. Inventory](#1-inventory)
- [2. From code to modules](#2-from-code-to-modules)
- [3. Runs](#3-runs)
- [4. Time, scheduling and fairness](#4-time-scheduling-and-fairness)
- [5. Proofs](#5-proofs)
- [6. Where the code departs from its documentation](#6-where-the-code-departs-from-its-documentation)
- [7. Not modelled](#7-not-modelled)
- [8. Plan](#8-plan)

## 1. Inventory

| component | state | operations | what makes it correct |
|---|---|---|---|
| state machines (`state_machines/`, `models/enums.py`) | none: tables | `can_transition`, `is_actor_allowed`, `should_apply_event`, `is_terminal` | calls only move along `CALL_TRANSITIONS`, although `transition_call` compares ranks only |
| repositories (`repositories/`) | documents of agents, borrowers, calls, events; leases, versions, unique indexes | reserve, release, transition, bind, create, attach, reclaim, find expired / stale / orphaned | one agent or borrower is claimed by one task; late updates do not apply |
| carriers (`providers/`) | a line per call: status, script, position; id counters | `originate_call`, `hangup`, delivery of the event script, reordered or doubled | nothing: it may refuse, time out, reorder, repeat and forget |
| allocator (`services/call_allocator.py`, `reservation_service.py`) | locals of `allocate`, `reserve_pair`, `_dial` | claim the agent, claim the borrower, create, INITIATED, RESERVED, DIALING, bind, originate, attach; releases on failure | no call is put to the carrier twice; unchecked updates apply; a pair is given back |
| event processor (`services/event_processor.py`) | locals of `process_event`; event log | record, find the call, transition it, move or release the agent, settle the borrower | duplicated, late, reordered events harm nobody; every attempt counted is a call that ended |
| recovery (`workers/recovery_worker.py`) | position in five sweeps and the documents they read | agent leases, borrower leases, stale calls, orphaned agents, unresponsive agents | everything busy is found and freed, and nothing else is |
| agent sessions (`api/routes_agents.py`, `services/agent_availability.py`, `wrap_up_service.py`) | `state`, `last_heartbeat_at` | login, logout, pause, resume, heartbeat, end of wrap-up | an absent agent is not dialled for until the agent returns |
| pacing (`dialers/`, `pacing/`) | none: a snapshot | `build_snapshot`, `compute_request` | no campaign starves on rounding, margins or health |
| safety (`safety/`) | none: a reading | `evaluate`, eight limits | `max_concurrent_calls` holds; nothing is dialled into an outage |
| provider health (`services/provider_health.py`) | window of originations | record, trim, status, health factor, `retry_allowed` | an outage is noticed in time and forgotten in time |
| dialer worker (`workers/dialer_worker.py`) | tick in progress | tick, allocate, release wrap-ups | every borrower is reached or counted out |
| API, campaigns (`api/routes_campaigns.py`) | status and mode of a campaign | start, pause, change mode | may change at any time, also in a tick |
| simulation (`simulation/`, `simulation_run_repo.py`) | the record of each run; the await its task is at; its background tasks; the simulation database all runs share | start, shutdown, reconcile; seed, log in, timeline, `finally`, report, verdict | one run at a time; what a run started ends with it; every record gets one verdict |
| metrics, dashboard, load test, scripts | counters, screens | read only | – |

How they interact: a tick of the dialer worker counts agents and calls, asks
pacing for a number and safety for a smaller one, and calls the allocator that
many times.  The allocator claims an agent and then a borrower, creates a call
under the idempotency key `agent:borrower:attempt`, takes it through INITIATED
and RESERVED, and asks the carrier for it.  The carrier starts a delivery task
per call, which calls the event processor; that finds the call by the carrier's
id, moves it along, and with it the agent (to CONNECTED, to WRAP_UP, or back to
AVAILABLE) and the borrower (CONTACTED, back to PENDING with a backoff, or
EXHAUSTED).  The recovery worker looks at all three collections for leases that
ran out and calls nobody has touched.  Agents come and go through the API.  All
of them share only the database, the carrier's table of lines and the health
window.

A simulation builds a second set of these components inside the API process,
over a database of its own that it empties first, runs them for some seconds
while agents leave and conditions change, and takes them down again in a
`finally` clause.  Its dialer workers dial every RUNNING campaign they find
there, so that runs are kept apart by nothing but the order in which they start
and stop.

The hard parts, each with its line under `hazards` in `PROJECT.json`:

- *interleaving*: claims race; every worker of a process signs with the same
  worker id, so releases keyed by worker id may hit a later reservation;
- *stale reads*: processor and sweeps act on documents they read several awaits
  before; a tick acts on counts read query by query; `_dial` ignores three
  results;
- *atomicity*: a pair is two documents, a call a third; every crash, error or
  cancellation may fall between any two of them;
- *ordering*: events swapped, doubled, earlier than the write of the carrier's
  call id; the borrower sweep after the agent sweep;
- *time*: nothing renews a lease; four timeouts are ordered only by
  configuration;
- *partial failure*: the `finally` clause of a simulation is seven awaits;
  what comes after one that raises or is cancelled is left out;
- *liveness*: what is left reserved must become free, what is open must close,
  a campaign must come to an end, and a simulation must get its verdict.

## 2. From code to modules

```
AgentStateMachine   CallStateMachine          tables
        \               /
            DialerStore                       documents, repository operations, time
           /           \
   AgentSession    MockProvider               lines, event scripts, delivery tasks
          |       /     |      \
          | CallAllocator EventProcessor RecoveryWorker
           \      \     |      /
               SmartDialer                    the process; faults; fairness; properties
                |      |
   MCSmartDialer       |   PacingEngine   SafetyController   ProviderHealth
                \      |        |                |                |
                 \    DialerTick --------------------------------- dialing by ticks
                  \    |
                 MCDialerTick

CampaignContract                              what SmartDialer implements
SimulationRunner                              runs of a simulation, side by side
```

The proofs have modules of their own:

```
StoreProofs              documents and lines keep their types and links
     |
TaskProofs               so do the tasks that work on them
     |
SmartDialerProofs        IInv, CallsInv: what holds whatever fails
     |
BookingProofs            BookingInv: who may release whom, and until when
     |
CampaignProofs           nobody is booked twice; the contract is kept
     |
DialerTickProofs ------- SafetyControllerProofs
                         the limits, of a decision and of the program

SimulationRunnerProofs   RunnerInv
```

| module | state | models |
|---|---|---|
| `AgentStateMachine`, `CallStateMachine` | – | `agent_sm.py`, `call_sm.py`, `enums.py` |
| `DialerStore` | `agents`, `borrowers`, `calls` | `agent_repo.py`, `borrower_repo.py`, `call_repo.py`; each filter is an operator of its own (`TryReserveAgentMatches`, …) |
| `MockProvider` | `lines` (status, script, and the handler in the delivery task), `nextLine`; `asked`, a history of what it was asked for | `mock_base.py`, `mock_a.py`, `mock_b.py` |
| `CallAllocator` | `dial[w]`: program counter and locals of worker *w*; `epoch`, its worker id | `_dial`, `_originate`, `reserve_pair` and the releases on each of their exits |
| `EventProcessor` | `recorded`; the handler in a line | `process_event` |
| `RecoveryWorker` | `sweep`: stage, documents still to do, locals of the item in hand | `run_sweeps` and its five sweeps |
| `AgentSession` | – (documents) | `routes_agents.py`, heartbeats, silence |
| `SmartDialer` | all of the above | composition: `Dialer`, `Processor`, `Recovery`, `Session`, `WrapUpEnds`, `Backoff`, `Tick`, `Cancelled`, `DatabaseError`, `Crash` |
| `CampaignContract` | `engaged`, `ended`, `attempts`, `outcome` | no code: what a campaign promises of pairs, calls and attempts; `SmartDialer` instantiates it with a refinement mapping |
| `SimulationRunner` | records, the await each run is at, cancellations, background tasks, the simulation database | `runner.py`, `engine.py`, `agent_simulator.py`, `simulation_run_repo.py`, start-up and shutdown of `main.py` |
| `PacingEngine` | – | `compute_request`, `blended_answer_rate`, `is_volatile`, `engine_config` |
| `SafetyController` | – | `_build_constraints`, `_evaluate`, and of the record `_mark_binding`, `_verdict`, `should_fallback_to_progressive` |
| `ProviderHealth` | `samples` | the window, `_trim`, the status, the factor, `retry_allowed` |
| `DialerTick` | `tick[w]`, `campaign` | `run_once`, `DialerBase.tick`, `evaluate`, `allocate`, the two API routes; queries of a tick that fail; it replaces the dialing of `SmartDialer`, which leaves open when and how many calls are placed |

Conventions.

- An action's program counter names the operation that comes *next*:
  `dial[w].pc = "bind"` is a worker about to call `bind_call`.
- Identifiers are model values or numbers.  `epoch` is the process incarnation
  and stands for the worker id (`get_worker_id` draws a new one per process, and
  all tasks of a process share it).  A line number is the carrier's call id.
  A call is named by its idempotency key `[agent, borrower, attempt]`.
- A lease, and the time since a call was last touched, is a small countdown
  (`TTL`, `StaleAfter`), 0 when past; see section 4.  `None` is Mongo's `null`.
- `state_version` grows without bound but is only ever compared with copies of
  itself; the view `VersionView` keeps of each copy whether it is still current,
  which makes the graph finite.
- Events carry their type only.  `answered_at`, `provider_call_id` and
  `ended_at` are kept as whether they are set.
- Modelled as one step although the code makes two operations, because nothing
  else can change the outcome in between: insert-or-find of `create_call`,
  `record_event` with the look-up of the call, find-and-transition in
  `_cancel_bound_call`.  The heartbeat that `agent_action` writes after a login
  is a `Heartbeat` of its own.
- A tick reads one query a step, with two exceptions.  What `build_snapshot`
  asks after it has counted the agents (`metrics_snapshot.py:59-73`: the calls,
  the outcomes in two windows, who is CONNECTED for long) is one step with
  `compute_request`: of these only the calls are read off the state, the rest is
  left to choice, so nothing between them could show.  And the last query of a
  decision, for the outcomes, is one step with the decision that follows without
  an await.
- The LIMIT of a sweep's query is left out: a sweep sees all there is.  Several
  dialer workers in one process occur in the simulation
  (`simulation/engine.py`); the deployed process has one.
- In `DialerTick` a rate is a quotient of integers and a factor a percentage.
  The operators were compared with the Python functions, which use floats, over
  287,280 inputs without a difference.  Which calls fall into the two answer
  rate windows, and whether the failure rate, the drop in availability and the
  age of a snapshot exceed their thresholds, is left to choice: it depends on
  the clock.
- A definition whose comment begins with *Mutation* stands before the one it is
  a faulty version of.  It is in no specification; it is there to show that the
  property named in `PROJECT.json` notices the fault.

**The abstract specification.**  `CampaignContract` knows nothing of
documents, leases or events.  It has pairs that are put together and part, and
a ledger per borrower: how many calls are over, how many of them count as
attempts, and whether the borrower is still open, reached or counted out.  A
pair is put together only if both are free and the borrower is open; an attempt
is put down only for a call that is over, at most once, and with nobody engaged
with the borrower.  `SmartDialer` maps an active call to a pair that is put
together, terminal calls to `ended`, and the borrower's document to `attempts`
and `outcome`, and `CampaignContractIsKept` says that every step of the program
is a step of the contract or none.  It ties together what the invariants say one
by one, across all three collections: an attempt counted twice, a borrower
dialled after being reached, or somebody booked again before the call is over
would each be a step the contract does not have.

**Simulations.**  In `SimulationRunner` a run is a coroutine and `pc[r]` the
await it is at.  `Unwound` says where an exception takes it from there: out of
seeding straight to the verdict; out of the `try` block into the `finally`
clause; out of the `finally` clause to the verdict with the rest left out; out
of writing the verdict to nothing at all.  A cancellation is delivered at the
next await, except by the three `stop` methods that take it for that of the task
they stop.  What a run dials with is `SmartDialer`'s subject: here a campaign
has one agent and one borrower, and what matters of the background tasks is
which of them still run.

`MCSmartDialer` and `MCDialerTick` add symmetry (agents, borrowers and workers
are interchangeable) and the view.  The liveness runs use no symmetry.  Which
of several symmetric states stands for the others may depend on the versions the
view hides, so a state can be kept twice and a count vary a little between
executions; none is lost.

## 3. Runs

`TTL = 1` and `StaleAfter = 2`, the smallest values that keep the order the
code's configuration has, except in `set_up_times`, where they are 2 and 3: there
time passes in the middle of a set-up, for its lease and for the age of its call,
and the stale timeout is what keeps the sweep off it.  Instances are small because each of the
behaviours in question takes one agent, one borrower and two tasks, or two of
each to race.  Where a second agent or borrower would add nothing but
repetition there is one.

| run | instance | faults, carrier | states | shows |
|---|---|---|---|---|
| `fault_free` | 2 workers, 2 agents, 2 borrowers, 2 lines; login, logout, pause, resume | early events; swapped | 198,033 | Races alone put nobody in two calls; calls are at most as many as agents; an active call holds its pair; the results `_dial` ignores are successes; recovery touches no borrower in a call; the contract is kept |
| `any_fault` | 1 of each, 2 processes; silence | all but cancellation and lost deliveries | 1,814,932 | What holds whatever fails: types, everything busy can be found by a sweep, the attempt limit, a contacted borrower was reached, settled borrowers stay settled, calls follow the table |
| `sessions` | 2 workers, 1 agent, 1 borrower; login, leaving at any time | set-ups outlast leases; cancellation | 1,908,520 | No call is put to the carrier twice; no event, release or sweep brings back an absent agent; a busy one stays reclaimable |
| `set_up_times` | 2 workers, 2 agents, 1 borrower, 2 attempts, 2 lines; login, logout; lease of 2, timeout of 3 | early events; duplicated | about 209,000 | No call that is being set up is stale, however much of its lease the set-up takes; no attempt is counted twice or early; the contract is kept |
| `leases_run_out` | 1 of each, 2 attempts, 2 processes; leaving at any time | crash, long conversations, calls that go stale with events to come | 52,672 | Under fairness the agent and the borrower are freed and the call is closed; no attempt is counted without a call that ended |
| `ticks` | 1 worker, 2 agents, 2 borrowers, limit of one call | outages, changes of status and mode | 995,924 | `max_concurrent_calls` holds for a worker; what is approved has agents; an outage is contained |
| `ticks_end` | 1 of each, 2 attempts | outages, changes of mode, queries that fail | 58,252 | Under fairness a campaign left running reaches or counts out its borrower; the record of every decision is true of it |
| `simulations` | 2 runs, 2 requests at a time | crash, shutdown, database errors at any await, 2 in all | 530,044 | One run at a time unless two requests race; no dialer worker outlives its run; calls are of their own run; a COMPLETED run left nothing; verdicts are final; under fairness every record is decided |
| `crash_double_booking` | 1 agent, 2 borrowers, 2 processes | crash | – | *violated*, section 6 |
| `crash_stuck_borrower` | 1 of each, 2 processes | crash | – | *violated*, section 6 |
| `late_release` | 1 agent, 2 borrowers, 2 attempts | long conversations | – | *violated*, section 6 |
| `swapped_answer` | 1 of each, 2 attempts | swapped | – | *violated*, section 6 |

Bounds: `MaxAttempts` is the program's `MAX_CALL_ATTEMPTS`.  `MaxLines` is the
number of calls the carrier takes from one process; when they are used up it
refuses, which it may do anyway.  `MaxEpochs` is the number of processes, the first and the one
after a crash: what a second restart would meet, the first restart has met.
`Hostile` and `SessionActions` select carrier misbehaviour and agent actions,
`Faults` what goes wrong.  In `simulations` two runs and two requests are enough
to race or to follow one another; of two faults (`MaxFaults`) the second may
hit what the first set off: an error in the `finally` clause that an error in
the `try` block led to, a shutdown during the clean-up, a restart after a lost
verdict.  No run uses a state constraint.  The runs over
`SmartDialer` do not look for deadlock: a campaign may be over, with every agent
logged out; nor does `simulations`, where every run may be over.  `ticks` and
`ticks_end` do look for it, as a worker always ticks.

Where the invariants of double booking stop: `AgentInOneCall`,
`BorrowerInOneCall`, `CallsWithinAgents` and `ActiveCallHoldsItsPair` are
invariants over races and early events, and are not under a crash, a database
error, a set-up or a conversation longer than its lease, a cancelled worker, or
an agent who logs out in mid-call (section 6).  That is why they, and
`CampaignContractIsKept`, are checked in `fault_free` and not in `any_fault`.
With one agent and one borrower they seem to hold under long conversations: it
takes a second call for the late release of the first to do harm.
`AttemptsAreCalls` fails under `slowSetup`.  Under a crash, long conversations
and calls that go stale with events still to come, one worker keeps it
(`leases_run_out`), but nothing in the code says so for several: two late
releases, of an agent and of a borrower, that fall into the set-up of a third
call would have its attempt counted twice.  So it is proved with the invariants
of double booking, under their hypotheses.  Each of the things that these exclude does break
`AgentInOneCall` in an instance with two agents and two borrowers, so that the
hypothesis `WellBehaved` of section 5 cannot be weakened by dropping any one.

Run one with `tlc -workers 2 -config FaultFree.cfg MCSmartDialer`.

## 4. Time, scheduling and fairness

`Tick` lets time pass: leases and idle times count down.  A recovery pass
compares everything with the time at which it began, so ticks fall between
passes.  Three guards of `Tick` are assumptions on the environment and stand for
no code: a set-up is over before its lease is (`SetupInTime`; it takes
milliseconds, and the lease is 30 seconds), so is a conversation
(`CallsInTime`), and no call stays without an event so long that it becomes
stale (`CallsNotLost`).  Nothing in the program bounds the last two: a
conversation of `mock_a` takes 120 seconds on average against the lease of 30.
Each is an assumption only as long as the fault that lifts it (`slowSetup`,
`longCall`, `lostCall`) is not among `Faults`.  An event that comes before
`attach_provider_call_id` is possible only with `early`, as a carrier rings
first.

`Fairness` assumes what an asyncio loop gives: a task that can run does (weak
fairness of dialer, processor and recovery), and timers fire (wrap-up, backoff,
time).  Strong fairness is used twice.  For `Tick`, which waits for recovery
passes that come again and again.  And for a worker to claim an agent, and then
a borrower it can dial: candidates are tried in turn, and the alternative, that
the claim fails, is in the model at any time because another worker may be
quicker.

`TickFairness` is the same for a worker that ticks, plus what is up to the
clock in the model: calls do not for ever end inside the answer rate window, the
failure and availability thresholds are not exceeded for ever, and the health
window moves on.  A tick with a request and a tick with a decision must be fair
*as steps that yield more than 0*; assuming only that the quiet readings occur
again and again is not enough, since they may occur in the ticks whose request
is 0 for another reason.  TLC finds that behaviour.  `RunningCampaignEnds`
says nothing of a campaign that is paused again and again.  Queries that fail
(`QueryFails`) need strong fairness of each count as well: a tick that asks
for calls must get through to its decision some time.

In `SimulationRunner` it is the weak fairness of every run's own steps, as the
event loop gives it, and of the end of the process and its start; that the
timeline ends is the clock of `_run_timeline`.  Nothing is assumed of workers,
carriers, agents, errors or requests.  A process that is down being started
again is assumed, because `EveryRunIsDecided` is what `reconcile` is for.

## 5. Proofs

Proved by TLAPS for every number of agents, borrowers, workers, lines, attempts,
processes, runs and requests, and every `TTL < StaleAfter`.

Whatever goes wrong (any `Faults`, any `Hostile`, any `SessionActions`):

| theorem | module | says |
|---|---|---|
| `TypeCorrect` | `SmartDialerProofs` | `Spec => []TypeOK` |
| `BusyAgentsReclaimable` | `SmartDialerProofs` | an agent reserved or in a call has a worker id and a lease on it |
| `ReservedBorrowersReclaimable` | `SmartDialerProofs` | a borrower is RESERVED exactly while a worker id and a lease are on it |
| `AttemptsLimited` | `SmartDialerProofs` | `MAX_CALL_ATTEMPTS` is never exceeded, and one counted out has used them all |
| `OneDial` | `SmartDialerProofs` | no call is put to the carrier twice |
| `ContactedWereReached` | `SmartDialerProofs` | a CONTACTED borrower has an answered call that completed |
| `CallsStayOnTheTable` | `SmartDialerProofs` | calls move along `CALL_TRANSITIONS` only |
| `SettledBorrowersStaySettled` | `SmartDialerProofs` | one reached or counted out stays so |
| `AbsentAgentsStayAbsent` | `SmartDialerProofs` | only the API brings an absent agent back |
| `TicksImplementDialing` | `DialerTickProofs` | `TickSpec => Spec`: dialing by ticks implements dialing at any time |
| `TickingAgentsReclaimable`, `TickingAttemptsLimited` | `DialerTickProofs` | hence the same of the program that ticks, for all settings of pacing and safety |
| `DecisionKeepsLimits` | `SafetyControllerProofs` | an approval keeps to request, agents and `max_concurrent_calls`, and is 0 for an UNHEALTHY carrier or over expired leases |
| `RecordsAreTrue` | `SafetyControllerProofs` | the record of a decision is true of it: a request is cut exactly if a constraint is named; nothing is REJECTED without one; FALLBACK_PROGRESSIVE is said only of calls that may be placed, at most one to an AVAILABLE agent; the fallback limits are never named |
| `FallbackNeverLimits` | `SafetyControllerProofs` | four of the eight limits never change the number approved |
| `RunnerTypeCorrect` | `SimulationRunnerProofs` | `Spec => []RunnerTypeOK` |
| `OneRunWithoutARace` | `SimulationRunnerProofs` | two simulations are under way only if two requests raced |
| `WorkersNeverOutliveARun` | `SimulationRunnerProofs` | no dialer worker goes on after its run |
| `RunsDialTheirOwn` | `SimulationRunnerProofs` | without a race a run dials its own campaign only |
| `CompletedRunsLeaveNothing` | `SimulationRunnerProofs` | COMPLETED means taken down |
| `VerdictsAreFinal` | `SimulationRunnerProofs` | a decided record is never written again |

When the program is `WellBehaved`, that is with `Faults` among `early` and
`lostCall` and agents who leave between calls only; where calls or agents are
counted, `Agents` is finite:

| theorem of `CampaignProofs` | says |
|---|---|
| `AgentsInOneCall`, `BorrowersInOneCall` | nobody is in two calls at a time |
| `CallsStayWithinAgents` | calls are at most as many as agents who are there |
| `ActiveCallsHoldTheirPair` | an active call has its agent and borrower reserved |
| `UncheckedUpdatesAlwaysApply` | the results `_dial` does not look at are successes |
| `CallsBeingSetUpAreNotStale` | the stale sweep never takes a call that a worker is setting up |
| `ReclaimedBorrowersHaveNoCall` | the borrower sweep never frees a borrower in a call |
| `EveryAttemptIsACall` | attempts counted are calls that ended |
| `CampaignKeepsItsContract` | `Spec => Contract!Spec`: the initial states map to initial states, every step to a step of the contract or a stutter |

`TickingCampaignKeepsItsContract` carries the last one over to the program that
ticks.  And of a campaign with finitely many agents and borrowers, for every
setting of pacing, safety and health (`DialerTickProofs`):

| theorem | also assumes | says |
|---|---|---|
| `TicksTypeCorrect` | | `TickSpec => []TickTypeOK` |
| `TickDecisionsExplained` | | the record of every decision tells what cut the request |
| `ConcurrencyLimited` | one worker | calls in progress never exceed `max_concurrent_calls` |
| `OutagesContained` | one worker | a failing carrier is asked for a bounded number of calls |
| `ApprovedCallsFindAgents` | one worker; nobody logs out, pauses or falls silent | there is an AVAILABLE agent for each call still to be placed |

The assumption of one worker is the deployed process, and it is needed: two
workers that count and then dial exceed the limit together (section 6).  That
nobody walks away is needed too: an agent may log out after being counted.

**What holds whatever fails.**  The first four follow from one inductive
invariant, in which each component states its part:

```
IInv == StoreOK /\ ProviderOK /\ AllocatorOK /\ EventProcessorTypeOK /\ RecoveryOK
```

- `StoreOK` (`StoreProofs`) is what is claimed of the documents: types;
  a busy agent has a worker id and a lease; RESERVED exactly with a worker id
  and a lease; attempts against the limit.  A lemma per repository operation
  shows that it keeps `StoreOK` *whatever the caller believes*: this is where
  the filters earn their keep.
- `ProviderOK`, `AllocatorOK`, `RecoveryOK` are the strengthening.  A task acts
  on what it holds in its locals, so the operations' lemmas apply only if those
  locals make sense: the handler of a delivery task has a call and a target
  state in hand, a worker past its first claim has an agent and past its second
  a borrower and the number of an attempt, a sweep has only items of its own
  kind to do and, when it is about to free a borrower, a call.  None of this
  follows from types alone, in which each of these may be `None`, and without it
  `ReleaseBorrower` could be called for nobody.
- `SmartDialerProofs` puts them together: one step per action of `Next`, each by
  the lemma of its component (`TaskProofs`) and the fact that the others'
  variables do not change; then `PTL`.

Because each component's lemmas are about its own steps, the invariant for
`Faults = {}` and for all faults is the same: an aborted task leaves documents
that satisfy `StoreOK`.

The next five need to know what has become of a call by the time somebody acts
on it.  `CallsInv` adds to `IInv` that whatever a worker is about to dial, the
carrier was asked for, a line is of or an event is about has been INITIATED
(`DialersOK`, `AttachedOK`, `EventsOK`), that at most one worker is about to dial
a call, that a handler past `applyCall` for a terminal event is about a call in
that state, and that a sweep's items are as its query found them.  This is how
calls stay on the table although `transition_call` compares ranks only: a rank
may be skipped, but a carrier's event reaches no call that was not INITIATED,
and from there every higher rank is a legal target.

**Nobody is booked twice.**  With no lock anywhere, what keeps two tasks from
releasing the same agent is that at each moment at most one of them has the
right to.  `BookingInv` writes that right down as a *claim*: a worker has it
from its reservation until the call is active, the active call has it then, the
handler of the event that ended it afterwards, or the sweep that cancelled it,
or the worker again if the call failed.  `AgentsBooked` and `BorrowersBooked`
say that claims on one agent or borrower are `Exclusive` and that whoever is
claimed is still booked on the document.  Each step hands a claim on, gives one
up, or makes one for somebody unbooked; the filter on `AVAILABLE` or `PENDING`
is what makes the last one safe, and what makes the release, keyed by worker id
alone, hit the right reservation.  The rest is what this rests on:

- `SetUpsOK`, `CallsBooked`: the state each worker's call and agent are in at
  each point of `_dial`, which is why its unchecked updates apply;
- `LeasesOK`: no lease is past while a worker or a conversation has the pair,
  and leases and timeouts run out in order, the agent's before the borrower's
  and before the call is stale;
- `LinesOK`: a carrier id belongs to one call, so events find that call only;
- `SweepBooked`: the sweeps run in an order in which an expired agent is
  reclaimed, and the call on its document cancelled, before its borrower or its
  call can be found.  Then the orphan sweep never finds anything;
- `AttemptsCounted`: for each attempt counted a call of that number has ended.

This is also where the hypotheses come from: each fault that `WellBehaved`
leaves out breaks one of these parts (a crash leaves a call without its worker
and not yet on the document; a lease past in a conversation lets the sweep and
the handler both release).  The invariants the runs check are consequences.
The contract needs one more thing, that a step changes the calls, the
attempts and the outcome of one pair at a time (`CampaignProofs`).

**Ticks.**  `DecisionKeepsLimits` is about the numbers a decision read.  That a
limit holds of the calls themselves needs an invariant over the time between
reading and dialing: from their count to the decision there are no more calls in
progress than were counted (`CallsKnown`); from then on calls in progress, plus
the one being set up, plus those approved and still to come are at most the
limit (`LimitKept`); failures since
the last call that was accepted, plus those that may still fail, are below the
threshold plus one approval (`OutageKept`); what was counted or approved is
still AVAILABLE (`AgentsThere`).  Each is inductive because with one worker all
that happens between its count and its dials can only lower the count of calls
and raise that of agents.

The attempt to prove `TickTypeOK` showed that `HealthStatus` had been written as
a `CASE` whose arms overlap, which in TLA+ leaves open which one is taken, while
TLC takes the first.  It is now the chain of early returns that
`_derive_status` is.

**Simulations.**  `RunnerInv`: a run goes on only while its record says RUNNING
and the process is up; unless requests raced there is one such run, and nobody
asks for another while it is there; after `clearCampaigns` no other campaign is
RUNNING until the workers are stopped; a run that will be reported as passed has
at each await of its clean-up only those tasks running that are stopped later.

**Assumptions on constants**: `StoreAssumption`, `NoneAssumption` (`None` is no
call, as `null` is no document), `RecoveryTimeoutAssumption`
(`StaleAfter > TTL`; `config.py` validates the stronger
`CALL_STALE_TIMEOUT_SECONDS > PROVIDER_TIMEOUT_SECONDS + RESERVATION_TTL_SECONDS`), `ProviderAssumption`,
`SessionAssumption`, `SystemAssumption`, `PacingAssumption`, `SafetyAssumption`,
`HealthAssumption`, and `RunnerAssumption` of the simulations.  TLC evaluates
all but the last in `ticks`, and that in `simulations`.

**Only model-checked**: every liveness property (`BusyAgentIsFreed`,
`ReservedBorrowerIsFreed`, `OpenCallEnds`, `RunningCampaignEnds`,
`EveryRunIsDecided`), which is out of the prover's reach.  Every other property
of a passing run is stated by a theorem, `AttemptsAreCalls` for the
`WellBehaved` program only, and not for the faults of `leases_run_out`.  That the arithmetic of `PacingEngine`
and `SafetyController` is that of the Python functions is tested, not proved
(section 2).

Check them with `tlapm StoreProofs.tla` and likewise for the other seven;
`BookingProofs`, `CampaignProofs` and `DialerTickProofs` take some ten minutes
each, the others a few.

## 6. Where the code departs from its documentation

Each has a run that TLC must find violated; the quotations are in
`PROJECT.json`.

1. **A crash books an agent twice** (`crash_double_booking`).  A call becomes
   INITIATED before `bind_call` writes it into the agent.  If the process dies
   in between, the lease sweep finds no call to cancel, frees the agent, and the
   agent is reserved for another borrower while the first call is still active,
   until the stale sweep.
2. **A crash strands a borrower** (`crash_stuck_borrower`).  A crash after
   `create_call` spends the idempotency key of an attempt that is never counted.
   The same pair builds the same key, finds the old call not QUEUED and gives
   up, for ever.  Another agent would make another key; with one agent the
   borrower is never dialled.
3. **A late release books an agent twice** (`late_release`).  A terminal event
   moves the call, then reads the agent, then releases the agent by worker id
   and state.  When the lease of the agent runs out at that moment, the lease
   sweep frees the agent in between and the same process reserves the agent for
   another call; the release then hits that call's reservation, and the agent is
   dialled for a third time while the second call is active.  No crash is
   needed, only a conversation that ends about when its lease does.
4. **A swapped ANSWERED loses the contact** (`swapped_answer`).  CONNECTED before
   ANSWERED makes ANSWERED stale, `answered_at` is never set, and the completed
   conversation is treated as unanswered and dialled again.

Seen in the model while it was written, and not kept as runs:

- Leases are never renewed, and CONNECTED agents are swept: a conversation longer
  than `RESERVATION_TTL_SECONDS` (30 by default; a conversation of `mock_a`
  takes 120 on average) is cancelled by recovery in a system where all is well.
  The documentation claims nothing else: it says that the lease of a dead process
  expires, not that a living one's does not.
- An agent who logs out in mid-call and in again is AVAILABLE while the old call
  goes on, and may be given a second one.
- A dial that is cancelled gives its pair back and leaves the call open, so its
  borrower may be dialled a second time meanwhile.
- A set-up slower than its lease is cancelled by the sweep in the middle, and
  its late releases, keyed by worker id only, may hit the reservation another
  worker of the process has made since; an attempt may be counted against it.
- Two workers may exceed `max_concurrent_calls`, which each checks by counting;
  `src/README.md` says the atomic reservation layer enforces the actual limit,
  but that layer knows agents and borrowers only.
- Four of the eight safety limits can never be the binding one
  (`FallbackNeverLimits`), as `agent_capacity` is at most the number of
  AVAILABLE agents; `src/README.md` says each has a test where it binds.
- With one AVAILABLE agent predictive mode asks for 0 calls when the answer rate
  is above a half: one call is needed, and one times the margin of 0.85 is
  floored to 0.  (The blended rate always has a part of the baseline in it, and
  calls that leave the window take it back there, so `ticks_end` with a baseline
  of 30% is not starved; with a baseline above a half it would be.)
- Carrier call ids and event ids start anew with the process while their unique
  indexes persist.
- An event that overtakes `attach_provider_call_id` is recorded as invalid and
  lost; the call is then closed by a later event or by recovery.
- The stale sweep fails a call that the carrier still reports active.
- Two requests to start a simulation may both be told that none is running, and
  both runs then empty, seed and dial the same database: `find_running` and
  `create` are two operations.  The later one is the one `shutdown` knows; the
  other is left to run, and its record to `reconcile`.
- An error or a cancellation in the `finally` clause of a simulation, after its
  dialer workers are stopped, leaves its recovery worker, heartbeat loop or
  carriers running beside the next run.  The workers are stopped first, which is
  why `WorkersStopWithTheirRun` holds all the same.
- When the write of a verdict fails, or shutdown cancels a run before its first
  step, the record stays RUNNING and every start is refused until the next
  restart (`EveryRunIsDecided` makes this exception).
- A drop in availability and a high failure rate are recorded as the reason for
  FALLBACK_PROGRESSIVE, but with `stale_state` or `excessive_ringing` as the
  reason nothing is approved, and the verdict is REJECTED: `src/README.md`'s
  table of limits has no such distinction.
- `try_reserve_agent` and `release_expired_agent_lease` set `state_changed_at`
  without accounting for the time in the state left, so the time an agent was
  AVAILABLE before a reservation is never counted and utilization comes out too
  high; `src/README.md` says it counts completed time too.  (Read in the code;
  time is not accounted in the model.)
- Expired leases are counted over all campaigns, so one campaign's may stop
  another's dialing.  Of a campaign's `pacing_config` only
  `baseline_answer_rate` is used.

## 7. Not modelled

- Of simulations, scenarios and reports; the bursts of the fault injector, which
  are the duplicates, the reordering and the outages of `MockProvider`; calls of
  two runs that collide in their carriers' ids; and more than one agent or
  borrower to a campaign there.
- Metrics, dashboard, load test, scripts, and of the API what is only request
  handling: they change no state others depend on.
- Time accounting of agents and averages: they are written and not read back.
- The availability tracker's memory: whether AVAILABLE dropped is left to
  choice.  By `FallbackNeverLimits` it changes no number; with it as a variable
  `ticks` has more than twice the states and shows nothing else.
- Late answers to `originate_call`: the mock carriers raise before they create
  a line whenever they would answer after the timeout, so there is none.
- Errors of the database in `reconcile` and `stop_orphaned_campaigns`: they run
  before the API serves, so that an error there ends the start-up, and the
  process is started again.
- In `DialerTick`, crash, cancellation and the database errors of a dial; they
  are in `SmartDialer`, which by `TicksImplementDialing` allows more dialing.
- Real carriers, MongoDB's own failures (each operation is atomic and either
  applies or raises), more than one process at a time.

## 8. Plan

Done, in this order: tables; documents; carrier, allocator, processor,
recovery, sessions; their composition with faults; the inductive invariant;
pacing, safety and health; ticks and their refinement; the contract of a
campaign; simulations; the record of a decision; queries of a tick that fail;
proofs of what holds whatever fails, of booking and of the contract, of
simulations and of ticks.

Next:

1. Lemmas for `PacingEngine`: that the request does not fall when agents or the
   health factor rise, and where it is 0.
2. Two workers that tick, and the bound that does hold for them: each has been
   approved at most `MaxConcurrentCalls`.
3. What of the contract survives a crash, as an abstract specification of its
   own.
