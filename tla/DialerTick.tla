----------------------------- MODULE DialerTick -----------------------------
(***************************************************************************)
(* The dialer ticks of one campaign (app/dialers/base.py) in the running   *)
(* program: the snapshot, the request of the pacing engine, the decision   *)
(* of the safety controller and the loop of CallAllocator.allocate.        *)
(* SmartDialer leaves open how many calls a worker places; here a worker   *)
(* places those a decision approved.  Of what goes wrong, the failing      *)
(* queries of a tick are here, and the rest is left to SmartDialer.        *)
(***************************************************************************)
EXTENDS SmartDialer, PacingEngine, SafetyController, ProviderHealth

CONSTANT
  MaxConsecutiveContentions     \* MAX_CONSECUTIVE_CONTENTIONS

VARIABLES
  campaign,     \* its document: is it RUNNING, and the dialing mode
  tick          \* [Workers -> where the worker is in tick, and its locals]

gateVars == <<campaign, tick, samples>>
tickVars == <<vars, gateVars>>

TickPcs == {"asleep", "snapshotAgents", "snapshotCalls",
            "readAgents", "readCalls", "readLeases", "readOutcomes",
            "allocate", "wrapUps"}

(* What the queries so far have counted: agents by state, calls in         *)
(* progress and those of them that ring, and leases that ran out.          *)
TickCounts == [available : Nat, reserved : Nat, connected : Nat, wrapUp : Nat,
               active : Nat, ringing : Nat, expired : Nat]

NotRead == [available |-> 0, reserved |-> 0, connected |-> 0, wrapUp |-> 0,
            active |-> 0, ringing |-> 0, expired |-> 0]

Ticks == [pc : TickPcs, mode : DialingModes, counts : TickCounts,
          requested : Nat, left : Nat, contended : Nat]

Between == [pc |-> "asleep", mode |-> "PROGRESSIVE", counts |-> NotRead,
            requested |-> 0, left |-> 0, contended |-> 0]

TickTypeOK ==
  /\ campaign \in [running : BOOLEAN, mode : DialingModes]
  /\ tick \in [Workers -> Ticks]
  /\ HealthTypeOK

TickInit ==
  /\ Init
  /\ HealthInit
  /\ campaign \in [running : {TRUE}, mode : DialingModes]
  /\ tick = [w \in Workers |-> Between]

-----------------------------------------------------------------------------
(* What the queries return.                                                *)

AgentsIn(state) == Cardinality({a \in Agents : agents[a].state = state})
CallsIn(state)  == {k \in CallKeys : calls[k].state = state}

(* Mutation: agents in WRAP_UP are taken for available.                    *)
CountAgentsOnDuty ==
  [NotRead EXCEPT !.available = AgentsIn("AVAILABLE") + AgentsIn("WRAP_UP"),
                  !.reserved  = AgentsIn("RESERVED"),
                  !.connected = AgentsIn("CONNECTED"),
                  !.wrapUp    = AgentsIn("WRAP_UP")]

(* count_by_state of the agents; what a caller does not use is left out.   *)
CountAgents ==
  [NotRead EXCEPT !.available = AgentsIn("AVAILABLE"),
                  !.reserved  = AgentsIn("RESERVED"),
                  !.connected = AgentsIn("CONNECTED"),
                  !.wrapUp    = AgentsIn("WRAP_UP")]

(* outcome_counts_between                                                  *)
Window(ended) ==
  [answered |-> Cardinality({k \in ended : calls[k].answered}),
   total    |-> Cardinality(ended)]

Ended == {k \in CallKeys : IsTerminal(calls[k].state)}

-----------------------------------------------------------------------------
(* DialerBase.tick.  Each count is a query of its own, and everything else *)
(* goes on in between.                                                     *)

TickAt(w, pc) == tick[w].pc = pc

(* find_running: the tick goes by the campaign document it read.           *)
BeginTick(w) ==
  /\ TickAt(w, "asleep")
  /\ campaign.running
  /\ tick' = [tick EXCEPT ![w].pc = "snapshotAgents",
                          ![w].mode = campaign.mode]
  /\ UNCHANGED <<vars, campaign, samples>>

CountForSnapshot(w) ==
  /\ TickAt(w, "snapshotAgents")
  /\ tick' = [tick EXCEPT ![w].pc = "snapshotCalls",
                          ![w].counts = CountAgents]
  /\ UNCHANGED <<vars, campaign, samples>>

(* The rest of build_snapshot, whose other queries are one step here, and  *)
(* compute_request.  Which calls ended in the last                         *)
(* ANSWER_RATE_WINDOW_SECONDS, which in those before, and how many agents  *)
(* are CONNECTED for long is up to the clock.                              *)
Snapshots(w, recent, previous) ==
  {[available    |-> tick[w].counts.available,
    soonFree     |-> tick[w].counts.wrapUp + long,
    inFlight     |-> Cardinality(CallsIn("RINGING") \cup CallsIn("INITIATED"))
                       + tick[w].counts.reserved,
    recent       |-> Window(recent),
    previous     |-> Window(previous),
    healthFactor |-> HealthFactor] : long \in 0..tick[w].counts.connected}

AskFor(w, recent, previous) ==
  /\ TickAt(w, "snapshotCalls")
  /\ \E requested \in {ComputeRequest(tick[w].mode, snapshot) :
                          snapshot \in Snapshots(w, recent, previous)} :
       tick' = [tick EXCEPT ![w].pc = "readAgents", ![w].counts = NotRead,
                            ![w].requested = requested]
  /\ UNCHANGED <<vars, campaign, samples>>

BuildSnapshot(w) ==
  \E recent \in SUBSET Ended :
    \E previous \in SUBSET (Ended \ recent) : AskFor(w, recent, previous)

(* SafetyController._read_capacity, query by query: the agents, the calls, *)
(* the leases, ...                                                         *)
CountForDecision(w) ==
  /\ TickAt(w, "readAgents")
  /\ tick' = [tick EXCEPT ![w].pc = "readCalls",
                ![w].counts = [CountAgents EXCEPT !.connected = 0,
                                                  !.wrapUp = 0]]
  /\ UNCHANGED <<vars, campaign, samples>>

CountCallsForDecision(w) ==
  /\ TickAt(w, "readCalls")
  /\ tick' = [tick EXCEPT ![w].pc = "readLeases",
                ![w].counts = [@ EXCEPT !.active = Cardinality(FindActive),
                                        !.ringing = Cardinality(CallsIn("RINGING"))]]
  /\ UNCHANGED <<vars, campaign, samples>>

CountLeases(w) ==
  /\ TickAt(w, "readLeases")
  /\ tick' = [tick EXCEPT ![w].pc = "readOutcomes",
                ![w].counts = [@ EXCEPT !.expired = Cardinality(ExpiredAgentLeases)]]
  /\ UNCHANGED <<vars, campaign, samples>>

(* ... the outcomes of late, with which it decides.  Whether too many      *)
(* calls failed or agents left, and whether the snapshot is too old by     *)
(* now, is up to the clock.                                                *)
Reading(w, failing, dropped, tooOld) ==
  [available |-> tick[w].counts.available,
   reserved  |-> tick[w].counts.reserved,
   active    |-> tick[w].counts.active,
   ringing   |-> tick[w].counts.ringing,
   expired   |-> tick[w].counts.expired,
   failing   |-> failing, dropped |-> dropped, tooOld |-> tooOld,
   health    |-> HealthStatus]

DecideOn(w, readings) ==
  /\ TickAt(w, "readOutcomes")
  /\ \E approved \in {Approved(tick[w].requested, tick[w].mode, reading) :
                         reading \in readings} :
       tick' = [tick EXCEPT ![w].pc = "allocate", ![w].counts = NotRead,
                            ![w].requested = 0, ![w].left = approved]
  /\ UNCHANGED <<vars, campaign, samples>>

Decide(w) ==
  DecideOn(w, {Reading(w, failing, dropped, tooOld) :
                 failing, dropped, tooOld \in BOOLEAN})

(* A query of the tick, or the write of one of its records, raises: the    *)
(* tick is over, and with it the look for wrap-ups; but a query of the     *)
(* safety controller makes it approve nothing.                             *)
QueryFails(w) ==
  /\ "dbError" \in Faults
  /\ \/ /\ tick[w].pc \notin {"asleep", "allocate", "wrapUps"}
        /\ tick' = [tick EXCEPT ![w] = Between]
     \/ /\ tick[w].pc \in {"readAgents", "readCalls", "readLeases",
                            "readOutcomes"}
        /\ tick' = [tick EXCEPT ![w].pc = "allocate", ![w].counts = NotRead,
                                ![w].requested = 0]
  /\ UNCHANGED <<vars, campaign, samples>>

-----------------------------------------------------------------------------
(* CallAllocator.allocate                                                  *)

(* Candidates can be lost only to somebody else.                           *)
Contested == Cardinality(Workers) > 1 \/ SessionActions # {}

Attempt(w) ==
  /\ TickAt(w, "allocate") /\ dial[w].pc = "idle"
  /\ tick[w].left > 0
  /\ \/ /\ Dialer(w)
        /\ tick' = [tick EXCEPT ![w].left = @ - 1]
     \/ /\ Contested \/ \A a \in Agents : ~TryReserveAgentMatches(a)
        /\ tick' = [tick EXCEPT ![w].left = @ - 1, ![w].contended = @ + 1]
        /\ UNCHANGED vars
  /\ UNCHANGED <<campaign, samples>>

(* reserve_pair finds a borrower, whom _dial sends back if the retry gate  *)
(* is closed, or it counts as contention.                                  *)
Pair(w) ==
  /\ dial[w].pc = "claimBorrower"
  /\ Dialer(w)
  /\ \/ /\ dial'[w].pc = "create"
        /\ dial'[w].attempt = 1 \/ RetryAllowed
        /\ tick' = [tick EXCEPT ![w].contended = 0]
     \/ /\ dial'[w].pc = "freeAgent"
        /\ ~RetryAllowed
        /\ tick' = [tick EXCEPT ![w].contended = 0]
     \/ /\ dial'[w].pc = "idle"
        /\ Contested \/ \A b \in Borrowers : ~TryReserveBorrowerMatches(b)
        /\ tick' = [tick EXCEPT ![w].contended = @ + 1]
  /\ UNCHANGED <<campaign, samples>>

(* _originate tells the health manager what became of the request.         *)
Place(w) ==
  /\ dial[w].pc = "originate"
  /\ Dialer(w)
  /\ IF dial'[w].pc = "attach"
     THEN RecordOriginate("accepted")
     ELSE RecordOriginate("refused") \/ RecordOriginate("timedOut")
  /\ UNCHANGED <<campaign, tick>>

SetUp(w) ==
  /\ dial[w].pc \notin {"idle", "claimBorrower", "originate"}
  /\ Dialer(w)
  /\ UNCHANGED gateVars

(* The loop is over, or broken off after too many contentions.             *)
EndAllocation(w) ==
  /\ TickAt(w, "allocate") /\ dial[w].pc = "idle"
  /\ tick[w].left = 0 \/ tick[w].contended >= MaxConsecutiveContentions
  /\ tick' = [tick EXCEPT ![w].pc = "wrapUps", ![w].left = 0,
                          ![w].contended = 0]
  /\ UNCHANGED <<vars, campaign, samples>>

(* DialerWorker._release_finished_wrap_ups: which are finished is up to    *)
(* the clock.                                                              *)
ReleaseWrapUp(w, a) ==
  /\ TickAt(w, "wrapUps")
  /\ WrapUpEnds(a)
  /\ UNCHANGED gateVars

EndTick(w) ==
  /\ TickAt(w, "wrapUps")
  /\ tick' = [tick EXCEPT ![w] = Between]
  /\ UNCHANGED <<vars, campaign, samples>>

Work(w) ==
  \/ BeginTick(w) \/ CountForSnapshot(w) \/ BuildSnapshot(w)
  \/ CountForDecision(w) \/ CountCallsForDecision(w) \/ CountLeases(w)
  \/ Decide(w)
  \/ Attempt(w) \/ Pair(w) \/ Place(w) \/ SetUp(w) \/ EndAllocation(w)
  \/ EndTick(w)

-----------------------------------------------------------------------------
(* The API changes the status and the mode of the campaign                 *)
(* (app/api/routes_campaigns.py).                                          *)
ChangeStatus ==
  /\ campaign' = [campaign EXCEPT !.running = ~@]
  /\ UNCHANGED <<vars, tick, samples>>

(* To the mode that it has is no change.                                   *)
SetMode ==
  /\ \E mode \in DialingModes \ {campaign.mode} :
       campaign' = [campaign EXCEPT !.mode = mode]
  /\ UNCHANGED <<vars, tick, samples>>

HealthWindowMoves ==
  /\ SampleExpires
  /\ UNCHANGED <<vars, campaign, tick>>

(* The rest of the program, as it is in SmartDialer.                       *)
Others ==
  /\ \/ \E l \in 1..MaxLines : Processor(l)
     \/ Recovery
     \/ \E a \in Agents : Session(a)
     \/ \E b \in Borrowers : Backoff(b)
     \/ Tick
  /\ UNCHANGED gateVars

TickNext ==
  \/ \E w \in Workers : \/ Work(w) \/ QueryFails(w)
                         \/ \E a \in Agents : ReleaseWrapUp(w, a)
  \/ ChangeStatus \/ SetMode \/ HealthWindowMoves
  \/ Others

TickSpec == TickInit /\ [][TickNext]_tickVars

(* What Fairness says, with dialing done in ticks.  Of what a tick goes by *)
(* but is up to the clock, it says that calls do not for ever end within   *)
(* the answer rate window, nor calls fail and agents leave as fast as the  *)
(* thresholds say, nor wrap-ups outlast WRAP_UP_SECONDS; and queries do    *)
(* not fail for ever.                                                      *)
TickFairness ==
  /\ \A w \in Workers :
       /\ WF_tickVars(Work(w))
       /\ SF_tickVars(BeginTick(w))
       /\ SF_tickVars(CountForSnapshot(w))
       /\ SF_tickVars(AskFor(w, {}, {}) /\ tick'[w].requested > 0)
       /\ SF_tickVars(CountForDecision(w) /\ tick[w].requested > 0)
       /\ SF_tickVars(CountCallsForDecision(w) /\ tick[w].requested > 0)
       /\ SF_tickVars(CountLeases(w) /\ tick[w].requested > 0)
       /\ SF_tickVars(DecideOn(w, {Reading(w, FALSE, FALSE, FALSE)})
                        /\ tick'[w].left > 0)
       /\ SF_tickVars(Pair(w) /\ dial'[w].pc = "create")
       /\ \A a \in Agents : SF_tickVars(ReleaseWrapUp(w, a))
  /\ WF_tickVars(HealthWindowMoves)
  /\ \A l \in 1..MaxLines : WF_tickVars(Processor(l) /\ UNCHANGED gateVars)
  /\ WF_tickVars(Recovery /\ UNCHANGED gateVars)
  /\ \A b \in Borrowers : WF_tickVars(Backoff(b) /\ UNCHANGED gateVars)
  /\ SF_tickVars(Tick /\ UNCHANGED gateVars)

FairTickSpec == TickSpec /\ TickFairness

-----------------------------------------------------------------------------
(* Properties                                                              *)

(* max_concurrent_calls: one worker never has more calls in progress,      *)
(* whatever ends or is reclaimed between the count and the last of the     *)
(* calls approved by it.  (Two workers may: each counts on its own.)       *)
ConcurrencyLimitHolds == Cardinality(FindActive) <= MaxConcurrentCalls

(* Nor does it ever look for an agent in vain: what it counted is still    *)
(* there for every call that it was approved.                              *)
ApprovedCallsHaveAgents ==
  \A w \in Workers :
    (TickAt(w, "allocate") /\ dial[w].pc = "idle")
      => tick[w].left <= AgentsIn("AVAILABLE")

(* Every decision is recorded with its verdict and the name of the binding *)
(* constraint: whatever a tick reads, and however it changed between its   *)
(* queries, the record tells what cut the request.                         *)
DecisionsAreExplained ==
  \A w \in Workers : TickAt(w, "readOutcomes") =>
    \A failing, dropped, tooOld \in BOOLEAN :
      RecordIsTrue(tick[w].requested, tick[w].mode,
                   Reading(w, failing, dropped, tooOld))

(* UNHEALTHY_CONSECUTIVE_FAILURES: an outage of the carrier meets no more  *)
(* calls than it takes to notice it and those approved by then.            *)
OutageIsContained ==
  TrailingFailures < UnhealthyConsecutiveFailures + MaxConcurrentCalls

(* A campaign that is left running reaches or counts out every borrower:   *)
(* neither the pacing nor the limits nor an outage that passes starve it.  *)
RunningCampaignEnds ==
  <>[](campaign.running) =>
    \A b \in Borrowers : <>(borrowers[b].status \in {"CONTACTED", "EXHAUSTED"})

=============================================================================
