---------------------------- MODULE SmartDialer ----------------------------
(***************************************************************************)
(* The running program: dialer workers, the delivery tasks of the provider *)
(* with the event processor in them, the recovery worker and the agents,   *)
(* over one MongoDB.  Faults says which of the things that go wrong are    *)
(* explored:                                                               *)
(*   "crash"     the process stops anywhere and a new one starts           *)
(*   "dbError"   a database operation raises                               *)
(*   "cancel"    a dialer worker is cancelled while it sets up a call      *)
(*   "longCall"  a conversation outlasts RESERVATION_TTL_SECONDS           *)
(*   "slowSetup" setting up a call outlasts it                             *)
(*   "lostCall"  a delivery task outlives CALL_STALE_TIMEOUT_SECONDS       *)
(*   "early"     an event overtakes the write of the provider call id      *)
(***************************************************************************)
EXTENDS CallAllocator, EventProcessor, RecoveryWorker, AgentSession

CONSTANTS
  Faults,       \* bound: the faults explored
  MaxEpochs     \* bound: process incarnations

ASSUME SystemAssumption ==
  /\ Faults \subseteq {"crash", "dbError", "cancel", "longCall", "slowSetup",
                       "lostCall", "early"}
  /\ MaxEpochs \in Nat \ {0}

vars == <<storeVars, providerVars, allocatorVars, recorded, sweep>>

TypeOK ==
  /\ StoreTypeOK
  /\ ProviderTypeOK
  /\ AllocatorTypeOK
  /\ EventProcessorTypeOK
  /\ RecoveryTypeOK

Init ==
  /\ StoreInit
  /\ ProviderInit
  /\ AllocatorInit
  /\ EventProcessorInit
  /\ RecoveryInit

-----------------------------------------------------------------------------

Dialer(w) == DialStep(w) /\ UNCHANGED <<recorded, sweep>>

(* A carrier rings before it reports anything, which as a rule is longer   *)
(* than the write after it accepted the call.                              *)
Attaching(l) == \E w \in Workers : dial[w].pc = "attach" /\ dial[w].line = l

Processor(l) ==
  /\ "early" \in Faults \/ ~Attaching(l)
  /\ EventStep(l)
  /\ UNCHANGED <<allocatorVars, sweep>>

Recovery == RecoveryStep /\ UNCHANGED <<allocatorVars, recorded>>

(* Silence is measured against the time at which a recovery pass started.  *)
Session(a) ==
  /\ SessionStep(a) \/ (sweep = Asleep /\ FallSilent(a))
  /\ UNCHANGED <<providerVars, allocatorVars, recorded, sweep>>

(* WrapUpService and DialerWorker._release_finished_wrap_ups: the agent    *)
(* has been in WRAP_UP for WRAP_UP_SECONDS.                                *)
WrapUpEnds(a) ==
  /\ agents[a].state = "WRAP_UP"
  /\ TransitionAgent(a, "WRAP_UP", "AVAILABLE", "WORKER_TIMER",
                     agents[a].version)
  /\ UNCHANGED <<borrowers, calls, providerVars, allocatorVars, recorded,
                 sweep>>

Backoff(b) ==
  /\ BackoffElapses(b)
  /\ UNCHANGED <<agents, calls, providerVars, allocatorVars, recorded, sweep>>

-----------------------------------------------------------------------------
(* Time.  A pass of the recovery worker compares every deadline with the   *)
(* time at which it started, so a tick inside a pass is the tick after it. *)

SettingUp(w) == dial[w].pc # "idle"

Talking(l) == lines[l].status = "ACTIVE"

(* What is assumed of the environment, and what the faults drop: no line   *)
(* of the code bounds a set-up or a conversation.  Work in progress ends   *)
(* before the lease of its holder does; time passes in it as long as the   *)
(* lease has more than one tick left.                                      *)
SetupInTime ==
  \A w \in Workers : SettingUp(w) =>
    /\ agents[dial[w].agent].lease # 1
    /\ dial[w].borrower # None => borrowers[dial[w].borrower].lease # 1

CallsInTime ==
  \A l \in 1..MaxLines : Talking(l) =>
    /\ agents[lines[l].key.agent].lease # 1
    /\ borrowers[lines[l].key.borrower].lease # 1

CallsNotLost ==
  \A l \in 1..MaxLines : Talking(l) => calls[lines[l].key].idle # 1

Tick ==
  /\ sweep = Asleep
  /\ "slowSetup" \in Faults \/ SetupInTime
  /\ "longCall" \in Faults \/ CallsInTime
  /\ "lostCall" \in Faults \/ CallsNotLost
  /\ TickStore
  /\ UNCHANGED <<providerVars, allocatorVars, recorded, sweep>>

-----------------------------------------------------------------------------
(* Failures                                                                *)

Cancelled(w) ==
  "cancel" \in Faults /\ CancelDial(w) /\ UNCHANGED <<recorded, sweep>>

DatabaseError ==
  /\ "dbError" \in Faults
  /\ \/ /\ \E w \in Workers : Abandon(w)
        /\ UNCHANGED <<recorded, sweep>>
     \/ /\ \E l \in 1..MaxLines : HandlerFails(l) \/ HandlerKillsDelivery(l)
        /\ UNCHANGED <<allocatorVars, sweep>>
     \/ /\ SweepFails
        /\ UNCHANGED <<allocatorVars, recorded>>

(* The process dies and starts again: what it had in memory is gone and it *)
(* signs with a new worker id.                                             *)
Crash ==
  /\ "crash" \in Faults
  /\ epoch < MaxEpochs
  /\ epoch' = epoch + 1
  /\ dial' = [w \in Workers |-> IdleDial]
  /\ sweep' = Asleep
  /\ ProviderRestarts
  /\ UNCHANGED <<storeVars, recorded>>

-----------------------------------------------------------------------------

Next ==
  \/ \E w \in Workers : Dialer(w) \/ Cancelled(w)
  \/ \E l \in 1..MaxLines : Processor(l)
  \/ Recovery
  \/ \E a \in Agents : Session(a) \/ WrapUpEnds(a)
  \/ \E b \in Borrowers : Backoff(b)
  \/ Tick \/ DatabaseError \/ Crash

Spec == Init /\ [][Next]_vars

(* The event loop runs every task that can run, and timers fire.  A worker *)
(* that keeps finding a borrower it may dial does dial one: candidates are *)
(* tried until one is claimed, and only an unhealthy provider closes the   *)
(* retry gate.  Ticks wait for a recovery pass to end, hence the strong    *)
(* fairness.                                                               *)
Fairness ==
  /\ \A w \in Workers :
       /\ WF_vars(Dialer(w))
       /\ SF_vars(Dialer(w) /\ dial[w].pc = "idle")
       /\ SF_vars(Dialer(w) /\ dial'[w].pc = "create")
  /\ \A l \in 1..MaxLines : WF_vars(Processor(l))
  /\ WF_vars(Recovery)
  /\ \A a \in Agents : WF_vars(WrapUpEnds(a))
  /\ \A b \in Borrowers : WF_vars(Backoff(b))
  /\ SF_vars(Tick)

FairSpec == Spec /\ Fairness

-----------------------------------------------------------------------------
(* Safety whatever goes wrong                                              *)

(* An agent taken out of the AVAILABLE pool by the dialer always carries a *)
(* worker id and a lease, so the expiry sweep can find it: no interleaving *)
(* of releases, resets and logouts leaves a busy agent nobody can reclaim. *)
BusyAgentIsReclaimable ==
  \A a \in Agents :
    HasCall(a) => agents[a].reservedBy # None /\ agents[a].lease # None

(* A borrower is RESERVED exactly while a worker's lease is on it.         *)
ReservedBorrowerIsReclaimable ==
  \A b \in Borrowers :
    /\ borrowers[b].status = "RESERVED" <=> borrowers[b].reservedBy # None
    /\ borrowers[b].status = "RESERVED" <=> borrowers[b].lease # None

(* MAX_CALL_ATTEMPTS: a borrower who may still be dialled has an attempt   *)
(* left, and one counted out has none.                                     *)
AttemptsWithinLimit ==
  \A b \in Borrowers :
    /\ borrowers[b].status \in {"PENDING", "RESERVED"} =>
         borrowers[b].attempts < MaxAttempts
    /\ borrowers[b].status = "EXHAUSTED" =>
         borrowers[b].attempts = MaxAttempts

(* No call is put to the carrier twice: a worker about to originate a call *)
(* is the only one who can, and the carrier was never asked for it before. *)
AboutToDial(w) == dial[w].pc \in {"markDialing", "bind", "originate"}

OneDialPerCall ==
  \A w \in Workers : AboutToDial(w) =>
    /\ DialKey(w) \notin asked
    /\ \A v \in Workers \ {w} : AboutToDial(v) => DialKey(v) # DialKey(w)

(* A borrower counted as reached has a call that was answered and ended    *)
(* normally.                                                               *)
ContactedBorrowerWasReached ==
  \A b \in Borrowers : borrowers[b].status = "CONTACTED" =>
    \E k \in CallKeys :
      k.borrower = b /\ calls[k].state = "COMPLETED" /\ calls[k].answered

(* Every attempt counted against a borrower is a call that ended.          *)
AttemptsAreCalls ==
  \A b \in Borrowers :
    borrowers[b].attempts <=
      Cardinality({k \in CallKeys : k.borrower = b /\
                                     IsTerminal(calls[k].state)})

(* A borrower who was reached or counted out is never dialled again.       *)
SettledBorrowerStaysSettled ==
  [][\A b \in Borrowers :
       borrowers[b].status \in {"CONTACTED", "EXHAUSTED"} =>
         borrowers'[b].status = borrowers[b].status]_vars

(* Call documents move along CALL_TRANSITIONS, although transition_call    *)
(* checks ranks only.                                                      *)
CallsFollowTheTable ==
  [][\A k \in CallKeys :
       \/ calls'[k].state = calls[k].state
       \/ calls[k].state = "ABSENT" /\ calls'[k].state = "QUEUED"
       \/ calls[k].state # "ABSENT" /\
            CanTransitionCall(calls[k].state, calls'[k].state)]_vars

-----------------------------------------------------------------------------
(* Safety of the running system                                            *)

CallsOf(a) == {k \in FindActive : k.agent = a}
CallsTo(b) == {k \in FindActive : k.borrower = b}

(* The invariants of app/simulation/invariants.py.                         *)
AgentInOneCall == \A a \in Agents : Cardinality(CallsOf(a)) <= 1

BorrowerInOneCall == \A b \in Borrowers : Cardinality(CallsTo(b)) <= 1

CallsWithinAgents ==
  Cardinality(FindActive) <=
    Cardinality({a \in Agents : agents[a].state \notin {"OFFLINE", "PAUSED"}})

(* An active call holds its agent and its borrower for the worker that     *)
(* created it.                                                             *)
ActiveCallHoldsItsPair ==
  \A k \in FindActive :
    /\ agents[k.agent].reservedBy = calls[k].by
    /\ HasCall(k.agent)
    /\ borrowers[k.borrower].reservedBy = calls[k].by

(* The campaign keeps its contract: every step of a worker, an event, a    *)
(* sweep or an agent is a step of CampaignContract, or none.               *)
Contract == INSTANCE CampaignContract WITH
  engaged  <- {<<k.agent, k.borrower>> : k \in FindActive},
  ended    <- [b \in Borrowers |->
                 Cardinality({k \in CallKeys : k.borrower = b /\
                                               IsTerminal(calls[k].state)})],
  attempts <- [b \in Borrowers |-> borrowers[b].attempts],
  outcome  <- [b \in Borrowers |->
                 CASE borrowers[b].status = "CONTACTED" -> "reached"
                   [] borrowers[b].status = "EXHAUSTED" -> "exhausted"
                   [] OTHER                             -> "open"]

CampaignContractIsKept == Contract!Spec

(* The results _dial does not look at: every update it makes applies.      *)
UncheckedUpdatesApply ==
  \A w \in Workers :
    /\ dial[w].pc = "reserve" => TransitionCallMatches(DialKey(w), "RESERVED")
    /\ dial[w].pc = "markDialing" =>
         TransitionAgentMatches(dial[w].agent, "RESERVED", "DIALING",
                                "ALLOCATOR", dial[w].version)
    /\ dial[w].pc = "bind" => agents[dial[w].agent].reservedBy = epoch
    /\ dial[w].pc = "failCall" => TransitionCallMatches(DialKey(w), "FAILED")
    /\ dial[w].pc = "freeBorrower" =>
         ReleaseBorrowerMatches(dial[w].borrower, epoch)

(* The recovery worker never gives a borrower back while a call to them is *)
(* active: the lease of the agent runs out first and its sweep comes first.*)
ReclaimedBorrowerHasNoCall ==
  [][\A b \in Borrowers :
       (sweep.stage = "borrowerLeases" /\ borrowers'[b] # borrowers[b])
         => CallsTo(b) = {}]_vars

(* What config.py orders the timeouts for: recovery never ends a call that *)
(* is being set up, although time passes in a set-up up to the lease.      *)
StaleCallIsNotBeingSetUp ==
  \A w \in Workers : dial[w].pc \notin {"idle", "claimBorrower", "create"} =>
    DialKey(w) \notin FindStaleCalls

(* An agent who is away stays away until the agent comes back: no late     *)
(* event, release or sweep makes an OFFLINE or PAUSED agent dialable again *)
(* although logging out keeps the worker's name and lease on the document. *)
AbsentAgentStaysAbsent ==
  [][\A a \in Agents :
       (/\ agents[a].state \in {"OFFLINE", "PAUSED"}
        /\ agents'[a].state \notin {"OFFLINE", "PAUSED"})
         => UNCHANGED <<dial, lines, sweep>>]_vars

(* README.md: bad carrier behaviour is harmless.  A borrower who had a     *)
(* conversation is not put back to be dialled again when it ends.          *)
ConversationCountsAsContact ==
  [][\A l \in 1..MaxLines :
       (/\ Handler(l).pc = "freeBorrower"
        /\ Handler(l).target = "COMPLETED"
        /\ lines'[l].handler.pc = "idle")
         => borrowers'[Handler(l).call.borrower].status # "PENDING"]_vars

-----------------------------------------------------------------------------
(* Liveness                                                                *)

(* "Reservations are leases": whatever the process did or failed to do, an *)
(* agent does not stay busy, a borrower does not stay reserved and a call  *)
(* does not stay open for ever.                                            *)
BusyAgentIsFreed ==
  \A a \in Agents :
    CountsAsBusy(agents[a].state) ~> ~CountsAsBusy(agents[a].state)

ReservedBorrowerIsFreed ==
  \A b \in Borrowers :
    borrowers[b].status = "RESERVED" ~> borrowers[b].status # "RESERVED"

OpenCallEnds ==
  \A k \in CallKeys :
    calls[k].state # "ABSENT" ~> IsTerminal(calls[k].state)

(* "Nothing can be stuck": every borrower is reached or counted out.       *)
CampaignEnds ==
  \A b \in Borrowers : <>(borrowers[b].status \in {"CONTACTED", "EXHAUSTED"})

=============================================================================
