------------------------- MODULE SmartDialerProofs -------------------------
(***************************************************************************)
(* What the running program keeps true for any number of agents, borrowers *)
(* and workers, any timeouts, any number of restarts and any faults.       *)
(***************************************************************************)
EXTENDS SmartDialer, TaskProofs

(* The inductive invariant.  The three properties below are in StoreOK;    *)
(* what the tasks have in hand keeps every operation they will still call  *)
(* on documents that exist.                                                *)
IInv ==
  /\ StoreOK
  /\ ProviderOK
  /\ AllocatorOK
  /\ EventProcessorTypeOK
  /\ RecoveryOK

LEMMA InitOK == Init => IInv
BY StoreInitOK, ProviderInitOK, AllocatorInitOK, RecoveryInitOK
DEF Init, IInv, StoreOK, EventProcessorInit, EventProcessorTypeOK

-----------------------------------------------------------------------------
(* One lemma per kind of step.                                             *)

LEMMA IdleRecordOK ==
  EventProcessorTypeOK /\ UNCHANGED recorded => EventProcessorTypeOK'
BY DEF EventProcessorTypeOK

LEMMA WorkerStepOK ==
  ASSUME IInv, NEW w \in Workers, Dialer(w) \/ Cancelled(w)
  PROVE  IInv'
<1>1. DialerInv'
  BY DialStepOK, StoppedDialOK DEF IInv, DialerInv, Dialer, Cancelled
<1>2. QED
  BY <1>1, IdleRecordOK, IdleRecoveryOK
  DEF IInv, DialerInv, Dialer, Cancelled

LEMMA ProcessorStepOK ==
  ASSUME IInv, NEW l \in 1..MaxLines, Processor(l)
  PROVE  IInv'
<1>1. ProcessorInv'
  BY EventStepOK DEF IInv, ProcessorInv, Processor
<1>2. QED
  BY <1>1, IdleAllocatorOK, IdleRecoveryOK DEF IInv, ProcessorInv, Processor

LEMMA RecoveryStepKeepsInv ==
  ASSUME IInv, Recovery
  PROVE  IInv'
<1>1. RecoveryInv'
  BY RecoveryStepOK DEF IInv, RecoveryInv, Recovery
<1>2. QED
  BY <1>1, IdleAllocatorOK, IdleRecordOK DEF IInv, RecoveryInv, Recovery

(* What an agent does keeps the worker's name and lease on the document,   *)
(* and never puts the agent on a call.                                     *)
LEMMA AgentUpdateOK ==
  ASSUME IInv, NEW a \in Agents, Session(a) \/ WrapUpEnds(a)
  PROVE  IInv'
<1>1. AgentsOK'
  <2>1. CASE Login(a) \/ Logout(a) \/ Pause(a) \/ Resume(a)
    BY <2>1, TransitionAgentOK
    DEF Login, Logout, Pause, Resume, AgentAction, IInv, StoreOK
  <2>2. CASE FallSilent(a) \/ Heartbeat(a)
    BY <2>2, SetAliveOK DEF FallSilent, Heartbeat, IInv, StoreOK
  <2>3. CASE WrapUpEnds(a)
    BY <2>3, TransitionAgentOK DEF WrapUpEnds, IInv, StoreOK
  <2>4. QED
    BY <2>1, <2>2, <2>3 DEF Session, SessionStep
<1>2. UNCHANGED <<borrowers, calls, providerVars, allocatorVars, recorded,
                  sweep>>
  BY DEF Session, SessionStep, WrapUpEnds, Login, Logout, Pause, Resume,
         AgentAction, FallSilent, Heartbeat
<1>3. QED
  BY <1>1, <1>2, UntouchedOK, IdleProviderOK, IdleAllocatorOK, IdleRecordOK,
     IdleRecoveryOK
  DEF IInv, StoreOK

LEMMA TimeOK ==
  ASSUME IInv, Tick \/ \E b \in Borrowers : Backoff(b)
  PROVE  IInv'
<1>1. StoreOK'
  BY TickStoreOK, BackoffElapsesOK, UntouchedOK
  DEF Tick, Backoff, IInv, StoreOK
<1>2. QED
  BY <1>1, IdleProviderOK, IdleAllocatorOK, IdleRecordOK, IdleRecoveryOK
  DEF Tick, Backoff, IInv

LEMMA DatabaseErrorOK ==
  ASSUME IInv, DatabaseError
  PROVE  IInv'
<1>1. CASE (\E w \in Workers : Abandon(w)) /\ UNCHANGED <<recorded, sweep>>
  BY <1>1, StoppedDialOK, IdleRecordOK, IdleRecoveryOK DEF IInv, DialerInv
<1>2. CASE /\ \E l \in 1..MaxLines : HandlerFails(l) \/ HandlerKillsDelivery(l)
           /\ UNCHANGED <<allocatorVars, sweep>>
  BY <1>2, HandlerErrorOK, IdleAllocatorOK, IdleRecoveryOK
  DEF IInv, ProcessorInv
<1>3. CASE SweepFails /\ UNCHANGED <<allocatorVars, recorded>>
  BY <1>3, SweepFailsOK, IdleAllocatorOK, IdleRecordOK DEF IInv, RecoveryInv
<1>4. QED
  BY <1>1, <1>2, <1>3 DEF DatabaseError

LEMMA CrashOK ==
  ASSUME IInv, Crash
  PROVE  IInv'
<1>1. AllocatorOK'
  BY IdleDialOK
  DEF Crash, IInv, AllocatorOK, AllocatorTypeOK, DialOK, WorkerIds
<1>2. RecoveryOK'
  BY AsleepOK DEF Crash
<1>3. QED
  BY <1>1, <1>2, ProviderRestartsOK, IdleRecordOK, UntouchedOK
  DEF Crash, IInv, StoreOK, storeVars

LEMMA StutterOK ==
  ASSUME IInv, UNCHANGED vars
  PROVE  IInv'
BY UntouchedOK, IdleProviderOK, IdleAllocatorOK, IdleRecordOK, IdleRecoveryOK
DEF IInv, StoreOK, vars, storeVars

LEMMA NextOK ==
  ASSUME IInv, [Next]_vars
  PROVE  IInv'
BY WorkerStepOK, ProcessorStepOK, RecoveryStepKeepsInv, AgentUpdateOK, TimeOK,
   DatabaseErrorOK, CrashOK, StutterOK
DEF Next

LEMMA Invariance == Spec => []IInv
BY InitOK, NextOK, PTL DEF Spec

-----------------------------------------------------------------------------
(* Every document, line, task and sweep is always well formed.             *)
THEOREM TypeCorrect == Spec => []TypeOK
<1>1. IInv => TypeOK
  BY DEF IInv, StoreOK, AgentsOK, BorrowersOK, CallsOK, ProviderOK,
         AllocatorOK, RecoveryOK, TypeOK, StoreTypeOK
<1>2. QED
  BY <1>1, Invariance, PTL

(* No agent is ever busy without a lease the recovery worker can find.     *)
THEOREM BusyAgentsReclaimable == Spec => []BusyAgentIsReclaimable
<1>1. IInv => BusyAgentIsReclaimable
  BY DEF IInv, StoreOK, AgentsOK, BusyAgentIsReclaimable, HasCall
<1>2. QED
  BY <1>1, Invariance, PTL

(* No borrower is ever RESERVED without such a lease, nor leased without   *)
(* being RESERVED.                                                         *)
THEOREM ReservedBorrowersReclaimable == Spec => []ReservedBorrowerIsReclaimable
<1>1. IInv => ReservedBorrowerIsReclaimable
  BY DEF IInv, StoreOK, BorrowersOK, ReservedBorrowerIsReclaimable
<1>2. QED
  BY <1>1, Invariance, PTL

(* MAX_CALL_ATTEMPTS is never exceeded, and whoever can be dialled has an  *)
(* attempt left.                                                           *)
THEOREM AttemptsLimited == Spec => []AttemptsWithinLimit
<1>1. IInv => AttemptsWithinLimit
  BY DEF IInv, StoreOK, BorrowersOK, AttemptsWithinLimit
<1>2. QED
  BY <1>1, Invariance, PTL

-----------------------------------------------------------------------------
(* How calls advance.  Whoever takes a call to INITIATED is the one who    *)
(* dials it, and no call ever gets back to before that.                    *)

Initiated(k) == calls[k].state \in CallStates \ {"QUEUED", "RESERVED"}

(* What is dialled, was asked for or has a line was initiated.             *)
DialersOK ==
  /\ OneDialPerCall
  /\ \A w \in Workers :
       /\ AboutToDial(w) => Initiated(DialKey(w))
       /\ dial[w].pc = "attach" => DialKey(w) \in asked
  /\ \A k \in asked : Initiated(k)

AttachedOK == \A k \in CallKeys : calls[k].line # None => Initiated(k)

(* So is what events are about; one that ends a call has ended it before   *)
(* anything else.                                                          *)
EventsOK ==
  \A l \in 1..MaxLines :
    Handler(l).pc # "idle" =>
      /\ Initiated(Handler(l).call)
      /\ Handler(l).pc # "applyCall" /\ IsTerminal(Handler(l).target) =>
           calls[Handler(l).call].state = Handler(l).target

(* What a sweep still has to do is as its query found it.                  *)
SweepsOK ==
  /\ sweep.step # "next" => sweep.item \in sweep.todo
  /\ sweep.stage = "orphans" =>
       \A i \in sweep.todo : i.line # None => Initiated(i.call)
  /\ sweep.stage = "agentLeases" =>
       \A i \in sweep.todo : i.state \in AllowedSources("AVAILABLE", "RECOVERY")

CallsInv ==
  /\ IInv
  /\ DialersOK
  /\ AttachedOK
  /\ EventsOK
  /\ SweepsOK
  /\ ContactedBorrowerWasReached

(* Every write to the calls collection.                                    *)
CallWrite(k) ==
  \/ CreateCall(k, epoch)
  \/ \E target \in {"RESERVED", "INITIATED", "FAILED", "CANCELLED"} :
       TransitionCall(k, target)
  \/ Initiated(k) /\ \E target \in CallStates : TransitionCall(k, target)
  \/ Initiated(k) /\ \E line \in LineIds : AttachProviderCallId(k, line)

CallsWritten ==
  UNCHANGED calls \/ TickStore \/ \E k \in CallKeys : CallWrite(k)

(* Every call stays where it is or takes a step of CALL_TRANSITIONS.       *)
Advances(k) ==
  /\ \/ calls'[k].state = calls[k].state
     \/ calls[k].state = "ABSENT" /\ calls'[k].state = "QUEUED"
     \/ calls[k].state # "ABSENT" /\
          CanTransitionCall(calls[k].state, calls'[k].state)
  /\ calls[k].answered => calls'[k].answered
  /\ calls'[k].line = calls[k].line \/ Initiated(k)

LEMMA RanksFollowTheTable ==
  ASSUME NEW old \in CallStates \ TerminalCallStates, NEW new \in CallStates,
         CallStateRank[old] < CallStateRank[new],
         \/ new \in {"RESERVED", "INITIATED", "FAILED", "CANCELLED"}
         \/ old \notin {"QUEUED", "RESERVED"}
  PROVE  CanTransitionCall(old, new)
BY DEF CallStates, TerminalCallStates, CallStateRank, CanTransitionCall,
   CallTransitions

LEMMA CallsAdvance ==
  ASSUME CallsOK, CallsWritten, NEW k \in CallKeys
  PROVE  Advances(k)
<1>1. CASE UNCHANGED calls
  BY <1>1 DEF Advances
<1>2. CASE TickStore
  <2>1. calls'[k] = [calls[k] EXCEPT !.idle = Elapsed(@)]
    BY <1>2 DEF TickStore
  <2>2. QED
    BY <2>1 DEF Advances, CallsOK, CallDocuments
<1>3. ASSUME NEW j \in CallKeys, CallWrite(j)
      PROVE  Advances(k)
  <2>1. CASE j # k
    BY <1>3, <2>1
    DEF CallWrite, CreateCall, TransitionCall, AttachProviderCallId, Advances,
        CallsOK
  <2>2. CASE j = k /\ CreateCall(k, epoch)
    BY <2>2 DEF CreateCall, Advances, CallsOK, CallDocuments
  <2>3. ASSUME j = k, NEW target \in CallStates, TransitionCall(k, target),
               \/ target \in {"RESERVED", "INITIATED", "FAILED", "CANCELLED"}
               \/ Initiated(k)
        PROVE  Advances(k)
    <3>1. CASE TransitionCallMatches(k, target)
      <4>1. /\ calls'[k].state = target
            /\ calls'[k].answered = (calls[k].answered \/ target = "ANSWERED")
            /\ calls'[k].line = calls[k].line
        BY <2>3, <3>1 DEF TransitionCall, CallsOK, CallDocuments
      <4>2. /\ calls[k].state \in CallStates \ TerminalCallStates
            /\ CallStateRank[calls[k].state] < CallStateRank[target]
        BY <3>1 DEF TransitionCallMatches
      <4>3. CanTransitionCall(calls[k].state, target)
        BY <2>3, <4>2, RanksFollowTheTable DEF Initiated
      <4>4. calls[k].state # "ABSENT"
        BY <4>2 DEF CallStates
      <4>5. QED
        BY <4>1, <4>3, <4>4 DEF Advances
    <3>2. CASE ~TransitionCallMatches(k, target)
      BY <2>3, <3>2 DEF TransitionCall, Advances
    <3>3. QED
      BY <3>1, <3>2
  <2>4. ASSUME j = k, Initiated(k), NEW line, AttachProviderCallId(k, line)
        PROVE  Advances(k)
    BY <2>4 DEF AttachProviderCallId, Advances, CallsOK, CallDocuments
  <2>5. {"RESERVED", "INITIATED", "FAILED", "CANCELLED"} \subseteq CallStates
    BY DEF CallStates
  <2>6. QED
    BY <1>3, <2>1, <2>2, <2>3, <2>4, <2>5 DEF CallWrite
<1>4. QED
  BY <1>1, <1>2, <1>3 DEF CallsWritten

(* Initiated and over are for good.                                        *)
LEMMA AdvancesKeeps ==
  ASSUME NEW k \in CallKeys, CallsOK, CallsOK', Advances(k)
  PROVE  /\ Initiated(k) => Initiated(k)'
         /\ IsTerminal(calls[k].state) => calls'[k].state = calls[k].state
         /\ calls[k].answered => calls'[k].answered
         /\ calls'[k].line # None => calls[k].line # None \/ Initiated(k)
BY DEF Advances, Initiated, IsTerminal, CanTransitionCall, CallTransitions,
   CallStates, TerminalCallStates, CallsOK, CallDocuments

LEMMA CallsAreWritten ==
  ASSUME CallsInv, [Next]_vars
  PROVE  CallsWritten
<1>1. ASSUME NEW w \in Workers, Dialer(w)
      PROVE  CallsWritten
  <2>1. CASE UNCHANGED calls
    BY <2>1 DEF CallsWritten
  <2>2. CASE Create(w) \/ Reserve(w) \/ Initiate(w) \/ FailCall(w)
    <3>1. DialKey(w) \in CallKeys
      BY <2>2, DialKeyOK
      DEF Create, Reserve, Initiate, FailCall, CallsInv, IInv
    <3>2. QED
      BY <2>2, <3>1
      DEF Create, Reserve, Initiate, FailCall, CallsWritten, CallWrite
  <2>3. CASE Attach(w)
    <3>1. /\ DialKey(w) \in CallKeys
          /\ dial[w].line \in LineIds
          /\ Initiated(DialKey(w))
      BY <2>3, DialKeyOK, ProviderAssumption
      DEF Attach, CallsInv, IInv, AllocatorOK, DialOK, DialersOK, LineIds
    <3>2. QED
      BY <2>3, <3>1 DEF Attach, CallsWritten, CallWrite
  <2>4. QED
    BY <1>1, <2>1, <2>2, <2>3
    DEF Dialer, DialStep, ClaimAgent, ClaimBorrower, GiveAgentBack,
        MarkDialing, Bind, Originate, FreeAgent, FreeBorrower, storeVars
<1>2. ASSUME NEW l \in 1..MaxLines, Processor(l)
      PROVE  CallsWritten
  <2>1. CASE ApplyCall(l)
    <3>1. /\ Handler(l).call \in CallKeys
          /\ Handler(l).target \in CallStates
          /\ Initiated(Handler(l).call)
      BY <2>1, BusyHandlerOK
      DEF ApplyCall, CallsInv, IInv, ProcessorInv, EventsOK
    <3>2. QED
      BY <2>1, <3>1 DEF ApplyCall, CallsWritten, CallWrite
  <2>2. CASE UNCHANGED calls
    BY <2>2 DEF CallsWritten
  <2>3. QED
    BY <1>2, <2>1, <2>2
    DEF Processor, EventStep, ReceiveEvent, ReadAgent, MoveAgent,
        SettleBorrower, Finish, storeVars
<1>3. CASE Recovery
  <2>1. CASE UNCHANGED calls
    BY <2>1 DEF CallsWritten
  <2>2. ASSUME NEW item \in sweep.todo, CancelBoundCall(item)
        PROVE  CallsWritten
    <3>1. item \in AgentSnapshots
      BY <2>2 DEF CancelBoundCall, At, CallsInv, IInv, RecoveryOK, SweepOK,
                  ItemsOf, AgentStages
    <3>2. item.call = None \/ item.call \in CallKeys
      BY <3>1 DEF AgentSnapshots
    <3>3. QED
      BY <2>2, <3>2 DEF CancelBoundCall, CallsWritten, CallWrite
  <2>3. ASSUME NEW item \in sweep.todo, ReconcileCall(item)
        PROVE  CallsWritten
    <3>1. item.call \in CallKeys
      BY <2>3 DEF ReconcileCall, At, CallsInv, IInv, RecoveryOK, SweepOK,
                  ItemsOf, AgentStages, CallSnapshots
    <3>2. \/ ReconciledState(item) = "FAILED"
          \/ ReconciledState(item) = "COMPLETED" /\ Initiated(item.call)
      BY <2>3 DEF ReconcileCall, ReconciledState, At, CallsInv, SweepsOK
    <3>3. "COMPLETED" \in CallStates
      BY DEF CallStates
    <3>4. QED
      BY <2>3, <3>1, <3>2, <3>3 DEF ReconcileCall, CallsWritten, CallWrite
  <2>4. QED
    BY <1>3, <2>1, <2>2, <2>3
    DEF Recovery, RecoveryStep, NextSweep, SweepBorrower, ReleaseStuckWrapUp,
        FreeBoundBorrower, ReclaimAgent, TakeOffline, FreeOrphanAgent,
        FreeOrphanBorrower, storeVars
<1>4. CASE Tick
  BY <1>4 DEF Tick, CallsWritten
<1>5. ASSUME NEW w \in Workers, Cancelled(w)
      PROVE  CallsWritten
  BY <1>5 DEF Cancelled, CancelDial, CallsWritten, storeVars
<1>6. ASSUME NEW a \in Agents, Session(a) \/ WrapUpEnds(a)
      PROVE  CallsWritten
  BY <1>6 DEF Session, SessionStep, WrapUpEnds, Login, Logout, Pause, Resume,
              AgentAction, FallSilent, Heartbeat, CallsWritten
<1>7. CASE DatabaseError \/ Crash
  BY <1>7 DEF DatabaseError, Abandon, HandlerFails, HandlerKillsDelivery,
              SweepFails, Crash, CallsWritten, storeVars
<1>8. ASSUME NEW b \in Borrowers, Backoff(b)
      PROVE  CallsWritten
  BY <1>8 DEF Backoff, CallsWritten
<1>9. CASE UNCHANGED vars
  BY <1>9 DEF vars, storeVars, CallsWritten
<1>10. QED
  BY <1>1, <1>2, <1>3, <1>4, <1>5, <1>6, <1>7, <1>8, <1>9 DEF Next

LEMMA CallsKept ==
  ASSUME CallsInv, [Next]_vars, NEW k \in CallKeys
  PROVE  /\ Initiated(k) => Initiated(k)'
         /\ IsTerminal(calls[k].state) => calls'[k].state = calls[k].state
         /\ calls[k].answered => calls'[k].answered
         /\ calls'[k].line # None => calls[k].line # None \/ Initiated(k)
<1>1. CallsOK /\ CallsOK'
  BY NextOK DEF CallsInv, IInv, StoreOK
<1>2. Advances(k)
  BY <1>1, CallsAreWritten, CallsAdvance
<1>3. QED
  BY <1>1, <1>2, AdvancesKeeps

LEMMA AttachedKept ==
  ASSUME CallsInv, [Next]_vars
  PROVE  AttachedOK'
BY CallsKept DEF CallsInv, AttachedOK

(* Nobody new is about to dial, or has dialled.                            *)
LEMMA NobodyNewDials ==
  ASSUME CallsInv, [Next]_vars, asked' = asked,
         \A w \in Workers :
           /\ AboutToDial(w)' => AboutToDial(w) /\ DialKey(w)' = DialKey(w)
           /\ dial'[w].pc = "attach" =>
                dial[w].pc = "attach" /\ DialKey(w)' = DialKey(w)
  PROVE  DialersOK'
<1>1. \A k \in asked : k \in CallKeys
  BY DEF CallsInv, IInv, ProviderOK, ProviderTypeOK
<1>2. \A w \in Workers : AboutToDial(w) => DialKey(w) \in CallKeys
  BY DialKeyOK DEF AboutToDial, CallsInv, IInv
<1>3. OneDialPerCall'
  BY DEF OneDialPerCall, CallsInv, DialersOK
<1>4. QED
  BY <1>1, <1>2, <1>3, CallsKept DEF CallsInv, DialersOK

(* A step of one worker leaves the others where they are.                  *)
LEMMA OtherDialsStay ==
  ASSUME IInv, NEW w \in Workers,
         DialStep(w) \/ CancelDial(w) \/ Abandon(w)
  PROVE  \A v \in Workers \ {w} :
           dial'[v] = dial[v] /\ DialKey(v)' = DialKey(v)
<1>1. dial \in [Workers -> Dials]
  BY DEF IInv, AllocatorOK, AllocatorTypeOK
<1>2. \A v \in Workers \ {w} : dial'[v] = dial[v]
  <2>1. CASE ClaimAgent(w)
    BY <1>1, <2>1 DEF ClaimAgent
  <2>2. CASE ClaimBorrower(w)
    BY <1>1, <2>2 DEF ClaimBorrower
  <2>3. CASE GiveAgentBack(w) \/ FreeBorrower(w) \/ Abandon(w)
    BY <1>1, <2>3 DEF GiveAgentBack, FreeBorrower, Abandon, EndDial
  <2>4. CASE \/ Create(w) \/ Reserve(w) \/ Initiate(w) \/ FailCall(w)
             \/ FreeAgent(w) \/ MarkDialing(w) \/ Bind(w)
    BY <1>1, <2>4
    DEF Create, Reserve, Initiate, FailCall, FreeAgent, MarkDialing, Bind,
        Goto, GotoRelease
  <2>5. CASE Originate(w) \/ Attach(w)
    BY <1>1, <2>5 DEF Originate, Attach, Goto, EndDial
  <2>6. CASE CancelDial(w)
    BY <1>1, <2>6 DEF CancelDial
  <2>7. QED
    BY <2>1, <2>2, <2>3, <2>4, <2>5, <2>6 DEF DialStep
<1>3. QED
  BY <1>2 DEF DialKey

(* The transition to INITIATED is made once.                               *)
LEMMA InitiateKeepsDialers ==
  ASSUME CallsInv, NEW w \in Workers, Initiate(w), [Next]_vars
  PROVE  DialersOK'
<1> DEFINE key == DialKey(w)
<1>1. key \in CallKeys /\ dial[w].pc = "initiate"
  BY DialKeyOK DEF Initiate, CallsInv, IInv
<1>2. asked' = asked /\ \A k \in asked : k \in CallKeys /\ Initiated(k)
  BY DEF Initiate, providerVars, CallsInv, IInv, ProviderOK, ProviderTypeOK,
         DialersOK
<1>3. \A v \in Workers :
        /\ AboutToDial(v) => DialKey(v) \in CallKeys /\ Initiated(DialKey(v))
        /\ dial[v].pc = "attach" => DialKey(v) \in asked
  BY DialKeyOK DEF AboutToDial, CallsInv, IInv, DialersOK
<1>4. dial[w] \in Dials /\ dial \in [Workers -> Dials]
  BY DEF CallsInv, IInv, AllocatorOK, AllocatorTypeOK
<1>5. \A v \in Workers \ {w} : dial'[v] = dial[v] /\ DialKey(v)' = DialKey(v)
  BY OtherDialsStay DEF DialStep, CallsInv
<1>6. CASE TransitionCallMatches(key, "INITIATED")
  <2>1. ~Initiated(key)
    BY <1>6 DEF TransitionCallMatches, Initiated, CallStates,
                TerminalCallStates, CallStateRank
  <2>2. calls'[key].state = "INITIATED"
    BY <1>1, <1>6 DEF Initiate, TransitionCall, CallsInv, IInv, StoreOK,
                      CallsOK, CallDocuments
  <2>3. dial'[w].pc = "markDialing" /\ DialKey(w)' = key
    BY <1>4, <1>6 DEF Initiate, Goto, DialKey, IdempotencyKey, Dials
  <2>4. \A k \in CallKeys : Initiated(k) => Initiated(k)'
    BY CallsKept
  <2> HIDE DEF key
  <2>5. \A v \in Workers \ {w} :
          /\ AboutToDial(v)' <=> AboutToDial(v)
          /\ dial'[v].pc = "attach" <=> dial[v].pc = "attach"
    BY <1>5 DEF AboutToDial
  <2>6. OneDialPerCall'
    BY <1>2, <1>3, <1>5, <2>1, <2>3, <2>5
    DEF OneDialPerCall, CallsInv, DialersOK
  <2>7. ASSUME NEW v \in Workers
        PROVE  /\ AboutToDial(v)' => Initiated(DialKey(v))'
               /\ dial'[v].pc = "attach" => DialKey(v)' \in asked'
    <3>1. CASE v = w
      <4>1. "INITIATED" \in CallStates \ {"QUEUED", "RESERVED"}
        BY DEF CallStates
      <4>2. QED
        BY <3>1, <4>1, <2>2, <2>3 DEF Initiated
    <3>2. CASE v # w
      <4>1. DialKey(v)' = DialKey(v) /\ (AboutToDial(v)' <=> AboutToDial(v))
        BY <1>5, <2>5, <3>2
      <4>2. AboutToDial(v) => Initiated(DialKey(v))'
        <5>1. AboutToDial(v) =>
                calls'[DialKey(v)].state \in CallStates \ {"QUEUED", "RESERVED"}
          BY <1>3, <2>4 DEF Initiated
        <5>2. QED
          BY <4>1, <5>1 DEF Initiated
      <4>3. QED
        BY <1>2, <1>3, <2>5, <3>2, <4>1, <4>2
    <3>3. QED
      BY <3>1, <3>2
  <2>8. QED
    BY <1>2, <2>4, <2>6, <2>7 DEF DialersOK
<1>7. CASE ~TransitionCallMatches(key, "INITIATED")
  <2>1. dial'[w].pc = "freeAgent"
    BY <1>4, <1>7 DEF Initiate, GotoRelease, Dials
  <2>2. QED
    BY <1>2, <1>5, <2>1, NobodyNewDials DEF AboutToDial
<1>8. QED
  BY <1>6, <1>7

(* The carrier is asked by the one who was about to.                       *)
LEMMA OriginateKeepsDialers ==
  ASSUME CallsInv, NEW w \in Workers, Originate(w), [Next]_vars
  PROVE  DialersOK'
<1> DEFINE key == DialKey(w)
<1>1. key \in CallKeys /\ AboutToDial(w)
  BY DialKeyOK DEF Originate, AboutToDial, CallsInv, IInv
<1>2. asked' = asked \cup {key}
  BY DEF Originate, Accept, Refuse
<1>3. dial[w] \in Dials /\ dial \in [Workers -> Dials]
  BY DEF CallsInv, IInv, AllocatorOK, AllocatorTypeOK
<1>4. dial'[w].pc \in {"attach", "failCall"} /\ DialKey(w)' = key
  BY <1>3 DEF Originate, Goto, DialKey, IdempotencyKey, Dials
<1>5. \A v \in Workers \ {w} : dial'[v] = dial[v] /\ DialKey(v)' = DialKey(v)
  BY OtherDialsStay DEF DialStep, CallsInv
<1>6. calls' = calls
  BY DEF Originate, storeVars
<1>7. \A k \in asked : k \in CallKeys
  BY DEF CallsInv, IInv, ProviderOK, ProviderTypeOK
<1>8. \A v \in Workers : AboutToDial(v) => DialKey(v) \in CallKeys
  BY DialKeyOK DEF AboutToDial, CallsInv, IInv
<1> HIDE DEF key
<1>9. /\ ~AboutToDial(w)'
      /\ \A v \in Workers \ {w} :
           /\ AboutToDial(v)' <=> AboutToDial(v)
           /\ dial'[v].pc = "attach" <=> dial[v].pc = "attach"
  BY <1>4, <1>5 DEF AboutToDial
<1>10. OneDialPerCall'
  BY <1>1, <1>2, <1>5, <1>9 DEF key, OneDialPerCall, CallsInv, DialersOK
<1>11. Initiated(key)
  BY <1>1 DEF key, CallsInv, DialersOK
<1>12. ASSUME NEW v \in Workers
       PROVE  /\ AboutToDial(v)' => Initiated(DialKey(v))'
              /\ dial'[v].pc = "attach" => DialKey(v)' \in asked'
  <2>1. CASE v = w
    BY <1>2, <1>4, <1>9, <2>1
  <2>2. CASE v # w
    BY <1>2, <1>5, <1>6, <1>9, <2>2 DEF CallsInv, DialersOK, Initiated
  <2>3. QED
    BY <2>1, <2>2
<1>13. \A k \in asked' : Initiated(k)'
  BY <1>2, <1>6, <1>11 DEF CallsInv, DialersOK, Initiated
<1>14. QED
  BY <1>10, <1>12, <1>13 DEF DialersOK

LEMMA DialersKept ==
  ASSUME CallsInv, [Next]_vars
  PROVE  DialersOK'
<1>1. CASE UNCHANGED <<dial, asked>>
  BY <1>1, NobodyNewDials DEF AboutToDial, DialKey
<1>2. ASSUME NEW w \in Workers,
             Dialer(w) \/ Cancelled(w) \/ Abandon(w)
      PROVE  DialersOK'
  <2>1. dial[w] \in Dials /\ dial \in [Workers -> Dials]
    BY DEF CallsInv, IInv, AllocatorOK, AllocatorTypeOK
  <2>2. \A v \in Workers \ {w} :
          dial'[v] = dial[v] /\ DialKey(v)' = DialKey(v)
    BY <1>2, OtherDialsStay DEF Dialer, Cancelled, CallsInv
  <2>3. CASE Initiate(w) \/ Originate(w)
    BY <2>3, InitiateKeepsDialers, OriginateKeepsDialers
  <2>4. CASE MarkDialing(w) \/ Bind(w)
    <3>1. /\ asked' = asked /\ AboutToDial(w) /\ DialKey(w)' = DialKey(w)
          /\ dial'[w].pc # "attach"
      BY <2>1, <2>4 DEF MarkDialing, Bind, Goto, DialKey, providerVars,
                        AboutToDial, Dials, IdempotencyKey
    <3>2. QED
      BY <2>2, <3>1, NobodyNewDials DEF AboutToDial
  <2>5. CASE /\ asked' = asked
             /\ dial'[w].pc \notin {"markDialing", "bind", "originate",
                                    "attach"}
    BY <2>2, <2>5, NobodyNewDials DEF AboutToDial
  <2>6. CASE ClaimAgent(w) \/ ClaimBorrower(w)
    <3>1. asked' = asked
      BY <2>6 DEF ClaimAgent, ClaimBorrower, providerVars
    <3>2. CASE ClaimAgent(w)
      <4>1. dial'[w].pc = "claimBorrower"
        BY <2>1, <3>2 DEF ClaimAgent, IdleDial
      <4>2. QED
        BY <2>5, <3>1, <4>1
    <3>3. CASE ClaimBorrower(w)
      <4>1. dial'[w].pc \in {"create", "freeAgent"}
        BY <2>1, <3>3 DEF ClaimBorrower, Dials
      <4>2. QED
        BY <2>5, <3>1, <4>1
    <3>4. QED
      BY <2>6, <3>2, <3>3
  <2>7. CASE GiveAgentBack(w) \/ FreeBorrower(w) \/ Abandon(w)
    BY <2>1, <2>5, <2>7
    DEF GiveAgentBack, FreeBorrower, Abandon, EndDial, IdleDial, Dials,
        providerVars
  <2>8. CASE Create(w) \/ Reserve(w) \/ FailCall(w) \/ FreeAgent(w)
    BY <2>1, <2>5, <2>8
    DEF Create, Reserve, FailCall, FreeAgent, Goto, GotoRelease, Dials,
        providerVars
  <2>9. CASE Attach(w)
    <3>1. asked' = asked
      BY <2>9 DEF Attach, Hangup, providerVars
    <3>2. CASE EndDial(w)
      <4>1. dial'[w].pc = "idle"
        BY <2>1, <3>2 DEF EndDial, IdleDial
      <4>2. QED
        BY <2>5, <3>1, <4>1
    <3>3. CASE Goto(w, "failCall")
      <4>1. dial'[w].pc = "failCall"
        BY <2>1, <3>3 DEF Goto, Dials
      <4>2. QED
        BY <2>5, <3>1, <4>1
    <3>4. QED
      BY <2>9, <3>2, <3>3 DEF Attach
  <2>10. CASE CancelDial(w)
    BY <2>1, <2>5, <2>10 DEF CancelDial, IdleDial, providerVars
  <2>11. QED
    BY <1>2, <2>3, <2>4, <2>6, <2>7, <2>8, <2>9, <2>10
    DEF Dialer, DialStep, Cancelled
<1>3. CASE Crash
  <2>1. asked' = asked /\ \A v \in Workers : dial'[v].pc = "idle"
    BY <1>3 DEF Crash, ProviderRestarts, IdleDial
  <2>2. QED
    BY <2>1, NobodyNewDials DEF AboutToDial
<1>4. CASE \E l \in 1..MaxLines : Processor(l)
  BY <1>1, <1>4
  DEF Processor, EventStep, ReceiveEvent, ApplyCall, ReadAgent,
      MoveAgent, SettleBorrower, Finish, Deliver, MoveHandler, LineEnds,
      allocatorVars
<1>5. CASE Recovery
  BY <1>1, <1>5
  DEF Recovery, RecoveryStep, NextSweep, CancelBoundCall, SweepBorrower,
      ReconcileCall, ReleaseStuckWrapUp, FreeBoundBorrower, ReclaimAgent,
      TakeOffline, FreeOrphanAgent, FreeOrphanBorrower, allocatorVars,
      providerVars
<1>6. CASE \/ \E a \in Agents : Session(a) \/ WrapUpEnds(a)
           \/ \E b \in Borrowers : Backoff(b)
           \/ Tick
           \/ UNCHANGED vars
  BY <1>1, <1>6
  DEF Session, WrapUpEnds, Backoff, Tick, allocatorVars, providerVars, vars
<1>7. CASE DatabaseError
  BY <1>1, <1>2, <1>7
  DEF DatabaseError, HandlerFails, HandlerKillsDelivery, DeliveryDies,
      Deliver, MoveHandler, SweepFails, allocatorVars, providerVars
<1>8. QED
  BY <1>2, <1>3, <1>4, <1>5, <1>6, <1>7 DEF Next

(* Events keep the call they are about, and what they made of it.          *)
LEMMA NoNewEvent ==
  ASSUME CallsInv, [Next]_vars,
         \A l \in 1..MaxLines :
           \/ Handler(l)' = Handler(l)
           \/ Handler(l)'.pc = "idle"
           \/ /\ Handler(l).pc \notin {"idle", "applyCall"}
              /\ Handler(l)'.call = Handler(l).call
              /\ Handler(l)'.target = Handler(l).target
  PROVE  EventsOK'
<1> SUFFICES ASSUME NEW l \in 1..MaxLines, Handler(l)'.pc # "idle"
             PROVE  /\ Initiated(Handler(l).call)'
                    /\ Handler(l)'.pc # "applyCall"
                         /\ IsTerminal(Handler(l)'.target) =>
                           calls'[Handler(l)'.call].state = Handler(l)'.target
  BY DEF EventsOK
<1> DEFINE k == Handler(l).call
<1>1. /\ Handler(l)'.call = k /\ Handler(l)'.target = Handler(l).target
      /\ Handler(l).pc # "idle"
      /\ Handler(l)'.pc # "applyCall" => Handler(l).pc # "applyCall"
  OBVIOUS
<1>2. k \in CallKeys
  BY <1>1, BusyHandlerOK DEF CallsInv, IInv, ProcessorInv
<1>3. /\ Initiated(k)
      /\ Handler(l).pc # "applyCall" /\ IsTerminal(Handler(l).target) =>
           calls[k].state = Handler(l).target
  BY <1>1 DEF CallsInv, EventsOK
<1> HIDE DEF k
<1>4. \A j \in CallKeys :
        /\ Initiated(j) => calls'[j].state \in CallStates \ {"QUEUED", "RESERVED"}
        /\ IsTerminal(calls[j].state) => calls'[j].state = calls[j].state
  BY CallsKept DEF Initiated
<1>5. calls'[k].state \in CallStates \ {"QUEUED", "RESERVED"}
  BY <1>2, <1>3, <1>4
<1>6. QED
  BY <1>1, <1>2, <1>3, <1>4, <1>5 DEF Initiated

LEMMA EventsKept ==
  ASSUME CallsInv, [Next]_vars
  PROVE  EventsOK'
<1>1. lines \in [1..MaxLines -> Lines]
  BY DEF CallsInv, IInv, ProviderOK, ProviderTypeOK
<1>2. CASE UNCHANGED lines
  BY <1>2, NoNewEvent DEF Handler
<1>3. IdleHandler.pc = "idle"
  BY DEF IdleHandler
<1>4. ASSUME NEW w \in Workers, Dialer(w)
      PROVE  EventsOK'
  <2>1. CASE Originate(w) \/ Attach(w)
    <3>1. \A l \in 1..MaxLines :
            lines'[l] = lines[l] \/ lines'[l].handler = IdleHandler
      <4>1. CASE \E k : Accept(k) \/ Refuse(k)
        <5>1. CASE UNCHANGED lines
          BY <5>1
        <5>2. ASSUME NEW d \in Deliveries, NEW k,
                     lines' = [lines EXCEPT ![nextLine + 1] =
                       [key |-> k, status |-> "ACTIVE", script |-> d[1],
                        final |-> d[2], handler |-> IdleHandler]]
              PROVE  \A l \in 1..MaxLines :
                       lines'[l] = lines[l] \/ lines'[l].handler = IdleHandler
          BY <1>1, <5>2
        <5>3. QED
          BY <4>1, <5>1, <5>2 DEF Accept, Refuse
      <4>2. CASE UNCHANGED lines \/ \E l : Hangup(l)
        BY <1>1, <4>2 DEF Hangup, Closed, NoLine
      <4>3. QED
        BY <2>1, <4>1, <4>2 DEF Originate, Attach, providerVars
    <3>2. QED
      BY <1>3, <3>1, NoNewEvent DEF Handler
  <2>2. QED
    BY <1>2, <1>4, <2>1
    DEF Dialer, DialStep, ClaimAgent, ClaimBorrower, GiveAgentBack, Create,
        Reserve, Initiate, MarkDialing, Bind, FailCall, FreeAgent,
        FreeBorrower, providerVars
<1>5. ASSUME NEW l \in 1..MaxLines, Processor(l)
      PROVE  EventsOK'
  <2>1. lines[l] \in Lines
    BY <1>1
  <2>2. CASE /\ \A m \in (1..MaxLines) \ {l} : lines'[m] = lines[m]
             /\ \/ lines'[l].handler.pc = "idle"
                \/ /\ Handler(l).pc \notin {"idle", "applyCall"}
                   /\ lines'[l].handler.call = Handler(l).call
                   /\ lines'[l].handler.target = Handler(l).target
    BY <2>2, NoNewEvent DEF Handler
  <2>3. ASSUME NEW k \in CallKeys, NEW handler,
               \A m \in (1..MaxLines) \ {l} : Handler(m)' = Handler(m),
               Handler(l)' = handler, handler.call = k,
               calls'[k].state \in CallStates \ {"QUEUED", "RESERVED"},
               \/ handler.pc = "applyCall"
               \/ calls'[k].state = handler.target
        PROVE  EventsOK'
    <3>1. ASSUME NEW m \in (1..MaxLines) \ {l}, Handler(m)'.pc # "idle"
          PROVE  /\ Initiated(Handler(m).call)'
                 /\ Handler(m)'.pc # "applyCall"
                      /\ IsTerminal(Handler(m)'.target) =>
                        calls'[Handler(m)'.call].state = Handler(m)'.target
      <4>1. Handler(m)' = Handler(m)
        BY <2>3
      <4>2. Handler(m).call \in CallKeys
        BY <3>1, <4>1, BusyHandlerOK DEF CallsInv, IInv, ProcessorInv
      <4>3. QED
        BY <3>1, <4>1, <4>2, CallsKept DEF CallsInv, EventsOK, Initiated
    <3>2. QED
      BY <2>3, <3>1 DEF EventsOK, Initiated
  <2>4. CASE ReceiveEvent(l)
    <3>1. CASE Deliver(l, IdleHandler)
      BY <1>1, <1>3, <2>2, <3>1 DEF Deliver
    <3>2. ASSUME NEW k \in FindByProviderCallId(l),
                 Deliver(l, [IdleHandler EXCEPT !.pc = "applyCall",
                                                !.call = k,
                                                !.target = NextEvent(l).type])
          PROVE  EventsOK'
      <4> DEFINE handler == [IdleHandler EXCEPT !.pc = "applyCall",
                                                !.call = k,
                                                !.target = NextEvent(l).type]
      <4>1. handler.call = k /\ handler.pc = "applyCall"
        BY DEF IdleHandler
      <4>2. k \in CallKeys /\ Initiated(k)
        BY StoreAssumption DEF FindByProviderCallId, CallsInv, AttachedOK
      <4>3. calls' = calls
        BY <2>4 DEF ReceiveEvent, storeVars
      <4> HIDE DEF handler
      <4>4. /\ \A m \in (1..MaxLines) \ {l} : Handler(m)' = Handler(m)
            /\ Handler(l)' = handler
        BY <1>1, <3>2 DEF Deliver, Handler, handler
      <4>5. QED
        BY <2>3, <4>1, <4>2, <4>3, <4>4 DEF Initiated
    <3>3. QED
      BY <2>4, <3>1, <3>2 DEF ReceiveEvent
  <2>5. CASE ApplyCall(l)
    <3> DEFINE k == Handler(l).call
               handler == [Handler(l) EXCEPT !.pc = "readAgent"]
    <3>1. /\ k \in CallKeys /\ Initiated(k)
          /\ Handler(l).target \in EventTypes
          /\ Handler(l) \in Handlers
      BY <2>5, BusyHandlerOK, HandlerInvOK
      DEF ApplyCall, CallsInv, IInv, ProcessorInv, EventsOK
    <3>2. CASE TransitionCallMatches(k, Handler(l).target)
      <4>1. calls'[k].state = Handler(l).target
        BY <2>5, <3>1, <3>2
        DEF ApplyCall, TransitionCall, CallsInv, IInv, StoreOK, CallsOK,
            CallDocuments
      <4>2. Handler(l).target \in CallStates \ {"QUEUED", "RESERVED"}
        BY <3>1 DEF EventTypes, CallStates
      <4>3. handler.call = k /\ handler.target = Handler(l).target
        BY <3>1 DEF Handlers
      <4>4. /\ \A m \in (1..MaxLines) \ {l} : Handler(m)' = Handler(m)
            /\ Handler(l)' = handler
        BY <1>1, <2>5, <3>2 DEF ApplyCall, MoveHandler, Handler
      <4> HIDE DEF k, handler
      <4>5. QED
        BY <2>3, <3>1, <4>1, <4>2, <4>3, <4>4
    <3>3. CASE ~TransitionCallMatches(k, Handler(l).target)
      BY <1>1, <1>3, <2>2, <2>5, <3>3 DEF ApplyCall, MoveHandler
    <3>4. QED
      BY <3>2, <3>3
  <2>6. CASE ReadAgent(l) \/ MoveAgent(l)
    <3>1. Handler(l) \in Handlers
      BY HandlerInvOK DEF CallsInv, IInv, ProcessorInv
    <3>2. \/ AfterAgent(l).pc = "idle"
          \/ /\ AfterAgent(l).call = Handler(l).call
             /\ AfterAgent(l).target = Handler(l).target
      BY <1>3, <3>1 DEF AfterAgent, Handlers
    <3>3. QED
      <4>1. ASSUME NEW handler, MoveHandler(l, handler),
                   \/ handler.pc = "idle"
                   \/ /\ handler.call = Handler(l).call
                      /\ handler.target = Handler(l).target
            PROVE  EventsOK'
        <5>1. /\ lines'[l].handler = handler
              /\ \A m \in (1..MaxLines) \ {l} : lines'[m] = lines[m]
          BY <1>1, <2>1, <4>1 DEF MoveHandler, Lines
        <5>2. Handler(l).pc \notin {"idle", "applyCall"}
          BY <2>6 DEF ReadAgent, MoveAgent
        <5>3. QED
          BY <2>2, <4>1, <5>1, <5>2
      <4>2. CASE MoveHandler(l, AfterAgent(l))
        BY <3>2, <4>1, <4>2
      <4>3. CASE ReadAgent(l) /\ ~MoveHandler(l, AfterAgent(l))
        <5> DEFINE handler ==
              [Handler(l) EXCEPT !.pc = "moveAgent",
                 !.seenState = agents[HandlerAgent(l)].state,
                 !.seenVersion = agents[HandlerAgent(l)].version]
        <5>1. MoveHandler(l, handler)
          BY <4>3 DEF ReadAgent
        <5>2. /\ handler.call = Handler(l).call
              /\ handler.target = Handler(l).target
          BY <3>1 DEF Handlers
        <5> HIDE DEF handler
        <5>3. QED
          BY <4>1, <5>1, <5>2
      <4>4. QED
        BY <2>6, <4>2, <4>3 DEF MoveAgent
  <2>7. CASE SettleBorrower(l) \/ Finish(l)
    <3>1. CASE MoveHandler(l, IdleHandler)
      <4>1. /\ lines'[l].handler = IdleHandler
            /\ \A m \in (1..MaxLines) \ {l} : lines'[m] = lines[m]
        BY <1>1, <2>1, <3>1 DEF MoveHandler, Lines
      <4>2. QED
        BY <1>3, <2>2, <4>1
    <3>2. CASE LineEnds(l)
      <4>1. /\ lines'[l].handler = IdleHandler
            /\ \A m \in (1..MaxLines) \ {l} : lines'[m] = lines[m]
        BY <1>1, <3>2 DEF LineEnds, Closed, NoLine
      <4>2. QED
        BY <1>3, <2>2, <4>1
    <3>3. QED
      BY <2>7, <3>1, <3>2 DEF SettleBorrower, Finish
  <2>8. QED
    BY <1>5, <2>4, <2>5, <2>6, <2>7 DEF Processor, EventStep
<1>6. CASE DatabaseError
  <2>1. CASE UNCHANGED lines
    BY <1>2, <2>1
  <2>2. ASSUME NEW l \in 1..MaxLines,
               HandlerFails(l) \/ HandlerKillsDelivery(l)
        PROVE  \A m \in 1..MaxLines :
                 lines'[m] = lines[m] \/ lines'[m].handler = IdleHandler
    <3>1. CASE Deliver(l, IdleHandler) \/ MoveHandler(l, IdleHandler)
      BY <1>1, <3>1 DEF Deliver, MoveHandler, Lines
    <3>2. CASE DeliveryDies(l)
      BY <1>1, <3>2 DEF DeliveryDies, Closed, NoLine
    <3>3. QED
      BY <2>2, <3>1, <3>2 DEF HandlerFails, HandlerKillsDelivery
  <2>3. QED
    BY <1>3, <1>6, <2>1, <2>2, NoNewEvent
    DEF DatabaseError, Abandon, SweepFails, providerVars, Handler
<1>7. CASE Crash
  BY <1>3, <1>7, NoNewEvent DEF Crash, ProviderRestarts, NoLine, Handler
<1>8. CASE Recovery
  BY <1>2, <1>8
  DEF Recovery, RecoveryStep, NextSweep, CancelBoundCall, SweepBorrower,
      ReconcileCall, ReleaseStuckWrapUp, FreeBoundBorrower, ReclaimAgent,
      TakeOffline, FreeOrphanAgent, FreeOrphanBorrower, providerVars
<1>9. QED
  BY <1>2, <1>4, <1>5, <1>6, <1>7, <1>8
  DEF Next, Cancelled, CancelDial, Session, WrapUpEnds, Backoff, Tick,
      providerVars, vars

(* What a sweep has still to do, it found when it began.                   *)
LEMMA SweepsKept ==
  ASSUME CallsInv, [Next]_vars
  PROVE  SweepsOK'
<1>1. SweepsOK /\ sweep \in [stage : Stages, todo : SUBSET Items,
                             step : SweepSteps, item : Items \cup {None}]
  BY DEF CallsInv, IInv, RecoveryOK, RecoveryTypeOK
<1>2. \A i \in sweep.todo :
        sweep.stage = "orphans" => i.call \in CallKeys
  BY DEF CallsInv, IInv, RecoveryOK, SweepOK, ItemsOf, AgentStages,
         CallSnapshots
<1>3. CASE /\ sweep'.stage = sweep.stage
           /\ sweep'.todo \subseteq sweep.todo
           /\ sweep'.step # "next" => sweep'.item \in sweep'.todo
  <2>1. \A i \in sweep.todo : sweep.stage = "orphans" /\ i.line # None =>
          calls'[i.call].state \in CallStates \ {"QUEUED", "RESERVED"}
    BY <1>1, <1>2, CallsKept DEF SweepsOK, Initiated
  <2>2. QED
    BY <1>1, <1>3, <2>1 DEF SweepsOK, Initiated
<1>4. CASE UNCHANGED sweep
  BY <1>1, <1>3, <1>4 DEF SweepsOK
<1>5. CASE sweep' = Asleep
  BY <1>5 DEF SweepsOK, Asleep
<1>6. CASE NextSweep
  <2>1. ASSUME NEW s, NEW items, s \in Stages \ {"asleep"},
               BeginSweep(s, items), items \subseteq Found(s)
        PROVE  SweepsOK'
    <3>1. sweep' = [stage |-> s, todo |-> items, step |-> "next",
                    item |-> None]
      BY <2>1 DEF BeginSweep, Asleep
    <3>2. CASE s = "orphans"
      <4>1. Found(s) = {[call |-> k, line |-> calls[k].line] : k \in FindStaleCalls}
        BY <3>2 DEF Found
      <4>2. \A i \in items : i.line # None => Initiated(i.call)
        BY <2>1, <4>1 DEF FindStaleCalls, CallsInv, AttachedOK
      <4>3. calls' = calls
        BY <1>6 DEF NextSweep, storeVars
      <4>4. QED
        BY <3>1, <3>2, <4>2, <4>3 DEF SweepsOK, Initiated
    <3>3. CASE s = "agentLeases"
      <4>1. Found(s) = {Snapshot(a) : a \in ExpiredAgentLeases}
        BY <3>3 DEF Found
      <4>2. \A i \in items : i.state \in AllowedSources("AVAILABLE", "RECOVERY")
        BY <2>1, <4>1 DEF ExpiredAgentLeases, Snapshot
      <4>3. QED
        BY <3>1, <3>3, <4>2 DEF SweepsOK
    <3>4. QED
      BY <3>1, <3>2, <3>3 DEF SweepsOK
  <2>2. \A s \in SweepsAfter[sweep.stage] : s \in Stages \ {"asleep"}
    BY <1>1 DEF Stages, SweepsAfter
  <2>3. QED
    BY <1>5, <1>6, <2>1, <2>2 DEF NextSweep, Stages
<1>7. ASSUME NEW item \in sweep.todo,
             \/ CancelBoundCall(item) \/ SweepBorrower(item)
             \/ ReconcileCall(item) \/ ReleaseStuckWrapUp(item)
      PROVE  SweepsOK'
  BY <1>1, <1>3, <1>7
  DEF CancelBoundCall, SweepBorrower, ReconcileCall, ReleaseStuckWrapUp,
      Step, ItemDone
<1>8. CASE \/ FreeBoundBorrower \/ ReclaimAgent \/ TakeOffline
           \/ FreeOrphanAgent \/ FreeOrphanBorrower
  BY <1>1, <1>3, <1>8
  DEF FreeBoundBorrower, ReclaimAgent, TakeOffline, FreeOrphanAgent,
      FreeOrphanBorrower, Step, ItemDone, At, SweepsOK
<1>9. CASE SweepFails
  BY <1>9 DEF SweepFails, SweepsOK, Asleep
<1>10. QED
  BY <1>4, <1>5, <1>6, <1>7, <1>8, <1>9
  DEF Next, Dialer, Cancelled, Processor, Recovery, RecoveryStep, Session,
      WrapUpEnds, Backoff, Tick, DatabaseError, Crash, vars

-----------------------------------------------------------------------------
(* Every write to the borrowers collection.  Only an event that ended an   *)
(* answered call makes a borrower CONTACTED.                               *)
Reached(b) ==
  \E k \in CallKeys :
    k.borrower = b /\ calls[k].state = "COMPLETED" /\ calls[k].answered

BorrowerWrite(b) ==
  \/ TryReserveBorrower(b, epoch)
  \/ \E worker, outcome :
       /\ \/ outcome \in {"RELEASED", "RETRY"}
          \/ outcome = "CONTACTED" /\ Reached(b)
       /\ ReleaseBorrower(b, worker, outcome)
  \/ ReclaimBorrower(b)
  \/ BackoffElapses(b)

BorrowersWritten ==
  UNCHANGED borrowers \/ TickStore \/ \E b \in Borrowers : BorrowerWrite(b)

LEMMA ReleaseWrites ==
  ASSUME NEW b \in Borrowers, NEW worker, NEW outcome,
         \/ outcome \in {"RELEASED", "RETRY"}
         \/ outcome = "CONTACTED" /\ Reached(b),
         ReleaseBorrower(b, worker, outcome)
  PROVE  BorrowersWritten
<1>1. BorrowerWrite(b)
  BY DEF BorrowerWrite
<1>2. QED
  BY <1>1 DEF BorrowersWritten

LEMMA BorrowersAreWritten ==
  ASSUME CallsInv, [Next]_vars
  PROVE  BorrowersWritten
<1>1. CASE UNCHANGED borrowers
  BY <1>1 DEF BorrowersWritten
<1>2. ASSUME NEW w \in Workers, Dialer(w)
      PROVE  BorrowersWritten
  <2>1. CASE ClaimBorrower(w)
    BY <2>1 DEF ClaimBorrower, BorrowersWritten, BorrowerWrite
  <2>2. CASE FreeBorrower(w)
    <3>1. /\ dial[w].borrower \in Borrowers
          /\ dial[w].outcome \in {"RELEASED", "RETRY"}
      BY <2>2 DEF FreeBorrower, CallsInv, IInv, AllocatorOK, AllocatorTypeOK,
                  DialOK, Dials, Outcomes
    <3>2. QED
      <4>1. ReleaseBorrower(dial[w].borrower, epoch, dial[w].outcome)
        BY <2>2 DEF FreeBorrower
      <4>2. QED
        BY <3>1, <4>1, ReleaseWrites
  <2>3. QED
    BY <1>1, <1>2, <2>1, <2>2
    DEF Dialer, DialStep, ClaimAgent, GiveAgentBack, Create, Reserve,
        Initiate, MarkDialing, Bind, Originate, Attach, FailCall, FreeAgent,
        storeVars
<1>3. ASSUME NEW l \in 1..MaxLines, Processor(l)
      PROVE  BorrowersWritten
  <2>1. CASE SettleBorrower(l)
    <3> DEFINE k == Handler(l).call
               answered == Handler(l).target = "COMPLETED" /\ calls[k].answered
               outcome == IF answered THEN "CONTACTED" ELSE "RETRY"
    <3>1. k \in CallKeys /\ k.borrower \in Borrowers
      BY <2>1, BusyHandlerOK
      DEF SettleBorrower, CallsInv, IInv, ProcessorInv
    <3>2. answered => calls[k].state = "COMPLETED"
      BY <2>1
      DEF SettleBorrower, CallsInv, EventsOK, IsTerminal, TerminalCallStates
    <3>3. answered => Reached(k.borrower)
      BY <3>1, <3>2 DEF Reached
    <3> HIDE DEF answered
    <3>4. ReleaseBorrower(k.borrower, calls[k].by, outcome)
      BY <2>1 DEF SettleBorrower, answered
    <3>5. \/ outcome \in {"RELEASED", "RETRY"}
          \/ outcome = "CONTACTED" /\ Reached(k.borrower)
      BY <3>3
    <3> HIDE DEF k, outcome
    <3>6. QED
      BY <3>1, <3>4, <3>5, ReleaseWrites
  <2>2. QED
    BY <1>1, <1>3, <2>1
    DEF Processor, EventStep, ReceiveEvent, ApplyCall, ReadAgent, MoveAgent,
        Finish, storeVars
<1>4. CASE Recovery
  <2>1. CASE FreeBoundBorrower \/ FreeOrphanBorrower
    <3>1. sweep.item.call \in CallKeys
      BY <2>1 DEF FreeBoundBorrower, FreeOrphanBorrower, At, CallsInv, IInv,
                  RecoveryOK, SweepOK
    <3>2. sweep.item.call.borrower \in Borrowers
      BY <3>1 DEF CallKeys
    <3>3. QED
      <4> DEFINE k == sweep.item.call
      <4>1. ReleaseBorrower(k.borrower, calls[k].by, "RETRY")
        BY <2>1 DEF FreeBoundBorrower, FreeOrphanBorrower
      <4> HIDE DEF k
      <4>2. QED
        BY <3>2, <4>1, ReleaseWrites DEF k
  <2>2. ASSUME NEW b \in sweep.todo, SweepBorrower(b)
        PROVE  BorrowersWritten
    <3>1. b \in Borrowers
      BY <2>2 DEF SweepBorrower, At, CallsInv, IInv, RecoveryOK, SweepOK,
                  ItemsOf, AgentStages
    <3>2. QED
      BY <2>2, <3>1 DEF SweepBorrower, BorrowersWritten, BorrowerWrite
  <2>3. QED
    BY <1>1, <1>4, <2>1, <2>2
    DEF Recovery, RecoveryStep, NextSweep, CancelBoundCall, ReconcileCall,
        ReleaseStuckWrapUp, ReclaimAgent, TakeOffline, FreeOrphanAgent,
        storeVars
<1>5. ASSUME NEW b \in Borrowers, Backoff(b)
      PROVE  BorrowersWritten
  BY <1>5 DEF Backoff, BorrowersWritten, BorrowerWrite
<1>6. CASE Tick
  BY <1>6 DEF Tick, BorrowersWritten
<1>7. QED
  BY <1>1, <1>2, <1>3, <1>4, <1>5, <1>6
  DEF Next, Cancelled, CancelDial, Session, SessionStep, WrapUpEnds, Login,
      Logout, Pause, Resume, AgentAction, FallSilent, Heartbeat,
      DatabaseError, Abandon, HandlerFails, HandlerKillsDelivery, SweepFails,
      Crash, storeVars, vars

(* Being settled is for good, and CONTACTED takes a call that reached the  *)
(* borrower.                                                               *)
LEMMA BorrowersAdvance ==
  ASSUME BorrowersOK, BorrowersWritten, NEW b \in Borrowers
  PROVE  /\ borrowers[b].status \in {"CONTACTED", "EXHAUSTED"} =>
              borrowers'[b].status = borrowers[b].status
         /\ borrowers'[b].status = "CONTACTED" =>
              borrowers[b].status = "CONTACTED" \/ Reached(b)
<1>1. /\ borrowers \in [Borrowers -> BorrowerDocuments]
      /\ borrowers[b] \in BorrowerDocuments
  BY DEF BorrowersOK
<1>2. CASE UNCHANGED borrowers
  BY <1>2
<1>3. CASE TickStore
  <2>1. borrowers'[b] = [borrowers[b] EXCEPT !.lease = Elapsed(@)]
    BY <1>3 DEF TickStore
  <2>2. QED
    BY <1>1, <2>1 DEF BorrowerDocuments
<1>4. ASSUME NEW c \in Borrowers, BorrowerWrite(c)
      PROVE  /\ borrowers[b].status \in {"CONTACTED", "EXHAUSTED"} =>
                  borrowers'[b].status = borrowers[b].status
             /\ borrowers'[b].status = "CONTACTED" =>
                  borrowers[b].status = "CONTACTED" \/ Reached(b)
  <2>1. CASE TryReserveBorrower(c, epoch)
    BY <1>1, <2>1
    DEF TryReserveBorrower, TryReserveBorrowerMatches, BorrowerDocuments
  <2>2. ASSUME NEW worker, NEW outcome,
               \/ outcome \in {"RELEASED", "RETRY"}
               \/ outcome = "CONTACTED" /\ Reached(c),
               ReleaseBorrower(c, worker, outcome)
        PROVE  /\ borrowers[b].status \in {"CONTACTED", "EXHAUSTED"} =>
                    borrowers'[b].status = borrowers[b].status
               /\ borrowers'[b].status = "CONTACTED" =>
                    borrowers[b].status = "CONTACTED" \/ Reached(b)
    <3>1. CASE ~(c = b /\ ReleaseBorrowerMatches(c, worker))
      BY <1>1, <2>2, <3>1 DEF ReleaseBorrower
    <3>2. CASE c = b /\ ReleaseBorrowerMatches(c, worker)
      <4>1. borrowers'[b] = ReleasedBorrower(borrowers[b], outcome)
        BY <1>1, <2>2, <3>2 DEF ReleaseBorrower
      <4>2. borrowers[b].status = "RESERVED"
        BY <3>2 DEF ReleaseBorrowerMatches
      <4>3. CASE outcome \in {"RELEASED", "RETRY"}
        <5>1. ReleasedBorrower(borrowers[b], outcome).status # "CONTACTED"
          BY <1>1, <4>3 DEF ReleasedBorrower, Unreserved, BorrowerDocuments
        <5>2. QED
          BY <4>1, <4>2, <5>1
      <4>4. QED
        BY <2>2, <3>2, <4>2, <4>3
    <3>3. QED
      BY <3>1, <3>2
  <2>3. CASE ReclaimBorrower(c)
    BY <1>1, <2>3
    DEF ReclaimBorrower, ExpiredBorrowerLeases, Unreserved, BorrowerDocuments
  <2>4. CASE BackoffElapses(c)
    BY <1>1, <2>4 DEF BackoffElapses, BorrowerDocuments
  <2>5. QED
    BY <1>4, <2>1, <2>2, <2>3, <2>4 DEF BorrowerWrite
<1>5. QED
  BY <1>2, <1>3, <1>4 DEF BorrowersWritten

LEMMA ContactedKept ==
  ASSUME CallsInv, [Next]_vars
  PROVE  ContactedBorrowerWasReached'
<1> SUFFICES ASSUME NEW b \in Borrowers, borrowers'[b].status = "CONTACTED"
             PROVE  \E k \in CallKeys :
                      /\ k.borrower = b
                      /\ calls'[k].state = "COMPLETED" /\ calls'[k].answered
  BY DEF ContactedBorrowerWasReached
<1>1. Reached(b)
  BY BorrowersAreWritten, BorrowersAdvance
  DEF CallsInv, IInv, StoreOK, ContactedBorrowerWasReached, Reached
<1>2. \A k \in CallKeys : calls[k].state = "COMPLETED" /\ calls[k].answered =>
        calls'[k].state = "COMPLETED" /\ calls'[k].answered
  BY CallsKept DEF IsTerminal, TerminalCallStates
<1>3. QED
  BY <1>1, <1>2 DEF Reached

-----------------------------------------------------------------------------

LEMMA CallsInvInit == Init => CallsInv
<1> SUFFICES ASSUME Init PROVE CallsInv
  OBVIOUS
<1>1. IInv
  BY InitOK
<1>2. \A w \in Workers : dial[w].pc = "idle"
  BY DEF Init, AllocatorInit, IdleDial
<1>3. DialersOK
  BY <1>2 DEF DialersOK, OneDialPerCall, AboutToDial, Init, ProviderInit
<1>4. EventsOK
  BY DEF EventsOK, Init, ProviderInit, Handler, NoLine, IdleHandler
<1>5. AttachedOK /\ ContactedBorrowerWasReached
  BY DEF AttachedOK, ContactedBorrowerWasReached, Init, StoreInit
<1>6. SweepsOK
  BY DEF SweepsOK, Init, RecoveryInit, Asleep
<1>7. QED
  BY <1>1, <1>3, <1>4, <1>5, <1>6 DEF CallsInv

LEMMA CallsInvNext ==
  ASSUME CallsInv, [Next]_vars
  PROVE  CallsInv'
BY NextOK, DialersKept, AttachedKept, EventsKept, SweepsKept, ContactedKept
DEF CallsInv

LEMMA CallsInvariance == Spec => []CallsInv
BY CallsInvInit, CallsInvNext, PTL DEF Spec

(* The carrier is never asked twice for the same call, whatever crashes,   *)
(* cancellations and double bookings do to the workers.                    *)
THEOREM OneDial == Spec => []OneDialPerCall
<1>1. CallsInv => OneDialPerCall
  BY DEF CallsInv, DialersOK
<1>2. QED
  BY <1>1, CallsInvariance, PTL

(* Whoever counts as reached has an answered call that ended normally.     *)
THEOREM ContactedWereReached == Spec => []ContactedBorrowerWasReached
<1>1. CallsInv => ContactedBorrowerWasReached
  BY DEF CallsInv
<1>2. QED
  BY <1>1, CallsInvariance, PTL

(* Every call moves along CALL_TRANSITIONS, although no update compares    *)
(* with that table.                                                        *)
THEOREM CallsStayOnTheTable == Spec => CallsFollowTheTable
<1>1. ASSUME CallsInv, [Next]_vars
      PROVE  [\A k \in CallKeys :
                \/ calls'[k].state = calls[k].state
                \/ calls[k].state = "ABSENT" /\ calls'[k].state = "QUEUED"
                \/ calls[k].state # "ABSENT" /\
                     CanTransitionCall(calls[k].state, calls'[k].state)]_vars
  BY <1>1, CallsAreWritten, CallsAdvance
  DEF CallsInv, IInv, StoreOK, Advances
<1>2. QED
  BY <1>1, CallsInvariance, PTL DEF Spec, CallsFollowTheTable

(* A borrower who was reached or counted out stays so.                     *)
THEOREM SettledBorrowersStaySettled == Spec => SettledBorrowerStaysSettled
<1>1. ASSUME CallsInv, [Next]_vars
      PROVE  [\A b \in Borrowers :
                borrowers[b].status \in {"CONTACTED", "EXHAUSTED"} =>
                  borrowers'[b].status = borrowers[b].status]_vars
  BY <1>1, BorrowersAreWritten, BorrowersAdvance DEF CallsInv, IInv, StoreOK
<1>2. QED
  BY <1>1, CallsInvariance, PTL DEF Spec, SettledBorrowerStaysSettled

(* Nobody but the agent leaves OFFLINE or PAUSED.                          *)
AbsentStates == {"OFFLINE", "PAUSED"}

LEMMA OnlyAgentsReturn ==
  ASSUME NEW from, NEW to, NEW actor \in TransitionActors \ {"AGENT"},
         ValidTransition(from, to, actor)
  PROVE  from \notin AbsentStates \/ to \in AbsentStates
BY DEF ValidTransition, IsActorAllowed, Authorised, AbsentStates,
       TransitionActors

(* Every write to the agents collection by a task of the process.          *)
AgentWrite(a) ==
  \/ TryReserveAgent(a, epoch)
  \/ \E actor \in {"ALLOCATOR", "EVENT_PROCESSOR", "RECOVERY"} :
       \/ \E worker, target : ReleaseAgent(a, worker, target, actor)
       \/ \E from, to, version : TransitionAgent(a, from, to, actor, version)
  \/ \E k \in CallKeys : BindCall(a, epoch, k)
  \/ \E state, version :
       /\ state \in AllowedSources("AVAILABLE", "RECOVERY")
       /\ ReleaseExpiredAgentLease(a, state, version)

AgentsWritten ==
  UNCHANGED agents \/ TickStore \/ \E a \in Agents : AgentWrite(a)

LEMMA TasksLeaveAbsentAgents ==
  ASSUME AgentsOK, AgentsWritten, NEW a \in Agents,
         agents[a].state \in AbsentStates
  PROVE  agents'[a].state \in AbsentStates
<1>1. agents \in [Agents -> AgentDocuments] /\ agents[a] \in AgentDocuments
  BY DEF AgentsOK
<1>2. CASE UNCHANGED agents
  BY <1>2
<1>3. CASE TickStore
  <2>1. agents'[a] = [agents[a] EXCEPT !.lease = Elapsed(@)]
    BY <1>3 DEF TickStore
  <2>2. QED
    BY <1>1, <2>1 DEF AgentDocuments
<1>4. ASSUME NEW c \in Agents, AgentWrite(c)
      PROVE  agents'[a].state \in AbsentStates
  <2>1. CASE TryReserveAgent(c, epoch)
    BY <1>1, <2>1 DEF TryReserveAgent, TryReserveAgentMatches, AbsentStates
  <2>2. ASSUME NEW actor \in {"ALLOCATOR", "EVENT_PROCESSOR", "RECOVERY"},
               NEW worker, NEW target, ReleaseAgent(c, worker, target, actor)
        PROVE  agents'[a].state \in AbsentStates
    <3>1. CASE c = a /\ ReleaseAgentMatches(c, worker, target, actor)
      <4>1. ValidTransition(agents[a].state, target, actor)
        BY <3>1 DEF ReleaseAgentMatches, AllowedSources
      <4>2. target \in AbsentStates
        BY <4>1, OnlyAgentsReturn DEF TransitionActors
      <4>3. QED
        BY <1>1, <2>2, <3>1, <4>2 DEF ReleaseAgent, Unbound, AgentDocuments
    <3>2. QED
      BY <1>1, <2>2, <3>1 DEF ReleaseAgent
  <2>3. ASSUME NEW actor \in {"ALLOCATOR", "EVENT_PROCESSOR", "RECOVERY"},
               NEW from, NEW to, NEW version,
               TransitionAgent(c, from, to, actor, version)
        PROVE  agents'[a].state \in AbsentStates
    <3>1. CASE c = a /\ TransitionAgentMatches(c, from, to, actor, version)
      <4>1. ValidTransition(agents[a].state, to, actor)
        BY <3>1 DEF TransitionAgentMatches
      <4>2. to \in AbsentStates
        BY <4>1, OnlyAgentsReturn DEF TransitionActors
      <4>3. QED
        BY <1>1, <2>3, <3>1, <4>2 DEF TransitionAgent, AgentDocuments
    <3>2. QED
      BY <1>1, <2>3, <3>1 DEF TransitionAgent
  <2>4. ASSUME NEW k \in CallKeys, BindCall(c, epoch, k)
        PROVE  agents'[a].state \in AbsentStates
    BY <1>1, <2>4 DEF BindCall, AgentDocuments
  <2>5. ASSUME NEW state \in AllowedSources("AVAILABLE", "RECOVERY"),
               NEW version, ReleaseExpiredAgentLease(c, state, version)
        PROVE  agents'[a].state \in AbsentStates
    <3>1. state \notin AbsentStates
      <4>1. ValidTransition(state, "AVAILABLE", "RECOVERY")
        BY <2>5 DEF AllowedSources
      <4>2. QED
        BY <4>1, OnlyAgentsReturn DEF TransitionActors, AbsentStates
    <3>2. QED
      BY <1>1, <2>5, <3>1 DEF ReleaseExpiredAgentLease
  <2>6. QED
    BY <1>4, <2>1, <2>2, <2>3, <2>4, <2>5 DEF AgentWrite
<1>5. QED
  BY <1>2, <1>3, <1>4 DEF AgentsWritten

LEMMA DialerWritesAgents ==
  ASSUME IInv, NEW w \in Workers, Dialer(w)
  PROVE  AgentsWritten
<1>1. CASE UNCHANGED agents
  BY <1>1 DEF AgentsWritten
<1>2. dial[w].pc \notin {"idle"} => dial[w].agent \in Agents
  BY DEF IInv, AllocatorOK, DialOK
<1>3. CASE ClaimAgent(w)
  BY <1>3 DEF ClaimAgent, AgentsWritten, AgentWrite
<1>4. CASE GiveAgentBack(w) \/ FreeAgent(w)
  BY <1>2, <1>4 DEF GiveAgentBack, FreeAgent, AgentsWritten, AgentWrite
<1>5. CASE MarkDialing(w)
  BY <1>2, <1>5 DEF MarkDialing, AgentsWritten, AgentWrite
<1>6. CASE Bind(w)
  <2>1. DialKey(w) \in CallKeys
    BY <1>6, DialKeyOK DEF Bind, IInv
  <2>2. QED
    BY <1>2, <1>6, <2>1 DEF Bind, AgentsWritten, AgentWrite
<1>7. QED
  BY <1>1, <1>3, <1>4, <1>5, <1>6
  DEF Dialer, DialStep, ClaimBorrower, Create, Reserve, Initiate, Originate,
      Attach, FailCall, FreeBorrower, storeVars

LEMMA ProcessorWritesAgents ==
  ASSUME IInv, NEW l \in 1..MaxLines, Processor(l)
  PROVE  AgentsWritten
<1>1. CASE UNCHANGED agents
  BY <1>1 DEF AgentsWritten
<1>2. CASE MoveAgent(l)
  <2>1. HandlerAgent(l) \in Agents
    BY <1>2, BusyHandlerOK DEF MoveAgent, IInv, ProcessorInv
  <2>2. QED
    BY <1>2, <2>1 DEF MoveAgent, AgentsWritten, AgentWrite
<1>3. QED
  BY <1>1, <1>2
  DEF Processor, EventStep, ReceiveEvent, ApplyCall, ReadAgent,
      SettleBorrower, Finish, storeVars

LEMMA RecoveryWritesAgents ==
  ASSUME CallsInv, Recovery
  PROVE  AgentsWritten
<1>1. CASE UNCHANGED agents
  BY <1>1 DEF AgentsWritten
<1>2. CASE ReclaimAgent
  <2>1. /\ sweep.item.agent \in Agents
        /\ sweep.item.state \in AllowedSources("AVAILABLE", "RECOVERY")
    BY <1>2 DEF ReclaimAgent, At, CallsInv, SweepsOK, IInv, RecoveryOK,
                SweepOK, ItemsOf, AgentStages, AgentSnapshots
  <2>2. QED
    BY <1>2, <2>1 DEF ReclaimAgent, AgentsWritten, AgentWrite
<1>3. CASE TakeOffline
  <2>1. sweep.item.agent \in Agents
    BY <1>3 DEF TakeOffline, At, CallsInv, IInv, RecoveryOK, SweepOK, ItemsOf,
                AgentStages, AgentSnapshots
  <2>2. QED
    BY <1>3, <2>1 DEF TakeOffline, AgentsWritten, AgentWrite
<1>4. CASE FreeOrphanAgent
  <2>1. sweep.item.call \in CallKeys
    BY <1>4 DEF FreeOrphanAgent, At, CallsInv, IInv, RecoveryOK, SweepOK,
                ItemsOf, AgentStages, CallSnapshots
  <2>2. sweep.item.call.agent \in Agents
    BY <2>1 DEF CallKeys
  <2>3. QED
    BY <1>4, <2>2 DEF FreeOrphanAgent, AgentsWritten, AgentWrite
<1>5. ASSUME NEW item \in sweep.todo, ReleaseStuckWrapUp(item)
      PROVE  AgentsWritten
  <2>1. item.agent \in Agents
    BY <1>5 DEF ReleaseStuckWrapUp, At, CallsInv, IInv, RecoveryOK, SweepOK,
                ItemsOf, AgentStages, AgentSnapshots
  <2>2. QED
    BY <1>5, <2>1 DEF ReleaseStuckWrapUp, AgentsWritten, AgentWrite
<1>6. QED
  BY <1>1, <1>2, <1>3, <1>4, <1>5
  DEF Recovery, RecoveryStep, NextSweep, CancelBoundCall, SweepBorrower,
      ReconcileCall, FreeBoundBorrower, FreeOrphanBorrower, storeVars

(* No late event, release, sweep or worker brings an absent agent back.    *)
THEOREM AbsentAgentsStayAbsent == Spec => AbsentAgentStaysAbsent
<1> DEFINE Stays ==
      \A a \in Agents :
        (/\ agents[a].state \in {"OFFLINE", "PAUSED"}
         /\ agents'[a].state \notin {"OFFLINE", "PAUSED"})
          => UNCHANGED <<dial, lines, sweep>>
<1>1. ASSUME CallsInv, [Next]_vars
      PROVE  [Stays]_vars
  <2>1. CASE UNCHANGED <<dial, lines, sweep>>
    BY <2>1
  <2>2. CASE AgentsWritten
    <3>1. AgentsOK
      BY <1>1 DEF CallsInv, IInv, StoreOK
    <3>2. QED
      BY <2>2, <3>1, TasksLeaveAbsentAgents DEF AbsentStates
  <2>3. CASE UNCHANGED agents
    BY <2>3
  <2>4. CASE \/ \E w \in Workers : Dialer(w)
             \/ \E l \in 1..MaxLines : Processor(l)
             \/ Recovery
    <3>1. IInv
      BY <1>1 DEF CallsInv
    <3>2. QED
      BY <1>1, <2>2, <2>4, <3>1, DialerWritesAgents, ProcessorWritesAgents,
         RecoveryWritesAgents
  <2>5. CASE \E w \in Workers : Cancelled(w)
    BY <2>3, <2>5 DEF Cancelled, CancelDial, storeVars
  <2>6. CASE \/ \E a \in Agents : Session(a) \/ WrapUpEnds(a)
             \/ \E b \in Borrowers : Backoff(b)
             \/ Tick
    BY <2>1, <2>6
    DEF Session, WrapUpEnds, Backoff, Tick, allocatorVars, providerVars
  <2>7. CASE DatabaseError \/ Crash
    BY <2>3, <2>7
    DEF DatabaseError, Abandon, HandlerFails, HandlerKillsDelivery,
        SweepFails, Crash, storeVars
  <2>8. QED
    BY <1>1, <2>4, <2>5, <2>6, <2>7 DEF Next
<1>2. QED
  BY <1>1, CallsInvariance, PTL DEF Spec, AbsentAgentStaysAbsent

=============================================================================
