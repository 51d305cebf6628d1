----------------------------- MODULE TaskProofs -----------------------------
(***************************************************************************)
(* Every step of a dialer worker, of the event processor and of the        *)
(* recovery worker keeps the store, the carrier and its own locals well    *)
(* formed.                                                                 *)
(***************************************************************************)
EXTENDS CallAllocator, EventProcessor, RecoveryWorker, StoreProofs

-----------------------------------------------------------------------------
(***************************************************************************)
(* A dialer worker.                                                        *)
(***************************************************************************)

(* What a worker has in hand by the time it gets to each place in _dial.   *)
(* The attempt is within MAX_CALL_ATTEMPTS, or the call it names would not *)
(* be one: that is where the limit kept by the borrowers is needed.        *)
DialOK(d) ==
  /\ d \in Dials
  /\ d.pc # "idle" => d.agent \in Agents
  /\ d.pc \notin {"idle", "claimBorrower"} =>
       d.borrower \in Borrowers /\ d.attempt \in 1..MaxAttempts
  /\ d.pc = "attach" => d.line \in 1..MaxLines

AllocatorOK ==
  /\ AllocatorTypeOK
  /\ \A w \in Workers : DialOK(dial[w])

LEMMA IdleAllocatorOK ==
  AllocatorOK /\ UNCHANGED allocatorVars => AllocatorOK'
BY DEF AllocatorOK, AllocatorTypeOK, allocatorVars

-----------------------------------------------------------------------------

LEMMA DialUpdateOK ==
  ASSUME AllocatorOK, NEW w \in Workers, NEW d, DialOK(d),
         dial' = [dial EXCEPT ![w] = d], UNCHANGED epoch
  PROVE  AllocatorOK'
BY DEF AllocatorOK, AllocatorTypeOK, DialOK

LEMMA IdleDialOK ==
  /\ IdleDial \in Dials /\ IdleDial.pc = "idle"
  /\ \A stopping \in BOOLEAN : DialOK([IdleDial EXCEPT !.stopping = stopping])
<1>1. 0 \in 0..MaxAttempts
  BY StoreAssumption
<1>2. IdleDial \in Dials /\ IdleDial.pc = "idle"
  BY <1>1 DEF IdleDial, Dials, DialPcs, Outcomes
<1>3. QED
  BY <1>2 DEF DialOK, Dials

LEMMA AllocatorInitOK == AllocatorInit => AllocatorOK
BY IdleDialOK
DEF AllocatorInit, AllocatorOK, AllocatorTypeOK, DialOK, WorkerIds

LEMMA EndDialOK ==
  ASSUME AllocatorOK, NEW w \in Workers, EndDial(w), UNCHANGED epoch
  PROVE  AllocatorOK'
<1>1. dial[w].stopping \in BOOLEAN
  BY DEF AllocatorOK, AllocatorTypeOK, Dials
<1>2. QED
  BY <1>1, IdleDialOK, DialUpdateOK DEF EndDial

(* Moving on inside _dial, anywhere but to an accepted call.               *)
LEMMA MoveOK ==
  ASSUME AllocatorOK, NEW w \in Workers, UNCHANGED epoch,
         dial[w].pc \notin {"idle", "claimBorrower"},
         \/ \E pc \in DialPcs \ {"attach"} : Goto(w, pc)
         \/ \E outcome \in Outcomes : GotoRelease(w, outcome)
  PROVE  AllocatorOK'
<1>1. DialOK(dial[w])
  BY DEF AllocatorOK
<1>2. CASE \E pc \in DialPcs \ {"attach"} : Goto(w, pc)
  <2>1. PICK pc \in DialPcs \ {"attach"} : Goto(w, pc)
    BY <1>2
  <2> DEFINE d == [dial[w] EXCEPT !.pc = pc]
  <2>2. DialOK(d)
    BY <1>1 DEF DialOK, Dials
  <2>3. dial' = [dial EXCEPT ![w] = d]
    BY <2>1 DEF Goto, AllocatorOK, AllocatorTypeOK
  <2> HIDE DEF d
  <2>4. QED
    BY <2>2, <2>3, DialUpdateOK
<1>3. CASE \E outcome \in Outcomes : GotoRelease(w, outcome)
  <2>1. PICK outcome \in Outcomes : GotoRelease(w, outcome)
    BY <1>3
  <2> DEFINE d == [dial[w] EXCEPT !.pc = "freeAgent", !.outcome = outcome]
  <2>2. DialOK(d)
    BY <1>1 DEF DialOK, Dials, DialPcs
  <2>3. dial' = [dial EXCEPT ![w] = d]
    BY <2>1 DEF GotoRelease, AllocatorOK, AllocatorTypeOK
  <2> HIDE DEF d
  <2>4. QED
    BY <2>2, <2>3, DialUpdateOK
<1>4. QED
  BY <1>2, <1>3

LEMMA DialKeyOK ==
  ASSUME AllocatorOK, NEW w \in Workers,
         dial[w].pc \notin {"idle", "claimBorrower"}
  PROVE  DialKey(w) \in CallKeys
BY DEF AllocatorOK, DialOK, DialKey, IdempotencyKey, CallKeys

-----------------------------------------------------------------------------
(* One lemma per step.                                                     *)

DialerInv == StoreOK /\ ProviderOK /\ AllocatorOK

LEMMA ClaimAgentOK ==
  ASSUME DialerInv, NEW w \in Workers, ClaimAgent(w)
  PROVE  DialerInv'
<1>1. PICK a \in Agents :
        /\ TryReserveAgent(a, epoch)
        /\ dial' = [dial EXCEPT ![w] =
                      [IdleDial EXCEPT !.pc = "claimBorrower", !.agent = a,
                                       !.version = agents[a].version + 1]]
  BY DEF ClaimAgent
<1>2. AgentsOK'
  BY <1>1, TryReserveAgentOK
  DEF DialerInv, StoreOK, AllocatorOK, AllocatorTypeOK
<1>3. AllocatorOK'
  <2> DEFINE n == agents[a].version + 1
  <2>1. n \in Nat
    BY DEF DialerInv, StoreOK, AgentsOK, AgentDocuments
  <2> HIDE DEF n
  <2>2. DialOK([IdleDial EXCEPT !.pc = "claimBorrower", !.agent = a,
                                !.version = n])
    BY <2>1, IdleDialOK DEF DialOK, Dials, DialPcs
  <2>3. QED
    BY <1>1, <2>2, DialUpdateOK DEF n, ClaimAgent, DialerInv
<1>4. QED
  BY <1>2, <1>3, UntouchedOK, IdleProviderOK
  DEF ClaimAgent, DialerInv, StoreOK

LEMMA ClaimBorrowerOK ==
  ASSUME DialerInv, NEW w \in Workers, ClaimBorrower(w)
  PROVE  DialerInv'
<1>1. PICK b \in Borrowers, pc \in {"create", "freeAgent"} :
        /\ TryReserveBorrower(b, epoch)
        /\ dial' = [dial EXCEPT ![w].pc = pc, ![w].borrower = b,
                                ![w].attempt = borrowers[b].attempts + 1]
  BY DEF ClaimBorrower
<1>2. BorrowersOK'
  BY <1>1, TryReserveBorrowerOK
  DEF DialerInv, StoreOK, AllocatorOK, AllocatorTypeOK
<1>3. AllocatorOK'
  <2> DEFINE n == borrowers[b].attempts + 1
  <2>1. n \in 1..MaxAttempts /\ n \in 0..MaxAttempts
    BY <1>1, StoreAssumption
    DEF TryReserveBorrower, TryReserveBorrowerMatches, DialerInv, StoreOK,
        BorrowersOK, BorrowerDocuments
  <2> HIDE DEF n
  <2> DEFINE d == [dial[w] EXCEPT !.pc = pc, !.borrower = b, !.attempt = n]
  <2>2. DialOK(dial[w]) /\ dial[w].pc = "claimBorrower"
    BY DEF DialerInv, AllocatorOK, ClaimBorrower
  <2>3. DialOK(d)
    BY <2>1, <2>2 DEF DialOK, Dials, DialPcs
  <2>4. dial' = [dial EXCEPT ![w] = d]
    BY <1>1 DEF n, DialerInv, AllocatorOK, AllocatorTypeOK
  <2> HIDE DEF d
  <2>5. QED
    BY <2>3, <2>4, DialUpdateOK DEF ClaimBorrower, DialerInv
<1>4. QED
  BY <1>2, <1>3, UntouchedOK, IdleProviderOK
  DEF ClaimBorrower, DialerInv, StoreOK

LEMMA GiveAgentBackOK ==
  ASSUME DialerInv, NEW w \in Workers, GiveAgentBack(w)
  PROVE  DialerInv'
<1>1. dial[w].agent \in Agents
  BY DEF GiveAgentBack, DialerInv, AllocatorOK, DialOK
<1>2. AgentsOK'
  BY <1>1, ReleaseAgentOK DEF GiveAgentBack, DialerInv, StoreOK
<1>3. AllocatorOK'
  BY EndDialOK DEF GiveAgentBack, DialerInv
<1>4. QED
  BY <1>2, <1>3, UntouchedOK, IdleProviderOK
  DEF GiveAgentBack, DialerInv, StoreOK

LEMMA CreateOK ==
  ASSUME DialerInv, NEW w \in Workers, Create(w)
  PROVE  DialerInv'
<1>1. DialKey(w) \in CallKeys
  BY DialKeyOK DEF Create, DialerInv
<1>2. CallsOK'
  BY <1>1, CreateCallOK
  DEF Create, DialerInv, StoreOK, AllocatorOK, AllocatorTypeOK
<1>3. AllocatorOK'
  BY MoveOK DEF Create, DialerInv, DialPcs, Outcomes
<1>4. QED
  BY <1>2, <1>3, UntouchedOK, IdleProviderOK DEF Create, DialerInv, StoreOK

(* Reserve, Initiate and FailCall: a transition of the call at hand.       *)
LEMMA TransitionStepOK ==
  ASSUME DialerInv, NEW w \in Workers,
         Reserve(w) \/ Initiate(w) \/ FailCall(w)
  PROVE  DialerInv'
<1>1. DialKey(w) \in CallKeys
  BY DialKeyOK DEF Reserve, Initiate, FailCall, DialerInv
<1>2. CallsOK'
  BY <1>1, TransitionCallOK
  DEF Reserve, Initiate, FailCall, DialerInv, StoreOK, CallStates
<1>3. AllocatorOK'
  BY MoveOK DEF Reserve, Initiate, FailCall, DialerInv, DialPcs, Outcomes
<1>4. QED
  BY <1>2, <1>3, UntouchedOK, IdleProviderOK
  DEF Reserve, Initiate, FailCall, DialerInv, StoreOK

(* MarkDialing, Bind and FreeAgent: an update of the agent at hand.        *)
LEMMA AgentStepOK ==
  ASSUME DialerInv, NEW w \in Workers,
         MarkDialing(w) \/ Bind(w) \/ FreeAgent(w)
  PROVE  DialerInv'
<1>1. DialKey(w) \in CallKeys /\ dial[w].agent \in Agents
  BY DialKeyOK
  DEF MarkDialing, Bind, FreeAgent, DialerInv, AllocatorOK, DialOK
<1>2. AgentsOK'
  <2>1. CASE MarkDialing(w)
    BY <1>1, <2>1, TransitionAgentOK DEF MarkDialing, DialerInv, StoreOK
  <2>2. CASE Bind(w)
    BY <1>1, <2>2, BindCallOK DEF Bind, DialerInv, StoreOK
  <2>3. CASE FreeAgent(w)
    BY <1>1, <2>3, ReleaseAgentOK DEF FreeAgent, DialerInv, StoreOK
  <2>4. QED
    BY <2>1, <2>2, <2>3
<1>3. AllocatorOK'
  BY MoveOK DEF MarkDialing, Bind, FreeAgent, DialerInv, DialPcs
<1>4. QED
  BY <1>2, <1>3, UntouchedOK, IdleProviderOK
  DEF MarkDialing, Bind, FreeAgent, DialerInv, StoreOK

LEMMA OriginateOK ==
  ASSUME DialerInv, NEW w \in Workers, Originate(w)
  PROVE  DialerInv'
<1>1. DialKey(w) \in CallKeys
  BY DialKeyOK DEF Originate, DialerInv
<1>2. ProviderOK' /\ AllocatorOK'
  <2>1. CASE /\ Accept(DialKey(w))
             /\ dial' = [dial EXCEPT ![w].pc = "attach",
                                     ![w].line = nextLine + 1]
    <3>1. ProviderOK' /\ nextLine + 1 \in 1..MaxLines
      BY <1>1, <2>1, AcceptOK DEF DialerInv
    <3> DEFINE d == [dial[w] EXCEPT !.pc = "attach", !.line = nextLine + 1]
    <3>2. DialOK(dial[w]) /\ dial[w].pc = "originate"
      BY DEF DialerInv, AllocatorOK, Originate
    <3>3. nextLine + 1 \in LineIds
      BY <3>1, ProviderAssumption DEF LineIds
    <3>4. DialOK(d)
      BY <3>1, <3>2, <3>3 DEF DialOK, Dials, DialPcs
    <3>5. dial' = [dial EXCEPT ![w] = d]
      BY <2>1 DEF DialerInv, AllocatorOK, AllocatorTypeOK
    <3> HIDE DEF d
    <3>6. QED
      BY <3>1, <3>4, <3>5, DialUpdateOK DEF Originate, DialerInv
  <2>2. CASE Refuse(DialKey(w)) /\ Goto(w, "failCall")
    BY <1>1, <2>2, RefuseOK, MoveOK DEF Originate, DialerInv, DialPcs
  <2>3. QED
    BY <2>1, <2>2 DEF Originate
<1>3. QED
  BY <1>2, UntouchedOK DEF Originate, DialerInv, StoreOK, storeVars

LEMMA AttachOK ==
  ASSUME DialerInv, NEW w \in Workers, Attach(w)
  PROVE  DialerInv'
<1>1. DialKey(w) \in CallKeys /\ dial[w].line \in 1..MaxLines
  BY DialKeyOK DEF Attach, DialerInv, AllocatorOK, DialOK
<1>2. CallsOK'
  <2>1. dial[w].line \in LineIds
    BY <1>1, ProviderAssumption DEF LineIds
  <2>2. QED
    BY <1>1, <2>1, AttachProviderCallIdOK DEF Attach, DialerInv, StoreOK
<1>3. AllocatorOK'
  BY EndDialOK, MoveOK DEF Attach, DialerInv, DialPcs
<1>4. ProviderOK'
  BY <1>1, IdleProviderOK, HangupOK DEF Attach, DialerInv
<1>5. QED
  BY <1>2, <1>3, <1>4, UntouchedOK DEF Attach, DialerInv, StoreOK

LEMMA FreeBorrowerOK ==
  ASSUME DialerInv, NEW w \in Workers, FreeBorrower(w)
  PROVE  DialerInv'
<1>1. /\ dial[w].borrower \in Borrowers
      /\ dial[w].outcome \in {"RELEASED", "RETRY", "CONTACTED"}
  BY DEF FreeBorrower, DialerInv, AllocatorOK, DialOK, Dials, Outcomes
<1>2. BorrowersOK'
  BY <1>1, ReleaseBorrowerOK DEF FreeBorrower, DialerInv, StoreOK
<1>3. AllocatorOK'
  BY EndDialOK DEF FreeBorrower, DialerInv
<1>4. QED
  BY <1>2, <1>3, UntouchedOK, IdleProviderOK
  DEF FreeBorrower, DialerInv, StoreOK

LEMMA DialStepOK ==
  ASSUME DialerInv, NEW w \in Workers, DialStep(w)
  PROVE  DialerInv'
BY ClaimAgentOK, ClaimBorrowerOK, GiveAgentBackOK, CreateOK, TransitionStepOK,
   AgentStepOK, OriginateOK, AttachOK, FreeBorrowerOK
DEF DialStep

(* A worker that is abandoned or cancelled forgets what it had in hand.    *)
LEMMA StoppedDialOK ==
  ASSUME DialerInv, NEW w \in Workers, Abandon(w) \/ CancelDial(w)
  PROVE  DialerInv'
<1>1. AllocatorOK'
  <2>1. CASE Abandon(w)
    BY <2>1, EndDialOK DEF Abandon, DialerInv
  <2>2. CASE CancelDial(w) /\ dial[w].pc = "claimBorrower"
    <3>1. dial' = [dial EXCEPT ![w] = [IdleDial EXCEPT !.stopping = TRUE]]
      BY <2>2 DEF CancelDial, DialerInv, AllocatorOK, AllocatorTypeOK
    <3>2. QED
      BY <2>2, <3>1, IdleDialOK, DialUpdateOK DEF CancelDial, DialerInv
  <2>3. CASE CancelDial(w) /\ dial[w].pc # "claimBorrower"
    <3> DEFINE d == [dial[w] EXCEPT !.pc = "freeAgent",
                                    !.outcome = "RELEASED",
                                    !.stopping = TRUE]
    <3>1. DialOK(dial[w]) /\ dial[w].pc \notin {"idle", "claimBorrower"}
      BY <2>3 DEF DialerInv, AllocatorOK, CancelDial
    <3>2. DialOK(d)
      BY <3>1 DEF DialOK, Dials, DialPcs, Outcomes
    <3>3. dial' = [dial EXCEPT ![w] = d]
      BY <2>3 DEF CancelDial, DialerInv, AllocatorOK, AllocatorTypeOK
    <3> HIDE DEF d
    <3>4. QED
      BY <2>3, <3>2, <3>3, DialUpdateOK DEF CancelDial, DialerInv
  <2>4. QED
    BY <2>1, <2>2, <2>3
<1>2. QED
  BY <1>1, UntouchedOK, IdleProviderOK
  DEF Abandon, CancelDial, DialerInv, StoreOK, storeVars

-----------------------------------------------------------------------------
(***************************************************************************)
(* The event processor.                                                    *)
(***************************************************************************)


ProcessorInv == StoreOK /\ ProviderOK /\ EventProcessorTypeOK

LEMMA HandlerInvOK ==
  ASSUME ProcessorInv, NEW l \in 1..MaxLines
  PROVE  /\ Handler(l) \in Handlers
         /\ HandlerOK(Handler(l))
BY DEF ProcessorInv, ProviderOK, ProviderTypeOK, HandlersOK, Lines, Handler,
   HandlerOK

(* The call, the agent and the state a handler in the middle works with.   *)
LEMMA BusyHandlerOK ==
  ASSUME ProcessorInv, NEW l \in 1..MaxLines, Handler(l).pc # "idle"
  PROVE  /\ Handler(l).call \in CallKeys
         /\ HandlerAgent(l) \in Agents
         /\ Handler(l).call.borrower \in Borrowers
         /\ Handler(l).target \in EventTypes
         /\ Handler(l).target \in CallStates
BY HandlerInvOK DEF HandlerOK, HandlerAgent, CallKeys, EventTypes, CallStates

LEMMA MoveHandlerOK ==
  ASSUME ProcessorInv, NEW l \in 1..MaxLines, NEW handler,
         HandlerOK(handler), MoveHandler(l, handler)
  PROVE  ProviderOK'
<1> DEFINE line == [lines[l] EXCEPT !.handler = handler]
<1>1. line \in Lines /\ line.handler = handler
  BY DEF ProcessorInv, ProviderOK, ProviderTypeOK, Lines, HandlerOK
<1>2. lines' = [lines EXCEPT ![l] = line]
  BY DEF MoveHandler, ProcessorInv, ProviderOK, ProviderTypeOK
<1>3. nextLine' \in 0..MaxLines /\ asked' \in SUBSET CallKeys
  BY DEF MoveHandler, ProcessorInv, ProviderOK, ProviderTypeOK
<1> HIDE DEF line
<1>4. QED
  BY <1>1, <1>2, <1>3, LineOK DEF ProcessorInv, HandlerOK

LEMMA IdleHandlerIsOK == HandlerOK(IdleHandler)
BY IdleHandlerOK DEF HandlerOK

LEMMA AfterAgentOK ==
  ASSUME ProcessorInv, NEW l \in 1..MaxLines, Handler(l).pc # "idle"
  PROVE  HandlerOK(AfterAgent(l))
BY HandlerInvOK, BusyHandlerOK, IdleHandlerIsOK
DEF AfterAgent, HandlerOK, Handlers, HandlerPcs

(* An event in a script has an id.                                         *)
LEMMA NextEventOK ==
  ASSUME ProcessorInv, NEW l \in 1..MaxLines, HasEvent(l)
  PROVE  /\ <<l, NextEvent(l).index>> \in EventIds
         /\ NextEvent(l).type \in EventTypes
<1>1. NextEvent(l) \in Events
  BY DEF NextEvent, HasEvent, ProcessorInv, ProviderOK, ProviderTypeOK, Lines
<1>2. QED
  BY <1>1 DEF Events, EventIds

-----------------------------------------------------------------------------

LEMMA ReceiveEventOK ==
  ASSUME ProcessorInv, NEW l \in 1..MaxLines, ReceiveEvent(l)
  PROVE  ProcessorInv'
<1>1. HasEvent(l)
  BY DEF ReceiveEvent
<1>2. EventProcessorTypeOK'
  BY <1>1, NextEventOK DEF ReceiveEvent, ProcessorInv, EventProcessorTypeOK
<1>3. ProviderOK'
  <2>1. PICK handler :
          /\ Deliver(l, handler)
          /\ \/ handler = IdleHandler
             \/ \E k \in CallKeys :
                  handler = [IdleHandler EXCEPT !.pc = "applyCall",
                                                !.call = k,
                                                !.target = NextEvent(l).type]
    BY DEF ReceiveEvent, FindByProviderCallId
  <2>2. HandlerOK(handler)
    <3>1. CASE handler = IdleHandler
      BY <3>1, IdleHandlerOK DEF HandlerOK
    <3>2. ASSUME NEW k \in CallKeys,
                 handler = [IdleHandler EXCEPT !.pc = "applyCall", !.call = k,
                                               !.target = NextEvent(l).type]
          PROVE  HandlerOK(handler)
      <4>1. NextEvent(l).type \in EventTypes /\ EventTypes \subseteq CallStates
        BY <1>1, NextEventOK DEF EventTypes, CallStates, Events
      <4>2. QED
        BY <3>2, <4>1, IdleHandlerOK DEF HandlerOK, Handlers, HandlerPcs
    <3>3. QED
      BY <2>1, <3>1, <3>2
  <2>3. QED
    BY <1>1, <2>1, <2>2, DeliverOK DEF ProcessorInv
<1>4. QED
  BY <1>2, <1>3, UntouchedOK DEF ReceiveEvent, ProcessorInv, StoreOK, storeVars

LEMMA ApplyCallOK ==
  ASSUME ProcessorInv, NEW l \in 1..MaxLines, ApplyCall(l)
  PROVE  ProcessorInv'
<1>1. Handler(l).call \in CallKeys /\ Handler(l).target \in CallStates
  BY BusyHandlerOK DEF ApplyCall
<1>2. CallsOK'
  BY <1>1, TransitionCallOK DEF ApplyCall, ProcessorInv, StoreOK
<1>3. HandlerOK([Handler(l) EXCEPT !.pc = "readAgent"])
  BY HandlerInvOK, BusyHandlerOK DEF ApplyCall, HandlerOK, Handlers, HandlerPcs
<1>4. ProviderOK'
  BY <1>3, IdleHandlerIsOK, MoveHandlerOK DEF ApplyCall
<1>5. QED
  BY <1>2, <1>4, UntouchedOK
  DEF ApplyCall, ProcessorInv, StoreOK, EventProcessorTypeOK

LEMMA ReadAgentOK ==
  ASSUME ProcessorInv, NEW l \in 1..MaxLines, ReadAgent(l)
  PROVE  ProcessorInv'
<1> DEFINE agent == agents[HandlerAgent(l)]
           moving == [Handler(l) EXCEPT !.pc = "moveAgent",
                                        !.seenState = agent.state,
                                        !.seenVersion = agent.version]
<1>1. Handler(l).pc # "idle"
  BY DEF ReadAgent
<1>2. agent.state \in AgentStates /\ agent.version \in Nat
  BY <1>1, BusyHandlerOK
  DEF ProcessorInv, StoreOK, AgentsOK, AgentDocuments
<1>3. HandlerOK(moving)
  BY <1>1, <1>2, HandlerInvOK, BusyHandlerOK
  DEF HandlerOK, Handlers, HandlerPcs
<1>4. MoveHandler(l, AfterAgent(l)) \/ MoveHandler(l, moving)
  BY DEF ReadAgent
<1> HIDE DEF moving
<1>5. ProviderOK'
  BY <1>1, <1>3, <1>4, AfterAgentOK, MoveHandlerOK
<1>6. QED
  BY <1>5, UntouchedOK
  DEF ReadAgent, ProcessorInv, StoreOK, EventProcessorTypeOK, storeVars

(* An event puts no agent on a reservation, and a releasing one only on    *)
(* AVAILABLE or WRAP_UP.                                                   *)
LEMMA MoveAgentOK ==
  ASSUME ProcessorInv, NEW l \in 1..MaxLines, MoveAgent(l)
  PROVE  ProcessorInv'
<1> DEFINE target == AgentStateForCallState[Handler(l).target]
<1>1. /\ Handler(l).pc # "idle"
      /\ HandlerAgent(l) \in Agents
      /\ Handler(l).target \in EventTypes
  BY BusyHandlerOK DEF MoveAgent
<1>2. /\ target # "RESERVED"
      /\ Handler(l).target \in AgentReleasingCallStates =>
           target \in {"AVAILABLE", "WRAP_UP", "OFFLINE"}
  BY <1>1 DEF EventTypes, AgentStateForCallState, AgentReleasingCallStates
<1>3. AgentsOK'
  BY <1>1, <1>2, ReleaseAgentOK, TransitionAgentOK
  DEF MoveAgent, ProcessorInv, StoreOK
<1>4. ProviderOK'
  BY <1>1, AfterAgentOK, MoveHandlerOK DEF MoveAgent
<1>5. QED
  BY <1>3, <1>4, UntouchedOK
  DEF MoveAgent, ProcessorInv, StoreOK, EventProcessorTypeOK

LEMMA SettleBorrowerOK ==
  ASSUME ProcessorInv, NEW l \in 1..MaxLines, SettleBorrower(l)
  PROVE  ProcessorInv'
<1>1. Handler(l).call.borrower \in Borrowers
  BY BusyHandlerOK DEF SettleBorrower
<1>2. BorrowersOK'
  BY <1>1, ReleaseBorrowerOK DEF SettleBorrower, ProcessorInv, StoreOK
<1>3. ProviderOK'
  BY IdleHandlerIsOK, MoveHandlerOK DEF SettleBorrower
<1>4. QED
  BY <1>2, <1>3, UntouchedOK
  DEF SettleBorrower, ProcessorInv, StoreOK, EventProcessorTypeOK

LEMMA EventStepOK ==
  ASSUME ProcessorInv, NEW l \in 1..MaxLines, EventStep(l)
  PROVE  ProcessorInv'
<1>1. CASE Finish(l)
  BY <1>1, LineClosesOK, UntouchedOK
  DEF Finish, ProcessorInv, StoreOK, EventProcessorTypeOK, storeVars
<1>2. QED
  BY <1>1, ReceiveEventOK, ApplyCallOK, ReadAgentOK, MoveAgentOK,
     SettleBorrowerOK
  DEF EventStep

(* A handler that raises leaves everything it did not write as it was.     *)
LEMMA HandlerErrorOK ==
  ASSUME ProcessorInv, NEW l \in 1..MaxLines,
         HandlerFails(l) \/ HandlerKillsDelivery(l)
  PROVE  ProcessorInv'
<1>1. ProviderOK' /\ EventProcessorTypeOK'
  <2>1. CASE /\ HasEvent(l) /\ Deliver(l, IdleHandler)
             /\ recorded' = recorded \cup {<<l, NextEvent(l).index>>}
    BY <2>1, IdleHandlerIsOK, DeliverOK, NextEventOK
    DEF ProcessorInv, EventProcessorTypeOK
  <2>2. CASE MoveHandler(l, IdleHandler) /\ UNCHANGED recorded
    BY <2>2, IdleHandlerIsOK, MoveHandlerOK
    DEF ProcessorInv, EventProcessorTypeOK
  <2>3. CASE HandlerKillsDelivery(l)
    BY <2>3, LineClosesOK
    DEF HandlerKillsDelivery, ProcessorInv, EventProcessorTypeOK
  <2>4. QED
    BY <2>1, <2>2, <2>3 DEF HandlerFails
<1>2. QED
  BY <1>1, UntouchedOK
  DEF HandlerFails, HandlerKillsDelivery, ProcessorInv, StoreOK, storeVars

-----------------------------------------------------------------------------
(***************************************************************************)
(* The recovery worker.                                                    *)
(***************************************************************************)


AgentStages == {"agentLeases", "heartbeats", "wrapUps"}

(* What each sweep finds.                                                  *)
ItemsOf(stage) ==
  IF stage \in AgentStages THEN AgentSnapshots
  ELSE IF stage = "borrowerLeases" THEN Borrowers
  ELSE IF stage = "orphans" THEN CallSnapshots ELSE {}

(* Half-way through an item, the item is of the sweep that is running, and *)
(* a borrower is given back only of an agent that had a call.              *)
SweepOK ==
  /\ sweep.todo \subseteq ItemsOf(sweep.stage)
  /\ sweep.step # "next" => sweep.item \in ItemsOf(sweep.stage)
  /\ sweep.step = "freeBorrower" => sweep.item.call \in CallKeys

RecoveryOK == RecoveryTypeOK /\ SweepOK

RecoveryInv == StoreOK /\ ProviderOK /\ RecoveryOK

LEMMA IdleRecoveryOK == RecoveryOK /\ UNCHANGED sweep => RecoveryOK'
BY DEF RecoveryOK, RecoveryTypeOK, SweepOK

LEMMA ItemsOfAreItems ==
  \A stage \in Stages : ItemsOf(stage) \subseteq Items
BY DEF ItemsOf, Items

(* A sweep that has its items, but is at none of them yet.                 *)
Fresh(stage, items) ==
  [stage |-> stage, todo |-> items, step |-> "next", item |-> None]

LEMMA FreshOK ==
  ASSUME NEW stage \in Stages, NEW items \in SUBSET ItemsOf(stage),
         sweep' = Fresh(stage, items)
  PROVE  RecoveryOK'
<1>1. items \in SUBSET Items
  BY ItemsOfAreItems
<1>2. RecoveryTypeOK'
  BY <1>1 DEF Fresh, RecoveryTypeOK, SweepSteps
<1>3. SweepOK'
  BY DEF Fresh, SweepOK
<1>4. QED
  BY <1>2, <1>3 DEF RecoveryOK

LEMMA BeginSweepOK ==
  ASSUME NEW stage \in Stages, NEW items \in SUBSET ItemsOf(stage),
         BeginSweep(stage, items)
  PROVE  RecoveryOK'
BY FreshOK DEF BeginSweep, Asleep, Fresh

LEMMA AsleepOK ==
  ASSUME sweep' = Asleep
  PROVE  RecoveryOK'
BY FreshOK DEF Asleep, Fresh, Stages

LEMMA RecoveryInitOK == RecoveryInit => RecoveryOK
BY DEF RecoveryInit, RecoveryOK, RecoveryTypeOK, SweepOK, Asleep, Stages,
   SweepSteps

LEMMA StepOK ==
  ASSUME RecoveryOK, NEW step \in SweepSteps, NEW item,
         item \in ItemsOf(sweep.stage),
         step = "freeBorrower" => item.call \in CallKeys,
         Step(step, item)
  PROVE  RecoveryOK'
<1>1. item \in Items
  BY ItemsOfAreItems DEF RecoveryOK, RecoveryTypeOK
<1>2. /\ sweep'.todo = sweep.todo /\ sweep'.stage = sweep.stage
      /\ sweep'.step = step /\ sweep'.item = item
      /\ sweep' \in [stage : Stages, todo : SUBSET Items, step : SweepSteps,
                     item : Items \cup {None}]
  BY <1>1 DEF Step, RecoveryOK, RecoveryTypeOK
<1>3. QED
  BY <1>2 DEF RecoveryOK, RecoveryTypeOK, SweepOK

LEMMA ItemDoneOK ==
  ASSUME RecoveryOK, NEW item, ItemDone(item)
  PROVE  RecoveryOK'
<1>1. /\ sweep'.todo \subseteq sweep.todo /\ sweep'.stage = sweep.stage
      /\ sweep'.step = "next"
      /\ sweep' \in [stage : Stages, todo : SUBSET Items, step : SweepSteps,
                     item : Items \cup {None}]
  BY DEF ItemDone, RecoveryOK, RecoveryTypeOK, SweepSteps
<1>2. QED
  BY <1>1 DEF RecoveryOK, RecoveryTypeOK, SweepOK

-----------------------------------------------------------------------------

LEMMA SnapshotOK ==
  ASSUME StoreOK, NEW a \in Agents
  PROVE  Snapshot(a) \in AgentSnapshots
BY DEF Snapshot, AgentSnapshots, StoreOK, AgentsOK, AgentDocuments

LEMMA FoundOK ==
  ASSUME StoreOK, NEW stage \in Stages \ {"asleep"}
  PROVE  Found(stage) \subseteq ItemsOf(stage)
<1>1. CASE stage \in AgentStages
  <2>1. Found(stage) \subseteq {Snapshot(a) : a \in Agents}
    BY <1>1 DEF Found, AgentStages, ExpiredAgentLeases
  <2>2. QED
    BY <1>1, <2>1, SnapshotOK DEF ItemsOf
<1>2. CASE stage = "borrowerLeases"
  BY <1>2 DEF Found, ItemsOf, AgentStages, ExpiredBorrowerLeases
<1>3. CASE stage = "orphans"
  <2>1. \A k \in FindStaleCalls : k \in CallKeys /\ calls[k].line \in LineIds \cup {None}
    BY DEF FindStaleCalls, StoreOK, CallsOK, CallDocuments
  <2>2. Found(stage) = {[call |-> k, line |-> calls[k].line] : k \in FindStaleCalls}
    BY <1>3 DEF Found
  <2>3. Found(stage) \subseteq CallSnapshots
    BY <2>1, <2>2 DEF CallSnapshots
  <2>4. QED
    BY <1>3, <2>3 DEF ItemsOf, AgentStages
<1>4. QED
  BY <1>1, <1>2, <1>3 DEF Stages, AgentStages

LEMMA NextSweepOK ==
  ASSUME RecoveryInv, NextSweep
  PROVE  RecoveryInv'
<1>1. \A s \in SweepsAfter[sweep.stage] : s \in Stages \ {"asleep"}
  BY DEF RecoveryInv, RecoveryOK, RecoveryTypeOK, Stages, SweepsAfter
<1>2. \/ sweep' = Asleep
      \/ \E s \in Stages \ {"asleep"} :
           \E items \in SUBSET Found(s) : BeginSweep(s, items)
  BY <1>1 DEF NextSweep, Stages
<1>3. RecoveryOK'
  BY <1>2, FoundOK, BeginSweepOK, AsleepOK DEF RecoveryInv
<1>4. QED
  BY <1>3, UntouchedOK, IdleProviderOK
  DEF NextSweep, RecoveryInv, StoreOK, storeVars

LEMMA CancelBoundCallOK ==
  ASSUME RecoveryInv, NEW item, CancelBoundCall(item)
  PROVE  RecoveryInv'
<1>1. item \in AgentSnapshots /\ item \in ItemsOf(sweep.stage)
  BY DEF CancelBoundCall, At, RecoveryInv, RecoveryOK, SweepOK, ItemsOf,
     AgentStages
<1>2. item.call = None \/ item.call \in CallKeys
  BY <1>1 DEF AgentSnapshots
<1>3. CallsOK'
  BY <1>2, TransitionCallOK, UntouchedOK
  DEF CancelBoundCall, RecoveryInv, StoreOK, CallStates
<1>4. RecoveryOK'
  <2>1. CASE Step("settle", item)
    BY <1>1, <2>1, StepOK DEF RecoveryInv, SweepSteps
  <2>2. CASE item.call # None /\ Step("freeBorrower", item)
    BY <1>1, <1>2, <2>2, StepOK DEF RecoveryInv, SweepSteps
  <2>3. QED
    BY <2>1, <2>2 DEF CancelBoundCall
<1>5. QED
  BY <1>3, <1>4, UntouchedOK, IdleProviderOK
  DEF CancelBoundCall, RecoveryInv, StoreOK

(* FreeBoundBorrower and FreeOrphanBorrower.                               *)
LEMMA FreeCallBorrowerOK ==
  ASSUME RecoveryInv, FreeBoundBorrower \/ FreeOrphanBorrower
  PROVE  RecoveryInv'
<1>1. /\ sweep.item.call \in CallKeys
      /\ sweep.item \in ItemsOf(sweep.stage)
  BY DEF FreeBoundBorrower, FreeOrphanBorrower, At, RecoveryInv, RecoveryOK,
     SweepOK
<1>2. sweep.item.call.borrower \in Borrowers
  BY <1>1 DEF CallKeys
<1>3. BorrowersOK'
  BY <1>2, ReleaseBorrowerOK
  DEF FreeBoundBorrower, FreeOrphanBorrower, RecoveryInv, StoreOK
<1>4. RecoveryOK'
  BY <1>1, StepOK, ItemDoneOK
  DEF FreeBoundBorrower, FreeOrphanBorrower, RecoveryInv, SweepSteps
<1>5. QED
  BY <1>3, <1>4, UntouchedOK, IdleProviderOK
  DEF FreeBoundBorrower, FreeOrphanBorrower, RecoveryInv, StoreOK

(* ReclaimAgent and TakeOffline.                                           *)
LEMMA SettleAgentOK ==
  ASSUME RecoveryInv, ReclaimAgent \/ TakeOffline
  PROVE  RecoveryInv'
<1>1. sweep.item.agent \in Agents
  BY DEF ReclaimAgent, TakeOffline, At, RecoveryInv, RecoveryOK, SweepOK,
     ItemsOf, AgentStages, AgentSnapshots
<1>2. AgentsOK'
  BY <1>1, ReleaseExpiredAgentLeaseOK, TransitionAgentOK
  DEF ReclaimAgent, TakeOffline, RecoveryInv, StoreOK
<1>3. RecoveryOK'
  BY ItemDoneOK DEF ReclaimAgent, TakeOffline, RecoveryInv
<1>4. QED
  BY <1>2, <1>3, UntouchedOK, IdleProviderOK
  DEF ReclaimAgent, TakeOffline, RecoveryInv, StoreOK

LEMMA SweepBorrowerOK ==
  ASSUME RecoveryInv, NEW b, SweepBorrower(b)
  PROVE  RecoveryInv'
<1>1. b \in Borrowers
  BY DEF SweepBorrower, At, RecoveryInv, RecoveryOK, SweepOK, ItemsOf,
     AgentStages
<1>2. BorrowersOK'
  BY <1>1, ReclaimBorrowerOK DEF SweepBorrower, RecoveryInv, StoreOK
<1>3. RecoveryOK'
  BY ItemDoneOK DEF SweepBorrower, RecoveryInv
<1>4. QED
  BY <1>2, <1>3, UntouchedOK, IdleProviderOK
  DEF SweepBorrower, RecoveryInv, StoreOK

LEMMA ReconcileCallOK ==
  ASSUME RecoveryInv, NEW item, ReconcileCall(item)
  PROVE  RecoveryInv'
<1>1. item \in ItemsOf(sweep.stage) /\ item \in CallSnapshots
  BY DEF ReconcileCall, At, RecoveryInv, RecoveryOK, SweepOK, ItemsOf,
     AgentStages
<1>2. item.call \in CallKeys
  BY <1>1 DEF CallSnapshots
<1>3. CallsOK'
  BY <1>2, TransitionCallOK
  DEF ReconcileCall, ReconciledState, RecoveryInv, StoreOK, CallStates
<1>4. RecoveryOK'
  BY <1>1, StepOK, ItemDoneOK DEF ReconcileCall, RecoveryInv, SweepSteps
<1>5. QED
  BY <1>3, <1>4, UntouchedOK, IdleProviderOK
  DEF ReconcileCall, RecoveryInv, StoreOK

LEMMA FreeOrphanAgentOK ==
  ASSUME RecoveryInv, FreeOrphanAgent
  PROVE  RecoveryInv'
<1>1. /\ sweep.item \in ItemsOf(sweep.stage)
      /\ sweep.item \in CallSnapshots
  BY DEF FreeOrphanAgent, At, RecoveryInv, RecoveryOK, SweepOK, ItemsOf,
     AgentStages
<1>2. sweep.item.call \in CallKeys /\ sweep.item.call.agent \in Agents
  BY <1>1 DEF CallSnapshots, CallKeys
<1>3. AgentsOK'
  BY <1>2, ReleaseAgentOK DEF FreeOrphanAgent, RecoveryInv, StoreOK
<1>4. RecoveryOK'
  BY <1>1, <1>2, StepOK DEF FreeOrphanAgent, RecoveryInv, SweepSteps
<1>5. QED
  BY <1>3, <1>4, UntouchedOK, IdleProviderOK
  DEF FreeOrphanAgent, RecoveryInv, StoreOK

LEMMA ReleaseStuckWrapUpOK ==
  ASSUME RecoveryInv, NEW item, ReleaseStuckWrapUp(item)
  PROVE  RecoveryInv'
<1>1. item.agent \in Agents
  BY DEF ReleaseStuckWrapUp, At, RecoveryInv, RecoveryOK, SweepOK, ItemsOf,
     AgentStages, AgentSnapshots
<1>2. AgentsOK'
  BY <1>1, TransitionAgentOK DEF ReleaseStuckWrapUp, RecoveryInv, StoreOK
<1>3. RecoveryOK'
  BY ItemDoneOK DEF ReleaseStuckWrapUp, RecoveryInv
<1>4. QED
  BY <1>2, <1>3, UntouchedOK, IdleProviderOK
  DEF ReleaseStuckWrapUp, RecoveryInv, StoreOK

LEMMA RecoveryStepOK ==
  ASSUME RecoveryInv, RecoveryStep
  PROVE  RecoveryInv'
BY NextSweepOK, CancelBoundCallOK, FreeCallBorrowerOK, SettleAgentOK,
   SweepBorrowerOK, ReconcileCallOK, FreeOrphanAgentOK, ReleaseStuckWrapUpOK
DEF RecoveryStep

LEMMA SweepFailsOK ==
  ASSUME RecoveryInv, SweepFails
  PROVE  RecoveryInv'
<1>1. RecoveryOK'
  <2>1. sweep.stage \in Stages
    BY DEF RecoveryInv, RecoveryOK, RecoveryTypeOK
  <2>2. sweep' = Fresh(sweep.stage, {})
    BY DEF SweepFails, Asleep, Fresh
  <2>3. QED
    BY <2>1, <2>2, FreshOK
<1>2. QED
  BY <1>1, UntouchedOK, IdleProviderOK
  DEF SweepFails, RecoveryInv, StoreOK, storeVars

=============================================================================
