----------------------------- MODULE StoreProofs -----------------------------
(***************************************************************************)
(* What every repository operation of DialerStore preserves, whoever calls *)
(* it and however late, and what the mock carrier keeps true of its lines: *)
(* the lemmas the proofs about the composed system cite, one per operation. *)
(***************************************************************************)
EXTENDS MockProvider, TLAPS

(* An agent on a call carries a worker id and a lease.                     *)
AgentsOK ==
  /\ agents \in [Agents -> AgentDocuments]
  /\ \A a \in Agents :
       agents[a].state \in {"RESERVED", "DIALING", "CONNECTED"} =>
         agents[a].reservedBy # None /\ agents[a].lease # None

(* RESERVED is the same as being leased, and the attempts keep the limit.  *)
BorrowersOK ==
  /\ borrowers \in [Borrowers -> BorrowerDocuments]
  /\ \A b \in Borrowers :
       /\ borrowers[b].status = "RESERVED" <=> borrowers[b].reservedBy # None
       /\ borrowers[b].status = "RESERVED" <=> borrowers[b].lease # None
       /\ borrowers[b].status \in {"PENDING", "RESERVED"} =>
            borrowers[b].attempts < MaxAttempts
       /\ borrowers[b].status = "EXHAUSTED" =>
            borrowers[b].attempts = MaxAttempts

CallsOK == calls \in [CallKeys -> CallDocuments]

StoreOK == AgentsOK /\ BorrowersOK /\ CallsOK

LEMMA UntouchedOK ==
  /\ AgentsOK /\ UNCHANGED agents => AgentsOK'
  /\ BorrowersOK /\ UNCHANGED borrowers => BorrowersOK'
  /\ CallsOK /\ UNCHANGED calls => CallsOK'
BY DEF AgentsOK, BorrowersOK, CallsOK

-----------------------------------------------------------------------------
(* The state machine tables.                                               *)

(* Whoever may move an agent onto a call state moves it there from the     *)
(* state before it; only the allocator reserves an AVAILABLE agent.        *)
LEMMA TransitionsStepByStep ==
  ASSUME NEW from, NEW to, NEW actor, ValidTransition(from, to, actor)
  PROVE  /\ from \in AgentStates
         /\ to \in AgentStates
         /\ to = "CONNECTED" => from = "DIALING"
         /\ to = "DIALING" => from = "RESERVED"
         /\ to = "RESERVED" => actor = "ALLOCATOR"
<1>1. <<from, to, actor>> \in Authorised
  BY DEF ValidTransition, IsActorAllowed
<1>2. QED
  BY <1>1 DEF Authorised, AgentStates

-----------------------------------------------------------------------------
(* AgentRepository                                                         *)

LEMMA TryReserveAgentOK ==
  ASSUME AgentsOK, NEW a \in Agents, NEW worker \in WorkerIds,
         TryReserveAgent(a, worker)
  PROVE  AgentsOK'
BY StoreAssumption DEF AgentsOK, TryReserveAgent, AgentDocuments, AgentStates,
   WorkerIds

(* Whatever clears the lease leaves the document without a holder.         *)
LEMMA UnboundOK ==
  ASSUME NEW doc \in AgentDocuments, NEW state \in AgentStates
  PROVE  /\ Unbound(doc, state) \in AgentDocuments
         /\ Unbound(doc, state).state = state
<1> DEFINE n == doc.version + 1
<1>1. n \in Nat
  BY DEF AgentDocuments
<1>2. Unbound(doc, state) =
        [doc EXCEPT !.state = state, !.reservedBy = None, !.lease = None,
                    !.call = None, !.version = n]
  BY DEF Unbound
<1> HIDE DEF n
<1>3. QED
  BY <1>1, <1>2 DEF AgentDocuments

LEMMA ReleaseAgentOK ==
  ASSUME AgentsOK, NEW a \in Agents, NEW worker,
         NEW target \in {"AVAILABLE", "WRAP_UP", "OFFLINE"}, NEW actor,
         ReleaseAgent(a, worker, target, actor)
  PROVE  AgentsOK'
<1>1. CASE ReleaseAgentMatches(a, worker, target, actor)
  <2>1. target \in AgentStates /\ agents[a] \in AgentDocuments
    BY DEF AgentsOK, AgentStates
  <2>2. agents' = [agents EXCEPT ![a] = Unbound(agents[a], target)]
    BY <1>1 DEF ReleaseAgent, AgentsOK
  <2>3. QED
    BY <2>1, <2>2, UnboundOK DEF AgentsOK
<1>2. CASE ~ReleaseAgentMatches(a, worker, target, actor)
  BY <1>2 DEF AgentsOK, ReleaseAgent
<1>3. QED
  BY <1>1, <1>2

(* A transition keeps the lease, so onto a call state it must come from    *)
(* one.                                                                    *)
LEMMA TransitionAgentOK ==
  ASSUME AgentsOK, NEW a \in Agents, NEW from, NEW to, NEW actor,
         NEW version, actor # "ALLOCATOR" \/ to # "RESERVED",
         TransitionAgent(a, from, to, actor, version)
  PROVE  AgentsOK'
<1>1. CASE TransitionAgentMatches(a, from, to, actor, version)
  <2>1. /\ to \in AgentStates
        /\ to \in {"RESERVED", "DIALING", "CONNECTED"} =>
             agents[a].state \in {"RESERVED", "DIALING"}
    BY <1>1, TransitionsStepByStep DEF TransitionAgentMatches
  <2>2. QED
    BY <1>1, <2>1 DEF AgentsOK, TransitionAgent, AgentDocuments
<1>2. CASE ~TransitionAgentMatches(a, from, to, actor, version)
  BY <1>2 DEF AgentsOK, TransitionAgent
<1>3. QED
  BY <1>1, <1>2

LEMMA BindCallOK ==
  ASSUME AgentsOK, NEW a \in Agents, NEW worker, NEW k \in CallKeys,
         BindCall(a, worker, k)
  PROVE  AgentsOK'
BY DEF AgentsOK, BindCall, AgentDocuments

LEMMA ReleaseExpiredAgentLeaseOK ==
  ASSUME AgentsOK, NEW a \in Agents, NEW state, NEW version,
         ReleaseExpiredAgentLease(a, state, version)
  PROVE  AgentsOK'
<1>1. CASE agents' = agents
  BY <1>1 DEF AgentsOK
<1>2. CASE agents' = [agents EXCEPT ![a] = Unbound(agents[a], "AVAILABLE")]
  <2>1. "AVAILABLE" \in AgentStates /\ agents[a] \in AgentDocuments
    BY DEF AgentsOK, AgentStates
  <2>2. QED
    BY <1>2, <2>1, UnboundOK DEF AgentsOK
<1>3. QED
  BY <1>1, <1>2 DEF ReleaseExpiredAgentLease, AgentsOK

LEMMA SetAliveOK ==
  ASSUME AgentsOK, NEW a \in Agents, NEW alive \in BOOLEAN,
         SetAlive(a, alive)
  PROVE  AgentsOK'
BY DEF AgentsOK, SetAlive, AgentDocuments

-----------------------------------------------------------------------------
(* BorrowerRepository                                                      *)

LEMMA TryReserveBorrowerOK ==
  ASSUME BorrowersOK, NEW b \in Borrowers, NEW worker \in WorkerIds,
         TryReserveBorrower(b, worker)
  PROVE  BorrowersOK'
BY StoreAssumption DEF BorrowersOK, TryReserveBorrower,
   TryReserveBorrowerMatches, BorrowerDocuments, BorrowerStatuses, WorkerIds

(* Whatever clears the lease leaves the attempts alone.                    *)
LEMMA UnreservedOK ==
  ASSUME NEW doc \in BorrowerDocuments, NEW status \in BorrowerStatuses
  PROVE  /\ Unreserved(doc, status) \in BorrowerDocuments
         /\ Unreserved(doc, status).status = status
         /\ Unreserved(doc, status).reservedBy = None
         /\ Unreserved(doc, status).lease = None
         /\ Unreserved(doc, status).attempts = doc.attempts
BY DEF Unreserved, BorrowerDocuments

(* Only a reservation is given back, so the attempt it counts was left.    *)
LEMMA ReleaseBorrowerOK ==
  ASSUME BorrowersOK, NEW b \in Borrowers, NEW worker,
         NEW outcome \in {"RELEASED", "RETRY", "CONTACTED"},
         ReleaseBorrower(b, worker, outcome)
  PROVE  BorrowersOK'
<1>1. CASE ReleaseBorrowerMatches(b, worker)
  <2>1. /\ borrowers[b].status = "RESERVED"
        /\ borrowers[b].attempts \in 0..(MaxAttempts - 1)
        /\ borrowers[b] \in BorrowerDocuments
    BY <1>1, StoreAssumption
    DEF ReleaseBorrowerMatches, BorrowersOK, BorrowerDocuments
  <2> DEFINE doc == ReleasedBorrower(borrowers[b], outcome)
  <2>2. /\ doc \in BorrowerDocuments
        /\ doc.status # "RESERVED" /\ doc.reservedBy = None /\ doc.lease = None
        /\ doc.status = "PENDING" => doc.attempts < MaxAttempts
        /\ doc.status = "EXHAUSTED" => doc.attempts = MaxAttempts
    <3>1. CASE outcome = "RELEASED"
      <4>1. doc = Unreserved(borrowers[b], "PENDING")
        BY <3>1 DEF ReleasedBorrower
      <4>2. QED
        BY <2>1, <4>1, UnreservedOK, StoreAssumption DEF BorrowerStatuses
    <3>2. CASE outcome = "CONTACTED"
      <4> DEFINE un == Unreserved(borrowers[b], "CONTACTED")
      <4>1. doc = [un EXCEPT !.attempts = @ + 1]
        BY <3>2 DEF ReleasedBorrower
      <4>2. /\ un \in BorrowerDocuments /\ un.attempts = borrowers[b].attempts
            /\ un.status = "CONTACTED" /\ un.reservedBy = None /\ un.lease = None
        BY <2>1, UnreservedOK DEF BorrowerStatuses
      <4>3. QED
        BY <2>1, <4>1, <4>2, StoreAssumption DEF BorrowerDocuments
    <3>3. CASE outcome = "RETRY"
      <4> DEFINE n  == borrowers[b].attempts + 1
                 st == IF n >= MaxAttempts THEN "EXHAUSTED" ELSE "PENDING"
                 un == Unreserved(borrowers[b], st)
      <4>1. doc = [un EXCEPT !.attempts = n, !.due = FALSE]
        BY <3>3 DEF ReleasedBorrower
      <4>2. /\ un \in BorrowerDocuments
            /\ un.status = st /\ un.reservedBy = None /\ un.lease = None
        BY <2>1, UnreservedOK DEF BorrowerStatuses
      <4>3. n \in 0..MaxAttempts
        BY <2>1, StoreAssumption
      <4>4. /\ doc \in BorrowerDocuments
            /\ doc.status = st /\ doc.reservedBy = None /\ doc.lease = None
            /\ doc.attempts = n
        <5> HIDE DEF st, un, n
        <5> QED BY <4>1, <4>2, <4>3 DEF BorrowerDocuments
      <4>5. QED
        BY <4>3, <4>4, StoreAssumption
    <3>4. QED
      BY <3>1, <3>2, <3>3
  <2>3. borrowers' = [borrowers EXCEPT ![b] = doc]
    BY <1>1 DEF ReleaseBorrower
  <2>4. QED
    BY <2>2, <2>3 DEF BorrowersOK
<1>2. CASE ~ReleaseBorrowerMatches(b, worker)
  BY <1>2 DEF BorrowersOK, ReleaseBorrower
<1>3. QED
  BY <1>1, <1>2

LEMMA ReclaimBorrowerOK ==
  ASSUME BorrowersOK, NEW b \in Borrowers, ReclaimBorrower(b)
  PROVE  BorrowersOK'
<1>1. CASE b \in ExpiredBorrowerLeases
  <2> DEFINE un == Unreserved(borrowers[b], "PENDING")
  <2>1. /\ borrowers[b] \in BorrowerDocuments
        /\ borrowers[b].status = "RESERVED"
        /\ borrowers[b].attempts < MaxAttempts
    BY <1>1 DEF ExpiredBorrowerLeases, BorrowersOK
  <2>2. /\ un \in BorrowerDocuments /\ un.status = "PENDING"
        /\ un.reservedBy = None /\ un.lease = None
        /\ un.attempts = borrowers[b].attempts
    BY <2>1, UnreservedOK DEF BorrowerStatuses
  <2>3. borrowers' = [borrowers EXCEPT ![b] = [un EXCEPT !.due = TRUE]]
    BY <1>1 DEF ReclaimBorrower, BorrowersOK
  <2> HIDE DEF un
  <2>4. QED
    BY <2>1, <2>2, <2>3 DEF BorrowersOK, BorrowerDocuments
<1>2. CASE b \notin ExpiredBorrowerLeases
  BY <1>2 DEF BorrowersOK, ReclaimBorrower
<1>3. QED
  BY <1>1, <1>2

LEMMA BackoffElapsesOK ==
  ASSUME BorrowersOK, NEW b \in Borrowers, BackoffElapses(b)
  PROVE  BorrowersOK'
BY DEF BorrowersOK, BackoffElapses, BorrowerDocuments

-----------------------------------------------------------------------------
(* CallRepository                                                          *)

(* The two values every call operation sets updated_at to.                 *)
LEMMA IdleBounds == 0 \in 0..StaleAfter /\ StaleAfter \in 0..StaleAfter
BY StoreAssumption

LEMMA CreateCallOK ==
  ASSUME CallsOK, NEW k \in CallKeys, NEW worker \in WorkerIds,
         CreateCall(k, worker)
  PROVE  CallsOK'
<1> DEFINE doc == [calls[k] EXCEPT !.state = "QUEUED", !.by = worker,
                                   !.idle = StaleAfter]
<1>1. doc \in CallDocuments
  BY IdleBounds DEF CallsOK, CallDocuments, CallStates
<1>2. calls' = [calls EXCEPT ![k] = doc] \/ calls' = calls
  BY DEF CreateCall, CallsOK
<1>3. QED
  BY <1>1, <1>2 DEF CallsOK

LEMMA TransitionCallOK ==
  ASSUME CallsOK, NEW k \in CallKeys, NEW target \in CallStates,
         TransitionCall(k, target)
  PROVE  CallsOK'
<1> DEFINE doc == [calls[k] EXCEPT
                     !.state = target,
                     !.answered = @ \/ target = "ANSWERED",
                     !.idle = IF IsTerminal(target) THEN 0 ELSE StaleAfter]
<1>1. doc \in CallDocuments
  BY IdleBounds DEF CallsOK, CallDocuments
<1>2. calls' = [calls EXCEPT ![k] = doc] \/ calls' = calls
  BY DEF TransitionCall, CallsOK
<1>3. QED
  BY <1>1, <1>2 DEF CallsOK

LEMMA AttachProviderCallIdOK ==
  ASSUME CallsOK, NEW k \in CallKeys, NEW line \in LineIds,
         AttachProviderCallId(k, line)
  PROVE  CallsOK'
<1> DEFINE doc == [calls[k] EXCEPT !.line = line, !.idle = StaleAfter]
<1>1. doc \in CallDocuments
  BY IdleBounds DEF CallsOK, CallDocuments
<1>2. calls' = [calls EXCEPT ![k] = doc] \/ calls' = calls
  BY DEF AttachProviderCallId, CallsOK
<1>3. QED
  BY <1>1, <1>2 DEF CallsOK

-----------------------------------------------------------------------------
(* Initially, and when time passes.                                        *)

LEMMA StoreInitOK ==
  StoreInit => AgentsOK /\ BorrowersOK /\ CallsOK
BY StoreAssumption DEF StoreInit, AgentsOK, BorrowersOK, CallsOK,
   AgentDocuments, AgentStates, BorrowerDocuments, BorrowerStatuses,
   CallDocuments, CallStates

(* A lease stays within its bounds, and is there as long as it was.        *)
LEMMA LeaseElapses ==
  ASSUME NEW lease \in 0..TTL \cup {None}
  PROVE  /\ Elapsed(lease) \in 0..TTL \cup {None}
         /\ lease # None <=> Elapsed(lease) # None
<1>1. TTL \in Nat /\ None \notin Nat
  BY StoreAssumption
<1>2. CASE lease = None
  BY <1>2 DEF Elapsed
<1>3. CASE lease \in 0..TTL
  BY <1>1, <1>3 DEF Elapsed
<1>4. QED
  BY <1>2, <1>3

LEMMA IdleElapses ==
  ASSUME NEW idle \in 0..StaleAfter
  PROVE  Elapsed(idle) \in 0..StaleAfter
<1>1. StaleAfter \in Nat /\ idle # None
  BY StoreAssumption
<1>2. QED
  BY <1>1 DEF Elapsed

LEMMA TickStoreOK ==
  ASSUME AgentsOK, BorrowersOK, CallsOK, TickStore
  PROVE  AgentsOK' /\ BorrowersOK' /\ CallsOK'
<1>1. AgentsOK'
  <2>1. ASSUME NEW a \in Agents
        PROVE  /\ [agents[a] EXCEPT !.lease = Elapsed(@)] \in AgentDocuments
               /\ agents[a].lease # None => Elapsed(agents[a].lease) # None
    <3>1. agents[a] \in AgentDocuments
      BY DEF AgentsOK
    <3>2. /\ Elapsed(agents[a].lease) \in 0..TTL \cup {None}
          /\ agents[a].lease # None <=> Elapsed(agents[a].lease) # None
      BY <3>1, LeaseElapses DEF AgentDocuments
    <3>3. QED
      BY <3>1, <3>2 DEF AgentDocuments
  <2>2. QED
    BY <2>1 DEF TickStore, AgentsOK, AgentDocuments
<1>2. BorrowersOK'
  <2>1. ASSUME NEW b \in Borrowers
        PROVE  /\ [borrowers[b] EXCEPT !.lease = Elapsed(@)]
                     \in BorrowerDocuments
               /\ borrowers[b].lease # None
                    <=> Elapsed(borrowers[b].lease) # None
    <3>1. borrowers[b] \in BorrowerDocuments
      BY DEF BorrowersOK
    <3>2. /\ Elapsed(borrowers[b].lease) \in 0..TTL \cup {None}
          /\ borrowers[b].lease # None
               <=> Elapsed(borrowers[b].lease) # None
      BY <3>1, LeaseElapses DEF BorrowerDocuments
    <3>3. QED
      BY <3>1, <3>2 DEF BorrowerDocuments
  <2>2. QED
    BY <2>1 DEF TickStore, BorrowersOK, BorrowerDocuments
<1>3. CallsOK'
  <2>1. ASSUME NEW k \in CallKeys
        PROVE  [calls[k] EXCEPT !.idle = Elapsed(@)] \in CallDocuments
    <3>1. calls[k] \in CallDocuments /\ Elapsed(calls[k].idle) \in 0..StaleAfter
      BY IdleElapses DEF CallsOK, CallDocuments
    <3>2. QED
      BY <3>1 DEF CallDocuments
  <2>2. QED
    BY <2>1 DEF TickStore, CallsOK
<1>4. QED
  BY <1>1, <1>2, <1>3

-----------------------------------------------------------------------------
(***************************************************************************)
(* The carrier.                                                            *)
(***************************************************************************)


(* The call a handler is in the middle of, and what it makes of it.        *)
HandlersOK ==
  \A l \in 1..MaxLines :
    lines[l].handler.pc # "idle" =>
      lines[l].handler.call \in CallKeys /\ lines[l].handler.target \in EventTypes

ProviderOK == ProviderTypeOK /\ HandlersOK

LEMMA IdleProviderOK == ProviderOK /\ UNCHANGED providerVars => ProviderOK'
BY DEF ProviderOK, ProviderTypeOK, HandlersOK, providerVars

-----------------------------------------------------------------------------
(* Scripts                                                                 *)

LEMMA HonestScripts ==
  AnsweredScript \in Seq(Events) /\ NoAnswerScript \in Seq(Events)
<1>1. \A i \in 1..4, t \in EventTypes : Event(i, t) \in Events
  BY DEF Event, Events
<1>2. {"RINGING", "ANSWERED", "CONNECTED", "COMPLETED", "FAILED"} = EventTypes
  BY DEF EventTypes
<1>3. QED
  BY <1>1, <1>2 DEF AnsweredScript, NoAnswerScript

LEMMA SwappedIsScript ==
  ASSUME NEW s \in Seq(Events), NEW i \in 1..(Len(s) - 1)
  PROVE  Swapped(s, i) \in Seq(Events)
<1>1. s \in [1..Len(s) -> Events] /\ i \in 1..Len(s) /\ i + 1 \in 1..Len(s)
  OBVIOUS
<1>2. Swapped(s, i) \in [1..Len(s) -> Events]
  BY <1>1 DEF Swapped
<1>3. QED
  BY <1>2

LEMMA DuplicatedIsScript ==
  ASSUME NEW s \in Seq(Events), NEW i \in 1..Len(s)
  PROVE  Duplicated(s, i) \in Seq(Events)
<1>1. \A j \in 1..(Len(s) + 1) : (IF j <= i THEN s[j] ELSE s[j - 1]) \in Events
  OBVIOUS
<1>2. Duplicated(s, i) \in [1..(Len(s) + 1) -> Events]
  BY <1>1 DEF Duplicated
<1>3. QED
  BY <1>2

(* Whatever the carrier does to a script, it delivers events.              *)
LEMMA DeliveriesAreScripts ==
  ASSUME NEW d \in Deliveries
  PROVE  d[1] \in Seq(Events) /\ d[2] \in LineStatuses
<1>1. ASSUME NEW s \in Seq(Events)
      PROVE  Scripts(s) \subseteq Seq(Events)
  <2>1. \A t \in MaybeSwapped(s) : t \in Seq(Events)
    BY SwappedIsScript DEF MaybeSwapped
  <2>2. \A t \in MaybeSwapped(s) : \A u \in MaybeDuplicated(t) : u \in Seq(Events)
    BY <2>1, DuplicatedIsScript DEF MaybeDuplicated
  <2>3. QED
    BY <2>2 DEF Scripts
<1>2. QED
  BY <1>1, HonestScripts DEF Deliveries, LineStatuses

-----------------------------------------------------------------------------
(* One lemma per operation.                                                *)

LEMMA IdleHandlerOK == IdleHandler \in Handlers /\ IdleHandler.pc = "idle"
BY DEF IdleHandler, Handlers, HandlerPcs

LEMMA NoLineOK ==
  /\ NoLine \in Lines /\ NoLine.handler.pc = "idle"
  /\ \A status \in LineStatuses :
       Closed(status) \in Lines /\ Closed(status).handler.pc = "idle"
<1>1. NoLine \in Lines /\ NoLine.handler.pc = "idle"
  BY IdleHandlerOK DEF NoLine, Lines, LineStatuses
<1>2. QED
  BY <1>1 DEF Closed, Lines

LEMMA ProviderInitOK == ProviderInit => ProviderOK
BY ProviderAssumption, NoLineOK
DEF ProviderInit, ProviderOK, ProviderTypeOK, HandlersOK

(* Any step of a handler that keeps the line and its handler well formed.  *)
LEMMA LineOK ==
  ASSUME ProviderOK, NEW l \in 1..MaxLines, NEW line \in Lines,
         line.handler.pc # "idle" =>
           line.handler.call \in CallKeys /\ line.handler.target \in EventTypes,
         lines' = [lines EXCEPT ![l] = line],
         nextLine' \in 0..MaxLines, asked' \in SUBSET CallKeys
  PROVE  ProviderOK'
BY DEF ProviderOK, ProviderTypeOK, HandlersOK

LEMMA AcceptOK ==
  ASSUME ProviderOK, NEW k \in CallKeys, Accept(k)
  PROVE  ProviderOK' /\ nextLine + 1 \in 1..MaxLines
<1>1. nextLine + 1 \in 1..MaxLines /\ nextLine' \in 0..MaxLines
  BY ProviderAssumption DEF Accept, ProviderOK, ProviderTypeOK
<1>2. asked' \in SUBSET CallKeys
  BY DEF Accept, ProviderOK, ProviderTypeOK
<1>3. PICK d \in Deliveries :
        lines' = [lines EXCEPT ![nextLine + 1] =
                    [key |-> k, status |-> "ACTIVE", script |-> d[1],
                     final |-> d[2], handler |-> IdleHandler]]
  BY DEF Accept
<1> DEFINE line == [key |-> k, status |-> "ACTIVE", script |-> d[1],
                    final |-> d[2], handler |-> IdleHandler]
<1>4. line \in Lines /\ line.handler.pc = "idle"
  BY DeliveriesAreScripts, IdleHandlerOK DEF Lines, LineStatuses
<1>5. QED
  BY <1>1, <1>2, <1>3, <1>4, LineOK

LEMMA RefuseOK ==
  ASSUME ProviderOK, NEW k \in CallKeys, Refuse(k)
  PROVE  ProviderOK'
BY DEF Refuse, ProviderOK, ProviderTypeOK, HandlersOK

LEMMA HangupOK ==
  ASSUME ProviderOK, NEW l \in 1..MaxLines, Hangup(l)
  PROVE  ProviderOK'
<1>1. nextLine' \in 0..MaxLines /\ asked' \in SUBSET CallKeys
  BY DEF Hangup, ProviderOK, ProviderTypeOK
<1>2. CASE lines' = lines
  BY <1>1, <1>2 DEF ProviderOK, ProviderTypeOK, HandlersOK
<1>3. CASE lines' = [lines EXCEPT ![l] = Closed("COMPLETED")]
  BY <1>1, <1>3, NoLineOK, LineOK DEF LineStatuses
<1>4. QED
  BY <1>2, <1>3 DEF Hangup

(* The handler the processor leaves the task at.                           *)
HandlerOK(handler) ==
  /\ handler \in Handlers
  /\ handler.pc # "idle" =>
       handler.call \in CallKeys /\ handler.target \in EventTypes

LEMMA DeliverOK ==
  ASSUME ProviderOK, NEW l \in 1..MaxLines, NEW handler, HandlerOK(handler),
         HasEvent(l), Deliver(l, handler)
  PROVE  ProviderOK'
<1> DEFINE line == [lines[l] EXCEPT !.script = Tail(@), !.handler = handler]
<1>1. Tail(lines[l].script) \in Seq(Events)
  BY DEF HasEvent, ProviderOK, ProviderTypeOK, Lines
<1>2. line \in Lines /\ line.handler = handler
  BY <1>1 DEF ProviderOK, ProviderTypeOK, Lines, HandlerOK
<1>3. lines' = [lines EXCEPT ![l] = line]
  BY DEF Deliver, ProviderOK, ProviderTypeOK
<1>4. nextLine' \in 0..MaxLines /\ asked' \in SUBSET CallKeys
  BY DEF Deliver, ProviderOK, ProviderTypeOK
<1> HIDE DEF line
<1>5. QED
  BY <1>2, <1>3, <1>4, LineOK DEF HandlerOK

LEMMA LineClosesOK ==
  ASSUME ProviderOK, NEW l \in 1..MaxLines, LineEnds(l) \/ DeliveryDies(l)
  PROVE  ProviderOK'
<1>1. nextLine' \in 0..MaxLines /\ asked' \in SUBSET CallKeys
  BY DEF LineEnds, DeliveryDies, ProviderOK, ProviderTypeOK
<1>2. PICK status \in LineStatuses : lines' = [lines EXCEPT ![l] = Closed(status)]
  BY DEF LineEnds, DeliveryDies, ProviderOK, ProviderTypeOK, Lines, LineStatuses
<1>3. QED
  BY <1>1, <1>2, NoLineOK, LineOK

LEMMA ProviderRestartsOK ==
  ASSUME ProviderOK, ProviderRestarts
  PROVE  ProviderOK'
BY NoLineOK, ProviderAssumption
DEF ProviderRestarts, ProviderOK, ProviderTypeOK, HandlersOK

=============================================================================
