--------------------------- MODULE BookingProofs ---------------------------
(***************************************************************************)
(* Nobody is booked twice.  The proof is one of ownership: at every moment *)
(* at most one worker, active call, event or sweep has the right to        *)
(* release an agent, and at most one has the right to release a borrower;  *)
(* they hand it on to one another, and no lease runs out while a worker or *)
(* a conversation has it.                                                  *)
(***************************************************************************)
EXTENDS SmartDialerProofs, FiniteSetTheorems

(* No crash, cancellation or database error, nothing outlasts its lease    *)
(* and agents leave between calls only: each of the faults left out does   *)
(* lead to a double booking.  An event may overtake the write of the       *)
(* provider call id, and a delivery may be lost track of.                  *)
WellBehaved ==
  /\ Faults \subseteq {"early", "lostCall"}
  /\ SessionActions \cap {"leave", "silence"} = {}

-----------------------------------------------------------------------------
(* The inductive invariant                                                 *)

(* Who may release an agent or a borrower: a worker until the call is      *)
(* active and again when it failed, the call while it is active, the event *)
(* that ended it, the sweep that cancelled it.                             *)
HoldsAgentPcs    == {"claimBorrower", "create", "reserve", "freeAgent"}
HoldsBorrowerPcs == {"create", "reserve", "freeAgent", "freeBorrower"}

Ending(l, pcs) == Handler(l).pc \in pcs /\ IsTerminal(Handler(l).target)

AgentClaims ==
  {[kind |-> "dial", by |-> w, of |-> dial[w].agent] :
     w \in {v \in Workers : dial[v].pc \in HoldsAgentPcs}}
  \cup {[kind |-> "call", by |-> k, of |-> k.agent] : k \in FindActive}
  \cup {[kind |-> "line", by |-> l, of |-> HandlerAgent(l)] :
          l \in {m \in 1..MaxLines : Ending(m, {"readAgent", "moveAgent"})}}

BorrowerClaims ==
  {[kind |-> "dial", by |-> w, of |-> dial[w].borrower,
    attempt |-> dial[w].attempt] :
     w \in {v \in Workers : dial[v].pc \in HoldsBorrowerPcs}}
  \cup {[kind |-> "call", by |-> k, of |-> k.borrower,
         attempt |-> k.attempt] : k \in FindActive}
  \cup {[kind |-> "line", by |-> l, of |-> Handler(l).call.borrower,
         attempt |-> Handler(l).call.attempt] :
          l \in {m \in 1..MaxLines :
                   Ending(m, {"readAgent", "moveAgent", "freeBorrower"})}}
  \cup {[kind |-> "sweep", by |-> None, of |-> k.borrower,
         attempt |-> k.attempt] :
          k \in {j \in CallKeys : sweep.step = "freeBorrower" /\
                                  sweep.item.call = j}}

Exclusive(claims) == \A c, d \in claims : c.of = d.of => c = d

(* An agent carries the name of the running process only while booked, and *)
(* at most one party has booked the agent.                                 *)
AgentsBooked ==
  /\ \A a \in Agents :
       /\ agents[a].reservedBy # None => HasCall(a) /\ agents[a].reservedBy = epoch
       /\ agents[a].call # None => agents[a].call.agent = a
       /\ agents[a].alive
  /\ Exclusive(AgentClaims)
  /\ \A c \in AgentClaims : HasCall(c.of)

(* So for a borrower, whose next attempt is the one under way.             *)
BorrowersBooked ==
  /\ \A b \in Borrowers :
       borrowers[b].status = "RESERVED" =>
         borrowers[b].reservedBy = epoch /\ borrowers[b].due
  /\ Exclusive(BorrowerClaims)
  /\ \A c \in BorrowerClaims :
       /\ borrowers[c.of].status = "RESERVED"
       /\ c.attempt = borrowers[c.of].attempts + 1

(* A worker's call is where the worker left it, and nobody else has it.    *)
HasCallPcs == {"initiate", "markDialing", "bind", "originate", "attach",
               "failCall"}

CallStateAt ==
  [reserve |-> "QUEUED", initiate |-> "RESERVED", markDialing |-> "INITIATED",
   bind |-> "INITIATED", originate |-> "INITIATED", attach |-> "INITIATED",
   failCall |-> "INITIATED"]

SetUpOK(w) ==
  /\ dial[w].pc = "claimBorrower" => dial[w].outcome = "RELEASED"
  /\ dial[w].pc \in {"claimBorrower", "create", "reserve", "initiate",
                     "markDialing"} =>
       /\ agents[dial[w].agent].state = "RESERVED"
       /\ agents[dial[w].agent].version = dial[w].version
  /\ dial[w].pc \in HasCallPcs \cup {"reserve"} =>
       calls[DialKey(w)].state = CallStateAt[dial[w].pc]
  /\ dial[w].pc \in HasCallPcs =>
       /\ calls[DialKey(w)].line = None
       /\ \A v \in Workers \ {w} :
            dial[v].pc \in HasCallPcs => DialKey(v) # DialKey(w)
  /\ dial[w].pc \in {"freeAgent", "freeBorrower"} /\ dial[w].outcome = "RETRY" =>
       IsTerminal(calls[DialKey(w)].state)

SetUpsOK == \A w \in Workers : SetUpOK(w)

(* A queued call has its worker; an active one is on the agent's document, *)
(* or its worker is about to write it there.                               *)
CallBooked(k) ==
  /\ calls[k].state # "ABSENT" => calls[k].by = epoch
  /\ calls[k].state = "QUEUED" =>
       \E w \in Workers : dial[w].pc = "reserve" /\ DialKey(w) = k
  /\ k \in FindActive =>
       \/ agents[k.agent].call = k
       \/ \E w \in Workers :
            dial[w].pc \in {"initiate", "markDialing", "bind"} /\ DialKey(w) = k

CallsBooked == \A k \in CallKeys : CallBooked(k)

(* No lease runs out on a worker or a conversation; that of the agent runs *)
(* out before that of the borrower, and before the call is stale.          *)
Open(k) == calls[k].state \in CallStates \ TerminalCallStates

LeasesOK ==
  /\ \A w \in Workers : SettingUp(w) =>
       /\ agents[dial[w].agent].lease # 0
       /\ dial[w].borrower # None => borrowers[dial[w].borrower].lease # 0
       /\ dial[w].pc \in {"create", "reserve"} =>
            agents[dial[w].agent].lease <= borrowers[dial[w].borrower].lease
  /\ \A l \in 1..MaxLines : Talking(l) =>
       /\ agents[lines[l].key.agent].lease # 0
       /\ borrowers[lines[l].key.borrower].lease # 0
  /\ \A k \in CallKeys : Open(k) =>
       agents[k.agent].lease = 0 \/ agents[k.agent].lease < calls[k].idle
  /\ \A k \in FindActive :
       agents[k.agent].lease <= borrowers[k.borrower].lease

(* A line is the line of one call, and events find that call only.         *)
LinesOK ==
  /\ \A k \in CallKeys : calls[k].line # None =>
       /\ calls[k].line <= nextLine
       /\ Talking(calls[k].line) => lines[calls[k].line].key = k
  /\ \A w \in Workers : dial[w].pc = "attach" =>
       /\ dial[w].line <= nextLine
       /\ Talking(dial[w].line) => lines[dial[w].line].key = DialKey(w)
       /\ \A k \in CallKeys : calls[k].line # dial[w].line
       /\ \A v \in Workers \ {w} :
            dial[v].pc = "attach" => dial[v].line # dial[w].line
  /\ \A l \in 1..MaxLines :
       /\ Talking(l) => l <= nextLine /\ lines[l].key \in CallKeys
       /\ lines[l].final # "ACTIVE"
       /\ Handler(l).pc # "idle" =>
            /\ Talking(l)
            /\ Handler(l).call = lines[l].key
            /\ calls[lines[l].key].line # None
       /\ Handler(l).pc = "freeBorrower" => IsTerminal(Handler(l).target)

(* Agents whose lease ran out are reclaimed first, and are as they were    *)
(* found until then; nothing is left for the sweep of orphans.             *)
SweepBooked ==
  /\ sweep.stage \notin {"orphans", "heartbeats"}
  /\ sweep.stage = "agentLeases" =>
       /\ \A i \in sweep.todo :
            i.agent \in ExpiredAgentLeases /\ i = Snapshot(i.agent)
       /\ \A a \in ExpiredAgentLeases : Snapshot(a) \in sweep.todo
  /\ sweep.stage \notin {"asleep", "agentLeases"} => ExpiredAgentLeases = {}
  /\ sweep.step # "next" =>
       /\ sweep.stage = "agentLeases"
       /\ \A k \in FindActive : k.agent # sweep.item.agent
  /\ sweep.step = "freeBorrower" => IsTerminal(calls[sweep.item.call].state)

(* There is a call for every attempt.                                      *)
AttemptsCounted ==
  \A b \in Borrowers : \A n \in 1..borrowers[b].attempts :
    \E k \in CallKeys :
      k.borrower = b /\ k.attempt = n /\ IsTerminal(calls[k].state)

BookingInv ==
  /\ CallsInv
  /\ AgentsBooked
  /\ BorrowersBooked
  /\ SetUpsOK
  /\ CallsBooked
  /\ LeasesOK
  /\ LinesOK
  /\ SweepBooked
  /\ AttemptsCounted

-----------------------------------------------------------------------------
(* What is where                                                           *)

LEMMA Types ==
  ASSUME CallsInv
  PROVE  /\ agents \in [Agents -> AgentDocuments]
         /\ borrowers \in [Borrowers -> BorrowerDocuments]
         /\ calls \in [CallKeys -> CallDocuments]
         /\ lines \in [1..MaxLines -> Lines]
         /\ nextLine \in 0..MaxLines
         /\ dial \in [Workers -> Dials]
         /\ epoch \in WorkerIds
         /\ epoch # None
         /\ sweep \in [stage : Stages, todo : SUBSET Items, step : SweepSteps,
                       item : Items \cup {None}]
BY StoreAssumption
DEF CallsInv, IInv, StoreOK, AgentsOK, BorrowersOK, CallsOK, ProviderOK,
    ProviderTypeOK, AllocatorOK, AllocatorTypeOK, RecoveryOK, RecoveryTypeOK,
    WorkerIds

LEMMA DialTypes ==
  ASSUME CallsInv, NEW w \in Workers
  PROVE  /\ dial[w] \in Dials
         /\ dial[w].pc # "idle" => dial[w].agent \in Agents
         /\ dial[w].pc \notin {"idle", "claimBorrower"} =>
              /\ dial[w].borrower \in Borrowers
              /\ dial[w].attempt \in 1..MaxAttempts
              /\ DialKey(w) \in CallKeys
         /\ dial[w].pc = "attach" => dial[w].line \in 1..MaxLines
         /\ DialKey(w).agent = dial[w].agent
         /\ DialKey(w).borrower = dial[w].borrower
         /\ DialKey(w).attempt = dial[w].attempt
BY DialKeyOK
DEF CallsInv, IInv, AllocatorOK, AllocatorTypeOK, DialOK, DialKey,
    IdempotencyKey

LEMMA KeyTypes ==
  ASSUME NEW k \in CallKeys
  PROVE  /\ k.agent \in Agents
         /\ k.borrower \in Borrowers
         /\ k.attempt \in 1..MaxAttempts
BY DEF CallKeys

LEMMA HandlerTypes ==
  ASSUME CallsInv, NEW l \in 1..MaxLines
  PROVE  /\ Handler(l) \in Handlers
         /\ Handler(l).pc # "idle" =>
              /\ Handler(l).call \in CallKeys
              /\ HandlerAgent(l) \in Agents
              /\ Handler(l).call.borrower \in Borrowers
              /\ Handler(l).target \in EventTypes
              /\ Handler(l).target \in CallStates
BY HandlerInvOK, BusyHandlerOK DEF CallsInv, IInv, ProcessorInv

(* The item at hand is of the sweep that is running.                       *)
LEMMA ItemTypes ==
  ASSUME CallsInv
  PROVE  /\ sweep.todo \subseteq ItemsOf(sweep.stage)
         /\ sweep.step # "next" => sweep.item \in sweep.todo
         /\ sweep.step = "freeBorrower" => sweep.item.call \in CallKeys
BY DEF CallsInv, IInv, RecoveryOK, SweepOK, SweepsOK

LEMMA ClaimTypes ==
  ASSUME CallsInv
  PROVE  /\ \A c \in AgentClaims : c.of \in Agents
         /\ \A c \in BorrowerClaims : c.of \in Borrowers
<1>1. \A w \in Workers :
        /\ dial[w].pc \in HoldsAgentPcs => dial[w].agent \in Agents
        /\ dial[w].pc \in HoldsBorrowerPcs => dial[w].borrower \in Borrowers
  BY DialTypes DEF HoldsAgentPcs, HoldsBorrowerPcs
<1>2. \A k \in CallKeys : k.agent \in Agents /\ k.borrower \in Borrowers
  BY DEF CallKeys
<1>3. \A l \in 1..MaxLines :
        Handler(l).pc # "idle" => HandlerAgent(l) \in Agents /\
                                  Handler(l).call.borrower \in Borrowers
  BY HandlerTypes
<1>4. \A c \in AgentClaims : c.of \in Agents
  BY <1>1, <1>2, <1>3 DEF AgentClaims, FindActive, Ending
<1>5. \A c \in BorrowerClaims : c.of \in Borrowers
  BY <1>1, <1>2, <1>3 DEF BorrowerClaims, FindActive, Ending
<1>6. QED
  BY <1>4, <1>5

-----------------------------------------------------------------------------
(* Claims change hands.                                                    *)

LEMMA ClaimsDropped ==
  ASSUME NEW claims, NEW left, Exclusive(claims), left \subseteq claims
  PROVE  Exclusive(left)
BY DEF Exclusive

LEMMA ClaimHandedOn ==
  ASSUME NEW claims, NEW left, Exclusive(claims), NEW c \in claims, NEW d,
         d.of = c.of, left \subseteq (claims \ {c}) \cup {d}
  PROVE  Exclusive(left)
BY DEF Exclusive

LEMMA ClaimAdded ==
  ASSUME NEW claims, NEW left, Exclusive(claims), NEW d,
         \A c \in claims : c.of # d.of, left \subseteq claims \cup {d}
  PROVE  Exclusive(left)
BY DEF Exclusive

(* Membership, one kind of claim at a time.                                *)
DialClaim(w) == [kind |-> "dial", by |-> w, of |-> dial[w].agent]
CallClaim(k) == [kind |-> "call", by |-> k, of |-> k.agent]
LineClaim(l) == [kind |-> "line", by |-> l, of |-> HandlerAgent(l)]

LEMMA AgentClaimKinds ==
  \A c : c \in AgentClaims <=>
    \/ \E w \in Workers : dial[w].pc \in HoldsAgentPcs /\ c = DialClaim(w)
    \/ \E k \in FindActive : c = CallClaim(k)
    \/ \E l \in 1..MaxLines :
         Ending(l, {"readAgent", "moveAgent"}) /\ c = LineClaim(l)
BY DEF AgentClaims, DialClaim, CallClaim, LineClaim

DialBorrowerClaim(w) ==
  [kind |-> "dial", by |-> w, of |-> dial[w].borrower,
   attempt |-> dial[w].attempt]
CallBorrowerClaim(k) ==
  [kind |-> "call", by |-> k, of |-> k.borrower, attempt |-> k.attempt]
LineBorrowerClaim(l) ==
  [kind |-> "line", by |-> l, of |-> Handler(l).call.borrower,
   attempt |-> Handler(l).call.attempt]
SweepBorrowerClaim(k) ==
  [kind |-> "sweep", by |-> None, of |-> k.borrower, attempt |-> k.attempt]

LEMMA BorrowerClaimKinds ==
  \A c : c \in BorrowerClaims <=>
    \/ \E w \in Workers :
         dial[w].pc \in HoldsBorrowerPcs /\ c = DialBorrowerClaim(w)
    \/ \E k \in FindActive : c = CallBorrowerClaim(k)
    \/ \E l \in 1..MaxLines :
         /\ Ending(l, {"readAgent", "moveAgent", "freeBorrower"})
         /\ c = LineBorrowerClaim(l)
    \/ \E k \in CallKeys :
         /\ sweep.step = "freeBorrower" /\ sweep.item.call = k
         /\ c = SweepBorrowerClaim(k)
BY DEF BorrowerClaims, DialBorrowerClaim, CallBorrowerClaim,
       LineBorrowerClaim, SweepBorrowerClaim

(* Whoever has booked an agent is the only one who has.                    *)
LEMMA AgentClaimsApart ==
  ASSUME Exclusive(AgentClaims)
  PROVE  /\ \A w \in Workers : dial[w].pc \in HoldsAgentPcs =>
              /\ \A v \in Workers \ {w} :
                   dial[v].pc \in HoldsAgentPcs => dial[v].agent # dial[w].agent
              /\ \A k \in FindActive : k.agent # dial[w].agent
              /\ \A l \in 1..MaxLines : Ending(l, {"readAgent", "moveAgent"}) =>
                   HandlerAgent(l) # dial[w].agent
         /\ \A k \in FindActive :
              /\ \A j \in FindActive \ {k} : j.agent # k.agent
              /\ \A l \in 1..MaxLines : Ending(l, {"readAgent", "moveAgent"}) =>
                   HandlerAgent(l) # k.agent
<1>1. \A w \in Workers :
        dial[w].pc \in HoldsAgentPcs => DialClaim(w) \in AgentClaims
  BY AgentClaimKinds
<1>2. \A k \in FindActive : CallClaim(k) \in AgentClaims
  BY AgentClaimKinds
<1>3. \A l \in 1..MaxLines :
        Ending(l, {"readAgent", "moveAgent"}) => LineClaim(l) \in AgentClaims
  BY AgentClaimKinds
<1>4. \A c, d \in AgentClaims : c.of = d.of => c = d
  BY DEF Exclusive
<1>5. ASSUME NEW w \in Workers, dial[w].pc \in HoldsAgentPcs
      PROVE  /\ \A v \in Workers \ {w} :
                  dial[v].pc \in HoldsAgentPcs => dial[v].agent # dial[w].agent
             /\ \A k \in FindActive : k.agent # dial[w].agent
             /\ \A l \in 1..MaxLines :
                  Ending(l, {"readAgent", "moveAgent"}) =>
                    HandlerAgent(l) # dial[w].agent
  <2>1. \A c \in AgentClaims : c.of = dial[w].agent => c = DialClaim(w)
    BY <1>1, <1>4, <1>5 DEF DialClaim
  <2>2. \A v \in Workers \ {w} :
          DialClaim(v).of = dial[v].agent /\ DialClaim(v) # DialClaim(w)
    BY DEF DialClaim
  <2>3. \A k \in FindActive :
          CallClaim(k).of = k.agent /\ CallClaim(k) # DialClaim(w)
    BY DEF DialClaim, CallClaim
  <2>4. \A l \in 1..MaxLines :
          LineClaim(l).of = HandlerAgent(l) /\ LineClaim(l) # DialClaim(w)
    BY DEF DialClaim, LineClaim
  <2>5. QED
    BY <1>1, <1>2, <1>3, <2>1, <2>2, <2>3, <2>4
<1>6. ASSUME NEW k \in FindActive
      PROVE  /\ \A j \in FindActive \ {k} : j.agent # k.agent
             /\ \A l \in 1..MaxLines :
                  Ending(l, {"readAgent", "moveAgent"}) =>
                    HandlerAgent(l) # k.agent
  <2>1. \A c \in AgentClaims : c.of = k.agent => c = CallClaim(k)
    BY <1>2, <1>4 DEF CallClaim
  <2>2. \A j \in FindActive \ {k} :
          CallClaim(j).of = j.agent /\ CallClaim(j) # CallClaim(k)
    BY DEF CallClaim
  <2>3. \A l \in 1..MaxLines :
          LineClaim(l).of = HandlerAgent(l) /\ LineClaim(l) # CallClaim(k)
    BY DEF CallClaim, LineClaim
  <2>4. QED
    BY <1>2, <1>3, <2>1, <2>2, <2>3
<1>7. QED
  BY <1>5, <1>6

LEMMA BorrowerClaimsApart ==
  ASSUME Exclusive(BorrowerClaims)
  PROVE  /\ \A w \in Workers : dial[w].pc \in HoldsBorrowerPcs =>
              /\ \A v \in Workers \ {w} :
                   dial[v].pc \in HoldsBorrowerPcs =>
                     dial[v].borrower # dial[w].borrower
              /\ \A k \in FindActive : k.borrower # dial[w].borrower
         /\ \A k \in FindActive :
              /\ \A j \in FindActive \ {k} : j.borrower # k.borrower
              /\ \A l \in 1..MaxLines :
                   Ending(l, {"readAgent", "moveAgent", "freeBorrower"}) =>
                     Handler(l).call.borrower # k.borrower
              /\ sweep.step = "freeBorrower" /\ sweep.item.call \in CallKeys =>
                   sweep.item.call.borrower # k.borrower
<1>1. \A w \in Workers : dial[w].pc \in HoldsBorrowerPcs =>
        DialBorrowerClaim(w) \in BorrowerClaims
  BY BorrowerClaimKinds
<1>2. \A k \in FindActive : CallBorrowerClaim(k) \in BorrowerClaims
  BY BorrowerClaimKinds
<1>3. \A l \in 1..MaxLines :
        Ending(l, {"readAgent", "moveAgent", "freeBorrower"}) =>
          LineBorrowerClaim(l) \in BorrowerClaims
  BY BorrowerClaimKinds
<1>4. sweep.step = "freeBorrower" /\ sweep.item.call \in CallKeys =>
        SweepBorrowerClaim(sweep.item.call) \in BorrowerClaims
  BY BorrowerClaimKinds
<1>5. \A c, d \in BorrowerClaims : c.of = d.of => c = d
  BY DEF Exclusive
<1>6. ASSUME NEW w \in Workers, dial[w].pc \in HoldsBorrowerPcs
      PROVE  /\ \A v \in Workers \ {w} :
                  dial[v].pc \in HoldsBorrowerPcs =>
                    dial[v].borrower # dial[w].borrower
             /\ \A k \in FindActive : k.borrower # dial[w].borrower
  <2>1. \A c \in BorrowerClaims :
          c.of = dial[w].borrower => c = DialBorrowerClaim(w)
    BY <1>1, <1>5, <1>6 DEF DialBorrowerClaim
  <2>2. \A v \in Workers \ {w} :
          /\ DialBorrowerClaim(v).of = dial[v].borrower
          /\ DialBorrowerClaim(v) # DialBorrowerClaim(w)
    BY DEF DialBorrowerClaim
  <2>3. \A k \in FindActive :
          /\ CallBorrowerClaim(k).of = k.borrower
          /\ CallBorrowerClaim(k) # DialBorrowerClaim(w)
    BY DEF DialBorrowerClaim, CallBorrowerClaim
  <2>4. QED
    BY <1>1, <1>2, <2>1, <2>2, <2>3
<1>7. ASSUME NEW k \in FindActive
      PROVE  /\ \A j \in FindActive \ {k} : j.borrower # k.borrower
             /\ \A l \in 1..MaxLines :
                  Ending(l, {"readAgent", "moveAgent", "freeBorrower"}) =>
                    Handler(l).call.borrower # k.borrower
             /\ sweep.step = "freeBorrower" /\ sweep.item.call \in CallKeys =>
                  sweep.item.call.borrower # k.borrower
  <2>1. \A c \in BorrowerClaims :
          c.of = k.borrower => c = CallBorrowerClaim(k)
    BY <1>2, <1>5 DEF CallBorrowerClaim
  <2>2. \A j \in FindActive \ {k} :
          /\ CallBorrowerClaim(j).of = j.borrower
          /\ CallBorrowerClaim(j) # CallBorrowerClaim(k)
    BY DEF CallBorrowerClaim
  <2>3. \A l \in 1..MaxLines :
          /\ LineBorrowerClaim(l).of = Handler(l).call.borrower
          /\ LineBorrowerClaim(l) # CallBorrowerClaim(k)
    BY DEF CallBorrowerClaim, LineBorrowerClaim
  <2>4. /\ SweepBorrowerClaim(sweep.item.call).of = sweep.item.call.borrower
        /\ SweepBorrowerClaim(sweep.item.call) # CallBorrowerClaim(k)
    BY DEF CallBorrowerClaim, SweepBorrowerClaim
  <2>5. QED
    BY <1>2, <1>3, <1>4, <2>1, <2>2, <2>3, <2>4
<1>8. QED
  BY <1>6, <1>7

-----------------------------------------------------------------------------
(* What each step does, document by document                               *)

LEMMA StepKinds ==
  ASSUME WellBehaved, [Next]_vars
  PROVE  /\ epoch' = epoch
         /\ \/ \E w \in Workers : Dialer(w)
            \/ \E l \in 1..MaxLines : Processor(l)
            \/ Recovery
            \/ \E a \in Agents : Session(a) \/ WrapUpEnds(a)
            \/ \E b \in Borrowers : Backoff(b)
            \/ Tick
            \/ UNCHANGED vars
<1>1. ~Crash /\ ~DatabaseError /\ ~ \E w \in Workers : Cancelled(w)
  BY DEF WellBehaved, Crash, DatabaseError, Cancelled
<1>2. \/ \E w \in Workers : Dialer(w)
      \/ \E l \in 1..MaxLines : Processor(l)
      \/ Recovery
      \/ \E a \in Agents : Session(a) \/ WrapUpEnds(a)
      \/ \E b \in Borrowers : Backoff(b)
      \/ Tick
      \/ UNCHANGED vars
  BY <1>1 DEF Next
<1>3. \A w \in Workers : Dialer(w) => epoch' = epoch
  BY DEF Dialer, DialStep, ClaimAgent, ClaimBorrower, GiveAgentBack, Create,
         Reserve, Initiate, MarkDialing, Bind, Originate, Attach, FailCall,
         FreeAgent, FreeBorrower
<1>4. QED
  BY <1>2, <1>3 DEF Processor, Recovery, Session, WrapUpEnds, Backoff, Tick,
                    allocatorVars, vars

LEMMA ClaimAgentDoes ==
  ASSUME BookingInv, NEW w \in Workers, ClaimAgent(w)
  PROVE  \E a \in Agents :
           /\ dial[w].pc = "idle"
           /\ agents[a].state = "AVAILABLE"
           /\ \A x \in Agents \ {a} : agents'[x] = agents[x]
           /\ agents'[a].state = "RESERVED" /\ agents'[a].reservedBy = epoch
           /\ agents'[a].lease = TTL /\ agents'[a].call = agents[a].call
           /\ agents'[a].alive = agents[a].alive
           /\ dial'[w].pc = "claimBorrower" /\ dial'[w].agent = a
           /\ dial'[w].version = agents'[a].version
           /\ dial'[w].borrower = None /\ dial'[w].outcome = "RELEASED"
           /\ UNCHANGED <<borrowers, calls, lines, nextLine>>
<1>1. PICK a \in Agents :
        /\ TryReserveAgent(a, epoch)
        /\ dial' = [dial EXCEPT ![w] =
                      [IdleDial EXCEPT !.pc = "claimBorrower", !.agent = a,
                                       !.version = agents[a].version + 1]]
  BY DEF ClaimAgent
<1>2. agents \in [Agents -> AgentDocuments] /\ dial \in [Workers -> Dials]
  BY Types DEF BookingInv
<1>3. /\ dial'[w].pc = "claimBorrower" /\ dial'[w].agent = a
      /\ dial'[w].version = agents[a].version + 1
      /\ dial'[w].borrower = None /\ dial'[w].outcome = "RELEASED"
  BY <1>1, <1>2 DEF IdleDial
<1>4. /\ agents[a].state = "AVAILABLE"
      /\ \A x \in Agents \ {a} : agents'[x] = agents[x]
      /\ agents'[a] = [agents[a] EXCEPT !.state = "RESERVED",
                         !.reservedBy = epoch, !.lease = TTL, !.version = @ + 1]
  BY <1>1, <1>2 DEF TryReserveAgent, TryReserveAgentMatches
<1>5. /\ agents'[a].state = "RESERVED" /\ agents'[a].reservedBy = epoch
      /\ agents'[a].lease = TTL /\ agents'[a].call = agents[a].call
      /\ agents'[a].alive = agents[a].alive
      /\ agents'[a].version = agents[a].version + 1
  BY <1>2, <1>4 DEF AgentDocuments
<1>6. UNCHANGED <<borrowers, calls, lines, nextLine>> /\ dial[w].pc = "idle"
  BY DEF ClaimAgent, providerVars
<1> WITNESS a \in Agents
<1>7. QED
  BY <1>3, <1>4, <1>5, <1>6

LEMMA ClaimBorrowerDoes ==
  ASSUME BookingInv, NEW w \in Workers, ClaimBorrower(w)
  PROVE  \E b \in Borrowers :
           /\ dial[w].pc = "claimBorrower"
           /\ borrowers[b].status = "PENDING" /\ borrowers[b].due
           /\ \A x \in Borrowers \ {b} : borrowers'[x] = borrowers[x]
           /\ borrowers'[b].status = "RESERVED"
           /\ borrowers'[b].reservedBy = epoch /\ borrowers'[b].lease = TTL
           /\ borrowers'[b].attempts = borrowers[b].attempts
           /\ borrowers'[b].due = borrowers[b].due
           /\ dial'[w].pc \in {"create", "freeAgent"}
           /\ dial'[w].agent = dial[w].agent
           /\ dial'[w].version = dial[w].version
           /\ dial'[w].borrower = b
           /\ dial'[w].attempt = borrowers[b].attempts + 1
           /\ dial'[w].outcome = dial[w].outcome
           /\ UNCHANGED <<agents, calls, lines, nextLine>>
<1>1. borrowers \in [Borrowers -> BorrowerDocuments] /\ dial \in [Workers -> Dials]
  BY Types DEF BookingInv
<1>2. PICK b \in Borrowers, pc \in {"create", "freeAgent"} :
        /\ TryReserveBorrower(b, epoch)
        /\ dial' = [dial EXCEPT ![w].pc = pc, ![w].borrower = b,
                                ![w].attempt = borrowers[b].attempts + 1]
  BY DEF ClaimBorrower
<1>3. /\ dial'[w].pc = pc /\ dial'[w].agent = dial[w].agent
      /\ dial'[w].version = dial[w].version
      /\ dial'[w].borrower = b
      /\ dial'[w].attempt = borrowers[b].attempts + 1
      /\ dial'[w].outcome = dial[w].outcome
  BY <1>1, <1>2 DEF Dials
<1>4. /\ borrowers[b].status = "PENDING" /\ borrowers[b].due
      /\ \A x \in Borrowers \ {b} : borrowers'[x] = borrowers[x]
      /\ borrowers'[b] = [borrowers[b] EXCEPT !.status = "RESERVED",
                            !.reservedBy = epoch, !.lease = TTL]
  BY <1>1, <1>2 DEF TryReserveBorrower, TryReserveBorrowerMatches
<1>5. /\ borrowers'[b].status = "RESERVED"
      /\ borrowers'[b].reservedBy = epoch /\ borrowers'[b].lease = TTL
      /\ borrowers'[b].attempts = borrowers[b].attempts
      /\ borrowers'[b].due = borrowers[b].due
  <2>1. borrowers[b] \in BorrowerDocuments
    BY <1>1
  <2>2. QED
    BY <1>4, <2>1 DEF BorrowerDocuments
<1>6. /\ UNCHANGED <<agents, calls, lines, nextLine>>
      /\ dial[w].pc = "claimBorrower"
  BY DEF ClaimBorrower, providerVars
<1> WITNESS b \in Borrowers
<1>7. QED
  BY <1>2, <1>3, <1>4, <1>5, <1>6

(* Giving an agent back.                                                   *)
Freed(a) ==
  /\ agents'[a].state \in {"AVAILABLE", "WRAP_UP"}
  /\ agents'[a].reservedBy = None /\ agents'[a].lease = None
  /\ agents'[a].call = None /\ agents'[a].alive = agents[a].alive

LEMMA ReleaseAgentDoes ==
  ASSUME BookingInv, NEW a \in Agents, NEW worker,
         NEW target \in {"AVAILABLE", "WRAP_UP"}, NEW actor,
         ReleaseAgent(a, worker, target, actor)
  PROVE  /\ \A x \in Agents \ {a} : agents'[x] = agents[x]
         /\ agents'[a] = agents[a] \/ Freed(a)
<1>1. agents \in [Agents -> AgentDocuments]
  BY Types DEF BookingInv
<1>2. CASE agents' = [agents EXCEPT ![a] = Unbound(@, target)]
  <2>1. agents'[a] = Unbound(agents[a], target)
    BY <1>1, <1>2
  <2>2. Freed(a)
    BY <1>1, <2>1 DEF Unbound, Freed, AgentDocuments
  <2>3. QED
    BY <1>1, <1>2, <2>2
<1>3. QED
  BY <1>2 DEF ReleaseAgent

LEMMA GiveAgentBackDoes ==
  ASSUME BookingInv, NEW w \in Workers, GiveAgentBack(w)
  PROVE  /\ dial[w].pc = "claimBorrower"
         /\ \A x \in Agents \ {dial[w].agent} : agents'[x] = agents[x]
         /\ agents'[dial[w].agent] = agents[dial[w].agent] \/ Freed(dial[w].agent)
         /\ dial'[w].pc = "idle"
         /\ UNCHANGED <<borrowers, calls, lines, nextLine>>
BY ReleaseAgentDoes, DialTypes, Types
DEF GiveAgentBack, EndDial, IdleDial, providerVars, BookingInv

LEMMA FreeAgentDoes ==
  ASSUME BookingInv, NEW w \in Workers, FreeAgent(w)
  PROVE  /\ dial[w].pc = "freeAgent"
         /\ \A x \in Agents \ {dial[w].agent} : agents'[x] = agents[x]
         /\ agents'[dial[w].agent] = agents[dial[w].agent] \/ Freed(dial[w].agent)
         /\ dial'[w] = [dial[w] EXCEPT !.pc = "freeBorrower"]
         /\ UNCHANGED <<borrowers, calls, lines, nextLine>>
BY ReleaseAgentDoes, DialTypes, Types
DEF FreeAgent, Goto, providerVars, BookingInv

(* A transition of a call that applies.                                    *)
LEMMA TransitionDoes ==
  ASSUME CallsInv, NEW k \in CallKeys, NEW target,
         TransitionCall(k, target), TransitionCallMatches(k, target)
  PROVE  /\ \A j \in CallKeys \ {k} : calls'[j] = calls[j]
         /\ calls'[k].state = target
         /\ calls'[k].by = calls[k].by /\ calls'[k].line = calls[k].line
         /\ calls'[k].idle = IF IsTerminal(target) THEN 0 ELSE StaleAfter
<1>1. calls \in [CallKeys -> CallDocuments]
  BY Types
<1>2. calls' = [calls EXCEPT ![k].state = target,
                             ![k].answered = @ \/ target = "ANSWERED",
                             ![k].idle = IF IsTerminal(target) THEN 0
                                         ELSE StaleAfter]
  BY DEF TransitionCall
<1>3. calls[k] \in CallDocuments
  BY <1>1
<1>4. QED
  BY <1>1, <1>2, <1>3 DEF CallDocuments

(* The key is new: a call queued under it has a worker, who would have     *)
(* booked the same agent.                                                  *)
LEMMA CreateDoes ==
  ASSUME BookingInv, NEW w \in Workers, Create(w)
  PROVE  /\ dial[w].pc = "create"
         /\ \/ /\ calls[DialKey(w)].state = "ABSENT"
               /\ \A k \in CallKeys \ {DialKey(w)} : calls'[k] = calls[k]
               /\ calls'[DialKey(w)].state = "QUEUED"
               /\ calls'[DialKey(w)].by = epoch
               /\ calls'[DialKey(w)].line = calls[DialKey(w)].line
               /\ calls'[DialKey(w)].idle = StaleAfter
               /\ dial'[w] = [dial[w] EXCEPT !.pc = "reserve"]
            \/ /\ UNCHANGED calls
               /\ dial'[w] = [dial[w] EXCEPT !.pc = "freeAgent",
                                             !.outcome = "RELEASED"]
         /\ UNCHANGED <<agents, borrowers, lines, nextLine>>
<1> DEFINE key == DialKey(w)
<1>1. dial[w].pc = "create" /\ UNCHANGED <<agents, borrowers, lines, nextLine>>
  BY DEF Create, providerVars
<1>2. key \in CallKeys /\ key.agent = dial[w].agent
  BY <1>1, DialTypes DEF BookingInv
<1>3. calls \in [CallKeys -> CallDocuments] /\ dial \in [Workers -> Dials]
  BY Types DEF BookingInv
<1>4. calls[key].state # "QUEUED"
  <2>1. SUFFICES ASSUME NEW v \in Workers, dial[v].pc = "reserve",
                        DialKey(v) = key
                 PROVE  FALSE
    BY <1>2 DEF BookingInv, CallsBooked, CallBooked
  <2>2. v # w /\ dial[v].agent = dial[w].agent
    BY <1>1, <1>2, <2>1, DialTypes DEF BookingInv
  <2>3. QED
    BY <1>1, <2>1, <2>2, AgentClaimsApart
    DEF BookingInv, AgentsBooked, HoldsAgentPcs
<1>5. CASE calls[key].state = "ABSENT"
  <2>1. /\ calls' = [calls EXCEPT ![key].state = "QUEUED", ![key].by = epoch,
                                  ![key].idle = StaleAfter]
        /\ dial' = [dial EXCEPT ![w].pc = "reserve"]
    BY <1>5 DEF Create, CreateCall, Goto
  <2>2. calls[key] \in CallDocuments
    BY <1>2, <1>3
  <2> HIDE DEF key
  <2>3. /\ \A k \in CallKeys \ {key} : calls'[k] = calls[k]
        /\ calls'[key].state = "QUEUED" /\ calls'[key].by = epoch
        /\ calls'[key].line = calls[key].line
        /\ calls'[key].idle = StaleAfter
    BY <1>2, <1>3, <2>1, <2>2 DEF CallDocuments
  <2>4. dial'[w] = [dial[w] EXCEPT !.pc = "reserve"]
    BY <1>3, <2>1
  <2>5. QED
    BY <1>1, <1>5, <2>3, <2>4 DEF key
<1>6. CASE calls[key].state # "ABSENT"
  BY <1>1, <1>3, <1>4, <1>6 DEF Create, CreateCall, GotoRelease
<1>7. QED
  BY <1>5, <1>6

(* The other transitions a worker makes apply, each to its own call.       *)
LEMMA DialTransitionDoes ==
  ASSUME BookingInv, NEW w \in Workers,
         Reserve(w) \/ Initiate(w) \/ FailCall(w)
  PROVE  /\ DialKey(w) \in CallKeys
         /\ \A k \in CallKeys \ {DialKey(w)} : calls'[k] = calls[k]
         /\ calls'[DialKey(w)].by = calls[DialKey(w)].by
         /\ calls'[DialKey(w)].line = calls[DialKey(w)].line
         /\ Reserve(w) =>
              /\ dial[w].pc = "reserve"
              /\ calls[DialKey(w)].state = "QUEUED"
              /\ calls'[DialKey(w)].state = "RESERVED"
              /\ calls'[DialKey(w)].idle = StaleAfter
              /\ dial'[w] = [dial[w] EXCEPT !.pc = "initiate"]
         /\ Initiate(w) =>
              /\ dial[w].pc = "initiate"
              /\ calls[DialKey(w)].state = "RESERVED"
              /\ calls'[DialKey(w)].state = "INITIATED"
              /\ calls'[DialKey(w)].idle = StaleAfter
              /\ dial'[w] = [dial[w] EXCEPT !.pc = "markDialing"]
         /\ FailCall(w) =>
              /\ dial[w].pc = "failCall"
              /\ calls[DialKey(w)].state = "INITIATED"
              /\ calls'[DialKey(w)].state = "FAILED"
              /\ dial'[w] = [dial[w] EXCEPT !.pc = "freeAgent",
                                            !.outcome = "RETRY"]
         /\ UNCHANGED <<agents, borrowers, lines, nextLine>>
<1> DEFINE key == DialKey(w)
<1>1. /\ Reserve(w) => dial[w].pc = "reserve" /\ TransitionCall(key, "RESERVED")
      /\ Initiate(w) => dial[w].pc = "initiate" /\ TransitionCall(key, "INITIATED")
      /\ FailCall(w) => dial[w].pc = "failCall" /\ TransitionCall(key, "FAILED")
  BY DEF Reserve, Initiate, FailCall
<1>2. key \in CallKeys
  BY <1>1, DialTypes DEF BookingInv
<1>3. dial \in [Workers -> Dials]
  BY Types DEF BookingInv
<1>4. /\ Reserve(w) => calls[key].state = "QUEUED"
      /\ Initiate(w) => calls[key].state = "RESERVED"
      /\ FailCall(w) => calls[key].state = "INITIATED"
  BY <1>1 DEF BookingInv, SetUpsOK, SetUpOK, HasCallPcs, CallStateAt
<1>5. /\ Reserve(w) => TransitionCallMatches(key, "RESERVED")
      /\ Initiate(w) => TransitionCallMatches(key, "INITIATED")
      /\ FailCall(w) => TransitionCallMatches(key, "FAILED")
  BY <1>4 DEF TransitionCallMatches, CallStates, TerminalCallStates,
              CallStateRank
<1>6. /\ Reserve(w) => dial'[w] = [dial[w] EXCEPT !.pc = "initiate"]
      /\ Initiate(w) => dial'[w] = [dial[w] EXCEPT !.pc = "markDialing"]
      /\ FailCall(w) => dial'[w] = [dial[w] EXCEPT !.pc = "freeAgent",
                                                   !.outcome = "RETRY"]
  BY <1>3, <1>5 DEF Reserve, Initiate, FailCall, Goto, GotoRelease
<1>7. UNCHANGED <<agents, borrowers, lines, nextLine>>
  BY DEF Reserve, Initiate, FailCall, providerVars
<1>8. ~IsTerminal("RESERVED") /\ ~IsTerminal("INITIATED")
  BY DEF IsTerminal, TerminalCallStates
<1> HIDE DEF key
<1>9. CASE Reserve(w)
  <2>1. /\ \A k \in CallKeys \ {key} : calls'[k] = calls[k]
        /\ calls'[key].state = "RESERVED"
        /\ calls'[key].by = calls[key].by /\ calls'[key].line = calls[key].line
        /\ calls'[key].idle = StaleAfter
    BY <1>1, <1>2, <1>5, <1>8, <1>9, TransitionDoes DEF BookingInv
  <2>2. ~Initiate(w) /\ ~FailCall(w)
    BY <1>1, <1>9
  <2>3. QED
    BY <1>1, <1>2, <1>4, <1>6, <1>7, <1>9, <2>1, <2>2 DEF key
<1>10. CASE Initiate(w)
  <2>1. /\ \A k \in CallKeys \ {key} : calls'[k] = calls[k]
        /\ calls'[key].state = "INITIATED"
        /\ calls'[key].by = calls[key].by /\ calls'[key].line = calls[key].line
        /\ calls'[key].idle = StaleAfter
    BY <1>1, <1>2, <1>5, <1>8, <1>10, TransitionDoes DEF BookingInv
  <2>2. ~Reserve(w) /\ ~FailCall(w)
    BY <1>1, <1>10
  <2>3. QED
    BY <1>1, <1>2, <1>4, <1>6, <1>7, <1>10, <2>1, <2>2 DEF key
<1>11. CASE FailCall(w)
  <2>1. /\ \A k \in CallKeys \ {key} : calls'[k] = calls[k]
        /\ calls'[key].state = "FAILED"
        /\ calls'[key].by = calls[key].by /\ calls'[key].line = calls[key].line
    BY <1>1, <1>2, <1>5, <1>11, TransitionDoes DEF BookingInv
  <2>2. ~Reserve(w) /\ ~Initiate(w)
    BY <1>1, <1>11
  <2>3. QED
    BY <1>1, <1>2, <1>4, <1>6, <1>7, <1>11, <2>1, <2>2 DEF key
<1>12. QED
  BY <1>9, <1>10, <1>11

(* An active call keeps its agent and its borrower for the process.        *)
LEMMA ActiveHolds ==
  ASSUME BookingInv, NEW k \in FindActive
  PROVE  /\ k \in CallKeys
         /\ k.agent \in Agents /\ k.borrower \in Borrowers
         /\ HasCall(k.agent)
         /\ agents[k.agent].reservedBy = epoch
         /\ agents[k.agent].lease \in 0..TTL
         /\ borrowers[k.borrower].status = "RESERVED"
         /\ borrowers[k.borrower].reservedBy = epoch
         /\ borrowers[k.borrower].lease \in 0..TTL
         /\ k.attempt = borrowers[k.borrower].attempts + 1
         /\ calls[k].by = epoch
<1>1. k \in CallKeys /\ k.agent \in Agents /\ k.borrower \in Borrowers
  BY KeyTypes DEF FindActive
<1>2. /\ CallClaim(k) \in AgentClaims
      /\ CallBorrowerClaim(k) \in BorrowerClaims
  BY AgentClaimKinds, BorrowerClaimKinds
<1>3. CallClaim(k).of = k.agent
  BY DEF CallClaim
<1>4. /\ CallBorrowerClaim(k).of = k.borrower
      /\ CallBorrowerClaim(k).attempt = k.attempt
  BY DEF CallBorrowerClaim
<1>5. HasCall(k.agent)
  BY <1>2, <1>3 DEF BookingInv, AgentsBooked
<1>6. /\ borrowers[k.borrower].status = "RESERVED"
      /\ k.attempt = borrowers[k.borrower].attempts + 1
  BY <1>2, <1>4 DEF BookingInv, BorrowersBooked
<1>7. /\ agents[k.agent].reservedBy # None
      /\ agents[k.agent].lease \in 0..TTL
  BY <1>1, <1>5 DEF HasCall, BookingInv, CallsInv, IInv, StoreOK, AgentsOK,
                    AgentDocuments
<1>8. borrowers[k.borrower].lease \in 0..TTL
  BY <1>1, <1>6 DEF BookingInv, CallsInv, IInv, StoreOK, BorrowersOK,
                    BorrowerDocuments
<1>9. /\ agents[k.agent].reservedBy = epoch
      /\ borrowers[k.borrower].reservedBy = epoch
  BY <1>1, <1>6, <1>7 DEF BookingInv, AgentsBooked, BorrowersBooked
<1>10. calls[k].by = epoch
  BY <1>1 DEF BookingInv, CallsBooked, CallBooked, FindActive, CallStates
<1>11. QED
  BY <1>1, <1>5, <1>6, <1>7, <1>8, <1>9, <1>10

(* So does a worker that is setting up a call.                             *)
LEMMA DialHolds ==
  ASSUME BookingInv, NEW w \in Workers
  PROVE  /\ dial[w].pc \in HasCallPcs => DialKey(w) \in FindActive
         /\ dial[w].pc \in HoldsAgentPcs \cup HasCallPcs =>
              /\ HasCall(dial[w].agent)
              /\ agents[dial[w].agent].reservedBy = epoch
              /\ agents[dial[w].agent].lease \in 1..TTL
         /\ dial[w].pc \in HoldsBorrowerPcs \cup HasCallPcs =>
              /\ borrowers[dial[w].borrower].status = "RESERVED"
              /\ borrowers[dial[w].borrower].reservedBy = epoch
              /\ borrowers[dial[w].borrower].lease \in 1..TTL
              /\ dial[w].attempt = borrowers[dial[w].borrower].attempts + 1
<1>1. dial[w].pc \in HasCallPcs => DialKey(w) \in FindActive
  <2>1. dial[w].pc \in HasCallPcs => DialKey(w) \in CallKeys
    BY DialTypes DEF HasCallPcs, BookingInv
  <2>2. dial[w].pc \in HasCallPcs =>
          calls[DialKey(w)].state \in {"RESERVED", "INITIATED"}
    BY DEF BookingInv, SetUpsOK, SetUpOK, HasCallPcs, CallStateAt
  <2>3. QED
    BY <2>1, <2>2 DEF FindActive, CallStates, TerminalCallStates
<1>2. /\ dial[w].pc \in HoldsAgentPcs => HasCall(dial[w].agent)
      /\ dial[w].pc \in HoldsBorrowerPcs =>
           /\ borrowers[dial[w].borrower].status = "RESERVED"
           /\ dial[w].attempt = borrowers[dial[w].borrower].attempts + 1
  <2>1. /\ dial[w].pc \in HoldsAgentPcs => DialClaim(w) \in AgentClaims
        /\ dial[w].pc \in HoldsBorrowerPcs =>
             DialBorrowerClaim(w) \in BorrowerClaims
    BY AgentClaimKinds, BorrowerClaimKinds
  <2>2. /\ DialClaim(w).of = dial[w].agent
        /\ DialBorrowerClaim(w).of = dial[w].borrower
        /\ DialBorrowerClaim(w).attempt = dial[w].attempt
    BY DEF DialClaim, DialBorrowerClaim
  <2>3. \A c \in AgentClaims : HasCall(c.of)
    BY DEF BookingInv, AgentsBooked
  <2>4. \A c \in BorrowerClaims :
          /\ borrowers[c.of].status = "RESERVED"
          /\ c.attempt = borrowers[c.of].attempts + 1
    BY DEF BookingInv, BorrowersBooked
  <2>5. QED
    BY <2>1, <2>2, <2>3, <2>4
<1>3. /\ DialKey(w).agent = dial[w].agent
      /\ DialKey(w).borrower = dial[w].borrower
      /\ DialKey(w).attempt = dial[w].attempt
  BY DialTypes DEF BookingInv
<1>4. /\ dial[w].pc \in HoldsAgentPcs \cup HasCallPcs =>
           HasCall(dial[w].agent) /\ dial[w].agent \in Agents
      /\ dial[w].pc \in HoldsBorrowerPcs \cup HasCallPcs =>
           /\ dial[w].borrower \in Borrowers
           /\ borrowers[dial[w].borrower].status = "RESERVED"
           /\ dial[w].attempt = borrowers[dial[w].borrower].attempts + 1
  BY <1>1, <1>2, <1>3, ActiveHolds, DialTypes
  DEF BookingInv, HoldsAgentPcs, HoldsBorrowerPcs, HasCallPcs
<1>5. /\ dial[w].pc \in HoldsAgentPcs \cup HasCallPcs => SettingUp(w)
      /\ dial[w].pc \in HoldsBorrowerPcs \cup HasCallPcs => SettingUp(w)
  BY DEF HoldsAgentPcs, HoldsBorrowerPcs, HasCallPcs, SettingUp
<1>6. dial[w].pc \in HoldsAgentPcs \cup HasCallPcs =>
        /\ agents[dial[w].agent].reservedBy = epoch
        /\ agents[dial[w].agent].lease \in 1..TTL
  <2>1. dial[w].pc \in HoldsAgentPcs \cup HasCallPcs =>
          /\ agents[dial[w].agent].reservedBy # None
          /\ agents[dial[w].agent].lease \in 0..TTL
    BY <1>4 DEF HasCall, BookingInv, CallsInv, IInv, StoreOK, AgentsOK,
                AgentDocuments
  <2>2. SettingUp(w) => agents[dial[w].agent].lease # 0
    BY DEF BookingInv, LeasesOK
  <2>3. QED
    BY <1>4, <1>5, <2>1, <2>2 DEF BookingInv, AgentsBooked
<1>7. dial[w].pc \in HoldsBorrowerPcs \cup HasCallPcs =>
        /\ borrowers[dial[w].borrower].reservedBy = epoch
        /\ borrowers[dial[w].borrower].lease \in 1..TTL
  <2>1. dial[w].pc \in HoldsBorrowerPcs \cup HasCallPcs =>
          /\ borrowers[dial[w].borrower].lease \in 0..TTL
          /\ dial[w].borrower # None
    BY <1>4, StoreAssumption
    DEF BookingInv, CallsInv, IInv, StoreOK, BorrowersOK, BorrowerDocuments
  <2>2. SettingUp(w) /\ dial[w].borrower # None =>
          borrowers[dial[w].borrower].lease # 0
    BY DEF BookingInv, LeasesOK
  <2>3. QED
    BY <1>4, <1>5, <2>1, <2>2 DEF BookingInv, BorrowersBooked
<1>8. QED
  BY <1>1, <1>4, <1>6, <1>7

LEMMA MarkDialingDoes ==
  ASSUME BookingInv, NEW w \in Workers, MarkDialing(w)
  PROVE  /\ dial[w].pc = "markDialing"
         /\ \A x \in Agents \ {dial[w].agent} : agents'[x] = agents[x]
         /\ agents'[dial[w].agent] =
              [agents[dial[w].agent] EXCEPT !.state = "DIALING",
                                            !.version = @ + 1]
         /\ dial'[w] = [dial[w] EXCEPT !.pc = "bind"]
         /\ UNCHANGED <<borrowers, calls, lines, nextLine>>
<1> DEFINE a == dial[w].agent
<1>1. /\ dial[w].pc = "markDialing"
      /\ TransitionAgent(a, "RESERVED", "DIALING", "ALLOCATOR", dial[w].version)
      /\ UNCHANGED <<borrowers, calls, lines, nextLine>>
  BY DEF MarkDialing, providerVars
<1>2. a \in Agents
  BY <1>1, DialTypes DEF BookingInv
<1>3. /\ dial \in [Workers -> Dials] /\ agents \in [Agents -> AgentDocuments]
  BY Types DEF BookingInv
<1>4. agents[a].state = "RESERVED" /\ agents[a].version = dial[w].version
  BY <1>1 DEF BookingInv, SetUpsOK, SetUpOK
<1>5. ValidTransition("RESERVED", "DIALING", "ALLOCATOR")
  BY DEF ValidTransition, CanTransition, AgentTransitions, IsActorAllowed,
         Authorised
<1>6. agents' = [agents EXCEPT ![a].state = "DIALING", ![a].version = @ + 1]
  BY <1>1, <1>4, <1>5 DEF TransitionAgent, TransitionAgentMatches
<1>7. dial'[w] = [dial[w] EXCEPT !.pc = "bind"]
  BY <1>3 DEF MarkDialing, Goto
<1> HIDE DEF a
<1>8. /\ \A x \in Agents \ {a} : agents'[x] = agents[x]
      /\ agents'[a] = [agents[a] EXCEPT !.state = "DIALING", !.version = @ + 1]
  BY <1>2, <1>3, <1>6
<1>9. QED
  BY <1>1, <1>7, <1>8 DEF a

LEMMA BindDoes ==
  ASSUME BookingInv, NEW w \in Workers, Bind(w)
  PROVE  /\ dial[w].pc = "bind"
         /\ \A x \in Agents \ {dial[w].agent} : agents'[x] = agents[x]
         /\ agents'[dial[w].agent] =
              [agents[dial[w].agent] EXCEPT !.call = DialKey(w)]
         /\ dial'[w] = [dial[w] EXCEPT !.pc = "originate"]
         /\ UNCHANGED <<borrowers, calls, lines, nextLine>>
<1>1. /\ dial[w].pc = "bind"
      /\ BindCall(dial[w].agent, epoch, DialKey(w))
      /\ UNCHANGED <<borrowers, calls, lines, nextLine>>
  BY DEF Bind, providerVars
<1>2. dial[w].agent \in Agents
  BY <1>1, DialTypes DEF BookingInv
<1>3. /\ dial \in [Workers -> Dials] /\ agents \in [Agents -> AgentDocuments]
  BY Types DEF BookingInv
<1>4. agents[dial[w].agent].reservedBy = epoch
  BY <1>1, DialHolds DEF HasCallPcs
<1>5. agents' = [agents EXCEPT ![dial[w].agent].call = DialKey(w)]
  BY <1>1, <1>4 DEF BindCall
<1>6. dial'[w] = [dial[w] EXCEPT !.pc = "originate"]
  BY <1>3 DEF Bind, Goto
<1>7. QED
  BY <1>1, <1>2, <1>3, <1>5, <1>6

LEMMA OriginateDoes ==
  ASSUME BookingInv, NEW w \in Workers, Originate(w)
  PROVE  /\ dial[w].pc = "originate"
         /\ \/ /\ nextLine' = nextLine + 1 /\ nextLine' \in 1..MaxLines
               /\ \A l \in (1..MaxLines) \ {nextLine'} : lines'[l] = lines[l]
               /\ lines'[nextLine'].key = DialKey(w)
               /\ lines'[nextLine'].handler = IdleHandler
               /\ lines'[nextLine'].final # "ACTIVE"
               /\ dial'[w] = [dial[w] EXCEPT !.pc = "attach",
                                             !.line = nextLine + 1]
            \/ /\ UNCHANGED <<lines, nextLine>>
               /\ dial'[w] = [dial[w] EXCEPT !.pc = "failCall"]
         /\ UNCHANGED <<agents, borrowers, calls>>
<1>1. dial[w].pc = "originate" /\ UNCHANGED <<agents, borrowers, calls>>
  BY DEF Originate, storeVars
<1>2. /\ dial \in [Workers -> Dials] /\ lines \in [1..MaxLines -> Lines]
      /\ nextLine \in 0..MaxLines
  BY Types DEF BookingInv
<1>3. CASE Accept(DialKey(w)) /\
           dial' = [dial EXCEPT ![w].pc = "attach", ![w].line = nextLine + 1]
  <2>1. nextLine' = nextLine + 1 /\ nextLine' \in 1..MaxLines
    BY <1>2, <1>3, ProviderAssumption DEF Accept
  <2>2. PICK d \in Deliveries :
          lines' = [lines EXCEPT ![nextLine + 1] =
                      [key |-> DialKey(w), status |-> "ACTIVE",
                       script |-> d[1], final |-> d[2],
                       handler |-> IdleHandler]]
    BY <1>3 DEF Accept
  <2>3. /\ \A l \in (1..MaxLines) \ {nextLine'} : lines'[l] = lines[l]
        /\ lines'[nextLine'].key = DialKey(w)
        /\ lines'[nextLine'].handler = IdleHandler
        /\ lines'[nextLine'].final = d[2]
    BY <1>2, <2>1, <2>2
  <2>4. dial'[w] = [dial[w] EXCEPT !.pc = "attach", !.line = nextLine + 1]
    BY <1>2, <1>3
  <2>5. d[2] # "ACTIVE"
    BY <2>2 DEF Deliveries
  <2>6. QED
    BY <1>1, <2>1, <2>3, <2>4, <2>5
<1>4. CASE Refuse(DialKey(w)) /\ Goto(w, "failCall")
  BY <1>1, <1>2, <1>4 DEF Refuse, Goto
<1>5. QED
  BY <1>3, <1>4 DEF Originate

LEMMA AttachDoes ==
  ASSUME BookingInv, NEW w \in Workers, Attach(w)
  PROVE  /\ dial[w].pc = "attach"
         /\ DialKey(w) \in CallKeys /\ dial[w].line \in 1..MaxLines
         /\ \A k \in CallKeys \ {DialKey(w)} : calls'[k] = calls[k]
         /\ calls'[DialKey(w)] = [calls[DialKey(w)] EXCEPT
                                    !.line = dial[w].line, !.idle = StaleAfter]
         /\ dial'[w].pc = "idle"
         /\ UNCHANGED <<agents, borrowers, lines, nextLine>>
<1>1. dial[w].pc = "attach" /\ UNCHANGED <<agents, borrowers>>
  BY DEF Attach
<1>2. DialKey(w) \in CallKeys /\ dial[w].line \in 1..MaxLines
  BY <1>1, DialTypes DEF BookingInv
<1>3. /\ dial \in [Workers -> Dials] /\ calls \in [CallKeys -> CallDocuments]
  BY Types DEF BookingInv
<1>4. AttachProviderCallIdMatches(DialKey(w), dial[w].line)
  BY <1>1 DEF AttachProviderCallIdMatches, BookingInv, SetUpsOK, SetUpOK,
              HasCallPcs, LinesOK
<1>5. /\ calls' = [calls EXCEPT ![DialKey(w)].line = dial[w].line,
                                ![DialKey(w)].idle = StaleAfter]
      /\ EndDial(w) /\ UNCHANGED providerVars
  BY <1>4 DEF Attach, AttachProviderCallId
<1>6. dial'[w].pc = "idle"
  BY <1>3, <1>5 DEF EndDial, IdleDial
<1>7. QED
  BY <1>1, <1>2, <1>3, <1>5, <1>6 DEF providerVars

(* Giving a borrower back.                                                 *)
Returned(b, counted) ==
  /\ borrowers[b].status = "RESERVED"
  /\ borrowers'[b].status \in {"PENDING", "CONTACTED", "EXHAUSTED"}
  /\ borrowers'[b].reservedBy = None /\ borrowers'[b].lease = None
  /\ borrowers'[b].attempts = borrowers[b].attempts + counted
  /\ counted = 0 => borrowers'[b].status = "PENDING"

LEMMA ReleaseBorrowerDoes ==
  ASSUME BookingInv, NEW b \in Borrowers, NEW worker,
         NEW outcome \in {"RELEASED", "CONTACTED", "RETRY"},
         ReleaseBorrower(b, worker, outcome)
  PROVE  /\ \A x \in Borrowers \ {b} : borrowers'[x] = borrowers[x]
         /\ IF ReleaseBorrowerMatches(b, worker)
            THEN Returned(b, IF outcome = "RELEASED" THEN 0 ELSE 1)
            ELSE borrowers'[b] = borrowers[b]
<1>1. borrowers \in [Borrowers -> BorrowerDocuments]
  BY Types DEF BookingInv
<1>2. CASE ~ReleaseBorrowerMatches(b, worker)
  BY <1>2 DEF ReleaseBorrower
<1>3. CASE ReleaseBorrowerMatches(b, worker)
  <2> DEFINE doc == borrowers[b]
  <2>1. borrowers' = [borrowers EXCEPT ![b] = ReleasedBorrower(@, outcome)]
    BY <1>3 DEF ReleaseBorrower
  <2>2. doc \in BorrowerDocuments /\ doc.status = "RESERVED"
    BY <1>1, <1>3 DEF ReleaseBorrowerMatches
  <2>3. borrowers'[b] = ReleasedBorrower(doc, outcome)
    BY <1>1, <2>1
  <2>4. \A x \in Borrowers \ {b} : borrowers'[x] = borrowers[x]
    BY <1>1, <2>1
  <2> HIDE DEF doc
  <2>5. ASSUME NEW new, new = ReleasedBorrower(doc, outcome)
        PROVE  /\ new.status \in {"PENDING", "CONTACTED", "EXHAUSTED"}
               /\ new.reservedBy = None /\ new.lease = None
               /\ new.attempts =
                    doc.attempts + (IF outcome = "RELEASED" THEN 0 ELSE 1)
               /\ outcome = "RELEASED" => new.status = "PENDING"
    <3>1. CASE outcome = "RELEASED"
      <4>1. new = Unreserved(doc, "PENDING")
        BY <2>5, <3>1 DEF ReleasedBorrower
      <4>2. QED
        BY <2>2, <3>1, <4>1 DEF Unreserved, BorrowerDocuments
    <3>2. CASE outcome = "CONTACTED"
      <4>1. new = [Unreserved(doc, "CONTACTED") EXCEPT !.attempts = @ + 1]
        BY <2>5, <3>2 DEF ReleasedBorrower
      <4>2. QED
        BY <2>2, <3>2, <4>1 DEF Unreserved, BorrowerDocuments
    <3>3. CASE outcome = "RETRY"
      <4>1. PICK s \in {"EXHAUSTED", "PENDING"} :
              new = [Unreserved(doc, s) EXCEPT !.attempts = doc.attempts + 1,
                                               !.due = FALSE]
        BY <2>5, <3>3 DEF ReleasedBorrower
      <4>2. QED
        BY <2>2, <3>3, <4>1 DEF Unreserved, BorrowerDocuments
    <3>4. QED
      BY <3>1, <3>2, <3>3
  <2>6. QED
    BY <1>3, <2>2, <2>3, <2>4, <2>5 DEF doc, Returned
<1>4. QED
  BY <1>2, <1>3

LEMMA FreeBorrowerDoes ==
  ASSUME BookingInv, NEW w \in Workers, FreeBorrower(w)
  PROVE  /\ dial[w].pc = "freeBorrower"
         /\ \A x \in Borrowers \ {dial[w].borrower} : borrowers'[x] = borrowers[x]
         /\ Returned(dial[w].borrower, IF dial[w].outcome = "RELEASED" THEN 0 ELSE 1)
         /\ dial'[w].pc = "idle"
         /\ UNCHANGED <<agents, calls, lines, nextLine>>
<1>1. /\ dial[w].pc = "freeBorrower"
      /\ ReleaseBorrower(dial[w].borrower, epoch, dial[w].outcome)
      /\ UNCHANGED <<agents, calls, lines, nextLine>>
  BY DEF FreeBorrower, providerVars
<1>2. /\ dial[w].borrower \in Borrowers
      /\ dial[w].outcome \in {"RELEASED", "CONTACTED", "RETRY"}
      /\ dial \in [Workers -> Dials]
  BY <1>1, DialTypes, Types DEF Dials, Outcomes, BookingInv
<1>3. ReleaseBorrowerMatches(dial[w].borrower, epoch)
  BY <1>1, DialHolds DEF HoldsBorrowerPcs, ReleaseBorrowerMatches
<1>4. dial'[w].pc = "idle"
  BY <1>2 DEF FreeBorrower, EndDial, IdleDial
<1>5. QED
  BY <1>1, <1>2, <1>3, <1>4, ReleaseBorrowerDoes

(* The delivery tasks.                                                     *)
HandlerMoves(l, handler) ==
  /\ \A m \in (1..MaxLines) \ {l} : lines'[m] = lines[m]
  /\ lines'[l].key = lines[l].key /\ lines'[l].status = lines[l].status
  /\ lines'[l].final = lines[l].final
  /\ lines'[l].handler = handler
  /\ nextLine' = nextLine

LEMMA HandlerMovesOn ==
  ASSUME BookingInv, NEW l \in 1..MaxLines, NEW handler,
         MoveHandler(l, handler) \/ Deliver(l, handler)
  PROVE  HandlerMoves(l, handler)
<1>1. lines \in [1..MaxLines -> Lines] /\ lines[l] \in Lines
  BY Types DEF BookingInv
<1>2. CASE MoveHandler(l, handler)
  BY <1>1, <1>2 DEF MoveHandler, HandlerMoves, Lines
<1>3. CASE Deliver(l, handler)
  BY <1>1, <1>3 DEF Deliver, HandlerMoves, Lines
<1>4. QED
  BY <1>2, <1>3

LEMMA ReceiveEventDoes ==
  ASSUME BookingInv, NEW l \in 1..MaxLines, ReceiveEvent(l)
  PROVE  /\ Handler(l).pc = "idle" /\ Talking(l)
         /\ \/ HandlerMoves(l, IdleHandler)
            \/ \E k \in CallKeys : \E handler :
                 /\ calls[k].line = l /\ handler.pc = "applyCall"
                 /\ handler.call = k
                 /\ HandlerMoves(l, handler)
         /\ UNCHANGED storeVars
<1>1. /\ Handler(l).pc = "idle" /\ Talking(l) /\ UNCHANGED storeVars
  BY DEF ReceiveEvent, HasEvent, Handler, Talking
<1>2. CASE Deliver(l, IdleHandler)
  BY <1>1, <1>2, HandlerMovesOn
<1>3. ASSUME NEW k \in FindByProviderCallId(l),
             Deliver(l, [IdleHandler EXCEPT !.pc = "applyCall", !.call = k,
                                            !.target = NextEvent(l).type])
      PROVE  \E j \in CallKeys : \E handler :
               /\ calls[j].line = l /\ handler.pc = "applyCall"
               /\ handler.call = j
               /\ HandlerMoves(l, handler)
  <2> DEFINE handler == [IdleHandler EXCEPT !.pc = "applyCall", !.call = k,
                                            !.target = NextEvent(l).type]
  <2>1. handler.pc = "applyCall" /\ handler.call = k
    BY DEF IdleHandler
  <2>2. HandlerMoves(l, handler)
    BY <1>3, HandlerMovesOn
  <2> HIDE DEF handler
  <2>3. QED
    BY <2>1, <2>2 DEF FindByProviderCallId
<1>4. QED
  BY <1>1, <1>2, <1>3 DEF ReceiveEvent

LEMMA ApplyCallDoes ==
  ASSUME BookingInv, NEW l \in 1..MaxLines, ApplyCall(l)
  PROVE  /\ Handler(l).pc = "applyCall"
         /\ \/ /\ UNCHANGED calls
               /\ HandlerMoves(l, IdleHandler)
            \/ /\ Handler(l).call \in FindActive
               /\ \A k \in CallKeys \ {Handler(l).call} : calls'[k] = calls[k]
               /\ calls'[Handler(l).call].state = Handler(l).target
               /\ calls'[Handler(l).call].by = calls[Handler(l).call].by
               /\ calls'[Handler(l).call].line = calls[Handler(l).call].line
               /\ calls'[Handler(l).call].idle =
                    IF IsTerminal(Handler(l).target) THEN 0 ELSE StaleAfter
               /\ HandlerMoves(l, [Handler(l) EXCEPT !.pc = "readAgent"])
         /\ UNCHANGED <<agents, borrowers>>
<1> DEFINE k == Handler(l).call
<1>1. /\ Handler(l).pc = "applyCall" /\ UNCHANGED <<agents, borrowers>>
      /\ TransitionCall(k, Handler(l).target)
  BY DEF ApplyCall
<1>2. k \in CallKeys
  BY <1>1, HandlerTypes DEF BookingInv
<1>3. CASE ~TransitionCallMatches(k, Handler(l).target)
  BY <1>1, <1>3, HandlerMovesOn DEF ApplyCall, TransitionCall
<1>4. CASE TransitionCallMatches(k, Handler(l).target)
  <2>1. HandlerMoves(l, [Handler(l) EXCEPT !.pc = "readAgent"])
    BY <1>1, <1>4, HandlerMovesOn DEF ApplyCall
  <2>2. Initiated(k)
    BY <1>1 DEF BookingInv, CallsInv, EventsOK
  <2>3. k \in FindActive
    BY <1>2, <1>4, <2>2 DEF TransitionCallMatches, Initiated, FindActive
  <2>4. /\ \A j \in CallKeys \ {k} : calls'[j] = calls[j]
        /\ calls'[k].state = Handler(l).target
        /\ calls'[k].by = calls[k].by /\ calls'[k].line = calls[k].line
        /\ calls'[k].idle = IF IsTerminal(Handler(l).target) THEN 0
                            ELSE StaleAfter
    BY <1>1, <1>2, <1>4, TransitionDoes DEF BookingInv
  <2>5. QED
    BY <1>1, <2>1, <2>3, <2>4
<1>5. QED
  BY <1>3, <1>4

(* A handler that is through with the agent is through, or goes on to the  *)
(* borrower when the event ended the call.                                 *)
LEMMA AfterAgentDoes ==
  ASSUME BookingInv, NEW l \in 1..MaxLines, Handler(l).pc # "idle"
  PROVE  IF IsTerminal(Handler(l).target)
         THEN AfterAgent(l) = [Handler(l) EXCEPT !.pc = "freeBorrower"]
         ELSE AfterAgent(l) = IdleHandler
BY DEF AfterAgent, AgentReleasingCallStates, IsTerminal, TerminalCallStates

LEMMA ReadAgentDoes ==
  ASSUME BookingInv, NEW l \in 1..MaxLines, ReadAgent(l)
  PROVE  /\ Handler(l).pc = "readAgent"
         /\ \/ HandlerMoves(l, AfterAgent(l))
            \/ \E handler :
                 /\ handler.pc = "moveAgent"
                 /\ handler.call = Handler(l).call
                 /\ handler.target = Handler(l).target
                 /\ HandlerMoves(l, handler)
         /\ UNCHANGED storeVars
<1>1. Handler(l).pc = "readAgent" /\ UNCHANGED storeVars
  BY DEF ReadAgent
<1>2. CASE MoveHandler(l, AfterAgent(l))
  BY <1>1, <1>2, HandlerMovesOn
<1>3. CASE ~MoveHandler(l, AfterAgent(l))
  <2> DEFINE handler ==
        [Handler(l) EXCEPT !.pc = "moveAgent",
                           !.seenState = agents[HandlerAgent(l)].state,
                           !.seenVersion = agents[HandlerAgent(l)].version]
  <2>1. MoveHandler(l, handler)
    BY <1>3 DEF ReadAgent
  <2>2. HandlerMoves(l, handler)
    BY <2>1, HandlerMovesOn
  <2>3. /\ handler.pc = "moveAgent" /\ handler.call = Handler(l).call
        /\ handler.target = Handler(l).target
    BY HandlerTypes DEF BookingInv, Handlers
  <2> HIDE DEF handler
  <2>4. QED
    BY <1>1, <2>2, <2>3
<1>4. QED
  BY <1>2, <1>3

(* An event that does not end the call can only answer a ringing agent.    *)
Answers(a) ==
  /\ agents[a].state = "DIALING"
  /\ agents'[a] = [agents[a] EXCEPT !.state = "CONNECTED", !.version = @ + 1]

LEMMA MoveAgentDoes ==
  ASSUME BookingInv, NEW l \in 1..MaxLines, MoveAgent(l)
  PROVE  /\ Handler(l).pc = "moveAgent"
         /\ HandlerAgent(l) \in Agents
         /\ \A x \in Agents \ {HandlerAgent(l)} : agents'[x] = agents[x]
         /\ \/ agents'[HandlerAgent(l)] = agents[HandlerAgent(l)]
            \/ IsTerminal(Handler(l).target) /\ Freed(HandlerAgent(l))
            \/ ~IsTerminal(Handler(l).target) /\ Answers(HandlerAgent(l))
         /\ HandlerMoves(l, AfterAgent(l))
         /\ UNCHANGED <<borrowers, calls>>
<1> DEFINE a == HandlerAgent(l)
           target == AgentStateForCallState[Handler(l).target]
<1>1. Handler(l).pc = "moveAgent" /\ UNCHANGED <<borrowers, calls>>
  BY DEF MoveAgent
<1>2. a \in Agents /\ Handler(l).target \in EventTypes
  BY <1>1, HandlerTypes DEF BookingInv
<1>3. HandlerMoves(l, AfterAgent(l))
  BY HandlerMovesOn DEF MoveAgent
<1>4. /\ IsTerminal(Handler(l).target) =>
           /\ target \in {"AVAILABLE", "WRAP_UP"}
           /\ Handler(l).target \in AgentReleasingCallStates
      /\ ~IsTerminal(Handler(l).target) =>
           /\ target \in {"DIALING", "CONNECTED"}
           /\ Handler(l).target \notin AgentReleasingCallStates
  BY <1>2 DEF EventTypes, IsTerminal, TerminalCallStates,
              AgentStateForCallState, AgentReleasingCallStates
<1>5. CASE IsTerminal(Handler(l).target)
  <2>1. ReleaseAgent(a, calls[Handler(l).call].by, target, "EVENT_PROCESSOR")
    BY <1>4, <1>5 DEF MoveAgent
  <2> HIDE DEF a, target
  <2>2. /\ \A x \in Agents \ {a} : agents'[x] = agents[x]
        /\ agents'[a] = agents[a] \/ Freed(a)
    BY <1>2, <1>4, <1>5, <2>1, ReleaseAgentDoes
  <2>3. QED
    BY <1>1, <1>2, <1>3, <1>5, <2>2 DEF a
<1>6. CASE ~IsTerminal(Handler(l).target)
  <2>1. TransitionAgent(a, Handler(l).seenState, target, "EVENT_PROCESSOR",
                        Handler(l).seenVersion)
    BY <1>4, <1>6 DEF MoveAgent
  <2> HIDE DEF a, target
  <2>2. CASE TransitionAgentMatches(a, Handler(l).seenState, target,
                                    "EVENT_PROCESSOR", Handler(l).seenVersion)
    <3>1. target = "CONNECTED" /\ agents[a].state = "DIALING"
      BY <1>4, <1>6, <2>2
      DEF TransitionAgentMatches, ValidTransition, IsActorAllowed, Authorised
    <3>2. agents \in [Agents -> AgentDocuments]
      BY Types DEF BookingInv
    <3>3. /\ \A x \in Agents \ {a} : agents'[x] = agents[x]
          /\ agents'[a] = [agents[a] EXCEPT !.state = "CONNECTED",
                                            !.version = @ + 1]
      BY <1>2, <2>1, <2>2, <3>1, <3>2 DEF TransitionAgent
    <3>4. QED
      BY <1>1, <1>2, <1>3, <1>6, <3>1, <3>3 DEF a, Answers
  <2>3. CASE agents' = agents
    BY <1>1, <1>2, <1>3, <2>3 DEF a
  <2>4. QED
    BY <2>1, <2>2, <2>3 DEF TransitionAgent
<1>7. QED
  BY <1>5, <1>6

LEMMA SettleBorrowerDoes ==
  ASSUME BookingInv, NEW l \in 1..MaxLines, SettleBorrower(l)
  PROVE  /\ Handler(l).pc = "freeBorrower"
         /\ LET b == Handler(l).call.borrower
            IN  /\ b \in Borrowers
                /\ \A x \in Borrowers \ {b} : borrowers'[x] = borrowers[x]
                /\ borrowers'[b] = borrowers[b] \/ Returned(b, 1)
         /\ HandlerMoves(l, IdleHandler)
         /\ UNCHANGED <<agents, calls>>
<1> DEFINE k == Handler(l).call
<1>1. Handler(l).pc = "freeBorrower" /\ UNCHANGED <<agents, calls>>
  BY DEF SettleBorrower
<1>2. k \in CallKeys /\ k.borrower \in Borrowers
  BY <1>1, HandlerTypes DEF BookingInv
<1>3. HandlerMoves(l, IdleHandler)
  BY HandlerMovesOn DEF SettleBorrower
<1>4. PICK outcome \in {"CONTACTED", "RETRY"} :
        ReleaseBorrower(k.borrower, calls[k].by, outcome)
  BY DEF SettleBorrower
<1> HIDE DEF k
<1>5. /\ \A x \in Borrowers \ {k.borrower} : borrowers'[x] = borrowers[x]
      /\ \/ borrowers'[k.borrower] = borrowers[k.borrower]
         \/ Returned(k.borrower, 1)
  BY <1>2, <1>4, ReleaseBorrowerDoes
<1>6. QED
  BY <1>1, <1>2, <1>3, <1>5 DEF k

LEMMA FinishDoes ==
  ASSUME BookingInv, NEW l \in 1..MaxLines, Finish(l)
  PROVE  /\ \A m \in (1..MaxLines) \ {l} : lines'[m] = lines[m]
         /\ Handler(l).pc = "idle"
         /\ lines'[l].handler = IdleHandler
         /\ lines'[l].status # "ACTIVE" /\ lines'[l].final # "ACTIVE"
         /\ nextLine' = nextLine
         /\ UNCHANGED storeVars
<1>1. lines \in [1..MaxLines -> Lines] /\ lines[l] \in Lines
  BY Types DEF BookingInv
<1>2. lines' = [lines EXCEPT ![l] = Closed(lines[l].final)]
  BY DEF Finish, LineEnds
<1>3. lines'[l] = Closed(lines[l].final)
  BY <1>1, <1>2
<1>4. \A m \in (1..MaxLines) \ {l} : lines'[m] = lines[m]
  BY <1>1, <1>2
<1>5. lines[l].final # "ACTIVE"
  BY DEF BookingInv, LinesOK
<1>6. QED
  BY <1>3, <1>4, <1>5 DEF Finish, LineEnds, Closed, NoLine, Handler

(* The recovery worker.  Only the sweep of agent leases, the sweep of      *)
(* borrower leases and that of wrap-ups ever find anything.                *)
LEMMA CancelBoundCallDoes ==
  ASSUME BookingInv, NEW item \in sweep.todo, CancelBoundCall(item)
  PROVE  /\ sweep.stage = "agentLeases" /\ sweep.step = "next"
         /\ item = Snapshot(item.agent) /\ item.agent \in ExpiredAgentLeases
         /\ sweep'.stage = sweep.stage /\ sweep'.todo = sweep.todo
         /\ sweep'.item = item
         /\ \/ /\ UNCHANGED calls
               /\ item.call \notin FindActive
               /\ sweep'.step = "settle"
            \/ /\ item.call \in FindActive /\ item.call.agent = item.agent
               /\ \A k \in CallKeys \ {item.call} : calls'[k] = calls[k]
               /\ calls'[item.call].state = "CANCELLED"
               /\ calls'[item.call].by = calls[item.call].by
               /\ calls'[item.call].line = calls[item.call].line
               /\ sweep'.step = "freeBorrower"
         /\ UNCHANGED <<agents, borrowers, lines, nextLine>>
<1>1. /\ sweep.stage = "agentLeases" /\ sweep.step = "next"
      /\ UNCHANGED <<agents, borrowers, lines, nextLine>>
  BY DEF CancelBoundCall, At, BookingInv, SweepBooked, providerVars
<1>2. item = Snapshot(item.agent) /\ item.agent \in ExpiredAgentLeases
  BY <1>1 DEF BookingInv, SweepBooked
<1>3. sweep \in [stage : Stages, todo : SUBSET Items, step : SweepSteps,
                 item : Items \cup {None}]
  BY Types DEF BookingInv
<1>4. item.call = agents[item.agent].call /\ item.agent \in Agents
  BY <1>2 DEF Snapshot, ExpiredAgentLeases
<1>5. agents[item.agent].call \in CallKeys \cup {None}
  BY <1>4, Types DEF BookingInv, AgentDocuments
<1>6. \A step : Step(step, item) =>
        /\ sweep'.stage = sweep.stage /\ sweep'.todo = sweep.todo
        /\ sweep'.item = item /\ sweep'.step = step
  BY <1>3 DEF Step
<1>7. item.call # None => item.call \in CallKeys /\ item.call.agent = item.agent
  BY <1>4, <1>5 DEF BookingInv, AgentsBooked
<1>8. CASE item.call = None \/ ~TransitionCallMatches(item.call, "CANCELLED")
  <2>1. UNCHANGED calls /\ Step("settle", item)
    BY <1>8 DEF CancelBoundCall, TransitionCall
  <2>2. item.call \notin FindActive
    <3>1. \A k \in FindActive : TransitionCallMatches(k, "CANCELLED")
      BY DEF FindActive, TransitionCallMatches, CallStates,
             TerminalCallStates, CallStateRank
    <3>2. None \notin FindActive
      BY NoneAssumption DEF FindActive
    <3>3. QED
      BY <1>8, <3>1, <3>2
  <2>3. QED
    BY <1>1, <1>2, <1>6, <2>1, <2>2
<1>9. CASE item.call # None /\ TransitionCallMatches(item.call, "CANCELLED")
  <2>1. TransitionCall(item.call, "CANCELLED") /\ Step("freeBorrower", item)
    BY <1>9 DEF CancelBoundCall
  <2>2. /\ \A k \in CallKeys \ {item.call} : calls'[k] = calls[k]
        /\ calls'[item.call].state = "CANCELLED"
        /\ calls'[item.call].by = calls[item.call].by
        /\ calls'[item.call].line = calls[item.call].line
    BY <1>7, <1>9, <2>1, TransitionDoes DEF BookingInv
  <2>3. item.call \in FindActive
    <3>1. ASSUME NEW w \in Workers, dial[w].pc = "reserve",
                 DialKey(w) = item.call
          PROVE  FALSE
      <4>1. dial[w].agent = item.agent
        BY <1>7, <1>9, <3>1, DialTypes DEF BookingInv
      <4>2. agents[dial[w].agent].lease \in 1..TTL
        BY <3>1, DialHolds DEF HoldsAgentPcs
      <4>3. QED
        BY <1>2, <4>1, <4>2 DEF ExpiredAgentLeases
    <3>2. QED
      BY <1>7, <1>9, <3>1
      DEF FindActive, TransitionCallMatches, BookingInv, CallsBooked, CallBooked
  <2>4. /\ sweep'.stage = sweep.stage /\ sweep'.todo = sweep.todo
        /\ sweep'.item = item /\ sweep'.step = "freeBorrower"
    BY <1>6, <2>1
  <2>5. item.call.agent = item.agent
    BY <1>7, <1>9
  <2>6. QED
    BY <1>1, <1>2, <2>2, <2>3, <2>4, <2>5
<1>10. QED
  BY <1>8, <1>9

LEMMA FreeBoundBorrowerDoes ==
  ASSUME BookingInv, FreeBoundBorrower
  PROVE  /\ sweep.step = "freeBorrower"
         /\ LET b == sweep.item.call.borrower
            IN  /\ b \in Borrowers
                /\ \A x \in Borrowers \ {b} : borrowers'[x] = borrowers[x]
                /\ borrowers'[b] = borrowers[b] \/ Returned(b, 1)
         /\ sweep' = [sweep EXCEPT !.step = "settle"]
         /\ UNCHANGED <<agents, calls, lines, nextLine>>
<1> DEFINE k == sweep.item.call
<1>1. /\ sweep.step = "freeBorrower"
      /\ ReleaseBorrower(k.borrower, calls[k].by, "RETRY")
      /\ UNCHANGED <<agents, calls, lines, nextLine>>
  BY DEF FreeBoundBorrower, At, providerVars
<1>2. k \in CallKeys /\ k.borrower \in Borrowers
  BY <1>1, ItemTypes, KeyTypes DEF BookingInv
<1>3. sweep' = [sweep EXCEPT !.step = "settle"]
  BY Types DEF FreeBoundBorrower, Step, BookingInv
<1> HIDE DEF k
<1>4. /\ \A x \in Borrowers \ {k.borrower} : borrowers'[x] = borrowers[x]
      /\ \/ borrowers'[k.borrower] = borrowers[k.borrower]
         \/ Returned(k.borrower, 1)
  BY <1>1, <1>2, ReleaseBorrowerDoes
<1>5. QED
  BY <1>1, <1>2, <1>3, <1>4 DEF k

(* An expired lease is found as it was, and the agent is reclaimed.        *)
LEMMA ReclaimAgentDoes ==
  ASSUME BookingInv, ReclaimAgent
  PROVE  /\ sweep.stage = "agentLeases" /\ sweep.step = "settle"
         /\ sweep.item \in sweep.todo
         /\ LET a == sweep.item.agent
            IN  /\ a \in ExpiredAgentLeases /\ sweep.item = Snapshot(a)
                /\ \A x \in Agents \ {a} : agents'[x] = agents[x]
                /\ Freed(a)
         /\ sweep' = [sweep EXCEPT !.todo = @ \ {sweep.item}, !.step = "next",
                                   !.item = None]
         /\ UNCHANGED <<borrowers, calls, lines, nextLine>>
<1> DEFINE i == sweep.item
           a == sweep.item.agent
<1>1. /\ sweep.stage = "agentLeases" /\ sweep.step = "settle"
      /\ ReleaseExpiredAgentLease(a, i.state, i.version)
      /\ UNCHANGED <<borrowers, calls, lines, nextLine>>
  BY DEF ReclaimAgent, At, providerVars
<1>2. i \in sweep.todo
  BY <1>1, ItemTypes DEF BookingInv
<1>3. a \in ExpiredAgentLeases /\ i = Snapshot(a)
  BY <1>1, <1>2 DEF BookingInv, SweepBooked
<1>4. /\ a \in Agents /\ agents[a].lease = 0
      /\ agents[a].state = i.state /\ agents[a].version = i.version
  BY <1>3 DEF ExpiredAgentLeases, Snapshot
<1>5. agents' = [agents EXCEPT ![a] = Unbound(@, "AVAILABLE")]
  BY <1>1, <1>4 DEF ReleaseExpiredAgentLease
<1>6. agents \in [Agents -> AgentDocuments]
  BY Types DEF BookingInv
<1>7. sweep' = [sweep EXCEPT !.todo = @ \ {sweep.item}, !.step = "next",
                             !.item = None]
  BY DEF ReclaimAgent, ItemDone
<1> HIDE DEF a, i
<1>8. /\ \A x \in Agents \ {a} : agents'[x] = agents[x]
      /\ agents'[a] = Unbound(agents[a], "AVAILABLE")
  BY <1>4, <1>5, <1>6
<1>9. Freed(a)
  BY <1>4, <1>6, <1>8 DEF Unbound, Freed, AgentDocuments
<1>10. QED
  BY <1>1, <1>2, <1>3, <1>7, <1>8, <1>9 DEF a, i

LEMMA SweepBorrowerDoes ==
  ASSUME BookingInv, NEW b \in sweep.todo, SweepBorrower(b)
  PROVE  /\ sweep.stage = "borrowerLeases" /\ sweep.step = "next"
         /\ b \in Borrowers
         /\ \A x \in Borrowers \ {b} : borrowers'[x] = borrowers[x]
         /\ \/ borrowers'[b] = borrowers[b]
            \/ borrowers[b].lease = 0 /\ Returned(b, 0)
         /\ sweep' = [sweep EXCEPT !.todo = @ \ {b}, !.step = "next",
                                   !.item = None]
         /\ UNCHANGED <<agents, calls, lines, nextLine>>
<1>1. /\ sweep.stage = "borrowerLeases" /\ sweep.step = "next"
      /\ ReclaimBorrower(b)
      /\ UNCHANGED <<agents, calls, lines, nextLine>>
  BY DEF SweepBorrower, At, providerVars
<1>2. b \in Borrowers
  BY <1>1, ItemTypes DEF BookingInv, ItemsOf, AgentStages
<1>3. sweep' = [sweep EXCEPT !.todo = @ \ {b}, !.step = "next", !.item = None]
  BY DEF SweepBorrower, ItemDone
<1>4. borrowers \in [Borrowers -> BorrowerDocuments]
  BY Types DEF BookingInv
<1>5. CASE b \notin ExpiredBorrowerLeases
  BY <1>1, <1>2, <1>3, <1>5 DEF ReclaimBorrower
<1>6. CASE b \in ExpiredBorrowerLeases
  <2>1. borrowers' = [borrowers EXCEPT
                        ![b] = [Unreserved(@, "PENDING") EXCEPT !.due = TRUE]]
    BY <1>1, <1>6 DEF ReclaimBorrower
  <2>2. /\ \A x \in Borrowers \ {b} : borrowers'[x] = borrowers[x]
        /\ borrowers'[b] = [Unreserved(borrowers[b], "PENDING") EXCEPT !.due = TRUE]
    BY <1>2, <1>4, <2>1
  <2>3. borrowers[b] \in BorrowerDocuments
    BY <1>2, <1>4
  <2>4. Returned(b, 0) /\ borrowers[b].lease = 0
    BY <1>6, <2>2, <2>3
    DEF Returned, Unreserved, BorrowerDocuments, ExpiredBorrowerLeases
  <2>5. QED
    BY <1>1, <1>2, <1>3, <2>2, <2>4
<1>7. QED
  BY <1>5, <1>6

(* Agents who are in no call.                                              *)
StaysAway(a) ==
  /\ ~HasCall(a) /\ ~HasCall(a)'
  /\ agents'[a].reservedBy = agents[a].reservedBy
  /\ agents'[a].lease = agents[a].lease
  /\ agents'[a].call = agents[a].call
  /\ agents'[a].alive = TRUE

LEMMA AwayTransitionDoes ==
  ASSUME BookingInv, NEW a \in Agents,
         NEW to, to \notin {"RESERVED", "DIALING", "CONNECTED"},
         NEW from, from \notin {"RESERVED", "DIALING", "CONNECTED"},
         NEW actor, NEW version,
         TransitionAgent(a, from, to, actor, version)
  PROVE  /\ \A x \in Agents \ {a} : agents'[x] = agents[x]
         /\ agents'[a] = agents[a] \/ StaysAway(a)
<1>1. agents \in [Agents -> AgentDocuments] /\ agents[a] \in AgentDocuments
  BY Types DEF BookingInv
<1>2. agents[a].alive = TRUE
  BY <1>1 DEF BookingInv, AgentsBooked, AgentDocuments
<1>3. CASE TransitionAgentMatches(a, from, to, actor, version)
  <2>1. /\ agents[a].state = from
        /\ \A x \in Agents \ {a} : agents'[x] = agents[x]
        /\ agents'[a] = [agents[a] EXCEPT !.state = to, !.version = @ + 1]
    BY <1>1, <1>3 DEF TransitionAgent, TransitionAgentMatches
  <2>2. QED
    BY <1>1, <1>2, <2>1 DEF StaysAway, HasCall, AgentDocuments
<1>4. QED
  BY <1>3 DEF TransitionAgent

LEMMA ReleaseStuckWrapUpDoes ==
  ASSUME BookingInv, NEW item \in sweep.todo, ReleaseStuckWrapUp(item)
  PROVE  /\ sweep.stage = "wrapUps" /\ sweep.step = "next"
         /\ item.agent \in Agents
         /\ \A x \in Agents \ {item.agent} : agents'[x] = agents[x]
         /\ \/ agents'[item.agent] = agents[item.agent]
            \/ StaysAway(item.agent)
         /\ sweep' = [sweep EXCEPT !.todo = @ \ {item}, !.step = "next",
                                   !.item = None]
         /\ UNCHANGED <<borrowers, calls, lines, nextLine>>
<1>1. /\ sweep.stage = "wrapUps" /\ sweep.step = "next"
      /\ TransitionAgent(item.agent, "WRAP_UP", "AVAILABLE", "RECOVERY",
                         item.version)
      /\ sweep' = [sweep EXCEPT !.todo = @ \ {item}, !.step = "next",
                                !.item = None]
      /\ UNCHANGED <<borrowers, calls, lines, nextLine>>
  BY DEF ReleaseStuckWrapUp, At, ItemDone, providerVars
<1>2. item.agent \in Agents
  BY <1>1, ItemTypes DEF BookingInv, ItemsOf, AgentStages, AgentSnapshots
<1>3. QED
  BY <1>1, <1>2, AwayTransitionDoes

LEMMA AgentActionDoes ==
  ASSUME WellBehaved, BookingInv, NEW a \in Agents,
         Session(a) \/ WrapUpEnds(a)
  PROVE  /\ \A x \in Agents \ {a} : agents'[x] = agents[x]
         /\ agents'[a] = agents[a] \/ StaysAway(a)
         /\ UNCHANGED <<borrowers, calls, lines, nextLine, dial, sweep>>
<1>1. UNCHANGED <<borrowers, calls, lines, nextLine, dial, sweep>>
  BY DEF Session, SessionStep, WrapUpEnds, Login, Logout, Pause, Resume,
         AgentAction, FallSilent, Heartbeat, providerVars, allocatorVars
<1>2. CASE WrapUpEnds(a)
  BY <1>1, <1>2, AwayTransitionDoes DEF WrapUpEnds
<1>3. CASE Logout(a)
  BY <1>1, <1>3, AwayTransitionDoes
  DEF Logout, AgentAction, HasCall, WellBehaved
<1>4. CASE Login(a) \/ Pause(a) \/ Resume(a)
  <2>1. \A to \in {"PAUSED", "AVAILABLE"} :
          ValidTransition(agents[a].state, to, "AGENT") =>
            agents[a].state \notin {"RESERVED", "DIALING", "CONNECTED"}
    BY DEF ValidTransition, IsActorAllowed, Authorised
  <2>2. QED
    BY <1>1, <1>4, <2>1, AwayTransitionDoes
    DEF Login, Pause, Resume, AgentAction
<1>5. ~FallSilent(a) /\ ~Heartbeat(a)
  BY DEF FallSilent, Heartbeat, WellBehaved, BookingInv, AgentsBooked
<1>6. QED
  BY <1>2, <1>3, <1>4, <1>5 DEF Session, SessionStep

LEMMA BackoffDoes ==
  ASSUME BookingInv, NEW b \in Borrowers, Backoff(b)
  PROVE  /\ borrowers[b].status # "RESERVED"
         /\ \A x \in Borrowers \ {b} : borrowers'[x] = borrowers[x]
         /\ borrowers'[b] = [borrowers[b] EXCEPT !.due = TRUE]
         /\ UNCHANGED <<agents, calls, lines, nextLine, dial, sweep>>
<1>1. borrowers \in [Borrowers -> BorrowerDocuments]
  BY Types DEF BookingInv
<1>2. borrowers[b].status # "RESERVED"
  BY DEF Backoff, BackoffElapses, BookingInv, BorrowersBooked
<1>3. QED
  BY <1>1, <1>2 DEF Backoff, BackoffElapses, providerVars, allocatorVars

-----------------------------------------------------------------------------
(* Who has booked an agent after a step.                                   *)

LEMMA AgentClaimsAfter ==
  ASSUME NEW W \in SUBSET Workers, NEW K \in SUBSET CallKeys,
         NEW L \in SUBSET (1..MaxLines),
         \A w \in Workers \ W : dial'[w].pc \in HoldsAgentPcs =>
           dial[w].pc \in HoldsAgentPcs /\ dial'[w].agent = dial[w].agent,
         \A k \in FindActive' : k \in FindActive \/ k \in K,
         \A l \in (1..MaxLines) \ L : Ending(l, {"readAgent", "moveAgent"})' =>
           /\ Ending(l, {"readAgent", "moveAgent"})
           /\ HandlerAgent(l)' = HandlerAgent(l),
         NEW c \in AgentClaims'
  PROVE  \/ /\ c \in AgentClaims
            /\ \A w \in W : c # DialClaim(w)
            /\ \A l \in L : c # LineClaim(l)
            /\ \A k \in CallKeys : c = CallClaim(k) => k \in FindActive'
         \/ \E w \in W : dial'[w].pc \in HoldsAgentPcs /\ c = DialClaim(w)'
         \/ \E k \in K : k \in FindActive' /\ c = CallClaim(k)
         \/ \E l \in L : /\ Ending(l, {"readAgent", "moveAgent"})'
                         /\ c = LineClaim(l)'
<1>1. \/ \E w \in Workers :
           dial'[w].pc \in HoldsAgentPcs /\ c = DialClaim(w)'
      \/ \E k \in FindActive' : c = CallClaim(k)
      \/ \E l \in 1..MaxLines :
           Ending(l, {"readAgent", "moveAgent"})' /\ c = LineClaim(l)'
  BY DEF AgentClaims, DialClaim, CallClaim, LineClaim
<1>2. ASSUME NEW w \in Workers \ W, dial'[w].pc \in HoldsAgentPcs,
             c = DialClaim(w)'
      PROVE  /\ c \in AgentClaims
             /\ \A v \in W : c # DialClaim(v)
             /\ \A l \in L : c # LineClaim(l)
             /\ \A k \in CallKeys : c # CallClaim(k)
  <2>1. c = DialClaim(w) /\ c \in AgentClaims
    BY <1>2, AgentClaimKinds DEF DialClaim
  <2>2. QED
    BY <2>1 DEF DialClaim, LineClaim, CallClaim
<1>3. ASSUME NEW k \in FindActive', k \in FindActive, c = CallClaim(k)
      PROVE  /\ c \in AgentClaims
             /\ \A v \in W : c # DialClaim(v)
             /\ \A l \in L : c # LineClaim(l)
             /\ \A j \in CallKeys : c = CallClaim(j) => j = k
  BY <1>3, AgentClaimKinds DEF DialClaim, LineClaim, CallClaim
<1>4. ASSUME NEW l \in (1..MaxLines) \ L,
             Ending(l, {"readAgent", "moveAgent"})', c = LineClaim(l)'
      PROVE  /\ c \in AgentClaims
             /\ \A v \in W : c # DialClaim(v)
             /\ \A m \in L : c # LineClaim(m)
             /\ \A k \in CallKeys : c # CallClaim(k)
  <2>1. c = LineClaim(l) /\ c \in AgentClaims
    BY <1>4, AgentClaimKinds DEF LineClaim
  <2>2. QED
    BY <2>1 DEF DialClaim, LineClaim, CallClaim
<1>5. QED
  BY <1>1, <1>2, <1>3, <1>4

(* The same of the step of one worker.                                     *)
LEMMA WorkerAgentClaimsAfter ==
  ASSUME NEW w \in Workers, NEW K \in SUBSET CallKeys,
         \A v \in Workers \ {w} : dial'[v] = dial[v],
         \A k \in FindActive' : k \in FindActive \/ k \in K,
         \A l \in 1..MaxLines : Ending(l, {"readAgent", "moveAgent"})' =>
           /\ Ending(l, {"readAgent", "moveAgent"})
           /\ HandlerAgent(l)' = HandlerAgent(l),
         NEW c \in AgentClaims'
  PROVE  \/ /\ c \in AgentClaims /\ c # DialClaim(w)
            /\ \A k \in CallKeys : c = CallClaim(k) => k \in FindActive'
         \/ dial'[w].pc \in HoldsAgentPcs /\ c = DialClaim(w)'
         \/ \E k \in K : k \in FindActive' /\ c = CallClaim(k)
<1> DEFINE W == {w}
           L == {}
<1>1. W \in SUBSET Workers /\ L \in SUBSET (1..MaxLines)
  OBVIOUS
<1>2. \A v \in Workers \ W : dial'[v].pc \in HoldsAgentPcs =>
        dial[v].pc \in HoldsAgentPcs /\ dial'[v].agent = dial[v].agent
  OBVIOUS
<1>3. \A l \in (1..MaxLines) \ L : Ending(l, {"readAgent", "moveAgent"})' =>
        /\ Ending(l, {"readAgent", "moveAgent"})
        /\ HandlerAgent(l)' = HandlerAgent(l)
  OBVIOUS
<1>4. W = {w} /\ L = {}
  OBVIOUS
<1> HIDE DEF W, L
<1>5. \/ /\ c \in AgentClaims
         /\ \A v \in W : c # DialClaim(v)
         /\ \A l \in L : c # LineClaim(l)
         /\ \A k \in CallKeys : c = CallClaim(k) => k \in FindActive'
      \/ \E v \in W : dial'[v].pc \in HoldsAgentPcs /\ c = DialClaim(v)'
      \/ \E k \in K : k \in FindActive' /\ c = CallClaim(k)
      \/ \E l \in L : /\ Ending(l, {"readAgent", "moveAgent"})'
                      /\ c = LineClaim(l)'
  BY <1>1, <1>2, <1>3, AgentClaimsAfter
<1>6. QED
  BY <1>4, <1>5

(* An agent of whom nothing that matters here changes, or who is booked.   *)
Untouched(a) ==
  \/ agents'[a] = agents[a]
  \/ StaysAway(a)
  \/ /\ HasCall(a) /\ HasCall(a)'
     /\ agents'[a].reservedBy = agents[a].reservedBy
     /\ agents'[a].lease = agents[a].lease
     /\ agents'[a].alive = agents[a].alive
     /\ agents'[a].call = agents[a].call \/ agents'[a].call.agent = a

LEMMA AgentsUntouched ==
  ASSUME BookingInv, epoch' = epoch, \A a \in Agents : Untouched(a),
         Exclusive(AgentClaims'),
         \A d \in AgentClaims' : \E c \in AgentClaims : c.of = d.of
  PROVE  AgentsBooked'
<1>1. ASSUME NEW a \in Agents
      PROVE  /\ agents'[a].reservedBy # None =>
                  HasCall(a)' /\ agents'[a].reservedBy = epoch
             /\ agents'[a].call # None => agents'[a].call.agent = a
             /\ agents'[a].alive
             /\ HasCall(a) => HasCall(a)'
  <2>1. /\ agents[a].reservedBy # None => HasCall(a) /\ agents[a].reservedBy = epoch
        /\ agents[a].call # None => agents[a].call.agent = a
        /\ agents[a].alive
    BY DEF BookingInv, AgentsBooked
  <2>2. QED
    BY <2>1 DEF Untouched, StaysAway, HasCall
<1>2. \A d \in AgentClaims' : HasCall(d.of)'
  BY <1>1, ClaimTypes DEF BookingInv, AgentsBooked
<1>3. QED
  BY <1>1, <1>2 DEF AgentsBooked

LEMMA AgentGivenBack ==
  ASSUME BookingInv, epoch' = epoch, NEW c \in AgentClaims,
         \A d \in AgentClaims' : d \in AgentClaims /\ d # c,
         \A x \in Agents \ {c.of} : agents'[x] = agents[x],
         agents'[c.of] = agents[c.of] \/ Freed(c.of)
  PROVE  AgentsBooked'
<1>1. Exclusive(AgentClaims')
  BY DEF Exclusive, BookingInv, AgentsBooked
<1>2. \A d \in AgentClaims' : d.of \in Agents /\ d.of # c.of
  BY ClaimTypes DEF Exclusive, BookingInv, AgentsBooked
<1>3. \A d \in AgentClaims' : HasCall(d.of)'
  BY <1>2 DEF BookingInv, AgentsBooked, HasCall
<1>4. \A a \in Agents :
        /\ agents'[a].reservedBy # None =>
             HasCall(a)' /\ agents'[a].reservedBy = epoch
        /\ agents'[a].call # None => agents'[a].call.agent = a
        /\ agents'[a].alive
  BY DEF BookingInv, AgentsBooked, Freed, HasCall
<1>5. QED
  BY <1>1, <1>3, <1>4 DEF AgentsBooked

(* A worker that books an agent, or moves on with one.                     *)
LEMMA OtherDials ==
  ASSUME BookingInv, NEW w \in Workers, Dialer(w)
  PROVE  /\ \A v \in Workers \ {w} :
              dial'[v] = dial[v] /\ DialKey(v)' = DialKey(v)
         /\ UNCHANGED sweep
BY OtherDialsStay DEF BookingInv, CallsInv, Dialer

LEMMA OtherTasks ==
  ASSUME BookingInv
  PROVE  /\ \A l \in 1..MaxLines : Processor(l) => UNCHANGED <<dial, sweep>>
         /\ Recovery => UNCHANGED dial
BY DEF Processor, Recovery, allocatorVars

LEMMA LinesAside ==
  ASSUME UNCHANGED lines, NEW l \in 1..MaxLines, NEW pcs
  PROVE  /\ Ending(l, pcs)' = Ending(l, pcs)
         /\ Handler(l)' = Handler(l)
         /\ HandlerAgent(l)' = HandlerAgent(l)
         /\ Talking(l)' = Talking(l)
BY DEF Ending, Handler, HandlerAgent, Talking

LEMMA DialClaimsAfter ==
  ASSUME BookingInv, NEW w \in Workers, Dialer(w), UNCHANGED lines,
         FindActive' \subseteq FindActive, NEW c \in AgentClaims'
  PROVE  \/ /\ c \in AgentClaims /\ c # DialClaim(w)
            /\ \A k \in CallKeys : c = CallClaim(k) => k \in FindActive'
         \/ dial'[w].pc \in HoldsAgentPcs /\ c = DialClaim(w)'
<1>1. \A v \in Workers \ {w} : dial'[v] = dial[v]
  BY OtherDials
<1>2. \A l \in 1..MaxLines : Ending(l, {"readAgent", "moveAgent"})' =>
        /\ Ending(l, {"readAgent", "moveAgent"})
        /\ HandlerAgent(l)' = HandlerAgent(l)
  BY LinesAside
<1>3. {} \in SUBSET CallKeys
  OBVIOUS
<1>4. QED
  BY <1>1, <1>2, <1>3, WorkerAgentClaimsAfter

LEMMA ActiveAside == UNCHANGED calls => FindActive' = FindActive
BY DEF FindActive

LEMMA DialAgentsBooked ==
  ASSUME BookingInv, epoch' = epoch, NEW w \in Workers, Dialer(w)
  PROVE  AgentsBooked'
<1>1. Exclusive(AgentClaims) /\ \A c \in AgentClaims : HasCall(c.of)
  BY DEF BookingInv, AgentsBooked
<1>2. CASE ClaimAgent(w)
  <2>1. PICK a \in Agents :
           /\ agents[a].state = "AVAILABLE"
           /\ \A x \in Agents \ {a} : agents'[x] = agents[x]
           /\ agents'[a].state = "RESERVED" /\ agents'[a].reservedBy = epoch
           /\ agents'[a].call = agents[a].call
           /\ agents'[a].alive = agents[a].alive
           /\ dial'[w].agent = a
           /\ UNCHANGED <<calls, lines>>
    BY <1>2, ClaimAgentDoes
  <2>2. \A c \in AgentClaims' : c \in AgentClaims \/ c = DialClaim(w)'
    BY <2>1, DialClaimsAfter, ActiveAside
  <2>3. DialClaim(w)'.of = a
    BY <2>1 DEF DialClaim
  <2>4. \A c \in AgentClaims : c.of # a
    BY <1>1, <2>1 DEF HasCall
  <2>5. Exclusive(AgentClaims')
    BY <1>1, <2>2, <2>3, <2>4 DEF Exclusive
  <2>6. \A c \in AgentClaims : HasCall(c.of)'
    BY <1>1, <2>1, <2>4, ClaimTypes DEF HasCall, BookingInv
  <2>7. HasCall(a)'
    BY <2>1 DEF HasCall
  <2>8. \A x \in Agents :
          /\ agents'[x].reservedBy # None =>
               HasCall(x)' /\ agents'[x].reservedBy = epoch
          /\ agents'[x].call # None => agents'[x].call.agent = x
          /\ agents'[x].alive
    BY <2>1, <2>7 DEF BookingInv, AgentsBooked, HasCall
  <2>9. QED
    BY <2>2, <2>3, <2>5, <2>6, <2>7, <2>8 DEF AgentsBooked
<1>3. CASE GiveAgentBack(w) \/ FreeAgent(w)
  <2>1. /\ dial[w].pc \in HoldsAgentPcs /\ dial'[w].pc \notin HoldsAgentPcs
        /\ \A x \in Agents \ {dial[w].agent} : agents'[x] = agents[x]
        /\ agents'[dial[w].agent] = agents[dial[w].agent] \/ Freed(dial[w].agent)
        /\ UNCHANGED <<calls, lines>>
    <3>1. CASE GiveAgentBack(w)
      BY <3>1, GiveAgentBackDoes DEF HoldsAgentPcs
    <3>2. CASE FreeAgent(w)
      BY <3>2, FreeAgentDoes, DialTypes DEF HoldsAgentPcs, BookingInv, Dials
    <3>3. QED
      BY <1>3, <3>1, <3>2
  <2>2. DialClaim(w) \in AgentClaims /\ DialClaim(w).of = dial[w].agent
    BY <2>1, AgentClaimKinds DEF DialClaim
  <2>3. \A d \in AgentClaims' : d \in AgentClaims /\ d # DialClaim(w)
    BY <2>1, DialClaimsAfter, ActiveAside
  <2>4. QED
    BY <2>1, <2>2, <2>3, AgentGivenBack
(* The call takes over the agent, and hands it back when it failed.        *)
<1>4. CASE Reserve(w) \/ FailCall(w)
  <2> DEFINE key == DialKey(w)
  <2>1. /\ key \in CallKeys /\ key.agent = dial[w].agent
        /\ \A k \in CallKeys \ {key} : calls'[k] = calls[k]
        /\ UNCHANGED <<agents, lines>>
    BY <1>4, DialTransitionDoes, DialTypes DEF BookingInv
  <2>2. \A k \in FindActive' : k \in FindActive \/ k = key
    BY <2>1 DEF FindActive
  <2>3. \A c \in AgentClaims' :
          \/ /\ c \in AgentClaims /\ c # DialClaim(w)
             /\ c = CallClaim(key) => key \in FindActive'
          \/ dial'[w].pc \in HoldsAgentPcs /\ c = DialClaim(w)'
          \/ key \in FindActive' /\ c = CallClaim(key)
    <3>1. \A v \in Workers \ {w} : dial'[v] = dial[v]
      BY OtherDials
    <3>2. \A l \in 1..MaxLines : Ending(l, {"readAgent", "moveAgent"})' =>
            /\ Ending(l, {"readAgent", "moveAgent"})
            /\ HandlerAgent(l)' = HandlerAgent(l)
      BY <2>1, LinesAside
    <3>3. {key} \in SUBSET CallKeys
      BY <2>1
    <3> HIDE DEF key
    <3>4. ASSUME NEW c \in AgentClaims'
          PROVE  \/ /\ c \in AgentClaims /\ c # DialClaim(w)
                    /\ \A k \in CallKeys : c = CallClaim(k) => k \in FindActive'
                 \/ dial'[w].pc \in HoldsAgentPcs /\ c = DialClaim(w)'
                 \/ \E k \in {key} : k \in FindActive' /\ c = CallClaim(k)
      BY <2>2, <3>1, <3>2, <3>3, WorkerAgentClaimsAfter
    <3>5. QED
      BY <2>1, <3>4
  <2>4. CASE Reserve(w)
    <3>1. dial[w].pc \in HoldsAgentPcs /\ dial'[w].pc \notin HoldsAgentPcs
      BY <2>4, DialTransitionDoes, DialTypes DEF HoldsAgentPcs, BookingInv, Dials
    <3>2. DialClaim(w) \in AgentClaims /\ DialClaim(w).of = dial[w].agent
      BY <3>1, AgentClaimKinds DEF DialClaim
    <3>3. CallClaim(key).of = dial[w].agent
      BY <2>1 DEF CallClaim
    <3> HIDE DEF key
    <3>4. \A c \in AgentClaims' :
            \/ c \in AgentClaims /\ c # DialClaim(w)
            \/ c = CallClaim(key)
      BY <2>3, <3>1
    <3>5. Exclusive(AgentClaims')
      BY <1>1, <3>2, <3>3, <3>4 DEF Exclusive
    <3>6. \A d \in AgentClaims' : \E c \in AgentClaims : c.of = d.of
      BY <3>2, <3>3, <3>4
    <3>7. QED
      BY <2>1, <3>5, <3>6, AgentsUntouched DEF Untouched
  <2>5. CASE FailCall(w)
    <3>1. /\ dial'[w].agent = dial[w].agent
          /\ key \in FindActive /\ key \notin FindActive'
      <4>1. dial[w].pc = "failCall" /\ calls'[key].state = "FAILED"
            /\ dial'[w] = [dial[w] EXCEPT !.pc = "freeAgent",
                                          !.outcome = "RETRY"]
        BY <2>5, DialTransitionDoes
      <4>2. key \in FindActive
        BY <4>1, DialHolds DEF HasCallPcs
      <4>3. dial'[w].agent = dial[w].agent
        BY <4>1, DialTypes DEF BookingInv, Dials
      <4>4. QED
        BY <4>1, <4>2, <4>3 DEF FindActive, TerminalCallStates
    <3>2. /\ CallClaim(key) \in AgentClaims /\ CallClaim(key).of = dial[w].agent
      BY <2>1, <3>1, AgentClaimKinds DEF CallClaim
    <3>3. DialClaim(w)'.of = dial[w].agent
      BY <3>1 DEF DialClaim
    <3> HIDE DEF key
    <3>4. \A c \in AgentClaims' :
            \/ c \in AgentClaims /\ c # CallClaim(key)
            \/ c = DialClaim(w)'
      BY <2>3, <3>1
    <3>5. Exclusive(AgentClaims')
      BY <1>1, <3>2, <3>3, <3>4 DEF Exclusive
    <3>6. \A d \in AgentClaims' : \E c \in AgentClaims : c.of = d.of
      BY <3>2, <3>3, <3>4
    <3>7. QED
      BY <2>1, <3>5, <3>6, AgentsUntouched DEF Untouched
  <2>6. QED
    BY <1>4, <2>4, <2>5
<1>5. CASE \/ ClaimBorrower(w) \/ Create(w) \/ Initiate(w) \/ MarkDialing(w)
           \/ Bind(w) \/ Originate(w) \/ Attach(w) \/ FreeBorrower(w)
  <2>1. /\ FindActive' \subseteq FindActive
        /\ \A a \in Agents : Untouched(a)
        /\ dial'[w].pc \in HoldsAgentPcs =>
             dial[w].pc \in HoldsAgentPcs /\ dial'[w].agent = dial[w].agent
    <3>1. CASE ClaimBorrower(w)
      BY <3>1, ClaimBorrowerDoes, ActiveAside DEF Untouched, HoldsAgentPcs
    <3>2. CASE Create(w)
      <4>1. \A k \in CallKeys :
              calls'[k] = calls[k] \/ calls'[k].state = "QUEUED"
        BY <3>2, CreateDoes
      <4>2. FindActive' \subseteq FindActive
        BY <4>1 DEF FindActive
      <4>3. QED
        BY <3>2, <4>2, CreateDoes, DialTypes
        DEF Untouched, HoldsAgentPcs, BookingInv, Dials
    <3>3. CASE Initiate(w)
      <4>1. \A k \in CallKeys :
              \/ calls'[k] = calls[k]
              \/ calls[k].state = "RESERVED" /\ calls'[k].state = "INITIATED"
        BY <3>3, DialTransitionDoes
      <4>2. FindActive' \subseteq FindActive
        BY <4>1 DEF FindActive, CallStates, TerminalCallStates
      <4>3. QED
        BY <3>3, <4>2, DialTransitionDoes, DialTypes
        DEF Untouched, HoldsAgentPcs, BookingInv, Dials
    <3>4. CASE MarkDialing(w)
      <4>0. PICK a \in Agents : a = dial[w].agent
        BY <3>4, MarkDialingDoes, DialTypes DEF BookingInv
      <4>1. /\ agents[a] \in AgentDocuments /\ HasCall(a)
            /\ \A x \in Agents \ {a} : agents'[x] = agents[x]
            /\ agents'[a] = [agents[a] EXCEPT !.state = "DIALING",
                                              !.version = @ + 1]
            /\ dial'[w].pc = "bind" /\ UNCHANGED calls
        BY <3>4, <4>0, MarkDialingDoes, DialTypes, DialHolds, Types
        DEF HasCallPcs, BookingInv, Dials
      <4>2. Untouched(a)
        BY <4>1 DEF Untouched, HasCall, AgentDocuments
      <4>3. QED
        BY <4>1, <4>2, ActiveAside DEF Untouched, HoldsAgentPcs
    <3>5. CASE Bind(w)
      <4>0. PICK a \in Agents, k \in CallKeys :
              a = dial[w].agent /\ k = DialKey(w)
        BY <3>5, BindDoes, DialTypes DEF BookingInv
      <4>1. /\ agents[a] \in AgentDocuments /\ HasCall(a)
            /\ \A x \in Agents \ {a} : agents'[x] = agents[x]
            /\ agents'[a] = [agents[a] EXCEPT !.call = k] /\ k.agent = a
            /\ dial'[w].pc = "originate" /\ UNCHANGED calls
        BY <3>5, <4>0, BindDoes, DialTypes, DialHolds, Types
        DEF HasCallPcs, BookingInv, Dials
      <4>2. Untouched(a)
        BY <4>1 DEF Untouched, HasCall, AgentDocuments
      <4>3. QED
        BY <4>1, <4>2, ActiveAside DEF Untouched, HoldsAgentPcs
    <3>6. CASE Originate(w)
      BY <3>6, OriginateDoes, DialTypes, ActiveAside
      DEF Untouched, HoldsAgentPcs, BookingInv, Dials
    <3>7. CASE Attach(w)
      <4>1. \A k \in CallKeys : calls'[k].state = calls[k].state
        <5>1. DialKey(w) \in CallKeys /\ calls[DialKey(w)] \in CallDocuments
          BY <3>7, AttachDoes, Types DEF BookingInv
        <5>2. calls'[DialKey(w)].state = calls[DialKey(w)].state
          BY <3>7, <5>1, AttachDoes DEF CallDocuments
        <5>3. QED
          BY <3>7, <5>2, AttachDoes
      <4>2. FindActive' \subseteq FindActive
        BY <4>1 DEF FindActive
      <4>3. QED
        BY <3>7, <4>2, AttachDoes DEF Untouched, HoldsAgentPcs
    <3>8. CASE FreeBorrower(w)
      BY <3>8, FreeBorrowerDoes, ActiveAside DEF Untouched, HoldsAgentPcs
    <3>9. QED
      BY <1>5, <3>1, <3>2, <3>3, <3>4, <3>5, <3>6, <3>7, <3>8
  <2>2. \A l \in 1..MaxLines : Ending(l, {"readAgent", "moveAgent"})' =>
          /\ Ending(l, {"readAgent", "moveAgent"})
          /\ HandlerAgent(l)' = HandlerAgent(l)
    <3>1. CASE UNCHANGED lines
      BY <3>1, LinesAside
    <3>2. CASE Originate(w) /\ ~UNCHANGED lines
      <4>1. \A l \in 1..MaxLines :
              lines'[l] = lines[l] \/ lines'[l].handler = IdleHandler
        BY <3>2, OriginateDoes
      <4>2. QED
        BY <4>1 DEF Ending, Handler, HandlerAgent, IdleHandler
    <3>3. QED
      BY <1>5, <3>1, <3>2, ClaimBorrowerDoes, CreateDoes, DialTransitionDoes,
         MarkDialingDoes, BindDoes, AttachDoes, FreeBorrowerDoes
  <2>3. \A v \in Workers : dial'[v].pc \in HoldsAgentPcs =>
          dial[v].pc \in HoldsAgentPcs /\ dial'[v].agent = dial[v].agent
    BY <2>1, OtherDials
  <2>4. \A c \in AgentClaims' : c \in AgentClaims
    <3>1. {} \in SUBSET Workers /\ {} \in SUBSET CallKeys
          /\ {} \in SUBSET (1..MaxLines)
      OBVIOUS
    <3>2. \A k \in FindActive' : k \in FindActive
      BY <2>1
    <3>3. QED
      BY <2>2, <2>3, <3>1, <3>2, AgentClaimsAfter
  <2>5. Exclusive(AgentClaims')
    BY <1>1, <2>4, ClaimsDropped
  <2>6. QED
    BY <2>1, <2>4, <2>5, AgentsUntouched
<1>6. QED
  BY <1>2, <1>3, <1>4, <1>5 DEF Dialer, DialStep

(* The handler that ended a call takes over the agent.                     *)
LEMMA LineClaimsAfter ==
  ASSUME BookingInv, NEW l \in 1..MaxLines, NEW K \in SUBSET CallKeys,
         UNCHANGED dial, \A m \in (1..MaxLines) \ {l} : lines'[m] = lines[m],
         \A k \in FindActive' : k \in FindActive \/ k \in K,
         NEW c \in AgentClaims'
  PROVE  \/ /\ c \in AgentClaims /\ c # LineClaim(l)
            /\ \A k \in CallKeys : c = CallClaim(k) => k \in FindActive'
         \/ \E k \in K : k \in FindActive' /\ c = CallClaim(k)
         \/ Ending(l, {"readAgent", "moveAgent"})' /\ c = LineClaim(l)'
<1>1. \A v \in Workers \ {} : dial'[v].pc \in HoldsAgentPcs =>
        dial[v].pc \in HoldsAgentPcs /\ dial'[v].agent = dial[v].agent
  OBVIOUS
<1>2. \A m \in (1..MaxLines) \ {l} : Ending(m, {"readAgent", "moveAgent"})' =>
        /\ Ending(m, {"readAgent", "moveAgent"})
        /\ HandlerAgent(m)' = HandlerAgent(m)
  BY DEF Ending, HandlerAgent, Handler
<1>3. {} \in SUBSET Workers /\ {l} \in SUBSET (1..MaxLines)
  OBVIOUS
<1>4. \/ /\ c \in AgentClaims
         /\ \A m \in {l} : c # LineClaim(m)
         /\ \A k \in CallKeys : c = CallClaim(k) => k \in FindActive'
      \/ \E k \in K : k \in FindActive' /\ c = CallClaim(k)
      \/ \E m \in {l} : /\ Ending(m, {"readAgent", "moveAgent"})'
                        /\ c = LineClaim(m)'
  BY <1>1, <1>2, <1>3, AgentClaimsAfter
<1>5. QED
  BY <1>4

LEMMA ProcessorAgentsBooked ==
  ASSUME BookingInv, epoch' = epoch, NEW l \in 1..MaxLines, Processor(l)
  PROVE  AgentsBooked'
<1>1. Exclusive(AgentClaims) /\ \A c \in AgentClaims : HasCall(c.of)
  BY DEF BookingInv, AgentsBooked
<1>2. UNCHANGED dial
  BY OtherTasks
<1>3. {} \in SUBSET CallKeys
  OBVIOUS
(* Steps after which the handler has the agent if it had before.           *)
<1>4. ASSUME \A m \in (1..MaxLines) \ {l} : lines'[m] = lines[m],
             FindActive' \subseteq FindActive,
             \A a \in Agents : Untouched(a),
             Ending(l, {"readAgent", "moveAgent"})' =>
               /\ Ending(l, {"readAgent", "moveAgent"})
               /\ LineClaim(l)' = LineClaim(l)
      PROVE  AgentsBooked'
  <2>1. \A k \in FindActive' : k \in FindActive \/ k \in {}
    BY <1>4
  <2>2. \A c \in AgentClaims' : c \in AgentClaims
    <3>1. SUFFICES ASSUME NEW c \in AgentClaims' PROVE c \in AgentClaims
      OBVIOUS
    <3>2. CASE Ending(l, {"readAgent", "moveAgent"})' /\ c = LineClaim(l)'
      BY <1>4, <3>2, AgentClaimKinds
    <3>3. QED
      BY <1>2, <1>3, <1>4, <2>1, <3>2, LineClaimsAfter
  <2>3. QED
    BY <1>1, <1>4, <2>2, ClaimsDropped, AgentsUntouched
<1>5. CASE ReceiveEvent(l)
  <2>1. PICK handler : /\ HandlerMoves(l, handler)
                       /\ handler.pc \in {"idle", "applyCall"}
    BY <1>5, ReceiveEventDoes DEF IdleHandler
  <2>2. ~Ending(l, {"readAgent", "moveAgent"})'
    BY <2>1 DEF Ending, Handler, HandlerMoves
  <2>3. UNCHANGED storeVars
    BY <1>5, ReceiveEventDoes
  <2>4. QED
    BY <1>4, <2>1, <2>2, <2>3, ActiveAside
    DEF HandlerMoves, Untouched, storeVars
<1>6. CASE Finish(l)
  <2>1. ~Ending(l, {"readAgent", "moveAgent"})'
    BY <1>6, FinishDoes DEF Ending, Handler, IdleHandler
  <2>2. QED
    BY <1>4, <1>6, <2>1, FinishDoes, ActiveAside DEF Untouched, storeVars
<1>7. CASE SettleBorrower(l)
  <2>1. HandlerMoves(l, IdleHandler) /\ UNCHANGED <<agents, calls>>
    BY <1>7, SettleBorrowerDoes
  <2>2. ~Ending(l, {"readAgent", "moveAgent"})'
    BY <2>1 DEF Ending, Handler, IdleHandler, HandlerMoves
  <2>3. QED
    BY <1>4, <2>1, <2>2, ActiveAside DEF HandlerMoves, Untouched
<1>8. CASE ReadAgent(l)
  <2>1. Handler(l).pc = "readAgent" /\ UNCHANGED storeVars
    BY <1>8, ReadAgentDoes
  <2>2. PICK handler :
          /\ HandlerMoves(l, handler)
          /\ \/ handler.pc \in {"idle", "freeBorrower"}
             \/ /\ handler.call = Handler(l).call
                /\ handler.target = Handler(l).target
    <3>1. AfterAgent(l).pc \in {"idle", "freeBorrower"}
      <4>1. Handler(l) \in Handlers
        BY HandlerTypes DEF BookingInv
      <4>2. QED
        BY <2>1, <4>1, AfterAgentDoes DEF IdleHandler, Handlers
    <3>2. QED
      BY <1>8, <3>1, ReadAgentDoes
  <2>3. /\ Handler(l)' = handler
        /\ \A m \in (1..MaxLines) \ {l} : lines'[m] = lines[m]
    BY <2>2 DEF HandlerMoves, Handler
  <2>4. Ending(l, {"readAgent", "moveAgent"})' =>
          /\ Ending(l, {"readAgent", "moveAgent"})
          /\ LineClaim(l)' = LineClaim(l)
    BY <2>1, <2>2, <2>3 DEF Ending, LineClaim, HandlerAgent
  <2>5. QED
    BY <1>4, <2>1, <2>3, <2>4, ActiveAside DEF Untouched, storeVars
<1>9. CASE MoveAgent(l)
  <2>1. PICK a \in Agents :
          /\ a = HandlerAgent(l)
          /\ \A x \in Agents \ {a} : agents'[x] = agents[x]
          /\ \/ agents'[a] = agents[a]
             \/ IsTerminal(Handler(l).target) /\ Freed(a)
             \/ ~IsTerminal(Handler(l).target) /\ Answers(a)
    BY <1>9, MoveAgentDoes
  <2>2. /\ Handler(l).pc = "moveAgent" /\ HandlerMoves(l, AfterAgent(l))
        /\ UNCHANGED calls
    BY <1>9, MoveAgentDoes
  <2>3. ~Ending(l, {"readAgent", "moveAgent"})'
    <3>1. AfterAgent(l).pc \in {"idle", "freeBorrower"}
      <4>1. Handler(l) \in Handlers
        BY HandlerTypes DEF BookingInv
      <4>2. QED
        BY <2>2, <4>1, AfterAgentDoes DEF IdleHandler, Handlers
    <3>2. QED
      BY <2>2, <3>1 DEF Ending, Handler, HandlerMoves
  <2>4. CASE IsTerminal(Handler(l).target)
    <3>1. LineClaim(l) \in AgentClaims /\ LineClaim(l).of = a
      BY <2>1, <2>2, <2>4, AgentClaimKinds DEF LineClaim, Ending
    <3>2. \A k \in FindActive' : k \in FindActive \/ k \in {}
      BY <2>2, ActiveAside
    <3>3. \A c \in AgentClaims' : c \in AgentClaims /\ c # LineClaim(l)
      BY <1>2, <1>3, <2>2, <2>3, <3>2, LineClaimsAfter DEF HandlerMoves
    <3>4. QED
      BY <2>1, <2>4, <3>1, <3>3, AgentGivenBack
  <2>5. CASE ~IsTerminal(Handler(l).target)
    <3>1. agents[a] \in AgentDocuments
      BY Types DEF BookingInv
    <3>2. Untouched(a)
      BY <2>1, <2>5, <3>1 DEF Untouched, Answers, HasCall, AgentDocuments
    <3>3. QED
      BY <1>4, <2>1, <2>2, <2>3, <3>2, ActiveAside DEF Untouched, HandlerMoves
  <2>6. QED
    BY <2>4, <2>5
<1>10. CASE ApplyCall(l)
  <2>1. PICK k \in CallKeys : k = Handler(l).call
    BY <1>10, ApplyCallDoes, HandlerTypes DEF BookingInv
  <2>2. UNCHANGED agents /\ Handler(l).pc = "applyCall"
    BY <1>10, ApplyCallDoes
  <2>3. CASE UNCHANGED calls /\ HandlerMoves(l, IdleHandler)
    <3>1. ~Ending(l, {"readAgent", "moveAgent"})'
      BY <2>3 DEF Ending, Handler, IdleHandler, HandlerMoves
    <3>2. QED
      BY <1>4, <2>2, <2>3, <3>1, ActiveAside DEF HandlerMoves, Untouched
  <2>4. CASE /\ k \in FindActive
             /\ \A j \in CallKeys \ {k} : calls'[j] = calls[j]
             /\ calls'[k].state = Handler(l).target
             /\ HandlerMoves(l, [Handler(l) EXCEPT !.pc = "readAgent"])
    <3>1. FindActive' \subseteq FindActive
      BY <2>4 DEF FindActive
    <3>2. /\ Handler(l)'.call = k /\ Handler(l)'.target = Handler(l).target
          /\ Handler(l)'.pc = "readAgent"
      BY <2>1, <2>4, HandlerTypes
      DEF BookingInv, Handlers, HandlerMoves, Handler
    <3>3. CASE ~IsTerminal(Handler(l).target)
      <4>1. ~Ending(l, {"readAgent", "moveAgent"})'
        BY <3>2, <3>3 DEF Ending
      <4>2. QED
        BY <1>4, <2>2, <2>4, <3>1, <4>1 DEF HandlerMoves, Untouched
    <3>4. CASE IsTerminal(Handler(l).target)
      <4>1. k \notin FindActive'
        BY <2>4, <3>4 DEF FindActive, IsTerminal
      <4>2. CallClaim(k) \in AgentClaims /\ CallClaim(k).of = k.agent
        BY <2>4, AgentClaimKinds DEF CallClaim
      <4>3. LineClaim(l)'.of = k.agent
        BY <3>2 DEF LineClaim, HandlerAgent
      <4>4. \A j \in FindActive' : j \in FindActive \/ j \in {}
        BY <3>1
      <4>5. ASSUME NEW c \in AgentClaims'
            PROVE  \/ c \in AgentClaims /\ c # CallClaim(k)
                   \/ c = LineClaim(l)'
        <5>1. \A m \in (1..MaxLines) \ {l} : lines'[m] = lines[m]
          BY <2>4 DEF HandlerMoves
        <5>2. \/ /\ c \in AgentClaims
                 /\ \A j \in CallKeys : c = CallClaim(j) => j \in FindActive'
              \/ \E j \in {} : j \in FindActive' /\ c = CallClaim(j)
              \/ c = LineClaim(l)'
          BY <1>2, <1>3, <4>4, <5>1, LineClaimsAfter
        <5>3. QED
          BY <4>1, <5>2
      <4>6. Exclusive(AgentClaims')
        BY <1>1, <4>2, <4>3, <4>5 DEF Exclusive
      <4>7. \A d \in AgentClaims' : \E c \in AgentClaims : c.of = d.of
        BY <4>2, <4>3, <4>5
      <4>8. QED
        BY <2>2, <4>6, <4>7, AgentsUntouched DEF Untouched
    <3>5. QED
      BY <3>3, <3>4
  <2>5. QED
    BY <1>10, <2>1, <2>3, <2>4, ApplyCallDoes
<1>11. QED
  BY <1>5, <1>6, <1>7, <1>8, <1>9, <1>10 DEF Processor, EventStep

(* Only a conversation loses its lease, one whose line is gone.            *)
LEMMA ExpiredAgents ==
  ASSUME BookingInv, NEW a \in ExpiredAgentLeases
  PROVE  /\ a \in Agents /\ HasCall(a) /\ agents[a].lease = 0
         /\ \A w \in Workers : SettingUp(w) => dial[w].agent # a
         /\ \A l \in 1..MaxLines : Handler(l).pc # "idle" => HandlerAgent(l) # a
         /\ \A c \in AgentClaims : c.of = a =>
              \E k \in FindActive : c = CallClaim(k)
         /\ \A k \in FindActive : k.agent = a => agents[a].call = k
<1>1. /\ a \in Agents /\ agents[a].lease = 0 /\ agents[a].reservedBy # None
  BY DEF ExpiredAgentLeases
<1>2. HasCall(a)
  BY <1>1 DEF BookingInv, AgentsBooked
<1>3. \A w \in Workers : SettingUp(w) => dial[w].agent # a
  BY <1>1 DEF BookingInv, LeasesOK
<1>4. \A l \in 1..MaxLines : Handler(l).pc # "idle" => HandlerAgent(l) # a
  BY <1>1 DEF BookingInv, LeasesOK, LinesOK, HandlerAgent
<1>5. \A c \in AgentClaims : c.of = a =>
        \E k \in FindActive : c = CallClaim(k)
  <2>1. \A w \in Workers : dial[w].pc \in HoldsAgentPcs =>
          SettingUp(w) /\ DialClaim(w).of = dial[w].agent
    BY DEF HoldsAgentPcs, SettingUp, DialClaim
  <2>2. \A l \in 1..MaxLines : Ending(l, {"readAgent", "moveAgent"}) =>
          Handler(l).pc # "idle" /\ LineClaim(l).of = HandlerAgent(l)
    BY DEF Ending, LineClaim
  <2>3. QED
    BY <1>3, <1>4, <2>1, <2>2, AgentClaimKinds
<1>6. \A k \in FindActive : k.agent = a => agents[a].call = k
  <2>1. ASSUME NEW k \in FindActive, k.agent = a, agents[a].call # k
        PROVE  FALSE
    <3>1. PICK w \in Workers :
            dial[w].pc \in {"initiate", "markDialing", "bind"} /\ DialKey(w) = k
      BY <2>1 DEF BookingInv, CallsBooked, CallBooked, FindActive
    <3>2. SettingUp(w) /\ dial[w].agent = a
      BY <2>1, <3>1, DialTypes DEF BookingInv, SettingUp
    <3>3. QED
      BY <1>3, <3>2
  <2>2. QED
    BY <2>1
<1>7. QED
  BY <1>1, <1>2, <1>3, <1>4, <1>5, <1>6

(* A call is not stale before the lease of its agent has run out.          *)
LEMMA StaleCallsHaveExpiredAgents ==
  ASSUME BookingInv, NEW k \in FindStaleCalls
  PROVE  ExpiredAgentLeases # {}
<1>1. k \in CallKeys /\ Open(k) /\ calls[k].idle = 0 /\ k.agent \in Agents
  BY KeyTypes DEF FindStaleCalls, Open
<1>2. agents[k.agent].lease = 0 \/ agents[k.agent].lease < 0
  BY <1>1 DEF BookingInv, LeasesOK
<1>3. CASE calls[k].state = "QUEUED"
  <2>1. PICK w \in Workers : dial[w].pc = "reserve" /\ DialKey(w) = k
    BY <1>1, <1>3 DEF BookingInv, CallsBooked, CallBooked
  <2>2. dial[w].agent = k.agent /\ agents[dial[w].agent].lease \in 1..TTL
    BY <2>1, DialHolds, DialTypes DEF HoldsAgentPcs, BookingInv
  <2>3. TTL \in Nat
    BY StoreAssumption
  <2>4. QED
    BY <1>2, <2>2, <2>3
<1>4. CASE calls[k].state # "QUEUED"
  <2>1. k \in FindActive
    BY <1>1, <1>4 DEF FindActive, Open
  <2>2. /\ HasCall(k.agent) /\ agents[k.agent].reservedBy # None
        /\ agents[k.agent].lease \in 0..TTL
    BY <2>1, ActiveHolds, Types DEF BookingInv
  <2>3. TTL \in Nat
    BY StoreAssumption
  <2>4. agents[k.agent].lease = 0
    BY <1>2, <2>2, <2>3
  <2>5. \A s \in {"RESERVED", "DIALING", "CONNECTED"} :
          s \in AllowedSources("AVAILABLE", "RECOVERY")
    BY DEF AllowedSources, ValidTransition, CanTransition, IsActorAllowed,
           AgentTransitions, Authorised, AgentStates
  <2>6. k.agent \in ExpiredAgentLeases
    BY <1>1, <2>2, <2>4, <2>5 DEF ExpiredAgentLeases, HasCall
  <2>7. QED
    BY <2>6
<1>5. QED
  BY <1>3, <1>4

LEMMA NextSweepDoes ==
  ASSUME BookingInv, NextSweep
  PROVE  /\ sweep'.step = "next"
         /\ sweep'.stage \in {"asleep", "agentLeases", "borrowerLeases",
                              "wrapUps"}
         /\ sweep'.stage = "agentLeases" =>
              sweep'.todo = {Snapshot(a) : a \in ExpiredAgentLeases}
         /\ sweep'.stage \notin {"asleep", "agentLeases"} =>
              ExpiredAgentLeases = {}
         /\ UNCHANGED <<agents, borrowers, calls, lines, nextLine>>
<1> DEFINE due == {s \in SweepsAfter[sweep.stage] \ {"wrapUps"} : Found(s) # {}}
<1>1. UNCHANGED <<agents, borrowers, calls, lines, nextLine>>
  BY DEF NextSweep, storeVars, providerVars
<1>2. \A stage, items : BeginSweep(stage, items) =>
        /\ sweep'.step = "next" /\ sweep'.stage = stage /\ sweep'.todo = items
  BY DEF BeginSweep, Asleep
<1>3. sweep.stage \in Stages \ {"orphans", "heartbeats"}
  BY Types DEF BookingInv, SweepBooked
<1>4. sweep.todo = {}
  BY DEF NextSweep
<1>5. sweep.stage # "asleep" => ExpiredAgentLeases = {}
  BY <1>3, <1>4 DEF BookingInv, SweepBooked, Stages
<1>6. ExpiredAgentLeases # {} => sweep.stage = "asleep" /\ "agentLeases" \in due
  BY <1>3, <1>5 DEF SweepsAfter, Found
<1>7. "heartbeats" \notin due
  <2>1. Found("heartbeats") = {}
    BY DEF Found, BookingInv, AgentsBooked
  <2>2. QED
    BY <2>1
<1>8. "orphans" \in due => ExpiredAgentLeases # {}
  <2>1. Found("orphans") # {} => FindStaleCalls # {}
    BY DEF Found
  <2>2. QED
    BY <2>1, StaleCallsHaveExpiredAgents
<1>9. due \subseteq {"agentLeases", "borrowerLeases", "orphans", "heartbeats"}
  BY <1>3 DEF SweepsAfter, Stages
<1>10. "agentLeases" \in due => Found("agentLeases") # {}
  OBVIOUS
<1>11. Found("agentLeases") = {Snapshot(a) : a \in ExpiredAgentLeases}
  BY DEF Found
<1> HIDE DEF due
<1>12. ASSUME NEW s \in due, due \subseteq SweepsAfter[s] \cup {s},
              BeginSweep(s, Found(s))
       PROVE  /\ s \in {"agentLeases", "borrowerLeases"}
              /\ s # "agentLeases" => ExpiredAgentLeases = {}
  <2>1. s \in {"agentLeases", "borrowerLeases", "orphans"}
    BY <1>7, <1>9
  <2>2. ExpiredAgentLeases # {} => s = "agentLeases"
    BY <1>6, <1>12, <2>1 DEF SweepsAfter
  <2>3. QED
    BY <1>8, <2>1, <2>2
<1>13. CASE \E s \in due : /\ due \subseteq SweepsAfter[s] \cup {s}
                           /\ BeginSweep(s, Found(s))
  BY <1>1, <1>2, <1>11, <1>12, <1>13
<1>14. CASE due = {} /\ \E items : BeginSweep("wrapUps", items)
  BY <1>1, <1>2, <1>6, <1>14
<1>15. CASE sweep' = Asleep
  BY <1>1, <1>15 DEF Asleep
<1>16. QED
  <2>1. \/ \E s \in due : /\ due \subseteq SweepsAfter[s] \cup {s}
                          /\ BeginSweep(s, Found(s))
        \/ due = {} /\ \E items : BeginSweep("wrapUps", items)
        \/ sweep' = Asleep
    BY DEF NextSweep, due
  <2>2. QED
    BY <1>13, <1>14, <1>15, <2>1

LEMMA RecoveryDoes ==
  ASSUME BookingInv, Recovery
  PROVE  /\ UNCHANGED dial
         /\ \/ NextSweep
            \/ \E item \in sweep.todo :
                 \/ CancelBoundCall(item) \/ SweepBorrower(item)
                 \/ ReleaseStuckWrapUp(item)
            \/ FreeBoundBorrower \/ ReclaimAgent
<1>1. ~TakeOffline /\ ~FreeOrphanAgent /\ ~FreeOrphanBorrower
  BY DEF TakeOffline, FreeOrphanAgent, FreeOrphanBorrower, At, BookingInv,
         SweepBooked
<1>2. \A item \in sweep.todo : ~ReconcileCall(item)
  BY DEF ReconcileCall, At, BookingInv, SweepBooked
<1>3. QED
  BY <1>1, <1>2 DEF Recovery, RecoveryStep, allocatorVars

LEMMA RecoveryAgentsBooked ==
  ASSUME BookingInv, epoch' = epoch, Recovery
  PROVE  AgentsBooked'
<1>1. Exclusive(AgentClaims) /\ \A c \in AgentClaims : HasCall(c.of)
  BY DEF BookingInv, AgentsBooked
<1>2. UNCHANGED dial
  BY RecoveryDoes
<1>3. ASSUME UNCHANGED lines, FindActive' \subseteq FindActive
      PROVE  AgentClaims' \subseteq AgentClaims
  <2>1. {} \in SUBSET Workers /\ {} \in SUBSET CallKeys
        /\ {} \in SUBSET (1..MaxLines)
    OBVIOUS
  <2>2. \A l \in 1..MaxLines : Ending(l, {"readAgent", "moveAgent"})' =>
          /\ Ending(l, {"readAgent", "moveAgent"})
          /\ HandlerAgent(l)' = HandlerAgent(l)
    BY <1>3, LinesAside
  <2>3. \A k \in FindActive' : k \in FindActive
    BY <1>3
  <2>4. ASSUME NEW c \in AgentClaims' PROVE c \in AgentClaims
    BY <1>2, <2>1, <2>2, <2>3, AgentClaimsAfter
  <2>5. QED
    BY <2>4
<1>4. ASSUME UNCHANGED lines, FindActive' \subseteq FindActive,
             \A a \in Agents : Untouched(a)
      PROVE  AgentsBooked'
  BY <1>1, <1>3, <1>4, ClaimsDropped, AgentsUntouched
<1>5. CASE NextSweep \/ FreeBoundBorrower
  BY <1>4, <1>5, NextSweepDoes, FreeBoundBorrowerDoes, ActiveAside
  DEF Untouched
<1>6. ASSUME NEW item \in sweep.todo,
             \/ CancelBoundCall(item) \/ SweepBorrower(item)
             \/ ReleaseStuckWrapUp(item)
      PROVE  AgentsBooked'
  <2>1. CASE CancelBoundCall(item)
    <3>1. \A k \in CallKeys :
            calls'[k] = calls[k] \/ calls'[k].state = "CANCELLED"
      BY <2>1, CancelBoundCallDoes
    <3>2. FindActive' \subseteq FindActive
      BY <3>1 DEF FindActive, TerminalCallStates
    <3>3. QED
      BY <1>4, <2>1, <3>2, CancelBoundCallDoes DEF Untouched
  <2>2. CASE SweepBorrower(item)
    BY <1>4, <2>2, SweepBorrowerDoes, ActiveAside DEF Untouched
  <2>3. CASE ReleaseStuckWrapUp(item)
    BY <1>4, <2>3, ReleaseStuckWrapUpDoes, ActiveAside DEF Untouched
  <2>4. QED
    BY <1>6, <2>1, <2>2, <2>3
<1>7. CASE ReclaimAgent
  <2>1. PICK a \in Agents :
          /\ a = sweep.item.agent /\ a \in ExpiredAgentLeases
          /\ \A x \in Agents \ {a} : agents'[x] = agents[x]
          /\ Freed(a)
    BY <1>7, ReclaimAgentDoes DEF ExpiredAgentLeases
  <2>2. \A k \in FindActive : k.agent # a
    BY <1>7, <2>1, ReclaimAgentDoes DEF BookingInv, SweepBooked
  <2>3. AgentClaims' \subseteq AgentClaims
    BY <1>3, <1>7, ReclaimAgentDoes, ActiveAside
  <2>4. \A c \in AgentClaims : c.of # a
    BY <2>1, <2>2, ExpiredAgents DEF CallClaim
  <2>5. \A c \in AgentClaims' : HasCall(c.of)'
    BY <1>1, <2>1, <2>3, <2>4, ClaimTypes DEF HasCall, BookingInv
  <2>6. \A x \in Agents :
          /\ agents'[x].reservedBy # None =>
               HasCall(x)' /\ agents'[x].reservedBy = epoch
          /\ agents'[x].call # None => agents'[x].call.agent = x
          /\ agents'[x].alive
    BY <2>1 DEF BookingInv, AgentsBooked, HasCall, Freed
  <2>7. QED
    BY <1>1, <2>3, <2>5, <2>6, ClaimsDropped DEF AgentsBooked
<1>8. QED
  BY <1>5, <1>6, <1>7, RecoveryDoes

(* Time passes.                                                            *)
Aged(old, new) ==
  new = IF old = None \/ old = 0 THEN old ELSE old - 1

LEMMA TickDoes ==
  ASSUME BookingInv, Tick
  PROVE  /\ \A a \in Agents :
              /\ agents'[a].state = agents[a].state
              /\ agents'[a].reservedBy = agents[a].reservedBy
              /\ agents'[a].call = agents[a].call
              /\ agents'[a].version = agents[a].version
              /\ agents'[a].alive = agents[a].alive
              /\ Aged(agents[a].lease, agents'[a].lease)
         /\ \A b \in Borrowers :
              /\ borrowers'[b].status = borrowers[b].status
              /\ borrowers'[b].reservedBy = borrowers[b].reservedBy
              /\ borrowers'[b].attempts = borrowers[b].attempts
              /\ borrowers'[b].due = borrowers[b].due
              /\ Aged(borrowers[b].lease, borrowers'[b].lease)
         /\ \A k \in CallKeys :
              /\ calls'[k].state = calls[k].state
              /\ calls'[k].by = calls[k].by /\ calls'[k].line = calls[k].line
              /\ Aged(calls[k].idle, calls'[k].idle)
         /\ sweep = Asleep
         /\ UNCHANGED <<lines, nextLine, dial, epoch, sweep>>
<1>1. TickStore /\ sweep = Asleep
  BY DEF Tick
<1>2. UNCHANGED <<lines, nextLine, dial, epoch, sweep>>
  BY DEF Tick, providerVars, allocatorVars
<1>3. /\ agents \in [Agents -> AgentDocuments]
      /\ borrowers \in [Borrowers -> BorrowerDocuments]
      /\ calls \in [CallKeys -> CallDocuments]
  BY Types DEF BookingInv
<1>4. ASSUME NEW a \in Agents
      PROVE  /\ agents'[a].state = agents[a].state
             /\ agents'[a].reservedBy = agents[a].reservedBy
             /\ agents'[a].call = agents[a].call
             /\ agents'[a].version = agents[a].version
             /\ agents'[a].alive = agents[a].alive
             /\ Aged(agents[a].lease, agents'[a].lease)
  <2>1. agents'[a] = [agents[a] EXCEPT !.lease = Elapsed(@)]
    BY <1>1 DEF TickStore
  <2>2. agents[a] \in AgentDocuments
    BY <1>3
  <2>3. QED
    BY <2>1, <2>2 DEF AgentDocuments, Aged, Elapsed
<1>5. ASSUME NEW b \in Borrowers
      PROVE  /\ borrowers'[b].status = borrowers[b].status
             /\ borrowers'[b].reservedBy = borrowers[b].reservedBy
             /\ borrowers'[b].attempts = borrowers[b].attempts
             /\ borrowers'[b].due = borrowers[b].due
             /\ Aged(borrowers[b].lease, borrowers'[b].lease)
  <2>1. borrowers'[b] = [borrowers[b] EXCEPT !.lease = Elapsed(@)]
    BY <1>1 DEF TickStore
  <2>2. borrowers[b] \in BorrowerDocuments
    BY <1>3
  <2>3. QED
    BY <2>1, <2>2 DEF BorrowerDocuments, Aged, Elapsed
<1>6. ASSUME NEW k \in CallKeys
      PROVE  /\ calls'[k].state = calls[k].state
             /\ calls'[k].by = calls[k].by /\ calls'[k].line = calls[k].line
             /\ Aged(calls[k].idle, calls'[k].idle)
  <2>1. calls'[k] = [calls[k] EXCEPT !.idle = Elapsed(@)]
    BY <1>1 DEF TickStore
  <2>2. calls[k] \in CallDocuments
    BY <1>3
  <2>3. QED
    BY <2>1, <2>2 DEF CallDocuments, Aged, Elapsed
<1>7. QED
  BY <1>1, <1>2, <1>4, <1>5, <1>6

LEMMA OthersAgentsBooked ==
  ASSUME WellBehaved, BookingInv, epoch' = epoch,
         \/ \E a \in Agents : Session(a) \/ WrapUpEnds(a)
         \/ \E b \in Borrowers : Backoff(b)
         \/ Tick \/ UNCHANGED vars
  PROVE  AgentsBooked'
<1>1. Exclusive(AgentClaims) /\ \A c \in AgentClaims : HasCall(c.of)
  BY DEF BookingInv, AgentsBooked
<1>2. UNCHANGED <<lines, dial>> /\ FindActive' = FindActive
  <2>1. ASSUME NEW a \in Agents, Session(a) \/ WrapUpEnds(a)
        PROVE  UNCHANGED <<lines, dial, calls>>
    BY <2>1, AgentActionDoes
  <2>2. ASSUME NEW b \in Borrowers, Backoff(b)
        PROVE  UNCHANGED <<lines, dial, calls>>
    BY <2>2, BackoffDoes
  <2>3. CASE Tick
    BY <2>3, TickDoes DEF FindActive
  <2>4. CASE UNCHANGED vars
    BY <2>4, ActiveAside DEF vars, storeVars, providerVars, allocatorVars
  <2>5. QED
    BY <2>1, <2>2, <2>3, <2>4, ActiveAside
<1>3. AgentClaims' = AgentClaims
  BY <1>2 DEF AgentClaims, Ending, HandlerAgent, Handler
<1>4. CASE Tick
  <2>1. \A x \in Agents :
          /\ agents'[x].reservedBy # None =>
               HasCall(x)' /\ agents'[x].reservedBy = epoch
          /\ agents'[x].call # None => agents'[x].call.agent = x
          /\ agents'[x].alive
          /\ HasCall(x)' = HasCall(x)
    BY <1>4, TickDoes DEF BookingInv, AgentsBooked, HasCall
  <2>2. \A c \in AgentClaims : HasCall(c.of)'
    BY <1>1, <2>1, ClaimTypes DEF BookingInv
  <2>3. QED
    BY <1>1, <1>3, <2>1, <2>2 DEF AgentsBooked
<1>5. CASE \A a \in Agents : Untouched(a)
  BY <1>1, <1>3, <1>5, AgentsUntouched
<1>6. CASE UNCHANGED vars
  BY <1>5, <1>6 DEF Untouched, vars, storeVars
<1>7. ASSUME NEW a \in Agents, Session(a) \/ WrapUpEnds(a)
      PROVE  AgentsBooked'
  BY <1>5, <1>7, AgentActionDoes DEF Untouched
<1>8. ASSUME NEW b \in Borrowers, Backoff(b)
      PROVE  AgentsBooked'
  BY <1>5, <1>8, BackoffDoes DEF Untouched
<1>9. QED
  BY <1>4, <1>6, <1>7, <1>8

-----------------------------------------------------------------------------
(* Who has booked a borrower after a step.                                 *)

EndingBorrowerPcs == {"readAgent", "moveAgent", "freeBorrower"}

Sweeping(k) == sweep.step = "freeBorrower" /\ sweep.item.call = k

LEMMA BorrowerClaimsAre ==
  \A c : c \in BorrowerClaims <=>
    \/ \E w \in Workers :
         dial[w].pc \in HoldsBorrowerPcs /\ c = DialBorrowerClaim(w)
    \/ \E k \in FindActive : c = CallBorrowerClaim(k)
    \/ \E l \in 1..MaxLines :
         Ending(l, EndingBorrowerPcs) /\ c = LineBorrowerClaim(l)
    \/ \E k \in CallKeys : Sweeping(k) /\ c = SweepBorrowerClaim(k)
BY BorrowerClaimKinds DEF EndingBorrowerPcs, Sweeping

LEMMA BorrowerClaimsAfter ==
  ASSUME NEW W \in SUBSET Workers, NEW L \in SUBSET (1..MaxLines),
         \A w \in Workers \ W : dial'[w].pc \in HoldsBorrowerPcs =>
           /\ dial[w].pc \in HoldsBorrowerPcs
           /\ DialBorrowerClaim(w)' = DialBorrowerClaim(w),
         \A l \in (1..MaxLines) \ L : Ending(l, EndingBorrowerPcs)' =>
           /\ Ending(l, EndingBorrowerPcs)
           /\ LineBorrowerClaim(l)' = LineBorrowerClaim(l),
         NEW c \in BorrowerClaims'
  PROVE  \/ /\ c \in BorrowerClaims
            /\ \A w \in W : c # DialBorrowerClaim(w)
            /\ \A l \in L : c # LineBorrowerClaim(l)
            /\ \A k \in CallKeys : c = CallBorrowerClaim(k) => k \in FindActive'
            /\ \A k \in CallKeys : c = SweepBorrowerClaim(k) =>
                 \E j \in CallKeys : Sweeping(j)' /\ c = SweepBorrowerClaim(j)
         \/ \E w \in W : /\ dial'[w].pc \in HoldsBorrowerPcs
                         /\ c = DialBorrowerClaim(w)'
         \/ \E k \in FindActive' \ FindActive : c = CallBorrowerClaim(k)
         \/ \E l \in L : /\ Ending(l, EndingBorrowerPcs)'
                         /\ c = LineBorrowerClaim(l)'
         \/ \E k \in CallKeys : /\ Sweeping(k)' /\ ~Sweeping(k)
                                /\ c = SweepBorrowerClaim(k)
<1>1. \/ \E w \in Workers : /\ dial'[w].pc \in HoldsBorrowerPcs
                            /\ c = DialBorrowerClaim(w)'
      \/ \E k \in FindActive' : c = CallBorrowerClaim(k)
      \/ \E l \in 1..MaxLines : /\ Ending(l, EndingBorrowerPcs)'
                                /\ c = LineBorrowerClaim(l)'
      \/ \E k \in CallKeys : Sweeping(k)' /\ c = SweepBorrowerClaim(k)
  BY DEF BorrowerClaims, DialBorrowerClaim, CallBorrowerClaim,
         LineBorrowerClaim, SweepBorrowerClaim, EndingBorrowerPcs, Sweeping
<1>2. ASSUME NEW w \in Workers \ W, dial'[w].pc \in HoldsBorrowerPcs,
             c = DialBorrowerClaim(w)'
      PROVE  /\ c \in BorrowerClaims
             /\ \A v \in W : c # DialBorrowerClaim(v)
             /\ \A l \in L : c # LineBorrowerClaim(l)
             /\ \A k \in CallKeys :
                  c # CallBorrowerClaim(k) /\ c # SweepBorrowerClaim(k)
  <2>1. c = DialBorrowerClaim(w) /\ c \in BorrowerClaims
    BY <1>2, BorrowerClaimsAre
  <2>2. QED
    BY <2>1 DEF DialBorrowerClaim, LineBorrowerClaim, CallBorrowerClaim,
                SweepBorrowerClaim
<1>3. ASSUME NEW k \in FindActive', k \in FindActive, c = CallBorrowerClaim(k)
      PROVE  /\ c \in BorrowerClaims
             /\ \A v \in W : c # DialBorrowerClaim(v)
             /\ \A l \in L : c # LineBorrowerClaim(l)
             /\ \A j \in CallKeys : c = CallBorrowerClaim(j) => j = k
             /\ \A j \in CallKeys : c # SweepBorrowerClaim(j)
  BY <1>3, BorrowerClaimsAre
  DEF DialBorrowerClaim, LineBorrowerClaim, CallBorrowerClaim,
      SweepBorrowerClaim
<1>4. ASSUME NEW l \in (1..MaxLines) \ L, Ending(l, EndingBorrowerPcs)',
             c = LineBorrowerClaim(l)'
      PROVE  /\ c \in BorrowerClaims
             /\ \A v \in W : c # DialBorrowerClaim(v)
             /\ \A m \in L : c # LineBorrowerClaim(m)
             /\ \A k \in CallKeys :
                  c # CallBorrowerClaim(k) /\ c # SweepBorrowerClaim(k)
  <2>1. c = LineBorrowerClaim(l) /\ c \in BorrowerClaims
    BY <1>4, BorrowerClaimsAre
  <2>2. QED
    BY <2>1 DEF DialBorrowerClaim, LineBorrowerClaim, CallBorrowerClaim,
                SweepBorrowerClaim
<1>5. ASSUME NEW k \in CallKeys, Sweeping(k), Sweeping(k)',
             c = SweepBorrowerClaim(k)
      PROVE  /\ c \in BorrowerClaims
             /\ \A v \in W : c # DialBorrowerClaim(v)
             /\ \A m \in L : c # LineBorrowerClaim(m)
             /\ \A j \in CallKeys : c # CallBorrowerClaim(j)
             /\ Sweeping(k)' /\ c = SweepBorrowerClaim(k)
  <2>1. c \in BorrowerClaims
    BY <1>5, BorrowerClaimsAre
  <2>2. QED
    BY <1>5, <2>1 DEF DialBorrowerClaim, LineBorrowerClaim, CallBorrowerClaim,
                      SweepBorrowerClaim
<1>6. QED
  BY <1>1, <1>2, <1>3, <1>4, <1>5

SameBorrower(b) ==
  /\ borrowers'[b].status = borrowers[b].status
  /\ borrowers'[b].reservedBy = borrowers[b].reservedBy
  /\ borrowers'[b].attempts = borrowers[b].attempts
  /\ borrowers[b].due => borrowers'[b].due

LEMMA BorrowersUntouched ==
  ASSUME BookingInv, epoch' = epoch, \A b \in Borrowers : SameBorrower(b),
         Exclusive(BorrowerClaims'),
         \A d \in BorrowerClaims' : \E c \in BorrowerClaims :
           c.of = d.of /\ c.attempt = d.attempt
  PROVE  BorrowersBooked'
<1>1. \A b \in Borrowers : borrowers'[b].status = "RESERVED" =>
        borrowers'[b].reservedBy = epoch /\ borrowers'[b].due
  BY DEF BookingInv, BorrowersBooked, SameBorrower
<1>2. \A c \in BorrowerClaims :
        /\ borrowers'[c.of].status = "RESERVED"
        /\ c.attempt = borrowers'[c.of].attempts + 1
  BY ClaimTypes DEF BookingInv, BorrowersBooked, SameBorrower
<1>3. QED
  BY <1>1, <1>2 DEF BorrowersBooked

LEMMA BorrowerGivenBack ==
  ASSUME BookingInv, epoch' = epoch, NEW c \in BorrowerClaims,
         \A d \in BorrowerClaims' : d \in BorrowerClaims /\ d # c,
         \A x \in Borrowers \ {c.of} : borrowers'[x] = borrowers[x],
         \/ borrowers'[c.of] = borrowers[c.of]
         \/ borrowers'[c.of].status # "RESERVED"
  PROVE  BorrowersBooked'
<1>1. Exclusive(BorrowerClaims')
  BY DEF Exclusive, BookingInv, BorrowersBooked
<1>2. \A d \in BorrowerClaims' : d.of \in Borrowers /\ d.of # c.of
  BY ClaimTypes DEF Exclusive, BookingInv, BorrowersBooked
<1>3. \A d \in BorrowerClaims' :
        /\ borrowers'[d.of].status = "RESERVED"
        /\ d.attempt = borrowers'[d.of].attempts + 1
  BY <1>2 DEF BookingInv, BorrowersBooked
<1>4. \A b \in Borrowers : borrowers'[b].status = "RESERVED" =>
        borrowers'[b].reservedBy = epoch /\ borrowers'[b].due
  BY DEF BookingInv, BorrowersBooked
<1>5. QED
  BY <1>1, <1>3, <1>4 DEF BorrowersBooked

(* A step of a worker that does nothing with its call.                     *)
LEMMA DialBorrowerClaimsAfter ==
  ASSUME BookingInv, NEW w \in Workers, Dialer(w),
         \A l \in 1..MaxLines :
           lines'[l] = lines[l] \/ lines'[l].handler = IdleHandler,
         NEW c \in BorrowerClaims'
  PROVE  \/ /\ c \in BorrowerClaims /\ c # DialBorrowerClaim(w)
            /\ \A k \in CallKeys : c = CallBorrowerClaim(k) => k \in FindActive'
         \/ dial'[w].pc \in HoldsBorrowerPcs /\ c = DialBorrowerClaim(w)'
         \/ \E k \in FindActive' \ FindActive : c = CallBorrowerClaim(k)
<1>1. \A v \in Workers \ {w} : dial'[v].pc \in HoldsBorrowerPcs =>
        /\ dial[v].pc \in HoldsBorrowerPcs
        /\ DialBorrowerClaim(v)' = DialBorrowerClaim(v)
  BY OtherDials DEF DialBorrowerClaim
<1>2. \A l \in (1..MaxLines) \ {} : Ending(l, EndingBorrowerPcs)' =>
        /\ Ending(l, EndingBorrowerPcs)
        /\ LineBorrowerClaim(l)' = LineBorrowerClaim(l)
  BY DEF Ending, Handler, LineBorrowerClaim, IdleHandler, EndingBorrowerPcs
<1>3. \A k \in CallKeys : Sweeping(k)' => Sweeping(k)
  BY OtherDials DEF Sweeping
<1>4. {} \in SUBSET (1..MaxLines) /\ {w} \in SUBSET Workers
  OBVIOUS
<1>5. \/ /\ c \in BorrowerClaims
         /\ \A v \in {w} : c # DialBorrowerClaim(v)
         /\ \A k \in CallKeys : c = CallBorrowerClaim(k) => k \in FindActive'
      \/ \E v \in {w} : /\ dial'[v].pc \in HoldsBorrowerPcs
                        /\ c = DialBorrowerClaim(v)'
      \/ \E k \in FindActive' \ FindActive : c = CallBorrowerClaim(k)
  BY <1>1, <1>2, <1>3, <1>4, BorrowerClaimsAfter
<1>6. QED
  BY <1>5

LEMMA DialLines ==
  ASSUME BookingInv, NEW w \in Workers, Dialer(w), NEW l \in 1..MaxLines
  PROVE  lines'[l] = lines[l] \/ lines'[l].handler = IdleHandler
<1>1. CASE Originate(w)
  BY <1>1, OriginateDoes
<1>2. QED
  BY <1>1, ClaimAgentDoes, ClaimBorrowerDoes, GiveAgentBackDoes, CreateDoes,
     DialTransitionDoes, MarkDialingDoes, BindDoes, AttachDoes, FreeAgentDoes,
     FreeBorrowerDoes
  DEF Dialer, DialStep

(* Which calls a worker makes active.                                      *)
LEMMA DialActive ==
  ASSUME BookingInv, NEW w \in Workers, Dialer(w)
  PROVE  /\ ~Reserve(w) => FindActive' \subseteq FindActive
         /\ ~Reserve(w) /\ ~FailCall(w) => FindActive' = FindActive
<1>1. CASE UNCHANGED calls
  BY <1>1, ActiveAside
<1>2. CASE Create(w)
  <2>1. \A k \in CallKeys :
          \/ calls'[k] = calls[k]
          \/ calls[k].state = "ABSENT" /\ calls'[k].state = "QUEUED"
    BY <1>2, CreateDoes
  <2>2. FindActive' = FindActive
    BY <2>1 DEF FindActive, CallStates
  <2>3. QED
    BY <2>2
<1>3. CASE Initiate(w)
  <2>1. \A k \in CallKeys :
          \/ calls'[k] = calls[k]
          \/ calls[k].state = "RESERVED" /\ calls'[k].state = "INITIATED"
    BY <1>3, DialTransitionDoes
  <2>2. FindActive' = FindActive
    BY <2>1 DEF FindActive, CallStates, TerminalCallStates
  <2>3. QED
    BY <2>2
<1>4. CASE FailCall(w)
  <2>1. \A k \in CallKeys :
          calls'[k] = calls[k] \/ calls'[k].state = "FAILED"
    BY <1>4, DialTransitionDoes
  <2>2. FindActive' \subseteq FindActive
    BY <2>1 DEF FindActive, TerminalCallStates
  <2>3. QED
    BY <1>4, <2>2
<1>5. CASE Attach(w)
  <2>1. DialKey(w) \in CallKeys /\ calls[DialKey(w)] \in CallDocuments
    BY <1>5, AttachDoes, Types DEF BookingInv
  <2>2. calls'[DialKey(w)].state = calls[DialKey(w)].state
    BY <1>5, <2>1, AttachDoes DEF CallDocuments
  <2>3. \A k \in CallKeys : calls'[k].state = calls[k].state
    BY <1>5, <2>2, AttachDoes
  <2>4. FindActive' = FindActive
    BY <2>3 DEF FindActive
  <2>5. QED
    BY <2>4
<1>6. CASE Reserve(w)
  BY <1>6
<1>7. QED
  BY <1>1, <1>2, <1>3, <1>4, <1>5, <1>6, ClaimAgentDoes, ClaimBorrowerDoes,
     GiveAgentBackDoes, MarkDialingDoes, BindDoes, OriginateDoes,
     FreeAgentDoes, FreeBorrowerDoes
  DEF Dialer, DialStep

LEMMA DialBorrowersBooked ==
  ASSUME BookingInv, epoch' = epoch, NEW w \in Workers, Dialer(w)
  PROVE  BorrowersBooked'
<1>1. /\ Exclusive(BorrowerClaims)
      /\ \A c \in BorrowerClaims : borrowers[c.of].status = "RESERVED"
  BY DEF BookingInv, BorrowersBooked
<1>2. ASSUME NEW c \in BorrowerClaims'
      PROVE  \/ /\ c \in BorrowerClaims /\ c # DialBorrowerClaim(w)
                /\ \A k \in CallKeys :
                     c = CallBorrowerClaim(k) => k \in FindActive'
             \/ /\ dial'[w].pc \in HoldsBorrowerPcs
                /\ c = DialBorrowerClaim(w)'
             \/ \E k \in FindActive' \ FindActive : c = CallBorrowerClaim(k)
  BY DialBorrowerClaimsAfter, DialLines
<1>3. CASE ClaimBorrower(w)
  <2>1. PICK b \in Borrowers :
           /\ borrowers[b].status = "PENDING" /\ borrowers[b].due
           /\ \A x \in Borrowers \ {b} : borrowers'[x] = borrowers[x]
           /\ borrowers'[b].status = "RESERVED"
           /\ borrowers'[b].reservedBy = epoch
           /\ borrowers'[b].attempts = borrowers[b].attempts
           /\ borrowers'[b].due = borrowers[b].due
           /\ dial'[w].borrower = b
           /\ dial'[w].attempt = borrowers[b].attempts + 1
           /\ UNCHANGED calls
    BY <1>3, ClaimBorrowerDoes
  <2>2. \A c \in BorrowerClaims' :
          c \in BorrowerClaims \/ c = DialBorrowerClaim(w)'
    BY <1>2, <2>1, ActiveAside
  <2>3. /\ DialBorrowerClaim(w)'.of = b
        /\ DialBorrowerClaim(w)'.attempt = borrowers'[b].attempts + 1
    BY <2>1 DEF DialBorrowerClaim
  <2>4. \A c \in BorrowerClaims : c.of # b
    BY <1>1, <2>1
  <2>5. Exclusive(BorrowerClaims')
    BY <1>1, <2>2, <2>3, <2>4 DEF Exclusive
  <2>6. \A c \in BorrowerClaims :
          /\ borrowers'[c.of].status = "RESERVED"
          /\ c.attempt = borrowers'[c.of].attempts + 1
    BY <2>1, <2>4, ClaimTypes DEF BookingInv, BorrowersBooked
  <2>7. \A x \in Borrowers : borrowers'[x].status = "RESERVED" =>
          borrowers'[x].reservedBy = epoch /\ borrowers'[x].due
    BY <2>1 DEF BookingInv, BorrowersBooked
  <2>8. QED
    BY <2>1, <2>2, <2>3, <2>5, <2>6, <2>7 DEF BorrowersBooked
<1>4. CASE FreeBorrower(w)
  <2>1. /\ dial[w].pc \in HoldsBorrowerPcs /\ dial'[w].pc \notin HoldsBorrowerPcs
        /\ \A x \in Borrowers \ {dial[w].borrower} :
             borrowers'[x] = borrowers[x]
        /\ borrowers'[dial[w].borrower].status # "RESERVED"
        /\ UNCHANGED calls
    BY <1>4, FreeBorrowerDoes DEF HoldsBorrowerPcs, Returned
  <2>2. /\ DialBorrowerClaim(w) \in BorrowerClaims
        /\ DialBorrowerClaim(w).of = dial[w].borrower
    BY <2>1, BorrowerClaimsAre DEF DialBorrowerClaim
  <2>3. \A d \in BorrowerClaims' :
          d \in BorrowerClaims /\ d # DialBorrowerClaim(w)
    BY <1>2, <2>1, ActiveAside
  <2>4. QED
    BY <2>1, <2>2, <2>3, BorrowerGivenBack
<1>5. CASE Reserve(w) \/ FailCall(w)
  <2> DEFINE key == DialKey(w)
  <2>1. /\ key \in CallKeys
        /\ key.borrower = dial[w].borrower /\ key.attempt = dial[w].attempt
        /\ \A k \in CallKeys \ {key} : calls'[k] = calls[k]
        /\ UNCHANGED <<borrowers, lines>>
    BY <1>5, DialTransitionDoes, DialTypes DEF BookingInv
  <2>2. \A k \in FindActive' : k \in FindActive \/ k = key
    BY <2>1 DEF FindActive
  <2>3. CallBorrowerClaim(key).of = dial[w].borrower
        /\ CallBorrowerClaim(key).attempt = dial[w].attempt
    BY <2>1 DEF CallBorrowerClaim
  <2>4. CASE Reserve(w)
    <3>1. /\ dial[w].pc \in HoldsBorrowerPcs
          /\ dial'[w].pc \notin HoldsBorrowerPcs
      BY <2>4, DialTransitionDoes, DialTypes
      DEF HoldsBorrowerPcs, BookingInv, Dials
    <3>2. /\ DialBorrowerClaim(w) \in BorrowerClaims
          /\ DialBorrowerClaim(w).of = dial[w].borrower
          /\ DialBorrowerClaim(w).attempt = dial[w].attempt
      BY <3>1, BorrowerClaimsAre DEF DialBorrowerClaim
    <3> HIDE DEF key
    <3>4. \A c \in BorrowerClaims' :
            \/ c \in BorrowerClaims /\ c # DialBorrowerClaim(w)
            \/ c = CallBorrowerClaim(key)
      BY <1>2, <2>2, <3>1
    <3>5. Exclusive(BorrowerClaims')
      BY <1>1, <2>3, <3>2, <3>4 DEF Exclusive
    <3>6. \A d \in BorrowerClaims' : \E c \in BorrowerClaims :
            c.of = d.of /\ c.attempt = d.attempt
      BY <2>3, <3>2, <3>4
    <3>7. QED
      BY <2>1, <3>5, <3>6, BorrowersUntouched DEF SameBorrower
  <2>5. CASE FailCall(w)
    <3>1. /\ dial'[w].borrower = dial[w].borrower
          /\ dial'[w].attempt = dial[w].attempt
          /\ key \in FindActive /\ key \notin FindActive'
      <4>1. dial[w].pc = "failCall" /\ calls'[key].state = "FAILED"
            /\ dial'[w] = [dial[w] EXCEPT !.pc = "freeAgent",
                                          !.outcome = "RETRY"]
        BY <2>5, DialTransitionDoes
      <4>2. key \in FindActive
        BY <4>1, DialHolds DEF HasCallPcs
      <4>3. dial'[w].borrower = dial[w].borrower
            /\ dial'[w].attempt = dial[w].attempt
        BY <4>1, DialTypes DEF BookingInv, Dials
      <4>4. QED
        BY <4>1, <4>2, <4>3 DEF FindActive, TerminalCallStates
    <3>2. CallBorrowerClaim(key) \in BorrowerClaims
      BY <3>1, BorrowerClaimsAre
    <3>3. /\ DialBorrowerClaim(w)'.of = dial[w].borrower
          /\ DialBorrowerClaim(w)'.attempt = dial[w].attempt
      BY <3>1 DEF DialBorrowerClaim
    <3> HIDE DEF key
    <3>4. \A c \in BorrowerClaims' :
            \/ c \in BorrowerClaims /\ c # CallBorrowerClaim(key)
            \/ c = DialBorrowerClaim(w)'
      BY <1>2, <2>1, <2>2, <3>1
    <3>5. Exclusive(BorrowerClaims')
      BY <1>1, <2>3, <3>2, <3>3, <3>4 DEF Exclusive
    <3>6. \A d \in BorrowerClaims' : \E c \in BorrowerClaims :
            c.of = d.of /\ c.attempt = d.attempt
      BY <2>3, <3>2, <3>3, <3>4
    <3>7. QED
      BY <2>1, <3>5, <3>6, BorrowersUntouched DEF SameBorrower
  <2>6. QED
    BY <1>5, <2>4, <2>5
<1>6. CASE \/ ClaimAgent(w) \/ GiveAgentBack(w) \/ Create(w) \/ Initiate(w)
           \/ MarkDialing(w) \/ Bind(w) \/ Originate(w) \/ Attach(w)
           \/ FreeAgent(w)
  <2>1. /\ UNCHANGED borrowers
        /\ dial'[w].pc \in HoldsBorrowerPcs =>
             /\ dial[w].pc \in HoldsBorrowerPcs
             /\ dial'[w].borrower = dial[w].borrower
             /\ dial'[w].attempt = dial[w].attempt
    <3>1. dial[w] \in Dials
      BY DialTypes DEF BookingInv
    <3>2. CASE ClaimAgent(w) \/ GiveAgentBack(w) \/ Attach(w)
      BY <3>2, ClaimAgentDoes, GiveAgentBackDoes, AttachDoes
      DEF HoldsBorrowerPcs
    <3>3. CASE Create(w)
      BY <3>1, <3>3, CreateDoes DEF HoldsBorrowerPcs, Dials
    <3>4. CASE Initiate(w)
      BY <3>1, <3>4, DialTransitionDoes DEF HoldsBorrowerPcs, Dials
    <3>5. CASE MarkDialing(w)
      BY <3>1, <3>5, MarkDialingDoes DEF HoldsBorrowerPcs, Dials
    <3>6. CASE Bind(w)
      BY <3>1, <3>6, BindDoes DEF HoldsBorrowerPcs, Dials
    <3>7. CASE Originate(w)
      BY <3>1, <3>7, OriginateDoes DEF HoldsBorrowerPcs, Dials
    <3>8. CASE FreeAgent(w)
      BY <3>1, <3>8, FreeAgentDoes DEF HoldsBorrowerPcs, Dials
    <3>9. QED
      BY <1>6, <3>2, <3>3, <3>4, <3>5, <3>6, <3>7, <3>8
  <2>2. ~Reserve(w) /\ ~FailCall(w)
    BY <1>6
    DEF ClaimAgent, GiveAgentBack, Create, Initiate, MarkDialing, Bind,
        Originate, Attach, FreeAgent, Reserve, FailCall
  <2>3. FindActive' = FindActive
    BY <2>2, DialActive
  <2>4. dial'[w].pc \in HoldsBorrowerPcs =>
          DialBorrowerClaim(w)' \in BorrowerClaims
    <3>1. dial'[w].pc \in HoldsBorrowerPcs =>
            DialBorrowerClaim(w)' = DialBorrowerClaim(w)
      BY <2>1 DEF DialBorrowerClaim
    <3>2. QED
      BY <2>1, <3>1, BorrowerClaimsAre
  <2>5. \A c \in BorrowerClaims' : c \in BorrowerClaims
    BY <1>2, <2>3, <2>4
  <2>6. Exclusive(BorrowerClaims')
    BY <1>1, <2>5, ClaimsDropped
  <2>7. QED
    BY <2>1, <2>5, <2>6, BorrowersUntouched DEF SameBorrower
<1>7. QED
  BY <1>3, <1>4, <1>5, <1>6 DEF Dialer, DialStep

LEMMA LineBorrowerClaimsAfter ==
  ASSUME BookingInv, NEW l \in 1..MaxLines, UNCHANGED <<dial, sweep>>,
         \A m \in (1..MaxLines) \ {l} : lines'[m] = lines[m],
         FindActive' \subseteq FindActive,
         NEW c \in BorrowerClaims'
  PROVE  \/ /\ c \in BorrowerClaims /\ c # LineBorrowerClaim(l)
            /\ \A k \in CallKeys : c = CallBorrowerClaim(k) => k \in FindActive'
         \/ Ending(l, EndingBorrowerPcs)' /\ c = LineBorrowerClaim(l)'
<1>1. \A v \in Workers \ {} : dial'[v].pc \in HoldsBorrowerPcs =>
        /\ dial[v].pc \in HoldsBorrowerPcs
        /\ DialBorrowerClaim(v)' = DialBorrowerClaim(v)
  BY DEF DialBorrowerClaim
<1>2. \A m \in (1..MaxLines) \ {l} : Ending(m, EndingBorrowerPcs)' =>
        /\ Ending(m, EndingBorrowerPcs)
        /\ LineBorrowerClaim(m)' = LineBorrowerClaim(m)
  BY DEF Ending, Handler, LineBorrowerClaim, EndingBorrowerPcs
<1>3. \A k \in CallKeys : Sweeping(k)' => Sweeping(k)
  BY DEF Sweeping
<1>4. {l} \in SUBSET (1..MaxLines) /\ {} \in SUBSET Workers
  OBVIOUS
<1>5. \/ /\ c \in BorrowerClaims
         /\ \A m \in {l} : c # LineBorrowerClaim(m)
         /\ \A k \in CallKeys : c = CallBorrowerClaim(k) => k \in FindActive'
      \/ \E k \in FindActive' \ FindActive : c = CallBorrowerClaim(k)
      \/ \E m \in {l} : /\ Ending(m, EndingBorrowerPcs)'
                        /\ c = LineBorrowerClaim(m)'
  BY <1>1, <1>2, <1>3, <1>4, BorrowerClaimsAfter
<1>6. QED
  BY <1>5

LEMMA ProcessorBorrowersBooked ==
  ASSUME BookingInv, epoch' = epoch, NEW l \in 1..MaxLines, Processor(l)
  PROVE  BorrowersBooked'
<1>1. Exclusive(BorrowerClaims)
  BY DEF BookingInv, BorrowersBooked
<1>2. UNCHANGED <<dial, sweep>>
  BY OtherTasks
<1>3. ASSUME \A m \in (1..MaxLines) \ {l} : lines'[m] = lines[m],
             FindActive' \subseteq FindActive, UNCHANGED borrowers,
             Ending(l, EndingBorrowerPcs)' =>
               /\ Ending(l, EndingBorrowerPcs)
               /\ LineBorrowerClaim(l)' = LineBorrowerClaim(l)
      PROVE  BorrowersBooked'
  <2>1. \A c \in BorrowerClaims' : c \in BorrowerClaims
    <3>1. SUFFICES ASSUME NEW c \in BorrowerClaims' PROVE c \in BorrowerClaims
      OBVIOUS
    <3>2. CASE Ending(l, EndingBorrowerPcs)' /\ c = LineBorrowerClaim(l)'
      BY <1>3, <3>2, BorrowerClaimsAre
    <3>3. QED
      BY <1>2, <1>3, <3>2, LineBorrowerClaimsAfter
  <2>2. QED
    BY <1>1, <1>3, <2>1, ClaimsDropped, BorrowersUntouched DEF SameBorrower
<1>4. CASE ReceiveEvent(l)
  <2>1. PICK handler : /\ HandlerMoves(l, handler)
                       /\ handler.pc \in {"idle", "applyCall"}
    BY <1>4, ReceiveEventDoes DEF IdleHandler
  <2>2. ~Ending(l, EndingBorrowerPcs)'
    BY <2>1 DEF Ending, Handler, HandlerMoves, EndingBorrowerPcs
  <2>3. UNCHANGED storeVars
    BY <1>4, ReceiveEventDoes
  <2>4. QED
    BY <1>3, <2>1, <2>2, <2>3, ActiveAside DEF HandlerMoves, storeVars
<1>5. CASE Finish(l)
  <2>1. ~Ending(l, EndingBorrowerPcs)'
    BY <1>5, FinishDoes DEF Ending, Handler, IdleHandler, EndingBorrowerPcs
  <2>2. QED
    BY <1>3, <1>5, <2>1, FinishDoes, ActiveAside DEF storeVars
<1>6. CASE ReadAgent(l) \/ MoveAgent(l)
  <2>1. /\ Handler(l).pc \in {"readAgent", "moveAgent"}
        /\ UNCHANGED <<borrowers, calls>>
    BY <1>6, ReadAgentDoes, MoveAgentDoes DEF storeVars
  <2>2. Handler(l) \in Handlers
    BY HandlerTypes DEF BookingInv
  <2>3. PICK handler :
          /\ HandlerMoves(l, handler)
          /\ \/ handler.pc = "idle"
             \/ /\ handler.call = Handler(l).call
                /\ handler.target = Handler(l).target
    <3>1. \/ AfterAgent(l).pc = "idle"
          \/ /\ AfterAgent(l).call = Handler(l).call
             /\ AfterAgent(l).target = Handler(l).target
      BY <2>1, <2>2, AfterAgentDoes DEF IdleHandler, Handlers
    <3>2. QED
      BY <1>6, <3>1, ReadAgentDoes, MoveAgentDoes
  <2>4. /\ Handler(l)' = handler
        /\ \A m \in (1..MaxLines) \ {l} : lines'[m] = lines[m]
    BY <2>3 DEF HandlerMoves, Handler
  <2>5. Ending(l, EndingBorrowerPcs)' =>
          /\ Ending(l, EndingBorrowerPcs)
          /\ LineBorrowerClaim(l)' = LineBorrowerClaim(l)
    BY <2>1, <2>3, <2>4 DEF Ending, LineBorrowerClaim, EndingBorrowerPcs
  <2>6. QED
    BY <1>3, <2>1, <2>4, <2>5, ActiveAside
<1>7. CASE SettleBorrower(l)
  <2>1. PICK b \in Borrowers :
          /\ b = Handler(l).call.borrower
          /\ \A x \in Borrowers \ {b} : borrowers'[x] = borrowers[x]
          /\ \/ borrowers'[b] = borrowers[b]
             \/ borrowers'[b].status # "RESERVED"
    BY <1>7, SettleBorrowerDoes DEF Returned
  <2>2. /\ Handler(l).pc = "freeBorrower" /\ HandlerMoves(l, IdleHandler)
        /\ UNCHANGED calls
    BY <1>7, SettleBorrowerDoes
  <2>3. IsTerminal(Handler(l).target)
    BY <2>2 DEF BookingInv, LinesOK
  <2>4. /\ LineBorrowerClaim(l) \in BorrowerClaims
        /\ LineBorrowerClaim(l).of = b
    BY <2>1, <2>2, <2>3, BorrowerClaimsAre
    DEF LineBorrowerClaim, Ending, EndingBorrowerPcs
  <2>5. ~Ending(l, EndingBorrowerPcs)'
    BY <2>2 DEF Ending, Handler, IdleHandler, HandlerMoves, EndingBorrowerPcs
  <2>6. \A c \in BorrowerClaims' :
          c \in BorrowerClaims /\ c # LineBorrowerClaim(l)
    BY <1>2, <2>2, <2>5, ActiveAside, LineBorrowerClaimsAfter DEF HandlerMoves
  <2>7. QED
    BY <2>1, <2>4, <2>6, BorrowerGivenBack
<1>8. CASE ApplyCall(l)
  <2>1. PICK k \in CallKeys : k = Handler(l).call
    BY <1>8, ApplyCallDoes, HandlerTypes DEF BookingInv
  <2>2. UNCHANGED borrowers
    BY <1>8, ApplyCallDoes
  <2>3. CASE UNCHANGED calls /\ HandlerMoves(l, IdleHandler)
    <3>1. ~Ending(l, EndingBorrowerPcs)'
      BY <2>3
      DEF Ending, Handler, IdleHandler, HandlerMoves, EndingBorrowerPcs
    <3>2. QED
      BY <1>3, <2>2, <2>3, <3>1, ActiveAside DEF HandlerMoves
  <2>4. CASE /\ k \in FindActive
             /\ \A j \in CallKeys \ {k} : calls'[j] = calls[j]
             /\ calls'[k].state = Handler(l).target
             /\ HandlerMoves(l, [Handler(l) EXCEPT !.pc = "readAgent"])
    <3>1. FindActive' \subseteq FindActive
      BY <2>4 DEF FindActive
    <3>2. /\ Handler(l)'.call = k /\ Handler(l)'.target = Handler(l).target
      BY <2>1, <2>4, HandlerTypes
      DEF BookingInv, Handlers, HandlerMoves, Handler
    <3>3. CASE ~IsTerminal(Handler(l).target)
      <4>1. ~Ending(l, EndingBorrowerPcs)'
        BY <3>2, <3>3 DEF Ending
      <4>2. QED
        BY <1>3, <2>2, <2>4, <3>1, <4>1 DEF HandlerMoves
    <3>4. CASE IsTerminal(Handler(l).target)
      <4>1. k \notin FindActive'
        BY <2>4, <3>4 DEF FindActive, IsTerminal
      <4>2. /\ CallBorrowerClaim(k) \in BorrowerClaims
            /\ CallBorrowerClaim(k).of = k.borrower
            /\ CallBorrowerClaim(k).attempt = k.attempt
        BY <2>4, BorrowerClaimsAre DEF CallBorrowerClaim
      <4>3. /\ LineBorrowerClaim(l)'.of = k.borrower
            /\ LineBorrowerClaim(l)'.attempt = k.attempt
        BY <3>2 DEF LineBorrowerClaim
      <4>4. ASSUME NEW c \in BorrowerClaims'
            PROVE  \/ c \in BorrowerClaims /\ c # CallBorrowerClaim(k)
                   \/ c = LineBorrowerClaim(l)'
        BY <1>2, <2>4, <3>1, <4>1, LineBorrowerClaimsAfter DEF HandlerMoves
      <4>5. Exclusive(BorrowerClaims')
        BY <1>1, <4>2, <4>3, <4>4 DEF Exclusive
      <4>6. \A d \in BorrowerClaims' : \E c \in BorrowerClaims :
              c.of = d.of /\ c.attempt = d.attempt
        BY <4>2, <4>3, <4>4
      <4>7. QED
        BY <2>2, <4>5, <4>6, BorrowersUntouched DEF SameBorrower
    <3>5. QED
      BY <3>3, <3>4
  <2>5. QED
    BY <1>8, <2>1, <2>3, <2>4, ApplyCallDoes
<1>9. QED
  BY <1>4, <1>5, <1>6, <1>7, <1>8 DEF Processor, EventStep

(* The sweep takes over the borrower of the call it cancelled.             *)
LEMMA SweepBorrowerClaimsAfter ==
  ASSUME BookingInv, UNCHANGED <<dial, lines>>, NEW c \in BorrowerClaims'
  PROVE  \/ /\ c \in BorrowerClaims
            /\ \A k \in CallKeys : c = CallBorrowerClaim(k) => k \in FindActive'
            /\ \A k \in CallKeys : c = SweepBorrowerClaim(k) =>
                 \E j \in CallKeys : Sweeping(j)' /\ c = SweepBorrowerClaim(j)
         \/ \E k \in FindActive' \ FindActive : c = CallBorrowerClaim(k)
         \/ \E k \in CallKeys : /\ Sweeping(k)' /\ ~Sweeping(k)
                                /\ c = SweepBorrowerClaim(k)
<1>1. \A v \in Workers \ {} : dial'[v].pc \in HoldsBorrowerPcs =>
        /\ dial[v].pc \in HoldsBorrowerPcs
        /\ DialBorrowerClaim(v)' = DialBorrowerClaim(v)
  BY DEF DialBorrowerClaim
<1>2. \A m \in (1..MaxLines) \ {} : Ending(m, EndingBorrowerPcs)' =>
        /\ Ending(m, EndingBorrowerPcs)
        /\ LineBorrowerClaim(m)' = LineBorrowerClaim(m)
  BY DEF Ending, Handler, LineBorrowerClaim, EndingBorrowerPcs
<1>3. {} \in SUBSET (1..MaxLines) /\ {} \in SUBSET Workers
  OBVIOUS
<1>4. QED
  BY <1>1, <1>2, <1>3, BorrowerClaimsAfter

(* Nobody has booked a borrower whose lease has run out when the sweep of  *)
(* agent leases is over.                                                   *)
LEMMA ExpiredBorrowers ==
  ASSUME BookingInv, ExpiredAgentLeases = {}, sweep.step = "next",
         NEW b \in Borrowers, borrowers[b].lease = 0
  PROVE  \A c \in BorrowerClaims : c.of # b
<1>1. \A w \in Workers : dial[w].pc \in HoldsBorrowerPcs =>
        dial[w].borrower # b /\ DialBorrowerClaim(w).of = dial[w].borrower
  <2>1. 0 \notin 1..TTL
    OBVIOUS
  <2>2. QED
    BY <2>1, DialHolds DEF DialBorrowerClaim
<1>2. \A l \in 1..MaxLines : Ending(l, EndingBorrowerPcs) =>
        /\ Handler(l).call.borrower # b
        /\ LineBorrowerClaim(l).of = Handler(l).call.borrower
  BY DEF BookingInv, LinesOK, LeasesOK, Ending, EndingBorrowerPcs,
         LineBorrowerClaim
<1>3. \A k \in FindActive :
        k.borrower # b /\ CallBorrowerClaim(k).of = k.borrower
  <2>1. ASSUME NEW k \in FindActive, k.borrower = b
        PROVE  FALSE
    <3>1. /\ k.agent \in Agents /\ HasCall(k.agent)
          /\ agents[k.agent].reservedBy # None
          /\ agents[k.agent].lease \in 0..TTL
      BY ActiveHolds, Types DEF BookingInv
    <3>2. agents[k.agent].lease <= 0
      BY <2>1 DEF BookingInv, LeasesOK
    <3>3. TTL \in Nat
      BY StoreAssumption
    <3>4. agents[k.agent].lease = 0
      BY <3>1, <3>2, <3>3
    <3>5. \A s \in {"RESERVED", "DIALING", "CONNECTED"} :
            s \in AllowedSources("AVAILABLE", "RECOVERY")
      BY DEF AllowedSources, ValidTransition, CanTransition, IsActorAllowed,
             AgentTransitions, Authorised, AgentStates
    <3>6. k.agent \in ExpiredAgentLeases
      BY <3>1, <3>4, <3>5 DEF ExpiredAgentLeases, HasCall
    <3>7. QED
      BY <3>6
  <2>2. QED
    BY <2>1 DEF CallBorrowerClaim
<1>4. \A k \in CallKeys : ~Sweeping(k)
  BY DEF Sweeping
<1>5. QED
  BY <1>1, <1>2, <1>3, <1>4, BorrowerClaimsAre

LEMMA RecoveryBorrowersBooked ==
  ASSUME BookingInv, epoch' = epoch, Recovery
  PROVE  BorrowersBooked'
<1>1. Exclusive(BorrowerClaims)
  BY DEF BookingInv, BorrowersBooked
<1>2. UNCHANGED dial
  BY RecoveryDoes
<1>3. ASSUME UNCHANGED <<lines, borrowers, calls>>,
             \A k \in CallKeys : ~Sweeping(k)'
      PROVE  BorrowersBooked'
  <2>1. \A c \in BorrowerClaims' : c \in BorrowerClaims
    BY <1>2, <1>3, SweepBorrowerClaimsAfter, ActiveAside
  <2>2. QED
    BY <1>1, <1>3, <2>1, ClaimsDropped, BorrowersUntouched DEF SameBorrower
<1>4. CASE NextSweep
  BY <1>3, <1>4, NextSweepDoes DEF Sweeping
<1>5. CASE ReclaimAgent
  <2>1. sweep'.step = "next"
    BY <1>5, ReclaimAgentDoes, Types DEF BookingInv
  <2>2. QED
    BY <1>3, <1>5, <2>1, ReclaimAgentDoes DEF Sweeping
<1>6. CASE FreeBoundBorrower
  <2>1. PICK k \in CallKeys : k = sweep.item.call /\ k.borrower \in Borrowers
    BY <1>6, FreeBoundBorrowerDoes, ItemTypes DEF BookingInv
  <2>2. /\ Sweeping(k)
        /\ \A x \in Borrowers \ {k.borrower} : borrowers'[x] = borrowers[x]
        /\ \/ borrowers'[k.borrower] = borrowers[k.borrower]
           \/ borrowers'[k.borrower].status # "RESERVED"
        /\ UNCHANGED <<calls, lines>>
    BY <1>6, <2>1, FreeBoundBorrowerDoes DEF Sweeping, Returned
  <2>3. \A j \in CallKeys : ~Sweeping(j)'
    <3>1. sweep'.step = "settle"
      BY <1>6, FreeBoundBorrowerDoes, Types DEF BookingInv
    <3>2. QED
      BY <3>1 DEF Sweeping
  <2>4. /\ SweepBorrowerClaim(k) \in BorrowerClaims
        /\ SweepBorrowerClaim(k).of = k.borrower
    BY <2>2, BorrowerClaimsAre DEF SweepBorrowerClaim
  <2>5. \A c \in BorrowerClaims' :
          c \in BorrowerClaims /\ c # SweepBorrowerClaim(k)
    BY <1>2, <2>2, <2>3, SweepBorrowerClaimsAfter, ActiveAside
  <2>6. QED
    BY <2>2, <2>4, <2>5, BorrowerGivenBack
<1>7. ASSUME NEW item \in sweep.todo, CancelBoundCall(item)
      PROVE  BorrowersBooked'
  <2>1. /\ UNCHANGED <<borrowers, lines>> /\ sweep'.item = item
        /\ sweep.step = "next"
    BY <1>7, CancelBoundCallDoes
  <2>2. CASE UNCHANGED calls /\ sweep'.step = "settle"
    BY <1>3, <2>1, <2>2 DEF Sweeping
  <2>3. CASE /\ item.call \in FindActive
             /\ \A k \in CallKeys \ {item.call} : calls'[k] = calls[k]
             /\ calls'[item.call].state = "CANCELLED"
             /\ sweep'.step = "freeBorrower"
    <3>1. PICK k \in FindActive : k = item.call
      BY <2>3
    <3>2. k \in CallKeys /\ k \notin FindActive'
      BY <2>3, <3>1 DEF FindActive, TerminalCallStates
    <3>3. FindActive' \subseteq FindActive
      BY <2>3, <3>1, <3>2 DEF FindActive
    <3>4. \A j \in CallKeys : ~Sweeping(j) /\ (Sweeping(j)' => j = k)
      BY <2>1, <3>1 DEF Sweeping
    <3>5. /\ CallBorrowerClaim(k) \in BorrowerClaims
          /\ CallBorrowerClaim(k).of = k.borrower
          /\ CallBorrowerClaim(k).attempt = k.attempt
          /\ SweepBorrowerClaim(k).of = k.borrower
          /\ SweepBorrowerClaim(k).attempt = k.attempt
      BY BorrowerClaimsAre DEF CallBorrowerClaim, SweepBorrowerClaim
    <3>6. \A c \in BorrowerClaims' :
            \/ c \in BorrowerClaims /\ c # CallBorrowerClaim(k)
            \/ c = SweepBorrowerClaim(k)
      BY <1>2, <2>1, <3>2, <3>3, <3>4, SweepBorrowerClaimsAfter
    <3>7. Exclusive(BorrowerClaims')
      BY <1>1, <3>5, <3>6 DEF Exclusive
    <3>8. \A d \in BorrowerClaims' : \E c \in BorrowerClaims :
            c.of = d.of /\ c.attempt = d.attempt
      BY <3>5, <3>6
    <3>9. QED
      BY <2>1, <3>7, <3>8, BorrowersUntouched DEF SameBorrower
  <2>4. QED
    BY <1>7, <2>2, <2>3, CancelBoundCallDoes
<1>8. ASSUME NEW b \in sweep.todo, SweepBorrower(b)
      PROVE  BorrowersBooked'
  <2>1. /\ sweep.stage = "borrowerLeases" /\ sweep.step = "next"
        /\ b \in Borrowers
        /\ \A x \in Borrowers \ {b} : borrowers'[x] = borrowers[x]
        /\ \/ borrowers'[b] = borrowers[b]
           \/ borrowers[b].lease = 0 /\ borrowers'[b].status # "RESERVED"
        /\ UNCHANGED <<calls, lines>>
    BY <1>8, SweepBorrowerDoes DEF Returned
  <2>2. \A k \in CallKeys : ~Sweeping(k)'
    <3>1. sweep'.step = "next"
      BY <1>8, SweepBorrowerDoes, Types DEF BookingInv
    <3>2. QED
      BY <3>1 DEF Sweeping
  <2>3. CASE borrowers'[b] = borrowers[b]
    <3>1. \A c \in BorrowerClaims' : c \in BorrowerClaims
      BY <1>2, <2>1, <2>2, SweepBorrowerClaimsAfter, ActiveAside
    <3>2. QED
      BY <1>1, <2>1, <2>3, <3>1, ClaimsDropped, BorrowersUntouched
      DEF SameBorrower
  <2>4. CASE borrowers[b].lease = 0 /\ borrowers'[b].status # "RESERVED"
    <3>1. \A c \in BorrowerClaims' : c \in BorrowerClaims
      BY <1>2, <2>1, <2>2, SweepBorrowerClaimsAfter, ActiveAside
    <3>2. ExpiredAgentLeases = {}
      BY <2>1 DEF BookingInv, SweepBooked
    <3>3. \A c \in BorrowerClaims : c.of # b
      BY <2>1, <2>4, <3>2, ExpiredBorrowers
    <3>4. \A c \in BorrowerClaims' :
            /\ borrowers'[c.of].status = "RESERVED"
            /\ c.attempt = borrowers'[c.of].attempts + 1
      BY <2>1, <3>1, <3>3, ClaimTypes DEF BookingInv, BorrowersBooked
    <3>5. \A x \in Borrowers : borrowers'[x].status = "RESERVED" =>
            borrowers'[x].reservedBy = epoch /\ borrowers'[x].due
      BY <2>1, <2>4 DEF BookingInv, BorrowersBooked
    <3>6. QED
      BY <1>1, <3>1, <3>4, <3>5, ClaimsDropped DEF BorrowersBooked
  <2>5. QED
    BY <2>1, <2>3, <2>4
<1>9. ASSUME NEW item \in sweep.todo, ReleaseStuckWrapUp(item)
      PROVE  BorrowersBooked'
  <2>1. sweep'.step = "next"
    BY <1>9, ReleaseStuckWrapUpDoes, Types DEF BookingInv
  <2>2. QED
    BY <1>3, <1>9, <2>1, ReleaseStuckWrapUpDoes DEF Sweeping
<1>10. QED
  BY <1>4, <1>5, <1>6, <1>7, <1>8, <1>9, RecoveryDoes

LEMMA OthersBorrowersBooked ==
  ASSUME WellBehaved, BookingInv, epoch' = epoch,
         \/ \E a \in Agents : Session(a) \/ WrapUpEnds(a)
         \/ \E b \in Borrowers : Backoff(b)
         \/ Tick \/ UNCHANGED vars
  PROVE  BorrowersBooked'
<1>1. Exclusive(BorrowerClaims)
  BY DEF BookingInv, BorrowersBooked
<1>2. /\ UNCHANGED <<lines, dial, sweep>> /\ FindActive' = FindActive
      /\ \A b \in Borrowers : SameBorrower(b)
  <2>1. ASSUME NEW a \in Agents, Session(a) \/ WrapUpEnds(a)
        PROVE  UNCHANGED <<lines, dial, sweep, calls, borrowers>>
    BY <2>1, AgentActionDoes
  <2>2. ASSUME NEW b \in Borrowers, Backoff(b)
        PROVE  /\ UNCHANGED <<lines, dial, sweep, calls>>
               /\ \A x \in Borrowers : SameBorrower(x)
    <3>1. borrowers[b] \in BorrowerDocuments
      BY Types DEF BookingInv
    <3>2. SameBorrower(b)
      BY <2>2, <3>1, BackoffDoes DEF SameBorrower, BorrowerDocuments
    <3>3. QED
      BY <2>2, <3>2, BackoffDoes DEF SameBorrower
  <2>3. CASE Tick
    BY <2>3, TickDoes DEF FindActive, SameBorrower
  <2>4. CASE UNCHANGED vars
    BY <2>4, ActiveAside
    DEF vars, storeVars, providerVars, allocatorVars, SameBorrower
  <2>5. QED
    BY <2>1, <2>2, <2>3, <2>4, ActiveAside DEF SameBorrower
<1>3. BorrowerClaims' = BorrowerClaims
  BY <1>2 DEF BorrowerClaims, Ending, HandlerAgent, Handler
<1>4. QED
  BY <1>1, <1>2, <1>3, BorrowersUntouched

=============================================================================
