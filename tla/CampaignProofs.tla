--------------------------- MODULE CampaignProofs ---------------------------
(***************************************************************************)
(* The rest of the proof that nobody is booked twice: the remaining parts  *)
(* of BookingInv are kept, and what follows from it, up to the contract of *)
(* the campaign.                                                           *)
(***************************************************************************)
EXTENDS BookingProofs

-----------------------------------------------------------------------------
(* Where a worker left its call.                                           *)

LEMMA DialAgentsApart ==
  ASSUME BookingInv, NEW v \in Workers, NEW w \in Workers, v # w,
         dial[v].pc \in HoldsAgentPcs \cup HasCallPcs,
         dial[w].pc \in HoldsAgentPcs \cup HasCallPcs
  PROVE  dial[v].agent # dial[w].agent
<1>1. Exclusive(AgentClaims)
  BY DEF BookingInv, AgentsBooked
<1>2. \A u \in Workers : DialKey(u).agent = dial[u].agent
  BY DialTypes DEF BookingInv
<1>3. CASE dial[v].pc \in HoldsAgentPcs /\ dial[w].pc \in HoldsAgentPcs
  BY <1>1, <1>3, AgentClaimsApart
<1>4. CASE dial[v].pc \in HoldsAgentPcs /\ dial[w].pc \in HasCallPcs
  BY <1>1, <1>2, <1>4, AgentClaimsApart, DialHolds
<1>5. CASE dial[v].pc \in HasCallPcs /\ dial[w].pc \in HoldsAgentPcs
  BY <1>1, <1>2, <1>5, AgentClaimsApart, DialHolds
<1>6. CASE dial[v].pc \in HasCallPcs /\ dial[w].pc \in HasCallPcs
  <2>1. DialKey(v) # DialKey(w)
    BY <1>6 DEF BookingInv, SetUpsOK, SetUpOK
  <2>2. DialKey(v) \in FindActive /\ DialKey(w) \in FindActive
    BY <1>6, DialHolds
  <2>3. QED
    BY <1>1, <1>2, <2>1, <2>2, AgentClaimsApart
<1>7. QED
  BY <1>3, <1>4, <1>5, <1>6

SameDial(w) ==
  /\ dial'[w].agent = dial[w].agent
  /\ dial'[w].version = dial[w].version
  /\ dial'[w].borrower = dial[w].borrower
  /\ dial'[w].attempt = dial[w].attempt
  /\ DialKey(w)' = DialKey(w)

LEMMA DialMoves ==
  ASSUME CallsInv, NEW w \in Workers, NEW pc,
         dial'[w] = [dial[w] EXCEPT !.pc = pc]
  PROVE  dial'[w].pc = pc /\ dial'[w].outcome = dial[w].outcome /\ SameDial(w)
BY DialTypes DEF Dials, SameDial, DialKey, IdempotencyKey

(* What a worker writes is its own.                                        *)
LEMMA DialWrites ==
  ASSUME BookingInv, NEW w \in Workers, Dialer(w)
  PROVE  /\ dial'[w].pc \in HasCallPcs =>
              /\ dial[w].pc \in HasCallPcs \cup {"reserve"}
              /\ DialKey(w)' = DialKey(w)
         /\ \A a \in Agents :
              \/ agents'[a] = agents[a]
              \/ agents[a].state = "AVAILABLE"
              \/ /\ a = dial[w].agent
                 /\ dial[w].pc \in HoldsAgentPcs \cup HasCallPcs
         /\ \A k \in CallKeys :
              \/ calls'[k] = calls[k]
              \/ /\ k = DialKey(w)
                 /\ dial[w].pc \in HoldsAgentPcs \cup HasCallPcs
<1>1. CASE ClaimAgent(w)
  BY <1>1, ClaimAgentDoes DEF HasCallPcs
<1>2. CASE ClaimBorrower(w)
  BY <1>2, ClaimBorrowerDoes DEF HasCallPcs
<1>3. CASE GiveAgentBack(w)
  BY <1>3, GiveAgentBackDoes DEF HasCallPcs, HoldsAgentPcs
<1>4. CASE FreeAgent(w)
  BY <1>4, FreeAgentDoes, DialMoves DEF SameDial, HasCallPcs, HoldsAgentPcs, BookingInv
<1>5. CASE Create(w)
  <2>1. /\ dial[w].pc = "create"
        /\ \A k \in CallKeys \ {DialKey(w)} : calls'[k] = calls[k]
        /\ \/ dial'[w] = [dial[w] EXCEPT !.pc = "reserve"]
           \/ dial'[w] = [dial[w] EXCEPT !.pc = "freeAgent",
                                         !.outcome = "RELEASED"]
        /\ UNCHANGED agents
    BY <1>5, CreateDoes
  <2>2. dial'[w].pc \in {"reserve", "freeAgent"}
    BY <2>1, DialTypes DEF BookingInv, Dials
  <2>3. QED
    BY <2>1, <2>2 DEF HasCallPcs, HoldsAgentPcs
<1>6. CASE Reserve(w)
  <2>1. /\ dial[w].pc = "reserve"
        /\ \A k \in CallKeys \ {DialKey(w)} : calls'[k] = calls[k]
        /\ dial'[w] = [dial[w] EXCEPT !.pc = "initiate"]
        /\ UNCHANGED agents
    BY <1>6, DialTransitionDoes
  <2>2. DialKey(w)' = DialKey(w)
    BY <2>1, DialMoves DEF BookingInv, SameDial
  <2>3. QED
    BY <2>1, <2>2 DEF HasCallPcs, HoldsAgentPcs
<1>7. CASE Initiate(w)
  <2>1. /\ dial[w].pc = "initiate"
        /\ \A k \in CallKeys \ {DialKey(w)} : calls'[k] = calls[k]
        /\ dial'[w] = [dial[w] EXCEPT !.pc = "markDialing"]
        /\ UNCHANGED agents
    BY <1>7, DialTransitionDoes
  <2>2. DialKey(w)' = DialKey(w)
    BY <2>1, DialMoves DEF BookingInv, SameDial
  <2>3. QED
    BY <2>1, <2>2 DEF HasCallPcs, HoldsAgentPcs
<1>8. CASE FailCall(w)
  <2>1. /\ dial[w].pc = "failCall"
        /\ \A k \in CallKeys \ {DialKey(w)} : calls'[k] = calls[k]
        /\ dial'[w] = [dial[w] EXCEPT !.pc = "freeAgent", !.outcome = "RETRY"]
        /\ UNCHANGED agents
    BY <1>8, DialTransitionDoes
  <2>2. dial'[w].pc = "freeAgent"
    BY <2>1, DialTypes DEF BookingInv, Dials
  <2>3. QED
    BY <2>1, <2>2 DEF HasCallPcs, HoldsAgentPcs
<1>9. CASE MarkDialing(w)
  BY <1>9, MarkDialingDoes, DialMoves
  DEF SameDial, HasCallPcs, HoldsAgentPcs, BookingInv
<1>10. CASE Bind(w)
  BY <1>10, BindDoes, DialMoves DEF SameDial, HasCallPcs, HoldsAgentPcs, BookingInv
<1>11. CASE Originate(w)
  <2>1. /\ dial[w].pc = "originate"
        /\ \/ dial'[w] = [dial[w] EXCEPT !.pc = "attach", !.line = nextLine + 1]
           \/ dial'[w] = [dial[w] EXCEPT !.pc = "failCall"]
        /\ UNCHANGED <<agents, calls>>
    BY <1>11, OriginateDoes
  <2>2. DialKey(w)' = DialKey(w)
    BY <2>1, DialTypes DEF BookingInv, Dials, DialKey, IdempotencyKey
  <2>3. QED
    BY <2>1, <2>2 DEF HasCallPcs
<1>12. CASE Attach(w)
  BY <1>12, AttachDoes DEF HasCallPcs, HoldsAgentPcs
<1>13. CASE FreeBorrower(w)
  BY <1>13, FreeBorrowerDoes DEF HasCallPcs
<1>14. QED
  BY <1>1, <1>2, <1>3, <1>4, <1>5, <1>6, <1>7, <1>8, <1>9, <1>10, <1>11,
     <1>12, <1>13 DEF Dialer, DialStep

BeforeDialingPcs == {"claimBorrower", "create", "reserve", "initiate",
                     "markDialing"}

LEMMA SetUpKept ==
  ASSUME BookingInv, [Next]_vars, NEW v \in Workers, dial'[v] = dial[v],
         dial[v].pc \in BeforeDialingPcs =>
           /\ agents'[dial[v].agent].state = agents[dial[v].agent].state
           /\ agents'[dial[v].agent].version = agents[dial[v].agent].version,
         dial[v].pc \in HasCallPcs \cup {"reserve"} =>
           /\ calls'[DialKey(v)].state = calls[DialKey(v)].state
           /\ calls'[DialKey(v)].line = calls[DialKey(v)].line,
         dial[v].pc \in HasCallPcs => \A u \in Workers \ {v} :
           dial'[u].pc \in HasCallPcs => DialKey(u)' # DialKey(v)
  PROVE  SetUpOK(v)'
<1>1. SetUpOK(v)
  BY DEF BookingInv, SetUpsOK
<1>2. DialKey(v)' = DialKey(v)
  BY DEF DialKey, IdempotencyKey
<1>3. dial[v].pc \in {"freeAgent", "freeBorrower"} =>
        (IsTerminal(calls[DialKey(v)].state) =>
           calls'[DialKey(v)].state = calls[DialKey(v)].state)
  BY CallsKept, DialTypes DEF BookingInv
<1>4. QED
  BY <1>1, <1>2, <1>3 DEF SetUpOK, BeforeDialingPcs

(* A step of a worker leaves the calls of the others alone.                *)
LEMMA OtherSetUps ==
  ASSUME BookingInv, [Next]_vars, NEW w \in Workers, Dialer(w),
         NEW v \in Workers \ {w}
  PROVE  SetUpOK(v)'
<1>1. dial'[v] = dial[v]
  BY OtherDials
<1>2. CASE dial[v].pc \in HoldsAgentPcs \cup HasCallPcs
  <2>0. dial[v].agent \in Agents /\ HasCall(dial[v].agent)
    BY <1>2, DialTypes, DialHolds DEF BookingInv, HoldsAgentPcs, HasCallPcs
  <2>1. dial[w].pc \in HoldsAgentPcs \cup HasCallPcs =>
          dial[v].agent # dial[w].agent /\ DialKey(v) # DialKey(w)
    BY <1>2, DialAgentsApart, DialTypes DEF BookingInv
  <2>2. agents'[dial[v].agent] = agents[dial[v].agent]
    BY <2>0, <2>1, DialWrites DEF HasCall
  <2>3. dial[v].pc \in HasCallPcs \cup {"reserve"} => DialKey(v) \in CallKeys
    BY DialTypes DEF BookingInv, HasCallPcs
  <2>4. dial[v].pc \in HasCallPcs \cup {"reserve"} =>
          calls'[DialKey(v)] = calls[DialKey(v)]
    BY <2>1, <2>3, DialWrites
  <2>5. ASSUME dial[v].pc \in HasCallPcs, NEW u \in Workers \ {v},
               dial'[u].pc \in HasCallPcs
        PROVE  DialKey(u)' # DialKey(v)
    <3>1. CASE u = w
      <4>1. dial[w].pc \in HasCallPcs \cup {"reserve"}
            /\ DialKey(w)' = DialKey(w)
        BY <2>5, <3>1, DialWrites
      <4>2. DialKey(v) # DialKey(w)
        BY <2>1, <4>1 DEF HoldsAgentPcs
      <4>3. QED
        BY <3>1, <4>1, <4>2
    <3>2. CASE u # w
      <4>1. dial'[u] = dial[u] /\ DialKey(u)' = DialKey(u)
        BY <3>2, OtherDials
      <4>2. QED
        BY <2>5, <4>1 DEF BookingInv, SetUpsOK, SetUpOK
    <3>3. QED
      BY <3>1, <3>2
  <2>6. QED
    BY <1>1, <2>2, <2>4, <2>5, SetUpKept
<1>3. CASE dial[v].pc \notin HoldsAgentPcs \cup HasCallPcs
  BY <1>1, <1>3, SetUpKept DEF BeforeDialingPcs, HoldsAgentPcs, HasCallPcs
<1>4. QED
  BY <1>2, <1>3

(* Nobody else is about to dial what a worker makes its call.              *)
LEMMA OwnKeyApart ==
  ASSUME BookingInv, NEW w \in Workers, Dialer(w),
         dial'[w].pc \in HasCallPcs, NEW v \in Workers \ {w},
         dial'[v].pc \in HasCallPcs
  PROVE  DialKey(v)' # DialKey(w)'
<1>1. dial'[v] = dial[v] /\ DialKey(v)' = DialKey(v)
  BY OtherDials
<1>2. /\ dial[w].pc \in HasCallPcs \cup {"reserve"}
      /\ DialKey(w)' = DialKey(w)
  BY DialWrites
<1>3. dial[v].agent # dial[w].agent
  BY <1>1, <1>2, DialAgentsApart DEF HoldsAgentPcs
<1>4. QED
  BY <1>1, <1>2, <1>3, DialTypes DEF BookingInv

LEMMA OwnSetUp ==
  ASSUME BookingInv, NEW w \in Workers, Dialer(w)
  PROVE  SetUpOK(w)'
<1>1. /\ SetUpOK(w) /\ dial[w] \in Dials
      /\ dial[w].pc # "idle" => dial[w].agent \in Agents
      /\ dial[w].pc \in HasCallPcs \cup {"create", "reserve"} =>
           DialKey(w) \in CallKeys
  BY DialTypes DEF BookingInv, SetUpsOK, HasCallPcs
<1>2. \A v \in Workers \ {w} :
        dial'[w].pc \in HasCallPcs /\ dial'[v].pc \in HasCallPcs =>
          DialKey(v)' # DialKey(w)'
  BY OwnKeyApart
<1>3. ASSUME dial'[w].pc \in {"idle", "freeAgent"},
             dial'[w].pc = "freeAgent" => dial'[w].outcome = "RELEASED"
      PROVE  SetUpOK(w)'
  BY <1>3 DEF SetUpOK, HasCallPcs
<1>4. CASE ClaimAgent(w)
  BY <1>4, ClaimAgentDoes DEF SetUpOK, HasCallPcs
<1>5. CASE ClaimBorrower(w)
  BY <1>1, <1>5, ClaimBorrowerDoes DEF SetUpOK, HasCallPcs
<1>6. CASE GiveAgentBack(w) \/ Attach(w) \/ FreeBorrower(w)
  BY <1>3, <1>6, GiveAgentBackDoes, AttachDoes, FreeBorrowerDoes
<1>7. CASE Create(w)
  <2>1. CASE dial'[w] = [dial[w] EXCEPT !.pc = "freeAgent",
                                        !.outcome = "RELEASED"]
    BY <1>1, <1>3, <2>1 DEF Dials
  <2>2. CASE dial'[w] = [dial[w] EXCEPT !.pc = "reserve"] /\ dial[w].pc = "create"
             /\ calls'[DialKey(w)].state = "QUEUED" /\ UNCHANGED agents
    <3>1. dial'[w].pc = "reserve" /\ SameDial(w)
      BY <2>2, DialMoves DEF BookingInv
    <3>2. QED
      BY <1>1, <2>2, <3>1 DEF SetUpOK, HasCallPcs, SameDial, CallStateAt
  <2>3. QED
    BY <1>7, <2>1, <2>2, CreateDoes
<1>8. CASE Reserve(w) \/ Initiate(w)
  <2>1. /\ \/ /\ dial[w].pc = "reserve"
              /\ dial'[w] = [dial[w] EXCEPT !.pc = "initiate"]
              /\ calls'[DialKey(w)].state = "RESERVED"
           \/ /\ dial[w].pc = "initiate"
              /\ dial'[w] = [dial[w] EXCEPT !.pc = "markDialing"]
              /\ calls'[DialKey(w)].state = "INITIATED"
        /\ calls'[DialKey(w)].line = calls[DialKey(w)].line
        /\ UNCHANGED agents
    BY <1>8, DialTransitionDoes
  <2>2. /\ SameDial(w)
        /\ \/ dial[w].pc = "reserve" /\ dial'[w].pc = "initiate"
           \/ dial[w].pc = "initiate" /\ dial'[w].pc = "markDialing"
    BY <2>1, DialMoves DEF BookingInv
  <2>3. calls[DialKey(w)].line = None
    <3>1. CASE dial[w].pc = "reserve"
      <4>1. calls[DialKey(w)].state = "QUEUED" /\ DialKey(w) \in CallKeys
        BY <1>1, <3>1 DEF SetUpOK, CallStateAt
      <4>2. QED
        BY <4>1 DEF BookingInv, CallsInv, AttachedOK, Initiated
    <3>2. CASE dial[w].pc = "initiate"
      BY <1>1, <3>2 DEF SetUpOK, HasCallPcs
    <3>3. QED
      BY <2>1, <3>1, <3>2
  <2>4. QED
    BY <1>1, <1>2, <2>1, <2>2, <2>3
    DEF SetUpOK, HasCallPcs, SameDial, CallStateAt
<1>9. CASE MarkDialing(w) \/ Bind(w)
  <2>1. /\ \/ /\ dial[w].pc = "markDialing"
              /\ dial'[w] = [dial[w] EXCEPT !.pc = "bind"]
           \/ /\ dial[w].pc = "bind"
              /\ dial'[w] = [dial[w] EXCEPT !.pc = "originate"]
        /\ UNCHANGED calls
    BY <1>9, MarkDialingDoes, BindDoes
  <2>2. /\ SameDial(w)
        /\ \/ dial[w].pc = "markDialing" /\ dial'[w].pc = "bind"
           \/ dial[w].pc = "bind" /\ dial'[w].pc = "originate"
    BY <2>1, DialMoves DEF BookingInv
  <2>3. QED
    BY <1>1, <1>2, <2>1, <2>2 DEF SetUpOK, HasCallPcs, SameDial, CallStateAt
<1>10. CASE Originate(w)
  <2>1. /\ dial[w].pc = "originate"
        /\ \/ dial'[w] = [dial[w] EXCEPT !.pc = "attach", !.line = nextLine + 1]
           \/ dial'[w] = [dial[w] EXCEPT !.pc = "failCall"]
        /\ UNCHANGED calls
    BY <1>10, OriginateDoes
  <2>2. /\ SameDial(w) /\ dial'[w].pc \in {"attach", "failCall"}
    BY <1>1, <2>1 DEF SameDial, Dials, DialKey, IdempotencyKey
  <2>3. QED
    BY <1>1, <1>2, <2>1, <2>2 DEF SetUpOK, HasCallPcs, SameDial, CallStateAt
<1>11. CASE FailCall(w)
  <2>1. /\ dial'[w] = [dial[w] EXCEPT !.pc = "freeAgent", !.outcome = "RETRY"]
        /\ calls'[DialKey(w)].state = "FAILED"
    BY <1>11, DialTransitionDoes
  <2>2. SameDial(w) /\ dial'[w].pc = "freeAgent"
    BY <1>1, <2>1 DEF SameDial, Dials, DialKey, IdempotencyKey
  <2>3. QED
    BY <2>1, <2>2
    DEF SetUpOK, HasCallPcs, SameDial, IsTerminal, TerminalCallStates
<1>12. CASE FreeAgent(w)
  <2>1. /\ dial[w].pc = "freeAgent"
        /\ dial'[w] = [dial[w] EXCEPT !.pc = "freeBorrower"]
        /\ UNCHANGED calls
    BY <1>12, FreeAgentDoes
  <2>2. /\ SameDial(w) /\ dial'[w].pc = "freeBorrower"
        /\ dial'[w].outcome = dial[w].outcome
    BY <2>1, DialMoves DEF BookingInv
  <2>3. QED
    BY <1>1, <2>1, <2>2 DEF SetUpOK, HasCallPcs, SameDial
<1>13. QED
  BY <1>4, <1>5, <1>6, <1>7, <1>8, <1>9, <1>10, <1>11, <1>12
  DEF Dialer, DialStep

LEMMA DialSetUpsOK ==
  ASSUME BookingInv, [Next]_vars, NEW w \in Workers, Dialer(w)
  PROVE  SetUpsOK'
BY OwnSetUp, OtherSetUps DEF SetUpsOK

(* The other tasks leave what the workers set up alone.                    *)
LEMMA SetUpsKept ==
  ASSUME BookingInv, [Next]_vars, UNCHANGED dial,
         \A v \in Workers : dial[v].pc \in BeforeDialingPcs =>
           /\ agents'[dial[v].agent].state = agents[dial[v].agent].state
           /\ agents'[dial[v].agent].version = agents[dial[v].agent].version,
         \A v \in Workers : dial[v].pc \in HasCallPcs \cup {"reserve"} =>
           /\ calls'[DialKey(v)].state = calls[DialKey(v)].state
           /\ calls'[DialKey(v)].line = calls[DialKey(v)].line
  PROVE  SetUpsOK'
<1>1. ASSUME NEW v \in Workers
      PROVE  SetUpOK(v)'
  <2>1. dial[v].pc \in HasCallPcs => \A u \in Workers \ {v} :
          dial'[u].pc \in HasCallPcs => DialKey(u)' # DialKey(v)
    BY DEF BookingInv, SetUpsOK, SetUpOK, DialKey, IdempotencyKey
  <2>2. QED
    BY <2>1, SetUpKept
<1>2. QED
  BY <1>1 DEF SetUpsOK

LEMMA ReservedAgents ==
  ASSUME BookingInv, NEW v \in Workers, dial[v].pc \in BeforeDialingPcs
  PROVE  /\ dial[v].agent \in Agents
         /\ agents[dial[v].agent].state = "RESERVED" /\ HasCall(dial[v].agent)
         /\ \E c \in AgentClaims : c.of = dial[v].agent /\
              c \in {DialClaim(v), CallClaim(DialKey(v))}
         /\ SettingUp(v)
<1>1. /\ dial[v].agent \in Agents
      /\ agents[dial[v].agent].state = "RESERVED" /\ HasCall(dial[v].agent)
      /\ SettingUp(v)
  BY DialTypes
  DEF BookingInv, SetUpsOK, SetUpOK, BeforeDialingPcs, HasCall, SettingUp
<1>2. CASE dial[v].pc \in HoldsAgentPcs
  BY <1>1, <1>2, AgentClaimKinds DEF DialClaim
<1>3. CASE dial[v].pc \in HasCallPcs
  <2>1. DialKey(v) \in FindActive /\ DialKey(v).agent = dial[v].agent
    BY <1>3, DialHolds, DialTypes DEF BookingInv
  <2>2. CallClaim(DialKey(v)) \in AgentClaims
        /\ CallClaim(DialKey(v)).of = dial[v].agent
    BY <2>1, AgentClaimKinds DEF CallClaim
  <2>3. QED
    BY <1>1, <2>2
<1>4. QED
  BY <1>2, <1>3 DEF BeforeDialingPcs, HoldsAgentPcs, HasCallPcs

LEMMA ProcessorSetUpsOK ==
  ASSUME BookingInv, [Next]_vars, NEW l \in 1..MaxLines, Processor(l)
  PROVE  SetUpsOK'
<1>1. UNCHANGED dial
  BY OtherTasks
<1>2. CASE ReceiveEvent(l) \/ ReadAgent(l) \/ Finish(l) \/ SettleBorrower(l)
  <2>1. UNCHANGED <<agents, calls>>
    BY <1>2, ReceiveEventDoes, ReadAgentDoes, FinishDoes, SettleBorrowerDoes
    DEF storeVars
  <2>2. QED
    BY <1>1, <2>1, SetUpsKept
<1>3. CASE ApplyCall(l)
  <2>1. UNCHANGED agents
    BY <1>3, ApplyCallDoes
  <2>2. ASSUME NEW v \in Workers, dial[v].pc \in HasCallPcs \cup {"reserve"}
        PROVE  calls'[DialKey(v)] = calls[DialKey(v)]
    <3>1. CASE UNCHANGED calls
      BY <3>1
    <3>2. CASE /\ Handler(l).call \in FindActive
               /\ \A k \in CallKeys \ {Handler(l).call} : calls'[k] = calls[k]
      <4>1. Handler(l).pc = "applyCall"
        BY <1>3, ApplyCallDoes
      <4>2. calls[Handler(l).call].line # None
        BY <4>1 DEF BookingInv, LinesOK
      <4>3. Handler(l).call # DialKey(v)
        BY <2>2, <3>2, <4>2
        DEF BookingInv, SetUpsOK, SetUpOK, FindActive, HasCallPcs, CallStateAt
      <4>4. DialKey(v) \in CallKeys
        BY <2>2, DialTypes DEF BookingInv, HasCallPcs
      <4>5. QED
        BY <3>2, <4>3, <4>4
    <3>3. QED
      BY <1>3, <3>1, <3>2, ApplyCallDoes
  <2>3. QED
    BY <1>1, <2>1, <2>2, SetUpsKept
<1>4. CASE MoveAgent(l)
  <2>1. /\ Handler(l).pc = "moveAgent" /\ UNCHANGED calls
        /\ \A x \in Agents \ {HandlerAgent(l)} : agents'[x] = agents[x]
        /\ \/ agents'[HandlerAgent(l)] = agents[HandlerAgent(l)]
           \/ IsTerminal(Handler(l).target)
           \/ Answers(HandlerAgent(l))
    BY <1>4, MoveAgentDoes
  <2>2. ASSUME NEW v \in Workers, dial[v].pc \in BeforeDialingPcs
        PROVE  agents'[dial[v].agent] = agents[dial[v].agent]
    <3>1. CASE dial[v].agent = HandlerAgent(l) /\ Answers(HandlerAgent(l))
      BY <2>2, <3>1, ReservedAgents DEF Answers
    <3>2. CASE dial[v].agent = HandlerAgent(l) /\ IsTerminal(Handler(l).target)
      <4>1. LineClaim(l) \in AgentClaims /\ LineClaim(l).of = dial[v].agent
        BY <2>1, <3>2, AgentClaimKinds DEF Ending, LineClaim
      <4>2. PICK c \in AgentClaims : c.of = dial[v].agent /\
              c \in {DialClaim(v), CallClaim(DialKey(v))}
        BY <2>2, ReservedAgents
      <4>3. c # LineClaim(l)
        BY <4>2 DEF DialClaim, CallClaim, LineClaim
      <4>4. QED
        BY <4>1, <4>2, <4>3 DEF BookingInv, AgentsBooked, Exclusive
    <3>3. QED
      BY <2>1, <2>2, <3>1, <3>2, ReservedAgents
  <2>3. QED
    BY <1>1, <2>1, <2>2, SetUpsKept
<1>5. QED
  BY <1>2, <1>3, <1>4 DEF Processor, EventStep

LEMMA RecoverySetUpsOK ==
  ASSUME BookingInv, [Next]_vars, Recovery
  PROVE  SetUpsOK'
<1>1. UNCHANGED dial
  BY RecoveryDoes
<1>2. \A v \in Workers : dial[v].pc \in HasCallPcs \cup {"reserve"} =>
        /\ DialKey(v) \in CallKeys /\ DialKey(v).agent = dial[v].agent
        /\ SettingUp(v)
  BY DialTypes DEF BookingInv, HasCallPcs, SettingUp
<1>3. CASE UNCHANGED <<agents, calls>>
  BY <1>1, <1>3, SetUpsKept
<1>4. ASSUME NEW item \in sweep.todo, CancelBoundCall(item)
      PROVE  SetUpsOK'
  <2>1. /\ UNCHANGED agents /\ item.agent \in ExpiredAgentLeases
        /\ \A k \in CallKeys : k.agent # item.agent => calls'[k] = calls[k]
    BY <1>4, CancelBoundCallDoes
  <2>2. \A v \in Workers : SettingUp(v) => dial[v].agent # item.agent
    BY <2>1, ExpiredAgents
  <2>3. QED
    BY <1>1, <1>2, <2>1, <2>2, SetUpsKept
<1>5. CASE ReclaimAgent
  <2>1. PICK a \in ExpiredAgentLeases :
          /\ \A x \in Agents \ {a} : agents'[x] = agents[x]
          /\ UNCHANGED calls
    BY <1>5, ReclaimAgentDoes
  <2>2. \A v \in Workers : SettingUp(v) => dial[v].agent # a
    BY <2>1, ExpiredAgents
  <2>3. QED
    BY <1>1, <2>1, <2>2, SetUpsKept, ReservedAgents
<1>6. ASSUME NEW item \in sweep.todo, ReleaseStuckWrapUp(item)
      PROVE  SetUpsOK'
  <2>1. /\ UNCHANGED calls
        /\ \A x \in Agents : agents'[x] = agents[x] \/ StaysAway(x)
    BY <1>6, ReleaseStuckWrapUpDoes
  <2>2. QED
    BY <1>1, <2>1, SetUpsKept, ReservedAgents DEF StaysAway
<1>7. QED
  BY <1>3, <1>4, <1>5, <1>6, RecoveryDoes, NextSweepDoes, SweepBorrowerDoes,
     FreeBoundBorrowerDoes

LEMMA OthersSetUpsOK ==
  ASSUME WellBehaved, BookingInv, [Next]_vars,
         \/ \E a \in Agents : Session(a) \/ WrapUpEnds(a)
         \/ \E b \in Borrowers : Backoff(b)
         \/ Tick \/ UNCHANGED vars
  PROVE  SetUpsOK'
<1>1. ASSUME NEW a \in Agents, Session(a) \/ WrapUpEnds(a)
      PROVE  SetUpsOK'
  <2>1. /\ UNCHANGED <<calls, dial>>
        /\ \A x \in Agents : agents'[x] = agents[x] \/ StaysAway(x)
    BY <1>1, AgentActionDoes
  <2>2. QED
    BY <2>1, SetUpsKept, ReservedAgents DEF StaysAway
<1>2. ASSUME NEW b \in Borrowers, Backoff(b)
      PROVE  SetUpsOK'
  <2>1. UNCHANGED <<agents, calls, dial>>
    BY <1>2, BackoffDoes
  <2>2. QED
    BY <2>1, SetUpsKept
<1>3. CASE Tick
  <2>1. \A v \in Workers : dial[v].pc \in HasCallPcs \cup {"reserve"} =>
          DialKey(v) \in CallKeys
    BY DialTypes DEF BookingInv, HasCallPcs
  <2>2. /\ UNCHANGED dial
        /\ \A a \in Agents : /\ agents'[a].state = agents[a].state
                             /\ agents'[a].version = agents[a].version
        /\ \A k \in CallKeys : /\ calls'[k].state = calls[k].state
                               /\ calls'[k].line = calls[k].line
    BY <1>3, TickDoes
  <2>3. QED
    BY <2>1, <2>2, SetUpsKept, ReservedAgents
<1>4. CASE UNCHANGED vars
  <2>1. UNCHANGED <<agents, calls, dial>>
    BY <1>4 DEF vars, storeVars, allocatorVars
  <2>2. QED
    BY <2>1, SetUpsKept
<1>5. QED
  BY <1>1, <1>2, <1>3, <1>4

-----------------------------------------------------------------------------
(* Who has a call, and what the agent's document says of it.               *)

BeforeBoundPcs == {"initiate", "markDialing", "bind"}

LEMMA CallBookedKept ==
  ASSUME BookingInv, epoch' = epoch, NEW k \in CallKeys,
         calls'[k].by = calls[k].by,
         \/ calls'[k].state = calls[k].state
         \/ calls[k].state # "ABSENT" /\ calls'[k].state # "QUEUED",
         k \in FindActive' => k \in FindActive,
         \A v \in Workers :
           DialKey(v) = k /\ dial[v].pc = "reserve" /\ calls'[k].state = "QUEUED" =>
             dial'[v] = dial[v],
         \A v \in Workers : DialKey(v) = k /\ dial[v].pc \in BeforeBoundPcs =>
           dial'[v].pc \in BeforeBoundPcs /\ DialKey(v)' = k,
         k \in FindActive' => agents'[k.agent].call = agents[k.agent].call
  PROVE  CallBooked(k)'
<1>1. CallBooked(k)
  BY DEF BookingInv, CallsBooked
<1>2. calls'[k].state # "ABSENT" => calls'[k].by = epoch'
  BY <1>1 DEF CallBooked
<1>3. ASSUME calls'[k].state = "QUEUED"
      PROVE  \E w \in Workers : dial'[w].pc = "reserve" /\ DialKey(w)' = k
  <2>1. PICK w \in Workers : dial[w].pc = "reserve" /\ DialKey(w) = k
    BY <1>1, <1>3 DEF CallBooked
  <2>2. dial'[w] = dial[w]
    BY <1>3, <2>1
  <2>3. dial'[w].pc = "reserve" /\ DialKey(w)' = k
    BY <2>1, <2>2 DEF DialKey, IdempotencyKey
  <2>4. QED
    BY <2>3
<1>4. ASSUME k \in FindActive', agents'[k.agent].call # k
      PROVE  \E w \in Workers : dial'[w].pc \in BeforeBoundPcs /\ DialKey(w)' = k
  <2>1. PICK w \in Workers : dial[w].pc \in BeforeBoundPcs /\ DialKey(w) = k
    BY <1>1, <1>4 DEF CallBooked, BeforeBoundPcs
  <2>2. QED
    BY <2>1
<1>5. QED
  BY <1>2, <1>3, <1>4 DEF CallBooked, BeforeBoundPcs

(* The agent of an active call is not another worker's to change.          *)
LEMMA ActiveAgentsAside ==
  ASSUME BookingInv, NEW w \in Workers, Dialer(w), NEW k \in FindActive,
         \/ dial[w].pc \in HoldsAgentPcs
         \/ dial[w].pc \in HasCallPcs /\ DialKey(w) # k
  PROVE  agents'[k.agent] = agents[k.agent]
<1>1. k.agent \in Agents /\ HasCall(k.agent)
  BY ActiveHolds
<1>2. Exclusive(AgentClaims)
  BY DEF BookingInv, AgentsBooked
<1>3. dial[w].pc \in HoldsAgentPcs => k.agent # dial[w].agent
  BY <1>2, AgentClaimsApart
<1>4. dial[w].pc \in HasCallPcs /\ DialKey(w) # k => k.agent # dial[w].agent
  BY <1>2, AgentClaimsApart, DialHolds, DialTypes DEF BookingInv
<1>5. QED
  BY <1>1, <1>3, <1>4, DialWrites DEF HasCall

LEMMA DialCallBooked ==
  ASSUME BookingInv, epoch' = epoch, NEW w \in Workers, Dialer(w),
         NEW k \in CallKeys
  PROVE  CallBooked(k)'
<1>1. CallBooked(k) /\ dial[w] \in Dials
  BY DialTypes DEF BookingInv, CallsBooked
<1>2. \A v \in Workers \ {w} : dial'[v] = dial[v] /\ DialKey(v)' = DialKey(v)
  BY OtherDials
<1>3. ASSUME dial[w].pc \notin BeforeBoundPcs \cup {"reserve"},
             calls'[k].by = calls[k].by,
             \/ calls'[k].state = calls[k].state
             \/ calls[k].state # "ABSENT" /\ calls'[k].state # "QUEUED",
             FindActive' \subseteq FindActive,
             k \in FindActive' => agents'[k.agent].call = agents[k.agent].call
      PROVE  CallBooked(k)'
  BY <1>2, <1>3, CallBookedKept
<1>4. CASE ClaimAgent(w) \/ ClaimBorrower(w) \/ FreeBorrower(w)
  <2>1. /\ dial[w].pc \in {"idle", "claimBorrower", "freeBorrower"}
        /\ UNCHANGED calls
    BY <1>4, ClaimAgentDoes, ClaimBorrowerDoes, FreeBorrowerDoes
  <2>2. ASSUME k \in FindActive'
        PROVE  agents'[k.agent].call = agents[k.agent].call
    <3>1. k \in FindActive
      BY <2>1, <2>2, ActiveAside
    <3>2. k.agent \in Agents /\ HasCall(k.agent)
      BY <3>1, ActiveHolds
    <3>3. QED
      BY <1>4, <3>2, ClaimAgentDoes, ClaimBorrowerDoes, FreeBorrowerDoes
      DEF HasCall
  <2>3. QED
    BY <1>3, <2>1, <2>2, ActiveAside DEF BeforeBoundPcs
<1>5. CASE GiveAgentBack(w) \/ FreeAgent(w)
  <2>1. dial[w].pc \in {"claimBorrower", "freeAgent"} /\ UNCHANGED calls
    BY <1>5, GiveAgentBackDoes, FreeAgentDoes
  <2>2. k \in FindActive' => agents'[k.agent] = agents[k.agent]
    BY <2>1, ActiveAside, ActiveAgentsAside DEF HoldsAgentPcs
  <2>3. QED
    BY <1>3, <2>1, <2>2, ActiveAside DEF BeforeBoundPcs
<1>6. CASE Create(w)
  <2>1. CASE UNCHANGED calls
    BY <1>3, <1>6, <2>1, CreateDoes, ActiveAside DEF BeforeBoundPcs
  <2>2. CASE k # DialKey(w) \/ calls[k].state # "ABSENT"
    <3>1. calls'[k] = calls[k] /\ UNCHANGED agents /\ dial[w].pc = "create"
      BY <1>6, <2>2, CreateDoes
    <3>2. FindActive' \subseteq FindActive
      BY <1>6, DialActive DEF Reserve, Create
    <3>3. QED
      BY <1>3, <3>1, <3>2 DEF BeforeBoundPcs
  <2>3. CASE k = DialKey(w) /\ ~UNCHANGED calls
    <3>1. /\ calls'[k].state = "QUEUED" /\ calls'[k].by = epoch
          /\ dial'[w] = [dial[w] EXCEPT !.pc = "reserve"]
      BY <1>6, <2>3, CreateDoes
    <3>2. dial'[w].pc = "reserve" /\ DialKey(w)' = k
      BY <2>3, <3>1, DialMoves DEF BookingInv, SameDial
    <3>3. k \notin FindActive'
      BY <3>1 DEF FindActive
    <3>4. QED
      BY <3>1, <3>2, <3>3 DEF CallBooked
  <2>4. QED
    BY <2>1, <2>2, <2>3
<1>7. CASE Reserve(w)
  <2>1. /\ dial[w].pc = "reserve" /\ UNCHANGED agents
        /\ \A j \in CallKeys \ {DialKey(w)} : calls'[j] = calls[j]
        /\ calls'[DialKey(w)].state = "RESERVED"
        /\ calls[DialKey(w)].state = "QUEUED"
        /\ calls'[DialKey(w)].by = calls[DialKey(w)].by
        /\ dial'[w] = [dial[w] EXCEPT !.pc = "initiate"]
    BY <1>7, DialTransitionDoes
  <2>2. dial'[w].pc = "initiate" /\ DialKey(w)' = DialKey(w)
    BY <2>1, DialMoves DEF BookingInv, SameDial
  <2>3. CASE k = DialKey(w)
    BY <1>1, <2>1, <2>2, <2>3 DEF CallBooked, FindActive
  <2>4. CASE k # DialKey(w)
    <3>1. calls'[k] = calls[k] /\ (k \in FindActive' => k \in FindActive)
      BY <2>1, <2>4 DEF FindActive
    <3>2. QED
      BY <1>2, <2>1, <2>2, <2>4, <3>1, CallBookedKept
  <2>5. QED
    BY <2>3, <2>4
<1>8. CASE Initiate(w) \/ MarkDialing(w)
  <2>1. /\ \/ dial[w].pc = "initiate" /\ dial'[w].pc = "markDialing"
           \/ dial[w].pc = "markDialing" /\ dial'[w].pc = "bind"
        /\ DialKey(w)' = DialKey(w)
    <3>1. \/ /\ dial[w].pc = "initiate"
             /\ dial'[w] = [dial[w] EXCEPT !.pc = "markDialing"]
          \/ /\ dial[w].pc = "markDialing"
             /\ dial'[w] = [dial[w] EXCEPT !.pc = "bind"]
      BY <1>8, DialTransitionDoes, MarkDialingDoes
    <3>2. QED
      BY <3>1, DialMoves DEF BookingInv, SameDial
  <2>2. FindActive' = FindActive
    BY <1>8, <2>1, DialActive DEF Reserve, FailCall
  <2>3. /\ calls'[k].by = calls[k].by
        /\ \/ calls'[k] = calls[k]
           \/ calls[k].state = "RESERVED" /\ calls'[k].state = "INITIATED"
    BY <1>8, DialTransitionDoes, MarkDialingDoes
  <2>4. ASSUME k \in FindActive
        PROVE  agents'[k.agent].call = agents[k.agent].call
    <3>0. PICK a \in Agents : a = dial[w].agent
      BY <2>1, DialTypes DEF BookingInv
    <3>1. agents'[a].call = agents[a].call
      <4>1. agents[a] \in AgentDocuments
        BY Types DEF BookingInv
      <4>2. CASE Initiate(w)
        BY <4>2, DialTransitionDoes
      <4>3. CASE MarkDialing(w)
        <5>1. agents'[a] = [agents[a] EXCEPT !.state = "DIALING", !.version = @ + 1]
          BY <3>0, <4>3, MarkDialingDoes
        <5>2. QED
          BY <4>1, <5>1 DEF AgentDocuments
      <4>4. QED
        BY <1>8, <4>2, <4>3
    <3>2. k.agent \in Agents
      BY KeyTypes
    <3>3. QED
      BY <1>8, <3>0, <3>1, <3>2, DialTransitionDoes, MarkDialingDoes
  <2>5. QED
    BY <1>2, <2>1, <2>2, <2>3, <2>4, CallBookedKept DEF BeforeBoundPcs
<1>9. CASE Bind(w)
  <2>1. /\ dial[w].pc = "bind" /\ UNCHANGED calls
        /\ dial[w].agent \in Agents
        /\ agents'[dial[w].agent] =
             [agents[dial[w].agent] EXCEPT !.call = DialKey(w)]
    BY <1>9, BindDoes, DialTypes DEF BookingInv
  <2>2. CASE k = DialKey(w)
    <3>1. agents[dial[w].agent] \in AgentDocuments
      BY <2>1, Types DEF BookingInv
    <3>2. agents'[dial[w].agent].call = k
      BY <2>1, <2>2, <3>1 DEF AgentDocuments
    <3>3. k.agent = dial[w].agent
      BY <2>2, DialTypes DEF BookingInv
    <3>4. calls'[k].state # "QUEUED"
      BY <2>1, <2>2 DEF BookingInv, SetUpsOK, SetUpOK, HasCallPcs, CallStateAt
    <3>5. QED
      BY <1>1, <2>1, <3>2, <3>3, <3>4 DEF CallBooked
  <2>3. CASE k # DialKey(w)
    <3>1. k \in FindActive' => agents'[k.agent] = agents[k.agent]
      BY <2>1, <2>3, ActiveAside, ActiveAgentsAside DEF HasCallPcs
    <3>2. QED
      BY <1>2, <2>1, <2>3, <3>1, ActiveAside, CallBookedKept
      DEF BeforeBoundPcs
  <2>4. QED
    BY <2>2, <2>3
<1>10. CASE Originate(w) \/ Attach(w) \/ FailCall(w)
  <2>1. /\ dial[w].pc \in {"originate", "attach", "failCall"}
        /\ UNCHANGED agents
    BY <1>10, OriginateDoes, AttachDoes, DialTransitionDoes
  <2>2. /\ calls'[k].by = calls[k].by
        /\ \/ calls'[k].state = calls[k].state
           \/ calls[k].state # "ABSENT" /\ calls'[k].state # "QUEUED"
    <3>1. CASE Originate(w) \/ FailCall(w)
      BY <3>1, OriginateDoes, DialTransitionDoes
    <3>2. CASE Attach(w)
      <4>1. calls[k] \in CallDocuments
        BY Types DEF BookingInv
      <4>2. \/ calls'[k] = calls[k]
            \/ calls'[k] = [calls[k] EXCEPT !.line = dial[w].line,
                                            !.idle = StaleAfter]
        BY <3>2, AttachDoes
      <4>3. QED
        BY <4>1, <4>2 DEF CallDocuments
    <3>3. QED
      BY <1>10, <3>1, <3>2
  <2>3. FindActive' \subseteq FindActive
    BY <2>1, DialActive DEF Reserve
  <2>4. QED
    BY <1>3, <2>1, <2>2, <2>3 DEF BeforeBoundPcs
<1>11. QED
  BY <1>4, <1>5, <1>6, <1>7, <1>8, <1>9, <1>10 DEF Dialer, DialStep

LEMMA CallsKeptBooked ==
  ASSUME BookingInv, epoch' = epoch, UNCHANGED dial,
         \A k \in CallKeys :
           /\ calls'[k].by = calls[k].by
           /\ \/ calls'[k].state = calls[k].state
              \/ /\ k \in FindActive
                 /\ calls'[k].state \notin {"ABSENT", "QUEUED"},
         \A k \in FindActive : k \in FindActive' =>
           agents'[k.agent].call = agents[k.agent].call
  PROVE  CallsBooked'
<1>1. ASSUME NEW k \in CallKeys
      PROVE  CallBooked(k)'
  <2>1. /\ \/ calls'[k].state = calls[k].state
           \/ calls[k].state # "ABSENT" /\ calls'[k].state # "QUEUED"
        /\ k \in FindActive' => k \in FindActive
    BY DEF FindActive, CallStates
  <2>2. \A v \in Workers : dial'[v] = dial[v] /\ DialKey(v)' = DialKey(v)
    BY DEF DialKey, IdempotencyKey
  <2>3. QED
    BY <2>1, <2>2, CallBookedKept
<1>2. QED
  BY <1>1 DEF CallsBooked

LEMMA ProcessorCallsBooked ==
  ASSUME BookingInv, epoch' = epoch, NEW l \in 1..MaxLines, Processor(l)
  PROVE  CallsBooked'
<1>1. UNCHANGED dial
  BY OtherTasks
<1>2. CASE ReceiveEvent(l) \/ ReadAgent(l) \/ Finish(l) \/ SettleBorrower(l)
  <2>1. UNCHANGED <<agents, calls>>
    BY <1>2, ReceiveEventDoes, ReadAgentDoes, FinishDoes, SettleBorrowerDoes
    DEF storeVars
  <2>2. QED
    BY <1>1, <2>1, CallsKeptBooked
<1>3. CASE ApplyCall(l)
  <2>1. Handler(l).target \in EventTypes
    BY <1>3, ApplyCallDoes, HandlerTypes DEF BookingInv
  <2>2. \A k \in CallKeys :
          /\ calls'[k].by = calls[k].by
          /\ \/ calls'[k].state = calls[k].state
             \/ k \in FindActive /\ calls'[k].state \in EventTypes
    BY <1>3, <2>1, ApplyCallDoes
  <2>3. UNCHANGED agents
    BY <1>3, ApplyCallDoes
  <2>4. QED
    BY <1>1, <2>2, <2>3, CallsKeptBooked DEF EventTypes
<1>4. CASE MoveAgent(l)
  <2>1. /\ Handler(l).pc = "moveAgent" /\ UNCHANGED calls
        /\ HandlerAgent(l) \in Agents
        /\ \A x \in Agents \ {HandlerAgent(l)} : agents'[x] = agents[x]
        /\ \/ agents'[HandlerAgent(l)] = agents[HandlerAgent(l)]
           \/ IsTerminal(Handler(l).target)
           \/ Answers(HandlerAgent(l))
    BY <1>4, MoveAgentDoes
  <2>2. ASSUME NEW k \in FindActive
        PROVE  agents'[k.agent].call = agents[k.agent].call
    <3>1. PICK a \in Agents : a = k.agent
      BY ActiveHolds
    <3>2. CASE a = HandlerAgent(l) /\ Answers(HandlerAgent(l))
      <4>1. /\ agents[a] \in AgentDocuments
            /\ agents'[a] =
                 [agents[a] EXCEPT !.state = "CONNECTED", !.version = @ + 1]
        BY <3>2, Types DEF Answers, BookingInv
      <4>2. agents'[a].call = agents[a].call
        BY <4>1 DEF AgentDocuments
      <4>3. QED
        BY <3>1, <4>2
    <3>3. CASE a = HandlerAgent(l) /\ IsTerminal(Handler(l).target)
      <4>1. Ending(l, {"readAgent", "moveAgent"})
        BY <2>1, <3>3 DEF Ending
      <4>2. QED
        BY <3>1, <3>3, <4>1, AgentClaimsApart DEF BookingInv, AgentsBooked
    <3>4. QED
      BY <2>1, <3>1, <3>2, <3>3
  <2>3. QED
    BY <1>1, <2>1, <2>2, CallsKeptBooked
<1>5. QED
  BY <1>2, <1>3, <1>4 DEF Processor, EventStep

LEMMA RecoveryCallsBooked ==
  ASSUME BookingInv, epoch' = epoch, Recovery
  PROVE  CallsBooked'
<1>1. UNCHANGED dial
  BY RecoveryDoes
<1>2. CASE UNCHANGED <<agents, calls>>
  BY <1>1, <1>2, CallsKeptBooked
<1>3. ASSUME NEW item \in sweep.todo, CancelBoundCall(item)
      PROVE  CallsBooked'
  <2>1. /\ UNCHANGED agents
        /\ \A k \in CallKeys :
             /\ calls'[k].by = calls[k].by
             /\ \/ calls'[k].state = calls[k].state
                \/ k \in FindActive /\ calls'[k].state = "CANCELLED"
    BY <1>3, CancelBoundCallDoes
  <2>2. QED
    BY <1>1, <2>1, CallsKeptBooked
<1>4. CASE ReclaimAgent
  <2>1. /\ UNCHANGED calls /\ sweep.step = "settle"
        /\ \A x \in Agents \ {sweep.item.agent} : agents'[x] = agents[x]
    BY <1>4, ReclaimAgentDoes
  <2>2. \A k \in FindActive : k.agent \in Agents /\ k.agent # sweep.item.agent
    BY <2>1, ActiveHolds DEF BookingInv, SweepBooked
  <2>3. QED
    BY <1>1, <2>1, <2>2, CallsKeptBooked
<1>5. ASSUME NEW item \in sweep.todo, ReleaseStuckWrapUp(item)
      PROVE  CallsBooked'
  <2>1. /\ UNCHANGED calls
        /\ \A x \in Agents : agents'[x].call = agents[x].call
    BY <1>5, ReleaseStuckWrapUpDoes DEF StaysAway
  <2>2. QED
    BY <1>1, <2>1, CallsKeptBooked, ActiveHolds
<1>6. QED
  BY <1>2, <1>3, <1>4, <1>5, RecoveryDoes, NextSweepDoes, SweepBorrowerDoes,
     FreeBoundBorrowerDoes

LEMMA OthersCallsBooked ==
  ASSUME WellBehaved, BookingInv, epoch' = epoch,
         \/ \E a \in Agents : Session(a) \/ WrapUpEnds(a)
         \/ \E b \in Borrowers : Backoff(b)
         \/ Tick \/ UNCHANGED vars
  PROVE  CallsBooked'
<1>1. ASSUME NEW a \in Agents, Session(a) \/ WrapUpEnds(a)
      PROVE  CallsBooked'
  <2>1. /\ UNCHANGED <<calls, dial>>
        /\ \A x \in Agents : agents'[x].call = agents[x].call
    BY <1>1, AgentActionDoes DEF StaysAway
  <2>2. QED
    BY <2>1, CallsKeptBooked, ActiveHolds
<1>2. ASSUME NEW b \in Borrowers, Backoff(b)
      PROVE  CallsBooked'
  <2>1. UNCHANGED <<agents, calls, dial>>
    BY <1>2, BackoffDoes
  <2>2. QED
    BY <2>1, CallsKeptBooked
<1>3. CASE Tick
  <2>1. /\ UNCHANGED dial
        /\ \A a \in Agents : agents'[a].call = agents[a].call
        /\ \A k \in CallKeys : /\ calls'[k].state = calls[k].state
                               /\ calls'[k].by = calls[k].by
    BY <1>3, TickDoes
  <2>2. QED
    BY <2>1, CallsKeptBooked, ActiveHolds
<1>4. CASE UNCHANGED vars
  <2>1. UNCHANGED <<agents, calls, dial>>
    BY <1>4 DEF vars, storeVars, allocatorVars
  <2>2. QED
    BY <2>1, CallsKeptBooked
<1>5. QED
  BY <1>1, <1>2, <1>3, <1>4

-----------------------------------------------------------------------------
(* No lease runs out on anybody.                                           *)

(* An open call has booked its agent, itself or through its worker.        *)
LEMMA OpenHolds ==
  ASSUME BookingInv, NEW k \in CallKeys, Open(k)
  PROVE  /\ k.agent \in Agents
         /\ HasCall(k.agent)
         /\ agents[k.agent].lease \in 0..TTL
         /\ \/ k \in FindActive
            \/ \E v \in Workers : dial[v].pc = "reserve" /\ DialKey(v) = k
<1>1. k.agent \in Agents
  BY KeyTypes
<1>2. CASE k \in FindActive
  BY <1>2, ActiveHolds
<1>3. CASE k \notin FindActive
  <2>1. calls[k].state = "QUEUED"
    BY <1>3 DEF Open, FindActive
  <2>2. PICK v \in Workers : dial[v].pc = "reserve" /\ DialKey(v) = k
    BY <2>1 DEF BookingInv, CallsBooked, CallBooked
  <2>3. k.agent = dial[v].agent
    BY <2>2, DialTypes DEF BookingInv
  <2>4. HasCall(k.agent) /\ agents[k.agent].lease \in 1..TTL
    BY <2>2, <2>3, DialHolds DEF HoldsAgentPcs
  <2>5. QED
    BY <1>1, <2>2, <2>4
<1>4. QED
  BY <1>2, <1>3

LeaseKept(a) == agents'[a].lease = agents[a].lease
BorrowerLeaseKept(b) == borrowers'[b].lease = borrowers[b].lease

(* Two documents keep their leases, or get or lose one.                    *)
LeasesSet ==
  /\ \A a \in Agents : LeaseKept(a) \/ agents'[a].lease \in {None, TTL}
  /\ \A b \in Borrowers :
       BorrowerLeaseKept(b) \/ borrowers'[b].lease \in {None, TTL}

LEMMA LeasesKept ==
  ASSUME BookingInv, LeasesSet,
         \A v \in Workers : SettingUp(v)' =>
           \/ /\ SettingUp(v) /\ dial'[v].agent = dial[v].agent
              /\ dial'[v].borrower = dial[v].borrower
           \/ /\ agents'[dial'[v].agent].lease # 0
              /\ dial'[v].borrower # None =>
                   borrowers'[dial'[v].borrower].lease # 0,
         \A v \in Workers : dial'[v].pc \in {"create", "reserve"} =>
           agents'[dial'[v].agent].lease <= borrowers'[dial'[v].borrower].lease,
         \A l \in 1..MaxLines : Talking(l)' =>
           \/ Talking(l) /\ lines'[l].key = lines[l].key
           \/ /\ lines'[l].key \in FindActive
              /\ agents[lines'[l].key.agent].lease # 0
              /\ borrowers[lines'[l].key.borrower].lease # 0,
         \A k \in CallKeys : Open(k)' =>
           \/ /\ Open(k) /\ LeaseKept(k.agent)
              /\ calls'[k].idle \in {calls[k].idle, StaleAfter}
           \/ agents'[k.agent].lease \in 0..TTL /\ calls'[k].idle = StaleAfter,
         \A k \in FindActive' :
           agents'[k.agent].lease <= borrowers'[k.borrower].lease
  PROVE  LeasesOK'
<1>1. LeasesOK /\ TTL # 0 /\ None # 0 /\ StaleAfter > TTL
      /\ TTL \in Nat /\ StaleAfter \in Nat
  BY StoreAssumption, RecoveryTimeoutAssumption DEF BookingInv
<1>2. \A a \in Agents : agents[a].lease # 0 => agents'[a].lease # 0
  BY <1>1 DEF LeasesSet, LeaseKept
<1>3. \A b \in Borrowers : borrowers[b].lease # 0 => borrowers'[b].lease # 0
  BY <1>1 DEF LeasesSet, BorrowerLeaseKept
<1>4. ASSUME NEW v \in Workers, SettingUp(v)'
      PROVE  /\ agents'[dial'[v].agent].lease # 0
             /\ dial'[v].borrower # None =>
                  borrowers'[dial'[v].borrower].lease # 0
  <2>1. CASE /\ SettingUp(v) /\ dial'[v].agent = dial[v].agent
             /\ dial'[v].borrower = dial[v].borrower
    <3>1. dial[v].agent \in Agents /\ dial[v].borrower \in Borrowers \cup {None}
      BY <2>1, DialTypes DEF SettingUp, BookingInv, Dials
    <3>2. QED
      BY <1>1, <1>2, <1>3, <2>1, <3>1 DEF LeasesOK
  <2>2. QED
    BY <1>4, <2>1
<1>5. ASSUME NEW l \in 1..MaxLines, Talking(l)'
      PROVE  /\ agents'[lines'[l].key.agent].lease # 0
             /\ borrowers'[lines'[l].key.borrower].lease # 0
  <2>1. PICK key \in CallKeys : key = lines'[l].key
    BY <1>5 DEF BookingInv, LinesOK, FindActive
  <2>2. agents[key.agent].lease # 0 /\ borrowers[key.borrower].lease # 0
    BY <1>1, <1>5, <2>1 DEF LeasesOK
  <2>3. QED
    BY <1>2, <1>3, <2>1, <2>2, KeyTypes
<1>6. ASSUME NEW k \in CallKeys, Open(k)'
      PROVE  \/ agents'[k.agent].lease = 0
             \/ agents'[k.agent].lease < calls'[k].idle
  <2>1. CASE agents'[k.agent].lease \in 0..TTL /\ calls'[k].idle = StaleAfter
    BY <1>1, <2>1
  <2>2. CASE /\ Open(k) /\ LeaseKept(k.agent)
             /\ calls'[k].idle \in {calls[k].idle, StaleAfter}
    <3>1. agents[k.agent].lease \in 0..TTL
      BY <2>2, OpenHolds
    <3>2. agents[k.agent].lease = 0 \/ agents[k.agent].lease < calls[k].idle
      BY <1>1, <2>2 DEF LeasesOK
    <3>3. QED
      BY <1>1, <2>2, <3>1, <3>2 DEF LeaseKept
  <2>3. QED
    BY <1>6, <2>1, <2>2
<1>7. QED
  BY <1>4, <1>5, <1>6 DEF LeasesOK

LEMMA DialLeasesSet ==
  ASSUME BookingInv, NEW w \in Workers, Dialer(w)
  PROVE  /\ LeasesSet
         /\ \A a \in Agents :
              HasCall(a) /\ (dial[w].pc \in {"claimBorrower", "freeAgent"} =>
                               a # dial[w].agent) =>
                LeaseKept(a)
         /\ \A b \in Borrowers :
              borrowers[b].status = "RESERVED" /\
              (dial[w].pc = "freeBorrower" => b # dial[w].borrower) =>
                BorrowerLeaseKept(b)
<1>1. CASE ClaimAgent(w)
  BY <1>1, ClaimAgentDoes DEF LeasesSet, LeaseKept, BorrowerLeaseKept, HasCall
<1>2. CASE ClaimBorrower(w)
  BY <1>2, ClaimBorrowerDoes DEF LeasesSet, LeaseKept, BorrowerLeaseKept
<1>3. CASE GiveAgentBack(w)
  BY <1>3, GiveAgentBackDoes
  DEF LeasesSet, LeaseKept, BorrowerLeaseKept, Freed
<1>4. CASE FreeAgent(w)
  BY <1>4, FreeAgentDoes DEF LeasesSet, LeaseKept, BorrowerLeaseKept, Freed
<1>5. CASE MarkDialing(w) \/ Bind(w)
  <2>1. /\ dial[w].agent \in Agents
        /\ \A x \in Agents \ {dial[w].agent} : agents'[x] = agents[x]
        /\ \/ agents'[dial[w].agent] =
                [agents[dial[w].agent] EXCEPT !.state = "DIALING",
                                              !.version = @ + 1]
           \/ agents'[dial[w].agent] =
                [agents[dial[w].agent] EXCEPT !.call = DialKey(w)]
        /\ UNCHANGED borrowers
    BY <1>5, MarkDialingDoes, BindDoes, DialTypes DEF BookingInv
  <2>2. agents[dial[w].agent] \in AgentDocuments
    BY <2>1, Types DEF BookingInv
  <2>3. LeaseKept(dial[w].agent)
    BY <2>1, <2>2 DEF LeaseKept, AgentDocuments
  <2>4. QED
    BY <2>1, <2>3 DEF LeasesSet, LeaseKept, BorrowerLeaseKept
<1>6. CASE FreeBorrower(w)
  BY <1>6, FreeBorrowerDoes
  DEF LeasesSet, LeaseKept, BorrowerLeaseKept, Returned
<1>7. CASE UNCHANGED <<agents, borrowers>>
  BY <1>7 DEF LeasesSet, LeaseKept, BorrowerLeaseKept
<1>8. QED
  BY <1>1, <1>2, <1>3, <1>4, <1>5, <1>6, <1>7, CreateDoes, DialTransitionDoes,
     OriginateDoes, AttachDoes DEF Dialer, DialStep

(* What others have booked keeps its lease.                                *)
LEMMA OthersKeepLeases ==
  ASSUME BookingInv, NEW w \in Workers, Dialer(w)
  PROVE  /\ \A v \in Workers \ {w} : dial[v].pc \in HoldsAgentPcs =>
              LeaseKept(dial[v].agent)
         /\ \A v \in Workers \ {w} : dial[v].pc \in HoldsBorrowerPcs =>
              BorrowerLeaseKept(dial[v].borrower)
         /\ \A k \in FindActive :
              LeaseKept(k.agent) /\ BorrowerLeaseKept(k.borrower)
<1>1. Exclusive(AgentClaims) /\ Exclusive(BorrowerClaims)
  BY DEF BookingInv, AgentsBooked, BorrowersBooked
<1>2. ASSUME NEW v \in Workers \ {w}, dial[v].pc \in HoldsAgentPcs
      PROVE  LeaseKept(dial[v].agent)
  <2>1. dial[v].agent \in Agents /\ HasCall(dial[v].agent)
    BY <1>2, DialTypes, DialHolds DEF BookingInv, HoldsAgentPcs
  <2>2. dial[w].pc \in {"claimBorrower", "freeAgent"} =>
          dial[v].agent # dial[w].agent
    BY <1>2, DialAgentsApart DEF HoldsAgentPcs
  <2>3. QED
    BY <2>1, <2>2, DialLeasesSet
<1>3. ASSUME NEW v \in Workers \ {w}, dial[v].pc \in HoldsBorrowerPcs
      PROVE  BorrowerLeaseKept(dial[v].borrower)
  <2>1. /\ dial[v].borrower \in Borrowers
        /\ borrowers[dial[v].borrower].status = "RESERVED"
    BY <1>3, DialTypes, DialHolds DEF BookingInv, HoldsBorrowerPcs
  <2>2. dial[w].pc = "freeBorrower" => dial[v].borrower # dial[w].borrower
    BY <1>1, <1>3, BorrowerClaimsApart DEF HoldsBorrowerPcs
  <2>3. QED
    BY <2>1, <2>2, DialLeasesSet
<1>4. ASSUME NEW k \in FindActive
      PROVE  LeaseKept(k.agent) /\ BorrowerLeaseKept(k.borrower)
  <2>1. /\ k.agent \in Agents /\ HasCall(k.agent)
        /\ k.borrower \in Borrowers /\ borrowers[k.borrower].status = "RESERVED"
    BY ActiveHolds
  <2>2. /\ dial[w].pc \in {"claimBorrower", "freeAgent"} =>
             k.agent # dial[w].agent
        /\ dial[w].pc = "freeBorrower" => k.borrower # dial[w].borrower
    BY <1>1, AgentClaimsApart, BorrowerClaimsApart
    DEF HoldsAgentPcs, HoldsBorrowerPcs
  <2>3. QED
    BY <2>1, <2>2, DialLeasesSet
<1>5. QED
  BY <1>2, <1>3, <1>4

LEMMA DialOpenCalls ==
  ASSUME BookingInv, NEW w \in Workers, Dialer(w), NEW k \in CallKeys, Open(k)'
  PROVE  \/ /\ Open(k) /\ LeaseKept(k.agent)
            /\ calls'[k].idle \in {calls[k].idle, StaleAfter}
         \/ agents'[k.agent].lease \in 0..TTL /\ calls'[k].idle = StaleAfter
<1>1. ASSUME Open(k)
      PROVE  LeaseKept(k.agent)
  <2>1. CASE k \in FindActive
    BY <2>1, OthersKeepLeases
  <2>2. ASSUME NEW v \in Workers, dial[v].pc = "reserve", DialKey(v) = k
        PROVE  LeaseKept(k.agent)
    <3>1. dial[v].agent = k.agent
      BY <2>2, DialTypes DEF BookingInv
    <3>2. CASE v # w
      BY <2>2, <3>1, <3>2, OthersKeepLeases DEF HoldsAgentPcs
    <3>3. CASE v = w
      BY <1>1, <2>2, <3>1, <3>3, OpenHolds, DialLeasesSet
    <3>4. QED
      BY <3>2, <3>3
  <2>3. QED
    BY <1>1, <2>1, <2>2, OpenHolds
<1>2. CASE calls'[k] = calls[k]
  BY <1>1, <1>2 DEF Open
<1>3. CASE calls'[k] # calls[k]
  <2>1. Create(w) \/ Reserve(w) \/ Initiate(w) \/ FailCall(w) \/ Attach(w)
    BY <1>3, ClaimAgentDoes, ClaimBorrowerDoes, GiveAgentBackDoes, FreeAgentDoes,
       MarkDialingDoes, BindDoes, OriginateDoes, FreeBorrowerDoes
    DEF Dialer, DialStep
  <2>2. k = DialKey(w) /\ dial[w].pc \in HoldsAgentPcs \cup HasCallPcs
        /\ k.agent = dial[w].agent
    BY <1>3, DialWrites, DialTypes DEF BookingInv
  <2>3. agents[k.agent].lease \in 0..TTL
    BY <2>2, DialHolds
  <2>4. UNCHANGED agents
    BY <2>1, CreateDoes, DialTransitionDoes, AttachDoes
  <2>5. calls'[k].idle = StaleAfter
    <3>1. CASE Create(w)
      BY <1>3, <2>2, <3>1, CreateDoes
    <3>2. CASE Reserve(w) \/ Initiate(w)
      BY <2>2, <3>2, DialTransitionDoes
    <3>3. CASE FailCall(w)
      BY <2>2, <3>3, DialTransitionDoes DEF Open, TerminalCallStates
    <3>4. CASE Attach(w)
      <4>1. calls[k] \in CallDocuments
        BY Types DEF BookingInv
      <4>2. calls'[k] = [calls[k] EXCEPT !.line = dial[w].line,
                                         !.idle = StaleAfter]
        BY <2>2, <3>4, AttachDoes
      <4>3. QED
        BY <4>1, <4>2 DEF CallDocuments
    <3>5. QED
      BY <2>1, <3>1, <3>2, <3>3, <3>4
  <2>6. QED
    BY <2>3, <2>4, <2>5
<1>4. QED
  BY <1>2, <1>3

LEMMA DialLeasesOK ==
  ASSUME BookingInv, NEW w \in Workers, Dialer(w)
  PROVE  LeasesOK'
<1>0. LeasesOK /\ TTL \in Nat \ {0} /\ None # 0 /\ None \notin Borrowers
  BY StoreAssumption DEF BookingInv
<1>1. \A v \in Workers \ {w} : dial'[v] = dial[v]
  BY OtherDials
<1>2. LeasesSet
  BY DialLeasesSet
(* Where the worker itself goes.                                           *)
<1>3. \/ dial'[w].pc = "idle"
      \/ /\ ClaimAgent(w) /\ dial'[w].pc = "claimBorrower"
         /\ dial'[w].borrower = None
         /\ agents'[dial'[w].agent].lease = TTL
      \/ /\ ClaimBorrower(w) /\ dial'[w].agent = dial[w].agent
         /\ dial[w].pc = "claimBorrower"
         /\ borrowers'[dial'[w].borrower].lease = TTL
         /\ UNCHANGED agents
      \/ Create(w) /\ dial[w].pc = "create" /\ SameDial(w)
      \/ /\ dial[w].pc \notin {"idle", "claimBorrower"}
         /\ dial'[w].pc \notin {"create", "reserve"} /\ SameDial(w)
  <2>0. dial[w] \in Dials
    BY DialTypes DEF BookingInv
  <2>1. CASE ClaimAgent(w)
    BY <2>1, ClaimAgentDoes
  <2>2. CASE ClaimBorrower(w)
    BY <2>2, ClaimBorrowerDoes
  <2>3. CASE GiveAgentBack(w) \/ Attach(w) \/ FreeBorrower(w)
    BY <2>3, GiveAgentBackDoes, AttachDoes, FreeBorrowerDoes
  <2>4. CASE Create(w)
    <3>1. /\ dial[w].pc = "create"
          /\ \/ dial'[w] = [dial[w] EXCEPT !.pc = "reserve"]
             \/ dial'[w] = [dial[w] EXCEPT !.pc = "freeAgent",
                                           !.outcome = "RELEASED"]
      BY <2>4, CreateDoes
    <3>2. SameDial(w)
      BY <2>0, <3>1 DEF Dials, SameDial, DialKey, IdempotencyKey
    <3>3. QED
      BY <2>4, <3>1, <3>2
  <2>5. CASE Reserve(w) \/ Initiate(w) \/ FailCall(w)
    <3>1. /\ dial[w].pc \in {"reserve", "initiate", "failCall"}
          /\ \/ dial'[w] = [dial[w] EXCEPT !.pc = "initiate"]
             \/ dial'[w] = [dial[w] EXCEPT !.pc = "markDialing"]
             \/ dial'[w] = [dial[w] EXCEPT !.pc = "freeAgent",
                                           !.outcome = "RETRY"]
      BY <2>5, DialTransitionDoes
    <3>2. SameDial(w) /\ dial'[w].pc \notin {"create", "reserve"}
      BY <2>0, <3>1 DEF Dials, SameDial, DialKey, IdempotencyKey
    <3>3. QED
      BY <3>1, <3>2
  <2>6. CASE MarkDialing(w) \/ Bind(w) \/ FreeAgent(w)
    <3>1. /\ dial[w].pc \in {"markDialing", "bind", "freeAgent"}
          /\ \/ dial'[w] = [dial[w] EXCEPT !.pc = "bind"]
             \/ dial'[w] = [dial[w] EXCEPT !.pc = "originate"]
             \/ dial'[w] = [dial[w] EXCEPT !.pc = "freeBorrower"]
      BY <2>6, MarkDialingDoes, BindDoes, FreeAgentDoes
    <3>2. SameDial(w) /\ dial'[w].pc \notin {"create", "reserve"}
      BY <2>0, <3>1 DEF Dials, SameDial, DialKey, IdempotencyKey
    <3>3. QED
      BY <3>1, <3>2
  <2>7. CASE Originate(w)
    <3>1. /\ dial[w].pc = "originate"
          /\ \/ dial'[w] = [dial[w] EXCEPT !.pc = "attach",
                                           !.line = nextLine + 1]
             \/ dial'[w] = [dial[w] EXCEPT !.pc = "failCall"]
      BY <2>7, OriginateDoes
    <3>2. SameDial(w) /\ dial'[w].pc \notin {"create", "reserve"}
      BY <2>0, <3>1 DEF Dials, SameDial, DialKey, IdempotencyKey
    <3>3. QED
      BY <3>1, <3>2
  <2>8. QED
    BY <2>1, <2>2, <2>3, <2>4, <2>5, <2>6, <2>7 DEF Dialer, DialStep
<1>4. dial[w].pc \notin {"idle"} => agents[dial[w].agent].lease # 0
  BY <1>0 DEF LeasesOK, SettingUp
<1>5. ASSUME NEW v \in Workers, SettingUp(v)'
      PROVE  \/ /\ SettingUp(v) /\ dial'[v].agent = dial[v].agent
                /\ dial'[v].borrower = dial[v].borrower
             \/ /\ agents'[dial'[v].agent].lease # 0
                /\ dial'[v].borrower # None =>
                     borrowers'[dial'[v].borrower].lease # 0
  <2>1. CASE v # w
    BY <1>1, <1>5, <2>1 DEF SettingUp
  <2>2. CASE v = w
    BY <1>0, <1>3, <1>4, <1>5, <2>2 DEF SettingUp, SameDial
  <2>3. QED
    BY <2>1, <2>2
<1>6. ASSUME NEW v \in Workers, dial'[v].pc \in {"create", "reserve"}
      PROVE  agents'[dial'[v].agent].lease <= borrowers'[dial'[v].borrower].lease
  <2>1. CASE v # w
    <3>1. dial'[v] = dial[v]
      BY <1>1, <2>1
    <3>2. LeaseKept(dial[v].agent) /\ BorrowerLeaseKept(dial[v].borrower)
      BY <1>6, <2>1, <3>1, OthersKeepLeases DEF HoldsAgentPcs, HoldsBorrowerPcs
    <3>3. agents[dial[v].agent].lease <= borrowers[dial[v].borrower].lease
      BY <1>0, <1>6, <3>1 DEF LeasesOK, SettingUp
    <3>4. QED
      BY <3>1, <3>2, <3>3 DEF LeaseKept, BorrowerLeaseKept
  <2>2. CASE v = w /\ ClaimBorrower(w)
    <3>1. /\ dial'[w].agent = dial[w].agent /\ dial[w].pc = "claimBorrower"
          /\ borrowers'[dial'[w].borrower].lease = TTL
          /\ UNCHANGED agents
      BY <2>2, ClaimBorrowerDoes
    <3>2. agents[dial[w].agent].lease \in 1..TTL
      BY <3>1, DialHolds DEF HoldsAgentPcs
    <3>3. QED
      BY <1>0, <2>2, <3>1, <3>2
  <2>3. CASE v = w /\ Create(w)
    <3>1. dial[w].pc = "create" /\ SameDial(w) /\ UNCHANGED <<agents, borrowers>>
      <4>1. dial[w].pc = "create" /\ UNCHANGED <<agents, borrowers>>
        BY <2>3, CreateDoes
      <4>2. SameDial(w)
        BY <1>3, <1>6, <2>3, <4>1 DEF ClaimAgent, ClaimBorrower
      <4>3. QED
        BY <4>1, <4>2
    <3>2. QED
      BY <1>0, <2>3, <3>1 DEF LeasesOK, SettingUp, SameDial
  <2>4. QED
    BY <1>3, <1>6, <2>1, <2>2, <2>3
<1>7. ASSUME NEW l \in 1..MaxLines, Talking(l)'
      PROVE  \/ Talking(l) /\ lines'[l].key = lines[l].key
             \/ /\ lines'[l].key \in FindActive
                /\ agents[lines'[l].key.agent].lease # 0
                /\ borrowers[lines'[l].key.borrower].lease # 0
  <2>1. CASE lines'[l] = lines[l]
    BY <1>7, <2>1 DEF Talking
  <2>2. CASE lines'[l] # lines[l]
    <3>1. Originate(w)
      BY <2>2, ClaimAgentDoes, ClaimBorrowerDoes, GiveAgentBackDoes,
         FreeAgentDoes, CreateDoes, DialTransitionDoes, MarkDialingDoes,
         BindDoes, AttachDoes, FreeBorrowerDoes DEF Dialer, DialStep
    <3>2. lines'[l].key = DialKey(w) /\ dial[w].pc = "originate"
      BY <2>2, <3>1, OriginateDoes
    <3>3. /\ DialKey(w) \in FindActive
          /\ DialKey(w).agent = dial[w].agent
          /\ DialKey(w).borrower = dial[w].borrower
          /\ dial[w].borrower \in Borrowers
      BY <3>2, DialHolds, DialTypes DEF HasCallPcs, BookingInv
    <3>4. QED
      BY <1>0, <3>2, <3>3 DEF LeasesOK, SettingUp
  <2>3. QED
    BY <2>1, <2>2
<1>8. ASSUME NEW k \in FindActive'
      PROVE  agents'[k.agent].lease <= borrowers'[k.borrower].lease
  <2>1. CASE k \in FindActive
    BY <1>0, <2>1, OthersKeepLeases
    DEF LeasesOK, LeaseKept, BorrowerLeaseKept
  <2>2. CASE k \notin FindActive
    <3>1. Reserve(w)
      BY <1>8, <2>2, DialActive
    <3>2. /\ dial[w].pc = "reserve" /\ UNCHANGED <<agents, borrowers>>
          /\ \A j \in CallKeys \ {DialKey(w)} : calls'[j] = calls[j]
      BY <3>1, DialTransitionDoes
    <3>3. k = DialKey(w)
      BY <1>8, <2>2, <3>2 DEF FindActive
    <3>4. k.agent = dial[w].agent /\ k.borrower = dial[w].borrower
      BY <3>3, DialTypes DEF BookingInv
    <3>5. QED
      BY <1>0, <3>2, <3>4 DEF LeasesOK, SettingUp
  <2>3. QED
    BY <2>1, <2>2
<1>9. QED
  BY <1>2, <1>5, <1>6, <1>7, <1>8, DialOpenCalls, LeasesKept

(* The other tasks write no leases but those of what they release.         *)
LEMMA TaskLeasesKept ==
  ASSUME BookingInv, UNCHANGED dial, LeasesSet,
         \A v \in Workers : dial[v].pc \in {"create", "reserve"} =>
           LeaseKept(dial[v].agent) /\ BorrowerLeaseKept(dial[v].borrower),
         \A l \in 1..MaxLines : Talking(l)' =>
           Talking(l) /\ lines'[l].key = lines[l].key,
         \A k \in CallKeys :
           \/ calls'[k] = calls[k]
           \/ /\ k \in FindActive /\ calls'[k].state # "QUEUED"
              /\ IsTerminal(calls'[k].state) \/ calls'[k].idle = StaleAfter,
         \A k \in FindActive : k \in FindActive' =>
           LeaseKept(k.agent) /\ BorrowerLeaseKept(k.borrower)
  PROVE  LeasesOK'
<1>1. LeasesOK
  BY DEF BookingInv
<1>2. \A v \in Workers : SettingUp(v)' =>
        /\ SettingUp(v) /\ dial'[v].agent = dial[v].agent
        /\ dial'[v].borrower = dial[v].borrower
  BY DEF SettingUp
<1>3. \A v \in Workers : dial'[v].pc \in {"create", "reserve"} =>
        agents'[dial'[v].agent].lease <= borrowers'[dial'[v].borrower].lease
  BY <1>1 DEF LeasesOK, SettingUp, LeaseKept, BorrowerLeaseKept
<1>4. ASSUME NEW k \in CallKeys, Open(k)'
      PROVE  /\ Open(k) /\ LeaseKept(k.agent)
             /\ calls'[k].idle \in {calls[k].idle, StaleAfter}
  <2>1. Open(k) /\ calls'[k].idle \in {calls[k].idle, StaleAfter}
    BY <1>4 DEF Open, IsTerminal, FindActive
  <2>2. ASSUME NEW v \in Workers, dial[v].pc = "reserve", DialKey(v) = k
        PROVE  LeaseKept(k.agent)
    BY <2>2, DialTypes DEF BookingInv
  <2>3. CASE k \notin FindActive
    BY <2>1, <2>2, <2>3, OpenHolds
  <2>4. CASE k \in FindActive /\ k \in FindActive'
    BY <2>1, <2>4 DEF LeaseKept
  <2>5. QED
    BY <1>4, <2>1, <2>3, <2>4 DEF Open, FindActive
<1>5. \A k \in FindActive' :
        agents'[k.agent].lease <= borrowers'[k.borrower].lease
  <2>1. \A k \in FindActive' : k \in FindActive
    BY DEF FindActive
  <2>2. QED
    BY <1>1, <2>1 DEF LeasesOK, LeaseKept, BorrowerLeaseKept
<1>6. QED
  BY <1>2, <1>3, <1>4, <1>5, LeasesKept

(* Nor do they release what a worker has.                                  *)
LEMMA DialBorrowersApart ==
  ASSUME BookingInv, NEW v \in Workers, dial[v].pc \in HoldsBorrowerPcs
  PROVE  /\ \A l \in 1..MaxLines : Ending(l, EndingBorrowerPcs) =>
              Handler(l).call.borrower # dial[v].borrower
         /\ \A k \in CallKeys : Sweeping(k) => k.borrower # dial[v].borrower
<1>1. Exclusive(BorrowerClaims)
  BY DEF BookingInv, BorrowersBooked
<1>2. /\ DialBorrowerClaim(v) \in BorrowerClaims
      /\ DialBorrowerClaim(v).of = dial[v].borrower
      /\ DialBorrowerClaim(v).kind = "dial"
  BY BorrowerClaimsAre DEF DialBorrowerClaim
<1>3. ASSUME NEW l \in 1..MaxLines, Ending(l, EndingBorrowerPcs)
      PROVE  Handler(l).call.borrower # dial[v].borrower
  <2>1. /\ LineBorrowerClaim(l) \in BorrowerClaims
        /\ LineBorrowerClaim(l).of = Handler(l).call.borrower
        /\ LineBorrowerClaim(l).kind = "line"
    BY <1>3, BorrowerClaimsAre DEF LineBorrowerClaim
  <2>2. QED
    BY <1>1, <1>2, <2>1 DEF Exclusive
<1>4. ASSUME NEW k \in CallKeys, Sweeping(k)
      PROVE  k.borrower # dial[v].borrower
  <2>1. /\ SweepBorrowerClaim(k) \in BorrowerClaims
        /\ SweepBorrowerClaim(k).of = k.borrower
        /\ SweepBorrowerClaim(k).kind = "sweep"
    BY <1>4, BorrowerClaimsAre DEF SweepBorrowerClaim
  <2>2. QED
    BY <1>1, <1>2, <2>1 DEF Exclusive
<1>5. QED
  BY <1>3, <1>4

LEMMA HandlerKeepsLines ==
  ASSUME NEW l \in 1..MaxLines, NEW handler, HandlerMoves(l, handler),
         NEW m \in 1..MaxLines, Talking(m)'
  PROVE  Talking(m) /\ lines'[m].key = lines[m].key
BY DEF HandlerMoves, Talking

LEMMA ProcessorLeasesOK ==
  ASSUME BookingInv, NEW l \in 1..MaxLines, Processor(l)
  PROVE  LeasesOK'
<1>1. UNCHANGED dial
  BY OtherTasks
<1>2. \A m \in 1..MaxLines : Talking(m)' =>
        Talking(m) /\ lines'[m].key = lines[m].key
  <2>1. CASE Finish(l)
    BY <2>1, FinishDoes DEF Talking
  <2>2. CASE ~Finish(l)
    <3>1. \E handler : HandlerMoves(l, handler)
      BY <2>2, ReceiveEventDoes, ApplyCallDoes, ReadAgentDoes, MoveAgentDoes,
         SettleBorrowerDoes DEF Processor, EventStep
    <3>2. QED
      BY <3>1, HandlerKeepsLines
  <2>3. QED
    BY <2>1, <2>2
<1>3. ASSUME UNCHANGED <<agents, borrowers>>
      PROVE  /\ LeasesSet
             /\ \A v \in Workers : dial[v].pc \in {"create", "reserve"} =>
                  LeaseKept(dial[v].agent) /\ BorrowerLeaseKept(dial[v].borrower)
             /\ \A k \in FindActive : k \in FindActive' =>
                  LeaseKept(k.agent) /\ BorrowerLeaseKept(k.borrower)
  BY <1>3 DEF LeasesSet, LeaseKept, BorrowerLeaseKept
<1>4. CASE ReceiveEvent(l) \/ ReadAgent(l) \/ Finish(l)
  <2>1. UNCHANGED <<agents, borrowers, calls>>
    BY <1>4, ReceiveEventDoes, ReadAgentDoes, FinishDoes DEF storeVars
  <2>2. QED
    BY <1>1, <1>2, <1>3, <2>1, TaskLeasesKept
<1>5. CASE ApplyCall(l)
  <2>1. Handler(l).target \in EventTypes
    BY <1>5, ApplyCallDoes, HandlerTypes DEF BookingInv
  <2>2. \A k \in CallKeys :
          \/ calls'[k] = calls[k]
          \/ /\ k \in FindActive /\ calls'[k].state # "QUEUED"
             /\ IsTerminal(calls'[k].state) \/ calls'[k].idle = StaleAfter
    BY <1>5, <2>1, ApplyCallDoes DEF EventTypes
  <2>3. UNCHANGED <<agents, borrowers>>
    BY <1>5, ApplyCallDoes
  <2>4. QED
    BY <1>1, <1>2, <1>3, <2>2, <2>3, TaskLeasesKept
<1>6. CASE MoveAgent(l)
  <2>0. PICK a \in Agents : a = HandlerAgent(l)
    BY <1>6, MoveAgentDoes
  <2>1. /\ Handler(l).pc = "moveAgent" /\ UNCHANGED <<borrowers, calls>>
        /\ \A x \in Agents \ {a} : agents'[x] = agents[x]
        /\ \/ agents'[a] = agents[a]
           \/ Ending(l, {"readAgent", "moveAgent"}) /\ Freed(a)
           \/ Answers(a)
    BY <1>6, <2>0, MoveAgentDoes DEF Ending
  <2>2. Answers(a) => LeaseKept(a)
    <3>1. agents[a] \in AgentDocuments
      BY Types DEF BookingInv
    <3>2. QED
      BY <3>1 DEF Answers, LeaseKept, AgentDocuments
  <2>3. LeasesSet
    BY <2>1, <2>2 DEF LeasesSet, LeaseKept, BorrowerLeaseKept, Freed
  <2>4. Ending(l, {"readAgent", "moveAgent"}) =>
          /\ \A v \in Workers : dial[v].pc \in HoldsAgentPcs => dial[v].agent # a
          /\ \A k \in FindActive : k.agent # a
    BY <2>0, AgentClaimsApart DEF BookingInv, AgentsBooked
  <2>5. \A v \in Workers : dial[v].pc \in {"create", "reserve"} =>
          dial[v].agent \in Agents /\ dial[v].pc \in HoldsAgentPcs
    BY DialTypes DEF BookingInv, HoldsAgentPcs
  <2>6. /\ \A v \in Workers : dial[v].pc \in {"create", "reserve"} =>
             LeaseKept(dial[v].agent) /\ BorrowerLeaseKept(dial[v].borrower)
        /\ \A k \in FindActive :
             LeaseKept(k.agent) /\ BorrowerLeaseKept(k.borrower)
    BY <2>1, <2>2, <2>4, <2>5, ActiveHolds DEF LeaseKept, BorrowerLeaseKept
  <2>7. QED
    BY <1>1, <1>2, <2>1, <2>3, <2>6, TaskLeasesKept
<1>7. CASE SettleBorrower(l)
  <2>0. PICK b \in Borrowers : b = Handler(l).call.borrower
    BY <1>7, SettleBorrowerDoes
  <2>1. /\ Handler(l).pc = "freeBorrower" /\ UNCHANGED <<agents, calls>>
        /\ \A x \in Borrowers \ {b} : borrowers'[x] = borrowers[x]
        /\ borrowers'[b] = borrowers[b] \/ Returned(b, 1)
    BY <1>7, <2>0, SettleBorrowerDoes
  <2>2. Ending(l, EndingBorrowerPcs)
    BY <2>1 DEF BookingInv, LinesOK, Ending, EndingBorrowerPcs
  <2>3. LeasesSet
    BY <2>1 DEF LeasesSet, LeaseKept, BorrowerLeaseKept, Returned
  <2>4. /\ \A v \in Workers : dial[v].pc \in HoldsBorrowerPcs =>
             dial[v].borrower # b
        /\ \A k \in FindActive : k.borrower # b
    <3>1. \A k \in FindActive : Handler(l).call.borrower # k.borrower
      BY <2>2, BorrowerClaimsApart
      DEF BookingInv, BorrowersBooked, EndingBorrowerPcs
    <3>2. QED
      BY <2>0, <2>2, <3>1, DialBorrowersApart
  <2>5. \A v \in Workers : dial[v].pc \in {"create", "reserve"} =>
          dial[v].borrower \in Borrowers /\ dial[v].pc \in HoldsBorrowerPcs
    BY DialTypes DEF BookingInv, HoldsBorrowerPcs
  <2>6. /\ \A v \in Workers : dial[v].pc \in {"create", "reserve"} =>
             LeaseKept(dial[v].agent) /\ BorrowerLeaseKept(dial[v].borrower)
        /\ \A k \in FindActive :
             LeaseKept(k.agent) /\ BorrowerLeaseKept(k.borrower)
    BY <2>1, <2>4, <2>5, ActiveHolds DEF LeaseKept, BorrowerLeaseKept
  <2>7. QED
    BY <1>1, <1>2, <2>1, <2>3, <2>6, TaskLeasesKept
<1>8. QED
  BY <1>4, <1>5, <1>6, <1>7 DEF Processor, EventStep

LEMMA RecoveryLeasesOK ==
  ASSUME BookingInv, Recovery
  PROVE  LeasesOK'
<1>1. UNCHANGED dial
  BY RecoveryDoes
<1>2. ASSUME UNCHANGED lines
      PROVE  \A m \in 1..MaxLines : Talking(m)' =>
               Talking(m) /\ lines'[m].key = lines[m].key
  BY <1>2 DEF Talking
<1>3. \A v \in Workers : dial[v].pc \in {"create", "reserve"} =>
        /\ dial[v].agent \in Agents /\ dial[v].pc \in HoldsAgentPcs
        /\ dial[v].borrower \in Borrowers /\ dial[v].pc \in HoldsBorrowerPcs
        /\ SettingUp(v)
  BY DialTypes DEF BookingInv, HoldsAgentPcs, HoldsBorrowerPcs, SettingUp
<1>4. CASE NextSweep
  <2>1. UNCHANGED <<agents, borrowers, calls, lines>>
    BY <1>4, NextSweepDoes
  <2>2. QED
    BY <1>1, <1>2, <2>1, TaskLeasesKept
    DEF LeasesSet, LeaseKept, BorrowerLeaseKept
<1>5. ASSUME NEW item \in sweep.todo, CancelBoundCall(item)
      PROVE  LeasesOK'
  <2>1. /\ UNCHANGED <<agents, borrowers, lines>>
        /\ \A k \in CallKeys :
             \/ calls'[k] = calls[k]
             \/ k \in FindActive /\ calls'[k].state = "CANCELLED"
    BY <1>5, CancelBoundCallDoes
  <2>2. \A k \in CallKeys :
          \/ calls'[k] = calls[k]
          \/ /\ k \in FindActive /\ calls'[k].state # "QUEUED"
             /\ IsTerminal(calls'[k].state) \/ calls'[k].idle = StaleAfter
    BY <2>1 DEF IsTerminal, TerminalCallStates
  <2>3. QED
    BY <1>1, <1>2, <2>1, <2>2, TaskLeasesKept
    DEF LeasesSet, LeaseKept, BorrowerLeaseKept
<1>6. CASE ReclaimAgent
  <2>1. PICK a \in ExpiredAgentLeases :
          /\ a = sweep.item.agent /\ sweep.step = "settle"
          /\ \A x \in Agents \ {a} : agents'[x] = agents[x]
          /\ Freed(a)
          /\ UNCHANGED <<borrowers, calls, lines>>
    BY <1>6, ReclaimAgentDoes
  <2>2. /\ \A v \in Workers : SettingUp(v) => dial[v].agent # a
        /\ \A k \in FindActive : k.agent # a
    BY <2>1, ExpiredAgents DEF BookingInv, SweepBooked
  <2>3. LeasesSet
    BY <2>1 DEF LeasesSet, LeaseKept, BorrowerLeaseKept, Freed
  <2>4. /\ \A v \in Workers : dial[v].pc \in {"create", "reserve"} =>
             LeaseKept(dial[v].agent) /\ BorrowerLeaseKept(dial[v].borrower)
        /\ \A k \in FindActive :
             LeaseKept(k.agent) /\ BorrowerLeaseKept(k.borrower)
    BY <1>3, <2>1, <2>2, ActiveHolds DEF LeaseKept, BorrowerLeaseKept
  <2>5. QED
    BY <1>1, <1>2, <2>1, <2>3, <2>4, TaskLeasesKept
<1>7. ASSUME NEW item \in sweep.todo, ReleaseStuckWrapUp(item)
      PROVE  LeasesOK'
  <2>1. /\ \A x \in Agents : agents'[x].lease = agents[x].lease
        /\ UNCHANGED <<borrowers, calls, lines>>
    BY <1>7, ReleaseStuckWrapUpDoes DEF StaysAway
  <2>2. QED
    BY <1>1, <1>2, <1>3, <2>1, TaskLeasesKept, ActiveHolds
    DEF LeasesSet, LeaseKept, BorrowerLeaseKept
(* A borrower given back is nobody's.                                      *)
<1>8. ASSUME NEW b \in Borrowers,
             \A x \in Borrowers \ {b} : borrowers'[x] = borrowers[x],
             borrowers'[b].lease = None,
             \A v \in Workers : dial[v].pc \in HoldsBorrowerPcs =>
               dial[v].borrower # b,
             \A k \in FindActive : k.borrower # b,
             UNCHANGED <<agents, calls, lines>>
      PROVE  LeasesOK'
  <2>1. LeasesSet
    BY <1>8 DEF LeasesSet, LeaseKept, BorrowerLeaseKept
  <2>2. /\ \A v \in Workers : dial[v].pc \in {"create", "reserve"} =>
             LeaseKept(dial[v].agent) /\ BorrowerLeaseKept(dial[v].borrower)
        /\ \A k \in FindActive :
             LeaseKept(k.agent) /\ BorrowerLeaseKept(k.borrower)
    BY <1>3, <1>8, ActiveHolds DEF LeaseKept, BorrowerLeaseKept
  <2>3. QED
    BY <1>1, <1>2, <1>8, <2>1, <2>2, TaskLeasesKept
<1>9. ASSUME UNCHANGED <<agents, calls, lines>>,
             \A b \in Borrowers : borrowers'[b] = borrowers[b]
      PROVE  LeasesOK'
  BY <1>1, <1>2, <1>3, <1>9, TaskLeasesKept, ActiveHolds
  DEF LeasesSet, LeaseKept, BorrowerLeaseKept
<1>10. CASE FreeBoundBorrower
  <2>0. PICK b \in Borrowers : b = sweep.item.call.borrower
    BY <1>10, FreeBoundBorrowerDoes
  <2>1. /\ sweep.step = "freeBorrower" /\ UNCHANGED <<agents, calls, lines>>
        /\ \A x \in Borrowers \ {b} : borrowers'[x] = borrowers[x]
        /\ borrowers'[b] = borrowers[b] \/ borrowers'[b].lease = None
    BY <1>10, <2>0, FreeBoundBorrowerDoes DEF Returned
  <2>2. PICK k \in CallKeys : Sweeping(k) /\ k.borrower = b
    BY <2>0, <2>1, ItemTypes DEF Sweeping, BookingInv
  <2>3. \A v \in Workers : dial[v].pc \in HoldsBorrowerPcs =>
          dial[v].borrower # b
    BY <2>2, DialBorrowersApart
  <2>4. \A j \in FindActive : j.borrower # b
    BY <2>2, BorrowerClaimsApart DEF BookingInv, BorrowersBooked, Sweeping
  <2>5. QED
    BY <1>8, <1>9, <2>1, <2>3, <2>4
<1>11. ASSUME NEW b \in sweep.todo, SweepBorrower(b)
       PROVE  LeasesOK'
  <2>1. /\ sweep.stage = "borrowerLeases" /\ sweep.step = "next"
        /\ b \in Borrowers /\ UNCHANGED <<agents, calls, lines>>
        /\ \A x \in Borrowers \ {b} : borrowers'[x] = borrowers[x]
        /\ \/ borrowers'[b] = borrowers[b]
           \/ borrowers[b].lease = 0 /\ borrowers'[b].lease = None
    BY <1>11, SweepBorrowerDoes DEF Returned
  <2>2. ExpiredAgentLeases = {}
    BY <2>1 DEF BookingInv, SweepBooked
  <2>3. CASE borrowers[b].lease = 0 /\ borrowers'[b].lease = None
    <3>1. \A c \in BorrowerClaims : c.of # b
      BY <2>1, <2>2, <2>3, ExpiredBorrowers
    <3>2. ASSUME NEW v \in Workers, dial[v].pc \in HoldsBorrowerPcs
          PROVE  dial[v].borrower # b
      <4>1. /\ DialBorrowerClaim(v) \in BorrowerClaims
            /\ DialBorrowerClaim(v).of = dial[v].borrower
        BY <3>2, BorrowerClaimsAre DEF DialBorrowerClaim
      <4>2. QED
        BY <3>1, <4>1
    <3>3. ASSUME NEW k \in FindActive
          PROVE  k.borrower # b
      <4>1. /\ CallBorrowerClaim(k) \in BorrowerClaims
            /\ CallBorrowerClaim(k).of = k.borrower
        BY BorrowerClaimsAre DEF CallBorrowerClaim
      <4>2. QED
        BY <3>1, <4>1
    <3>4. QED
      BY <1>8, <2>1, <2>3, <3>2, <3>3
  <2>4. QED
    BY <1>9, <2>1, <2>3
<1>12. QED
  BY <1>4, <1>5, <1>6, <1>7, <1>10, <1>11, RecoveryDoes

LEMMA AgedKeepsOrder ==
  ASSUME NEW x \in Nat, NEW y \in Nat, None \notin Nat, NEW xa, NEW ya,
         Aged(x, xa), Aged(y, ya)
  PROVE  /\ x <= y => xa <= ya
         /\ x = 0 \/ x < y => xa = 0 \/ xa < ya
BY DEF Aged

LEMMA TickLeasesOK ==
  ASSUME WellBehaved, BookingInv, Tick
  PROVE  LeasesOK'
<1>1. /\ LeasesOK /\ None \notin Nat /\ TTL \in Nat /\ StaleAfter \in Nat
      /\ borrowers \in [Borrowers -> BorrowerDocuments]
      /\ calls \in [CallKeys -> CallDocuments]
  BY StoreAssumption, Types DEF BookingInv
<1>2. /\ \A a \in Agents : Aged(agents[a].lease, agents'[a].lease)
      /\ \A b \in Borrowers : Aged(borrowers[b].lease, borrowers'[b].lease)
      /\ \A k \in CallKeys : /\ calls'[k].state = calls[k].state
                             /\ Aged(calls[k].idle, calls'[k].idle)
      /\ UNCHANGED <<lines, dial>>
  BY TickDoes
<1>3. SetupInTime /\ CallsInTime
  BY DEF Tick, WellBehaved
<1>4. ASSUME NEW old, NEW new, Aged(old, new), old \notin {0, 1},
             old \in Nat \/ old = None
      PROVE  new # 0
  BY <1>1, <1>4 DEF Aged
<1>5. /\ \A a \in Agents : agents[a].lease \in Nat \/ agents[a].lease = None
      /\ \A b \in Borrowers :
           borrowers[b].lease \in Nat \/ borrowers[b].lease = None
  BY <1>1, Types DEF BookingInv, AgentDocuments, BorrowerDocuments
<1>6. /\ \A a \in Agents : agents[a].lease \notin {0, 1} => agents'[a].lease # 0
      /\ \A b \in Borrowers :
           borrowers[b].lease \notin {0, 1} => borrowers'[b].lease # 0
  BY <1>2, <1>4, <1>5
<1>7. ASSUME NEW w \in Workers, SettingUp(w)
      PROVE  /\ agents'[dial[w].agent].lease # 0
             /\ dial[w].borrower # None =>
                  borrowers'[dial[w].borrower].lease # 0
             /\ dial[w].pc \in {"create", "reserve"} =>
                  agents'[dial[w].agent].lease
                    <= borrowers'[dial[w].borrower].lease
  <2>1. dial[w].agent \in Agents /\ dial[w].borrower \in Borrowers \cup {None}
    BY <1>7, DialTypes DEF SettingUp, BookingInv, Dials
  <2>2. /\ agents'[dial[w].agent].lease # 0
        /\ dial[w].borrower # None => borrowers'[dial[w].borrower].lease # 0
    BY <1>1, <1>3, <1>6, <1>7, <2>1 DEF LeasesOK, SetupInTime
  <2>3. ASSUME dial[w].pc \in {"create", "reserve"}
        PROVE  agents'[dial[w].agent].lease
                 <= borrowers'[dial[w].borrower].lease
    <3>1. /\ agents[dial[w].agent].lease \in Nat
          /\ borrowers[dial[w].borrower].lease \in Nat
          /\ dial[w].borrower \in Borrowers
      BY <1>1, <2>3, DialHolds, DialTypes
      DEF HoldsAgentPcs, HoldsBorrowerPcs, BookingInv
    <3>2. agents[dial[w].agent].lease <= borrowers[dial[w].borrower].lease
      BY <1>1, <1>7, <2>3 DEF LeasesOK
    <3>3. /\ Aged(agents[dial[w].agent].lease, agents'[dial[w].agent].lease)
          /\ Aged(borrowers[dial[w].borrower].lease,
                  borrowers'[dial[w].borrower].lease)
      BY <1>2, <2>1, <3>1
    <3>4. QED
      BY <1>1, <3>1, <3>2, <3>3, AgedKeepsOrder
  <2>4. QED
    BY <2>2, <2>3
<1>8. ASSUME NEW l \in 1..MaxLines, Talking(l)
      PROVE  /\ agents'[lines[l].key.agent].lease # 0
             /\ borrowers'[lines[l].key.borrower].lease # 0
  <2>1. lines[l].key \in CallKeys
    BY <1>8 DEF BookingInv, LinesOK
  <2>2. lines[l].key.agent \in Agents /\ lines[l].key.borrower \in Borrowers
    BY <2>1, KeyTypes
  <2>3. QED
    BY <1>1, <1>3, <1>6, <1>8, <2>2 DEF LeasesOK, CallsInTime
<1>9. ASSUME NEW k \in CallKeys, Open(k)
      PROVE  \/ agents'[k.agent].lease = 0
             \/ agents'[k.agent].lease < calls'[k].idle
  <2>1. agents[k.agent].lease \in Nat /\ k.agent \in Agents
    BY <1>1, <1>9, OpenHolds
  <2>2. calls[k].idle \in Nat
    BY <1>1 DEF CallDocuments
  <2>3. agents[k.agent].lease = 0 \/ agents[k.agent].lease < calls[k].idle
    BY <1>1, <1>9 DEF LeasesOK
  <2>4. /\ Aged(agents[k.agent].lease, agents'[k.agent].lease)
        /\ Aged(calls[k].idle, calls'[k].idle)
    BY <1>2, <2>1
  <2>5. QED
    BY <1>1, <2>1, <2>2, <2>3, <2>4, AgedKeepsOrder
<1>10. ASSUME NEW k \in FindActive
       PROVE  agents'[k.agent].lease <= borrowers'[k.borrower].lease
  <2>1. /\ agents[k.agent].lease \in Nat /\ k.agent \in Agents
        /\ borrowers[k.borrower].lease \in Nat /\ k.borrower \in Borrowers
    BY <1>1, ActiveHolds
  <2>2. agents[k.agent].lease <= borrowers[k.borrower].lease
    BY <1>1 DEF LeasesOK
  <2>3. /\ Aged(agents[k.agent].lease, agents'[k.agent].lease)
        /\ Aged(borrowers[k.borrower].lease, borrowers'[k.borrower].lease)
    BY <1>2, <2>1
  <2>4. QED
    BY <1>1, <2>1, <2>2, <2>3, AgedKeepsOrder
<1>11. /\ \A w \in Workers : SettingUp(w)' => SettingUp(w)
       /\ \A l \in 1..MaxLines : Talking(l)' => Talking(l)
       /\ \A k \in CallKeys : Open(k)' => Open(k)
       /\ \A k \in FindActive' : k \in FindActive
  BY <1>2 DEF SettingUp, Talking, Open, FindActive
<1>12. QED
  BY <1>2, <1>7, <1>8, <1>9, <1>10, <1>11 DEF LeasesOK

LEMMA OthersLeasesOK ==
  ASSUME WellBehaved, BookingInv,
         \/ \E a \in Agents : Session(a) \/ WrapUpEnds(a)
         \/ \E b \in Borrowers : Backoff(b)
         \/ Tick \/ UNCHANGED vars
  PROVE  LeasesOK'
<1>1. ASSUME UNCHANGED <<calls, lines, dial>>,
             \A a \in Agents : LeaseKept(a),
             \A b \in Borrowers : BorrowerLeaseKept(b)
      PROVE  LeasesOK'
  <2>1. \A v \in Workers : dial[v].pc \in {"create", "reserve"} =>
          dial[v].agent \in Agents /\ dial[v].borrower \in Borrowers
    BY DialTypes DEF BookingInv
  <2>2. \A m \in 1..MaxLines : Talking(m)' =>
          Talking(m) /\ lines'[m].key = lines[m].key
    BY <1>1 DEF Talking
  <2>3. LeasesSet
    BY <1>1 DEF LeasesSet
  <2>4. \A k \in FindActive : LeaseKept(k.agent) /\ BorrowerLeaseKept(k.borrower)
    BY <1>1, ActiveHolds
  <2>5. QED
    BY <1>1, <2>1, <2>2, <2>3, <2>4, TaskLeasesKept
<1>2. ASSUME NEW a \in Agents, Session(a) \/ WrapUpEnds(a)
      PROVE  LeasesOK'
  <2>1. UNCHANGED <<borrowers, calls, lines, dial>>
    BY <1>2, AgentActionDoes
  <2>2. \A x \in Agents : LeaseKept(x)
    BY <1>2, AgentActionDoes DEF StaysAway, LeaseKept
  <2>3. QED
    BY <1>1, <2>1, <2>2 DEF BorrowerLeaseKept
<1>3. ASSUME NEW b \in Borrowers, Backoff(b)
      PROVE  LeasesOK'
  <2>1. /\ UNCHANGED <<agents, calls, lines, dial>>
        /\ \A x \in Borrowers \ {b} : borrowers'[x] = borrowers[x]
        /\ borrowers'[b] = [borrowers[b] EXCEPT !.due = TRUE]
    BY <1>3, BackoffDoes
  <2>2. borrowers[b] \in BorrowerDocuments
    BY Types DEF BookingInv
  <2>3. BorrowerLeaseKept(b)
    BY <2>1, <2>2 DEF BorrowerLeaseKept, BorrowerDocuments
  <2>4. QED
    BY <1>1, <2>1, <2>3 DEF LeaseKept, BorrowerLeaseKept
<1>4. CASE UNCHANGED vars
  <2>1. UNCHANGED <<agents, borrowers, calls, lines, dial>>
    BY <1>4 DEF vars, storeVars, providerVars, allocatorVars
  <2>2. QED
    BY <1>1, <2>1 DEF LeaseKept, BorrowerLeaseKept
<1>5. QED
  BY <1>2, <1>3, <1>4, TickLeasesOK

-----------------------------------------------------------------------------
(* Whose line is whose.                                                    *)

(* Where a delivery task may be.                                           *)
TaskOK(l) ==
  /\ lines[l].final # "ACTIVE"
  /\ Handler(l).pc # "idle" =>
       /\ Talking(l)
       /\ Handler(l).call = lines[l].key
       /\ calls[lines[l].key].line # None
  /\ Handler(l).pc = "freeBorrower" => IsTerminal(Handler(l).target)

LEMMA LineTypes ==
  ASSUME BookingInv, NEW k \in CallKeys, calls[k].line # None
  PROVE  calls[k].line \in 1..MaxLines
<1>1. /\ calls[k] \in CallDocuments /\ nextLine \in 0..MaxLines
      /\ calls[k].line <= nextLine
  BY Types DEF BookingInv, LinesOK
<1>2. calls[k].line \in LineIds /\ MaxLines \in Nat
  BY <1>1, ProviderAssumption DEF CallDocuments
<1>3. QED
  BY <1>1, <1>2 DEF LineIds

LEMMA LinesKept ==
  ASSUME BookingInv, nextLine' = nextLine,
         \A k \in CallKeys : calls'[k].line = calls[k].line,
         \A v \in Workers : dial'[v].pc = "attach" =>
           /\ dial[v].pc = "attach" /\ dial'[v].line = dial[v].line
           /\ DialKey(v)' = DialKey(v),
         \A l \in 1..MaxLines : Talking(l)' =>
           Talking(l) /\ lines'[l].key = lines[l].key,
         \A l \in 1..MaxLines : lines'[l] = lines[l] \/ TaskOK(l)'
  PROVE  LinesOK'
<1>1. LinesOK
  BY DEF BookingInv
<1>2. ASSUME NEW k \in CallKeys, calls'[k].line # None
      PROVE  /\ calls'[k].line <= nextLine'
             /\ lines'[calls'[k].line].status = "ACTIVE" =>
                  lines'[calls'[k].line].key = k
  <2>1. PICK m \in 1..MaxLines : m = calls[k].line /\ m = calls'[k].line
    BY <1>2, LineTypes
  <2>2. m <= nextLine /\ (Talking(m) => lines[m].key = k)
    BY <1>1, <1>2, <2>1 DEF LinesOK
  <2>3. QED
    BY <2>1, <2>2 DEF Talking
<1>3. ASSUME NEW w \in Workers, dial'[w].pc = "attach"
      PROVE  /\ dial'[w].line <= nextLine'
             /\ lines'[dial'[w].line].status = "ACTIVE" =>
                  lines'[dial'[w].line].key = DialKey(w)'
             /\ \A k \in CallKeys : calls'[k].line # dial'[w].line
             /\ \A v \in Workers \ {w} :
                  dial'[v].pc = "attach" => dial'[v].line # dial'[w].line
  <2>1. PICK m \in 1..MaxLines : m = dial[w].line /\ m = dial'[w].line
    BY <1>3, DialTypes DEF BookingInv
  <2>2. m <= nextLine /\ (Talking(m) => lines[m].key = DialKey(w))
    BY <1>1, <1>3, <2>1 DEF LinesOK
  <2>3. /\ \A k \in CallKeys : calls'[k].line # dial'[w].line
        /\ \A v \in Workers \ {w} :
             dial'[v].pc = "attach" => dial'[v].line # dial'[w].line
    BY <1>1, <1>3 DEF LinesOK
  <2>4. QED
    BY <1>3, <2>1, <2>2, <2>3 DEF Talking
<1>4. ASSUME NEW l \in 1..MaxLines
      PROVE  /\ Talking(l)' => l <= nextLine' /\ lines'[l].key \in CallKeys
             /\ TaskOK(l)'
  <2>1. Talking(l) => l <= nextLine /\ lines[l].key \in CallKeys
    BY <1>1 DEF LinesOK
  <2>2. TaskOK(l)'
    <3>1. CASE lines'[l] = lines[l]
      <4>1. TaskOK(l)
        BY <1>1 DEF LinesOK, TaskOK
      <4>2. Handler(l).pc # "idle" => lines[l].key \in CallKeys
        BY <2>1, <4>1 DEF TaskOK
      <4>3. QED
        BY <3>1, <4>1, <4>2 DEF TaskOK, Handler, Talking
    <3>2. QED
      BY <3>1
  <2>3. QED
    BY <2>1, <2>2
<1>5. QED
  BY <1>2, <1>3, <1>4 DEF LinesOK, TaskOK, Talking

(* A step that does nothing on the lines.                                  *)
LEMMA LinesUntouched ==
  ASSUME BookingInv, UNCHANGED <<lines, nextLine>>,
         \A k \in CallKeys : calls'[k].line = calls[k].line,
         \A v \in Workers : dial'[v].pc = "attach" => dial'[v] = dial[v]
  PROVE  LinesOK'
<1>1. \A v \in Workers : dial'[v].pc = "attach" =>
        /\ dial[v].pc = "attach" /\ dial'[v].line = dial[v].line
        /\ DialKey(v)' = DialKey(v)
  BY DEF DialKey, IdempotencyKey
<1>2. \A l \in 1..MaxLines : Talking(l)' =>
        Talking(l) /\ lines'[l].key = lines[l].key
  BY DEF Talking
<1>3. QED
  BY <1>1, <1>2, LinesKept

LEMMA OriginateLinesOK ==
  ASSUME BookingInv, NEW w \in Workers, Dialer(w), Originate(w)
  PROVE  LinesOK'
<1>0. /\ LinesOK /\ nextLine \in 0..MaxLines /\ MaxLines \in Nat
      /\ dial[w] \in Dials
  BY Types, ProviderAssumption DEF BookingInv
<1>1. \A v \in Workers \ {w} : dial'[v] = dial[v] /\ DialKey(v)' = DialKey(v)
  BY OtherDials
<1>2. dial[w].pc = "originate" /\ UNCHANGED <<agents, borrowers, calls>>
  BY OriginateDoes
<1>3. CASE /\ UNCHANGED <<lines, nextLine>>
           /\ dial'[w] = [dial[w] EXCEPT !.pc = "failCall"]
  <2>1. dial'[w].pc = "failCall"
    BY <1>0, <1>3 DEF Dials
  <2>2. QED
    BY <1>1, <1>2, <1>3, <2>1, LinesUntouched
<1>4. ASSUME NEW n \in 1..MaxLines, n = nextLine + 1, nextLine' = n,
             \A l \in (1..MaxLines) \ {n} : lines'[l] = lines[l],
             lines'[n].key = DialKey(w), lines'[n].handler = IdleHandler,
             lines'[n].final # "ACTIVE",
             dial'[w] = [dial[w] EXCEPT !.pc = "attach", !.line = n]
      PROVE  LinesOK'
  <2>1. dial'[w].line = n /\ SameDial(w)
    BY <1>0, <1>4 DEF Dials, SameDial, DialKey, IdempotencyKey
  <2>2. ASSUME NEW k \in CallKeys, calls[k].line # None
        PROVE  /\ calls[k].line \in (1..MaxLines) \ {n}
               /\ calls[k].line <= n
               /\ Talking(calls[k].line) => lines[calls[k].line].key = k
    <3>1. calls[k].line \in 1..MaxLines /\ calls[k].line <= nextLine
      BY <1>0, <2>2, LineTypes DEF LinesOK
    <3>2. QED
      BY <1>0, <1>4, <2>2, <3>1 DEF LinesOK
  <2>3. ASSUME NEW v \in Workers, v # w, dial[v].pc = "attach"
        PROVE  /\ dial[v].line \in (1..MaxLines) \ {n}
               /\ dial[v].line <= n
    <3>1. dial[v].line \in 1..MaxLines /\ dial[v].line <= nextLine
      BY <1>0, <2>3, DialTypes DEF BookingInv, LinesOK
    <3>2. QED
      BY <1>0, <1>4, <3>1
  <2>4. ASSUME NEW k \in CallKeys, calls'[k].line # None
        PROVE  /\ calls'[k].line <= nextLine'
               /\ lines'[calls'[k].line].status = "ACTIVE" =>
                    lines'[calls'[k].line].key = k
    BY <1>2, <1>4, <2>2, <2>4 DEF Talking
  <2>5. ASSUME NEW u \in Workers, dial'[u].pc = "attach"
        PROVE  /\ dial'[u].line <= nextLine'
               /\ lines'[dial'[u].line].status = "ACTIVE" =>
                    lines'[dial'[u].line].key = DialKey(u)'
               /\ \A k \in CallKeys : calls'[k].line # dial'[u].line
               /\ \A v \in Workers \ {u} :
                    dial'[v].pc = "attach" => dial'[v].line # dial'[u].line
    <3>1. CASE u = w
      <4>1. \A k \in CallKeys : calls[k].line # n
        <5>1. None # n
          BY StoreAssumption
        <5>2. QED
          BY <2>2, <5>1
      <4>2. \A v \in Workers \ {w} :
              dial'[v].pc = "attach" => dial'[v].line # n
        BY <1>1, <2>3
      <4>3. n <= nextLine'
        BY <1>0, <1>4
      <4>4. DialKey(w)' = lines'[n].key
        BY <1>4, <2>1 DEF SameDial
      <4>5. QED
        BY <1>2, <2>1, <3>1, <4>1, <4>2, <4>3, <4>4
    <3>2. CASE u # w
      <4>1. dial'[u] = dial[u] /\ DialKey(u)' = DialKey(u)
            /\ dial[u].pc = "attach"
        BY <1>1, <2>5, <3>2
      <4>2. \A v \in Workers \ {u} :
              dial'[v].pc = "attach" => dial'[v].line # dial'[u].line
        BY <1>0, <1>1, <2>1, <2>3, <3>2, <4>1 DEF LinesOK
      <4>3. QED
        BY <1>0, <1>2, <1>4, <2>3, <3>2, <4>1, <4>2 DEF LinesOK, Talking
    <3>3. QED
      BY <3>1, <3>2
  <2>6. ASSUME NEW l \in 1..MaxLines
        PROVE  /\ Talking(l)' => l <= nextLine' /\ lines'[l].key \in CallKeys
               /\ TaskOK(l)'
    <3>1. CASE l = n
      <4>1. DialKey(w) \in CallKeys
        BY <1>2, DialTypes DEF BookingInv
      <4>2. QED
        BY <1>4, <3>1, <4>1 DEF TaskOK, Handler, IdleHandler
    <3>2. CASE l # n
      <4>1. /\ Talking(l) => l <= nextLine /\ lines[l].key \in CallKeys
            /\ TaskOK(l)
        BY <1>0 DEF LinesOK, TaskOK
      <4>2. lines'[l] = lines[l]
        BY <1>4, <3>2
      <4>3. l <= nextLine => l <= nextLine'
        BY <1>0, <1>4
      <4>4. QED
        BY <1>2, <4>1, <4>2, <4>3 DEF TaskOK, Handler, Talking
    <3>3. QED
      BY <3>1, <3>2
  <2>7. QED
    BY <2>4, <2>5, <2>6 DEF LinesOK, TaskOK, Talking
<1>5. QED
  BY <1>3, <1>4, OriginateDoes

LEMMA AttachLinesOK ==
  ASSUME BookingInv, NEW w \in Workers, Dialer(w), Attach(w)
  PROVE  LinesOK'
<1>0. LinesOK /\ dial[w].pc = "attach" /\ dial'[w].pc = "idle"
      /\ UNCHANGED <<agents, borrowers, lines, nextLine>>
  BY AttachDoes DEF BookingInv
<1> DEFINE key == DialKey(w)
           n == dial[w].line
<1>1. /\ key \in CallKeys /\ n \in 1..MaxLines
      /\ \A k \in CallKeys \ {key} : calls'[k] = calls[k]
      /\ calls'[key] = [calls[key] EXCEPT !.line = n, !.idle = StaleAfter]
  BY AttachDoes
<1>2. calls'[key].line = n
  BY <1>1, Types DEF BookingInv, CallDocuments
<1>3. \A v \in Workers : dial'[v].pc = "attach" =>
        /\ v # w /\ dial[v].pc = "attach" /\ dial'[v].line = dial[v].line
        /\ DialKey(v)' = DialKey(v)
  BY <1>0, OtherDials
<1>4. /\ n <= nextLine /\ (Talking(n) => lines[n].key = key)
      /\ \A v \in Workers \ {w} : dial[v].pc = "attach" => dial[v].line # n
  BY <1>0, <1>1 DEF LinesOK
<1> HIDE DEF key, n
<1>5. \A l \in 1..MaxLines : Talking(l)' = Talking(l)
  BY <1>0 DEF Talking
<1>6. ASSUME NEW k \in CallKeys, calls'[k].line # None
      PROVE  /\ calls'[k].line <= nextLine'
             /\ lines'[calls'[k].line].status = "ACTIVE" =>
                  lines'[calls'[k].line].key = k
  <2>1. CASE k = key
    BY <1>0, <1>2, <1>4, <2>1 DEF Talking
  <2>2. CASE k # key
    BY <1>0, <1>1, <1>6, <2>2 DEF LinesOK, Talking
  <2>3. QED
    BY <2>1, <2>2
<1>7. ASSUME NEW u \in Workers, dial'[u].pc = "attach"
      PROVE  /\ dial'[u].line <= nextLine'
             /\ lines'[dial'[u].line].status = "ACTIVE" =>
                  lines'[dial'[u].line].key = DialKey(u)'
             /\ \A k \in CallKeys : calls'[k].line # dial'[u].line
             /\ \A v \in Workers \ {u} :
                  dial'[v].pc = "attach" => dial'[v].line # dial'[u].line
  <2>1. /\ u # w /\ dial[u].pc = "attach" /\ dial'[u].line = dial[u].line
        /\ DialKey(u)' = DialKey(u) /\ dial[u].line # n
    BY <1>3, <1>4, <1>7
  <2>2. ASSUME NEW k \in CallKeys
        PROVE  calls'[k].line # dial[u].line
    <3>1. CASE k = key
      BY <1>2, <2>1, <3>1
    <3>2. CASE k # key
      <4>1. calls'[k] = calls[k]
        BY <1>1, <3>2
      <4>2. QED
        BY <1>0, <2>1, <4>1 DEF LinesOK
    <3>3. QED
      BY <3>1, <3>2
  <2>3. QED
    BY <1>0, <1>3, <2>1, <2>2 DEF LinesOK, Talking
<1>8. ASSUME NEW l \in 1..MaxLines
      PROVE  /\ Talking(l)' => l <= nextLine' /\ lines'[l].key \in CallKeys
             /\ TaskOK(l)'
  <2>1. /\ Talking(l) => l <= nextLine /\ lines[l].key \in CallKeys
        /\ TaskOK(l)
    BY <1>0 DEF LinesOK, TaskOK
  <2>2. \A k \in CallKeys : calls[k].line # None => calls'[k].line # None
    <3>1. None # n
      BY <1>1, StoreAssumption, ProviderAssumption
    <3>2. QED
      BY <1>1, <1>2, <3>1
  <2>3. QED
    BY <1>0, <2>1, <2>2 DEF TaskOK, Handler, Talking
<1>9. QED
  BY <1>6, <1>7, <1>8 DEF LinesOK, TaskOK, Talking

LEMMA DialLinesOK ==
  ASSUME BookingInv, NEW w \in Workers, Dialer(w)
  PROVE  LinesOK'
<1>1. \A v \in Workers \ {w} : dial'[v] = dial[v]
  BY OtherDials
<1>2. ASSUME dial'[w].pc # "attach", UNCHANGED <<lines, nextLine>>,
             \A k \in CallKeys : calls'[k].line = calls[k].line
      PROVE  LinesOK'
  BY <1>1, <1>2, LinesUntouched
<1>3. dial[w] \in Dials
  BY DialTypes DEF BookingInv
<1>4. CASE Originate(w)
  BY <1>4, OriginateLinesOK
<1>5. CASE Attach(w)
  BY <1>5, AttachLinesOK
<1>6. CASE ClaimAgent(w) \/ ClaimBorrower(w) \/ GiveAgentBack(w)
           \/ FreeBorrower(w)
  BY <1>2, <1>6, ClaimAgentDoes, ClaimBorrowerDoes, GiveAgentBackDoes,
     FreeBorrowerDoes
<1>7. CASE Create(w)
  <2>1. dial'[w].pc # "attach"
    <3>1. \/ dial'[w] = [dial[w] EXCEPT !.pc = "reserve"]
          \/ dial'[w] = [dial[w] EXCEPT !.pc = "freeAgent",
                                        !.outcome = "RELEASED"]
      BY <1>7, CreateDoes
    <3>2. QED
      BY <1>3, <3>1 DEF Dials
  <2>2. \A k \in CallKeys : calls'[k].line = calls[k].line
    BY <1>7, CreateDoes
  <2>3. UNCHANGED <<lines, nextLine>>
    BY <1>7, CreateDoes
  <2>4. QED
    BY <1>2, <2>1, <2>2, <2>3
<1>8. CASE Reserve(w) \/ Initiate(w) \/ FailCall(w)
  <2>1. /\ \/ dial'[w] = [dial[w] EXCEPT !.pc = "initiate"]
           \/ dial'[w] = [dial[w] EXCEPT !.pc = "markDialing"]
           \/ dial'[w] = [dial[w] EXCEPT !.pc = "freeAgent",
                                         !.outcome = "RETRY"]
        /\ \A k \in CallKeys : calls'[k].line = calls[k].line
        /\ UNCHANGED <<lines, nextLine>>
    BY <1>8, DialTransitionDoes
  <2>2. dial'[w].pc # "attach"
    BY <1>3, <2>1 DEF Dials
  <2>3. QED
    BY <1>2, <2>1, <2>2
<1>9. CASE MarkDialing(w) \/ Bind(w) \/ FreeAgent(w)
  <2>1. /\ \/ dial'[w] = [dial[w] EXCEPT !.pc = "bind"]
           \/ dial'[w] = [dial[w] EXCEPT !.pc = "originate"]
           \/ dial'[w] = [dial[w] EXCEPT !.pc = "freeBorrower"]
        /\ UNCHANGED <<calls, lines, nextLine>>
    BY <1>9, MarkDialingDoes, BindDoes, FreeAgentDoes
  <2>2. dial'[w].pc # "attach"
    BY <1>3, <2>1 DEF Dials
  <2>3. QED
    BY <1>2, <2>1, <2>2
<1>10. QED
  BY <1>4, <1>5, <1>6, <1>7, <1>8, <1>9 DEF Dialer, DialStep

LEMMA HandlerLinesOK ==
  ASSUME BookingInv, NEW l \in 1..MaxLines, NEW handler,
         HandlerMoves(l, handler), UNCHANGED dial,
         \A k \in CallKeys : calls'[k].line = calls[k].line,
         \/ handler = IdleHandler
         \/ /\ Talking(l) /\ handler.call = lines[l].key
            /\ calls[lines[l].key].line # None
            /\ handler.pc = "freeBorrower" => IsTerminal(handler.target)
  PROVE  LinesOK'
<1>1. LinesOK
  BY DEF BookingInv
<1>2. \A v \in Workers : dial'[v].pc = "attach" =>
        /\ dial[v].pc = "attach" /\ dial'[v].line = dial[v].line
        /\ DialKey(v)' = DialKey(v)
  BY DEF DialKey, IdempotencyKey
<1>3. \A m \in 1..MaxLines : Talking(m)' =>
        Talking(m) /\ lines'[m].key = lines[m].key
  BY HandlerKeepsLines
<1>4. TaskOK(l)'
  <2>1. /\ lines'[l].key = lines[l].key /\ lines'[l].status = lines[l].status
        /\ lines'[l].final = lines[l].final /\ lines'[l].handler = handler
        /\ lines[l].final # "ACTIVE"
    BY <1>1 DEF HandlerMoves, LinesOK
  <2>2. Talking(l) => lines[l].key \in CallKeys
    BY <1>1 DEF LinesOK
  <2>3. QED
    BY <2>1, <2>2 DEF TaskOK, Handler, Talking, IdleHandler
<1>5. nextLine' = nextLine /\ \A m \in (1..MaxLines) \ {l} : lines'[m] = lines[m]
  BY DEF HandlerMoves
<1>6. \A m \in 1..MaxLines : lines'[m] = lines[m] \/ TaskOK(m)'
  BY <1>4, <1>5
<1>7. QED
  BY <1>2, <1>3, <1>5, <1>6, LinesKept

LEMMA ProcessorLinesOK ==
  ASSUME BookingInv, NEW l \in 1..MaxLines, Processor(l)
  PROVE  LinesOK'
<1>1. UNCHANGED dial /\ LinesOK
  BY OtherTasks DEF BookingInv
<1>2. ASSUME Handler(l).pc # "idle"
      PROVE  /\ Talking(l) /\ Handler(l).call = lines[l].key
             /\ calls[lines[l].key].line # None
             /\ Handler(l) \in Handlers
  BY <1>1, <1>2, HandlerTypes DEF LinesOK, BookingInv
<1>3. ASSUME Handler(l).pc # "idle", HandlerMoves(l, AfterAgent(l)),
             \A k \in CallKeys : calls'[k].line = calls[k].line
      PROVE  LinesOK'
  <2>1. CASE IsTerminal(Handler(l).target)
    <3>1. AfterAgent(l) = [Handler(l) EXCEPT !.pc = "freeBorrower"]
      BY <1>3, <2>1, AfterAgentDoes
    <3>2. /\ AfterAgent(l).call = Handler(l).call
          /\ AfterAgent(l).target = Handler(l).target
      BY <1>2, <1>3, <3>1 DEF Handlers
    <3>3. QED
      BY <1>1, <1>2, <1>3, <2>1, <3>2, HandlerLinesOK
  <2>2. CASE ~IsTerminal(Handler(l).target)
    BY <1>1, <1>3, <2>2, AfterAgentDoes, HandlerLinesOK
  <2>3. QED
    BY <2>1, <2>2
<1>4. CASE ReceiveEvent(l)
  <2>1. UNCHANGED calls /\ Talking(l)
    BY <1>4, ReceiveEventDoes DEF storeVars
  <2>2. CASE HandlerMoves(l, IdleHandler)
    BY <1>1, <2>1, <2>2, HandlerLinesOK
  <2>3. ASSUME NEW k \in CallKeys, NEW handler, calls[k].line = l,
               handler.pc = "applyCall", handler.call = k,
               HandlerMoves(l, handler)
        PROVE  LinesOK'
    <3>1. None # l
      BY StoreAssumption
    <3>2. lines[l].key = k
      BY <1>1, <2>1, <2>3, <3>1 DEF LinesOK
    <3>3. QED
      BY <1>1, <2>1, <2>3, <3>1, <3>2, HandlerLinesOK
  <2>4. QED
    BY <1>4, <2>2, <2>3, ReceiveEventDoes
<1>5. CASE ApplyCall(l)
  <2>1. /\ Handler(l).pc = "applyCall"
        /\ \A k \in CallKeys : calls'[k].line = calls[k].line
        /\ \/ HandlerMoves(l, IdleHandler)
           \/ HandlerMoves(l, [Handler(l) EXCEPT !.pc = "readAgent"])
    BY <1>5, ApplyCallDoes
  <2>2. CASE HandlerMoves(l, IdleHandler)
    BY <1>1, <2>1, <2>2, HandlerLinesOK
  <2>3. ASSUME NEW handler, handler = [Handler(l) EXCEPT !.pc = "readAgent"],
               HandlerMoves(l, handler)
        PROVE  LinesOK'
    <3>1. handler.pc = "readAgent" /\ handler.call = Handler(l).call
      BY <1>2, <2>1, <2>3 DEF Handlers
    <3>2. QED
      BY <1>1, <1>2, <2>1, <2>3, <3>1, HandlerLinesOK
  <2>4. QED
    BY <2>1, <2>2, <2>3
<1>6. CASE ReadAgent(l)
  <2>1. Handler(l).pc = "readAgent" /\ UNCHANGED calls
    BY <1>6, ReadAgentDoes DEF storeVars
  <2>2. CASE HandlerMoves(l, AfterAgent(l))
    BY <1>3, <2>1, <2>2
  <2>3. ASSUME NEW handler, handler.pc = "moveAgent",
               handler.call = Handler(l).call, HandlerMoves(l, handler)
        PROVE  LinesOK'
    BY <1>1, <1>2, <2>1, <2>3, HandlerLinesOK
  <2>4. QED
    BY <1>6, <2>2, <2>3, ReadAgentDoes
<1>7. CASE MoveAgent(l)
  <2>1. /\ Handler(l).pc = "moveAgent" /\ UNCHANGED calls
        /\ HandlerMoves(l, AfterAgent(l))
    BY <1>7, MoveAgentDoes
  <2>2. QED
    BY <1>3, <2>1
<1>8. CASE SettleBorrower(l)
  <2>1. UNCHANGED calls /\ HandlerMoves(l, IdleHandler)
    BY <1>8, SettleBorrowerDoes
  <2>2. QED
    BY <1>1, <2>1, HandlerLinesOK
<1>9. CASE Finish(l)
  <2>1. /\ \A m \in (1..MaxLines) \ {l} : lines'[m] = lines[m]
        /\ lines'[l].handler = IdleHandler
        /\ lines'[l].status # "ACTIVE" /\ lines'[l].final # "ACTIVE"
        /\ nextLine' = nextLine /\ UNCHANGED calls
    BY <1>9, FinishDoes DEF storeVars
  <2>2. TaskOK(l)'
    BY <2>1 DEF TaskOK, Handler, IdleHandler
  <2>3. \A m \in 1..MaxLines : Talking(m)' =>
          Talking(m) /\ lines'[m].key = lines[m].key
    BY <2>1 DEF Talking
  <2>4. \A v \in Workers : dial'[v].pc = "attach" =>
          /\ dial[v].pc = "attach" /\ dial'[v].line = dial[v].line
          /\ DialKey(v)' = DialKey(v)
    BY <1>1 DEF DialKey, IdempotencyKey
  <2>5. \A m \in 1..MaxLines : lines'[m] = lines[m] \/ TaskOK(m)'
    BY <2>1, <2>2
  <2>6. QED
    BY <2>1, <2>3, <2>4, <2>5, LinesKept
<1>10. QED
  BY <1>4, <1>5, <1>6, <1>7, <1>8, <1>9 DEF Processor, EventStep

LEMMA RecoveryLinesOK ==
  ASSUME BookingInv, Recovery
  PROVE  LinesOK'
<1>1. UNCHANGED <<dial, lines, nextLine>>
      /\ \A k \in CallKeys : calls'[k].line = calls[k].line
  BY RecoveryDoes, NextSweepDoes, CancelBoundCallDoes, SweepBorrowerDoes,
     ReleaseStuckWrapUpDoes, FreeBoundBorrowerDoes, ReclaimAgentDoes
<1>2. QED
  BY <1>1, LinesUntouched

LEMMA OthersLinesOK ==
  ASSUME WellBehaved, BookingInv,
         \/ \E a \in Agents : Session(a) \/ WrapUpEnds(a)
         \/ \E b \in Borrowers : Backoff(b)
         \/ Tick \/ UNCHANGED vars
  PROVE  LinesOK'
<1>1. UNCHANGED <<dial, lines, nextLine>>
      /\ \A k \in CallKeys : calls'[k].line = calls[k].line
  BY AgentActionDoes, BackoffDoes, TickDoes
  DEF vars, storeVars, providerVars, allocatorVars
<1>2. QED
  BY <1>1, LinesUntouched

-----------------------------------------------------------------------------
(* What the sweep found stays as it found it.                              *)

ExpiredAside(a) ==
  \/ agents'[a] = agents[a]
  \/ a \notin ExpiredAgentLeases /\ a \notin ExpiredAgentLeases'

LEMMA NotExpired ==
  ASSUME NEW a \in Agents
  PROVE  /\ agents'[a].lease # 0 => a \notin ExpiredAgentLeases'
         /\ agents'[a].reservedBy = None => a \notin ExpiredAgentLeases'
BY DEF ExpiredAgentLeases

LEMMA ExpiredKept ==
  ASSUME \A a \in Agents : ExpiredAside(a)
  PROVE  /\ ExpiredAgentLeases' = ExpiredAgentLeases
         /\ \A a \in ExpiredAgentLeases : Snapshot(a)' = Snapshot(a)
<1>1. \A a \in Agents :
        a \in ExpiredAgentLeases' <=> a \in ExpiredAgentLeases
  BY DEF ExpiredAside, ExpiredAgentLeases
<1>2. ExpiredAgentLeases \subseteq Agents /\ ExpiredAgentLeases' \subseteq Agents
  BY DEF ExpiredAgentLeases
<1>3. \A a \in ExpiredAgentLeases : agents'[a] = agents[a]
  BY <1>2 DEF ExpiredAside
<1>4. QED
  BY <1>1, <1>2, <1>3 DEF Snapshot

(* A step that is not the sweep's.                                         *)
LEMMA SweepKept ==
  ASSUME BookingInv, [Next]_vars, UNCHANGED sweep,
         \A a \in Agents : ExpiredAside(a),
         \A k \in FindActive' : k \in FindActive \/ k.agent \notin ExpiredAgentLeases
  PROVE  SweepBooked'
<1>1. SweepBooked /\ CallsInv
  BY DEF BookingInv
<1>2. /\ ExpiredAgentLeases' = ExpiredAgentLeases
      /\ \A a \in ExpiredAgentLeases : Snapshot(a)' = Snapshot(a)
  BY ExpiredKept
<1>3. sweep'.stage = "agentLeases" =>
        /\ \A i \in sweep'.todo :
             i.agent \in ExpiredAgentLeases' /\ i = Snapshot(i.agent)'
        /\ \A a \in ExpiredAgentLeases' : Snapshot(a)' \in sweep'.todo
  <2>1. sweep.stage = "agentLeases" =>
          /\ \A i \in sweep.todo :
               i.agent \in ExpiredAgentLeases /\ i = Snapshot(i.agent)
          /\ \A a \in ExpiredAgentLeases : Snapshot(a) \in sweep.todo
    BY <1>1 DEF SweepBooked
  <2>2. QED
    BY <1>2, <2>1
<1>4. ASSUME sweep'.step # "next"
      PROVE  /\ sweep'.stage = "agentLeases"
             /\ \A k \in FindActive' : k.agent # sweep'.item.agent
  <2>1. /\ sweep.stage = "agentLeases" /\ sweep.item \in sweep.todo
        /\ \A k \in FindActive : k.agent # sweep.item.agent
    BY <1>1, <1>4, ItemTypes DEF SweepBooked
  <2>2. sweep.item.agent \in ExpiredAgentLeases
    BY <1>1, <2>1 DEF SweepBooked
  <2>3. QED
    BY <2>1, <2>2
<1>5. ASSUME sweep'.step = "freeBorrower"
      PROVE  IsTerminal(calls'[sweep'.item.call].state)
  <2>1. sweep.item.call \in CallKeys /\ IsTerminal(calls[sweep.item.call].state)
    BY <1>1, <1>5, ItemTypes DEF SweepBooked
  <2>2. QED
    BY <1>1, <2>1, CallsKept
<1>6. QED
  BY <1>1, <1>2, <1>3, <1>4, <1>5 DEF SweepBooked, IsTerminal

LEMMA DialExpiredAside ==
  ASSUME BookingInv, NEW w \in Workers, Dialer(w), NEW a \in Agents
  PROVE  ExpiredAside(a)
<1>1. CASE ClaimAgent(w)
  <2>1. PICK x \in Agents :
          /\ agents[x].state = "AVAILABLE" /\ agents'[x].lease = TTL
          /\ \A y \in Agents \ {x} : agents'[y] = agents[y]
    BY <1>1, ClaimAgentDoes
  <2>2. x \notin ExpiredAgentLeases
    BY <2>1, ExpiredAgents DEF HasCall
  <2>3. x \notin ExpiredAgentLeases'
    BY <2>1, NotExpired, StoreAssumption
  <2>4. QED
    BY <2>1, <2>2, <2>3 DEF ExpiredAside
<1>2. ASSUME SettingUp(w), \A y \in Agents \ {dial[w].agent} : agents'[y] = agents[y],
             \/ agents'[dial[w].agent] = agents[dial[w].agent]
             \/ agents'[dial[w].agent].lease # 0
      PROVE  ExpiredAside(a)
  <2>1. dial[w].agent \notin ExpiredAgentLeases
    BY <1>2, ExpiredAgents
  <2>2. QED
    BY <1>2, <2>1, NotExpired DEF ExpiredAside
<1>3. CASE GiveAgentBack(w) \/ FreeAgent(w)
  <2>1. /\ SettingUp(w)
        /\ \A y \in Agents \ {dial[w].agent} : agents'[y] = agents[y]
        /\ \/ agents'[dial[w].agent] = agents[dial[w].agent]
           \/ Freed(dial[w].agent)
    BY <1>3, GiveAgentBackDoes, FreeAgentDoes DEF SettingUp
  <2>2. QED
    BY <1>2, <2>1, StoreAssumption DEF Freed
<1>4. CASE MarkDialing(w) \/ Bind(w)
  <2>1. /\ SettingUp(w) /\ agents[dial[w].agent].lease # 0
        /\ dial[w].agent \in Agents
    BY <1>4, MarkDialingDoes, BindDoes, DialTypes
    DEF SettingUp, BookingInv, LeasesOK
  <2>2. agents[dial[w].agent] \in AgentDocuments
    BY <2>1, Types DEF BookingInv
  <2>3. \A y \in Agents \ {dial[w].agent} : agents'[y] = agents[y]
    BY <1>4, MarkDialingDoes, BindDoes
  <2>4. \/ agents'[dial[w].agent] =
             [agents[dial[w].agent] EXCEPT !.state = "DIALING",
                                           !.version = @ + 1]
        \/ agents'[dial[w].agent] =
             [agents[dial[w].agent] EXCEPT !.call = DialKey(w)]
    BY <1>4, MarkDialingDoes, BindDoes
  <2>5. agents'[dial[w].agent].lease = agents[dial[w].agent].lease
    BY <2>2, <2>4 DEF AgentDocuments
  <2>6. QED
    BY <1>2, <2>1, <2>3, <2>5
<1>5. CASE \/ ClaimBorrower(w) \/ Create(w) \/ Reserve(w) \/ Initiate(w)
           \/ Originate(w) \/ Attach(w) \/ FailCall(w) \/ FreeBorrower(w)
  BY <1>5
  DEF ExpiredAside, ClaimBorrower, Create, Reserve, Initiate, Originate, Attach,
      FailCall, FreeBorrower, storeVars
<1>6. QED
  BY <1>1, <1>3, <1>4, <1>5 DEF Dialer, DialStep

LEMMA DialSweepBooked ==
  ASSUME BookingInv, [Next]_vars, NEW w \in Workers, Dialer(w)
  PROVE  SweepBooked'
<1>1. ASSUME NEW k \in FindActive'
      PROVE  k \in FindActive \/ k.agent \notin ExpiredAgentLeases
  <2>1. CASE ~Reserve(w)
    BY <1>1, <2>1, DialActive
  <2>2. CASE Reserve(w)
    <3>1. /\ SettingUp(w) /\ DialKey(w).agent = dial[w].agent
          /\ \A j \in CallKeys \ {DialKey(w)} : calls'[j] = calls[j]
      BY <2>2, DialTransitionDoes, DialTypes DEF SettingUp, BookingInv
    <3>2. k = DialKey(w) \/ k \in FindActive
      BY <1>1, <3>1 DEF FindActive
    <3>3. QED
      BY <3>1, <3>2, ExpiredAgents
  <2>3. QED
    BY <2>1, <2>2
<1>2. QED
  BY <1>1, OtherDials, DialExpiredAside, SweepKept

LEMMA ProcessorSweepBooked ==
  ASSUME BookingInv, [Next]_vars, NEW l \in 1..MaxLines, Processor(l)
  PROVE  SweepBooked'
<1>1. CASE MoveAgent(l)
  <2>1. /\ Handler(l).pc = "moveAgent" /\ HandlerAgent(l) \in Agents
        /\ \A x \in Agents \ {HandlerAgent(l)} : agents'[x] = agents[x]
        /\ \/ agents'[HandlerAgent(l)] = agents[HandlerAgent(l)]
           \/ Freed(HandlerAgent(l)) \/ Answers(HandlerAgent(l))
        /\ UNCHANGED calls
    BY <1>1, MoveAgentDoes
  <2>2. HandlerAgent(l) \notin ExpiredAgentLeases
    BY <2>1, ExpiredAgents
  <2>3. agents[HandlerAgent(l)].lease # 0
    BY <2>1 DEF BookingInv, LeasesOK, LinesOK, HandlerAgent
  <2>4. Answers(HandlerAgent(l)) => agents'[HandlerAgent(l)].lease # 0
    <3>1. agents[HandlerAgent(l)] \in AgentDocuments
      BY <2>1, Types DEF BookingInv
    <3>2. QED
      BY <2>3, <3>1 DEF Answers, AgentDocuments
  <2>5. \A a \in Agents : ExpiredAside(a)
    BY <2>1, <2>2, <2>4, NotExpired DEF ExpiredAside, Freed
  <2>6. QED
    BY <2>1, <2>5, ActiveAside, OtherTasks, SweepKept
<1>2. CASE ApplyCall(l)
  <2>1. FindActive' \subseteq FindActive
    <3>1. \/ UNCHANGED calls
          \/ /\ Handler(l).call \in FindActive
             /\ \A k \in CallKeys \ {Handler(l).call} : calls'[k] = calls[k]
      BY <1>2, ApplyCallDoes
    <3>2. QED
      BY <3>1 DEF FindActive
  <2>2. \A a \in Agents : ExpiredAside(a)
    BY <1>2 DEF ApplyCall, ExpiredAside
  <2>3. QED
    BY <2>1, <2>2, OtherTasks, SweepKept
<1>3. CASE ReceiveEvent(l) \/ ReadAgent(l) \/ SettleBorrower(l) \/ Finish(l)
  <2>1. UNCHANGED <<agents, calls>>
    BY <1>3 DEF ReceiveEvent, ReadAgent, SettleBorrower, Finish, storeVars
  <2>2. QED
    BY <2>1, ActiveAside, OtherTasks, SweepKept DEF ExpiredAside
<1>4. QED
  BY <1>1, <1>2, <1>3 DEF Processor, EventStep

LEMMA AwayExpiredAside ==
  ASSUME BookingInv, NEW a \in Agents, StaysAway(a)
  PROVE  ExpiredAside(a)
<1>1. agents[a].reservedBy = None
  BY DEF StaysAway, BookingInv, AgentsBooked
<1>2. QED
  BY <1>1, NotExpired DEF StaysAway, ExpiredAside, ExpiredAgentLeases

LEMMA OthersSweepBooked ==
  ASSUME WellBehaved, BookingInv, [Next]_vars,
         \/ \E a \in Agents : Session(a) \/ WrapUpEnds(a)
         \/ \E b \in Borrowers : Backoff(b)
         \/ Tick \/ UNCHANGED vars
  PROVE  SweepBooked'
<1>1. ASSUME NEW a \in Agents, Session(a) \/ WrapUpEnds(a)
      PROVE  SweepBooked'
  BY <1>1, AgentActionDoes, AwayExpiredAside, ActiveAside, SweepKept
  DEF ExpiredAside
<1>2. ASSUME NEW b \in Borrowers, Backoff(b)
      PROVE  SweepBooked'
  BY <1>2, BackoffDoes, ActiveAside, SweepKept DEF ExpiredAside
<1>3. CASE Tick
  BY <1>3, TickDoes DEF SweepBooked, Asleep
<1>4. CASE UNCHANGED vars
  <2>1. UNCHANGED <<agents, calls, sweep>>
    BY <1>4 DEF vars, storeVars
  <2>2. QED
    BY <2>1, ActiveAside, SweepKept DEF ExpiredAside
<1>5. QED
  BY <1>1, <1>2, <1>3, <1>4

LEMMA RecoverySweepBooked ==
  ASSUME BookingInv, [Next]_vars, Recovery
  PROVE  SweepBooked'
<1>0. SweepBooked /\ CallsInv
  BY DEF BookingInv
<1>1. CASE NextSweep
  <2>1. /\ UNCHANGED agents /\ sweep'.step = "next"
        /\ sweep'.stage \in {"asleep", "agentLeases", "borrowerLeases", "wrapUps"}
        /\ sweep'.stage = "agentLeases" =>
             sweep'.todo = {Snapshot(a) : a \in ExpiredAgentLeases}
        /\ sweep'.stage \notin {"asleep", "agentLeases"} =>
             ExpiredAgentLeases = {}
    BY <1>1, NextSweepDoes
  <2>2. /\ ExpiredAgentLeases' = ExpiredAgentLeases
        /\ \A a \in ExpiredAgentLeases : Snapshot(a)' = Snapshot(a)
    BY <2>1, ExpiredKept DEF ExpiredAside
  <2>3. sweep'.stage = "agentLeases" =>
          /\ \A i \in sweep'.todo :
               i.agent \in ExpiredAgentLeases' /\ i = Snapshot(i.agent)'
          /\ \A a \in ExpiredAgentLeases' : Snapshot(a)' \in sweep'.todo
    BY <2>1, <2>2 DEF Snapshot
  <2>4. QED
    BY <2>1, <2>2, <2>3 DEF SweepBooked
<1>2. ASSUME NEW item \in sweep.todo, CancelBoundCall(item)
      PROVE  SweepBooked'
  <2> DEFINE a == item.agent
             k == item.call
  <2>1. /\ UNCHANGED agents /\ sweep.stage = "agentLeases"
        /\ sweep'.stage = sweep.stage /\ sweep'.todo = sweep.todo
        /\ sweep'.item = item /\ a \in ExpiredAgentLeases
        /\ item = Snapshot(a)
    BY <1>2, CancelBoundCallDoes
  <2>2. k = agents[a].call
    BY <2>1 DEF Snapshot
  <2>3. \A j \in FindActive : j.agent = a => j = k
    BY <2>1, <2>2, ExpiredAgents
  <2>4. \/ /\ UNCHANGED calls /\ k \notin FindActive /\ sweep'.step = "settle"
        \/ /\ k \in FindActive
           /\ \A j \in CallKeys \ {k} : calls'[j] = calls[j]
           /\ calls'[k].state = "CANCELLED"
           /\ sweep'.step = "freeBorrower"
    BY <1>2, CancelBoundCallDoes
  <2> HIDE DEF a, k
  <2>5. FindActive' = FindActive \ {k} /\ FindActive \subseteq CallKeys
    BY <2>4 DEF FindActive, TerminalCallStates
  <2>6. /\ ExpiredAgentLeases' = ExpiredAgentLeases
        /\ \A x \in ExpiredAgentLeases : Snapshot(x)' = Snapshot(x)
    BY <2>1, ExpiredKept DEF ExpiredAside
  <2>7. /\ \A i \in sweep'.todo :
             i.agent \in ExpiredAgentLeases' /\ i = Snapshot(i.agent)'
        /\ \A x \in ExpiredAgentLeases' : Snapshot(x)' \in sweep'.todo
    <3>1. /\ \A i \in sweep.todo :
               i.agent \in ExpiredAgentLeases /\ i = Snapshot(i.agent)
          /\ \A x \in ExpiredAgentLeases : Snapshot(x) \in sweep.todo
      BY <1>0, <2>1 DEF SweepBooked
    <3>2. QED
      BY <2>1, <2>6, <3>1
  <2>8. /\ sweep'.item.agent = a /\ sweep'.item.call = k
        /\ \A j \in FindActive' : j.agent # a
    BY <2>1, <2>3, <2>5 DEF a, k
  <2>9. sweep'.step = "freeBorrower" => IsTerminal(calls'[k].state)
    BY <2>4 DEF IsTerminal, TerminalCallStates
  <2>10. QED
    BY <2>1, <2>7, <2>8, <2>9 DEF SweepBooked, IsTerminal
<1>3. CASE FreeBoundBorrower
  <2>1. /\ UNCHANGED <<agents, calls>> /\ sweep.step = "freeBorrower"
        /\ sweep' = [sweep EXCEPT !.step = "settle"]
    BY <1>3, FreeBoundBorrowerDoes
  <2>2. /\ sweep'.step = "settle" /\ sweep'.todo = sweep.todo
        /\ sweep'.item = sweep.item /\ sweep'.stage = sweep.stage
    BY <1>0, <2>1, Types
  <2>3. FindActive' = FindActive
    BY <2>1, ActiveAside
  <2>4. /\ ExpiredAgentLeases' = ExpiredAgentLeases
        /\ \A x : Snapshot(x)' = Snapshot(x)
    BY <2>1 DEF ExpiredAgentLeases, Snapshot
  <2>5. QED
    BY <1>0, <2>1, <2>2, <2>3, <2>4 DEF SweepBooked
<1>4. CASE ReclaimAgent
  <2> DEFINE a == sweep.item.agent
  <2>1. /\ sweep.stage = "agentLeases" /\ sweep.item = Snapshot(a)
        /\ a \in ExpiredAgentLeases /\ a \in Agents
        /\ \A x \in Agents \ {a} : agents'[x] = agents[x]
        /\ agents'[a].reservedBy = None
    BY <1>4, ReclaimAgentDoes, ExpiredAgents DEF Freed
  <2>2. sweep' = [sweep EXCEPT !.todo = @ \ {sweep.item}, !.step = "next",
                               !.item = None]
    BY <1>4, ReclaimAgentDoes
  <2>3. /\ sweep'.stage = sweep.stage /\ sweep'.step = "next"
        /\ sweep'.todo = sweep.todo \ {sweep.item}
    BY <1>0, <2>2, Types
  <2> HIDE DEF a
  <2>4. ExpiredAgentLeases' = ExpiredAgentLeases \ {a}
    <3>1. \A x \in Agents :
            x \in ExpiredAgentLeases' <=> x \in ExpiredAgentLeases /\ x # a
      BY <2>1 DEF ExpiredAgentLeases
    <3>2. ExpiredAgentLeases \subseteq Agents /\ ExpiredAgentLeases' \subseteq Agents
      BY DEF ExpiredAgentLeases
    <3>3. QED
      BY <3>1, <3>2
  <2>5. \A x \in ExpiredAgentLeases \ {a} :
          /\ Snapshot(x)' = Snapshot(x)
          /\ Snapshot(x).agent = x
    BY <2>1 DEF Snapshot, ExpiredAgentLeases
  <2>6. /\ \A i \in sweep.todo :
             i.agent \in ExpiredAgentLeases /\ i = Snapshot(i.agent)
        /\ \A x \in ExpiredAgentLeases : Snapshot(x) \in sweep.todo
    BY <1>0, <2>1 DEF SweepBooked
  <2>7. \A i \in sweep'.todo :
          i.agent \in ExpiredAgentLeases' /\ i = Snapshot(i.agent)'
    <3>1. ASSUME NEW i \in sweep'.todo
          PROVE  i.agent \in ExpiredAgentLeases' /\ i = Snapshot(i.agent)'
      <4>1. /\ i \in sweep.todo /\ i # Snapshot(a)
            /\ i.agent \in ExpiredAgentLeases /\ i = Snapshot(i.agent)
        BY <2>1, <2>3, <2>6, <3>1
      <4>2. i.agent # a
        BY <4>1
      <4>3. QED
        BY <2>4, <2>5, <4>1, <4>2
    <3>2. QED
      BY <3>1
  <2>8. \A x \in ExpiredAgentLeases' : Snapshot(x)' \in sweep'.todo
    <3>1. ASSUME NEW x \in ExpiredAgentLeases \ {a}
          PROVE  Snapshot(x) \in sweep.todo /\ Snapshot(x) # Snapshot(a)
      BY <2>6, <3>1 DEF Snapshot
    <3>2. QED
      BY <2>1, <2>3, <2>4, <2>5, <3>1
  <2>9. QED
    BY <2>1, <2>3, <2>7, <2>8 DEF SweepBooked
<1>5. ASSUME NEW item \in sweep.todo, SweepBorrower(item) \/ ReleaseStuckWrapUp(item)
      PROVE  SweepBooked'
  <2>1. /\ sweep.stage \in {"borrowerLeases", "wrapUps"}
        /\ sweep' = [sweep EXCEPT !.todo = @ \ {item}, !.step = "next",
                                  !.item = None]
    BY <1>5, SweepBorrowerDoes, ReleaseStuckWrapUpDoes
  <2>2. sweep'.stage = sweep.stage /\ sweep'.step = "next"
    BY <1>0, <2>1, Types
  <2>3. \A a \in Agents : ExpiredAside(a)
    <3>1. CASE SweepBorrower(item)
      BY <3>1, SweepBorrowerDoes DEF ExpiredAside
    <3>2. CASE ReleaseStuckWrapUp(item)
      BY <3>2, ReleaseStuckWrapUpDoes, AwayExpiredAside DEF ExpiredAside
    <3>3. QED
      BY <1>5, <3>1, <3>2
  <2>4. ExpiredAgentLeases' = {}
    BY <1>0, <2>1, <2>3, ExpiredKept DEF SweepBooked
  <2>5. QED
    BY <2>1, <2>2, <2>4 DEF SweepBooked
<1>6. QED
  BY <1>1, <1>2, <1>3, <1>4, <1>5, RecoveryDoes

-----------------------------------------------------------------------------
(* Every attempt that is counted has its call.                             *)

Counts(b) ==
  /\ borrowers'[b].attempts = borrowers[b].attempts + 1
  /\ \E k \in CallKeys :
       /\ k.borrower = b /\ k.attempt = borrowers[b].attempts + 1
       /\ IsTerminal(calls[k].state)

AttemptsAside(b) ==
  borrowers'[b].attempts = borrowers[b].attempts \/ Counts(b)

LEMMA AttemptsKept ==
  ASSUME BookingInv, [Next]_vars, \A b \in Borrowers : AttemptsAside(b)
  PROVE  AttemptsCounted'
<1> SUFFICES ASSUME NEW b \in Borrowers, NEW n \in 1..borrowers'[b].attempts
             PROVE  \E k \in CallKeys :
                      /\ k.borrower = b /\ k.attempt = n
                      /\ IsTerminal(calls'[k].state)
  BY DEF AttemptsCounted, IsTerminal
<1>1. borrowers[b].attempts \in Nat
  BY Types, StoreAssumption DEF BookingInv, BorrowerDocuments
<1>2. \E k \in CallKeys :
        k.borrower = b /\ k.attempt = n /\ IsTerminal(calls[k].state)
  <2>1. CASE n \in 1..borrowers[b].attempts
    BY <2>1 DEF BookingInv, AttemptsCounted
  <2>2. CASE n \notin 1..borrowers[b].attempts
    <3>1. Counts(b) /\ n = borrowers[b].attempts + 1
      BY <1>1, <2>2 DEF AttemptsAside, Counts
    <3>2. QED
      BY <3>1 DEF Counts
  <2>3. QED
    BY <2>1, <2>2
<1>3. QED
  BY <1>2, CallsKept DEF BookingInv

LEMMA ReturnedAside ==
  ASSUME BookingInv, NEW b \in Borrowers,
         \A x \in Borrowers \ {b} : borrowers'[x] = borrowers[x],
         \/ borrowers'[b] = borrowers[b]
         \/ Returned(b, 0)
         \/ /\ Returned(b, 1)
            /\ \E k \in CallKeys :
                 /\ k.borrower = b /\ k.attempt = borrowers[b].attempts + 1
                 /\ IsTerminal(calls[k].state)
  PROVE  \A x \in Borrowers : AttemptsAside(x)
<1>1. borrowers[b].attempts \in Nat
  BY Types, StoreAssumption DEF BookingInv, BorrowerDocuments
<1>2. QED
  BY <1>1 DEF AttemptsAside, Returned, Counts

LEMMA DialAttemptsCounted ==
  ASSUME BookingInv, [Next]_vars, NEW w \in Workers, Dialer(w)
  PROVE  AttemptsCounted'
<1>1. CASE ClaimBorrower(w)
  BY <1>1, ClaimBorrowerDoes, AttemptsKept DEF AttemptsAside
<1>2. CASE FreeBorrower(w)
  <2>1. /\ dial[w].pc = "freeBorrower"
        /\ \A x \in Borrowers \ {dial[w].borrower} :
             borrowers'[x] = borrowers[x]
        /\ Returned(dial[w].borrower,
                    IF dial[w].outcome = "RELEASED" THEN 0 ELSE 1)
    BY <1>2, FreeBorrowerDoes
  <2>2. /\ dial[w].borrower \in Borrowers /\ DialKey(w) \in CallKeys
        /\ dial[w] \in Dials
        /\ DialKey(w).borrower = dial[w].borrower
        /\ DialKey(w).attempt = dial[w].attempt
    BY <2>1, DialTypes DEF BookingInv
  <2>3. dial[w].attempt = borrowers[dial[w].borrower].attempts + 1
    BY <2>1, DialHolds DEF HoldsBorrowerPcs
  <2>4. dial[w].outcome # "RELEASED" => IsTerminal(calls[DialKey(w)].state)
    BY <2>1, <2>2 DEF BookingInv, SetUpsOK, SetUpOK, Dials, Outcomes
  <2>5. QED
    BY <2>1, <2>2, <2>3, <2>4, ReturnedAside, AttemptsKept
<1>3. CASE \/ ClaimAgent(w) \/ GiveAgentBack(w) \/ Create(w) \/ Reserve(w)
           \/ Initiate(w) \/ MarkDialing(w) \/ Bind(w) \/ Originate(w)
           \/ Attach(w) \/ FailCall(w) \/ FreeAgent(w)
  <2>1. UNCHANGED borrowers
    BY <1>3
    DEF ClaimAgent, GiveAgentBack, Create, Reserve, Initiate, MarkDialing, Bind,
        Originate, Attach, FailCall, FreeAgent, storeVars
  <2>2. QED
    BY <2>1, AttemptsKept DEF AttemptsAside
<1>4. QED
  BY <1>1, <1>2, <1>3 DEF Dialer, DialStep

LEMMA ProcessorAttemptsCounted ==
  ASSUME BookingInv, [Next]_vars, NEW l \in 1..MaxLines, Processor(l)
  PROVE  AttemptsCounted'
<1>1. CASE SettleBorrower(l)
  <2> DEFINE k == Handler(l).call
  <2>1. /\ Handler(l).pc = "freeBorrower" /\ k.borrower \in Borrowers
        /\ \A x \in Borrowers \ {k.borrower} : borrowers'[x] = borrowers[x]
        /\ \/ borrowers'[k.borrower] = borrowers[k.borrower]
           \/ Returned(k.borrower, 1)
    BY <1>1, SettleBorrowerDoes
  <2>2. k \in CallKeys /\ IsTerminal(Handler(l).target)
    BY <2>1, HandlerTypes DEF BookingInv, LinesOK
  <2>3. IsTerminal(calls[k].state)
    BY <2>1, <2>2 DEF BookingInv, CallsInv, EventsOK
  <2>4. k.attempt = borrowers[k.borrower].attempts + 1
    <3>1. LineBorrowerClaim(l) \in BorrowerClaims
      BY <2>1, <2>2, BorrowerClaimKinds DEF Ending
    <3>2. /\ LineBorrowerClaim(l).of = k.borrower
          /\ LineBorrowerClaim(l).attempt = k.attempt
      BY DEF LineBorrowerClaim
    <3>3. QED
      BY <3>1, <3>2 DEF BookingInv, BorrowersBooked
  <2> HIDE DEF k
  <2>5. QED
    BY <2>1, <2>2, <2>3, <2>4, ReturnedAside, AttemptsKept
<1>2. CASE \/ ReceiveEvent(l) \/ ApplyCall(l) \/ ReadAgent(l) \/ MoveAgent(l)
           \/ Finish(l)
  <2>1. UNCHANGED borrowers
    BY <1>2
    DEF ReceiveEvent, ApplyCall, ReadAgent, MoveAgent, Finish, storeVars
  <2>2. QED
    BY <2>1, AttemptsKept DEF AttemptsAside
<1>3. QED
  BY <1>1, <1>2 DEF Processor, EventStep

LEMMA RecoveryAttemptsCounted ==
  ASSUME BookingInv, [Next]_vars, Recovery
  PROVE  AttemptsCounted'
<1>1. CASE FreeBoundBorrower
  <2> DEFINE k == sweep.item.call
  <2>1. /\ sweep.step = "freeBorrower" /\ k.borrower \in Borrowers
        /\ \A x \in Borrowers \ {k.borrower} : borrowers'[x] = borrowers[x]
        /\ \/ borrowers'[k.borrower] = borrowers[k.borrower]
           \/ Returned(k.borrower, 1)
    BY <1>1, FreeBoundBorrowerDoes
  <2>2. k \in CallKeys /\ IsTerminal(calls[k].state)
    BY <2>1, ItemTypes DEF BookingInv, SweepBooked
  <2>3. k.attempt = borrowers[k.borrower].attempts + 1
    <3>1. SweepBorrowerClaim(k) \in BorrowerClaims
      BY <2>1, <2>2, BorrowerClaimKinds
    <3>2. /\ SweepBorrowerClaim(k).of = k.borrower
          /\ SweepBorrowerClaim(k).attempt = k.attempt
      BY DEF SweepBorrowerClaim
    <3>3. QED
      BY <3>1, <3>2 DEF BookingInv, BorrowersBooked
  <2> HIDE DEF k
  <2>4. QED
    BY <2>1, <2>2, <2>3, ReturnedAside, AttemptsKept
<1>2. ASSUME NEW b \in sweep.todo, SweepBorrower(b)
      PROVE  AttemptsCounted'
  BY <1>2, SweepBorrowerDoes, ReturnedAside, AttemptsKept
<1>3. ASSUME UNCHANGED borrowers
      PROVE  AttemptsCounted'
  BY <1>3, AttemptsKept DEF AttemptsAside
<1>4. ASSUME NEW item \in sweep.todo,
             CancelBoundCall(item) \/ ReleaseStuckWrapUp(item)
      PROVE  UNCHANGED borrowers
  BY <1>4 DEF CancelBoundCall, ReleaseStuckWrapUp
<1>5. NextSweep \/ ReclaimAgent => UNCHANGED borrowers
  BY DEF NextSweep, ReclaimAgent, storeVars
<1>6. QED
  BY <1>1, <1>2, <1>3, <1>4, <1>5, RecoveryDoes

LEMMA OthersAttemptsCounted ==
  ASSUME WellBehaved, BookingInv, [Next]_vars,
         \/ \E a \in Agents : Session(a) \/ WrapUpEnds(a)
         \/ \E b \in Borrowers : Backoff(b)
         \/ Tick \/ UNCHANGED vars
  PROVE  AttemptsCounted'
<1>1. ASSUME NEW b \in Borrowers
      PROVE  borrowers'[b].attempts = borrowers[b].attempts
  <2>1. ASSUME NEW a \in Agents, Session(a) \/ WrapUpEnds(a)
        PROVE  UNCHANGED borrowers
    BY <2>1, AgentActionDoes
  <2>2. ASSUME NEW x \in Borrowers, Backoff(x)
        PROVE  borrowers'[b].attempts = borrowers[b].attempts
    <3>1. borrowers[b] \in BorrowerDocuments
      BY Types DEF BookingInv
    <3>2. borrowers'[b] = borrowers[b] \/
          borrowers'[b] = [borrowers[b] EXCEPT !.due = TRUE]
      BY <2>2, BackoffDoes
    <3>3. QED
      BY <3>1, <3>2 DEF BorrowerDocuments
  <2>3. QED
    BY <2>1, <2>2, TickDoes DEF vars, storeVars
<1>2. QED
  BY <1>1, AttemptsKept DEF AttemptsAside

-----------------------------------------------------------------------------
(* The invariant                                                           *)

LEMMA BookingNext ==
  ASSUME WellBehaved, BookingInv, [Next]_vars
  PROVE  BookingInv'
<1>1. epoch' = epoch /\ CallsInv'
  BY StepKinds, CallsInvNext DEF BookingInv
<1>2. ASSUME NEW w \in Workers, Dialer(w)
      PROVE  BookingInv'
  <2>1. AgentsBooked' /\ BorrowersBooked' /\ SetUpsOK' /\ LeasesOK'
    BY <1>1, <1>2, DialAgentsBooked, DialBorrowersBooked, DialSetUpsOK,
       DialLeasesOK
  <2>2. CallsBooked'
    BY <1>1, <1>2, DialCallBooked DEF CallsBooked
  <2>3. LinesOK' /\ SweepBooked' /\ AttemptsCounted'
    BY <1>2, DialLinesOK, DialSweepBooked, DialAttemptsCounted
  <2>4. QED
    BY <1>1, <2>1, <2>2, <2>3 DEF BookingInv
<1>3. ASSUME NEW l \in 1..MaxLines, Processor(l)
      PROVE  BookingInv'
  <2>1. AgentsBooked' /\ BorrowersBooked' /\ SetUpsOK' /\ CallsBooked'
    BY <1>1, <1>3, ProcessorAgentsBooked, ProcessorBorrowersBooked,
       ProcessorSetUpsOK, ProcessorCallsBooked
  <2>2. LeasesOK' /\ LinesOK' /\ SweepBooked' /\ AttemptsCounted'
    BY <1>3, ProcessorLeasesOK, ProcessorLinesOK, ProcessorSweepBooked,
       ProcessorAttemptsCounted
  <2>3. QED
    BY <1>1, <2>1, <2>2 DEF BookingInv
<1>4. CASE Recovery
  <2>1. AgentsBooked' /\ BorrowersBooked' /\ SetUpsOK' /\ CallsBooked'
    BY <1>1, <1>4, RecoveryAgentsBooked, RecoveryBorrowersBooked,
       RecoverySetUpsOK, RecoveryCallsBooked
  <2>2. LeasesOK' /\ LinesOK' /\ SweepBooked' /\ AttemptsCounted'
    BY <1>4, RecoveryLeasesOK, RecoveryLinesOK, RecoverySweepBooked,
       RecoveryAttemptsCounted
  <2>3. QED
    BY <1>1, <2>1, <2>2 DEF BookingInv
<1>5. CASE \/ \E a \in Agents : Session(a) \/ WrapUpEnds(a)
           \/ \E b \in Borrowers : Backoff(b)
           \/ Tick \/ UNCHANGED vars
  <2>1. AgentsBooked' /\ BorrowersBooked' /\ SetUpsOK' /\ CallsBooked'
    BY <1>1, <1>5, OthersAgentsBooked, OthersBorrowersBooked, OthersSetUpsOK,
       OthersCallsBooked
  <2>2. LeasesOK' /\ LinesOK' /\ SweepBooked' /\ AttemptsCounted'
    BY <1>5, OthersLeasesOK, OthersLinesOK, OthersSweepBooked,
       OthersAttemptsCounted
  <2>3. QED
    BY <1>1, <2>1, <2>2 DEF BookingInv
<1>6. QED
  BY <1>2, <1>3, <1>4, <1>5, StepKinds

LEMMA BookingInit == Init => BookingInv
<1> SUFFICES ASSUME Init PROVE BookingInv
  OBVIOUS
<1>1. CallsInv
  BY CallsInvInit
<1>2. /\ \A w \in Workers : dial[w] = IdleDial
      /\ \A k \in CallKeys : calls[k].state = "ABSENT" /\ calls[k].line = None
      /\ \A l \in 1..MaxLines :
           lines[l].status = "UNKNOWN" /\ lines[l].final = "UNKNOWN"
      /\ \A l \in 1..MaxLines : Handler(l).pc = "idle"
      /\ sweep = Asleep
  BY DEF Init, AllocatorInit, StoreInit, ProviderInit, NoLine, Handler,
         IdleHandler, RecoveryInit
<1>3. \A w \in Workers : dial[w].pc = "idle" /\ dial[w].outcome = "RELEASED"
  BY <1>2 DEF IdleDial
<1>4. FindActive = {} /\ \A k \in CallKeys : ~Open(k)
  BY <1>2 DEF FindActive, Open, CallStates
<1>5. sweep.stage = "asleep" /\ sweep.step = "next"
  BY <1>2 DEF Asleep
<1>6. AgentClaims = {}
  BY <1>2, <1>3, <1>4, AgentClaimKinds DEF HoldsAgentPcs, Ending
<1>7. BorrowerClaims = {}
  BY <1>2, <1>3, <1>4, <1>5, BorrowerClaimKinds DEF HoldsBorrowerPcs, Ending
<1>8. AgentsBooked
  BY <1>6 DEF AgentsBooked, Exclusive, Init, StoreInit
<1>9. BorrowersBooked
  BY <1>7 DEF BorrowersBooked, Exclusive, Init, StoreInit
<1>10. SetUpsOK
  BY <1>3 DEF SetUpsOK, SetUpOK, HasCallPcs
<1>11. CallsBooked
  BY <1>2, <1>4 DEF CallsBooked, CallBooked
<1>12. LeasesOK
  BY <1>2, <1>3, <1>4 DEF LeasesOK, SettingUp, Talking
<1>13. LinesOK
  BY <1>2, <1>3 DEF LinesOK, Talking
<1>14. SweepBooked
  BY <1>5 DEF SweepBooked
<1>15. AttemptsCounted
  <2>1. \A b \in Borrowers : borrowers[b].attempts = 0
    BY DEF Init, StoreInit
  <2>2. QED
    BY <2>1 DEF AttemptsCounted
<1>16. QED
  BY <1>1, <1>8, <1>9, <1>10, <1>11, <1>12, <1>13, <1>14, <1>15 DEF BookingInv

LEMMA BookingInvariance ==
  ASSUME WellBehaved
  PROVE  Spec => []BookingInv
BY BookingInit, BookingNext, PTL DEF Spec

-----------------------------------------------------------------------------
(* What it is good for                                                     *)

LEMMA AtMostOne ==
  ASSUME NEW S, \A x, y \in S : x = y
  PROVE  IsFiniteSet(S) /\ Cardinality(S) <= 1
<1>1. CASE S = {}
  BY <1>1, FS_EmptySet
<1>2. CASE S # {}
  <2>1. PICK x \in S : TRUE
    BY <1>2
  <2>2. S = {x}
    BY <2>1
  <2>3. IsFiniteSet({x}) /\ Cardinality({x}) = 1
    BY FS_Singleton
  <2>4. QED
    BY <2>2, <2>3
<1>3. QED
  BY <1>1, <1>2

LEMMA CallsApart ==
  ASSUME BookingInv, NEW j \in FindActive, NEW k \in FindActive,
         j.agent = k.agent \/ j.borrower = k.borrower
  PROVE  j = k
BY AgentClaimsApart, BorrowerClaimsApart
DEF BookingInv, AgentsBooked, BorrowersBooked

(* An agent is in one call at a time, whatever the workers, the events and *)
(* the sweeps do at the same time.                                         *)
THEOREM AgentsInOneCall ==
  ASSUME WellBehaved
  PROVE  Spec => []AgentInOneCall
<1>1. BookingInv => AgentInOneCall
  <2> SUFFICES ASSUME BookingInv, NEW a \in Agents
               PROVE  Cardinality(CallsOf(a)) <= 1
    BY DEF AgentInOneCall
  <2>1. \A j, k \in CallsOf(a) : j = k
    BY CallsApart DEF CallsOf
  <2>2. QED
    BY <2>1, AtMostOne
<1>2. QED
  BY <1>1, BookingInvariance, PTL

(* A borrower is in one call at a time.                                    *)
THEOREM BorrowersInOneCall ==
  ASSUME WellBehaved
  PROVE  Spec => []BorrowerInOneCall
<1>1. BookingInv => BorrowerInOneCall
  <2> SUFFICES ASSUME BookingInv, NEW b \in Borrowers
               PROVE  Cardinality(CallsTo(b)) <= 1
    BY DEF BorrowerInOneCall
  <2>1. \A j, k \in CallsTo(b) : j = k
    BY CallsApart DEF CallsTo
  <2>2. QED
    BY <2>1, AtMostOne
<1>2. QED
  BY <1>1, BookingInvariance, PTL

(* There are never more active calls than agents who are there.            *)
THEOREM CallsStayWithinAgents ==
  ASSUME WellBehaved, IsFiniteSet(Agents)
  PROVE  Spec => []CallsWithinAgents
<1>1. BookingInv => CallsWithinAgents
  <2> SUFFICES ASSUME BookingInv PROVE CallsWithinAgents
    OBVIOUS
  <2> DEFINE there == {a \in Agents : agents[a].state \notin {"OFFLINE", "PAUSED"}}
             f == [k \in FindActive |-> k.agent]
  <2>1. IsFiniteSet(there)
    BY FS_Subset
  <2>2. \A k \in FindActive : k.agent \in there
    BY ActiveHolds DEF HasCall
  <2>3. \A j, k \in FindActive : j.agent = k.agent => j = k
    BY CallsApart
  <2>4. f \in Injection(FindActive, there)
    BY <2>2, <2>3 DEF Injection, IsInjective
  <2> HIDE DEF f, there
  <2>5. Cardinality(FindActive) <= Cardinality(there)
    BY <2>1, <2>4, FS_Injection
  <2>6. QED
    BY <2>5 DEF CallsWithinAgents, there
<1>2. QED
  BY <1>1, BookingInvariance, PTL

(* An active call holds its agent and its borrower for the worker that     *)
(* created it.                                                             *)
THEOREM ActiveCallsHoldTheirPair ==
  ASSUME WellBehaved
  PROVE  Spec => []ActiveCallHoldsItsPair
<1>1. BookingInv => ActiveCallHoldsItsPair
  BY ActiveHolds DEF ActiveCallHoldsItsPair
<1>2. QED
  BY <1>1, BookingInvariance, PTL

(* The updates whose results _dial does not look at apply.                 *)
THEOREM UncheckedUpdatesAlwaysApply ==
  ASSUME WellBehaved
  PROVE  Spec => []UncheckedUpdatesApply
<1>1. BookingInv => UncheckedUpdatesApply
  <2> SUFFICES ASSUME BookingInv, NEW w \in Workers
               PROVE  /\ dial[w].pc = "reserve" =>
                           TransitionCallMatches(DialKey(w), "RESERVED")
                      /\ dial[w].pc = "markDialing" =>
                           TransitionAgentMatches(dial[w].agent, "RESERVED",
                             "DIALING", "ALLOCATOR", dial[w].version)
                      /\ dial[w].pc = "bind" =>
                           agents[dial[w].agent].reservedBy = epoch
                      /\ dial[w].pc = "failCall" =>
                           TransitionCallMatches(DialKey(w), "FAILED")
                      /\ dial[w].pc = "freeBorrower" =>
                           ReleaseBorrowerMatches(dial[w].borrower, epoch)
    BY DEF UncheckedUpdatesApply
  <2>1. SetUpOK(w)
    BY DEF BookingInv, SetUpsOK
  <2>2. dial[w].pc \in {"reserve", "failCall"} =>
          calls[DialKey(w)].state =
            IF dial[w].pc = "reserve" THEN "QUEUED" ELSE "INITIATED"
    BY <2>1 DEF SetUpOK, HasCallPcs, CallStateAt
  <2>3. /\ dial[w].pc = "reserve" =>
             TransitionCallMatches(DialKey(w), "RESERVED")
        /\ dial[w].pc = "failCall" =>
             TransitionCallMatches(DialKey(w), "FAILED")
    BY <2>2
    DEF TransitionCallMatches, CallStates, TerminalCallStates, CallStateRank
  <2>4. ValidTransition("RESERVED", "DIALING", "ALLOCATOR")
    BY DEF ValidTransition, CanTransition, IsActorAllowed, AgentTransitions,
           Authorised
  <2>5. dial[w].pc = "markDialing" =>
          TransitionAgentMatches(dial[w].agent, "RESERVED", "DIALING",
                                 "ALLOCATOR", dial[w].version)
    BY <2>1, <2>4 DEF SetUpOK, TransitionAgentMatches
  <2>6. /\ dial[w].pc = "bind" => agents[dial[w].agent].reservedBy = epoch
        /\ dial[w].pc = "freeBorrower" =>
             ReleaseBorrowerMatches(dial[w].borrower, epoch)
    BY DialHolds DEF HasCallPcs, HoldsBorrowerPcs, ReleaseBorrowerMatches
  <2>7. QED
    BY <2>3, <2>5, <2>6
<1>2. QED
  BY <1>1, BookingInvariance, PTL

(* A call that is being set up is not stale: the lease of its agent runs   *)
(* out first, and setting up does not outlast that.                        *)
THEOREM CallsBeingSetUpAreNotStale ==
  ASSUME WellBehaved
  PROVE  Spec => []StaleCallIsNotBeingSetUp
<1>1. BookingInv => StaleCallIsNotBeingSetUp
  <2> SUFFICES ASSUME BookingInv, NEW w \in Workers,
                      dial[w].pc \notin {"idle", "claimBorrower", "create"},
                      DialKey(w) \in FindStaleCalls
               PROVE  FALSE
    BY DEF StaleCallIsNotBeingSetUp
  <2>1. /\ DialKey(w).agent = dial[w].agent /\ DialKey(w) \in CallKeys
        /\ SettingUp(w)
    BY DialTypes DEF SettingUp, BookingInv
  <2>2. Open(DialKey(w)) /\ calls[DialKey(w)].idle = 0
    BY DEF FindStaleCalls, Open
  <2>3. agents[dial[w].agent].lease \in 0..TTL
    BY <2>1, <2>2, OpenHolds
  <2>4. agents[dial[w].agent].lease # 0
    BY <2>1 DEF BookingInv, LeasesOK
  <2>5. agents[dial[w].agent].lease < 0
    BY <2>1, <2>2, <2>4 DEF BookingInv, LeasesOK
  <2>6. QED
    BY <2>3, <2>5, StoreAssumption
<1>2. QED
  BY <1>1, BookingInvariance, PTL

(* A borrower has finitely many keys.                                      *)
LEMMA EndedCallsAreFinite ==
  ASSUME IsFiniteSet(Agents), NEW b,
         NEW S, S \subseteq {k \in CallKeys : k.borrower = b}
  PROVE  IsFiniteSet(S)
<1> DEFINE T == Agents \X (1..MaxAttempts)
           f == [k \in S |-> <<k.agent, k.attempt>>]
<1>1. IsFiniteSet(T)
  <2>1. IsFiniteSet(1..MaxAttempts)
    BY FS_Interval, StoreAssumption
  <2>2. QED
    BY <2>1, FS_Product
<1>2. f \in Injection(S, T)
  <2>1. \A k \in S : k \in CallKeys /\ k.borrower = b
    OBVIOUS
  <2>2. \A k \in S : k.agent \in Agents /\ k.attempt \in 1..MaxAttempts
    BY <2>1, KeyTypes
  <2>3. f \in [S -> T]
    BY <2>2
  <2>4. \A j, k \in S : f[j] = f[k] => j = k
    BY <2>1 DEF CallKeys
  <2>5. QED
    BY <2>3, <2>4 DEF Injection, IsInjective
<1> HIDE DEF f, T
<1>3. QED
  BY <1>1, <1>2, FS_Injection

Over(b) == {k \in CallKeys : k.borrower = b /\ IsTerminal(calls[k].state)}

LEMMA AttemptsAreFewer ==
  ASSUME IsFiniteSet(Agents), NEW b, NEW n \in Nat,
         \A i \in 1..n : \E k \in Over(b) : k.attempt = i
  PROVE  n <= Cardinality(Over(b))
<1> DEFINE f == [i \in 1..n |-> CHOOSE k \in Over(b) : k.attempt = i]
<1>1. IsFiniteSet(Over(b))
  BY EndedCallsAreFinite DEF Over
<1>2. \A i \in 1..n : f[i] \in Over(b) /\ f[i].attempt = i
  OBVIOUS
<1>3. f \in Injection(1..n, Over(b))
  <2>1. f \in [1..n -> Over(b)]
    BY <1>2
  <2>2. IsInjective(f)
    BY <1>2 DEF IsInjective
  <2>3. QED
    BY <2>1, <2>2 DEF Injection
<1> HIDE DEF f
<1>4. Cardinality(1..n) = n
  BY FS_Interval
<1>5. QED
  BY <1>1, <1>3, <1>4, FS_Injection

LEMMA AttemptsAreOver ==
  ASSUME BookingInv, NEW b \in Borrowers
  PROVE  /\ borrowers[b].attempts \in Nat
         /\ \A i \in 1..borrowers[b].attempts :
              \E k \in Over(b) : k.attempt = i
<1>1. borrowers[b].attempts \in Nat
  BY Types, StoreAssumption DEF BookingInv, BorrowerDocuments
<1>2. QED
  BY <1>1 DEF BookingInv, AttemptsCounted, Over

(* There are as many ended calls as attempts counted.                      *)
THEOREM EveryAttemptIsACall ==
  ASSUME WellBehaved, IsFiniteSet(Agents)
  PROVE  Spec => []AttemptsAreCalls
<1>1. BookingInv => AttemptsAreCalls
  BY AttemptsAreOver, AttemptsAreFewer DEF AttemptsAreCalls, Over
<1>2. QED
  BY <1>1, BookingInvariance, PTL

(* The recovery worker never gives a borrower back while a call to them is *)
(* active; neither does anybody else.                                      *)
LEMMA NobodyFreesACalledBorrower ==
  ASSUME WellBehaved, BookingInv, [Next]_vars, sweep.stage # "asleep",
         NEW b \in Borrowers, borrowers'[b] # borrowers[b],
         NEW k \in FindActive, k.borrower = b
  PROVE  sweep.stage = "agentLeases"
<1>0. /\ borrowers[b].status = "RESERVED"
      /\ Exclusive(BorrowerClaims)
  BY ActiveHolds DEF BookingInv, BorrowersBooked
<1>1. ASSUME NEW w \in Workers, Dialer(w)
      PROVE  FALSE
  <2>1. CASE ClaimBorrower(w)
    BY <1>0, <2>1, ClaimBorrowerDoes
  <2>2. CASE FreeBorrower(w)
    <3>1. dial[w].pc = "freeBorrower" /\ dial[w].borrower = b
      BY <2>2, FreeBorrowerDoes
    <3>2. QED
      BY <1>0, <3>1, BorrowerClaimsApart DEF HoldsBorrowerPcs
  <2>3. CASE \/ ClaimAgent(w) \/ GiveAgentBack(w) \/ Create(w) \/ Reserve(w)
             \/ Initiate(w) \/ MarkDialing(w) \/ Bind(w) \/ Originate(w)
             \/ Attach(w) \/ FailCall(w) \/ FreeAgent(w)
    BY <2>3
    DEF ClaimAgent, GiveAgentBack, Create, Reserve, Initiate, MarkDialing, Bind,
        Originate, Attach, FailCall, FreeAgent, storeVars
  <2>4. QED
    BY <1>1, <2>1, <2>2, <2>3 DEF Dialer, DialStep
<1>2. ASSUME NEW l \in 1..MaxLines, Processor(l)
      PROVE  FALSE
  <2>1. CASE SettleBorrower(l)
    <3>1. Handler(l).pc = "freeBorrower" /\ Handler(l).call.borrower = b
      BY <2>1, SettleBorrowerDoes
    <3>2. Ending(l, {"readAgent", "moveAgent", "freeBorrower"})
      BY <3>1 DEF Ending, BookingInv, LinesOK
    <3>3. QED
      BY <1>0, <3>1, <3>2, BorrowerClaimsApart
  <2>2. CASE \/ ReceiveEvent(l) \/ ApplyCall(l) \/ ReadAgent(l) \/ MoveAgent(l)
             \/ Finish(l)
    BY <2>2 DEF ReceiveEvent, ApplyCall, ReadAgent, MoveAgent, Finish, storeVars
  <2>3. QED
    BY <1>2, <2>1, <2>2 DEF Processor, EventStep
<1>3. CASE Recovery
  <2>1. CASE FreeBoundBorrower
    BY <2>1, FreeBoundBorrowerDoes DEF BookingInv, SweepBooked
  <2>2. ASSUME NEW x \in sweep.todo, SweepBorrower(x)
        PROVE  FALSE
    <3>1. /\ x = b /\ borrowers[b].lease = 0
          /\ sweep.stage = "borrowerLeases" /\ sweep.step = "next"
      BY <2>2, SweepBorrowerDoes
    <3>2. ExpiredAgentLeases = {}
      BY <3>1 DEF BookingInv, SweepBooked
    <3>3. \A c \in BorrowerClaims : c.of # b
      BY <3>1, <3>2, ExpiredBorrowers
    <3>4. CallBorrowerClaim(k) \in BorrowerClaims /\ CallBorrowerClaim(k).of = b
      BY BorrowerClaimKinds DEF CallBorrowerClaim
    <3>5. QED
      BY <3>3, <3>4
  <2>3. ASSUME NEW item \in sweep.todo,
               CancelBoundCall(item) \/ ReleaseStuckWrapUp(item)
        PROVE  FALSE
    BY <2>3 DEF CancelBoundCall, ReleaseStuckWrapUp
  <2>4. ~NextSweep /\ ~ReclaimAgent
    BY DEF NextSweep, ReclaimAgent, storeVars
  <2>5. QED
    BY <1>3, <2>1, <2>2, <2>3, <2>4, RecoveryDoes
<1>4. ASSUME NEW a \in Agents, Session(a) \/ WrapUpEnds(a)
      PROVE  FALSE
  BY <1>4, AgentActionDoes
<1>5. ASSUME NEW x \in Borrowers, Backoff(x)
      PROVE  FALSE
  BY <1>0, <1>5, BackoffDoes
<1>6. CASE Tick
  BY <1>6, TickDoes DEF Asleep
<1>7. CASE UNCHANGED vars
  BY <1>7 DEF vars, storeVars
<1>8. QED
  BY <1>1, <1>2, <1>3, <1>4, <1>5, <1>6, <1>7, StepKinds

(* The sweep of borrowers gives none back who is in a call: by then the    *)
(* sweep of agents, whose leases run out first, has ended it.              *)
THEOREM ReclaimedBorrowersHaveNoCall ==
  ASSUME WellBehaved
  PROVE  Spec => ReclaimedBorrowerHasNoCall
<1>1. ASSUME BookingInv, [Next]_vars, NEW b \in Borrowers,
             sweep.stage = "borrowerLeases", borrowers'[b] # borrowers[b]
      PROVE  CallsTo(b) = {}
  BY <1>1, NobodyFreesACalledBorrower DEF CallsTo
<1>2. BookingInv /\ [Next]_vars =>
        [\A b \in Borrowers :
           (sweep.stage = "borrowerLeases" /\ borrowers'[b] # borrowers[b])
             => CallsTo(b) = {}]_vars
  BY <1>1
<1>3. QED
  BY <1>2, BookingInvariance, PTL DEF Spec, ReclaimedBorrowerHasNoCall

-----------------------------------------------------------------------------
(* The campaign keeps its contract.                                        *)

Outcome(b) ==
  CASE borrowers[b].status = "CONTACTED" -> "reached"
    [] borrowers[b].status = "EXHAUSTED" -> "exhausted"
    [] OTHER                             -> "open"

Engaged == {<<k.agent, k.borrower>> : k \in FindActive}

LEMMA ContractStutters ==
  ASSUME Engaged' = Engaged,
         \A b \in Borrowers :
           /\ Over(b)' = Over(b)
           /\ borrowers'[b].attempts = borrowers[b].attempts
           /\ Outcome(b)' = Outcome(b)
  PROVE  UNCHANGED Contract!vars
BY DEF Contract!vars, Over, Outcome, Engaged

LEMMA ContractEngages ==
  ASSUME NEW a \in Agents, NEW b \in Borrowers,
         \A pair \in Engaged : pair[1] # a /\ pair[2] # b,
         Outcome(b) = "open",
         Engaged' = Engaged \cup {<<a, b>>},
         \A x \in Borrowers :
           /\ Over(x)' = Over(x)
           /\ borrowers'[x].attempts = borrowers[x].attempts
           /\ Outcome(x)' = Outcome(x)
  PROVE  Contract!Engage(a, b)
BY DEF Contract!Engage, Contract!Free, Over, Outcome, Engaged

LEMMA ContractParts ==
  ASSUME NEW a \in Agents, NEW b \in Borrowers,
         <<a, b>> \in Engaged,
         Engaged' = Engaged \ {<<a, b>>},
         Cardinality(Over(b))' = Cardinality(Over(b)) + 1,
         \A x \in Borrowers \ {b} : Over(x)' = Over(x),
         \A x \in Borrowers :
           /\ borrowers'[x].attempts = borrowers[x].attempts
           /\ Outcome(x)' = Outcome(x)
  PROVE  Contract!Part(a, b)
<1> DEFINE ended == [x \in Borrowers |-> Cardinality(Over(x))]
<1>1. ended' = [ended EXCEPT ![b] = @ + 1]
  <2>1. \A x \in Borrowers : ended'[x] =
          IF x = b THEN Cardinality(Over(b)) + 1 ELSE Cardinality(Over(x))
    OBVIOUS
  <2>2. ended' = [x \in Borrowers |-> ended'[x]]
    OBVIOUS
  <2>3. QED
    BY <2>1, <2>2
<1>2. QED
  BY <1>1 DEF Contract!Part, Over, Outcome, Engaged

LEMMA ContractConcludes ==
  ASSUME NEW b \in Borrowers, NEW reached \in BOOLEAN,
         Outcome(b) = "open",
         \A a \in Agents : <<a, b>> \notin Engaged,
         borrowers[b].attempts < Cardinality(Over(b)),
         borrowers'[b].attempts = borrowers[b].attempts + 1,
         Outcome(b)' = IF reached THEN "reached"
                       ELSE IF borrowers[b].attempts + 1 = MaxAttempts
                            THEN "exhausted" ELSE "open",
         \A x \in Borrowers \ {b} :
           /\ borrowers'[x].attempts = borrowers[x].attempts
           /\ Outcome(x)' = Outcome(x),
         \A x \in Borrowers : Over(x)' = Over(x),
         Engaged' = Engaged
  PROVE  Contract!Conclude(b, reached)
BY DEF Contract!Conclude, Over, Outcome, Engaged

LEMMA CallsStand ==
  ASSUME FindActive' = FindActive,
         \A k \in CallKeys :
           IsTerminal(calls'[k].state) <=> IsTerminal(calls[k].state)
  PROVE  Engaged' = Engaged /\ \A b \in Borrowers : Over(b)' = Over(b)
BY DEF Engaged, Over

LEMMA OutcomeStands ==
  ASSUME NEW b \in Borrowers,
         \/ borrowers'[b].status = borrowers[b].status
         \/ {borrowers[b].status, borrowers'[b].status} \subseteq
              {"PENDING", "RESERVED"}
  PROVE  Outcome(b)' = Outcome(b)
BY DEF Outcome

(* Nothing the contract speaks of has changed.                             *)
LEMMA ContractAside ==
  ASSUME FindActive' = FindActive,
         \A k \in CallKeys :
           IsTerminal(calls'[k].state) <=> IsTerminal(calls[k].state),
         \A b \in Borrowers :
           /\ borrowers'[b].attempts = borrowers[b].attempts
           /\ \/ borrowers'[b].status = borrowers[b].status
              \/ {borrowers[b].status, borrowers'[b].status} \subseteq
                   {"PENDING", "RESERVED"}
  PROVE  UNCHANGED Contract!vars
BY CallsStand, OutcomeStands, ContractStutters

(* A worker reserves a call: its agent and its borrower are engaged.       *)
LEMMA ReserveEngages ==
  ASSUME BookingInv, NEW w \in Workers, Reserve(w)
  PROVE  \E a \in Agents : \E b \in Borrowers : Contract!Engage(a, b)
<1>0. PICK key \in CallKeys : key = DialKey(w)
  BY DialTransitionDoes
<1>1. PICK a \in Agents, b \in Borrowers :
        /\ key.agent = a /\ key.borrower = b
        /\ dial[w].agent = a /\ dial[w].borrower = b
        /\ dial[w].pc = "reserve"
  BY <1>0, DialTransitionDoes, DialTypes DEF BookingInv
<1>2. /\ \A k \in CallKeys \ {key} : calls'[k] = calls[k]
      /\ calls[key].state = "QUEUED" /\ calls'[key].state = "RESERVED"
      /\ UNCHANGED borrowers
  BY <1>0, DialTransitionDoes
<1>3. \A k \in FindActive : k.agent # a /\ k.borrower # b
  BY <1>1, AgentClaimsApart, BorrowerClaimsApart
  DEF BookingInv, AgentsBooked, BorrowersBooked, HoldsAgentPcs, HoldsBorrowerPcs
<1>4. borrowers[b].status = "RESERVED"
  BY <1>1, DialHolds DEF HoldsBorrowerPcs
<1>5. FindActive' = FindActive \cup {key}
  BY <1>1, <1>2 DEF FindActive, CallStates, TerminalCallStates
<1>6. Engaged' = Engaged \cup {<<a, b>>}
  BY <1>1, <1>5 DEF Engaged
<1>7. \A pair \in Engaged : pair[1] # a /\ pair[2] # b
  BY <1>3 DEF Engaged
<1>8. \A x \in Borrowers : Over(x)' = Over(x)
  BY <1>2 DEF Over, IsTerminal, TerminalCallStates
<1>9. Outcome(b) = "open" /\ \A x \in Borrowers : Outcome(x)' = Outcome(x)
  BY <1>2, <1>4, OutcomeStands DEF Outcome
<1>10. Contract!Engage(a, b)
  BY <1>1, <1>2, <1>6, <1>7, <1>8, <1>9, ContractEngages
<1>11. QED
  BY <1>10

(* An active call ends: its agent and its borrower part.                   *)
LEMMA CallEnds ==
  ASSUME BookingInv, IsFiniteSet(Agents), UNCHANGED borrowers,
         NEW key \in FindActive,
         \A k \in CallKeys \ {key} : calls'[k] = calls[k],
         IsTerminal(calls'[key].state)
  PROVE  Contract!Part(key.agent, key.borrower)
<1>1. /\ key \in CallKeys /\ key.agent \in Agents /\ key.borrower \in Borrowers
      /\ ~IsTerminal(calls[key].state)
  BY KeyTypes DEF FindActive, IsTerminal
<1>2. FindActive' = FindActive \ {key}
  BY <1>1 DEF FindActive, IsTerminal
<1>3. /\ <<key.agent, key.borrower>> \in Engaged
      /\ Engaged' = Engaged \ {<<key.agent, key.borrower>>}
  <2>1. \A k \in FindActive : k.agent = key.agent => k = key
    BY CallsApart
  <2>2. QED
    BY <1>2, <2>1 DEF Engaged
<1>4. Over(key.borrower)' = Over(key.borrower) \cup {key}
  BY <1>1 DEF Over
<1>5. Cardinality(Over(key.borrower))' = Cardinality(Over(key.borrower)) + 1
  <2>1. IsFiniteSet(Over(key.borrower)) /\ key \notin Over(key.borrower)
    BY <1>1, EndedCallsAreFinite DEF Over
  <2>2. QED
    BY <1>4, <2>1, FS_AddElement
<1>6. \A x \in Borrowers \ {key.borrower} : Over(x)' = Over(x)
  BY DEF Over
<1>7. \A x \in Borrowers : Outcome(x)' = Outcome(x)
  BY OutcomeStands
<1>8. QED
  BY <1>1, <1>3, <1>5, <1>6, <1>7, ContractParts

(* A borrower whose call is over is given back, and the attempt counted.   *)
LEMMA BorrowerConcludes ==
  ASSUME BookingInv, [Next]_vars, IsFiniteSet(Agents), UNCHANGED calls,
         NEW b \in Borrowers,
         \A x \in Borrowers \ {b} : borrowers'[x] = borrowers[x],
         Returned(b, 1),
         \A k \in FindActive : k.borrower # b,
         NEW key \in CallKeys, key.borrower = b,
         key.attempt = borrowers[b].attempts + 1,
         IsTerminal(calls[key].state)
  PROVE  \E reached \in BOOLEAN : Contract!Conclude(b, reached)
<1> DEFINE n == borrowers[b].attempts
<1>1. /\ n \in Nat
      /\ \A i \in 1..n : \E k \in Over(b) : k.attempt = i
  BY AttemptsAreOver
<1>2. n < Cardinality(Over(b))
  <2>1. key \in Over(b)
    BY DEF Over
  <2>2. \A i \in 1..(n + 1) : \E k \in Over(b) : k.attempt = i
    BY <1>1, <2>1
  <2>3. n + 1 <= Cardinality(Over(b))
    BY <1>1, <2>2, AttemptsAreFewer
  <2>4. Cardinality(Over(b)) \in Nat
    BY EndedCallsAreFinite, FS_CardinalityType DEF Over
  <2>5. QED
    BY <1>1, <2>3, <2>4
<1>3. /\ borrowers[b].status = "RESERVED" /\ borrowers'[b].attempts = n + 1
      /\ borrowers'[b].status \in {"PENDING", "CONTACTED", "EXHAUSTED"}
  BY DEF Returned
<1>4. /\ borrowers'[b].status = "PENDING" => n + 1 < MaxAttempts
      /\ borrowers'[b].status = "EXHAUSTED" => n + 1 = MaxAttempts
  <2>1. BorrowersOK'
    BY CallsInvNext DEF BookingInv, CallsInv, IInv, StoreOK
  <2>2. QED
    BY <1>3, <2>1 DEF BorrowersOK
<1>5. /\ FindActive' = FindActive
      /\ Engaged' = Engaged /\ \A x \in Borrowers : Over(x)' = Over(x)
  BY ActiveAside, CallsStand
<1>6. \A a \in Agents : <<a, b>> \notin Engaged
  BY DEF Engaged
<1>7. Outcome(b) = "open"
  BY <1>3 DEF Outcome
<1>8. /\ borrowers'[b].status = "CONTACTED" => Outcome(b)' = "reached"
      /\ borrowers'[b].status # "CONTACTED" =>
           Outcome(b)' = IF n + 1 = MaxAttempts THEN "exhausted" ELSE "open"
  <2>1. n + 1 < MaxAttempts => n + 1 # MaxAttempts
    BY <1>1, StoreAssumption
  <2>2. QED
    BY <1>3, <1>4, <2>1 DEF Outcome
<1>9. \A x \in Borrowers \ {b} :
        /\ borrowers'[x].attempts = borrowers[x].attempts
        /\ Outcome(x)' = Outcome(x)
  BY OutcomeStands
<1>10. CASE borrowers'[b].status = "CONTACTED"
  <2>1. Contract!Conclude(b, TRUE)
    BY <1>2, <1>3, <1>5, <1>6, <1>7, <1>8, <1>9, <1>10, ContractConcludes
  <2>2. QED
    BY <2>1
<1>11. CASE borrowers'[b].status # "CONTACTED"
  <2>1. Contract!Conclude(b, FALSE)
    BY <1>2, <1>3, <1>5, <1>6, <1>7, <1>8, <1>9, <1>11, ContractConcludes
  <2>2. QED
    BY <2>1
<1>12. QED
  BY <1>10, <1>11

ContractStep == Contract!Next \/ UNCHANGED Contract!vars

LEMMA DialKeepsContract ==
  ASSUME BookingInv, [Next]_vars, IsFiniteSet(Agents),
         NEW w \in Workers, Dialer(w)
  PROVE  ContractStep
<1>1. CASE Reserve(w)
  BY <1>1, ReserveEngages DEF ContractStep, Contract!Next
<1>2. CASE FailCall(w)
  <2>1. PICK key \in CallKeys : key = DialKey(w)
    BY <1>2, DialTransitionDoes
  <2>2. /\ key \in FindActive /\ UNCHANGED borrowers
        /\ \A k \in CallKeys \ {key} : calls'[k] = calls[k]
        /\ IsTerminal(calls'[key].state)
    BY <1>2, <2>1, DialTransitionDoes
    DEF FindActive, CallStates, TerminalCallStates, IsTerminal
  <2>3. Contract!Part(key.agent, key.borrower)
    BY <2>2, CallEnds
  <2>4. QED
    BY <2>1, <2>3, KeyTypes DEF ContractStep, Contract!Next
<1>3. CASE FreeBorrower(w)
  <2>1. dial[w].pc = "freeBorrower" /\ UNCHANGED calls
    BY <1>3, FreeBorrowerDoes
  <2>2. PICK b \in Borrowers, key \in CallKeys :
          /\ b = dial[w].borrower /\ key = DialKey(w)
          /\ key.borrower = b /\ key.attempt = dial[w].attempt
          /\ dial[w] \in Dials
    BY <2>1, DialTypes DEF BookingInv
  <2>3. /\ \A x \in Borrowers \ {b} : borrowers'[x] = borrowers[x]
        /\ Returned(b, IF dial[w].outcome = "RELEASED" THEN 0 ELSE 1)
    BY <1>3, <2>2, FreeBorrowerDoes
  <2>4. CASE dial[w].outcome = "RELEASED"
    <3>1. \A x \in Borrowers \ {b} : borrowers'[x] = borrowers[x]
      BY <2>3
    <3>2. /\ borrowers[b].status = "RESERVED"
          /\ borrowers'[b].status = "PENDING"
          /\ borrowers'[b].attempts = borrowers[b].attempts
      BY <2>3, <2>4, AttemptsAreOver DEF Returned
    <3>3. QED
      BY <2>1, <3>1, <3>2, ActiveAside, ContractAside DEF ContractStep
  <2>5. CASE dial[w].outcome # "RELEASED"
    <3>1. key.attempt = borrowers[b].attempts + 1
      BY <2>1, <2>2, DialHolds DEF HoldsBorrowerPcs
    <3>2. IsTerminal(calls[key].state)
      BY <2>1, <2>2, <2>5 DEF BookingInv, SetUpsOK, SetUpOK, Dials, Outcomes
    <3>3. \A k \in FindActive : k.borrower # b
      BY <2>1, <2>2, BorrowerClaimsApart
      DEF BookingInv, BorrowersBooked, HoldsBorrowerPcs
    <3>4. Returned(b, 1)
      BY <2>3, <2>5
    <3>5. \E reached \in BOOLEAN : Contract!Conclude(b, reached)
      BY <2>1, <2>2, <2>3, <3>1, <3>2, <3>3, <3>4, BorrowerConcludes
    <3>6. QED
      BY <3>5 DEF ContractStep, Contract!Next
  <2>6. QED
    BY <2>4, <2>5
<1>4. CASE ClaimBorrower(w)
  BY <1>4, ClaimBorrowerDoes, ActiveAside, ContractAside DEF ContractStep
<1>5. CASE Create(w) \/ Initiate(w) \/ Attach(w)
  <2>1. FindActive' = FindActive
    <3>1. ~Reserve(w) /\ ~FailCall(w)
      BY <1>5 DEF Create, Initiate, Attach, Reserve, FailCall
    <3>2. QED
      BY <3>1, DialActive
  <2>2. \A k \in CallKeys :
          IsTerminal(calls'[k].state) <=> IsTerminal(calls[k].state)
    <3>1. CASE Create(w)
      BY <3>1, CreateDoes DEF IsTerminal, TerminalCallStates
    <3>2. CASE Initiate(w)
      BY <3>2, DialTransitionDoes DEF IsTerminal, TerminalCallStates
    <3>3. CASE Attach(w)
      <4>1. calls'[DialKey(w)].state = calls[DialKey(w)].state
        <5>1. calls[DialKey(w)] \in CallDocuments
          BY <3>3, AttachDoes, Types DEF BookingInv
        <5>2. QED
          BY <3>3, <5>1, AttachDoes DEF CallDocuments
      <4>2. QED
        BY <3>3, <4>1, AttachDoes
    <3>4. QED
      BY <1>5, <3>1, <3>2, <3>3
  <2>3. UNCHANGED borrowers
    BY <1>5 DEF Create, Initiate, Attach
  <2>4. QED
    BY <2>1, <2>2, <2>3, ContractAside DEF ContractStep
<1>6. CASE \/ ClaimAgent(w) \/ GiveAgentBack(w) \/ MarkDialing(w) \/ Bind(w)
           \/ Originate(w) \/ FreeAgent(w)
  <2>1. UNCHANGED <<borrowers, calls>>
    BY <1>6
    DEF ClaimAgent, GiveAgentBack, MarkDialing, Bind, Originate, FreeAgent,
        storeVars
  <2>2. QED
    BY <2>1, ActiveAside, ContractAside DEF ContractStep
<1>7. QED
  BY <1>1, <1>2, <1>3, <1>4, <1>5, <1>6 DEF Dialer, DialStep

LEMMA ProcessorKeepsContract ==
  ASSUME BookingInv, [Next]_vars, IsFiniteSet(Agents),
         NEW l \in 1..MaxLines, Processor(l)
  PROVE  ContractStep
<1>1. CASE ApplyCall(l)
  <2>1. Handler(l).pc = "applyCall" /\ UNCHANGED borrowers
    BY <1>1, ApplyCallDoes
  <2>2. PICK key \in CallKeys, target \in EventTypes :
          key = Handler(l).call /\ target = Handler(l).target
    BY <2>1, HandlerTypes DEF BookingInv
  <2>3. CASE UNCHANGED calls
    BY <2>1, <2>3, ActiveAside, ContractAside DEF ContractStep
  <2>4. CASE /\ key \in FindActive
             /\ \A k \in CallKeys \ {key} : calls'[k] = calls[k]
             /\ calls'[key].state = target
    <3>1. CASE IsTerminal(target)
      <4>1. Contract!Part(key.agent, key.borrower)
        BY <2>1, <2>4, <3>1, CallEnds
      <4>2. QED
        BY <2>2, <4>1, KeyTypes DEF ContractStep, Contract!Next
    <3>2. CASE ~IsTerminal(target)
      <4>1. target \in CallStates \ (TerminalCallStates \cup {"QUEUED"})
        BY <2>2, <3>2 DEF EventTypes, IsTerminal, CallStates, TerminalCallStates
      <4>2. FindActive' = FindActive
        BY <2>4, <4>1 DEF FindActive
      <4>3. \A k \in CallKeys :
              IsTerminal(calls'[k].state) <=> IsTerminal(calls[k].state)
        BY <2>4, <3>2 DEF FindActive, IsTerminal
      <4>4. QED
        BY <2>1, <4>2, <4>3, ContractAside DEF ContractStep
    <3>3. QED
      BY <3>1, <3>2
  <2>5. QED
    BY <1>1, <2>2, <2>3, <2>4, ApplyCallDoes
<1>2. CASE SettleBorrower(l)
  <2>1. Handler(l).pc = "freeBorrower" /\ UNCHANGED calls
    BY <1>2, SettleBorrowerDoes
  <2>2. PICK key \in CallKeys : key = Handler(l).call
    BY <2>1, HandlerTypes DEF BookingInv
  <2>3. PICK b \in Borrowers : b = key.borrower
    BY <2>2, KeyTypes
  <2>4. /\ \A x \in Borrowers \ {b} : borrowers'[x] = borrowers[x]
        /\ borrowers'[b] = borrowers[b] \/ Returned(b, 1)
    BY <1>2, <2>2, <2>3, SettleBorrowerDoes
  <2>5. CASE borrowers'[b] = borrowers[b]
    <3>1. \A x \in Borrowers : borrowers'[x] = borrowers[x]
      BY <2>4, <2>5
    <3>2. QED
      BY <2>1, <3>1, ActiveAside, ContractAside DEF ContractStep
  <2>6. CASE Returned(b, 1)
    <3>1. /\ IsTerminal(Handler(l).target)
          /\ Ending(l, {"readAgent", "moveAgent", "freeBorrower"})
      BY <2>1 DEF BookingInv, LinesOK, Ending
    <3>2. IsTerminal(calls[key].state)
      BY <2>1, <2>2, <3>1 DEF BookingInv, CallsInv, EventsOK
    <3>3. \A k \in FindActive : k.borrower # b
      BY <2>2, <2>3, <3>1, BorrowerClaimsApart DEF BookingInv, BorrowersBooked
    <3>4. key.attempt = borrowers[b].attempts + 1
      <4>1. LineBorrowerClaim(l) \in BorrowerClaims
        BY <3>1, BorrowerClaimKinds
      <4>2. /\ LineBorrowerClaim(l).of = b
            /\ LineBorrowerClaim(l).attempt = key.attempt
        BY <2>2, <2>3 DEF LineBorrowerClaim
      <4>3. QED
        BY <4>1, <4>2 DEF BookingInv, BorrowersBooked
    <3>5. \E reached \in BOOLEAN : Contract!Conclude(b, reached)
      BY <2>1, <2>3, <2>4, <2>6, <3>2, <3>3, <3>4, BorrowerConcludes
    <3>6. QED
      BY <3>5 DEF ContractStep, Contract!Next
  <2>7. QED
    BY <2>4, <2>5, <2>6
<1>3. CASE ReceiveEvent(l) \/ ReadAgent(l) \/ MoveAgent(l) \/ Finish(l)
  <2>1. UNCHANGED <<borrowers, calls>>
    BY <1>3 DEF ReceiveEvent, ReadAgent, MoveAgent, Finish, storeVars
  <2>2. QED
    BY <2>1, ActiveAside, ContractAside DEF ContractStep
<1>4. QED
  BY <1>1, <1>2, <1>3 DEF Processor, EventStep

LEMMA RecoveryKeepsContract ==
  ASSUME BookingInv, [Next]_vars, IsFiniteSet(Agents), Recovery
  PROVE  ContractStep
<1>1. ASSUME NEW item \in sweep.todo, CancelBoundCall(item)
      PROVE  ContractStep
  <2>1. UNCHANGED borrowers
    BY <1>1, CancelBoundCallDoes
  <2>2. CASE UNCHANGED calls
    BY <2>1, <2>2, ActiveAside, ContractAside DEF ContractStep
  <2>3. ASSUME NEW key \in FindActive,
               \A k \in CallKeys \ {key} : calls'[k] = calls[k],
               calls'[key].state = "CANCELLED"
        PROVE  ContractStep
    <3>1. IsTerminal(calls'[key].state) /\ key \in CallKeys
      BY <2>3 DEF IsTerminal, TerminalCallStates, FindActive
    <3>2. Contract!Part(key.agent, key.borrower)
      BY <2>1, <2>3, <3>1, CallEnds
    <3>3. QED
      BY <3>1, <3>2, KeyTypes DEF ContractStep, Contract!Next
  <2>4. QED
    BY <1>1, <2>2, <2>3, CancelBoundCallDoes
<1>2. CASE FreeBoundBorrower
  <2>1. sweep.step = "freeBorrower" /\ UNCHANGED calls
    BY <1>2, FreeBoundBorrowerDoes
  <2>2. PICK key \in CallKeys : key = sweep.item.call
    BY <2>1, ItemTypes DEF BookingInv
  <2>3. PICK b \in Borrowers : b = key.borrower
    BY <2>2, KeyTypes
  <2>4. /\ \A x \in Borrowers \ {b} : borrowers'[x] = borrowers[x]
        /\ borrowers'[b] = borrowers[b] \/ Returned(b, 1)
    BY <1>2, <2>2, <2>3, FreeBoundBorrowerDoes
  <2>5. CASE borrowers'[b] = borrowers[b]
    <3>1. \A x \in Borrowers : borrowers'[x] = borrowers[x]
      BY <2>4, <2>5
    <3>2. QED
      BY <2>1, <3>1, ActiveAside, ContractAside DEF ContractStep
  <2>6. CASE Returned(b, 1)
    <3>1. IsTerminal(calls[key].state)
      BY <2>1, <2>2 DEF BookingInv, SweepBooked
    <3>2. \A k \in FindActive : k.borrower # b
      BY <2>1, <2>2, <2>3, BorrowerClaimsApart DEF BookingInv, BorrowersBooked
    <3>3. key.attempt = borrowers[b].attempts + 1
      <4>1. SweepBorrowerClaim(key) \in BorrowerClaims
        BY <2>1, <2>2, BorrowerClaimKinds
      <4>2. /\ SweepBorrowerClaim(key).of = b
            /\ SweepBorrowerClaim(key).attempt = key.attempt
        BY <2>3 DEF SweepBorrowerClaim
      <4>3. QED
        BY <4>1, <4>2 DEF BookingInv, BorrowersBooked
    <3>4. \E reached \in BOOLEAN : Contract!Conclude(b, reached)
      BY <2>1, <2>3, <2>4, <2>6, <3>1, <3>2, <3>3, BorrowerConcludes
    <3>5. QED
      BY <3>4 DEF ContractStep, Contract!Next
  <2>7. QED
    BY <2>4, <2>5, <2>6
<1>3. ASSUME NEW b \in sweep.todo, SweepBorrower(b)
      PROVE  ContractStep
  <2>1. /\ UNCHANGED calls /\ b \in Borrowers
        /\ \A x \in Borrowers \ {b} : borrowers'[x] = borrowers[x]
        /\ borrowers'[b] = borrowers[b] \/ Returned(b, 0)
    BY <1>3, SweepBorrowerDoes
  <2>2. \A x \in Borrowers :
          /\ borrowers'[x].attempts = borrowers[x].attempts
          /\ \/ borrowers'[x].status = borrowers[x].status
             \/ {borrowers[x].status, borrowers'[x].status} \subseteq
                  {"PENDING", "RESERVED"}
    <3>1. borrowers[b].attempts \in Nat
      BY <2>1, AttemptsAreOver
    <3>2. QED
      BY <2>1, <3>1 DEF Returned
  <2>3. QED
    BY <2>1, <2>2, ActiveAside, ContractAside DEF ContractStep
<1>4. ASSUME UNCHANGED <<borrowers, calls>>
      PROVE  ContractStep
  BY <1>4, ActiveAside, ContractAside DEF ContractStep
<1>5. ASSUME NEW item \in sweep.todo, ReleaseStuckWrapUp(item)
      PROVE  UNCHANGED <<borrowers, calls>>
  BY <1>5 DEF ReleaseStuckWrapUp
<1>6. NextSweep \/ ReclaimAgent => UNCHANGED <<borrowers, calls>>
  BY DEF NextSweep, ReclaimAgent, storeVars
<1>7. QED
  BY <1>1, <1>2, <1>3, <1>4, <1>5, <1>6, RecoveryDoes

LEMMA OthersKeepContract ==
  ASSUME WellBehaved, BookingInv,
         \/ \E a \in Agents : Session(a) \/ WrapUpEnds(a)
         \/ \E b \in Borrowers : Backoff(b)
         \/ Tick \/ UNCHANGED vars
  PROVE  ContractStep
<1>1. ASSUME \A k \in CallKeys : calls'[k].state = calls[k].state,
             \A b \in Borrowers :
               /\ borrowers'[b].status = borrowers[b].status
               /\ borrowers'[b].attempts = borrowers[b].attempts
      PROVE  ContractStep
  <2>1. FindActive' = FindActive
    BY <1>1 DEF FindActive
  <2>2. QED
    BY <1>1, <2>1, ContractAside DEF ContractStep
<1>2. ASSUME NEW a \in Agents, Session(a) \/ WrapUpEnds(a)
      PROVE  ContractStep
  BY <1>1, <1>2, AgentActionDoes
<1>3. ASSUME NEW b \in Borrowers, Backoff(b)
      PROVE  ContractStep
  <2>1. borrowers[b] \in BorrowerDocuments
    BY Types DEF BookingInv
  <2>2. /\ UNCHANGED calls
        /\ \A x \in Borrowers \ {b} : borrowers'[x] = borrowers[x]
        /\ borrowers'[b] = [borrowers[b] EXCEPT !.due = TRUE]
    BY <1>3, BackoffDoes
  <2>3. /\ borrowers'[b].status = borrowers[b].status
        /\ borrowers'[b].attempts = borrowers[b].attempts
    BY <2>1, <2>2 DEF BorrowerDocuments
  <2>4. QED
    BY <1>1, <2>2, <2>3
<1>4. CASE Tick
  BY <1>1, <1>4, TickDoes
<1>5. CASE UNCHANGED vars
  BY <1>1, <1>5 DEF vars, storeVars
<1>6. QED
  BY <1>2, <1>3, <1>4, <1>5

(* The running program implements the contract of the campaign: a worker   *)
(* engages a free agent and a borrower still to be reached, whoever ends   *)
(* the call parts them, and every call that is over counts once.           *)
THEOREM CampaignKeepsItsContract ==
  ASSUME WellBehaved, IsFiniteSet(Agents)
  PROVE  Spec => CampaignContractIsKept
<1>1. Init => Contract!Init
  <2> SUFFICES ASSUME Init PROVE Contract!Init
    OBVIOUS
  <2>1. \A k \in CallKeys : calls[k].state = "ABSENT"
    BY DEF Init, StoreInit
  <2>2. FindActive = {} /\ \A b : Over(b) = {}
    BY <2>1 DEF FindActive, CallStates, Over, IsTerminal, TerminalCallStates
  <2>3. \A b \in Borrowers :
          borrowers[b].attempts = 0 /\ borrowers[b].status = "PENDING"
    BY DEF Init, StoreInit
  <2>4. \A b \in Borrowers : Cardinality(Over(b)) = 0
    BY <2>2, FS_EmptySet
  <2>5. QED
    BY <2>2, <2>3, <2>4 DEF Contract!Init, Over
<1>2. ASSUME BookingInv, [Next]_vars
      PROVE  [Contract!Next]_(Contract!vars)
  <2>1. ContractStep
    BY <1>2, StepKinds, DialKeepsContract, ProcessorKeepsContract,
       RecoveryKeepsContract, OthersKeepContract
  <2>2. QED
    BY <2>1 DEF ContractStep
<1>3. QED
  BY <1>1, <1>2, BookingInvariance, PTL
  DEF Spec, CampaignContractIsKept, Contract!Spec

=============================================================================
