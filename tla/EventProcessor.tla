--------------------------- MODULE EventProcessor ---------------------------
(***************************************************************************)
(* EventProcessor.process_event (app/services/event_processor.py), run by  *)
(* the delivery task of each line, one action per database operation.  The *)
(* events of one line are processed one after the other; those of          *)
(* different lines, the dialer and the recovery worker interleave.         *)
(***************************************************************************)
EXTENDS MockProvider

VARIABLE
  recorded      \* the provider_events collection, by provider_event_id

(* Mutation: an ANSWERED event releases as well.                           *)
AnsweredReleasesToo == {"ANSWERED", "COMPLETED", "FAILED", "CANCELLED"}

AgentReleasingCallStates == {"COMPLETED", "FAILED", "CANCELLED"}

EventIds == (1..MaxLines) \X (1..4)

EventProcessorTypeOK == recorded \in SUBSET EventIds

EventProcessorInit == recorded = {}

Handler(l) == lines[l].handler

(* The agent a handler acts on is that of the call it found.               *)
HandlerAgent(l) == Handler(l).call.agent

MoveHandler(l, handler) ==
  /\ lines' = [lines EXCEPT ![l].handler = handler]
  /\ UNCHANGED <<nextLine, asked>>

AfterAgent(l) ==
  IF Handler(l).target \in AgentReleasingCallStates
  THEN [Handler(l) EXCEPT !.pc = "freeBorrower"]
  ELSE IdleHandler

(* record_event, then the lookup of the call and should_apply_event.  A    *)
(* duplicate, an event for no call and one that does not apply change      *)
(* nothing else.                                                           *)
ReceiveEvent(l) ==
  /\ HasEvent(l)
  /\ LET event == NextEvent(l)
         id    == <<l, event.index>>
         found == {k \in FindByProviderCallId(l) :
                     ShouldApplyEvent(calls[k].state, event.type) = "APPLY"}
     IN  /\ recorded' = recorded \cup {id}
         /\ IF id \in recorded \/ found = {}
            THEN Deliver(l, IdleHandler)
            ELSE \E k \in found :
                   Deliver(l, [IdleHandler EXCEPT !.pc = "applyCall",
                                                  !.call = k,
                                                  !.target = event.type])
  /\ UNCHANGED storeVars

(* transition_call; losing the race ends the event.                        *)
ApplyCall(l) ==
  /\ Handler(l).pc = "applyCall"
  /\ TransitionCall(Handler(l).call, Handler(l).target)
  /\ MoveHandler(l,
       IF TransitionCallMatches(Handler(l).call, Handler(l).target)
       THEN [Handler(l) EXCEPT !.pc = "readAgent"]
       ELSE IdleHandler)
  /\ UNCHANGED <<agents, borrowers, recorded>>

(* _apply_agent_transition reads the agent; one already there is left.     *)
ReadAgent(l) ==
  /\ Handler(l).pc = "readAgent"
  /\ LET agent == agents[HandlerAgent(l)]
     IN  MoveHandler(l,
           IF agent.state = AgentStateForCallState[Handler(l).target]
           THEN AfterAgent(l)
           ELSE [Handler(l) EXCEPT !.pc = "moveAgent",
                                   !.seenState = agent.state,
                                   !.seenVersion = agent.version])
  /\ UNCHANGED <<storeVars, recorded>>

(* release_agent for a terminal event, transition_agent otherwise; neither *)
(* result changes what follows.                                            *)
MoveAgent(l) ==
  /\ Handler(l).pc = "moveAgent"
  /\ LET target == AgentStateForCallState[Handler(l).target]
     IN  IF Handler(l).target \in AgentReleasingCallStates
         THEN ReleaseAgent(HandlerAgent(l), calls[Handler(l).call].by, target,
                           "EVENT_PROCESSOR")
         ELSE TransitionAgent(HandlerAgent(l), Handler(l).seenState, target,
                              "EVENT_PROCESSOR", Handler(l).seenVersion)
  /\ MoveHandler(l, AfterAgent(l))
  /\ UNCHANGED <<borrowers, calls, recorded>>

(* Mutation: every completed call counts as a contact.                     *)
SettleCompletedBorrower(l) ==
  /\ Handler(l).pc = "freeBorrower"
  /\ LET k == Handler(l).call
     IN  ReleaseBorrower(k.borrower, calls[k].by,
                         IF Handler(l).target = "COMPLETED"
                         THEN "CONTACTED" ELSE "RETRY")
  /\ MoveHandler(l, IdleHandler)
  /\ UNCHANGED <<agents, calls, recorded>>

(* _release_borrower: contacted means completed after an ANSWERED event.   *)
SettleBorrower(l) ==
  /\ Handler(l).pc = "freeBorrower"
  /\ LET k == Handler(l).call
         answered == Handler(l).target = "COMPLETED" /\ calls[k].answered
     IN  ReleaseBorrower(k.borrower, calls[k].by,
                         IF answered THEN "CONTACTED" ELSE "RETRY")
  /\ MoveHandler(l, IdleHandler)
  /\ UNCHANGED <<agents, calls, recorded>>

(* The last event has been processed.                                      *)
Finish(l) == LineEnds(l) /\ UNCHANGED <<storeVars, recorded>>

EventStep(l) ==
  \/ ReceiveEvent(l) \/ ApplyCall(l) \/ ReadAgent(l) \/ MoveAgent(l)
  \/ SettleBorrower(l) \/ Finish(l)

(* An exception after record_event is swallowed: the event stays recorded  *)
(* and the rest of its effects are lost.                                   *)
HandlerFails(l) ==
  /\ \/ /\ HasEvent(l)
        /\ recorded' = recorded \cup {<<l, NextEvent(l).index>>}
        /\ Deliver(l, IdleHandler)
     \/ /\ Handler(l).pc # "idle"
        /\ MoveHandler(l, IdleHandler)
        /\ UNCHANGED recorded
  /\ UNCHANGED storeVars

(* One in record_event or mark_processed is not.                           *)
HandlerKillsDelivery(l) == DeliveryDies(l) /\ UNCHANGED <<storeVars, recorded>>

=============================================================================
