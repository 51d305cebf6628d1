-------------------------- MODULE CallStateMachine --------------------------
(***************************************************************************)
(* The call state machine of app/state_machines/call_sm.py: ranks, terminal*)
(* states, legal transitions, the decision on a provider event, and the    *)
(* agent state a call state implies.                                       *)
(***************************************************************************)
EXTENDS Naturals

CallStates == {"QUEUED", "RESERVED", "INITIATED", "RINGING", "ANSWERED",
               "CONNECTED", "COMPLETED", "FAILED", "CANCELLED"}

TerminalCallStates == {"COMPLETED", "FAILED", "CANCELLED"}

(* CALL_STATE_RANK.                                                        *)
CallStateRank ==
  [QUEUED |-> 0, RESERVED |-> 1, INITIATED |-> 2, RINGING |-> 3,
   ANSWERED |-> 4, CONNECTED |-> 5, COMPLETED |-> 6, FAILED |-> 6,
   CANCELLED |-> 6]

IsTerminal(state) == state \in TerminalCallStates

(* CALL_TRANSITIONS: the legal targets of each state.                      *)
CallTransitions ==
  [QUEUED    |-> {"RESERVED", "INITIATED", "FAILED", "CANCELLED"},
   RESERVED  |-> {"INITIATED", "FAILED", "CANCELLED"},
   INITIATED |-> {"RINGING", "ANSWERED", "CONNECTED"} \cup TerminalCallStates,
   RINGING   |-> {"ANSWERED", "CONNECTED"} \cup TerminalCallStates,
   ANSWERED  |-> {"CONNECTED"} \cup TerminalCallStates,
   CONNECTED |-> TerminalCallStates,
   COMPLETED |-> {},
   FAILED    |-> {},
   CANCELLED |-> {}]

CanTransitionCall(current, target) == target \in CallTransitions[current]

(* should_apply_event: the four answers, in the order the code tests them. *)
ShouldApplyEvent(current, target) ==
  IF IsTerminal(current) THEN "IGNORE_TERMINAL"
  ELSE IF CallStateRank[target] <= CallStateRank[current] THEN "IGNORE_STALE"
  ELSE IF ~CanTransitionCall(current, target) THEN "IGNORE_INVALID"
  ELSE "APPLY"

(* AGENT_STATE_FOR_CALL_STATE; QUEUED and RESERVED imply no agent state.   *)
AgentStateForCallState ==
  [INITIATED |-> "DIALING", RINGING |-> "DIALING", ANSWERED |-> "CONNECTED",
   CONNECTED |-> "CONNECTED", COMPLETED |-> "WRAP_UP",
   FAILED |-> "AVAILABLE", CANCELLED |-> "AVAILABLE"]

=============================================================================
