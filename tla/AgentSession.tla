---------------------------- MODULE AgentSession ----------------------------
(***************************************************************************)
(* What agents do through the API (app/api/routes_agents.py) and what      *)
(* happens to their heartbeat.  The API reads the document and updates it  *)
(* by compare-and-set; an action that loses the race answers 409 and       *)
(* changes nothing, so one that succeeds is one step.                      *)
(***************************************************************************)
EXTENDS DialerStore

CONSTANT
  SessionActions  \* bound: which of the actions below agents take

ASSUME SessionAssumption ==
  SessionActions \subseteq {"login", "logout", "leave", "pause", "resume",
                            "silence"}

(* agent_action: AGENT_ACTIONS as actor AGENT.                             *)
AgentAction(a, target) ==
  /\ ValidTransition(agents[a].state, target, "AGENT")
  /\ TransitionAgent(a, agents[a].state, target, "AGENT", agents[a].version)
  /\ UNCHANGED <<borrowers, calls>>

(* The heartbeat the handler writes next is a Heartbeat, below.            *)
Login(a) == "login" \in SessionActions /\ AgentAction(a, "AVAILABLE")

(* Bound to a call or about to be.                                         *)
HasCall(a) == agents[a].state \in {"RESERVED", "DIALING", "CONNECTED"}

(* Logging out between calls, or ("leave") with a reservation or a call.   *)
Logout(a) ==
  /\ IF HasCall(a) THEN "leave" \in SessionActions
                   ELSE "logout" \in SessionActions
  /\ AgentAction(a, "OFFLINE")

Pause(a) == "pause" \in SessionActions /\ AgentAction(a, "PAUSED")

(* To the state machine this is the same request as a login: it also       *)
(* brings an OFFLINE agent back, but no heartbeat follows.                 *)
Resume(a) == "resume" \in SessionActions /\ AgentAction(a, "AVAILABLE")

(* The agent's browser is gone for AGENT_HEARTBEAT_TIMEOUT_SECONDS, or     *)
(* back again.                                                             *)
FallSilent(a) ==
  /\ "silence" \in SessionActions
  /\ agents[a].alive
  /\ agents[a].state # "OFFLINE"
  /\ SetAlive(a, FALSE)
  /\ UNCHANGED <<borrowers, calls>>

Heartbeat(a) ==
  /\ ~agents[a].alive
  /\ SetAlive(a, TRUE)
  /\ UNCHANGED <<borrowers, calls>>

SessionStep(a) ==
  \/ Login(a) \/ Logout(a) \/ Pause(a) \/ Resume(a)
  \/ Heartbeat(a)

=============================================================================
