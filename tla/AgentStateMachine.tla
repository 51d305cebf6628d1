------------------------- MODULE AgentStateMachine -------------------------
(***************************************************************************)
(* The agent state machine of app/state_machines/agent_sm.py: which        *)
(* transitions are legal, which actor may make each, and the questions the *)
(* repositories ask of the tables.                                         *)
(***************************************************************************)

AgentStates == {"OFFLINE", "AVAILABLE", "RESERVED", "DIALING", "CONNECTED",
                "WRAP_UP", "PAUSED"}

TransitionActors == {"ALLOCATOR", "EVENT_PROCESSOR", "RECOVERY", "AGENT",
                     "WORKER_TIMER"}

(* AGENT_TRANSITIONS: the legal targets of each state.                     *)
AgentTransitions ==
  [OFFLINE   |-> {"AVAILABLE"},
   AVAILABLE |-> {"RESERVED", "PAUSED", "OFFLINE"},
   RESERVED  |-> {"DIALING", "AVAILABLE", "OFFLINE"},
   DIALING   |-> {"CONNECTED", "AVAILABLE", "OFFLINE"},
   CONNECTED |-> {"WRAP_UP", "AVAILABLE", "OFFLINE"},
   WRAP_UP   |-> {"AVAILABLE", "PAUSED", "OFFLINE"},
   PAUSED    |-> {"AVAILABLE", "OFFLINE"}]

(* TRANSITION_ACTORS, as the set of authorised <<from, to, actor>>.        *)
Authorised ==
  UNION {
    (AgentStates \ {"OFFLINE"}) \X {"OFFLINE"} \X {"AGENT", "RECOVERY"},
    {"OFFLINE", "PAUSED"} \X {"AVAILABLE"} \X {"AGENT"},
    {"AVAILABLE", "WRAP_UP"} \X {"PAUSED"} \X {"AGENT"},
    {<<"AVAILABLE", "RESERVED", "ALLOCATOR">>,
     <<"RESERVED", "DIALING", "ALLOCATOR">>,
     <<"DIALING", "CONNECTED", "EVENT_PROCESSOR">>,
     <<"CONNECTED", "WRAP_UP", "EVENT_PROCESSOR">>,
     <<"WRAP_UP", "AVAILABLE", "WORKER_TIMER">>},
    {"RESERVED", "DIALING"} \X {"AVAILABLE"} \X {"ALLOCATOR"},
    {"DIALING", "CONNECTED"} \X {"AVAILABLE"} \X {"EVENT_PROCESSOR"},
    {"RESERVED", "DIALING", "CONNECTED", "WRAP_UP"}
        \X {"AVAILABLE"} \X {"RECOVERY"}}

CanTransition(current, target) == target \in AgentTransitions[current]

IsActorAllowed(current, target, actor) ==
  <<current, target, actor>> \in Authorised

(* validate_transition raises unless both tables agree.                    *)
ValidTransition(current, target, actor) ==
  CanTransition(current, target) /\ IsActorAllowed(current, target, actor)

AllowedSources(target, actor) ==
  {s \in AgentStates : ValidTransition(s, target, actor)}

BusyAgentStates == {"RESERVED", "DIALING", "CONNECTED", "WRAP_UP"}

CountsAsBusy(state) == state \in BusyAgentStates

=============================================================================
