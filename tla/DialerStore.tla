---------------------------- MODULE DialerStore ----------------------------
(***************************************************************************)
(* The MongoDB documents of one running campaign and the repository        *)
(* operations on them (app/repositories/).  Every operation is one         *)
(* conditional find_one_and_update: it is atomic, and it leaves the        *)
(* document alone when its filter does not match.  An operator X below is  *)
(* that whole operation; XMatches is its filter, which a caller that looks *)
(* at the result uses to know whether the update was applied.              *)
(*                                                                         *)
(* A lease_expires_at is the number of ticks left, a call's updated_at the *)
(* number of ticks left before it counts as stale.  next_eligible_at is    *)
(* the bit "due".                                                          *)
(*                                                                         *)
(* Here and in the modules above, a definition headed "Mutation" is what a *)
(* plausible bug would make of the definition that follows it; nothing     *)
(* refers to it, and a run can be repeated with it in place.               *)
(***************************************************************************)
EXTENDS Integers, FiniteSets, AgentStateMachine, CallStateMachine

CONSTANTS
  Agents,       \* agent ids
  Borrowers,    \* borrower ids
  MaxAttempts,  \* MAX_CALL_ATTEMPTS
  TTL,          \* RESERVATION_TTL_SECONDS, in ticks
  StaleAfter,   \* CALL_STALE_TIMEOUT_SECONDS, in ticks
  None          \* Python's None

ASSUME StoreAssumption ==
  /\ MaxAttempts \in Nat \ {0}
  /\ TTL \in Nat \ {0}
  /\ StaleAfter \in Nat \ {0}
  /\ None \notin Agents \cup Borrowers \cup Nat

(* config.py refuses to start unless CALL_STALE_TIMEOUT_SECONDS exceeds    *)
(* PROVIDER_TIMEOUT_SECONDS + RESERVATION_TTL_SECONDS.                     *)
ASSUME RecoveryTimeoutAssumption == StaleAfter > TTL

VARIABLES
  agents,       \* the agents collection
  borrowers,    \* the borrowers collection
  calls         \* the calls collection, by idempotency key

storeVars == <<agents, borrowers, calls>>

WorkerIds == Nat \ {0}
LineIds == Nat \ {0}

BorrowerStatuses == {"PENDING", "RESERVED", "CONTACTED", "EXHAUSTED"}

(* build_idempotency_key: the calls collection is unique on it, so a call  *)
(* is named by its key.                                                    *)
CallKeys == [agent : Agents, borrower : Borrowers, attempt : 1..MaxAttempts]

ASSUME NoneAssumption == None \notin CallKeys

IdempotencyKey(a, b, n) == [agent |-> a, borrower |-> b, attempt |-> n]

AgentDocuments ==
  [state : AgentStates, reservedBy : WorkerIds \cup {None},
   lease : 0..TTL \cup {None}, call : CallKeys \cup {None},
   version : Nat, alive : BOOLEAN]

BorrowerDocuments ==
  [status : BorrowerStatuses, reservedBy : WorkerIds \cup {None},
   lease : 0..TTL \cup {None}, attempts : 0..MaxAttempts, due : BOOLEAN]

(* "ABSENT" is a key for which no call was created yet.                    *)
CallDocuments ==
  [state : CallStates \cup {"ABSENT"}, by : WorkerIds \cup {None},
   line : LineIds \cup {None}, answered : BOOLEAN, idle : 0..StaleAfter]

StoreTypeOK ==
  /\ agents \in [Agents -> AgentDocuments]
  /\ borrowers \in [Borrowers -> BorrowerDocuments]
  /\ calls \in [CallKeys -> CallDocuments]

(* Agents log in before the campaign starts, borrowers are imported.       *)
StoreInit ==
  /\ agents = [a \in Agents |->
       [state |-> "AVAILABLE", reservedBy |-> None, lease |-> None,
        call |-> None, version |-> 0, alive |-> TRUE]]
  /\ borrowers = [b \in Borrowers |->
       [status |-> "PENDING", reservedBy |-> None, lease |-> None,
        attempts |-> 0, due |-> TRUE]]
  /\ calls = [k \in CallKeys |->
       [state |-> "ABSENT", by |-> None, line |-> None, answered |-> FALSE,
        idle |-> 0]]

-----------------------------------------------------------------------------
(* AgentRepository                                                         *)

(* cleared_lease_fields, together with current_call_id, on a version bump. *)
Unbound(doc, state) ==
  [doc EXCEPT !.state = state, !.reservedBy = None, !.lease = None,
              !.call = None, !.version = @ + 1]

(* Mutation: any claimable-looking agent, a RESERVED one too.              *)
TryReserveTakenAgentMatches(a) == agents[a].state \in {"AVAILABLE", "RESERVED"}

(* try_reserve_agent: current_call_id is left as it is.                    *)
TryReserveAgentMatches(a) == agents[a].state = "AVAILABLE"

TryReserveAgent(a, worker) ==
  /\ TryReserveAgentMatches(a)
  /\ agents' = [agents EXCEPT ![a].state = "RESERVED",
                              ![a].reservedBy = worker,
                              ![a].lease = TTL,
                              ![a].version = @ + 1]

(* Mutation: the source states are not looked at.                          *)
ReleaseAgentByWorkerOnly(a, worker, target, actor) ==
  agents[a].reservedBy = worker

(* release_agent: keyed by the worker id and the source states the actor   *)
(* may leave, by neither the call nor the version.                         *)
ReleaseAgentMatches(a, worker, target, actor) ==
  /\ agents[a].reservedBy = worker
  /\ agents[a].state \in AllowedSources(target, actor)

ReleaseAgent(a, worker, target, actor) ==
  agents' = IF ReleaseAgentMatches(a, worker, target, actor)
            THEN [agents EXCEPT ![a] = Unbound(@, target)]
            ELSE agents

(* Mutation: no compare-and-set.                                           *)
TransitionAgentUncompared(a, from, to, actor, version) ==
  ValidTransition(from, to, actor)

(* transition_agent: compare-and-set on state and version; the lease and   *)
(* current_call_id are kept.  An illegal transition raises.                *)
TransitionAgentMatches(a, from, to, actor, version) ==
  /\ ValidTransition(from, to, actor)
  /\ agents[a].state = from
  /\ agents[a].version = version

TransitionAgent(a, from, to, actor, version) ==
  agents' = IF TransitionAgentMatches(a, from, to, actor, version)
            THEN [agents EXCEPT ![a].state = to, ![a].version = @ + 1]
            ELSE agents

(* bind_call: any document the worker still has its name on.               *)
BindCall(a, worker, k) ==
  agents' = IF agents[a].reservedBy = worker
            THEN [agents EXCEPT ![a].call = k]
            ELSE agents

(* Mutation: an agent in a call is forgotten.                              *)
ExpiredSetUpLeases ==
  {a \in Agents : /\ agents[a].state \in {"RESERVED", "DIALING"}
                  /\ agents[a].reservedBy # None
                  /\ agents[a].lease = 0}

(* find_expired_agent_leases.                                              *)
ExpiredAgentLeases ==
  {a \in Agents :
     /\ agents[a].state \in AllowedSources("AVAILABLE", "RECOVERY")
     /\ agents[a].reservedBy # None
     /\ agents[a].lease = 0}

(* release_expired_agent_lease, on a document read earlier.                *)
ReleaseExpiredAgentLease(a, state, version) ==
  agents' = IF /\ agents[a].state = state
               /\ agents[a].version = version
               /\ agents[a].lease = 0
            THEN [agents EXCEPT ![a] = Unbound(@, "AVAILABLE")]
            ELSE agents

(* heartbeat, and its absence for AGENT_HEARTBEAT_TIMEOUT_SECONDS.         *)
SetAlive(a, alive) == agents' = [agents EXCEPT ![a].alive = alive]

-----------------------------------------------------------------------------
(* BorrowerRepository                                                      *)

(* Mutation: whoever is not RESERVED.                                      *)
TryReserveFreeBorrowerMatches(b) ==
  borrowers[b].status # "RESERVED" /\ borrowers[b].due

(* Mutation: whatever the status.                                          *)
TryReserveDueBorrowerMatches(b) == borrowers[b].due

(* try_reserve_borrower.                                                   *)
TryReserveBorrowerMatches(b) ==
  borrowers[b].status = "PENDING" /\ borrowers[b].due

TryReserveBorrower(b, worker) ==
  /\ TryReserveBorrowerMatches(b)
  /\ borrowers' = [borrowers EXCEPT ![b].status = "RESERVED",
                                    ![b].reservedBy = worker,
                                    ![b].lease = TTL]

(* Mutation: lease_expires_at is not cleared.                              *)
UnreservedKeepsLease(doc, status) ==
  [doc EXCEPT !.status = status, !.reservedBy = None]

Unreserved(doc, status) ==
  [doc EXCEPT !.status = status, !.reservedBy = None, !.lease = None]

(* Mutation: off by one in the limit on attempts.                          *)
ReleasedBorrowerOffByOne(doc, outcome) ==
  CASE outcome = "RELEASED"  -> Unreserved(doc, "PENDING")
    [] outcome = "CONTACTED" ->
         [Unreserved(doc, "CONTACTED") EXCEPT !.attempts = @ + 1]
    [] outcome = "RETRY"     ->
         LET n == doc.attempts + 1
         IN  [Unreserved(doc, IF n > MaxAttempts THEN "EXHAUSTED"
                                                 ELSE "PENDING")
                EXCEPT !.attempts = n, !.due = FALSE]

(* The document release_borrower writes for each outcome.  Only RETRY      *)
(* (_build_retry_update) can exhaust a borrower, and it pushes             *)
(* next_eligible_at into the future.                                       *)
ReleasedBorrower(doc, outcome) ==
  CASE outcome = "RELEASED"  -> Unreserved(doc, "PENDING")
    [] outcome = "CONTACTED" ->
         [Unreserved(doc, "CONTACTED") EXCEPT !.attempts = @ + 1]
    [] outcome = "RETRY"     ->
         LET n == doc.attempts + 1
         IN  [Unreserved(doc, IF n >= MaxAttempts THEN "EXHAUSTED"
                                                  ELSE "PENDING")
                EXCEPT !.attempts = n, !.due = FALSE]

(* RELEASABLE_STATUSES is RESERVED and IN_CALL, which nothing ever sets.   *)
ReleaseBorrowerMatches(b, worker) ==
  borrowers[b].reservedBy = worker /\ borrowers[b].status = "RESERVED"

ReleaseBorrower(b, worker, outcome) ==
  borrowers' = IF ReleaseBorrowerMatches(b, worker)
               THEN [borrowers EXCEPT ![b] = ReleasedBorrower(@, outcome)]
               ELSE borrowers

(* Mutation: the test on the owner is negated.                             *)
ExpiredUnheldLeases ==
  {b \in Borrowers : borrowers[b].status = "RESERVED" /\
                     borrowers[b].reservedBy = None}

(* reclaim_expired_borrower_leases: its query, and the update of one       *)
(* document.  A lease found expired is the same one later iff it still is. *)
ExpiredBorrowerLeases ==
  {b \in Borrowers : /\ borrowers[b].status = "RESERVED"
                     /\ borrowers[b].reservedBy # None
                     /\ borrowers[b].lease = 0}

ReclaimBorrower(b) ==
  borrowers' = IF b \in ExpiredBorrowerLeases
               THEN [borrowers EXCEPT
                       ![b] = [Unreserved(@, "PENDING") EXCEPT !.due = TRUE]]
               ELSE borrowers

(* Time reaching next_eligible_at.                                         *)
BackoffElapses(b) ==
  /\ ~borrowers[b].due
  /\ borrowers' = [borrowers EXCEPT ![b].due = TRUE]

-----------------------------------------------------------------------------
(* CallRepository                                                          *)

(* create_call: the unique index turns a second insert into a read.        *)
CreateCall(k, worker) ==
  calls' = IF calls[k].state = "ABSENT"
           THEN [calls EXCEPT ![k].state = "QUEUED", ![k].by = worker,
                              ![k].idle = StaleAfter]
           ELSE calls

(* Mutation: neither rank nor terminal flag in the filter.                 *)
TransitionCallUnguarded(k, target) == calls[k].state # "ABSENT"

(* transition_call: guarded by the rank and the terminal flag only.  The   *)
(* updated_at of a terminal call is never looked at again.                 *)
TransitionCallMatches(k, target) ==
  /\ calls[k].state \in CallStates \ TerminalCallStates
  /\ CallStateRank[calls[k].state] < CallStateRank[target]

TransitionCall(k, target) ==
  calls' = IF TransitionCallMatches(k, target)
           THEN [calls EXCEPT ![k].state = target,
                              ![k].answered = @ \/ target = "ANSWERED",
                              ![k].idle = IF IsTerminal(target) THEN 0
                                          ELSE StaleAfter]
           ELSE calls

(* attach_provider_call_id: only once per call, and unique among calls.    *)
AttachProviderCallIdMatches(k, line) ==
  calls[k].line = None /\ \A j \in CallKeys : calls[j].line # line

AttachProviderCallId(k, line) ==
  calls' = IF AttachProviderCallIdMatches(k, line)
           THEN [calls EXCEPT ![k].line = line, ![k].idle = StaleAfter]
           ELSE calls

(* find_by_provider_call_id, as a set of at most one.                      *)
FindByProviderCallId(line) == {k \in CallKeys : calls[k].line = line}

(* find_active.                                                            *)
FindActive ==
  {k \in CallKeys :
     calls[k].state \in CallStates \ (TerminalCallStates \cup {"QUEUED"})}

(* Mutation: the timeout does not leave room for the lease.                *)
FindStaleCallsWithinLease ==
  {k \in CallKeys : /\ calls[k].state \in CallStates \ TerminalCallStates
                    /\ calls[k].idle <= TTL}

(* Mutation: only calls that have a provider id.                           *)
FindStaleAttachedCalls ==
  {k \in CallKeys : /\ calls[k].state \in CallStates \ TerminalCallStates
                    /\ calls[k].line # None
                    /\ calls[k].idle = 0}

(* find_stale_calls.                                                       *)
FindStaleCalls ==
  {k \in CallKeys : /\ calls[k].state \in CallStates \ TerminalCallStates
                    /\ calls[k].idle = 0}

-----------------------------------------------------------------------------
(* The passage of one tick, for every lease and every updated_at.          *)

(* Mutation: the deadline is not clamped.                                  *)
ElapsedPastZero(timer) == IF timer = None THEN timer ELSE timer - 1

Elapsed(timer) == IF timer = None \/ timer = 0 THEN timer ELSE timer - 1

TickStore ==
  /\ agents' = [a \in Agents |-> [agents[a] EXCEPT !.lease = Elapsed(@)]]
  /\ borrowers' =
       [b \in Borrowers |-> [borrowers[b] EXCEPT !.lease = Elapsed(@)]]
  /\ calls' =
       [k \in CallKeys |-> [calls[k] EXCEPT !.idle = Elapsed(@)]]

=============================================================================
