-------------------------- MODULE SafetyController --------------------------
(***************************************************************************)
(* How many of the requested calls a tick may place: SafetyController      *)
(* ._evaluate (app/safety/safety_controller.py).  It looks at capacity it  *)
(* read from the database itself; of the request it takes the number and   *)
(* the mode.  A reading is                                                 *)
(*   available, reserved  agents in those states                           *)
(*   active, ringing      calls of the campaign in ACTIVE_CALL_STATES, and *)
(*                        those that ring                                  *)
(*   expired              agent leases that ran out                        *)
(*   failing              system failures exceed the threshold             *)
(*   dropped              AVAILABLE fell by more than the threshold        *)
(*   tooOld               the snapshot behind the request is               *)
(*   health               the status of the carrier                        *)
(***************************************************************************)
EXTENDS Integers, FiniteSetsExt

CONSTANTS
  MaxConcurrentCalls,   \* campaign.max_concurrent_calls
  MaxRingingRatio       \* MAX_RINGING_RATIO, in percent

ASSUME SafetyAssumption ==
  MaxConcurrentCalls \in Nat /\ MaxRingingRatio \in Nat

HealthStatuses == {"HEALTHY", "DEGRADED", "UNHEALTHY"}

Readings ==
  [available : Nat, reserved : Nat, active : Nat, ringing : Nat,
   expired : Nat, failing : BOOLEAN, dropped : BOOLEAN, tooOld : BOOLEAN,
   health : HealthStatuses]

(* max(0, m - n)                                                           *)
Left(m, n) == IF m > n THEN m - n ELSE 0

RingingCeiling(reading) == (MaxRingingRatio * reading.available) \div 100

IsStale(reading) == reading.tooOld \/ reading.expired > 0

(* Mutation: calls that do not ring yet are not counted.                   *)
LimitsOnRinging(requested, mode, reading) ==
  [agent_capacity       |-> Left(reading.available, reading.reserved),
   campaign_concurrency |-> Left(MaxConcurrentCalls, reading.ringing),
   ringing_ceiling      |-> Left(RingingCeiling(reading), reading.ringing),
   provider_health      |->
     CASE reading.health = "UNHEALTHY" -> 0
       [] reading.health = "DEGRADED"  -> reading.available
       [] OTHER                        -> requested,
   progressive_mode_cap |->
     IF mode = "PROGRESSIVE" THEN reading.available ELSE requested,
   stale_state          |-> IF IsStale(reading) THEN 0 ELSE requested,
   availability_drop    |->
     IF reading.dropped THEN reading.available ELSE requested,
   failure_rate         |->
     IF reading.failing THEN reading.available ELSE requested]

(* _build_constraints: falling back to progressive dialing is a limit of   *)
(* one call per AVAILABLE agent.                                           *)
Limits(requested, mode, reading) ==
  [agent_capacity       |-> Left(reading.available, reading.reserved),
   campaign_concurrency |-> Left(MaxConcurrentCalls, reading.active),
   ringing_ceiling      |-> Left(RingingCeiling(reading), reading.ringing),
   provider_health      |->
     CASE reading.health = "UNHEALTHY" -> 0
       [] reading.health = "DEGRADED"  -> reading.available
       [] OTHER                        -> requested,
   progressive_mode_cap |->
     IF mode = "PROGRESSIVE" THEN reading.available ELSE requested,
   stale_state          |-> IF IsStale(reading) THEN 0 ELSE requested,
   availability_drop    |->
     IF reading.dropped THEN reading.available ELSE requested,
   failure_rate         |->
     IF reading.failing THEN reading.available ELSE requested]

LimitValues(requested, mode, reading) ==
  LET limits == Limits(requested, mode, reading)
  IN  {limits[c] : c \in DOMAIN limits}

Approved(requested, mode, reading) ==
  Min({requested} \cup LimitValues(requested, mode, reading))

-----------------------------------------------------------------------------
(* What the record of a decision says of it.                               *)

(* should_fallback_to_progressive: the first reason that applies.          *)
FallbackReason(reading) ==
  IF      IsStale(reading)                           THEN "stale_state"
  ELSE IF reading.health # "HEALTHY"                 THEN "provider_degraded"
  ELSE IF reading.dropped                            THEN "availability_drop"
  ELSE IF reading.ringing > RingingCeiling(reading)  THEN "excessive_ringing"
  ELSE IF reading.failing                            THEN "high_failure_rate"
  ELSE "none"

(* The order in which _build_constraints lists them.                       *)
Constraints ==
  <<"agent_capacity", "campaign_concurrency", "ringing_ceiling",
    "provider_health", "progressive_mode_cap", "stale_state",
    "availability_drop", "failure_rate">>

(* _mark_binding: of a request that is cut, the first limit it is cut to.  *)
Binding(requested, mode, reading) ==
  LET approved == Approved(requested, mode, reading)
      limits   == Limits(requested, mode, reading)
      cutHere  == {i \in DOMAIN Constraints :
                     limits[Constraints[i]] = approved}
  IN  IF approved >= requested \/ cutHere = {} THEN "none"
      ELSE Constraints[Min(cutHere)]

(* Mutation: the reason to fall back is looked at first.                   *)
VerdictFallbackFirst(requested, approved, reason) ==
  IF      requested = 0         THEN "APPROVED"
  ELSE IF reason # "none"       THEN "FALLBACK_PROGRESSIVE"
  ELSE IF approved = 0          THEN "REJECTED"
  ELSE IF approved < requested  THEN "REDUCED"
  ELSE "APPROVED"

Verdict(requested, approved, reason) ==
  IF      requested = 0                    THEN "APPROVED"
  ELSE IF approved > 0 /\ reason # "none"  THEN "FALLBACK_PROGRESSIVE"
  ELSE IF approved = 0                     THEN "REJECTED"
  ELSE IF approved < requested             THEN "REDUCED"
  ELSE "APPROVED"

(* What the record says is so.  Of a request that is cut it names a limit, *)
(* and never one of those that fall back to progressive dialing (a carrier *)
(* only if UNHEALTHY); falling back is the verdict only on calls that may  *)
(* be placed, one per AVAILABLE agent at most, and never for stale state   *)
(* or excessive ringing, on which nothing is approved at all.              *)
RecordIsTrue(requested, mode, reading) ==
  LET approved == Approved(requested, mode, reading)
      binding  == Binding(requested, mode, reading)
      verdict  == Verdict(requested, approved, FallbackReason(reading))
  IN  /\ (binding = "none") <=> (approved = requested)
      /\ binding \notin {"progressive_mode_cap", "availability_drop",
                         "failure_rate"}
      /\ binding = "provider_health" => reading.health = "UNHEALTHY"
      /\ verdict = "REJECTED" => binding # "none"
      /\ verdict = "FALLBACK_PROGRESSIVE" =>
           /\ approved \in 1..reading.available
           /\ FallbackReason(reading) \in
                {"provider_degraded", "availability_drop", "high_failure_rate"}

=============================================================================
