----------------------- MODULE SafetyControllerProofs -----------------------
(***************************************************************************)
(* What a decision of the safety controller guarantees, for every request, *)
(* every reading and every setting.                                        *)
(***************************************************************************)
EXTENDS SafetyController, TLAPS

(* m is the least element of S.                                            *)
IsLeast(m, S) == m \in S /\ \A n \in S : m <= n

(* A set with a least element still has one when a number is added.        *)
LEMMA LeastOfMore ==
  ASSUME NEW S, S \subseteq Int, \E m \in S : IsLeast(m, S), NEW n \in Int
  PROVE  \E m \in S \cup {n} : IsLeast(m, S \cup {n})
<1>1. PICK m \in S : IsLeast(m, S)
  OBVIOUS
<1>2. CASE m <= n
  BY <1>1, <1>2 DEF IsLeast
<1>3. CASE n < m
  <2>1. \A k \in S : m <= k /\ k \in Int
    BY <1>1 DEF IsLeast
  <2>2. IsLeast(n, S \cup {n})
    BY <1>1, <1>3, <2>1 DEF IsLeast
  <2>3. QED
    BY <2>2
<1>4. QED
  BY <1>1, <1>2, <1>3

(* Min finds the least element if there is one.                            *)
LEMMA MinIsLeast ==
  ASSUME NEW S, \E m \in S : IsLeast(m, S)
  PROVE  IsLeast(Min(S), S)
BY DEF Min, IsLeast

(* There is only one least element.                                        *)
LEMMA LeastIsUnique ==
  ASSUME NEW S, S \subseteq Int, NEW m \in S, NEW n \in S,
         IsLeast(m, S), IsLeast(n, S)
  PROVE  m = n
BY DEF IsLeast

-----------------------------------------------------------------------------
(* The decision as the least of a handful of numbers.                      *)

LEMMA LimitsOK ==
  ASSUME NEW requested \in Nat, NEW mode, NEW reading \in Readings
  PROVE  /\ LimitValues(requested, mode, reading) =
              {Limits(requested, mode, reading).agent_capacity,
               Limits(requested, mode, reading).campaign_concurrency,
               Limits(requested, mode, reading).ringing_ceiling,
               Limits(requested, mode, reading).provider_health,
               Limits(requested, mode, reading).progressive_mode_cap,
               Limits(requested, mode, reading).stale_state,
               Limits(requested, mode, reading).availability_drop,
               Limits(requested, mode, reading).failure_rate}
         /\ LimitValues(requested, mode, reading) \subseteq Nat
<1>1. RingingCeiling(reading) \in Int
  BY SafetyAssumption DEF RingingCeiling, Readings
<1>2. LimitValues(requested, mode, reading) =
        {Limits(requested, mode, reading).agent_capacity,
         Limits(requested, mode, reading).campaign_concurrency,
         Limits(requested, mode, reading).ringing_ceiling,
         Limits(requested, mode, reading).provider_health,
         Limits(requested, mode, reading).progressive_mode_cap,
         Limits(requested, mode, reading).stale_state,
         Limits(requested, mode, reading).availability_drop,
         Limits(requested, mode, reading).failure_rate}
  BY DEF LimitValues, Limits
<1>3. /\ Limits(requested, mode, reading).agent_capacity \in Nat
      /\ Limits(requested, mode, reading).campaign_concurrency \in Nat
      /\ Limits(requested, mode, reading).ringing_ceiling \in Nat
      /\ Limits(requested, mode, reading).provider_health \in Nat
      /\ Limits(requested, mode, reading).progressive_mode_cap \in Nat
      /\ Limits(requested, mode, reading).stale_state \in Nat
      /\ Limits(requested, mode, reading).availability_drop \in Nat
      /\ Limits(requested, mode, reading).failure_rate \in Nat
  BY <1>1, SafetyAssumption DEF Limits, Left, Readings, HealthStatuses
<1>4. QED
  BY <1>2, <1>3

LEMMA ApprovedIsLeast ==
  ASSUME NEW requested \in Nat, NEW mode, NEW reading \in Readings
  PROVE  IsLeast(Approved(requested, mode, reading),
                 {requested} \cup LimitValues(requested, mode, reading))
<1> DEFINE L == Limits(requested, mode, reading)
           S1 == {requested} \cup {L.agent_capacity}
           S2 == S1 \cup {L.campaign_concurrency}
           S3 == S2 \cup {L.ringing_ceiling}
           S4 == S3 \cup {L.provider_health}
           S5 == S4 \cup {L.progressive_mode_cap}
           S6 == S5 \cup {L.stale_state}
           S7 == S6 \cup {L.availability_drop}
           S8 == S7 \cup {L.failure_rate}
<1>1. S8 = {requested} \cup LimitValues(requested, mode, reading)
  BY LimitsOK
<1>2. S8 \subseteq Int
  BY <1>1, LimitsOK
<1> HIDE DEF L
<1>3. \E m \in {requested} : IsLeast(m, {requested})
  BY DEF IsLeast
<1>4. \E m \in S1 : IsLeast(m, S1)
  BY ONLY <1>2, <1>3, LeastOfMore
<1>5. \E m \in S2 : IsLeast(m, S2)
  BY ONLY <1>2, <1>4, LeastOfMore
<1>6. \E m \in S3 : IsLeast(m, S3)
  BY ONLY <1>2, <1>5, LeastOfMore
<1>7. \E m \in S4 : IsLeast(m, S4)
  BY ONLY <1>2, <1>6, LeastOfMore
<1>8. \E m \in S5 : IsLeast(m, S5)
  BY ONLY <1>2, <1>7, LeastOfMore
<1>9. \E m \in S6 : IsLeast(m, S6)
  BY ONLY <1>2, <1>8, LeastOfMore
<1>10. \E m \in S7 : IsLeast(m, S7)
  BY ONLY <1>2, <1>9, LeastOfMore
<1>11. \E m \in S8 : IsLeast(m, S8)
  BY ONLY <1>2, <1>10, LeastOfMore
<1>12. QED
  BY <1>1, <1>11, MinIsLeast DEF Approved

(* Every limit is kept.                                                    *)
LEMMA ApprovedOK ==
  ASSUME NEW requested \in Nat, NEW mode, NEW reading \in Readings
  PROVE  /\ Approved(requested, mode, reading) \in Nat
         /\ Approved(requested, mode, reading) <= requested
         /\ \A n \in LimitValues(requested, mode, reading) :
              Approved(requested, mode, reading) <= n
BY ApprovedIsLeast, LimitsOK DEF IsLeast

-----------------------------------------------------------------------------

(* No decision approves more calls than were requested, than agents are    *)
(* free and not spoken for, or than the campaign may still place; and none *)
(* approves a call when the carrier is UNHEALTHY or the state is stale.    *)
THEOREM DecisionKeepsLimits ==
  ASSUME NEW requested \in Nat, NEW mode, NEW reading \in Readings,
         Approved(requested, mode, reading) > 0
  PROVE  /\ Approved(requested, mode, reading) <= requested
         /\ reading.reserved + Approved(requested, mode, reading)
              <= reading.available
         /\ reading.active + Approved(requested, mode, reading)
              <= MaxConcurrentCalls
         /\ reading.health # "UNHEALTHY"
         /\ reading.expired = 0
<1> DEFINE approved == Approved(requested, mode, reading)
           limits   == Limits(requested, mode, reading)
<1>1. approved \in Nat /\ approved <= requested
  BY ApprovedOK
<1>2. /\ approved <= limits.agent_capacity
      /\ approved <= limits.campaign_concurrency
      /\ approved <= limits.provider_health
      /\ approved <= limits.stale_state
  BY ApprovedOK, LimitsOK
<1> HIDE DEF approved
<1>3. reading.reserved + approved <= reading.available
  BY <1>1, <1>2, approved > 0 DEF approved, Limits, Left, Readings
<1>4. reading.active + approved <= MaxConcurrentCalls
  BY <1>1, <1>2, approved > 0, SafetyAssumption
  DEF approved, Limits, Left, Readings
<1>5. reading.health # "UNHEALTHY"
  BY <1>1, <1>2, approved > 0 DEF approved, Limits
<1>6. reading.expired = 0
  <2>1. ~IsStale(reading)
    BY <1>1, <1>2, approved > 0 DEF approved, Limits
  <2>2. QED
    BY <2>1 DEF IsStale, Readings
<1>7. QED
  BY <1>1, <1>3, <1>4, <1>5, <1>6 DEF approved

(* Falling back to progressive dialing never changes a decision: its limit *)
(* is the number of AVAILABLE agents, and agent_capacity is at most that   *)
(* in every mode.  Neither the mode, a DEGRADED carrier, a drop in         *)
(* availability nor a high failure rate reduces what is approved.          *)
WithoutFallback(reading) ==
  [reading EXCEPT !.dropped = FALSE, !.failing = FALSE,
                  !.health = IF @ = "UNHEALTHY" THEN @ ELSE "HEALTHY"]

THEOREM FallbackNeverLimits ==
  ASSUME NEW requested \in Nat, NEW mode, NEW reading \in Readings
  PROVE  Approved(requested, mode, reading) =
           Approved(requested, "PREDICTIVE", WithoutFallback(reading))
<1> DEFINE plain == WithoutFallback(reading)
           all   == Limits(requested, mode, reading)
           few   == Limits(requested, "PREDICTIVE", plain)
           S     == {requested} \cup LimitValues(requested, mode, reading)
           T     == {requested} \cup
                      LimitValues(requested, "PREDICTIVE", plain)
           m     == Approved(requested, mode, reading)
           n     == Approved(requested, "PREDICTIVE", plain)
<1>1. plain \in Readings
  BY DEF WithoutFallback, Readings, HealthStatuses
<1>2. IsLeast(m, S) /\ IsLeast(n, T) /\ S \subseteq Int /\ T \subseteq Int
  BY <1>1, ApprovedIsLeast, LimitsOK
<1>3. /\ few.agent_capacity = all.agent_capacity
      /\ few.campaign_concurrency = all.campaign_concurrency
      /\ few.ringing_ceiling = all.ringing_ceiling
      /\ few.stale_state = all.stale_state
  BY DEF WithoutFallback, Limits, Readings, RingingCeiling, IsStale
<1>4. /\ few.progressive_mode_cap = requested
      /\ few.availability_drop = requested
      /\ few.failure_rate = requested
  BY DEF WithoutFallback, Limits, Readings
<1>5. few.provider_health \in {requested, all.provider_health}
  BY DEF WithoutFallback, Limits, Readings, HealthStatuses
<1>6. /\ all.provider_health \in {few.provider_health, reading.available}
      /\ all.progressive_mode_cap \in {requested, reading.available}
      /\ all.availability_drop \in {requested, reading.available}
      /\ all.failure_rate \in {requested, reading.available}
  BY DEF WithoutFallback, Limits, Readings, HealthStatuses
<1>7. all.agent_capacity <= reading.available
  BY DEF Limits, Left, Readings
<1>8. /\ T = {requested, few.agent_capacity, few.campaign_concurrency,
              few.ringing_ceiling, few.provider_health,
              few.progressive_mode_cap, few.stale_state,
              few.availability_drop, few.failure_rate}
      /\ S = {requested, all.agent_capacity, all.campaign_concurrency,
              all.ringing_ceiling, all.provider_health,
              all.progressive_mode_cap, all.stale_state,
              all.availability_drop, all.failure_rate}
  BY <1>1, LimitsOK
<1>9. reading.available \in Int
  BY DEF Readings
<1> HIDE DEF m, n, S, T, all, few
<1>10. T \subseteq S
  BY <1>3, <1>4, <1>5, <1>8
<1>11. \A k \in S : n <= k
  <2>1. \A k \in T : n <= k
    BY <1>2 DEF IsLeast
  <2>2. n <= reading.available
    BY <1>2, <1>3, <1>7, <1>8, <1>9, <2>1 DEF IsLeast
  <2>3. QED
    BY <1>3, <1>4, <1>6, <1>8, <2>1, <2>2
<1>12. IsLeast(n, S)
  BY <1>2, <1>10, <1>11 DEF IsLeast
<1>13. m = n
  BY <1>2, <1>12 DEF IsLeast
<1>14. QED
  BY <1>13 DEF m, n

-----------------------------------------------------------------------------
(* The record of a decision.                                               *)

LEMMA LeastPosition ==
  ASSUME NEW S \in SUBSET (1..8), S # {}
  PROVE  \E m \in S : IsLeast(m, S)
<1>1. CASE 1 \in S
  BY <1>1 DEF IsLeast
<1>2. CASE 1 \notin S /\ 2 \in S
  BY <1>2 DEF IsLeast
<1>3. CASE S \subseteq 3..8 /\ 3 \in S
  BY <1>3 DEF IsLeast
<1>4. CASE S \subseteq 4..8 /\ 4 \in S
  BY <1>4 DEF IsLeast
<1>5. CASE S \subseteq 5..8 /\ 5 \in S
  BY <1>5 DEF IsLeast
<1>6. CASE S \subseteq 6..8 /\ 6 \in S
  BY <1>6 DEF IsLeast
<1>7. CASE S \subseteq 7..8 /\ 7 \in S
  BY <1>7 DEF IsLeast
<1>8. CASE S \subseteq {8}
  <2>1. 8 \in S /\ \A n \in S : n = 8
    BY <1>8
  <2>2. QED
    BY <2>1 DEF IsLeast
<1>9. QED
  BY <1>1, <1>2, <1>3, <1>4, <1>5, <1>6, <1>7, <1>8

(* A request that is cut has a binding constraint, whose limit is what was *)
(* approved, and no earlier one in the list has that limit.                *)
LEMMA BindingOK ==
  ASSUME NEW requested \in Nat, NEW mode, NEW reading \in Readings,
         Approved(requested, mode, reading) < requested
  PROVE  \E m \in 1..8 :
           /\ Binding(requested, mode, reading) = Constraints[m]
           /\ Limits(requested, mode, reading)[Constraints[m]] =
                Approved(requested, mode, reading)
           /\ m # 1 => Limits(requested, mode, reading).agent_capacity #
                         Approved(requested, mode, reading)
<1> DEFINE approved == Approved(requested, mode, reading)
           limits   == Limits(requested, mode, reading)
           cutHere  == {i \in DOMAIN Constraints :
                          limits[Constraints[i]] = approved}
<1>1. approved \in LimitValues(requested, mode, reading)
  BY ApprovedIsLeast, ApprovedOK DEF IsLeast
<1>2. DOMAIN Constraints = 1..8
  BY DEF Constraints
<1>3. cutHere # {}
  <2>1. /\ Constraints[1] = "agent_capacity"
        /\ Constraints[2] = "campaign_concurrency"
        /\ Constraints[3] = "ringing_ceiling"
        /\ Constraints[4] = "provider_health"
        /\ Constraints[5] = "progressive_mode_cap"
        /\ Constraints[6] = "stale_state"
        /\ Constraints[7] = "availability_drop"
        /\ Constraints[8] = "failure_rate"
    BY DEF Constraints
  <2>2. \E i \in 1..8 : limits[Constraints[i]] = approved
    <3> HIDE DEF limits, approved
    <3>1. approved \in {limits.agent_capacity, limits.campaign_concurrency,
             limits.ringing_ceiling, limits.provider_health,
             limits.progressive_mode_cap, limits.stale_state,
             limits.availability_drop, limits.failure_rate}
      BY <1>1, LimitsOK DEF limits
    <3>2. QED
      BY <2>1, <3>1
  <2>3. QED
    BY <1>2, <2>2
<1>4. \E m \in cutHere : IsLeast(m, cutHere)
  BY <1>2, <1>3, LeastPosition
<1>5. IsLeast(Min(cutHere), cutHere)
  BY <1>4, MinIsLeast
<1>6. ~(approved >= requested)
  BY ApprovedOK
<1>7. Binding(requested, mode, reading) = Constraints[Min(cutHere)]
  BY <1>3, <1>6 DEF Binding
<1>8. limits.agent_capacity = approved => Min(cutHere) <= 1
  BY <1>2, <1>5 DEF IsLeast, Constraints
<1>9. Min(cutHere) \in cutHere /\ Min(cutHere) \in 1..8
  BY <1>2, <1>5 DEF IsLeast
<1>10. QED
  BY <1>7, <1>8, <1>9

(* What the record of a decision says is so, for every request, every      *)
(* reading and every setting: a request that is cut names the limit it is  *)
(* cut to, and falling back to progressive dialing is never that limit.    *)
THEOREM RecordsAreTrue ==
  ASSUME NEW requested \in Nat, NEW mode, NEW reading \in Readings
  PROVE  RecordIsTrue(requested, mode, reading)
<1> DEFINE approved == Approved(requested, mode, reading)
           limits   == Limits(requested, mode, reading)
           binding  == Binding(requested, mode, reading)
           reason   == FallbackReason(reading)
<1>1. /\ approved \in Nat /\ approved <= requested
      /\ approved <= limits.agent_capacity
      /\ approved <= limits.ringing_ceiling
      /\ approved <= limits.stale_state
  BY ApprovedOK, LimitsOK
<1>2. /\ limits.agent_capacity \in Nat
      /\ limits.agent_capacity <= reading.available
      /\ reading.available \in Nat
  BY DEF Limits, Left, Readings
<1>3. approved = requested => binding = "none"
  BY <1>1 DEF Binding
<1>4. ASSUME approved < requested
      PROVE  /\ binding \in {"agent_capacity", "campaign_concurrency",
                              "ringing_ceiling", "provider_health",
                              "stale_state"}
             /\ binding = "provider_health" => reading.health = "UNHEALTHY"
  <2>1. PICK m \in 1..8 : /\ binding = Constraints[m]
                          /\ limits[Constraints[m]] = approved
                          /\ m # 1 => limits.agent_capacity # approved
    BY <1>4, BindingOK
  <2>2. m # 1 => approved # reading.available
    BY <1>1, <1>2, <2>1
  <2>3. /\ limits.progressive_mode_cap \in {requested, reading.available}
        /\ limits.availability_drop \in {requested, reading.available}
        /\ limits.failure_rate \in {requested, reading.available}
        /\ reading.health # "UNHEALTHY" =>
             limits.provider_health \in {requested, reading.available}
    BY DEF Limits, Readings, HealthStatuses
  <2> HIDE DEF limits, approved, binding
  <2>4. m \notin {5, 7, 8}
    BY <1>1, <1>4, <2>1, <2>2, <2>3 DEF Constraints
  <2>5. m = 4 => reading.health = "UNHEALTHY"
    BY <1>1, <1>4, <2>1, <2>2, <2>3 DEF Constraints
  <2>6. QED
    BY <2>1, <2>4, <2>5 DEF Constraints
<1>5. ASSUME approved > 0
      PROVE  reason \notin {"stale_state", "excessive_ringing"}
  <2>1. ~IsStale(reading)
    BY <1>1, <1>5 DEF Limits
  <2>2. RingingCeiling(reading) \in Int /\ reading.ringing \in Nat
    BY SafetyAssumption DEF RingingCeiling, Readings
  <2>3. ~(reading.ringing > RingingCeiling(reading))
    BY <1>1, <1>5, <2>2 DEF Limits, Left
  <2>4. QED
    BY <2>1, <2>3 DEF FallbackReason
<1>6. /\ Verdict(requested, approved, reason) = "REJECTED" =>
           approved = 0 /\ requested # 0
      /\ Verdict(requested, approved, reason) = "FALLBACK_PROGRESSIVE" =>
           approved > 0 /\ reason # "none"
  BY DEF Verdict
<1>7. reason \in {"stale_state", "provider_degraded", "availability_drop",
                  "excessive_ringing", "high_failure_rate", "none"}
  BY DEF FallbackReason
<1> HIDE DEF approved, binding, reason
<1>8. /\ (binding = "none") <=> (approved = requested)
      /\ binding \notin {"progressive_mode_cap", "availability_drop",
                         "failure_rate"}
      /\ binding = "provider_health" => reading.health = "UNHEALTHY"
  BY <1>1, <1>3, <1>4
<1>9. Verdict(requested, approved, reason) = "REJECTED" => binding # "none"
  BY <1>6, <1>8
<1>10. Verdict(requested, approved, reason) = "FALLBACK_PROGRESSIVE" =>
         /\ approved \in 1..reading.available
         /\ reason \in {"provider_degraded", "availability_drop",
                        "high_failure_rate"}
  BY <1>1, <1>2, <1>5, <1>6, <1>7
<1>11. QED
  BY <1>8, <1>9, <1>10 DEF RecordIsTrue, approved, binding, reason

=============================================================================
