--------------------------- MODULE ProviderHealth ---------------------------
(***************************************************************************)
(* ProviderHealthManager (app/services/provider_health.py) for the carrier *)
(* of the campaign: the outcomes of the last HEALTH_WINDOW_SECONDS of      *)
(* originations and the status derived from them.                          *)
(***************************************************************************)
EXTENDS Integers, Sequences, FiniteSetsExt

CONSTANTS
  HealthMinSamples, UnhealthyConsecutiveFailures,
  UnhealthyTimeoutRate, DegradedFailureRate     \* in percent

ASSUME HealthAssumption ==
  /\ HealthMinSamples \in Nat /\ UnhealthyConsecutiveFailures \in Nat \ {0}
  /\ UnhealthyTimeoutRate \in Nat /\ DegradedFailureRate \in Nat

VARIABLE
  samples       \* the window, oldest first

(* A timeout takes PROVIDER_TIMEOUT_SECONDS, which is longer than          *)
(* DEGRADED_LATENCY_MS; an answer of either mock carrier is faster.        *)
SampleKinds == {"accepted", "refused", "timedOut"}

HealthTypeOK == samples \in Seq(SampleKinds)

HealthInit == samples = <<>>

CountOf(kind) == Cardinality({i \in DOMAIN samples : samples[i] = kind})

(* _count_trailing_failures                                                *)
TrailingFailures ==
  Len(samples) -
    Max({0} \cup {i \in DOMAIN samples : samples[i] = "accepted"})

(* percentile 0.95 of the latencies exceeds DEGRADED_LATENCY_MS: the index *)
(* 0.95 * (n - 1) is rounded to the nearest number, a half to an even one. *)
P95IsSlow ==
  LET n     == Len(samples)
      exact == 95 * (n - 1)
      floor == exact \div 100
      index == IF \/ exact % 100 > 50
                  \/ exact % 100 = 50 /\ floor % 2 = 1
               THEN floor + 1 ELSE floor
  IN  CountOf("timedOut") >= n - index

(* Mutation: one failure too many is waited for.                           *)
HealthStatusLate ==
  IF TrailingFailures > UnhealthyConsecutiveFailures THEN "UNHEALTHY"
  ELSE "HEALTHY"

(* _derive_status, for the window that _trim leaves.                       *)
HealthStatus ==
  LET n             == Len(samples)
      lowConfidence == n < HealthMinSamples
  IN  IF TrailingFailures >= UnhealthyConsecutiveFailures THEN "UNHEALTHY"
      ELSE IF lowConfidence THEN "HEALTHY"
      ELSE IF 100 * CountOf("timedOut") > UnhealthyTimeoutRate * n
      THEN "UNHEALTHY"
      ELSE IF \/ 100 * (n - CountOf("accepted")) > DegradedFailureRate * n
              \/ n > 0 /\ P95IsSlow
      THEN "DEGRADED"
      ELSE "HEALTHY"

(* HEALTH_FACTORS, in percent.                                             *)
HealthFactor ==
  CASE HealthStatus = "HEALTHY"   -> 100
    [] HealthStatus = "DEGRADED"  -> 50
    [] HealthStatus = "UNHEALTHY" -> 0

(* should_allow_retry                                                      *)
RetryAllowed == HealthStatus # "UNHEALTHY"

RecordOriginate(kind) == samples' = Append(samples, kind)

(* _trim: the oldest sample is HEALTH_WINDOW_SECONDS old.                  *)
SampleExpires == samples # <<>> /\ samples' = Tail(samples)

=============================================================================
