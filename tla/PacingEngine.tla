---------------------------- MODULE PacingEngine ----------------------------
(***************************************************************************)
(* How many calls a tick asks for: compute_request (app/pacing/) and the   *)
(* settings the two dialers give it (app/dialers/).  Weights, factors and  *)
(* settings are percentages; a rate is a quotient <<numerator,             *)
(* denominator>>, so the arithmetic is exact.                              *)
(***************************************************************************)
EXTENDS Integers

CONSTANTS
  SoonFreeWeight, SafetyMargin, MinAnswerRate, MaxAnswerRate,
  VolatilityThreshold, VolatilityFactor, MaxRequestPerTick,
  BaselineAnswerRate    \* pacing_config.baseline_answer_rate

ASSUME PacingAssumption ==
  /\ SoonFreeWeight \in Nat /\ SafetyMargin \in Nat
  /\ VolatilityThreshold \in Nat /\ VolatilityFactor \in Nat
  /\ MaxRequestPerTick \in Nat
  /\ MinAnswerRate \in 1..100 /\ MaxAnswerRate \in MinAnswerRate..100
  /\ BaselineAnswerRate \in 1..100

DialingModes == {"PROGRESSIVE", "PREDICTIVE"}

(* blended_answer_rate: 70% of the recent rate, 30% of the baseline.  A    *)
(* window is the number of calls that ended in it and how many of those    *)
(* were answered.                                                          *)
Clamped(rate) ==
  IF 100 * rate[1] < MinAnswerRate * rate[2] THEN <<MinAnswerRate, 100>>
  ELSE IF 100 * rate[1] > MaxAnswerRate * rate[2] THEN <<MaxAnswerRate, 100>>
  ELSE rate

BlendedAnswerRate(recent) ==
  Clamped(IF recent.total = 0
          THEN <<BaselineAnswerRate, 100>>
          ELSE <<700 * recent.answered + 3 * BaselineAnswerRate * recent.total,
                 1000 * recent.total>>)

(* is_volatile: the rates of two consecutive windows are far apart.        *)
Distance(m, n) == IF m < n THEN n - m ELSE m - n

IsVolatile(recent, previous) ==
  /\ recent.total > 0 /\ previous.total > 0
  /\ 100 * Distance(recent.answered * previous.total,
                    previous.answered * recent.total)
       > VolatilityThreshold * recent.total * previous.total

(* Mutation: progressive dialing keeps the safety margin.                  *)
EngineConfigWithMargin(mode) ==
  [forced |-> mode = "PROGRESSIVE", margin |-> SafetyMargin,
   soonFreeWeight |-> IF mode = "PROGRESSIVE" THEN 0 ELSE SoonFreeWeight]

(* engine_config of ProgressiveDialer and of the dialer it overrides.      *)
EngineConfig(mode) ==
  IF mode = "PROGRESSIVE"
  THEN [forced |-> TRUE, margin |-> 100, soonFreeWeight |-> 0]
  ELSE [forced |-> FALSE, margin |-> SafetyMargin,
        soonFreeWeight |-> SoonFreeWeight]

(* Mutation: calls in flight may outnumber the agents.                     *)
RawRequestSigned(snapshot, config) ==
  LET rate     == IF config.forced THEN <<1, 1>>
                  ELSE BlendedAnswerRate(snapshot.recent)
      capacity == 100 * snapshot.available +
                    config.soonFreeWeight * snapshot.soonFree
  IN  (capacity * rate[2]) \div (100 * rate[1]) - snapshot.inFlight

(* _compute.  soonFree counts the agents in WRAP_UP and those on the phone *)
(* for longer than the average; inFlight the calls RINGING or INITIATED    *)
(* and the agents RESERVED.                                                *)
RawRequest(snapshot, config) ==
  LET rate     == IF config.forced THEN <<1, 1>>
                  ELSE BlendedAnswerRate(snapshot.recent)
      capacity == 100 * snapshot.available +
                    config.soonFreeWeight * snapshot.soonFree
      needed   == (capacity * rate[2]) \div (100 * rate[1])
  IN  IF needed > snapshot.inFlight THEN needed - snapshot.inFlight ELSE 0

ComputeRequest(mode, snapshot) ==
  LET config     == EngineConfig(mode)
      volatility == IF IsVolatile(snapshot.recent, snapshot.previous)
                    THEN VolatilityFactor ELSE 100
      scaled     == (RawRequest(snapshot, config) * config.margin *
                       snapshot.healthFactor * volatility) \div 1000000
  IN  IF scaled < MaxRequestPerTick THEN scaled ELSE MaxRequestPerTick

=============================================================================
