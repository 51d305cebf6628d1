\* Ticks and retries of one worker whose queries may fail, under fairness.

SPECIFICATION FairTickSpec

CONSTANTS
  None = None
  Agents = {a1}
  Borrowers = {b1}
  Workers = {w1}
  MaxAttempts = 2
  TTL = 1
  StaleAfter = 2
  MaxLines = 2
  MaxEpochs = 1
  Hostile = {}
  SessionActions = {}
  Faults = {"dbError"}
  SoonFreeWeight = 50
  SafetyMargin = 85
  MinAnswerRate = 5
  MaxAnswerRate = 95
  BaselineAnswerRate = 30
  VolatilityThreshold = 15
  VolatilityFactor = 60
  MaxRequestPerTick = 2
  MaxConcurrentCalls = 1
  MaxRingingRatio = 200
  HealthMinSamples = 2
  UnhealthyConsecutiveFailures = 1
  UnhealthyTimeoutRate = 50
  DegradedFailureRate = 20
  MaxConsecutiveContentions = 3

VIEW TickView

INVARIANT
  DecisionsAreExplained

PROPERTY
  RunningCampaignEnds
