\* A worker that ticks over two agents, and a limit of one call at a time.

SPECIFICATION TickSpec

CONSTANTS
  None = None
  Agents = {a1,a2}
  Borrowers = {b1,b2}
  Workers = {w1}
  MaxAttempts = 1
  TTL = 1
  StaleAfter = 2
  MaxLines = 2
  MaxEpochs = 1
  Hostile = {}
  SessionActions = {}
  Faults = {}
  SoonFreeWeight = 50
  SafetyMargin = 85
  MinAnswerRate = 5
  MaxAnswerRate = 95
  BaselineAnswerRate = 30
  VolatilityThreshold = 15
  VolatilityFactor = 60
  MaxRequestPerTick = 2
  MaxConcurrentCalls = 1
  MaxRingingRatio = 200
  HealthMinSamples = 2
  UnhealthyConsecutiveFailures = 1
  UnhealthyTimeoutRate = 50
  DegradedFailureRate = 20
  MaxConsecutiveContentions = 3

SYMMETRY Symmetry
VIEW TickView

INVARIANTS
  TickTypeOK
  ConcurrencyLimitHolds
  ApprovedCallsHaveAgents
  OutageIsContained
