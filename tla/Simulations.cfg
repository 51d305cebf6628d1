\* Two runs, asked for at the same time, and everything that can stop them.

SPECIFICATION FairSpec

CONSTANTS
  None = None
  Runs = {r1,r2}
  MaxRequests = 2
  Faults = {"crash", "shutdown", "dbError"}
  MaxFaults = 2

\* Every run may be over.
CHECK_DEADLOCK FALSE

INVARIANTS
  RunnerTypeOK
  OneSimulationAtATime
  WorkersStopWithTheirRun
  CallsAreOfTheirOwnRun
  CompletedRunLeftNothing

PROPERTIES
  VerdictIsFinal
  EveryRunIsDecided
