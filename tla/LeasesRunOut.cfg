\* Crashes, leases that expire, calls that go stale while their events still
\* come, an agent who leaves in the middle of a call, and a retry: liveness.

SPECIFICATION FairSpec

CONSTANTS
  None = None
  Agents = {a1}
  Borrowers = {b1}
  Workers = {w1}
  MaxAttempts = 2
  TTL = 1
  StaleAfter = 2
  MaxLines = 1
  MaxEpochs = 2
  Hostile = {}
  SessionActions = {"leave"}
  Faults = {"crash","longCall","lostCall"}

VIEW VersionView

\* The campaign may be over and every agent logged out.
CHECK_DEADLOCK FALSE

INVARIANT
  AttemptsAreCalls

PROPERTIES
  BusyAgentIsFreed
  ReservedBorrowerIsFreed
  OpenCallEnds
