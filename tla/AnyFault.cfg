\* One of each, every fault but cancellation and calls that are lost, and an
\* agent who falls silent: what holds whatever happens.

SPECIFICATION Spec

CONSTANTS
  None = None
  Agents = {a1}
  Borrowers = {b1}
  Workers = {w1}
  MaxAttempts = 1
  TTL = 1
  StaleAfter = 2
  MaxLines = 1
  MaxEpochs = 2
  Hostile = {}
  SessionActions = {"silence"}
  Faults = {"crash", "dbError", "longCall", "slowSetup", "early"}

SYMMETRY Symmetry
VIEW VersionView

\* The campaign may be over and every agent logged out.
CHECK_DEADLOCK FALSE

INVARIANTS
  TypeOK
  BusyAgentIsReclaimable
  ReservedBorrowerIsReclaimable
  AttemptsWithinLimit
  ContactedBorrowerWasReached

PROPERTIES
  SettledBorrowerStaysSettled
  CallsFollowTheTable
