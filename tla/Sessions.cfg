\* Two workers, either of which may outlast its lease or be cancelled, and
\* an agent who leaves in the middle of a call and comes back.

SPECIFICATION Spec

CONSTANTS
  None = None
  Agents = {a1}
  Borrowers = {b1}
  Workers = {w1,w2}
  MaxAttempts = 1
  TTL = 1
  StaleAfter = 2
  MaxLines = 1
  MaxEpochs = 1
  Hostile = {}
  SessionActions = {"login","leave"}
  Faults = {"slowSetup","cancel"}

SYMMETRY Symmetry
VIEW VersionView

\* The campaign may be over and every agent logged out.
CHECK_DEADLOCK FALSE

INVARIANTS
  BusyAgentIsReclaimable
  OneDialPerCall

PROPERTY
  AbsentAgentStaysAbsent
