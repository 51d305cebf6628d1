\* Conversations that outlast the lease, and no crash; expected to be violated.

SPECIFICATION Spec

CONSTANTS
  None = None
  Agents = {a1}
  Borrowers = {b1,b2}
  Workers = {w1}
  MaxAttempts = 2
  TTL = 1
  StaleAfter = 2
  MaxLines = 2
  MaxEpochs = 1
  Hostile = {}
  SessionActions = {}
  Faults = {"longCall"}

SYMMETRY Symmetry
VIEW VersionView

\* The campaign may be over and every agent logged out.
CHECK_DEADLOCK FALSE

INVARIANT
  AgentInOneCall
