\* A crash between INITIATED and bind_call; expected to be violated.

SPECIFICATION Spec

CONSTANTS
  None = None
  Agents = {a1}
  Borrowers = {b1,b2}
  Workers = {w1}
  MaxAttempts = 1
  TTL = 1
  StaleAfter = 2
  MaxLines = 2
  MaxEpochs = 2
  Hostile = {}
  SessionActions = {}
  Faults = {"crash"}

SYMMETRY Symmetry
VIEW VersionView

\* The campaign may be over and every agent logged out.
CHECK_DEADLOCK FALSE

INVARIANT
  AgentInOneCall
