\* CONNECTED overtakes ANSWERED; expected to be violated.

SPECIFICATION Spec

CONSTANTS
  None = None
  Agents = {a1}
  Borrowers = {b1}
  Workers = {w1}
  MaxAttempts = 2
  TTL = 1
  StaleAfter = 2
  MaxLines = 1
  MaxEpochs = 1
  Hostile = {"swap"}
  SessionActions = {}
  Faults = {}

SYMMETRY Symmetry
VIEW VersionView

\* The campaign may be over and every agent logged out.
CHECK_DEADLOCK FALSE

PROPERTY
  ConversationCountsAsContact
