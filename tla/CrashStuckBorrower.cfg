\* A crash after create_call; expected to be violated.

SPECIFICATION FairSpec

CONSTANTS
  None = None
  Agents = {a1}
  Borrowers = {b1}
  Workers = {w1}
  MaxAttempts = 1
  TTL = 1
  StaleAfter = 2
  MaxLines = 1
  MaxEpochs = 2
  Hostile = {}
  SessionActions = {}
  Faults = {"crash"}

VIEW VersionView

\* The campaign may be over and every agent logged out.
CHECK_DEADLOCK FALSE

PROPERTY
  CampaignEnds
