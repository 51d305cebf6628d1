\* Two workers, two agents, two borrowers, a carrier that swaps events;
\* agents come and go; nothing goes wrong inside the program.

SPECIFICATION Spec

CONSTANTS
  None = None
  Agents = {a1,a2}
  Borrowers = {b1,b2}
  Workers = {w1,w2}
  MaxAttempts = 1
  TTL = 1
  StaleAfter = 2
  MaxLines = 2
  MaxEpochs = 1
  Hostile = {"swap"}
  SessionActions = {"login","logout","pause","resume"}
  Faults = {"early"}

SYMMETRY Symmetry
VIEW VersionView

\* The campaign may be over and every agent logged out.
CHECK_DEADLOCK FALSE

INVARIANTS
  AgentInOneCall
  BorrowerInOneCall
  CallsWithinAgents
  ActiveCallHoldsItsPair
  UncheckedUpdatesApply

PROPERTIES
  ReclaimedBorrowerHasNoCall
  CampaignContractIsKept
