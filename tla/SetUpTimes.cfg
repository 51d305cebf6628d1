\* Time passes while a call is set up, and the carrier repeats events: two
\* workers, two agents and a borrower with a second attempt.

SPECIFICATION Spec

CONSTANTS
  None = None
  Agents = {a1,a2}
  Borrowers = {b1}
  Workers = {w1,w2}
  MaxAttempts = 2
  TTL = 2
  StaleAfter = 3
  MaxLines = 2
  MaxEpochs = 1
  Hostile = {"duplicate"}
  SessionActions = {"login","logout"}
  Faults = {"early"}

SYMMETRY Symmetry
VIEW VersionView

\* The campaign may be over and every agent logged out.
CHECK_DEADLOCK FALSE

INVARIANTS
  StaleCallIsNotBeingSetUp
  AttemptsAreCalls

PROPERTY
  CampaignContractIsKept
