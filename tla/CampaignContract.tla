-------------------------- MODULE CampaignContract --------------------------
(***************************************************************************)
(* What a campaign promises, whoever carries it out and however: an agent  *)
(* and a borrower are put together only if both are free and the borrower  *)
(* is still to be reached; every call that is over counts at most once;    *)
(* a borrower is done with when reached, or after MaxAttempts.             *)
(***************************************************************************)
EXTENDS Naturals

CONSTANTS Agents, Borrowers, MaxAttempts

VARIABLES
  engaged,   \* the pairs now put together
  ended,     \* [Borrowers -> how many calls to the borrower are over]
  attempts,  \* [Borrowers -> how many of them count]
  outcome    \* [Borrowers -> "open", "reached" or "exhausted"]

vars == <<engaged, ended, attempts, outcome>>

Init ==
  /\ engaged = {}
  /\ ended = [b \in Borrowers |-> 0]
  /\ attempts = [b \in Borrowers |-> 0]
  /\ outcome = [b \in Borrowers |-> "open"]

Free(a, b) == \A pair \in engaged : pair[1] # a /\ pair[2] # b

Engage(a, b) ==
  /\ Free(a, b)
  /\ outcome[b] = "open"
  /\ engaged' = engaged \cup {<<a, b>>}
  /\ UNCHANGED <<ended, attempts, outcome>>

Part(a, b) ==
  /\ <<a, b>> \in engaged
  /\ engaged' = engaged \ {<<a, b>>}
  /\ ended' = [ended EXCEPT ![b] = @ + 1]
  /\ UNCHANGED <<attempts, outcome>>

(* A call that is over is put down as an attempt, with what came of it.    *)
Conclude(b, reached) ==
  /\ outcome[b] = "open"
  /\ \A a \in Agents : <<a, b>> \notin engaged
  /\ attempts[b] < ended[b]
  /\ attempts' = [attempts EXCEPT ![b] = @ + 1]
  /\ outcome' = [outcome EXCEPT
       ![b] = IF reached THEN "reached"
              ELSE IF attempts[b] + 1 = MaxAttempts THEN "exhausted"
              ELSE "open"]
  /\ UNCHANGED <<engaged, ended>>

Next ==
  \E b \in Borrowers :
    \/ \E a \in Agents : Engage(a, b) \/ Part(a, b)
    \/ \E reached \in BOOLEAN : Conclude(b, reached)

Spec == Init /\ [][Next]_vars

=============================================================================
