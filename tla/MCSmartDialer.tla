--------------------------- MODULE MCSmartDialer ---------------------------
(***************************************************************************)
(* SmartDialer for TLC.                                                    *)
(***************************************************************************)
EXTENDS SmartDialer, TLC

Symmetry ==
  Permutations(Agents) \cup Permutations(Borrowers) \cup Permutations(Workers)

(* state_version only ever grows and is only ever compared with a version  *)
(* read earlier, so all that matters of it is whether each holder's copy   *)
(* is still current.  States that agree on that are the same to TLC, which *)
(* makes the reachable states finite without a bound on versions.          *)
Current(doc) == doc.version = agents[doc.agent].version

Dated(doc) == [doc EXCEPT !.version = doc.agent # None /\ Current(doc)]

DatedHandler(h) ==
  [h EXCEPT !.seenVersion =
     h.pc = "moveAgent" /\ h.seenVersion = agents[h.call.agent].version]

DatedItem(i) ==
  IF sweep.stage \in {"agentLeases", "heartbeats", "wrapUps"} /\ i # None
  THEN Dated(i) ELSE i

VersionView ==
  <<[a \in Agents |-> [agents[a] EXCEPT !.version = 0]], borrowers, calls,
    [l \in 1..MaxLines |->
       [lines[l] EXCEPT !.handler = DatedHandler(lines[l].handler)]],
    nextLine, asked, [w \in Workers |-> Dated(dial[w])], epoch, recorded,
    [sweep EXCEPT !.todo = {DatedItem(i) : i \in sweep.todo},
                  !.item = DatedItem(sweep.item)],
    Cardinality(sweep.todo)>>

=============================================================================
