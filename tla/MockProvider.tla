---------------------------- MODULE MockProvider ----------------------------
(***************************************************************************)
(* The in-process mock carrier of app/providers/ and the delivery task it  *)
(* starts for every accepted call.  A line is a provider call: its id is   *)
(* the provider's own counter, which restarts with the process.  The       *)
(* script of a line is the sequence of events still to be delivered, built *)
(* from the honest sequence by at most one swap of neighbours and at most  *)
(* one duplicate.  The task runs on_event itself, so where it is in         *)
(* process_event and the locals it holds there are part of the line.       *)
(***************************************************************************)
EXTENDS DialerStore, Sequences

CONSTANTS
  MaxLines,     \* bound: calls one process incarnation can have accepted
  Hostile       \* subset of {"swap", "duplicate"}: mock_a {}, mock_b both

ASSUME ProviderAssumption ==
  /\ MaxLines \in Nat \ {0}
  /\ Hostile \subseteq {"swap", "duplicate"}

VARIABLES
  lines,        \* [1..MaxLines -> the delivery task of that provider call]
  nextLine,     \* the last provider call id handed out
  asked         \* history: the calls originate_call was asked for

providerVars == <<lines, nextLine, asked>>

Event(index, type) == [index |-> index, type |-> type]
EventTypes == {"RINGING", "ANSWERED", "CONNECTED", "COMPLETED", "FAILED"}
Events == [index : 1..4, type : EventTypes]

(* _build_event_script, before the faults.                                 *)
AnsweredScript == <<Event(1, "RINGING"), Event(2, "ANSWERED"),
                    Event(3, "CONNECTED"), Event(4, "COMPLETED")>>
NoAnswerScript == <<Event(1, "RINGING"), Event(2, "FAILED")>>

(* _apply_out_of_order and _apply_duplication.                             *)
Swapped(s, i) == [s EXCEPT ![i] = s[i + 1], ![i + 1] = s[i]]

Duplicated(s, i) ==
  [j \in 1..(Len(s) + 1) |-> IF j <= i THEN s[j] ELSE s[j - 1]]

MaybeSwapped(s) ==
  {s} \cup IF "swap" \in Hostile
           THEN {Swapped(s, i) : i \in 1..(Len(s) - 1)} ELSE {}

MaybeDuplicated(s) ==
  {s} \cup IF "duplicate" \in Hostile
           THEN {Duplicated(s, i) : i \in 1..Len(s)} ELSE {}

(* Every script with the status get_call_status reports once it is over.   *)
Scripts(s) == UNION {MaybeDuplicated(t) : t \in MaybeSwapped(s)}

Deliveries ==
  (Scripts(AnsweredScript) \X {"COMPLETED"}) \cup
  (Scripts(NoAnswerScript) \X {"FAILED"})

(* _active_calls holds the "ACTIVE" lines, _finished_calls those with a    *)
(* final status; any other line is UNKNOWN to get_call_status.             *)
LineStatuses == {"UNKNOWN", "ACTIVE", "COMPLETED", "FAILED"}

HandlerPcs == {"idle", "applyCall", "readAgent", "moveAgent", "freeBorrower"}

Handlers == [pc : HandlerPcs, call : CallKeys \cup {None},
             target : CallStates \cup {None},
             seenState : AgentStates \cup {None}, seenVersion : Nat]

IdleHandler == [pc |-> "idle", call |-> None, target |-> None,
                seenState |-> None, seenVersion |-> 0]

Lines == [key : CallKeys \cup {None}, status : LineStatuses,
          script : Seq(Events), final : LineStatuses, handler : Handlers]

NoLine == [key |-> None, status |-> "UNKNOWN", script |-> <<>>,
           final |-> "UNKNOWN", handler |-> IdleHandler]

ProviderTypeOK ==
  /\ lines \in [1..MaxLines -> Lines]
  /\ nextLine \in 0..MaxLines
  /\ asked \in SUBSET CallKeys

ProviderInit ==
  /\ lines = [l \in 1..MaxLines |-> NoLine]
  /\ nextLine = 0
  /\ asked = {}

-----------------------------------------------------------------------------

(* originate_call accepts: a fresh id, a script, a delivery task.          *)
Accept(k) ==
  /\ nextLine < MaxLines
  /\ nextLine' = nextLine + 1
  /\ \E d \in Deliveries :
       lines' = [lines EXCEPT ![nextLine + 1] =
                   [key |-> k, status |-> "ACTIVE", script |-> d[1],
                    final |-> d[2], handler |-> IdleHandler]]
  /\ asked' = asked \cup {k}

(* originate_call rejects, hangs until the timeout or is in an outage: no  *)
(* call exists at the provider.                                            *)
Refuse(k) ==
  /\ asked' = asked \cup {k}
  /\ UNCHANGED <<lines, nextLine>>

(* Of a line that is over only the status is left.                         *)
Closed(status) == [NoLine EXCEPT !.status = status]

(* hangup_call: cancels the delivery task, wherever it is.                 *)
Hangup(l) ==
  /\ lines' = IF lines[l].status = "ACTIVE"
              THEN [lines EXCEPT ![l] = Closed("COMPLETED")]
              ELSE lines
  /\ UNCHANGED <<nextLine, asked>>

(* _deliver_events: the task waits for the next event ...                  *)
HasEvent(l) ==
  /\ lines[l].status = "ACTIVE"
  /\ lines[l].handler.pc = "idle"
  /\ lines[l].script # <<>>

NextEvent(l) == Head(lines[l].script)

(* ... hands it to on_event, which leaves the task at this handler ...     *)
Deliver(l, handler) ==
  /\ lines' = [lines EXCEPT ![l].script = Tail(@), ![l].handler = handler]
  /\ UNCHANGED <<nextLine, asked>>

(* ... and records the final status after the last one.                    *)
LineEnds(l) ==
  /\ lines[l].status = "ACTIVE"
  /\ lines[l].handler.pc = "idle"
  /\ lines[l].script = <<>>
  /\ lines' = [lines EXCEPT ![l] = Closed(lines[l].final)]
  /\ UNCHANGED <<nextLine, asked>>

(* An exception out of on_event ends the task without a final status.      *)
DeliveryDies(l) ==
  /\ lines[l].status = "ACTIVE"
  /\ lines' = [lines EXCEPT ![l] = Closed("UNKNOWN")]
  /\ UNCHANGED <<nextLine, asked>>

(* The process restarts: tasks, statuses and the counter are gone.         *)
ProviderRestarts ==
  /\ lines' = [l \in 1..MaxLines |-> NoLine]
  /\ nextLine' = 0
  /\ UNCHANGED asked

=============================================================================
