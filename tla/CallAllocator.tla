---------------------------- MODULE CallAllocator ----------------------------
(***************************************************************************)
(* The dialer workers of one process: CallAllocator.allocate and the       *)
(* ReservationService under it (app/services/).  One action per database   *)
(* operation or provider call, because each is an await at which every     *)
(* other task may run.  All workers of a process sign with the same        *)
(* worker id, the process incarnation.                                     *)
(***************************************************************************)
EXTENDS MockProvider

CONSTANT
  Workers       \* the dialer worker tasks

VARIABLES
  dial,         \* [Workers -> where the worker is in _dial, and its locals]
  epoch         \* get_worker_id() of the running process

allocatorVars == <<dial, epoch>>

DialPcs == {"idle", "claimBorrower", "create", "reserve",
            "initiate", "markDialing", "bind", "originate", "attach",
            "failCall", "freeAgent", "freeBorrower"}

Outcomes == {"RELEASED", "RETRY"}

Dials ==
  [pc : DialPcs, agent : Agents \cup {None}, version : Nat,
   borrower : Borrowers \cup {None}, attempt : 0..MaxAttempts,
   line : LineIds \cup {None}, outcome : Outcomes, stopping : BOOLEAN]

IdleDial == [pc |-> "idle", agent |-> None, version |-> 0, borrower |-> None,
             attempt |-> 0, line |-> None, outcome |-> "RELEASED",
             stopping |-> FALSE]

AllocatorTypeOK ==
  /\ dial \in [Workers -> Dials]
  /\ epoch \in WorkerIds

AllocatorInit ==
  /\ dial = [w \in Workers |-> IdleDial]
  /\ epoch = 1

DialKey(w) == IdempotencyKey(dial[w].agent, dial[w].borrower, dial[w].attempt)

Goto(w, pc) == dial' = [dial EXCEPT ![w].pc = pc]

(* Leave _dial through release_pair with this borrower outcome.            *)
GotoRelease(w, outcome) ==
  dial' = [dial EXCEPT ![w].pc = "freeAgent", ![w].outcome = outcome]

EndDial(w) ==
  dial' = [dial EXCEPT ![w] = [IdleDial EXCEPT !.stopping = dial[w].stopping]]

-----------------------------------------------------------------------------
(* ReservationService.reserve_pair                                         *)

(* Mutation: the version from before the reservation is kept.              *)
ClaimAgentBefore(w) ==
  /\ dial[w].pc = "idle"
  /\ ~dial[w].stopping
  /\ \E a \in Agents :
       /\ TryReserveAgent(a, epoch)
       /\ dial' = [dial EXCEPT ![w] =
                     [IdleDial EXCEPT !.pc = "claimBorrower", !.agent = a,
                                      !.version = agents[a].version]]
  /\ UNCHANGED <<borrowers, calls, providerVars, epoch>>

(* _claim_agent: some AVAILABLE candidate; losing every one changes        *)
(* nothing.                                                                *)
ClaimAgent(w) ==
  /\ dial[w].pc = "idle"
  /\ ~dial[w].stopping
  /\ \E a \in Agents :
       /\ TryReserveAgent(a, epoch)
       /\ dial' = [dial EXCEPT ![w] =
                     [IdleDial EXCEPT !.pc = "claimBorrower", !.agent = a,
                                      !.version = agents[a].version + 1]]
  /\ UNCHANGED <<borrowers, calls, providerVars, epoch>>

(* _claim_borrower finds one.  should_retry looks at provider health only: *)
(* a borrower dialled before may be given back at once.                    *)
ClaimBorrower(w) ==
  /\ dial[w].pc = "claimBorrower"
  /\ \E b \in Borrowers :
       /\ TryReserveBorrower(b, epoch)
       /\ \E pc \in {"create"} \cup IF borrowers[b].attempts > 0
                                   THEN {"freeAgent"} ELSE {} :
            dial' = [dial EXCEPT ![w].pc = pc, ![w].borrower = b,
                                 ![w].attempt = borrowers[b].attempts + 1]
  /\ UNCHANGED <<agents, calls, providerVars, epoch>>

(* _claim_borrower finds none, loses every candidate or raises: the agent  *)
(* is given back.                                                          *)
GiveAgentBack(w) ==
  /\ dial[w].pc = "claimBorrower"
  /\ ReleaseAgent(dial[w].agent, epoch, "AVAILABLE", "ALLOCATOR")
  /\ EndDial(w)
  /\ UNCHANGED <<borrowers, calls, providerVars, epoch>>

-----------------------------------------------------------------------------
(* CallAllocator._dial                                                     *)

(* create_call; a key that is spent gives the pair back.                   *)
Create(w) ==
  /\ dial[w].pc = "create"
  /\ CreateCall(DialKey(w), epoch)
  /\ IF calls[DialKey(w)].state \in {"ABSENT", "QUEUED"}
     THEN Goto(w, "reserve")
     ELSE GotoRelease(w, "RELEASED")
  /\ UNCHANGED <<agents, borrowers, providerVars, epoch>>

(* transition_call to RESERVED, whose result is not looked at.             *)
Reserve(w) ==
  /\ dial[w].pc = "reserve"
  /\ TransitionCall(DialKey(w), "RESERVED")
  /\ Goto(w, "initiate")
  /\ UNCHANGED <<agents, borrowers, providerVars, epoch>>

(* Mutation: the result is not looked at.                                  *)
InitiateUnchecked(w) ==
  /\ dial[w].pc = "initiate"
  /\ TransitionCall(DialKey(w), "INITIATED")
  /\ Goto(w, "markDialing")
  /\ UNCHANGED <<agents, borrowers, providerVars, epoch>>

(* transition_call to INITIATED decides who dials this call.               *)
Initiate(w) ==
  /\ dial[w].pc = "initiate"
  /\ TransitionCall(DialKey(w), "INITIATED")
  /\ IF TransitionCallMatches(DialKey(w), "INITIATED")
     THEN Goto(w, "markDialing")
     ELSE GotoRelease(w, "RELEASED")
  /\ UNCHANGED <<agents, borrowers, providerVars, epoch>>

(* transition_agent and bind_call, whose results are not looked at.        *)
MarkDialing(w) ==
  /\ dial[w].pc = "markDialing"
  /\ TransitionAgent(dial[w].agent, "RESERVED", "DIALING", "ALLOCATOR",
                     dial[w].version)
  /\ Goto(w, "bind")
  /\ UNCHANGED <<borrowers, calls, providerVars, epoch>>

Bind(w) ==
  /\ dial[w].pc = "bind"
  /\ BindCall(dial[w].agent, epoch, DialKey(w))
  /\ Goto(w, "originate")
  /\ UNCHANGED <<borrowers, calls, providerVars, epoch>>

(* _originate: accepted, or rejected or timed out.                         *)
Originate(w) ==
  /\ dial[w].pc = "originate"
  /\ \/ /\ Accept(DialKey(w))
        /\ dial' = [dial EXCEPT ![w].pc = "attach", ![w].line = nextLine + 1]
     \/ /\ Refuse(DialKey(w))
        /\ Goto(w, "failCall")
  /\ UNCHANGED <<storeVars, epoch>>

(* attach_provider_call_id; a call that cannot be attached is hung up.     *)
Attach(w) ==
  /\ dial[w].pc = "attach"
  /\ AttachProviderCallId(DialKey(w), dial[w].line)
  /\ IF AttachProviderCallIdMatches(DialKey(w), dial[w].line)
     THEN EndDial(w) /\ UNCHANGED providerVars
     ELSE Goto(w, "failCall") /\ Hangup(dial[w].line)
  /\ UNCHANGED <<agents, borrowers, epoch>>

(* A call that was refused, or could not be attached.                      *)
FailCall(w) ==
  /\ dial[w].pc = "failCall"
  /\ TransitionCall(DialKey(w), "FAILED")
  /\ GotoRelease(w, "RETRY")
  /\ UNCHANGED <<agents, borrowers, providerVars, epoch>>

(* release_pair: the agent, then the borrower.                             *)
FreeAgent(w) ==
  /\ dial[w].pc = "freeAgent"
  /\ ReleaseAgent(dial[w].agent, epoch, "AVAILABLE", "ALLOCATOR")
  /\ Goto(w, "freeBorrower")
  /\ UNCHANGED <<borrowers, calls, providerVars, epoch>>

FreeBorrower(w) ==
  /\ dial[w].pc = "freeBorrower"
  /\ ReleaseBorrower(dial[w].borrower, epoch, dial[w].outcome)
  /\ EndDial(w)
  /\ UNCHANGED <<agents, calls, providerVars, epoch>>

DialStep(w) ==
  \/ ClaimAgent(w) \/ ClaimBorrower(w) \/ GiveAgentBack(w)
  \/ Create(w) \/ Reserve(w) \/ Initiate(w)
  \/ MarkDialing(w) \/ Bind(w) \/ Originate(w) \/ Attach(w) \/ FailCall(w)
  \/ FreeAgent(w) \/ FreeBorrower(w)

-----------------------------------------------------------------------------
(* What goes wrong                                                         *)

(* A PyMongoError escapes allocate(): nothing is released and the next     *)
(* tick starts afresh.                                                     *)
Abandon(w) ==
  /\ dial[w].pc # "idle"
  /\ EndDial(w)
  /\ UNCHANGED <<storeVars, providerVars, epoch>>

(* DialerWorker.stop cancels the task, for good.  Inside _dial,            *)
(* _compensate_cancelled_dial gives the pair back, and the call stays as   *)
(* it is; inside reserve_pair nothing is given back.                       *)
CancelDial(w) ==
  /\ dial[w].pc # "idle"
  /\ ~dial[w].stopping
  /\ dial' = [dial EXCEPT ![w] =
                IF @.pc = "claimBorrower"
                THEN [IdleDial EXCEPT !.stopping = TRUE]
                ELSE [@ EXCEPT !.pc = "freeAgent", !.outcome = "RELEASED",
                               !.stopping = TRUE]]
  /\ UNCHANGED <<storeVars, providerVars, epoch>>

=============================================================================
