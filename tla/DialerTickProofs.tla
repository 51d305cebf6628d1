-------------------------- MODULE DialerTickProofs --------------------------
(***************************************************************************)
(* The ticking program is the program of SmartDialer, which leaves open    *)
(* how many calls are placed and when: what is proved of that one holds    *)
(* here, for any settings of the pacing and of the safety controller.      *)
(*                                                                         *)
(* What is new here are the limits of the safety controller.  A decision   *)
(* keeps to them for what it read; that the limits then hold of the calls  *)
(* and agents themselves takes an invariant for each, of what has been     *)
(* approved and not yet come to be (LimitKept, OutageKept, AgentsThere) and,*)
(* for the calls, of those counted and not yet decided on (CallsKnown).    *)
(***************************************************************************)
EXTENDS DialerTick, CampaignProofs, SafetyControllerProofs

(* What a worker does in its tick is a step of its own there, or none.     *)
LEMMA WorkIsDialing ==
  ASSUME NEW w \in Workers, Work(w)
  PROVE  Dialer(w) \/ UNCHANGED vars
<1>1. CASE \/ BeginTick(w) \/ CountForSnapshot(w) \/ CountForDecision(w)
           \/ CountCallsForDecision(w) \/ CountLeases(w)
           \/ EndAllocation(w) \/ EndTick(w)
  BY <1>1
  DEF BeginTick, CountForSnapshot, CountForDecision, CountCallsForDecision,
      CountLeases, EndAllocation, EndTick
<1>2. CASE BuildSnapshot(w) \/ Decide(w)
  BY <1>2 DEF BuildSnapshot, AskFor, Decide, DecideOn
<1>3. CASE Attempt(w) \/ Pair(w) \/ Place(w) \/ SetUp(w)
  BY <1>3 DEF Attempt, Pair, Place, SetUp
<1>4. QED
  BY <1>1, <1>2, <1>3 DEF Work

LEMMA TickStepIsStep == [TickNext]_tickVars => [Next]_vars
<1> SUFFICES ASSUME [TickNext]_tickVars
             PROVE  Next \/ UNCHANGED vars
  OBVIOUS
<1>1. ASSUME NEW w \in Workers, Work(w)
      PROVE  Next \/ UNCHANGED vars
  BY <1>1, WorkIsDialing DEF Next
<1>2. ASSUME NEW w \in Workers, NEW a \in Agents, ReleaseWrapUp(w, a)
      PROVE  Next
  BY <1>2 DEF ReleaseWrapUp, Next
<1>3. CASE ChangeStatus \/ SetMode \/ HealthWindowMoves
  BY <1>3 DEF ChangeStatus, SetMode, HealthWindowMoves
<1>4. CASE Others
  BY <1>4 DEF Others, Next
<1>5. CASE UNCHANGED tickVars
  BY <1>5 DEF tickVars
<1>6. ASSUME NEW w \in Workers, QueryFails(w)
      PROVE  UNCHANGED vars
  BY <1>6 DEF QueryFails
<1>7. QED
  BY <1>1, <1>2, <1>3, <1>4, <1>5, <1>6 DEF TickNext

(* The ticking program implements the program that may dial at any time.   *)
THEOREM TicksImplementDialing == TickSpec => Spec
<1>1. TickInit => Init
  BY DEF TickInit
<1>2. QED
  BY <1>1, TickStepIsStep, PTL DEF TickSpec, Spec

(* Whatever a decision approves, no agent is busy without a lease that the *)
(* recovery worker can find.                                               *)
THEOREM TickingAgentsReclaimable == TickSpec => []BusyAgentIsReclaimable
BY TicksImplementDialing, BusyAgentsReclaimable, PTL

(* However retries are let through, MAX_CALL_ATTEMPTS is never exceeded.   *)
THEOREM TickingAttemptsLimited == TickSpec => []AttemptsWithinLimit
BY TicksImplementDialing, AttemptsLimited, PTL

(* A program that ticks keeps the contract of a campaign as long as it does*)
(* not crash and its workers are not cancelled.                            *)
THEOREM TickingCampaignKeepsItsContract ==
  ASSUME WellBehaved, IsFiniteSet(Agents)
  PROVE  TickSpec => CampaignContractIsKept
BY TicksImplementDialing, CampaignKeepsItsContract, PTL

-----------------------------------------------------------------------------
(* Counts.  Where a count of agents or calls matters there are finitely    *)
(* many of them.                                                           *)
FiniteCampaign == IsFiniteSet(Agents) /\ IsFiniteSet(Borrowers)

LEMMA CallKeysAreFinite ==
  ASSUME FiniteCampaign
  PROVE  IsFiniteSet(CallKeys)
<1> DEFINE T == Agents \X (Borrowers \X (1..MaxAttempts))
           f == [k \in CallKeys |-> <<k.agent, <<k.borrower, k.attempt>>>>]
<1>1. IsFiniteSet(1..MaxAttempts)
  BY FS_Interval, StoreAssumption
<1>2. IsFiniteSet(Borrowers \X (1..MaxAttempts))
  BY <1>1, FS_Product DEF FiniteCampaign
<1>3. IsFiniteSet(T)
  BY <1>2, FS_Product DEF FiniteCampaign
<1>4. \A k \in CallKeys : /\ k.agent \in Agents /\ k.borrower \in Borrowers
                          /\ k.attempt \in 1..MaxAttempts
  BY DEF CallKeys
<1>5. \A j, k \in CallKeys : f[j] = f[k] => j = k
  BY DEF CallKeys
<1>6. f \in Injection(CallKeys, T)
  BY <1>4, <1>5 DEF Injection, IsInjective
<1> HIDE DEF f, T
<1>7. QED
  BY <1>3, <1>6, FS_Injection

(* Whatever is counted of a finite campaign is a number.                   *)
LEMMA CountsAreNumbers ==
  ASSUME FiniteCampaign
  PROVE  /\ \A S \in SUBSET Agents : IsFiniteSet(S) /\ Cardinality(S) \in Nat
         /\ \A S \in SUBSET CallKeys : IsFiniteSet(S) /\ Cardinality(S) \in Nat
BY CallKeysAreFinite, FS_Subset, FS_CardinalityType DEF FiniteCampaign

LEMMA CountAgentsOK ==
  ASSUME FiniteCampaign
  PROVE  /\ CountAgents \in TickCounts
         /\ [CountAgents EXCEPT !.connected = 0, !.wrapUp = 0] \in TickCounts
<1>1. \A state : AgentsIn(state) \in Nat
  BY CountsAreNumbers DEF AgentsIn
<1>2. QED
  BY <1>1 DEF CountAgents, NotRead, TickCounts

-----------------------------------------------------------------------------
(* The request                                                             *)

Windows == [answered : Nat, total : Nat]

SnapshotTypes ==
  [available : Nat, soonFree : Nat, inFlight : Nat, recent : Windows,
   previous : Windows, healthFactor : Nat]

LEMMA RateIsPositive ==
  ASSUME NEW recent \in Windows
  PROVE  /\ BlendedAnswerRate(recent)[1] \in Int
         /\ BlendedAnswerRate(recent)[1] > 0
         /\ BlendedAnswerRate(recent)[2] \in Int
<1>1. /\ MinAnswerRate \in Nat \ {0} /\ MaxAnswerRate \in Nat \ {0}
      /\ BaselineAnswerRate \in Nat \ {0}
  BY PacingAssumption
<1>2. ASSUME NEW n \in Int, NEW d \in Int, d > 0
      PROVE  /\ Clamped(<<n, d>>)[1] \in Int /\ Clamped(<<n, d>>)[1] > 0
             /\ Clamped(<<n, d>>)[2] \in Int
  <2>1. MinAnswerRate * d > 0 /\ MinAnswerRate * d \in Int
    BY <1>1, <1>2
  <2>2. 100 * n < MinAnswerRate * d \/ n > 0
    BY <1>2, <2>1
  <2>3. QED
    BY <1>1, <1>2, <2>2 DEF Clamped
<1>3. CASE recent.total = 0
  BY <1>1, <1>2, <1>3 DEF BlendedAnswerRate
<1>4. CASE recent.total # 0
  <2>1. /\ recent.answered \in Nat /\ recent.total \in Nat /\ recent.total > 0
    BY <1>4 DEF Windows
  <2>2. 3 * BaselineAnswerRate \in Nat
    BY <1>1
  <2>3. 3 * BaselineAnswerRate * recent.total \in Int
    BY <2>1, <2>2
  <2>4. /\ 700 * recent.answered + 3 * BaselineAnswerRate * recent.total \in Int
        /\ 1000 * recent.total \in Int /\ 1000 * recent.total > 0
    BY <2>1, <2>3
  <2>5. QED
    BY <1>2, <1>4, <2>4 DEF BlendedAnswerRate
<1>5. QED
  BY <1>3, <1>4

LEMMA RawRequestIsNumber ==
  ASSUME NEW mode \in DialingModes, NEW snapshot \in SnapshotTypes
  PROVE  RawRequest(snapshot, EngineConfig(mode)) \in Nat
<1> DEFINE config   == EngineConfig(mode)
           rate     == IF config.forced THEN <<1, 1>>
                       ELSE BlendedAnswerRate(snapshot.recent)
           capacity == 100 * snapshot.available +
                         config.soonFreeWeight * snapshot.soonFree
           needed   == (capacity * rate[2]) \div (100 * rate[1])
<1>1. rate[1] \in Int /\ rate[1] > 0 /\ rate[2] \in Int
  BY RateIsPositive DEF SnapshotTypes
<1>2. config.soonFreeWeight \in Nat
  BY PacingAssumption DEF EngineConfig
<1>3. /\ snapshot.available \in Nat /\ snapshot.soonFree \in Nat
      /\ snapshot.inFlight \in Nat
  BY DEF SnapshotTypes
<1>4. capacity \in Int
  BY <1>2, <1>3
<1> HIDE DEF capacity, rate
<1>5. needed \in Int
  <2>1. capacity * rate[2] \in Int
    BY <1>1, <1>4
  <2>2. 100 * rate[1] \in Int /\ 100 * rate[1] > 0
    BY <1>1
  <2>3. QED
    BY <2>1, <2>2
<1>6. RawRequest(snapshot, config) =
        IF needed > snapshot.inFlight THEN needed - snapshot.inFlight ELSE 0
  BY DEF RawRequest, capacity, rate
<1> HIDE DEF needed
<1>7. QED
  BY <1>3, <1>5, <1>6

LEMMA RequestIsNumber ==
  ASSUME NEW mode \in DialingModes, NEW snapshot \in SnapshotTypes
  PROVE  ComputeRequest(mode, snapshot) \in Nat
<1> DEFINE raw        == RawRequest(snapshot, EngineConfig(mode))
           margin     == EngineConfig(mode).margin
           volatility == IF IsVolatile(snapshot.recent, snapshot.previous)
                         THEN VolatilityFactor ELSE 100
           product    == raw * margin * snapshot.healthFactor * volatility
<1>1. raw \in Nat
  BY RawRequestIsNumber
<1>2. margin \in Nat /\ volatility \in Nat /\ snapshot.healthFactor \in Nat
  BY PacingAssumption DEF EngineConfig, SnapshotTypes
<1> HIDE DEF raw, margin, volatility
<1>3. \A m, n \in Nat : m * n \in Nat
  OBVIOUS
<1>4. product \in Nat
  BY <1>1, <1>2, <1>3
<1>5. ComputeRequest(mode, snapshot) \in
        {product \div 1000000, MaxRequestPerTick}
  BY DEF ComputeRequest, raw, margin, volatility
<1> HIDE DEF product
<1>6. product \div 1000000 \in Nat
  BY <1>4
<1>7. QED
  BY <1>5, <1>6, PacingAssumption

-----------------------------------------------------------------------------
(* Types                                                                   *)

HealthOK == HealthStatus \in HealthStatuses /\ HealthFactor \in Nat

LEMMA HealthIsKnown == HealthOK
<1>1. HealthStatus \in HealthStatuses
  BY DEF HealthStatus, HealthStatuses
<1>2. QED
  BY <1>1 DEF HealthOK, HealthFactor, HealthStatuses

LEMMA SnapshotsOK ==
  ASSUME FiniteCampaign, TickTypeOK, NEW w \in Workers,
         NEW recent \in SUBSET Ended, NEW previous \in SUBSET (Ended \ recent),
         NEW snapshot \in Snapshots(w, recent, previous)
  PROVE  snapshot \in SnapshotTypes
<1>1. PICK long \in 0..tick[w].counts.connected :
        snapshot =
          [available    |-> tick[w].counts.available,
           soonFree     |-> tick[w].counts.wrapUp + long,
           inFlight     |-> Cardinality(CallsIn("RINGING") \cup CallsIn("INITIATED"))
                              + tick[w].counts.reserved,
           recent       |-> Window(recent),
           previous     |-> Window(previous),
           healthFactor |-> HealthFactor]
  BY DEF Snapshots
<1>2. tick[w].counts \in TickCounts
  BY DEF TickTypeOK, Ticks
<1>3. Cardinality(CallsIn("RINGING") \cup CallsIn("INITIATED")) \in Nat
  BY CountsAreNumbers DEF CallsIn
<1>4. \A ended \in SUBSET CallKeys : Window(ended) \in Windows
  BY CountsAreNumbers DEF Window, Windows
<1>5. recent \in SUBSET CallKeys /\ previous \in SUBSET CallKeys
  BY DEF Ended
<1>6. HealthFactor \in Nat
  BY HealthIsKnown DEF HealthOK
<1>7. QED
  BY <1>1, <1>2, <1>3, <1>4, <1>5, <1>6 DEF SnapshotTypes, TickCounts

LEMMA ReadingOK ==
  ASSUME TickTypeOK, NEW w \in Workers,
         NEW failing \in BOOLEAN, NEW dropped \in BOOLEAN, NEW tooOld \in BOOLEAN
  PROVE  Reading(w, failing, dropped, tooOld) \in Readings
<1>1. tick[w].counts \in TickCounts
  BY DEF TickTypeOK, Ticks
<1>2. QED
  BY <1>1, HealthIsKnown DEF HealthOK, Reading, Readings, TickCounts

(* What a decision approves is a number.                                   *)
LEMMA DecisionOK ==
  ASSUME TickTypeOK, NEW w \in Workers, Decide(w)
  PROVE  \E reading \in Readings :
           /\ reading.active = tick[w].counts.active
           /\ reading.available = tick[w].counts.available
           /\ reading.health = HealthStatus
           /\ LET approved == Approved(tick[w].requested, tick[w].mode, reading)
              IN  /\ approved \in Nat
                  /\ tick' = [tick EXCEPT ![w].pc = "allocate",
                                          ![w].counts = NotRead,
                                          ![w].requested = 0,
                                          ![w].left = approved]
<1> DEFINE readings == {Reading(w, failing, dropped, tooOld) :
                          failing, dropped, tooOld \in BOOLEAN}
<1>9. DecideOn(w, readings)
  BY DEF Decide
<1> HIDE DEF readings
<1>8. PICK approved \in {Approved(tick[w].requested, tick[w].mode, reading) :
                           reading \in readings} :
        tick' = [tick EXCEPT ![w].pc = "allocate", ![w].counts = NotRead,
                             ![w].requested = 0, ![w].left = approved]
  BY <1>9, Zenon DEF DecideOn
<1>0. PICK reading \in readings :
        approved = Approved(tick[w].requested, tick[w].mode, reading)
  BY Zenon
<1>1. PICK failing \in BOOLEAN, dropped \in BOOLEAN, tooOld \in BOOLEAN :
        reading = Reading(w, failing, dropped, tooOld)
  BY DEF readings
<1>2. Reading(w, failing, dropped, tooOld) \in Readings
  BY ReadingOK
<1>3. tick[w].requested \in Nat
  BY DEF TickTypeOK, Ticks
<1>4. /\ Reading(w, failing, dropped, tooOld).active = tick[w].counts.active
      /\ Reading(w, failing, dropped, tooOld).available = tick[w].counts.available
      /\ Reading(w, failing, dropped, tooOld).health = HealthStatus
  BY DEF Reading
<1>5. Approved(tick[w].requested, tick[w].mode,
               Reading(w, failing, dropped, tooOld)) \in Nat
  BY <1>2, <1>3, ApprovedOK
<1>6. QED
  BY <1>8, <1>0, <1>1, <1>2, <1>4, <1>5

LEMMA BetweenOK == Between \in Ticks /\ NotRead \in TickCounts
BY DEF Between, Ticks, TickPcs, NotRead, TickCounts, DialingModes

LEMMA TickTypeInit == TickInit => TickTypeOK
<1> SUFFICES ASSUME TickInit PROVE TickTypeOK
  OBVIOUS
<1>1. campaign \in [running : BOOLEAN, mode : DialingModes]
  BY DEF TickInit
<1>2. tick \in [Workers -> Ticks]
  BY BetweenOK DEF TickInit
<1>3. HealthTypeOK
  BY DEF TickInit, HealthInit, HealthTypeOK
<1>4. QED
  BY <1>1, <1>2, <1>3 DEF TickTypeOK

LEMMA SamplesOK ==
  ASSUME HealthTypeOK, NEW kind \in SampleKinds,
         RecordOriginate(kind) \/ SampleExpires
  PROVE  HealthTypeOK'
BY DEF HealthTypeOK, RecordOriginate, SampleExpires

(* What one step makes of the record of one worker.                        *)
LEMMA TickChanges ==
  ASSUME tick \in [Workers -> Ticks], NEW w \in Workers
  PROVE  /\ \A pc \in TickPcs, mode \in DialingModes :
              [tick EXCEPT ![w].pc = pc, ![w].mode = mode]
                \in [Workers -> Ticks]
         /\ \A pc \in TickPcs, counts \in TickCounts :
              [tick EXCEPT ![w].pc = pc, ![w].counts = counts]
                \in [Workers -> Ticks]
         /\ \A pc \in TickPcs, counts \in TickCounts, requested \in Nat :
              [tick EXCEPT ![w].pc = pc, ![w].counts = counts,
                           ![w].requested = requested] \in [Workers -> Ticks]
         /\ \A pc \in TickPcs, counts \in TickCounts, requested \in Nat,
               left \in Nat :
              [tick EXCEPT ![w].pc = pc, ![w].counts = counts,
                           ![w].requested = requested, ![w].left = left]
                \in [Workers -> Ticks]
         /\ \A pc \in TickPcs, left \in Nat, contended \in Nat :
              [tick EXCEPT ![w].pc = pc, ![w].left = left,
                           ![w].contended = contended] \in [Workers -> Ticks]
         /\ [tick EXCEPT ![w] = Between] \in [Workers -> Ticks]
<1>1. tick[w] \in Ticks
  OBVIOUS
<1>2. ASSUME NEW r \in Ticks PROVE [tick EXCEPT ![w] = r] \in [Workers -> Ticks]
  OBVIOUS
<1>3. \A pc \in TickPcs, mode \in DialingModes :
        [tick EXCEPT ![w].pc = pc, ![w].mode = mode] \in [Workers -> Ticks]
  BY <1>1 DEF Ticks
<1>4. \A pc \in TickPcs, counts \in TickCounts :
        [tick EXCEPT ![w].pc = pc, ![w].counts = counts] \in [Workers -> Ticks]
  BY <1>1 DEF Ticks
<1>5. \A pc \in TickPcs, counts \in TickCounts, requested \in Nat :
        [tick EXCEPT ![w].pc = pc, ![w].counts = counts,
                     ![w].requested = requested] \in [Workers -> Ticks]
  BY <1>1 DEF Ticks
<1>6. \A pc \in TickPcs, counts \in TickCounts, requested \in Nat,
         left \in Nat :
        [tick EXCEPT ![w].pc = pc, ![w].counts = counts,
                     ![w].requested = requested, ![w].left = left]
          \in [Workers -> Ticks]
  BY <1>1 DEF Ticks
<1>7. \A pc \in TickPcs, left \in Nat, contended \in Nat :
        [tick EXCEPT ![w].pc = pc, ![w].left = left, ![w].contended = contended]
          \in [Workers -> Ticks]
  BY <1>1 DEF Ticks
<1>8. [tick EXCEPT ![w] = Between] \in [Workers -> Ticks]
  BY <1>2, BetweenOK
<1>9. QED
  BY <1>3, <1>4, <1>5, <1>6, <1>7, <1>8

LEMMA TickTypeNext ==
  ASSUME FiniteCampaign, TickTypeOK, [TickNext]_tickVars
  PROVE  TickTypeOK'
<1>1. /\ tick \in [Workers -> Ticks]
      /\ campaign \in [running : BOOLEAN, mode : DialingModes]
      /\ HealthTypeOK
      /\ \A w \in Workers : tick[w] \in Ticks
  BY DEF TickTypeOK
<1>2. UNCHANGED samples => HealthTypeOK'
  BY <1>1 DEF HealthTypeOK
<1>3. NotRead \in TickCounts
  BY BetweenOK
<1>4. ASSUME tick' \in [Workers -> Ticks], UNCHANGED <<campaign, samples>>
      PROVE  TickTypeOK'
  BY <1>1, <1>2, <1>4 DEF TickTypeOK
<1>5. ASSUME NEW w \in Workers, BeginTick(w)
      PROVE  TickTypeOK'
  <2>1. "snapshotAgents" \in TickPcs /\ campaign.mode \in DialingModes
    BY <1>1 DEF TickPcs
  <2>2. tick' \in [Workers -> Ticks]
    BY <1>1, <1>5, <2>1, TickChanges DEF BeginTick
  <2>3. QED
    BY <1>4, <1>5, <2>2 DEF BeginTick
<1>6. ASSUME NEW w \in Workers, CountForSnapshot(w) \/ CountForDecision(w)
      PROVE  TickTypeOK'
  <2>1. PICK pc \in TickPcs, counts \in TickCounts :
          tick' = [tick EXCEPT ![w].pc = pc, ![w].counts = counts]
    BY <1>6, CountAgentsOK DEF CountForSnapshot, CountForDecision, TickPcs
  <2>2. tick' \in [Workers -> Ticks]
    BY <1>1, <2>1, TickChanges
  <2>3. QED
    BY <1>4, <1>6, <2>2 DEF CountForSnapshot, CountForDecision
<1>7. ASSUME NEW w \in Workers, BuildSnapshot(w)
      PROVE  TickTypeOK'
  <2>1. PICK recent \in SUBSET Ended :
          \E previous \in SUBSET (Ended \ recent) : AskFor(w, recent, previous)
    BY <1>7 DEF BuildSnapshot
  <2>2. PICK previous \in SUBSET (Ended \ recent) : AskFor(w, recent, previous)
    BY <2>1
  <2>3. PICK requested \in {ComputeRequest(tick[w].mode, snapshot) :
                             snapshot \in Snapshots(w, recent, previous)} :
          tick' = [tick EXCEPT ![w].pc = "readAgents", ![w].counts = NotRead,
                               ![w].requested = requested]
    BY <2>2, Zenon DEF AskFor
  <2>4. PICK snapshot \in Snapshots(w, recent, previous) :
          requested = ComputeRequest(tick[w].mode, snapshot)
    BY Zenon
  <2>5. tick[w].mode \in DialingModes
    BY <1>1 DEF Ticks
  <2>6. requested \in Nat
    BY <2>4, <2>5, SnapshotsOK, RequestIsNumber
  <2>7. "readAgents" \in TickPcs
    BY DEF TickPcs
  <2>8. tick' \in [Workers -> Ticks]
    BY <1>1, <1>3, <2>3, <2>6, <2>7, TickChanges
  <2>9. QED
    BY <1>4, <2>2, <2>8 DEF AskFor
<1>8. ASSUME NEW w \in Workers, Decide(w)
      PROVE  TickTypeOK'
  <2>1. PICK approved \in Nat :
          tick' = [tick EXCEPT ![w].pc = "allocate", ![w].counts = NotRead,
                               ![w].requested = 0, ![w].left = approved]
    BY <1>8, DecisionOK
  <2>2. "allocate" \in TickPcs
    BY DEF TickPcs
  <2>3. tick' \in [Workers -> Ticks]
    BY <1>1, <1>3, <2>1, <2>2, TickChanges
  <2>4. QED
    BY <1>4, <1>8, <2>3 DEF Decide, DecideOn
<1>9. ASSUME NEW w \in Workers, Attempt(w) \/ Pair(w)
      PROVE  TickTypeOK'
  <2>1. tick[w].left \in Nat /\ tick[w].contended \in Nat
    BY <1>1 DEF Ticks
  <2>2. \E left \in Nat, contended \in Nat :
          tick' = [tick EXCEPT ![w].left = left, ![w].contended = contended]
    <3>1. CASE /\ Attempt(w) /\ tick[w].left > 0
               /\ tick' = [tick EXCEPT ![w].left = @ - 1]
      <4>1. tick[w].left - 1 \in Nat
        BY <2>1, <3>1
      <4>2. tick' = [tick EXCEPT ![w].left = tick[w].left - 1,
                                 ![w].contended = tick[w].contended]
        BY <1>1, <3>1 DEF Ticks
      <4>3. QED
        BY <2>1, <4>1, <4>2
    <3>2. CASE /\ Attempt(w) /\ tick[w].left > 0
               /\ tick' = [tick EXCEPT ![w].left = @ - 1, ![w].contended = @ + 1]
      <4>1. tick[w].left - 1 \in Nat /\ tick[w].contended + 1 \in Nat
        BY <2>1, <3>2
      <4>2. QED
        BY <3>2, <4>1
    <3>3. ASSUME NEW n \in Nat, tick' = [tick EXCEPT ![w].contended = n]
          PROVE  \E left \in Nat, contended \in Nat :
                   tick' = [tick EXCEPT ![w].left = left,
                                        ![w].contended = contended]
      <4>1. tick' = [tick EXCEPT ![w].left = tick[w].left, ![w].contended = n]
        BY <1>1, <3>3 DEF Ticks
      <4>2. QED
        BY <2>1, <4>1
    <3>4. CASE Pair(w)
      <4>1. \/ tick' = [tick EXCEPT ![w].contended = 0]
            \/ tick' = [tick EXCEPT ![w].contended = tick[w].contended + 1]
        BY <3>4 DEF Pair
      <4>2. 0 \in Nat /\ tick[w].contended + 1 \in Nat
        BY <2>1
      <4>3. QED
        BY <3>3, <4>1, <4>2
    <3>5. QED
      BY <1>9, <3>1, <3>2, <3>4 DEF Attempt
  <2>3. tick' \in [Workers -> Ticks]
    <3>1. PICK left \in Nat :
            \E contended \in Nat :
              tick' = [tick EXCEPT ![w].left = left, ![w].contended = contended]
      BY <2>2
    <3>2. PICK contended \in Nat :
            tick' = [tick EXCEPT ![w].left = left, ![w].contended = contended]
      BY <3>1
    <3>3. tick' = [tick EXCEPT ![w] = [tick[w] EXCEPT !.left = left,
                                                      !.contended = contended]]
      BY <1>1, <3>2
    <3>4. [tick[w] EXCEPT !.left = left, !.contended = contended] \in Ticks
      BY <1>1 DEF Ticks
    <3>5. QED
      BY <1>1, <3>3, <3>4
  <2>4. QED
    BY <1>4, <1>9, <2>3 DEF Attempt, Pair
<1>10. ASSUME NEW w \in Workers, Place(w)
       PROVE  TickTypeOK'
  <2>1. HealthTypeOK'
    BY <1>1, <1>10, SamplesOK DEF Place, SampleKinds
  <2>2. QED
    BY <1>1, <1>10, <2>1 DEF Place, TickTypeOK
<1>11. ASSUME NEW w \in Workers, EndAllocation(w) \/ EndTick(w) \/ QueryFails(w)
       PROVE  TickTypeOK'
  <2>1. "wrapUps" \in TickPcs /\ "allocate" \in TickPcs /\ 0 \in Nat
    BY DEF TickPcs
  <2>2. tick' \in [Workers -> Ticks]
    <3>1. \/ tick' = [tick EXCEPT ![w].pc = "wrapUps", ![w].left = 0,
                                  ![w].contended = 0]
          \/ tick' = [tick EXCEPT ![w] = Between]
          \/ tick' = [tick EXCEPT ![w].pc = "allocate", ![w].counts = NotRead,
                                  ![w].requested = 0]
      BY <1>11 DEF EndAllocation, EndTick, QueryFails
    <3>2. CASE tick' = [tick EXCEPT ![w].pc = "wrapUps", ![w].left = 0,
                                    ![w].contended = 0]
      BY <1>1, <2>1, <3>2, TickChanges
    <3>3. CASE tick' = [tick EXCEPT ![w] = Between]
      BY <1>1, <3>3, TickChanges
    <3>4. CASE tick' = [tick EXCEPT ![w].pc = "allocate", ![w].counts = NotRead,
                                    ![w].requested = 0]
      BY <1>1, <1>3, <2>1, <3>4, TickChanges
    <3>5. QED
      BY <3>1, <3>2, <3>3, <3>4
  <2>3. QED
    BY <1>4, <1>11, <2>2 DEF EndAllocation, EndTick, QueryFails
<1>12. CASE ChangeStatus \/ SetMode
  <2>1. campaign' \in [running : BOOLEAN, mode : DialingModes]
    BY <1>1, <1>12 DEF ChangeStatus, SetMode
  <2>2. QED
    BY <1>1, <1>2, <1>12, <2>1 DEF ChangeStatus, SetMode, TickTypeOK
<1>13. CASE HealthWindowMoves
  <2>1. HealthTypeOK'
    BY <1>1, <1>13, SamplesOK DEF HealthWindowMoves, SampleKinds
  <2>2. QED
    BY <1>1, <1>13, <2>1 DEF HealthWindowMoves, TickTypeOK
<1>14. CASE UNCHANGED gateVars
  BY <1>1, <1>2, <1>14 DEF gateVars, TickTypeOK
<1>15. ASSUME NEW w \in Workers, CountCallsForDecision(w) \/ CountLeases(w)
       PROVE  TickTypeOK'
  <2>1. /\ Cardinality(FindActive) \in Nat
        /\ Cardinality(CallsIn("RINGING")) \in Nat
        /\ Cardinality(ExpiredAgentLeases) \in Nat
    BY CountsAreNumbers DEF FindActive, CallsIn, ExpiredAgentLeases
  <2> DEFINE known == tick[w].counts
             withCalls ==
               [known EXCEPT !.active = Cardinality(FindActive),
                             !.ringing = Cardinality(CallsIn("RINGING"))]
             withLeases ==
               [known EXCEPT !.expired = Cardinality(ExpiredAgentLeases)]
  <2>2. withCalls \in TickCounts /\ withLeases \in TickCounts
    BY <1>1, <2>1 DEF Ticks, TickCounts
  <2>3. \/ tick' = [tick EXCEPT ![w].pc = "readLeases", ![w].counts = withCalls]
        \/ tick' = [tick EXCEPT ![w].pc = "readOutcomes", ![w].counts = withLeases]
    BY <1>15 DEF CountCallsForDecision, CountLeases
  <2> HIDE DEF withCalls, withLeases
  <2>4. "readLeases" \in TickPcs /\ "readOutcomes" \in TickPcs
    BY DEF TickPcs
  <2>5. tick' \in [Workers -> Ticks]
    <3>1. PICK pc \in TickPcs, counts \in TickCounts :
            tick' = [tick EXCEPT ![w].pc = pc, ![w].counts = counts]
      BY <2>2, <2>3, <2>4, Zenon
    <3>2. QED
      BY <1>1, <3>1, TickChanges
  <2>6. QED
    BY <1>4, <1>15, <2>5 DEF CountCallsForDecision, CountLeases
<1>16. QED
  BY <1>5, <1>6, <1>7, <1>8, <1>9, <1>10, <1>11, <1>12, <1>13, <1>14, <1>15
  DEF TickNext, Work, SetUp, Others, ReleaseWrapUp, tickVars

(* How a worker moves through _dial.                                       *)
LEMMA DialAdvances ==
  ASSUME CallsInv, NEW w \in Workers, Dialer(w)
  PROVE  /\ dial[w].pc = "idle" => ClaimAgent(w) /\ dial'[w].pc = "claimBorrower"
         /\ dial[w].pc = "claimBorrower" =>
              dial'[w].pc \in {"create", "freeAgent", "idle"}
         /\ dial[w].pc = "create" => dial'[w].pc \in {"reserve", "freeAgent"}
         /\ dial[w].pc = "reserve" => dial'[w].pc = "initiate"
         /\ dial[w].pc = "initiate" =>
              dial'[w].pc \in {"markDialing", "freeAgent"}
         /\ dial[w].pc = "markDialing" => dial'[w].pc = "bind"
         /\ dial[w].pc = "bind" => dial'[w].pc = "originate"
         /\ dial[w].pc \in {"originate", "attach", "failCall", "freeAgent",
                            "freeBorrower"} =>
              dial'[w].pc \in {"attach", "failCall", "freeAgent",
                               "freeBorrower", "idle"}
         /\ dial[w].pc \in {"create", "reserve"} => DialKey(w)' = DialKey(w)
         /\ \A v \in Workers \ {w} : dial'[v] = dial[v] /\ DialKey(v)' = DialKey(v)
<1>1. dial \in [Workers -> Dials]
  BY DEF CallsInv, IInv, AllocatorOK, AllocatorTypeOK
<1>2. dial[w] \in Dials /\ IdleDial.pc = "idle"
  BY <1>1 DEF IdleDial
<1>3. \A v \in Workers \ {w} : dial'[v] = dial[v] /\ DialKey(v)' = DialKey(v)
  BY OtherDialsStay DEF Dialer, CallsInv
<1>4. CASE ClaimAgent(w)
  BY <1>1, <1>2, <1>3, <1>4 DEF ClaimAgent, IdleDial
<1>5. CASE ClaimBorrower(w)
  <2>1. dial[w].pc = "claimBorrower" /\ dial'[w].pc \in {"create", "freeAgent"}
    BY <1>1, <1>2, <1>5 DEF ClaimBorrower, Dials
  <2>2. QED
    BY <1>3, <2>1
<1>6. CASE GiveAgentBack(w) \/ FreeBorrower(w)
  BY <1>1, <1>2, <1>3, <1>6 DEF GiveAgentBack, FreeBorrower, EndDial, IdleDial
<1>7. CASE Create(w) \/ Reserve(w) \/ Initiate(w)
  <2>1. dial'[w] \in [pc : DialPcs, agent : {dial[w].agent}, version : Nat,
                      borrower : {dial[w].borrower},
                      attempt : {dial[w].attempt}, line : {dial[w].line},
                      outcome : Outcomes, stopping : BOOLEAN]
    BY <1>1, <1>2, <1>7
    DEF Create, Reserve, Initiate, Goto, GotoRelease, Dials, DialPcs, Outcomes
  <2>2. DialKey(w)' = DialKey(w)
    BY <2>1 DEF DialKey
  <2>3. /\ dial[w].pc = "create" => dial'[w].pc \in {"reserve", "freeAgent"}
        /\ dial[w].pc = "reserve" => dial'[w].pc = "initiate"
        /\ dial[w].pc = "initiate" => dial'[w].pc \in {"markDialing", "freeAgent"}
        /\ dial[w].pc \in {"create", "reserve", "initiate"}
    BY <1>1, <1>2, <1>7
    DEF Create, Reserve, Initiate, Goto, GotoRelease, Dials
  <2>4. QED
    BY <1>3, <2>2, <2>3
<1>8. CASE MarkDialing(w) \/ Bind(w) \/ Originate(w) \/ FailCall(w) \/ FreeAgent(w)
  BY <1>1, <1>2, <1>3, <1>8
  DEF MarkDialing, Bind, Originate, FailCall, FreeAgent, Goto, GotoRelease, Dials
<1>9. CASE Attach(w)
  BY <1>1, <1>2, <1>3, <1>9 DEF Attach, Goto, EndDial, Dials, IdleDial
<1>10. QED
  BY <1>4, <1>5, <1>6, <1>7, <1>8, <1>9 DEF Dialer, DialStep

-----------------------------------------------------------------------------
(* Who makes a call one in progress.                                       *)

Activating(w) == dial[w].pc \in {"reserve", "initiate"}

LEMMA TransitionTakes ==
  ASSUME CallsOK, NEW j \in CallKeys, NEW target, TransitionCall(j, target),
         NEW k \in CallKeys
  PROVE  \/ calls'[k].state = calls[k].state
         \/ k = j /\ TransitionCallMatches(j, target) /\ calls'[k].state = target
<1>1. calls \in [CallKeys -> CallDocuments] /\ calls[k] \in CallDocuments
  BY DEF CallsOK
<1>2. CASE TransitionCallMatches(j, target)
  BY <1>1, <1>2 DEF TransitionCall, CallDocuments
<1>3. CASE ~TransitionCallMatches(j, target)
  BY <1>3 DEF TransitionCall
<1>4. QED
  BY <1>2, <1>3

LEMMA EndingActivatesNone ==
  ASSUME CallsOK, NEW j \in CallKeys, NEW target,
         IsTerminal(target) \/ j \in FindActive \/ ~TransitionCallMatches(j, target),
         TransitionCall(j, target)
  PROVE  FindActive' \subseteq FindActive
<1> SUFFICES ASSUME NEW k \in CallKeys, k \in FindActive'
             PROVE  k \in FindActive
  BY DEF FindActive
<1>1. calls'[k].state = calls[k].state \/ k = j
  BY TransitionTakes
<1>2. CASE calls'[k].state = calls[k].state
  BY <1>2 DEF FindActive
<1>3. CASE calls'[k].state # calls[k].state
  <2>1. k = j /\ calls'[k].state = target /\ TransitionCallMatches(j, target)
    BY <1>3, TransitionTakes
  <2>2. QED
    BY <2>1 DEF FindActive, IsTerminal
<1>4. QED
  BY <1>2, <1>3

LEMMA SameCallsActivateNone ==
  ASSUME UNCHANGED calls
  PROVE  FindActive' \subseteq FindActive
BY DEF FindActive

LEMMA DialActivates ==
  ASSUME CallsInv, NEW w \in Workers, Dialer(w)
  PROVE  IF Activating(w) THEN FindActive' \subseteq FindActive \cup {DialKey(w)}
                          ELSE FindActive' \subseteq FindActive
<1>1. CallsOK /\ calls \in [CallKeys -> CallDocuments]
  BY DEF CallsInv, IInv, StoreOK, CallsOK
<1>2. dial[w].pc \notin {"idle", "claimBorrower"} => DialKey(w) \in CallKeys
  BY DialKeyOK DEF CallsInv, IInv
<1>3. CASE UNCHANGED calls
  BY <1>3, SameCallsActivateNone
<1>4. CASE Create(w)
  <2>1. CASE calls[DialKey(w)].state = "ABSENT"
    <3>1. \A k \in CallKeys : \/ calls'[k] = calls[k]
                              \/ calls'[k].state = "QUEUED"
      BY <1>1, <1>4, <2>1 DEF Create, CreateCall, CallDocuments
    <3>2. QED
      BY <1>4, <3>1 DEF Create, FindActive, Activating
  <2>2. CASE calls[DialKey(w)].state # "ABSENT"
    BY <1>3, <1>4, <2>2 DEF Create, CreateCall
  <2>3. QED
    BY <2>1, <2>2
<1>5. CASE Reserve(w) \/ Initiate(w)
  <2>1. DialKey(w) \in CallKeys /\ Activating(w)
    BY <1>2, <1>5 DEF Reserve, Initiate, Activating
  <2>2. \A k \in CallKeys : calls'[k].state = calls[k].state \/ k = DialKey(w)
    BY <1>1, <1>5, <2>1, TransitionTakes DEF Reserve, Initiate
  <2>3. QED
    BY <2>1, <2>2 DEF FindActive
<1>6. CASE FailCall(w)
  <2>1. DialKey(w) \in CallKeys /\ TransitionCall(DialKey(w), "FAILED")
    BY <1>2, <1>6 DEF FailCall
  <2>2. IsTerminal("FAILED")
    BY DEF IsTerminal, TerminalCallStates
  <2>3. FindActive' \subseteq FindActive
    BY <1>1, <2>1, <2>2, EndingActivatesNone
  <2>4. QED
    BY <2>3
<1>7. CASE Attach(w)
  <2>1. DialKey(w) \in CallKeys
    BY <1>2, <1>7 DEF Attach
  <2>2. \A k \in CallKeys : calls'[k].state = calls[k].state
    BY <1>1, <1>7, <2>1 DEF Attach, AttachProviderCallId, CallDocuments
  <2>3. QED
    BY <2>2 DEF FindActive
<1>8. QED
  BY <1>3, <1>4, <1>5, <1>6, <1>7
  DEF Dialer, DialStep, ClaimAgent, ClaimBorrower, GiveAgentBack, MarkDialing,
      Bind, Originate, FreeAgent, FreeBorrower, storeVars

LEMMA OthersActivateNone ==
  ASSUME CallsInv, Others
  PROVE  FindActive' \subseteq FindActive
<1>1. CallsOK /\ calls \in [CallKeys -> CallDocuments]
  BY DEF CallsInv, IInv, StoreOK, CallsOK
<1>2. CASE UNCHANGED calls
  BY <1>2, SameCallsActivateNone
<1>3. ASSUME NEW l \in 1..MaxLines, ApplyCall(l)
      PROVE  FindActive' \subseteq FindActive
  <2> DEFINE k == Handler(l).call
  <2>1. k \in CallKeys
    BY <1>3, BusyHandlerOK DEF ApplyCall, CallsInv, IInv, ProcessorInv
  <2>2. Initiated(k)
    BY <1>3 DEF ApplyCall, CallsInv, EventsOK
  <2>3. TransitionCallMatches(k, Handler(l).target) => k \in FindActive
    BY <2>1, <2>2 DEF TransitionCallMatches, Initiated, FindActive
  <2>4. TransitionCall(k, Handler(l).target)
    BY <1>3 DEF ApplyCall
  <2> HIDE DEF k
  <2>5. QED
    BY <1>1, <2>1, <2>3, <2>4, EndingActivatesNone
<1>4. ASSUME NEW l \in 1..MaxLines, Processor(l)
      PROVE  FindActive' \subseteq FindActive
  BY <1>2, <1>3, <1>4
  DEF Processor, EventStep, ReceiveEvent, ReadAgent, MoveAgent, SettleBorrower,
      Finish, storeVars
<1>5. IsTerminal("CANCELLED") /\ IsTerminal("COMPLETED") /\ IsTerminal("FAILED")
  BY DEF IsTerminal, TerminalCallStates
<1>6. ASSUME NEW item \in sweep.todo, CancelBoundCall(item)
      PROVE  FindActive' \subseteq FindActive
  <2>1. CASE item.call = None
    BY <1>2, <1>6, <2>1 DEF CancelBoundCall
  <2>2. CASE item.call # None
    <3>1. item.call \in CallKeys
      BY <1>6, <2>2
      DEF CancelBoundCall, At, CallsInv, IInv, RecoveryOK, SweepOK, ItemsOf,
          AgentStages, AgentSnapshots
    <3>2. QED
      BY <1>1, <1>5, <1>6, <2>2, <3>1, EndingActivatesNone DEF CancelBoundCall
  <2>3. QED
    BY <2>1, <2>2
<1>7. ASSUME NEW item \in sweep.todo, ReconcileCall(item)
      PROVE  FindActive' \subseteq FindActive
  <2>1. item.call \in CallKeys
    BY <1>7
    DEF ReconcileCall, At, CallsInv, IInv, RecoveryOK, SweepOK, ItemsOf,
        AgentStages, CallSnapshots
  <2>2. IsTerminal(ReconciledState(item))
    BY <1>5 DEF ReconciledState
  <2>3. QED
    BY <1>1, <1>7, <2>1, <2>2, EndingActivatesNone DEF ReconcileCall
<1>8. CASE Recovery
  BY <1>2, <1>6, <1>7, <1>8
  DEF Recovery, RecoveryStep, NextSweep, SweepBorrower, ReleaseStuckWrapUp,
      FreeBoundBorrower, ReclaimAgent, TakeOffline, FreeOrphanAgent,
      FreeOrphanBorrower, storeVars
<1>9. CASE Tick
  <2>1. \A k \in CallKeys : calls'[k].state = calls[k].state
    <3>1. SUFFICES ASSUME NEW k \in CallKeys
                   PROVE  calls'[k].state = calls[k].state
      OBVIOUS
    <3>2. calls'[k] = [calls[k] EXCEPT !.idle = Elapsed(@)]
      BY <1>9 DEF Tick, TickStore
    <3>3. QED
      BY <1>1, <3>2 DEF CallDocuments
  <2>2. QED
    BY <2>1 DEF FindActive
<1>10. CASE \/ \E a \in Agents : Session(a)
            \/ \E b \in Borrowers : Backoff(b)
  BY <1>2, <1>10
  DEF Session, SessionStep, Login, Logout, Pause, Resume, Heartbeat,
      FallSilent, AgentAction, Backoff
<1>11. QED
  BY <1>4, <1>8, <1>9, <1>10 DEF Others

(* Outside of allocate, no call is approved and none is being set up.      *)
AllocatingOK ==
  \A w \in Workers : tick[w].pc # "allocate" =>
    tick[w].left = 0 /\ dial[w].pc = "idle"

TickInv == CallsInv /\ TickTypeOK /\ AllocatingOK

(* The three kinds of steps there are with one worker: a decision, ...     *)
OnlyWorker(w) == Workers = {w}

(* ... a step of setting up a call, which each approved call takes once    *)
(* from being idle and which meets the carrier once, ...                   *)
SetsUp(w) ==
  /\ Dialer(w)
  /\ tick'[w].pc = "allocate"
  /\ IF dial[w].pc = "idle" THEN tick'[w].left = tick[w].left - 1
                            ELSE tick'[w].left = tick[w].left
  /\ tick[w].left > 0 \/ dial[w].pc # "idle"
  /\ IF dial[w].pc = "originate" THEN Place(w) ELSE UNCHANGED samples

(* Where in its tick the worker knows the agents, and the calls.           *)
KnowsAgents == {"readCalls", "readLeases", "readOutcomes"}
KnowsCalls  == {"readLeases", "readOutcomes"}

(* ... and everything else, by which calls approved are at most forgotten  *)
(* and what is known is either just read or kept from before.              *)
Elsewhere(w) ==
  /\ UNCHANGED dial
  /\ tick'[w].left = tick[w].left \/ tick'[w].left \in 0..tick[w].left
  /\ tick'[w].pc # "allocate" => tick'[w].left = 0 /\ dial[w].pc = "idle"
  /\ tick'[w].pc \in KnowsAgents =>
       \/ /\ tick[w].pc \in KnowsAgents
          /\ tick'[w].counts.available = tick[w].counts.available
       \/ /\ UNCHANGED vars
          /\ tick'[w].counts.available = AgentsIn("AVAILABLE")
  /\ tick'[w].pc \in KnowsCalls =>
       \/ /\ tick[w].pc \in KnowsCalls
          /\ tick'[w].counts.active = tick[w].counts.active
       \/ /\ UNCHANGED vars
          /\ tick'[w].counts.active = Cardinality(FindActive)
  /\ UNCHANGED samples \/ SampleExpires
  /\ UNCHANGED vars \/ Others \/ \E a \in Agents : WrapUpEnds(a)

LEMMA SettingUpSteps ==
  ASSUME TickInv, NEW w \in Workers,
         Pair(w) \/ Place(w) \/ SetUp(w) \/ (Attempt(w) /\ Dialer(w))
  PROVE  SetsUp(w) \/ Elsewhere(w)
<1>1. tick \in [Workers -> Ticks] /\ tick[w] \in Ticks
  BY DEF TickInv, TickTypeOK
<1>2. dial[w].pc # "idle" => tick[w].pc = "allocate"
  BY DEF TickInv, AllocatingOK
<1>3. tick[w].left \in Nat
  BY <1>1 DEF Ticks
<1>4. CASE Pair(w)
  <2>1. /\ Dialer(w) /\ dial[w].pc = "claimBorrower" /\ UNCHANGED samples
        /\ \/ tick' = [tick EXCEPT ![w].contended = 0]
           \/ tick' = [tick EXCEPT ![w].contended = @ + 1]
    BY <1>4 DEF Pair
  <2>2. tick'[w].left = tick[w].left /\ tick'[w].pc = tick[w].pc
    BY <1>1, <2>1 DEF Ticks
  <2>3. QED
    BY <1>2, <2>1, <2>2 DEF SetsUp
<1>5. CASE Place(w)
  BY <1>2, <1>5 DEF Place, SetsUp
<1>6. CASE SetUp(w)
  BY <1>2, <1>6 DEF SetUp, SetsUp, gateVars
<1>7. CASE Attempt(w) /\ Dialer(w)
  <2>1. /\ dial[w].pc = "idle" /\ tick[w].left > 0 /\ UNCHANGED samples
        /\ tick[w].pc = "allocate"
    BY <1>7 DEF Attempt, TickAt
  <2>2. \/ tick' = [tick EXCEPT ![w].left = @ - 1]
        \/ tick' = [tick EXCEPT ![w].left = @ - 1, ![w].contended = @ + 1]
    BY <1>7 DEF Attempt
  <2>3. tick'[w].left = tick[w].left - 1 /\ tick'[w].pc = "allocate"
    BY <1>1, <2>1, <2>2 DEF Ticks
  <2>4. QED
    BY <1>7, <2>1, <2>3 DEF SetsUp
<1>8. QED
  BY <1>4, <1>5, <1>6, <1>7

LEMMA WaitingSteps ==
  ASSUME TickInv, NEW w \in Workers,
         \/ BeginTick(w) \/ CountForSnapshot(w) \/ BuildSnapshot(w)
         \/ CountForDecision(w) \/ CountCallsForDecision(w) \/ CountLeases(w)
         \/ EndAllocation(w) \/ EndTick(w)
         \/ QueryFails(w) \/ (Attempt(w) /\ UNCHANGED vars)
  PROVE  Elsewhere(w)
<1>1. tick \in [Workers -> Ticks] /\ tick[w] \in Ticks
  BY DEF TickInv, TickTypeOK
<1>2. tick[w].pc # "allocate" => tick[w].left = 0 /\ dial[w].pc = "idle"
  BY DEF TickInv, AllocatingOK
<1>3. tick[w].left \in Nat
  BY <1>1 DEF Ticks
<1>4. UNCHANGED vars => UNCHANGED dial
  BY DEF vars, allocatorVars
<1>5. ASSUME UNCHANGED <<vars, samples>>,
             tick'[w].left = tick[w].left \/ tick'[w].left \in 0..tick[w].left,
             tick'[w].pc # "allocate" => tick'[w].left = 0 /\ dial[w].pc = "idle",
             tick'[w].pc \notin KnowsAgents
      PROVE  Elsewhere(w)
  BY <1>4, <1>5 DEF Elsewhere, KnowsAgents, KnowsCalls
<1>6. CASE BeginTick(w)
  <2>1. tick[w].pc = "asleep" /\ UNCHANGED <<vars, samples>>
    BY <1>6 DEF BeginTick, TickAt
  <2>2. tick'[w].pc = "snapshotAgents" /\ tick'[w].left = tick[w].left
    BY <1>1, <1>6 DEF BeginTick, Ticks
  <2>3. QED
    BY <1>2, <1>5, <2>1, <2>2 DEF KnowsAgents
<1>7. CASE CountForSnapshot(w)
  <2>1. tick[w].pc = "snapshotAgents" /\ UNCHANGED <<vars, samples>>
    BY <1>7 DEF CountForSnapshot, TickAt
  <2>2. tick'[w].pc = "snapshotCalls" /\ tick'[w].left = tick[w].left
    BY <1>1, <1>7 DEF CountForSnapshot, Ticks
  <2>3. QED
    BY <1>2, <1>5, <2>1, <2>2 DEF KnowsAgents
<1>8. CASE CountForDecision(w)
  <2>1. tick[w].pc = "readAgents" /\ UNCHANGED <<vars, samples>>
    BY <1>8 DEF CountForDecision, TickAt
  <2>2. /\ tick'[w].pc = "readCalls" /\ tick'[w].left = tick[w].left
        /\ tick'[w].counts.available = AgentsIn("AVAILABLE")
    BY <1>1, <1>8 DEF CountForDecision, CountAgents, NotRead, Ticks
  <2>3. QED
    BY <1>2, <1>4, <2>1, <2>2 DEF Elsewhere, KnowsCalls
<1>9. CASE CountCallsForDecision(w)
  <2>1. tick[w].pc = "readCalls" /\ UNCHANGED <<vars, samples>>
    BY <1>9 DEF CountCallsForDecision, TickAt
  <2>2. /\ tick'[w].pc = "readLeases" /\ tick'[w].left = tick[w].left
        /\ tick'[w].counts.available = tick[w].counts.available
        /\ tick'[w].counts.active = Cardinality(FindActive)
    BY <1>1, <1>9 DEF CountCallsForDecision, Ticks, TickCounts
  <2>3. QED
    BY <1>2, <1>4, <2>1, <2>2 DEF Elsewhere, KnowsAgents
<1>10. CASE CountLeases(w)
  <2>1. tick[w].pc = "readLeases" /\ UNCHANGED <<vars, samples>>
    BY <1>10 DEF CountLeases, TickAt
  <2>2. /\ tick'[w].pc = "readOutcomes" /\ tick'[w].left = tick[w].left
        /\ tick'[w].counts.available = tick[w].counts.available
        /\ tick'[w].counts.active = tick[w].counts.active
    BY <1>1, <1>10 DEF CountLeases, Ticks, TickCounts
  <2>3. QED
    BY <1>2, <1>4, <2>1, <2>2 DEF Elsewhere, KnowsAgents, KnowsCalls
<1>11. CASE BuildSnapshot(w)
  <2>1. PICK recent, previous : AskFor(w, recent, previous)
    BY <1>11 DEF BuildSnapshot
  <2>2. tick[w].pc = "snapshotCalls" /\ UNCHANGED <<vars, samples>>
    BY <2>1 DEF AskFor, TickAt
  <2>3. PICK requested :
          tick' = [tick EXCEPT ![w].pc = "readAgents", ![w].counts = NotRead,
                               ![w].requested = requested]
    BY <2>1 DEF AskFor
  <2>4. tick'[w].pc = "readAgents" /\ tick'[w].left = tick[w].left
    BY <1>1, <2>3 DEF Ticks
  <2>5. QED
    BY <1>2, <1>5, <2>2, <2>4 DEF KnowsAgents
<1>12. CASE EndAllocation(w) \/ EndTick(w)
  <2>1. /\ tick[w].pc \in {"allocate", "wrapUps"}
        /\ UNCHANGED <<vars, samples>>
        /\ tick[w].pc = "allocate" => dial[w].pc = "idle"
    BY <1>12 DEF EndAllocation, EndTick, TickAt
  <2>2. tick'[w].pc \in {"wrapUps", "asleep"} /\ tick'[w].left = 0
    BY <1>1, <1>12 DEF EndAllocation, EndTick, Ticks, Between
  <2>3. QED
    BY <1>2, <1>3, <1>5, <2>1, <2>2 DEF KnowsAgents
<1>13. CASE QueryFails(w)
  <2>1. /\ tick[w].pc # "allocate"
        /\ UNCHANGED <<vars, samples>>
        /\ \/ tick' = [tick EXCEPT ![w] = Between]
           \/ tick' = [tick EXCEPT ![w].pc = "allocate", ![w].counts = NotRead,
                                   ![w].requested = 0]
    BY <1>13 DEF QueryFails
  <2>2. tick'[w].pc \in {"allocate", "asleep"} /\ tick'[w].left = 0
    BY <1>1, <1>2, <2>1 DEF Ticks, Between
  <2>3. QED
    BY <1>2, <1>3, <1>5, <2>1, <2>2 DEF KnowsAgents
<1>14. CASE Attempt(w) /\ UNCHANGED vars
  <2>1. /\ tick[w].pc = "allocate" /\ tick[w].left > 0 /\ UNCHANGED samples
        /\ \/ tick' = [tick EXCEPT ![w].left = @ - 1]
           \/ tick' = [tick EXCEPT ![w].left = @ - 1, ![w].contended = @ + 1]
    BY <1>14 DEF Attempt, TickAt
  <2>2. tick'[w].left = tick[w].left - 1 /\ tick'[w].pc = "allocate"
    BY <1>1, <2>1 DEF Ticks
  <2>3. QED
    BY <1>3, <1>5, <1>14, <2>1, <2>2 DEF KnowsAgents
<1>15. QED
  BY <1>6, <1>7, <1>8, <1>9, <1>10, <1>11, <1>12, <1>13, <1>14

LEMMA OneWorkerSteps ==
  ASSUME TickInv, NEW w \in Workers, OnlyWorker(w), [TickNext]_tickVars
  PROVE  Decide(w) \/ SetsUp(w) \/ Elsewhere(w)
<1>1. tick[w].pc # "allocate" => tick[w].left = 0 /\ dial[w].pc = "idle"
  BY DEF TickInv, AllocatingOK
<1>2. \A v \in Workers : v = w
  BY DEF OnlyWorker
<1>3. ASSUME UNCHANGED <<dial, tick>>, UNCHANGED samples \/ SampleExpires,
             UNCHANGED vars \/ Others \/ \E a \in Agents : WrapUpEnds(a)
      PROVE  Elsewhere(w)
  BY <1>1, <1>3 DEF Elsewhere
<1>4. CASE Work(w) \/ QueryFails(w)
  BY <1>4, SettingUpSteps, WaitingSteps DEF Work, Attempt
<1>5. ASSUME NEW a \in Agents, ReleaseWrapUp(w, a)
      PROVE  Elsewhere(w)
  BY <1>3, <1>5 DEF ReleaseWrapUp, WrapUpEnds, gateVars, allocatorVars
<1>6. CASE ChangeStatus \/ SetMode \/ HealthWindowMoves
  BY <1>3, <1>6
  DEF ChangeStatus, SetMode, HealthWindowMoves, vars, allocatorVars
<1>7. CASE Others
  <2>1. UNCHANGED dial
    BY <1>7 DEF Others, Processor, Recovery, Session, Backoff, Tick, allocatorVars
  <2>2. QED
    BY <1>3, <1>7, <2>1 DEF Others, gateVars
<1>8. CASE UNCHANGED tickVars
  BY <1>3, <1>8 DEF tickVars, gateVars, vars, allocatorVars
<1>9. QED
  BY <1>2, <1>4, <1>5, <1>6, <1>7, <1>8 DEF TickNext

LEMMA DecideMoves ==
  ASSUME TickInv, NEW w \in Workers, Decide(w)
  PROVE  /\ tick[w].pc = "readOutcomes" /\ tick[w].left = 0 /\ dial[w].pc = "idle"
         /\ UNCHANGED <<vars, samples>>
         /\ tick'[w].pc = "allocate" /\ tick'[w].left \in Nat
         /\ tick'[w].left > 0 =>
              /\ tick'[w].left <= tick[w].counts.available
              /\ tick[w].counts.active + tick'[w].left <= MaxConcurrentCalls
              /\ HealthStatus # "UNHEALTHY"
<1>1. tick \in [Workers -> Ticks] /\ tick[w] \in Ticks
  BY DEF TickInv, TickTypeOK
<1>2. tick[w].pc = "readOutcomes" /\ UNCHANGED <<vars, samples>>
  BY DEF Decide, DecideOn, TickAt
<1>3. tick[w].left = 0 /\ dial[w].pc = "idle"
  BY <1>2 DEF TickInv, AllocatingOK
<1>4. PICK reading \in Readings :
        /\ reading.active = tick[w].counts.active
        /\ reading.available = tick[w].counts.available
        /\ reading.health = HealthStatus
        /\ LET approved == Approved(tick[w].requested, tick[w].mode, reading)
           IN  /\ approved \in Nat
               /\ tick' = [tick EXCEPT ![w].pc = "allocate",
                                       ![w].counts = NotRead,
                                       ![w].requested = 0,
                                       ![w].left = approved]
  BY DecisionOK DEF TickInv
<1> DEFINE approved == Approved(tick[w].requested, tick[w].mode, reading)
<1>5. tick[w].requested \in Nat
  BY <1>1 DEF Ticks
<1>6. approved > 0 => /\ reading.reserved + approved <= reading.available
                      /\ reading.active + approved <= MaxConcurrentCalls
                      /\ reading.health # "UNHEALTHY"
  BY <1>5, DecisionKeepsLimits
<1>7. approved \in Nat
  BY <1>4
<1>8. tick'[w].pc = "allocate" /\ tick'[w].left = approved
  BY <1>1, <1>4 DEF Ticks
<1> HIDE DEF approved
<1>9. reading.reserved \in Nat /\ reading.available \in Nat
  BY DEF Readings
<1>10. QED
  BY <1>2, <1>3, <1>4, <1>6, <1>7, <1>8, <1>9

LEMMA AllocatingNext ==
  ASSUME FiniteCampaign, TickInv, NEW w \in Workers, OnlyWorker(w),
         [TickNext]_tickVars
  PROVE  AllocatingOK'
<1>1. \A v \in Workers : v = w
  BY DEF OnlyWorker
<1>2. Decide(w) \/ SetsUp(w) \/ Elsewhere(w)
  BY OneWorkerSteps
<1>3. \/ tick'[w].pc = "allocate"
      \/ tick'[w].left = 0 /\ dial'[w].pc = "idle"
  BY <1>2, DecideMoves DEF SetsUp, Elsewhere
<1>4. QED
  BY <1>1, <1>3 DEF AllocatingOK

LEMMA TickInvInit == TickInit => TickInv
<1> SUFFICES ASSUME TickInit PROVE TickInv
  OBVIOUS
<1>1. CallsInv
  BY CallsInvInit DEF TickInit
<1>2. AllocatingOK
  BY DEF TickInit, Init, AllocatorInit, AllocatingOK, Between, IdleDial
<1>3. QED
  BY <1>1, <1>2, TickTypeInit DEF TickInv

LEMMA TickInvNext ==
  ASSUME FiniteCampaign, TickInv, NEW w \in Workers, OnlyWorker(w),
         [TickNext]_tickVars
  PROVE  TickInv'
BY TickTypeNext, AllocatingNext, TickStepIsStep, CallsInvNext DEF TickInv

-----------------------------------------------------------------------------
(* max_concurrent_calls.  What counts against the limit are the calls in   *)
(* progress, the one that the worker is about to make such, and those it   *)
(* was approved and has not come to yet.                                   *)
Counted(w) ==
  FindActive \cup (IF Activating(w) THEN {DialKey(w)} ELSE {})

OnItsWay(w) == IF dial[w].pc \in {"claimBorrower", "create"} THEN 1 ELSE 0

LimitKept(w) ==
  Cardinality(Counted(w)) + tick[w].left + OnItsWay(w) <= MaxConcurrentCalls

(* When the decision is made, there are no more calls in progress than     *)
(* were counted for it.                                                    *)
CallsKnown(w) ==
  tick[w].pc \in KnowsCalls =>
    Cardinality(FindActive) <= tick[w].counts.active

LEMMA CountedOK ==
  ASSUME FiniteCampaign, CallsInv, NEW w \in Workers
  PROVE  /\ Counted(w) =
              IF Activating(w) THEN FindActive \cup {DialKey(w)} ELSE FindActive
         /\ Counted(w) \subseteq CallKeys
         /\ IsFiniteSet(Counted(w)) /\ Cardinality(Counted(w)) \in Nat
<1>1. Counted(w) =
        IF Activating(w) THEN FindActive \cup {DialKey(w)} ELSE FindActive
  BY DEF Counted
<1>2. Activating(w) => DialKey(w) \in CallKeys
  BY DialKeyOK DEF Activating, CallsInv, IInv
<1>3. Counted(w) \subseteq CallKeys
  BY <1>1, <1>2 DEF FindActive
<1>4. QED
  BY <1>1, <1>3, CountsAreNumbers

LEMMA FewerCounted ==
  ASSUME FiniteCampaign, NEW S, NEW T \in SUBSET CallKeys, S \subseteq T
  PROVE  /\ Cardinality(S) \in Nat /\ Cardinality(T) \in Nat
         /\ Cardinality(S) <= Cardinality(T)
<1>1. IsFiniteSet(T) /\ Cardinality(T) \in Nat /\ Cardinality(S) \in Nat
  BY CountsAreNumbers
<1>2. QED
  BY <1>1, FS_Subset

LEMMA OneMoreCounted ==
  ASSUME FiniteCampaign, NEW T \in SUBSET CallKeys, NEW k \in CallKeys,
         NEW S, S \subseteq T \cup {k}
  PROVE  /\ Cardinality(S) \in Nat /\ Cardinality(T) \in Nat
         /\ Cardinality(S) <= Cardinality(T) + 1
<1>1. IsFiniteSet(T) /\ Cardinality(T) \in Nat
  BY CountsAreNumbers
<1>2. /\ IsFiniteSet(T \cup {k})
      /\ Cardinality(T \cup {k}) = IF k \in T THEN Cardinality(T)
                                   ELSE Cardinality(T) + 1
  BY <1>1, FS_AddElement
<1>3. T \cup {k} \in SUBSET CallKeys
  OBVIOUS
<1>4. /\ Cardinality(S) \in Nat
      /\ Cardinality(S) <= Cardinality(T \cup {k})
  BY <1>3, FewerCounted
<1>5. QED
  BY <1>1, <1>2, <1>4

LEMMA ElsewhereActivatesNone ==
  ASSUME CallsInv, NEW w \in Workers, Elsewhere(w)
  PROVE  FindActive' \subseteq FindActive
<1>1. UNCHANGED vars \/ Others \/ \E a \in Agents : WrapUpEnds(a)
  BY DEF Elsewhere
<1>2. UNCHANGED vars \/ (\E a \in Agents : WrapUpEnds(a)) => UNCHANGED calls
  BY DEF vars, storeVars, WrapUpEnds
<1>3. QED
  BY <1>1, <1>2, OthersActivateNone, SameCallsActivateNone

LEMMA CallsKnownNext ==
  ASSUME FiniteCampaign, TickInv, TickInv', NEW w \in Workers, OnlyWorker(w),
         CallsKnown(w), [TickNext]_tickVars
  PROVE  CallsKnown(w)'
<1>1. CASE Decide(w) \/ SetsUp(w)
  <2>1. tick'[w].pc = "allocate"
    BY <1>1, DecideMoves DEF SetsUp
  <2>2. QED
    BY <2>1 DEF CallsKnown, KnowsCalls
<1>2. CASE Elsewhere(w)
  <2> SUFFICES ASSUME tick'[w].pc \in KnowsCalls
               PROVE  Cardinality(FindActive') <= tick'[w].counts.active
    BY DEF CallsKnown
  <2>1. /\ CallsInv /\ tick'[w].counts.active \in Nat
        /\ tick[w].counts.active \in Nat
    BY DEF TickInv, TickTypeOK, Ticks, TickCounts
  <2>2. FindActive' \subseteq FindActive /\ FindActive \in SUBSET CallKeys
    BY <1>2, <2>1, ElsewhereActivatesNone DEF FindActive
  <2>3. /\ Cardinality(FindActive') \in Nat /\ Cardinality(FindActive) \in Nat
        /\ Cardinality(FindActive') <= Cardinality(FindActive)
    BY <2>2, FewerCounted
  <2>4. Cardinality(FindActive) <= tick'[w].counts.active
    <3>1. CASE /\ tick[w].pc \in KnowsCalls
               /\ tick'[w].counts.active = tick[w].counts.active
      BY <3>1 DEF CallsKnown
    <3>2. CASE tick'[w].counts.active = Cardinality(FindActive)
      BY <2>3, <3>2
    <3>3. QED
      BY <1>2, <3>1, <3>2 DEF Elsewhere
  <2>5. QED
    BY <2>1, <2>3, <2>4
<1>3. QED
  BY <1>1, <1>2, OneWorkerSteps

LEMMA LimitKeptNext ==
  ASSUME FiniteCampaign, TickInv, TickInv', NEW w \in Workers, OnlyWorker(w),
         CallsKnown(w), LimitKept(w), [TickNext]_tickVars
  PROVE  LimitKept(w)'
<1> DEFINE c == Cardinality(Counted(w))
           d == Cardinality(Counted(w)')
<1>1. CallsInv /\ CallsInv' /\ tick \in [Workers -> Ticks]
      /\ tick' \in [Workers -> Ticks]
  BY DEF TickInv, TickTypeOK
<1>2. /\ c \in Nat /\ tick[w].left \in Nat /\ tick'[w].left \in Nat
      /\ OnItsWay(w) \in {0, 1} /\ OnItsWay(w)' \in {0, 1}
      /\ MaxConcurrentCalls \in Nat
      /\ c + tick[w].left + OnItsWay(w) <= MaxConcurrentCalls
  BY <1>1, CountedOK, SafetyAssumption DEF Ticks, OnItsWay, LimitKept
<1>3. Counted(w) \subseteq CallKeys
  BY <1>1, CountedOK
<1>4. Counted(w) = IF Activating(w) THEN FindActive \cup {DialKey(w)}
                                    ELSE FindActive
  BY <1>1, CountedOK
<1>5. Counted(w)' = IF Activating(w)' THEN FindActive' \cup {DialKey(w)'}
                                      ELSE FindActive'
  BY DEF Counted
<1>6. SUFFICES d + tick'[w].left + OnItsWay(w)' <= MaxConcurrentCalls
  BY DEF LimitKept
<1> HIDE DEF c, d
<1>7. CASE Decide(w)
  <2>1. /\ tick[w].left = 0 /\ dial[w].pc = "idle" /\ UNCHANGED vars
        /\ tick'[w].left \in Nat /\ tick[w].pc = "readOutcomes"
        /\ tick'[w].left > 0 =>
             tick[w].counts.active + tick'[w].left <= MaxConcurrentCalls
    BY <1>7, DecideMoves
  <2>2. /\ Activating(w)' = Activating(w) /\ ~Activating(w)
        /\ OnItsWay(w)' = 0 /\ FindActive' = FindActive
    BY <2>1 DEF vars, allocatorVars, storeVars, Activating, OnItsWay, FindActive
  <2>3. c = Cardinality(FindActive) /\ d = Cardinality(FindActive)
    BY <1>4, <1>5, <2>2 DEF c, d
  <2>4. c <= tick[w].counts.active /\ tick[w].counts.active \in Nat
    BY <1>1, <2>1, <2>3 DEF CallsKnown, KnowsCalls, Ticks, TickCounts
  <2>5. QED
    BY <1>2, <2>1, <2>2, <2>3, <2>4
<1>8. CASE SetsUp(w)
  <2>1. /\ Dialer(w)
        /\ IF dial[w].pc = "idle" THEN tick'[w].left = tick[w].left - 1
                                  ELSE tick'[w].left = tick[w].left
    BY <1>8 DEF SetsUp
  <2>2. IF Activating(w) THEN FindActive' \subseteq FindActive \cup {DialKey(w)}
                         ELSE FindActive' \subseteq FindActive
    BY <1>1, <2>1, DialActivates
  <2>3. FindActive' \subseteq Counted(w)
    BY <1>4, <2>2
  <2>4. CASE dial[w].pc = "create" /\ dial'[w].pc = "reserve"
    <3>1. DialKey(w)' = DialKey(w) /\ DialKey(w) \in CallKeys
      BY <1>1, <2>1, <2>4, DialAdvances, DialKeyOK DEF CallsInv, IInv
    <3>2. Counted(w)' \subseteq Counted(w) \cup {DialKey(w)}
      BY <1>5, <2>3, <3>1
    <3>3. d \in Nat /\ d <= c + 1
      BY <1>3, <3>1, <3>2, OneMoreCounted DEF c, d
    <3>4. OnItsWay(w) = 1 /\ OnItsWay(w)' = 0 /\ tick'[w].left = tick[w].left
      BY <2>1, <2>4 DEF OnItsWay
    <3>5. QED
      BY <1>2, <3>3, <3>4
  <2>5. CASE ~(dial[w].pc = "create" /\ dial'[w].pc = "reserve")
    <3>1. Activating(w)' => Activating(w) /\ DialKey(w)' = DialKey(w)
      BY <1>1, <2>1, <2>5, DialAdvances DEF Activating, CallsInv, IInv, AllocatorOK,
         AllocatorTypeOK, Dials, DialPcs
    <3>2. Counted(w)' \subseteq Counted(w)
      BY <1>4, <1>5, <2>3, <3>1
    <3>3. d \in Nat /\ d <= c
      BY <1>3, <3>2, FewerCounted DEF c, d
    <3>4. tick'[w].left + OnItsWay(w)' <= tick[w].left + OnItsWay(w)
      <4>1. CASE dial[w].pc = "idle"
        <5>1. OnItsWay(w) = 0 /\ OnItsWay(w)' = 1
          BY <1>1, <2>1, <4>1, DialAdvances DEF OnItsWay
        <5>2. QED
          BY <1>2, <2>1, <4>1, <5>1
      <4>2. CASE dial[w].pc # "idle"
        <5>1. OnItsWay(w)' = 1 => OnItsWay(w) = 1
          BY <1>1, <2>1, <4>2, DialAdvances
          DEF OnItsWay, CallsInv, IInv, AllocatorOK, AllocatorTypeOK, Dials,
              DialPcs
        <5>2. QED
          BY <1>2, <2>1, <4>2, <5>1
      <4>3. QED
        BY <4>1, <4>2
    <3>5. QED
      BY <1>2, <3>3, <3>4
  <2>6. QED
    BY <2>4, <2>5
<1>9. CASE Elsewhere(w)
  <2>1. /\ UNCHANGED dial
        /\ tick'[w].left = tick[w].left \/ tick'[w].left \in 0..tick[w].left
    BY <1>9 DEF Elsewhere
  <2>2. FindActive' \subseteq FindActive
    BY <1>1, <1>9, ElsewhereActivatesNone
  <2>3. /\ Activating(w)' = Activating(w) /\ DialKey(w)' = DialKey(w)
        /\ OnItsWay(w)' = OnItsWay(w)
    BY <2>1 DEF Activating, DialKey, OnItsWay
  <2>4. Counted(w)' \subseteq Counted(w)
    BY <1>4, <1>5, <2>2, <2>3
  <2>5. d \in Nat /\ d <= c
    BY <1>3, <2>4, FewerCounted DEF c, d
  <2>6. QED
    BY <1>2, <2>1, <2>3, <2>5
<1>10. QED
  BY <1>7, <1>8, <1>9, OneWorkerSteps

(* What one step of the carrier, or the passing of time, does to the       *)
(* failures at the end of the window.                                      *)
Accepted(i) == samples[i] = "accepted"

(* The sample after which there are only failures; 0 if all are.           *)
IsLastAccepted(m) ==
  /\ m \in 0..Len(samples)
  /\ m = 0 \/ Accepted(m)
  /\ \A i \in (m + 1)..Len(samples) : ~Accepted(i)

LEMMA FailuresSince ==
  ASSUME HealthTypeOK, NEW m, IsLastAccepted(m)
  PROVE  TrailingFailures = Len(samples) - m
<1> DEFINE S == {0} \cup {i \in DOMAIN samples : samples[i] = "accepted"}
<1>1. DOMAIN samples = 1..Len(samples) /\ Len(samples) \in Nat
  BY DEF HealthTypeOK
<1>2. m \in Int /\ m \in S /\ \A i \in S : i \in Int /\ m >= i
  BY <1>1 DEF IsLastAccepted, Accepted
<1>3. \A n \in S : (\A i \in S : n >= i) => n = m
  BY <1>2
<1>4. Max(S) = m
  BY <1>2, <1>3 DEF Max
<1>5. QED
  BY <1>4 DEF TrailingFailures

(* An outage.  What counts against the limit are the failures since the    *)
(* last call that was accepted and the calls that may yet be one of them.  *)
MayFail(w) ==
  IF dial[w].pc \in {"claimBorrower", "create", "reserve", "initiate",
                     "markDialing", "bind", "originate"} THEN 1 ELSE 0

OutageKept(w) ==
  \E m \in 0..Len(samples) :
    /\ IsLastAccepted(m)
    /\ Len(samples) - m + tick[w].left + MayFail(w)
         < UnhealthyConsecutiveFailures + MaxConcurrentCalls

LEMMA PlacedSample ==
  ASSUME HealthTypeOK, NEW m, IsLastAccepted(m), NEW kind \in SampleKinds,
         RecordOriginate(kind), NEW n, n = Len(samples) + 1
  PROVE  /\ Len(samples)' = n
         /\ kind = "accepted" => IsLastAccepted(n)'
         /\ kind # "accepted" => IsLastAccepted(m)'
<1>1. /\ samples \in Seq(SampleKinds) /\ Len(samples) \in Nat
      /\ samples' = Append(samples, kind)
  BY DEF HealthTypeOK, RecordOriginate
<1>2. /\ Len(samples') = Len(samples) + 1
      /\ \A i \in 1..Len(samples) : samples'[i] = samples[i]
      /\ samples'[Len(samples) + 1] = kind
  BY <1>1
<1>3. CASE kind = "accepted"
  BY <1>1, <1>2, <1>3 DEF IsLastAccepted, Accepted
<1>4. CASE kind # "accepted"
  <2>1. m \in 0..Len(samples) /\ (m = 0 \/ samples[m] = "accepted")
    BY DEF IsLastAccepted, Accepted
  <2>2. m \in 0..Len(samples') /\ (m = 0 \/ samples'[m] = "accepted")
    BY <1>1, <1>2, <2>1
  <2>3. ASSUME NEW i \in (m + 1)..Len(samples')
        PROVE  samples'[i] # "accepted"
    BY <1>1, <1>2, <1>4, <2>1 DEF IsLastAccepted, Accepted
  <2>4. QED
    BY <1>2, <1>4, <2>2, <2>3 DEF IsLastAccepted, Accepted
<1>5. QED
  BY <1>2, <1>3, <1>4

LEMMA ExpiredSample ==
  ASSUME HealthTypeOK, NEW m, IsLastAccepted(m), SampleExpires
  PROVE  /\ Len(samples)' = Len(samples) - 1
         /\ m > 0 => IsLastAccepted(m - 1)'
         /\ m = 0 => IsLastAccepted(0)'
<1>1. /\ samples \in Seq(SampleKinds) /\ samples # <<>>
      /\ samples' = Tail(samples)
  BY DEF HealthTypeOK, SampleExpires
<1>2. /\ Len(samples) \in Nat \ {0}
      /\ Len(samples') = Len(samples) - 1
      /\ \A i \in 1..(Len(samples) - 1) : samples'[i] = samples[i + 1]
  BY <1>1
<1>3. QED
  BY <1>1, <1>2 DEF IsLastAccepted, Accepted

LEMMA SameSamples ==
  ASSUME NEW m, IsLastAccepted(m), UNCHANGED samples
  PROVE  IsLastAccepted(m)' /\ Len(samples)' = Len(samples)
BY DEF IsLastAccepted, Accepted

LEMMA OutageKeptNext ==
  ASSUME FiniteCampaign, TickInv, TickInv', NEW w \in Workers, OnlyWorker(w),
         OutageKept(w), [TickNext]_tickVars
  PROVE  OutageKept(w)'
<1> DEFINE bound == UnhealthyConsecutiveFailures + MaxConcurrentCalls
<1>1. /\ CallsInv /\ HealthTypeOK /\ tick \in [Workers -> Ticks]
      /\ HealthTypeOK' /\ tick' \in [Workers -> Ticks]
  BY DEF TickInv, TickTypeOK
<1>2. PICK m \in 0..Len(samples) :
        /\ IsLastAccepted(m)
        /\ Len(samples) - m + tick[w].left + MayFail(w) < bound
  BY DEF OutageKept
<1>3. /\ Len(samples) \in Nat /\ m \in Nat /\ m <= Len(samples)
      /\ tick[w].left \in Nat /\ tick'[w].left \in Nat
      /\ MayFail(w) \in {0, 1} /\ MayFail(w)' \in {0, 1}
      /\ UnhealthyConsecutiveFailures \in Nat /\ MaxConcurrentCalls \in Nat
      /\ bound \in Nat
  BY <1>1, <1>2, HealthAssumption, SafetyAssumption
  DEF HealthTypeOK, Ticks, MayFail
<1> HIDE DEF bound
<1>4. ASSUME NEW n, IsLastAccepted(n)',
             Len(samples)' - n + tick'[w].left + MayFail(w)' < bound
      PROVE  OutageKept(w)'
  BY <1>4 DEF OutageKept, IsLastAccepted, bound
<1>5. CASE Decide(w)
  <2>1. /\ dial[w].pc = "idle" /\ UNCHANGED <<vars, samples>>
        /\ tick[w].left = 0
        /\ tick'[w].left > 0 =>
             /\ tick[w].counts.active + tick'[w].left <= MaxConcurrentCalls
             /\ HealthStatus # "UNHEALTHY"
    BY <1>5, DecideMoves
  <2>2. MayFail(w) = 0 /\ MayFail(w)' = 0
    BY <2>1 DEF MayFail, vars, allocatorVars
  <2>3. IsLastAccepted(m)' /\ Len(samples)' = Len(samples)
    BY <1>2, <2>1, SameSamples
  <2>4. CASE tick'[w].left = 0
    BY <1>2, <1>3, <1>4, <2>1, <2>2, <2>3, <2>4
  <2>5. CASE tick'[w].left > 0
    <3>1. TrailingFailures = Len(samples) - m
      BY <1>1, <1>2, FailuresSince
    <3>2. TrailingFailures < UnhealthyConsecutiveFailures
      BY <1>3, <2>1, <2>5, <3>1 DEF HealthStatus
    <3>3. tick[w].counts.active \in Nat
      BY <1>1 DEF Ticks, TickCounts
    <3>4. Len(samples) - m + tick'[w].left < bound
      BY <1>3, <2>1, <2>5, <3>1, <3>2, <3>3 DEF bound
    <3>5. QED
      BY <1>3, <1>4, <2>2, <2>3, <3>4
  <2>6. QED
    BY <1>3, <2>4, <2>5
<1>6. CASE SetsUp(w) /\ dial[w].pc = "originate"
  <2>1. /\ Dialer(w) /\ Place(w) /\ tick'[w].left = tick[w].left
    BY <1>6 DEF SetsUp
  <2>2. MayFail(w) = 1 /\ MayFail(w)' = 0
    BY <1>1, <1>6, <2>1, DialAdvances DEF MayFail
  <2>3. PICK kind \in SampleKinds : RecordOriginate(kind)
    BY <2>1 DEF Place, SampleKinds
  <2>8. PICK n \in Nat : n = Len(samples) + 1
    BY <1>3
  <2>4. /\ Len(samples)' = n
        /\ kind = "accepted" => IsLastAccepted(n)'
        /\ kind # "accepted" => IsLastAccepted(m)'
    BY <1>1, <1>2, <2>3, <2>8, PlacedSample
  <2>5. CASE kind = "accepted"
    <3>1. IsLastAccepted(n)'
      BY <2>4, <2>5
    <3>2. Len(samples)' - n + tick'[w].left + MayFail(w)' < bound
      BY <1>2, <1>3, <2>1, <2>2, <2>4
    <3>3. QED
      BY <1>4, <3>1, <3>2
  <2>6. CASE kind # "accepted"
    BY <1>2, <1>3, <1>4, <2>1, <2>2, <2>4, <2>6, <2>8
  <2>7. QED
    BY <2>5, <2>6
<1>7. CASE SetsUp(w) /\ dial[w].pc # "originate"
  <2>1. /\ Dialer(w) /\ UNCHANGED samples
        /\ IF dial[w].pc = "idle" THEN tick'[w].left = tick[w].left - 1
                                  ELSE tick'[w].left = tick[w].left
    BY <1>7 DEF SetsUp
  <2>2. IsLastAccepted(m)' /\ Len(samples)' = Len(samples)
    BY <1>2, <2>1, SameSamples
  <2>3. dial[w].pc # "idle" /\ MayFail(w)' = 1 => MayFail(w) = 1
    BY <1>1, <1>7, <2>1, DialAdvances
    DEF MayFail, CallsInv, IInv, AllocatorOK, AllocatorTypeOK, Dials, DialPcs
  <2>4. dial[w].pc = "idle" => MayFail(w) = 0
    BY DEF MayFail
  <2>5. CASE dial[w].pc = "idle"
    <3>1. Len(samples) - m + tick'[w].left + 1 < bound
      BY <1>2, <1>3, <2>1, <2>4, <2>5
    <3>2. QED
      BY <1>3, <1>4, <2>2, <3>1
  <2>6. CASE dial[w].pc # "idle"
    <3>1. Len(samples) - m + tick'[w].left + MayFail(w) < bound
      BY <1>2, <1>3, <2>1, <2>6
    <3>2. QED
      BY <1>3, <1>4, <2>2, <2>3, <2>6, <3>1
  <2>7. QED
    BY <2>5, <2>6
<1>8. CASE Elsewhere(w)
  <2>1. /\ UNCHANGED dial
        /\ tick'[w].left = tick[w].left \/ tick'[w].left \in 0..tick[w].left
        /\ UNCHANGED samples \/ SampleExpires
    BY <1>8 DEF Elsewhere
  <2>2. MayFail(w)' = MayFail(w) /\ tick'[w].left <= tick[w].left
    BY <1>3, <2>1 DEF MayFail
  <2>3. CASE UNCHANGED samples
    BY <1>2, <1>3, <1>4, <2>2, <2>3, SameSamples
  <2>4. CASE SampleExpires
    <3>1. /\ Len(samples)' = Len(samples) - 1
          /\ m > 0 => IsLastAccepted(m - 1)'
          /\ m = 0 => IsLastAccepted(0)'
      BY <1>1, <1>2, <2>4, ExpiredSample
    <3>2. CASE m > 0
      <4>1. PICK n \in Nat : n = m - 1
        BY <1>3, <3>2
      <4>2. IsLastAccepted(n)'
        BY <3>1, <3>2, <4>1
      <4>3. Len(samples)' - n = Len(samples) - m
        BY <1>3, <3>1, <4>1
      <4>4. Len(samples) - m + tick'[w].left + MayFail(w) < bound
        BY <1>2, <1>3, <2>2
      <4>5. QED
        BY <1>4, <2>2, <4>2, <4>3, <4>4
    <3>3. CASE m = 0
      BY <1>2, <1>3, <1>4, <2>2, <3>1, <3>3
    <3>4. QED
      BY <1>3, <3>2, <3>3
  <2>5. QED
    BY <2>1, <2>3, <2>4
<1>9. QED
  BY <1>5, <1>6, <1>7, <1>8, OneWorkerSteps

-----------------------------------------------------------------------------
(* The agents that were counted.                                           *)
NobodyWalksAway == SessionActions \cap {"logout", "pause", "silence"} = {}

Stays(a) ==
  /\ agents[a].alive => agents'[a].alive
  /\ agents[a].state = "AVAILABLE" => agents'[a].state = "AVAILABLE"

LEMMA FreedAgentsStay ==
  ASSUME AgentsOK, NEW c \in Agents,
         \/ \E worker, actor : ReleaseAgent(c, worker, "AVAILABLE", actor)
         \/ \E state, version : ReleaseExpiredAgentLease(c, state, version)
         \/ \E k : BindCall(c, epoch, k)
         \/ TickStore \/ UNCHANGED agents,
         NEW a \in Agents
  PROVE  Stays(a)
<1>1. agents \in [Agents -> AgentDocuments] /\ agents[a] \in AgentDocuments
      /\ agents[c] \in AgentDocuments
  BY DEF AgentsOK
<1>2. CASE TickStore
  <2>1. agents'[a] = [agents[a] EXCEPT !.lease = Elapsed(@)]
    BY <1>2 DEF TickStore
  <2>2. QED
    BY <1>1, <2>1 DEF AgentDocuments, Stays
<1>3. ASSUME NEW worker, NEW actor, ReleaseAgent(c, worker, "AVAILABLE", actor)
      PROVE  Stays(a)
  BY <1>1, <1>3 DEF ReleaseAgent, Unbound, AgentDocuments, Stays
<1>4. ASSUME NEW state, NEW version, ReleaseExpiredAgentLease(c, state, version)
      PROVE  Stays(a)
  BY <1>1, <1>4 DEF ReleaseExpiredAgentLease, Unbound, AgentDocuments, Stays
<1>5. ASSUME NEW k, BindCall(c, epoch, k)
      PROVE  Stays(a)
  BY <1>1, <1>5 DEF BindCall, AgentDocuments, Stays
<1>6. CASE UNCHANGED agents
  BY <1>6 DEF Stays
<1>7. QED
  BY <1>2, <1>3, <1>4, <1>5, <1>6

(* Only a worker and the agent take an agent out of AVAILABLE, and a       *)
(* heartbeat that is missing.                                              *)
LEMMA NotTakenByOthers ==
  ASSUME AgentsOK, NEW c \in Agents, NEW from, NEW to, NEW actor, NEW version,
         from # "AVAILABLE" \/ to = "AVAILABLE" \/ actor = "EVENT_PROCESSOR",
         TransitionAgent(c, from, to, actor, version),
         NEW a \in Agents
  PROVE  Stays(a)
<1>1. agents \in [Agents -> AgentDocuments] /\ agents[a] \in AgentDocuments
  BY DEF AgentsOK
<1>2. ~ValidTransition("AVAILABLE", to, "EVENT_PROCESSOR")
  BY DEF ValidTransition, IsActorAllowed, Authorised
<1>3. CASE TransitionAgentMatches(c, from, to, actor, version)
  <2>1. from # "AVAILABLE" \/ to = "AVAILABLE"
    BY <1>2, <1>3 DEF TransitionAgentMatches
  <2>2. agents[c].state = from
    BY <1>3 DEF TransitionAgentMatches
  <2>3. QED
    BY <1>1, <1>3, <2>1, <2>2 DEF TransitionAgent, AgentDocuments, Stays
<1>4. CASE ~TransitionAgentMatches(c, from, to, actor, version)
  BY <1>4 DEF TransitionAgent, Stays
<1>5. QED
  BY <1>3, <1>4

(* Everybody but a worker that claims one leaves AVAILABLE agents alone.   *)
LEMMA DialerStays ==
  ASSUME CallsInv, NEW w \in Workers, Dialer(w), dial[w].pc # "idle",
         NEW a \in Agents
  PROVE  Stays(a)
<1>1. AgentsOK
  BY DEF CallsInv, IInv, StoreOK
<1>2. dial[w].agent \in Agents
  BY DEF CallsInv, IInv, AllocatorOK, DialOK
<1>3. CASE UNCHANGED agents
  BY <1>3 DEF Stays
<1>4. CASE GiveAgentBack(w) \/ FreeAgent(w)
  BY <1>1, <1>2, <1>4, FreedAgentsStay DEF GiveAgentBack, FreeAgent
<1>5. CASE MarkDialing(w)
  BY <1>1, <1>2, <1>5, NotTakenByOthers DEF MarkDialing
<1>6. CASE Bind(w)
  BY <1>1, <1>2, <1>6, FreedAgentsStay DEF Bind
<1>7. QED
  BY <1>3, <1>4, <1>5, <1>6
  DEF Dialer, DialStep, ClaimAgent, ClaimBorrower, Create, Reserve, Initiate,
      Originate, Attach, FailCall, FreeBorrower, storeVars

LEMMA ProcessorStays ==
  ASSUME CallsInv, NEW l \in 1..MaxLines, Processor(l), NEW a \in Agents
  PROVE  Stays(a)
<1>1. AgentsOK /\ agents[a] \in AgentDocuments
  BY DEF CallsInv, IInv, StoreOK, AgentsOK
<1>2. CASE UNCHANGED agents
  BY <1>2 DEF Stays
<1>3. CASE MoveAgent(l)
  <2>1. HandlerAgent(l) \in Agents
    BY <1>3, BusyHandlerOK DEF MoveAgent, CallsInv, IInv, ProcessorInv
  <2>2. ASSUME NEW worker, NEW target,
               ReleaseAgent(HandlerAgent(l), worker, target, "EVENT_PROCESSOR")
        PROVE  Stays(a)
    <3>1. agents \in [Agents -> AgentDocuments]
      BY <1>1 DEF AgentsOK
    <3>2. ReleaseAgentMatches(HandlerAgent(l), worker, target, "EVENT_PROCESSOR")
            => agents[HandlerAgent(l)].state # "AVAILABLE"
      BY DEF ReleaseAgentMatches, AllowedSources, ValidTransition,
             IsActorAllowed, Authorised
    <3>3. CASE ReleaseAgentMatches(HandlerAgent(l), worker, target,
                                   "EVENT_PROCESSOR")
      BY <2>1, <2>2, <3>1, <3>2, <3>3
      DEF ReleaseAgent, Unbound, AgentDocuments, Stays
    <3>4. QED
      BY <2>2, <3>3 DEF ReleaseAgent, Stays
  <2>3. ASSUME NEW from, NEW to, NEW version,
               TransitionAgent(HandlerAgent(l), from, to, "EVENT_PROCESSOR",
                               version)
        PROVE  Stays(a)
    BY <1>1, <2>1, <2>3, NotTakenByOthers
  <2>4. QED
    BY <1>3, <2>2, <2>3 DEF MoveAgent
<1>4. QED
  BY <1>2, <1>3
  DEF Processor, EventStep, ReceiveEvent, ApplyCall, ReadAgent, SettleBorrower,
      Finish, storeVars

LEMMA RecoveryStays ==
  ASSUME CallsInv, Recovery, sweep.stage # "heartbeats", NEW a \in Agents
  PROVE  Stays(a)
<1>1. AgentsOK
  BY DEF CallsInv, IInv, StoreOK
<1>2. CASE UNCHANGED agents
  BY <1>2 DEF Stays
<1>3. CASE ReclaimAgent
  <2>1. sweep.item.agent \in Agents
    BY <1>3
    DEF ReclaimAgent, At, CallsInv, IInv, RecoveryOK, SweepOK, ItemsOf,
        AgentStages, AgentSnapshots
  <2>2. QED
    BY <1>1, <1>3, <2>1, FreedAgentsStay DEF ReclaimAgent
<1>4. CASE FreeOrphanAgent
  <2>1. sweep.item.call.agent \in Agents
    BY <1>4
    DEF FreeOrphanAgent, At, CallsInv, IInv, RecoveryOK, SweepOK, ItemsOf,
        AgentStages, CallSnapshots, CallKeys
  <2>2. QED
    BY <1>1, <1>4, <2>1, FreedAgentsStay DEF FreeOrphanAgent
<1>5. ASSUME NEW item \in sweep.todo, ReleaseStuckWrapUp(item)
      PROVE  Stays(a)
  <2>1. item.agent \in Agents
    BY <1>5
    DEF ReleaseStuckWrapUp, At, CallsInv, IInv, RecoveryOK, SweepOK, ItemsOf,
        AgentStages, AgentSnapshots
  <2>2. QED
    BY <1>1, <1>5, <2>1, NotTakenByOthers DEF ReleaseStuckWrapUp
<1>6. ~TakeOffline
  BY DEF TakeOffline, At
<1>7. QED
  BY <1>2, <1>3, <1>4, <1>5, <1>6
  DEF Recovery, RecoveryStep, NextSweep, CancelBoundCall, SweepBorrower,
      ReconcileCall, FreeBoundBorrower, FreeOrphanBorrower, storeVars

LEMMA AgentsStay ==
  ASSUME CallsInv, NobodyWalksAway, NEW c \in Agents,
         Session(c) \/ WrapUpEnds(c), NEW a \in Agents
  PROVE  Stays(a)
<1>1. AgentsOK /\ agents \in [Agents -> AgentDocuments]
      /\ agents[a] \in AgentDocuments
  BY DEF CallsInv, IInv, StoreOK, AgentsOK
<1>2. CASE Login(c) \/ Resume(c)
  BY <1>1, <1>2, NotTakenByOthers DEF Login, Resume, AgentAction
<1>3. CASE Logout(c)
  <2>1. HasCall(c)
    BY <1>3 DEF Logout, NobodyWalksAway
  <2>2. agents[c].state # "AVAILABLE"
    BY <2>1 DEF HasCall
  <2>3. QED
    BY <1>1, <1>3, <2>2, NotTakenByOthers DEF Logout, AgentAction
<1>4. CASE Heartbeat(c)
  BY <1>1, <1>4 DEF Heartbeat, SetAlive, AgentDocuments, Stays
<1>5. CASE WrapUpEnds(c)
  BY <1>1, <1>5, NotTakenByOthers DEF WrapUpEnds
<1>6. ~Pause(c) /\ ~FallSilent(c)
  BY DEF Pause, FallSilent, NobodyWalksAway
<1>7. QED
  BY <1>2, <1>3, <1>4, <1>5, <1>6 DEF Session, SessionStep

LEMMA OthersStay ==
  ASSUME CallsInv, NobodyWalksAway, sweep.stage # "heartbeats",
         UNCHANGED vars \/ Others \/ (\E c \in Agents : WrapUpEnds(c)),
         NEW a \in Agents
  PROVE  Stays(a)
<1>1. CASE UNCHANGED agents
  BY <1>1 DEF Stays
<1>2. CASE Tick
  <2>1. AgentsOK
    BY DEF CallsInv, IInv, StoreOK
  <2>2. QED
    BY <1>2, <2>1, FreedAgentsStay DEF Tick
<1>3. QED
  BY <1>1, <1>2, ProcessorStays, RecoveryStays, AgentsStay
  DEF Others, Backoff, vars, storeVars

(* As long as everybody is heard of, no sweep takes anybody offline.       *)
LEMMA NobodyIsMissing ==
  ASSUME CallsInv, \A a \in Agents : agents[a].alive,
         sweep.stage # "heartbeats", [TickNext]_tickVars
  PROVE  sweep'.stage # "heartbeats"
<1>1. CASE UNCHANGED sweep
  BY <1>1
<1>2. sweep \in [stage : Stages, todo : SUBSET Items, step : SweepSteps,
                 item : Items \cup {None}]
  BY DEF CallsInv, IInv, RecoveryOK, RecoveryTypeOK
<1>3. CASE NextSweep
  <2>1. Found("heartbeats") = {}
    BY DEF Found
  <2>2. CASE sweep' = Asleep
    BY <2>2 DEF Asleep
  <2>3. ASSUME NEW s, Found(s) # {}, BeginSweep(s, Found(s))
        PROVE  sweep'.stage # "heartbeats"
    BY <2>1, <2>3 DEF BeginSweep, Asleep
  <2>4. ASSUME NEW items, BeginSweep("wrapUps", items)
        PROVE  sweep'.stage # "heartbeats"
    BY <2>4 DEF BeginSweep, Asleep
  <2>5. QED
    BY <1>3, <2>2, <2>3, <2>4 DEF NextSweep
<1>4. CASE Recovery /\ ~NextSweep
  BY <1>2, <1>4
  DEF Recovery, RecoveryStep, CancelBoundCall, SweepBorrower, ReconcileCall,
      ReleaseStuckWrapUp, FreeBoundBorrower, ReclaimAgent, TakeOffline,
      FreeOrphanAgent, FreeOrphanBorrower, Step, ItemDone
<1>5. CASE Recovery
  BY <1>3, <1>4, <1>5
<1>6. CASE Others
  BY <1>1, <1>5, <1>6 DEF Others, Processor, Session, Backoff, Tick
<1>7. ASSUME NEW w \in Workers,
             Work(w) \/ QueryFails(w) \/ \E a \in Agents : ReleaseWrapUp(w, a)
      PROVE  UNCHANGED sweep
  <2>1. Dialer(w) \/ UNCHANGED vars \/ \E a \in Agents : WrapUpEnds(a)
    BY <1>7, WorkIsDialing DEF QueryFails, ReleaseWrapUp
  <2>2. QED
    BY <2>1 DEF Dialer, WrapUpEnds, vars
<1>8. CASE ChangeStatus \/ SetMode \/ HealthWindowMoves \/ UNCHANGED tickVars
  BY <1>1, <1>8 DEF ChangeStatus, SetMode, HealthWindowMoves, tickVars, vars
<1>9. QED
  BY <1>1, <1>6, <1>7, <1>8 DEF TickNext

InState(state) == {a \in Agents : agents[a].state = state}

LEMMA InStateOK ==
  ASSUME FiniteCampaign
  PROVE  \A state : /\ AgentsIn(state) = Cardinality(InState(state))
                    /\ IsFiniteSet(InState(state)) /\ AgentsIn(state) \in Nat
BY CountsAreNumbers DEF AgentsIn, InState

(* What was counted or approved is still there.                            *)
AgentsThere(w) ==
  /\ \A a \in Agents : agents[a].alive
  /\ sweep.stage # "heartbeats"
  /\ tick[w].pc \in KnowsAgents =>
       tick[w].counts.available <= AgentsIn("AVAILABLE")
  /\ tick[w].left <= AgentsIn("AVAILABLE")

LEMMA NoFewerAvailable ==
  ASSUME FiniteCampaign, \A a \in Agents : Stays(a)
  PROVE  /\ AgentsIn("AVAILABLE") \in Nat /\ AgentsIn("AVAILABLE")' \in Nat
         /\ AgentsIn("AVAILABLE") <= AgentsIn("AVAILABLE")'
<1>1. InState("AVAILABLE") \subseteq InState("AVAILABLE")'
  BY DEF InState, Stays
<1>2. InState("AVAILABLE")' \in SUBSET Agents
  BY DEF InState
<1>3. /\ IsFiniteSet(InState("AVAILABLE")')
      /\ Cardinality(InState("AVAILABLE")') \in Nat
  BY <1>2, CountsAreNumbers
<1>4. Cardinality(InState("AVAILABLE")) <= Cardinality(InState("AVAILABLE")')
  BY <1>1, <1>3, FS_Subset
<1>5. QED
  BY <1>3, <1>4, InStateOK DEF AgentsIn, InState

LEMMA OneFewerAvailable ==
  ASSUME FiniteCampaign, CallsInv, NEW w \in Workers, ClaimAgent(w)
  PROVE  /\ AgentsIn("AVAILABLE") \in Nat /\ AgentsIn("AVAILABLE")' \in Nat
         /\ AgentsIn("AVAILABLE") - 1 <= AgentsIn("AVAILABLE")'
         /\ \A a \in Agents : agents[a].alive => agents'[a].alive
<1>1. agents \in [Agents -> AgentDocuments]
      /\ \A a \in Agents : agents[a] \in AgentDocuments
  BY DEF CallsInv, IInv, StoreOK, AgentsOK
<1>2. PICK c \in Agents : TryReserveAgent(c, epoch)
  BY DEF ClaimAgent
<1>3. \A a \in Agents \ {c} : agents'[a] = agents[a]
  BY <1>1, <1>2 DEF TryReserveAgent
<1>4. agents'[c].alive = agents[c].alive
  BY <1>1, <1>2 DEF TryReserveAgent, AgentDocuments
<1>5. InState("AVAILABLE") \subseteq InState("AVAILABLE")' \cup {c}
  BY <1>3 DEF InState
<1>6. InState("AVAILABLE")' \in SUBSET Agents
  BY DEF InState
<1>7. /\ IsFiniteSet(InState("AVAILABLE")')
      /\ Cardinality(InState("AVAILABLE")') \in Nat
  BY <1>6, CountsAreNumbers
<1>8. /\ IsFiniteSet(InState("AVAILABLE")' \cup {c})
      /\ Cardinality(InState("AVAILABLE")' \cup {c}) =
           IF c \in InState("AVAILABLE")' THEN Cardinality(InState("AVAILABLE")')
           ELSE Cardinality(InState("AVAILABLE")') + 1
  BY <1>7, FS_AddElement
<1>9. Cardinality(InState("AVAILABLE")) <= Cardinality(InState("AVAILABLE")' \cup {c})
  BY <1>5, <1>8, FS_Subset
<1>10. /\ AgentsIn("AVAILABLE") = Cardinality(InState("AVAILABLE"))
       /\ AgentsIn("AVAILABLE") \in Nat
  BY InStateOK
<1>11. AgentsIn("AVAILABLE")' = Cardinality(InState("AVAILABLE")')
  BY DEF AgentsIn, InState
<1>12. \A a \in Agents : agents[a].alive => agents'[a].alive
  BY <1>3, <1>4
<1>13. QED
  BY <1>7, <1>8, <1>9, <1>10, <1>11, <1>12

LEMMA AgentsThereNext ==
  ASSUME FiniteCampaign, NobodyWalksAway, TickInv, TickInv', NEW w \in Workers,
         OnlyWorker(w), AgentsThere(w), [TickNext]_tickVars
  PROVE  AgentsThere(w)'
<1> DEFINE there == AgentsIn("AVAILABLE")
<1>1. /\ CallsInv /\ tick \in [Workers -> Ticks] /\ tick' \in [Workers -> Ticks]
  BY DEF TickInv, TickTypeOK
<1>2. /\ tick[w].left \in Nat /\ tick'[w].left \in Nat
      /\ tick[w].counts.available \in Nat
      /\ tick[w].left <= there /\ there \in Nat
      /\ sweep.stage # "heartbeats" /\ \A a \in Agents : agents[a].alive
  BY <1>1, InStateOK DEF Ticks, TickCounts, AgentsThere
<1>3. sweep'.stage # "heartbeats"
  BY <1>1, <1>2, NobodyIsMissing
<1>4. ASSUME \A a \in Agents : Stays(a)
      PROVE  there' \in Nat /\ there <= there' /\ \A a \in Agents : agents'[a].alive
  BY <1>2, <1>4, NoFewerAvailable DEF Stays
<1>5. CASE Decide(w)
  <2>1. /\ tick[w].pc = "readOutcomes" /\ UNCHANGED vars
        /\ tick'[w].pc = "allocate"
        /\ tick'[w].left > 0 => tick'[w].left <= tick[w].counts.available
    BY <1>5, DecideMoves
  <2>2. there' = there /\ \A a \in Agents : agents'[a].alive
    BY <1>2, <2>1 DEF vars, storeVars, AgentsIn
  <2>3. tick[w].counts.available <= there
    BY <2>1 DEF AgentsThere, KnowsAgents
  <2>4. tick'[w].left <= there'
    BY <1>2, <2>1, <2>2, <2>3
  <2>5. QED
    BY <1>3, <2>1, <2>2, <2>4 DEF AgentsThere, KnowsAgents
<1>6. CASE SetsUp(w)
  <2>1. /\ Dialer(w) /\ tick'[w].pc = "allocate"
        /\ IF dial[w].pc = "idle" THEN tick'[w].left = tick[w].left - 1
                                  ELSE tick'[w].left = tick[w].left
    BY <1>6 DEF SetsUp
  <2>2. CASE dial[w].pc = "idle"
    <3>1. ClaimAgent(w)
      BY <1>1, <2>1, <2>2, DialAdvances
    <3>2. /\ there' \in Nat /\ there - 1 <= there'
          /\ \A a \in Agents : agents'[a].alive
      BY <1>1, <1>2, <3>1, OneFewerAvailable
    <3>3. tick'[w].left <= there'
      BY <1>2, <2>1, <2>2, <3>2
    <3>4. QED
      BY <1>3, <2>1, <3>2, <3>3 DEF AgentsThere, KnowsAgents
  <2>3. CASE dial[w].pc # "idle"
    <3>1. there' \in Nat /\ there <= there' /\ \A a \in Agents : agents'[a].alive
      BY <1>1, <1>4, <2>1, <2>3, DialerStays
    <3>2. tick'[w].left <= there'
      BY <1>2, <2>1, <2>3, <3>1
    <3>3. QED
      BY <1>3, <2>1, <3>1, <3>2 DEF AgentsThere, KnowsAgents
  <2>4. QED
    BY <2>2, <2>3
<1>7. CASE Elsewhere(w)
  <2>1. /\ tick'[w].left = tick[w].left \/ tick'[w].left \in 0..tick[w].left
        /\ UNCHANGED vars \/ Others \/ \E a \in Agents : WrapUpEnds(a)
    BY <1>7 DEF Elsewhere
  <2>2. \A a \in Agents : Stays(a)
    BY <1>1, <1>2, <2>1, OthersStay
  <2>3. there' \in Nat /\ there <= there' /\ \A a \in Agents : agents'[a].alive
    BY <1>4, <2>2
  <2>4. tick'[w].left <= there'
    BY <1>2, <2>1, <2>3
  <2>5. ASSUME tick'[w].pc \in KnowsAgents
        PROVE  tick'[w].counts.available <= there'
    <3>1. CASE /\ tick[w].pc \in KnowsAgents
               /\ tick'[w].counts.available = tick[w].counts.available
      <4>1. tick[w].counts.available <= there
        BY <3>1 DEF AgentsThere
      <4>2. QED
        BY <1>2, <2>3, <3>1, <4>1
    <3>2. CASE tick'[w].counts.available = there
      BY <1>2, <2>3, <3>2
    <3>3. QED
      BY <1>7, <2>5, <3>1, <3>2 DEF Elsewhere
  <2>6. QED
    BY <1>3, <2>3, <2>4, <2>5 DEF AgentsThere
<1>8. QED
  BY <1>5, <1>6, <1>7, OneWorkerSteps

-----------------------------------------------------------------------------
(* What a tick reads and keeps in its records is always well formed.       *)
THEOREM TicksTypeCorrect ==
  ASSUME FiniteCampaign
  PROVE  TickSpec => []TickTypeOK
BY TickTypeInit, TickTypeNext, PTL DEF TickSpec

(* Whatever a tick reads, and however it changed between its queries, the  *)
(* record of the decision tells what cut the request.                      *)
THEOREM TickDecisionsExplained ==
  ASSUME FiniteCampaign
  PROVE  TickSpec => []DecisionsAreExplained
<1>1. TickTypeOK => DecisionsAreExplained
  <2> SUFFICES ASSUME TickTypeOK, NEW w \in Workers, NEW failing \in BOOLEAN,
                      NEW dropped \in BOOLEAN, NEW tooOld \in BOOLEAN
               PROVE  RecordIsTrue(tick[w].requested, tick[w].mode,
                                   Reading(w, failing, dropped, tooOld))
    BY DEF DecisionsAreExplained
  <2>1. Reading(w, failing, dropped, tooOld) \in Readings
    BY ReadingOK
  <2>2. tick[w].requested \in Nat
    BY DEF TickTypeOK, Ticks
  <2>3. QED
    BY <2>1, <2>2, RecordsAreTrue
<1>2. QED
  BY <1>1, TicksTypeCorrect, PTL

(* max_concurrent_calls is kept by one worker, at every moment.            *)
THEOREM ConcurrencyLimited ==
  ASSUME FiniteCampaign, NEW w \in Workers, OnlyWorker(w)
  PROVE  TickSpec => []ConcurrencyLimitHolds
<1> DEFINE Inv == TickInv /\ CallsKnown(w) /\ LimitKept(w)
<1>1. TickInit => Inv
  <2> SUFFICES ASSUME TickInit PROVE CallsKnown(w) /\ LimitKept(w)
    BY TickInvInit
  <2>1. tick[w].left = 0 /\ tick[w].pc = "asleep" /\ dial[w].pc = "idle"
    BY DEF TickInit, Init, AllocatorInit, Between, IdleDial
  <2>2. FindActive = {}
    BY DEF TickInit, Init, StoreInit, FindActive, CallStates
  <2>3. Counted(w) = {} /\ OnItsWay(w) = 0
    BY <2>1, <2>2 DEF Counted, Activating, OnItsWay
  <2>4. QED
    BY <2>1, <2>3, FS_EmptySet, SafetyAssumption
    DEF LimitKept, CallsKnown, KnowsCalls
<1>2. Inv /\ [TickNext]_tickVars => Inv'
  BY TickInvNext, CallsKnownNext, LimitKeptNext
<1>3. Inv => ConcurrencyLimitHolds
  <2> SUFFICES ASSUME Inv PROVE ConcurrencyLimitHolds
    OBVIOUS
  <2>1. CallsInv /\ tick[w].left \in Nat
    BY DEF TickInv, TickTypeOK, Ticks
  <2>2. Counted(w) \subseteq CallKeys /\ FindActive \subseteq Counted(w)
    BY <2>1, CountedOK
  <2>3. /\ Cardinality(FindActive) \in Nat /\ Cardinality(Counted(w)) \in Nat
        /\ Cardinality(FindActive) <= Cardinality(Counted(w))
    BY <2>2, FewerCounted
  <2>4. OnItsWay(w) \in {0, 1} /\ MaxConcurrentCalls \in Nat
    BY SafetyAssumption DEF OnItsWay
  <2>5. Cardinality(Counted(w)) + tick[w].left + OnItsWay(w) <= MaxConcurrentCalls
    BY DEF LimitKept
  <2>6. QED
    BY <2>1, <2>3, <2>4, <2>5 DEF ConcurrencyLimitHolds
<1> HIDE DEF Inv
<1>4. QED
  BY <1>1, <1>2, <1>3, PTL DEF TickSpec

(* An outage meets no more calls than it takes to notice it and those      *)
(* approved by then.                                                       *)
THEOREM OutagesContained ==
  ASSUME FiniteCampaign, NEW w \in Workers, OnlyWorker(w)
  PROVE  TickSpec => []OutageIsContained
<1> DEFINE Inv == TickInv /\ OutageKept(w)
<1>1. TickInit => Inv
  <2> SUFFICES ASSUME TickInit PROVE OutageKept(w)
    BY TickInvInit
  <2>1. tick[w].left = 0 /\ dial[w].pc = "idle" /\ samples = <<>>
    BY DEF TickInit, Init, AllocatorInit, Between, IdleDial, HealthInit
  <2>2. IsLastAccepted(0) /\ Len(samples) = 0 /\ MayFail(w) = 0
    BY <2>1 DEF IsLastAccepted, MayFail
  <2>3. QED
    BY <2>1, <2>2, HealthAssumption, SafetyAssumption DEF OutageKept
<1>2. Inv /\ [TickNext]_tickVars => Inv'
  BY TickInvNext, OutageKeptNext
<1>3. Inv => OutageIsContained
  <2> SUFFICES ASSUME Inv PROVE OutageIsContained
    OBVIOUS
  <2>1. HealthTypeOK /\ tick[w].left \in Nat /\ Len(samples) \in Nat
    BY DEF TickInv, TickTypeOK, HealthTypeOK, Ticks
  <2>2. PICK m \in 0..Len(samples) :
          /\ IsLastAccepted(m)
          /\ Len(samples) - m + tick[w].left + MayFail(w)
               < UnhealthyConsecutiveFailures + MaxConcurrentCalls
    BY DEF OutageKept
  <2>3. TrailingFailures = Len(samples) - m
    BY <2>1, <2>2, FailuresSince
  <2>4. MayFail(w) \in {0, 1}
    BY DEF MayFail
  <2>5. QED
    BY <2>1, <2>2, <2>3, <2>4, HealthAssumption, SafetyAssumption
    DEF OutageIsContained
<1> HIDE DEF Inv
<1>4. QED
  BY <1>1, <1>2, <1>3, PTL DEF TickSpec

(* As long as nobody logs out, pauses or falls silent, one worker never    *)
(* looks for an agent in vain.                                             *)
THEOREM ApprovedCallsFindAgents ==
  ASSUME FiniteCampaign, NobodyWalksAway, NEW w \in Workers, OnlyWorker(w)
  PROVE  TickSpec => []ApprovedCallsHaveAgents
<1> DEFINE Inv == TickInv /\ AgentsThere(w)
<1>1. TickInit => Inv
  <2> SUFFICES ASSUME TickInit PROVE AgentsThere(w)
    BY TickInvInit
  <2>1. tick[w].left = 0 /\ tick[w].pc = "asleep"
    BY DEF TickInit, Between
  <2>2. \A a \in Agents : agents[a].alive
    BY DEF TickInit, Init, StoreInit
  <2>3. sweep.stage = "asleep"
    BY DEF TickInit, Init, RecoveryInit, Asleep
  <2>4. QED
    BY <2>1, <2>2, <2>3, InStateOK DEF AgentsThere, KnowsAgents
<1>2. Inv /\ [TickNext]_tickVars => Inv'
  BY TickInvNext, AgentsThereNext
<1>3. Inv => ApprovedCallsHaveAgents
  BY DEF AgentsThere, ApprovedCallsHaveAgents, OnlyWorker
<1> HIDE DEF Inv
<1>4. QED
  BY <1>1, <1>2, <1>3, PTL DEF TickSpec

=============================================================================
