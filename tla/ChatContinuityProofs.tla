----------------------- MODULE ChatContinuityProofs ------------------------
(***************************************************************************)
(* What holds of ChatContinuity for every number of inputs, nodes, epochs, *)
(* boots and faults.                                                       *)
(***************************************************************************)
EXTENDS ChatContinuitySteps, FiniteSetTheorems

-----------------------------------------------------------------------------
(***************************************************************************)
(* The invariant is inductive.                                             *)
(***************************************************************************)

\* Every step keeps the parts of the invariant about rows and workers.
LEMMA RowStep ==
  ASSUME IInv, TypeOK', [Next]_vars
  PROVE  RowInv'
<1>1. CASE UNCHANGED vars \/ LeaseExpire BY <1>1, NodeStepsAreQuiet
<1>2. CASE Posting
  BY <1>2, PostBeginStep, PostCommitStep, NodeStepsAreQuiet DEF Posting
<1>3. ASSUME NEW n \in Nodes, Draining(n) PROVE RowInv'
  BY <1>3, NodeStepsAreQuiet, ClaimStep DEF Draining
<1>4. ASSUME NEW n \in Nodes, Boot(n) \/ Crash(n) PROVE RowInv'
  <2>1. CASE BootRecover(n)
    <3> DEFINE t == node[n].row
    <3>1. t \in Turns BY <2>1 DEF BootRecover, IInv, RecoveryHasRow
    <3>2. UNCHANGED db \/ (~WaitOwner(n, t) /\ Recover(t)) BY <2>1 DEF BootRecover, db
    <3>3. exec' = exec /\ prov' = prov BY <2>1 DEF BootRecover
    <3> HIDE DEF t
    <3> QED BY <2>1, <3>1, <3>2, <3>3, NodeStepsAreQuiet, RecoverStep
  <2> QED BY <1>4, <2>1, NodeStepsAreQuiet DEF Boot
<1>5. ASSUME NEW e \in Epochs, Worker(e) PROVE RowInv'
  BY <1>5, WorkerStepsAreQuiet, RecordsAreQuiet, SealStep, BeginStep, CompletesStep,
     FailPreparationStep DEF Worker
<1>6. ASSUME NEW e \in Epochs, Mint(e) \/ Consumer(e) \/ Provider(e) PROVE RowInv'
  BY <1>6, MintIsQuiet, ConsumerIsQuiet, ProviderIsQuiet
<1> QED BY <1>1, <1>2, <1>3, <1>4, <1>5, <1>6 DEF Next

\* Only a scan gives the reconciliation a row.
LEMMA ReconciliationStep ==
  ASSUME IInv, [Next]_vars
  PROVE  RecoveryHasRow'
<1> USE DEF IInv, RecoveryHasRow
<1>1. node \in [Nodes -> NodeState] BY DEF TypeOK
<1>2. CASE UNCHANGED node BY <1>2
<1>3. ASSUME NEW n \in Nodes, NEW b \in BOOLEAN, node' = [node EXCEPT ![n].wake = b]
      PROVE  RecoveryHasRow'
  BY <1>1, <1>3 DEF NodeState
<1>4. ASSUME NEW n \in Nodes, NEW d, node' = [node EXCEPT ![n].drain = d]
      PROVE  RecoveryHasRow'
  BY <1>1, <1>4 DEF NodeState
<1>5. CASE Posting \/ LeaseExpire
  BY <1>2, <1>3, <1>5 DEF Posting, PostBegin, PostCommit, SetConfiguration, LeaseExpire
<1>6. ASSUME NEW n \in Nodes, Draining(n) PROVE RecoveryHasRow'
  <2>1. CASE StartDrain(n)
    BY <1>1, <2>1 DEF StartDrain, NodeState
  <2>2. PICK d : StartDrain(n) \/ node' = [node EXCEPT ![n].drain = d]
    BY <1>6 DEF Draining, ClaimNothing, ClaimTurn, DrainReturns
  <2> QED BY <1>4, <2>1, <2>2
<1>7. ASSUME NEW n \in Nodes, Boot(n) PROVE RecoveryHasRow'
  BY <1>7, BootTypes
<1>8. ASSUME NEW n \in Nodes, Crash(n) PROVE RecoveryHasRow'
  BY <1>1, <1>8 DEF Crash, NodeState
<1>9. ASSUME NEW e \in Epochs, Worker(e) PROVE RecoveryHasRow'
  <2>1. CASE ReleaseRuntime(e)
    <3>1. UNCHANGED node \/ node' = [node EXCEPT ![exec[e].node].wake = TRUE]
      BY <2>1 DEF ReleaseRuntime
    <3>2. ASSUME node' = [node EXCEPT ![exec[e].node].wake = TRUE]
          PROVE  \A m \in Nodes : node'[m].rec = node[m].rec /\ node'[m].row = node[m].row
      BY <1>1, <3>2 DEF NodeState
    <3> QED BY <1>2, <3>1, <3>2
  <2>2. CASE ~ReleaseRuntime(e)
    BY <1>2, <1>9, <2>2
    DEF Worker, Reserve, Seal, PrepareEnds, OpenEnds, PreparationFails, RecordOpen, Begin,
        SubmitReturns, Accept, RecordAcceptance, Observed, FailureClosed, PersistTerminalPart,
        SettleRecords, SettleCompletes, FailCompletes, Complete, FailError, FailDone, FailPreparation,
        CallFails, ReleaseLaunch
  <2> QED BY <2>1, <2>2
<1>10. ASSUME NEW e \in Epochs, Mint(e) \/ Consumer(e) \/ Provider(e) PROVE RecoveryHasRow'
  BY <1>2, <1>10
  DEF Mint, Consumer, ConsumeAcceptance, RecordAcceptance, ConsumeTerminal, ConsumeExit,
      ConsumerAborts, ConsumerRecords, ConsumerSaves, Provider, ProviderTakes, ProviderFinishes,
      ProviderExits
<1> QED BY <1>2, <1>5, <1>6, <1>7, <1>8, <1>9, <1>10 DEF Next, vars

\* A new chat satisfies the invariant.
LEMMA InitIInv == Init => IInv
<1> SUFFICES ASSUME Init PROVE IInv OBVIOUS
<1> USE DEF Init
<1>1. TypeOK
  <2>1. {"absent"} \subseteq TurnStates /\ "idle" \in ChatPhases /\ "none" \in AttemptPhases
    BY DEF TurnStates, ChatPhases, AttemptPhases
  <2>2. "none" \in Outcomes /\ "none" \in Pcs BY DEF Outcomes, Pcs
  <2>3. 0 \in 0..MaxEpoch /\ 0 \in 0..MaxRev /\ 1 \in 1..MaxRev /\ 0 \in 0..MaxBoot /\ 1 \in 1..MaxBoot
    BY BoundAssumption
  <2>4. turn \in [Turns -> TurnRow] /\ chat \in ChatRow BY <2>1, <2>3 DEF TurnRow, ChatRow
  <2>5. NoAttempt \in AttemptRow BY <2>1, <2>2, <2>3 DEF NoAttempt, AttemptRow, Numbers
  <2>6. NoExec \in Execution BY <2>2, <2>3 DEF NoExec, Execution, Numbers
  <2>7. NoSession \in Session BY <2>2 DEF NoSession, Session
  <2>8. node \in [Nodes -> NodeState] BY <2>3 DEF NodeState
  <2>9. parts \in [Turns -> SUBSET (Epochs \X Kinds)] OBVIOUS
  <2> QED BY <2>4, <2>5, <2>6, <2>7, <2>8, <2>9 DEF TypeOK
<1>2. TerminalHasEvent BY DEF TerminalHasEvent, HasEvent, NoExec, NoAttempt
<1>3. FutureIsEmpty BY DEF FutureIsEmpty
<1>4. OrdinalsAreUnique BY DEF OrdinalsAreUnique
<1>5. OneRunning /\ SnapshotIsCurrent BY DEF OneRunning, SnapshotIsCurrent
<1>6. AttemptMatches /\ AttemptPhase BY DEF AttemptMatches, AttemptPhase, NoAttempt
<1>7. SubmissionIsBegun BY DEF SubmissionIsBegun, NoExec, NoSession
<1>8. ConfiguredInOrder BY DEF ConfiguredInOrder
<1>9. ClaimMatches BY DEF ClaimMatches, NoExec
<1>10. GrantOfOwner BY DEF GrantOfOwner
<1>11. RecoveryHasRow BY DEF RecoveryHasRow
<1> QED BY <1>1, <1>2, <1>3, <1>4, <1>5, <1>6, <1>7, <1>8, <1>9, <1>10, <1>11 DEF IInv

\* The invariant above holds in every state, whatever posts, claims, faults, crashes
\* and recoveries came before.
THEOREM Invariance == Spec => []IInv
<1>1. IInv /\ [Next]_vars => IInv'
  <2> SUFFICES ASSUME IInv, [Next]_vars PROVE IInv' OBVIOUS
  <2>1. TypeOK' BY TypeStep
  <2> QED BY <2>1, RowStep, ReconciliationStep DEF RowInv, IInv
<1> QED BY InitIInv, <1>1, PTL DEF Spec

-----------------------------------------------------------------------------
(***************************************************************************)
(* What follows for the chat.                                              *)
(***************************************************************************)

\* Every variable keeps its type; the recovery never restores a terminal part
\* without an event id.
THEOREM TypeCorrect == Spec => []TypeOK
BY Invariance, PTL DEF IInv

\* A begun attempt has the turn of its worker, and its turn has its snapshot.
LEMMA BegunFacts ==
  ASSUME IInv, NEW e \in Epochs, att[e].begun
  PROVE  /\ att[e].turn \in Turns /\ att[e].turn = exec[e].input /\ att[e].cfg # 0
         /\ turn[att[e].turn].cfg = att[e].cfg
         /\ turn[att[e].turn].st \in Settled \cup {"running"} /\ turn[att[e].turn].snap = e
  BY DEF IInv, AttemptPhase, AttemptMatches

\* A provider has an input only under a begun attempt, and it is the input of its turn.
LEMMA DeliveredFacts ==
  ASSUME IInv, NEW e \in Epochs, Delivered(e)
  PROVE  att[e].begun /\ prov[e].got = att[e].turn
  BY BegunFacts DEF IInv, SubmissionIsBegun, Delivered

\* No input is handed to two provider processes, however the calls, crashes and
\* recoveries of recover_chat_attempt interleave.
THEOREM DeliveredAtMostOnce == Spec => []DeliveredOnce
<1>1. IInv => DeliveredOnce
  <2> SUFFICES ASSUME IInv, NEW e \in Epochs, NEW f \in Epochs, Delivered(e), prov[e].got = prov[f].got
               PROVE  e = f
    BY DEF DeliveredOnce
  <2>1. Delivered(f) BY DEF Delivered
  <2> QED BY <2>1, DeliveredFacts, BegunFacts
<1> QED BY <1>1, Invariance, PTL

\* A provider gets the input of the turn its attempt is recorded for, although
\* claim_next_chat_turn picks the input and the running turn by different orders.
THEOREM InputIsOfTurn == Spec => []InputOfTurn
<1>1. IInv => InputOfTurn BY DeliveredFacts DEF InputOfTurn
<1> QED BY <1>1, Invariance, PTL

\* Inputs reach providers in posting order, each after all earlier turns settled.
THEOREM DeliveryIsOrdered == Spec => []DeliveredInOrder
<1>1. IInv => DeliveredInOrder
  BY DeliveredFacts, BegunFacts DEF DeliveredInOrder, IInv, ConfiguredInOrder
<1> QED BY <1>1, Invariance, PTL

\* No turn past the barrier of begin_chat_dispatch is queued again.
THEOREM NoRetryPastBarrier == Spec => []BegunIsNotRetried
<1>1. IInv => BegunIsNotRetried BY BegunFacts DEF BegunIsNotRetried
<1> QED BY <1>1, Invariance, PTL

\* An attempt recorded as not sent by fail_chat_preparation or the recovery is never
\* sent, also by a worker that is still alive.
THEOREM NotSentHolds == Spec => []NotSentIsTrue
<1>1. IInv => NotSentIsTrue BY DeliveredFacts DEF NotSentIsTrue, IInv, AttemptPhase
<1> QED BY <1>1, Invariance, PTL

\* All attempts of a turn have the configuration its first claim pinned.
THEOREM RetriesKeepConfiguration == Spec => []RetryKeepsConfiguration
<1>1. IInv => RetryKeepsConfiguration BY DEF RetryKeepsConfiguration, IInv, AttemptMatches
<1> QED BY <1>1, Invariance, PTL

\* Every way out of an epoch has revoked its runtime grant.
THEOREM GrantsAreFenced == Spec => []GrantIsFenced
<1>1. IInv => GrantIsFenced BY DEF GrantIsFenced, IInv, GrantOfOwner
<1> QED BY <1>1, Invariance, PTL

\* assert_chat_generation lets a runtime have effects only for the turn it runs, past
\* its barrier, with every earlier turn settled.
THEOREM EffectsAreOfRunningTurn == Spec => []EffectsOfRunningTurn
<1>1. IInv => EffectsOfRunningTurn
  <2> SUFFICES ASSUME IInv, NEW e \in Epochs, att[e].phase \in {"dispatching", "accepted"}
               PROVE  /\ turn[att[e].turn].st = "running" /\ turn[att[e].turn].snap = e /\ att[e].begun
                      /\ \A t \in Turns : Precedes(t, att[e].turn) => turn[t].st \in Settled
    BY DEF EffectsOfRunningTurn, EffectAllowed
  <2>1. att[e].begun /\ turn[att[e].turn].st = "running" BY DEF IInv, AttemptPhase
  <2> QED BY <2>1, BegunFacts DEF IInv, ConfiguredInOrder
<1> QED BY <1>1, Invariance, PTL
-----------------------------------------------------------------------------
(***************************************************************************)
(* What no step does.                                                      *)
(***************************************************************************)

\* Who writes a turn or an attempt: clients and claims write only turns, and only
\* turns nobody runs; everyone else writes for the turn that runs, in its epoch.
WritesPosted == att' = att /\ \A t \in Turns : turn[t].st \in Settled => turn'[t] = turn[t]
WritesRunning == \E t \in Turns :
  /\ turn[t].st = "running"
  /\ \A u \in Turns : u # t => turn'[u] = turn[u]
  /\ \A e \in Epochs : e # chat.epoch => att'[e] = att[e]
WritesNothing == turn' = turn /\ att' = att

\* The calls of a worker that write rows pass the fence first.
LEMMA FencedWrites ==
  ASSUME IInv, NEW e \in Epochs, exec[e].pc # "none", Owned(e),
         \A u \in Turns : u # exec[e].turn => turn'[u] = turn[u],
         \A f \in Epochs : f # e => att'[f] = att[f]
  PROVE  WritesRunning
  BY OwnedFacts DEF WritesRunning

\* A worker writes rows only behind the fence.
LEMMA WorkerWrites ==
  ASSUME IInv, NEW e \in Epochs, Worker(e)
  PROVE  WritesNothing \/ WritesRunning
<1> USE DEF IInv
<1>1. CASE Seal(e) \/ RecordOpen(e) \/ Begin(e) \/ Accept(e) \/ SettleRecords(e)
  <2>1. exec[e].pc # "none" /\ Owned(e)
    BY <1>1 DEF Seal, CanSeal, RecordOpen, CanRecordOpen, Begin, CanBegin, Accept, RecordAcceptance,
                CanAccept, SettleRecords, CanRecord
  <2>2. \A u \in Turns : u # exec[e].turn => turn'[u] = turn[u]
    BY <1>1 DEF Seal, RecordOpen, Begin, Accept, RecordAcceptance, SettleRecords, TypeOK
  <2>3. \A f \in Epochs : f # e => att'[f] = att[f]
    BY <1>1 DEF Seal, RecordOpen, Begin, Accept, RecordAcceptance, SettleRecords, RecordTerminal, TypeOK
  <2> QED BY <2>1, <2>2, <2>3, FencedWrites
<1>2. CASE SettleCompletes(e) \/ FailCompletes(e)
  <2>1. exec[e].pc # "none" /\ Owned(e)
    BY <1>2 DEF SettleCompletes, FailCompletes, Complete, CanComplete
  <2>2. \A u \in Turns : u # exec[e].turn => turn'[u] = turn[u]
    BY <1>2 DEF SettleCompletes, FailCompletes, Complete, TypeOK
  <2>3. \A f \in Epochs : f # e => att'[f] = att[f]
    BY <1>2 DEF SettleCompletes, FailCompletes, Complete, TypeOK
  <2> QED BY <2>1, <2>2, <2>3, FencedWrites
<1>3. CASE FailPreparation(e)
  <2>1. exec[e].pc # "none" /\ Owned(e) BY <1>3 DEF FailPreparation, CanFailPreparation
  <2>2. \A u \in Turns : u # exec[e].turn => turn'[u] = turn[u] BY <1>3 DEF FailPreparation, TypeOK
  <2>3. \A f \in Epochs : f # e => att'[f] = att[f]
    BY <1>3, <2>1, OwnedFacts DEF FailPreparation, TypeOK
  <2> QED BY <2>1, <2>2, <2>3, FencedWrites
<1>4. CASE ~(Seal(e) \/ RecordOpen(e) \/ Begin(e) \/ Accept(e) \/ SettleRecords(e)
             \/ SettleCompletes(e) \/ FailCompletes(e) \/ FailPreparation(e))
  BY <1>4 DEF WritesNothing, Worker, Reserve, PrepareEnds, OpenEnds, PreparationFails,
     SubmitReturns, Observed, FailureClosed, PersistTerminalPart, FailError, FailDone, CallFails,
     ReleaseLaunch, ReleaseRuntime, db
<1> QED BY <1>1, <1>2, <1>3, <1>4

\* A recovery writes the rows of the turn a dead boot left running, in its epoch.
LEMMA RecoveryWrites ==
  ASSUME IInv, NEW n \in Nodes, BootRecover(n)
  PROVE  WritesNothing \/ WritesRunning
<1> DEFINE t == node[n].row
           s == turn[t].snap
<1> USE DEF IInv
<1>1. t \in Turns BY DEF BootRecover, RecoveryHasRow
<1>2. CASE UNCHANGED db BY <1>2 DEF db, WritesNothing
<1>3. CASE ReleaseSettled(t) BY <1>3 DEF ReleaseSettled, WritesNothing
<1>4. CASE RetryPrepared(t) \/ FinalizeTerminal(t) \/ SettleUnknown(t)
  <2>1. turn[t].st = "running"
    BY <1>4 DEF RetryPrepared, FinalizeTerminal, SettleUnknown, Dispatched
  <2>2. s # 0 => s = chat.epoch BY <1>1, <2>1 DEF SnapshotIsCurrent
  <2>3. \A u \in Turns : u # t => turn'[u] = turn[u]
    BY <1>4 DEF RetryPrepared, FinalizeTerminal, SettleUnknown, TypeOK
  <2>4. FinalizeTerminal(t) => s # 0 BY DEF FinalizeTerminal, HasTerminal
  <2>5. \A f \in Epochs : f # chat.epoch => att'[f] = att[f]
    BY <1>4, <2>2, <2>4 DEF RetryPrepared, FinalizeTerminal, SettleUnknown, TypeOK
  <2> QED BY <1>1, <2>1, <2>3, <2>5 DEF WritesRunning
<1> QED BY <1>2, <1>3, <1>4 DEF BootRecover, Recover, db

\* The reader writes its own attempt, while its worker owns the chat.
LEMMA ReaderWrites ==
  ASSUME IInv, NEW e \in Epochs, Mint(e) \/ Consumer(e) \/ Provider(e)
  PROVE  WritesNothing \/ WritesRunning
<1> USE DEF IInv
<1>1. CASE ConsumeAcceptance(e) \/ (ConsumerRecords(e) /\ CanRecord(e))
  <2>1. exec[e].pc # "none" /\ Owned(e)
    BY <1>1, Started DEF ConsumeAcceptance, RecordAcceptance, CanAccept, ConsumerRecords, CanRecord
  <2>2. turn' = turn BY <1>1 DEF ConsumeAcceptance, RecordAcceptance, ConsumerRecords
  <2>3. \A f \in Epochs : f # e => att'[f] = att[f]
    BY <1>1 DEF ConsumeAcceptance, RecordAcceptance, ConsumerRecords, RecordTerminal, TypeOK
  <2> QED BY <2>1, <2>2, <2>3, FencedWrites
<1>2. CASE ~(ConsumeAcceptance(e) \/ (ConsumerRecords(e) /\ CanRecord(e)))
  BY <1>2 DEF WritesNothing, Mint, Consumer, ConsumeTerminal, ConsumeExit, ConsumerAborts,
     ConsumerRecords, ConsumerSaves, Provider, ProviderTakes, ProviderFinishes, ProviderExits, db
<1> QED BY <1>1, <1>2

\* These are all the steps there are.
LEMMA Writes ==
  ASSUME IInv, [Next]_vars
  PROVE  WritesNothing \/ WritesPosted \/ WritesRunning
<1> USE DEF IInv
<1>1. CASE UNCHANGED vars \/ LeaseExpire \/ SetConfiguration
  BY <1>1 DEF vars, LeaseExpire, SetConfiguration, WritesNothing
<1>2. ASSUME NEW t \in Turns, PostBegin(t) \/ \E n \in Nodes : PostCommit(t, n) PROVE WritesPosted
  <2>1. turn[t].st \notin Settled BY <1>2 DEF PostBegin, PostCommit, Settled
  <2>2. \A u \in Turns : u # t => turn'[u] = turn[u] BY <1>2 DEF PostBegin, PostCommit, TypeOK
  <2> QED BY <1>2, <2>1, <2>2 DEF WritesPosted, PostBegin, PostCommit
<1>3. ASSUME NEW n \in Nodes, Draining(n) PROVE WritesNothing \/ WritesPosted
  <2>1. ASSUME NEW p \in Turns, NEW r \in Turns, ClaimTurn(n, p, r) PROVE WritesPosted
    <3>1. turn[p].st \notin Settled /\ turn[r].st \notin Settled
      BY <2>1 DEF ClaimTurn, ClaimPick, ClaimRun, Queued, Settled
    <3>2. \A u \in Turns : u \notin {p, r} => turn'[u] = turn[u] BY <2>1 DEF ClaimTurn, TypeOK
    <3> QED BY <2>1, <3>1, <3>2 DEF WritesPosted, ClaimTurn
  <2> QED BY <1>3, <2>1 DEF Draining, StartDrain, ClaimNothing, DrainReturns, db, WritesNothing
<1>4. ASSUME NEW n \in Nodes, Boot(n) \/ Crash(n) PROVE WritesNothing \/ WritesRunning
  BY <1>4, RecoveryWrites DEF Boot, BootScan, BootWake, Crash, db, WritesNothing
<1> QED BY <1>1, <1>2, <1>3, <1>4, WorkerWrites, ReaderWrites DEF Next, Posting

\* No late reply, worker or recovery changes a turn that is settled.
THEOREM SettledTurnsStay == Spec => SettledStays
<1>1. IInv /\ [Next]_vars => [\A t \in Turns : turn[t].st \in Settled => turn'[t] = turn[t]]_vars
  <2> SUFFICES ASSUME IInv, [Next]_vars, NEW t \in Turns, turn[t].st \in Settled
               PROVE  turn'[t] = turn[t]
    OBVIOUS
  <2>1. turn[t].st # "running" BY DEF Settled
  <2> QED BY <2>1, Writes DEF WritesNothing, WritesPosted, WritesRunning
<1> QED BY <1>1, Invariance, PTL DEF Spec, SettledStays

\* Nothing writes to the attempt of an epoch the chat has left.
THEOREM LeftAttemptsAreFinal == Spec => AttemptsAreFinal
<1>1. IInv /\ [Next]_vars => [\A e \in Epochs : e < chat.epoch => att'[e] = att[e]]_vars
  <2> SUFFICES ASSUME IInv, [Next]_vars, NEW e \in Epochs, e < chat.epoch
               PROVE  att'[e] = att[e]
    OBVIOUS
  <2>1. e # chat.epoch BY DEF Epochs
  <2> QED BY <2>1, Writes DEF WritesNothing, WritesPosted, WritesRunning
<1> QED BY <1>1, Invariance, PTL DEF Spec, AttemptsAreFinal
-----------------------------------------------------------------------------
(***************************************************************************)
(* What a completed turn was completed with.                               *)
(***************************************************************************)

\* A terminal that a worker or an attempt holds is the adapter's report of what the
\* session of its epoch answered.
Answers == {"completed", "failed"}
TerminalOf(e) ==
  /\ exec[e].cons \in {"record", "save"} => exec[e].ev = "adapter"
  /\ exec[e].term \in Answers =>
       exec[e].ev = "adapter" /\ att[e].ev = "adapter" /\ prov[e].out = exec[e].term
  /\ att[e].proof \in Answers => att[e].ev = "adapter" /\ prov[e].out = att[e].proof
  /\ prov[e].out \in Answers => Delivered(e)
TerminalIsObserved == \A e \in Epochs : TerminalOf(e)

\* What most steps leave of a worker's report, of the evidence of its attempt and of
\* the answer of its session.
ReportKept(e) ==
  /\ exec'[e].ev = exec[e].ev /\ exec'[e].term = exec[e].term
  /\ exec'[e].cons \in {"record", "save"} => exec[e].cons \in {"record", "save"}
EvidenceKept(e) ==
  /\ att'[e].ev = att[e].ev /\ att'[e].num = att[e].num
  /\ att'[e].proof \in Answers => att'[e].proof = att[e].proof
AnswerKept(e) ==
  /\ prov[e].got # None => prov'[e].got = prov[e].got
  /\ prov[e].out # "none" => prov'[e].out = prov[e].out
  /\ prov'[e].out \in Answers => prov'[e].out = prov[e].out \/ prov'[e].got # None

\* These three are enough.
LEMMA KeptIsObserved ==
  ASSUME NEW e \in Epochs, TerminalOf(e), ReportKept(e), EvidenceKept(e), AnswerKept(e)
  PROVE  TerminalOf(e)'
  BY DEF TerminalOf, ReportKept, EvidenceKept, AnswerKept, Answers, Delivered

\* Once a session has its input, or has answered, it keeps both.
LEMMA AnswersStay ==
  ASSUME IInv, [Next]_vars, NEW f \in Epochs
  PROVE  AnswerKept(f)
<1> USE DEF IInv
<1>0. prov \in [Epochs -> Session] BY DEF TypeOK
<1>1. ASSUME prov'[f] = prov[f] PROVE AnswerKept(f) BY <1>1 DEF AnswerKept
<1>2. ASSUME NEW e \in Epochs, NEW a, prov' = [prov EXCEPT ![e].alive = a] PROVE AnswerKept(f)
  BY <1>0, <1>2 DEF AnswerKept, Session
<1>3. ASSUME NEW n \in Nodes, Crash(n) PROVE AnswerKept(f)
  BY <1>0, <1>3 DEF AnswerKept, Session, Crash
<1>4. ASSUME NEW e \in Epochs, Provider(e) PROVE AnswerKept(f)
  <2>1. CASE ProviderTakes(e)
    <3>1. prov[e].got = None BY <2>1 DEF ProviderTakes
    <3>2. prov' = [prov EXCEPT ![e].got = exec[e].input] BY <2>1 DEF ProviderTakes
    <3> QED BY <1>0, <1>1, <3>1, <3>2 DEF AnswerKept, Session
  <2>2. CASE ProviderFinishes(e)
    BY <1>0, <2>2 DEF AnswerKept, Session, ProviderFinishes, Answers
  <2> QED BY <1>2, <1>4, <2>1, <2>2 DEF Provider, ProviderExits
<1>5. ASSUME NEW e \in Epochs, Worker(e) PROVE AnswerKept(f)
  <2>1. CASE OpenEnds(e)
    <3>1. prov' = [prov EXCEPT ![e].alive = "up"] \/ prov' = prov BY <2>1 DEF OpenEnds
    <3> QED BY <1>1, <1>2, <3>1
  <2>2. prov' = prov \/ OpenEnds(e)
    BY <1>5 DEF Worker, Reserve, Seal, PrepareEnds, PreparationFails, RecordOpen, Begin,
       SubmitReturns, Accept, RecordAcceptance, Observed, FailureClosed, PersistTerminalPart,
       SettleRecords, SettleCompletes, FailError, FailDone, FailCompletes, Complete, FailPreparation,
       CallFails, ReleaseLaunch, ReleaseRuntime
  <2> QED BY <1>1, <2>1, <2>2
<1>6. ASSUME NEW e \in Epochs, Consumer(e) PROVE AnswerKept(f)
  <2>1. CASE ConsumeTerminal(e)
    BY <1>0, <1>1, <2>1 DEF AnswerKept, Session, ConsumeTerminal, Answers
  <2>2. prov' = prov \/ ConsumeTerminal(e)
    BY <1>6 DEF Consumer, ConsumeAcceptance, RecordAcceptance, ConsumeExit, ConsumerAborts,
       ConsumerRecords, ConsumerSaves
  <2> QED BY <1>1, <2>1, <2>2
<1>7. ASSUME NEW e \in Epochs, Mint(e) PROVE AnswerKept(f) BY <1>1, <1>7 DEF Mint
<1>8. ASSUME NEW n \in Nodes, Draining(n) \/ Boot(n) PROVE AnswerKept(f)
  BY <1>1, <1>8 DEF Draining, StartDrain, ClaimNothing, ClaimTurn, DrainReturns, Boot, BootScan,
     BootRecover, BootWake
<1>9. CASE UNCHANGED vars \/ LeaseExpire \/ Posting
  BY <1>1, <1>9 DEF vars, LeaseExpire, Posting, PostBegin, PostCommit, SetConfiguration
<1> QED BY <1>3, <1>4, <1>5, <1>6, <1>7, <1>8, <1>9 DEF Next

\* y has the report of x, or none yet.
SameReport(x, y) ==
  /\ y.ev = x.ev /\ y.term = x.term
  /\ y.cons \in {"record", "save"} => x.cons \in {"record", "save"}

\* A call that returns without a report, or throws, keeps the report.
LEMMA CallKeepsReport ==
  ASSUME TypeOK, NEW e \in Epochs, NEW y, SameReport(exec[e], y),
         Returns(e, y) \/ exec' = [exec EXCEPT ![e] = y] \/ Throw(e)
  PROVE  \A f \in Epochs : ReportKept(f)
<1> DEFINE x == exec[e]
<1>1. exec \in [Epochs -> Execution] /\ x \in Execution BY DEF TypeOK
<1>2. SameReport(x, ThrowFrom(x)) BY <1>1 DEF ThrowFrom, Execution, SameReport
<1>3. PICK z : exec' = [exec EXCEPT ![e] = z] /\ SameReport(x, z)
  BY <1>2 DEF Returns, Throw
<1> QED BY <1>1, <1>3 DEF ReportKept, SameReport

\* A worker changes its report only when it takes the terminal from its reader or
\* appends the terminal part itself.
LEMMA WorkerReports ==
  ASSUME IInv, NEW e \in Epochs, Worker(e), ~PersistTerminalPart(e), ~Observed(e)
  PROVE  \A f \in Epochs : ReportKept(f)
<1> DEFINE x == exec[e]
<1> USE DEF IInv
<1>0. TypeOK /\ x \in Execution BY DEF TypeOK
<1>11. CASE exec' = exec BY <1>11 DEF ReportKept
<1>1. CASE Reserve(e)
  <2> DEFINE y == [x EXCEPT !.pc = "seal", !.gen = TRUE]
  <2>1. SameReport(x, y) BY <1>0 DEF Execution, SameReport
  <2> QED BY <1>0, <1>1, <2>1, CallKeepsReport DEF Reserve
<1>2. CASE Seal(e)
  <2> DEFINE y == [x EXCEPT !.pc = "prepare", !.op = "prepare"]
  <2>1. SameReport(x, y) BY <1>0 DEF Execution, SameReport
  <2> QED BY <1>0, <1>2, <2>1, CallKeepsReport DEF Seal
<1>3. CASE Begin(e)
  <2> DEFINE y == [x EXCEPT !.pc = "submitting", !.call = "flying", !.cons = "read"]
             z == [x EXCEPT !.pc = "fclose", !.cons = "read"]
  <2>1. SameReport(x, y) /\ SameReport(x, z) BY <1>0 DEF Execution, SameReport
  <2>2. Returns(e, y) \/ Returns(e, z) BY <1>3 DEF Begin
  <2> QED BY <1>0, <2>1, <2>2, CallKeepsReport
<1>4. ASSUME NEW pc, Returns(e, [x EXCEPT !.pc = pc]) PROVE \A f \in Epochs : ReportKept(f)
  <2>1. SameReport(x, [x EXCEPT !.pc = pc]) BY <1>0 DEF Execution, SameReport
  <2> QED BY <1>0, <1>4, <2>1, CallKeepsReport
<1>5. CASE RecordOpen(e) \/ Accept(e) \/ SettleRecords(e) \/ SettleCompletes(e)
           \/ FailCompletes(e) \/ FailPreparation(e)
  BY <1>4, <1>5 DEF RecordOpen, Accept, SettleRecords, SettleCompletes, FailCompletes, Complete,
     FailPreparation
<1>12. CASE FailError(e) \/ FailDone(e)
  <2> DEFINE y == [x EXCEPT !.pc = "fdone", !.seq = 1]
             z == [x EXCEPT !.pc = "fcomplete", !.seq = 2]
  <2>1. SameReport(x, y) /\ SameReport(x, z) BY <1>0 DEF Execution, SameReport
  <2>2. Returns(e, y) \/ Returns(e, z) BY <1>12 DEF FailError, FailDone
  <2> QED BY <1>0, <2>1, <2>2, CallKeepsReport
<1>6. CASE PreparationFails(e) \/ CallFails(e)
  <2>1. SameReport(x, x) BY DEF SameReport
  <2> QED BY <1>0, <1>6, <2>1, CallKeepsReport DEF PreparationFails, CallFails
<1>7. CASE PrepareEnds(e) \/ OpenEnds(e)
  <2> DEFINE u == [x EXCEPT !.op = "none"]
             v == [u EXCEPT !.launch = TRUE]
             w == [v EXCEPT !.pc = "open", !.op = "open"]
             r == [u EXCEPT !.pc = "recopen"]
  <2>1. /\ SameReport(x, u) /\ SameReport(x, v) /\ SameReport(x, w) /\ SameReport(x, r)
        /\ SameReport(x, ThrowFrom(u))
    BY <1>0 DEF Execution, SameReport, ThrowFrom
  <2>2. \E y \in {u, v, w, r, ThrowFrom(u)} : exec' = [exec EXCEPT ![e] = y]
    BY <1>7 DEF PrepareEnds, OpenEnds
  <2> HIDE DEF u, v, w, r
  <2> QED BY <1>0, <2>1, <2>2, CallKeepsReport
<1>8. CASE SubmitReturns(e)
  <2>1. ASSUME NEW pc, NEW c, exec' = [exec EXCEPT ![e].pc = pc, ![e].call = c]
        PROVE  \A f \in Epochs : ReportKept(f)
    <3> DEFINE y == [x EXCEPT !.pc = pc, !.call = c]
    <3>1. SameReport(x, y) BY <1>0 DEF Execution, SameReport
    <3>2. exec' = [exec EXCEPT ![e] = y] BY <2>1 DEF TypeOK
    <3> HIDE DEF y
    <3> QED BY <1>0, <3>1, <3>2, CallKeepsReport
  <2> QED BY <1>8, <2>1 DEF SubmitReturns
<1>9. CASE FailureClosed(e)
  <2>1. /\ SameReport(x, [x EXCEPT !.pc = "fparts"])
        /\ SameReport(x, [x EXCEPT !.pc = ToSettle(x), !.caught = TRUE])
    BY <1>0 DEF Execution, SameReport
  <2>2. \/ exec' = [exec EXCEPT ![e] = [x EXCEPT !.pc = "fparts"]]
        \/ exec' = [exec EXCEPT ![e] = [x EXCEPT !.pc = ToSettle(x), !.caught = TRUE]]
    BY <1>9 DEF FailureClosed
  <2> QED BY <1>0, <2>1, <2>2, CallKeepsReport
<1>10. CASE ReleaseLaunch(e) \/ ReleaseRuntime(e)
  <2>1. ASSUME NEW pc, exec' = [exec EXCEPT ![e].pc = pc] PROVE \A f \in Epochs : ReportKept(f)
    <3>1. SameReport(x, [x EXCEPT !.pc = pc]) BY <1>0 DEF Execution, SameReport
    <3> QED BY <1>0, <2>1, <3>1, CallKeepsReport
  <2> QED BY <1>10, <1>11, <2>1 DEF ReleaseLaunch, ReleaseRuntime
<1> QED BY <1>1, <1>2, <1>3, <1>5, <1>6, <1>7, <1>8, <1>9, <1>10, <1>12 DEF Worker

\* A claim starts from an empty report and a crash silences the reader; only the reader
\* itself writes a new one.
LEMMA OtherReports ==
  ASSUME IInv, [Next]_vars, NEW f \in Epochs,
         \A e \in Epochs : ~Worker(e) /\ ~ConsumeTerminal(e) /\ ~ConsumeExit(e) /\ ~ConsumerRecords(e)
  PROVE  ReportKept(f)
<1> USE DEF IInv
<1>0. exec \in [Epochs -> Execution] BY DEF TypeOK
<1>1. ASSUME exec' = exec PROVE ReportKept(f) BY <1>1 DEF ReportKept
<1>2. ASSUME NEW n \in Nodes, Crash(n) PROVE ReportKept(f)
  <2>1. exec[f] \in Execution BY <1>0
  <2>2. exec'[f] = exec[f] \/ exec'[f] = Died(exec[f]) BY <1>2 DEF Crash, Died
  <2>3. SameReport(exec[f], Died(exec[f])) BY <2>1 DEF Died, Execution, SameReport
  <2> QED BY <2>2, <2>3 DEF ReportKept, SameReport
<1>3. ASSUME NEW n \in Nodes, NEW p \in Turns, NEW r \in Turns, ClaimTurn(n, p, r) PROVE ReportKept(f)
  <2> DEFINE e == chat.epoch + 1
             x == [NoExec EXCEPT !.node = n, !.turn = r, !.input = p, !.cfg = ClaimConfiguration(p),
                      !.no = turn'[p].no, !.pc = "reserve"]
  <2>1. e \in Epochs /\ (exec' = exec \/ exec' = [exec EXCEPT ![e] = x]) BY <1>3 DEF ClaimTurn
  <2>2. exec[e] = NoExec BY <2>1 DEF FutureIsEmpty, TypeOK, ChatRow
  <2>3. SameReport(NoExec, x) BY DEF SameReport, NoExec
  <2> HIDE DEF x
  <2> QED BY <1>0, <1>1, <2>1, <2>2, <2>3 DEF ReportKept, SameReport
<1>4. ASSUME NEW n \in Nodes, Draining(n) \/ Boot(n) PROVE ReportKept(f)
  BY <1>1, <1>3, <1>4 DEF Draining, StartDrain, ClaimNothing, DrainReturns, Boot, BootScan,
     BootRecover, BootWake
<1>5. ASSUME NEW e \in Epochs, ConsumeAcceptance(e) \/ ConsumerAborts(e) \/ ConsumerSaves(e)
      PROVE  ReportKept(f)
  <2> DEFINE x == exec[e]
             y == [x EXCEPT !.cons = "done", !.saved = TRUE]
             l(z) == [z EXCEPT !.cons = "failed", !.term = x.term, !.saved = x.saved]
  <2>1. x \in Execution BY <1>0
  <2>2. SameReport(x, x) /\ SameReport(x, y) /\ SameReport(x, l(x)) /\ SameReport(x, l(y))
        /\ SameReport(x, [x EXCEPT !.cons = "failed"])
    BY <2>1 DEF Execution, SameReport
  <2>3. \E z \in {x, y, l(x), l(y), [x EXCEPT !.cons = "failed"]} : exec' = [exec EXCEPT ![e] = z]
    BY <1>0, <1>5 DEF ConsumeAcceptance, ConsumerAborts, ConsumerSaves, ConsumerReturns, ConsumerFails
  <2> HIDE DEF y, l
  <2> QED BY <2>2, <2>3, CallKeepsReport
<1>6. ASSUME NEW e \in Epochs, Mint(e) \/ Provider(e) PROVE ReportKept(f)
  BY <1>1, <1>6 DEF Mint, Provider, ProviderTakes, ProviderFinishes, ProviderExits
<1>7. CASE UNCHANGED vars \/ LeaseExpire \/ Posting
  BY <1>1, <1>7 DEF vars, LeaseExpire, Posting, PostBegin, PostCommit, SetConfiguration
<1> QED BY <1>2, <1>4, <1>5, <1>6, <1>7 DEF Next, Consumer

\* Only a worker and its reader write the evidence of an attempt.
LEMMA EvidenceStays ==
  ASSUME IInv, [Next]_vars, NEW f \in Epochs,
         ~Seal(f), ~ConsumerRecords(f), ~SettleRecords(f), ~SettleCompletes(f)
  PROVE  EvidenceKept(f)
<1> USE DEF IInv
<1>0. att \in [Epochs -> AttemptRow] BY DEF TypeOK
<1>1. ASSUME att'[f] = att[f] PROVE EvidenceKept(f) BY <1>1 DEF EvidenceKept
<1>2. ASSUME NEW s \in Epochs, NEW ph, NEW o, NEW b,
             o \notin Answers,
             \/ att' = [att EXCEPT ![s].phase = ph] \/ att' = [att EXCEPT ![s].opened = b]
             \/ att' = [att EXCEPT ![s].phase = ph, ![s].begun = b]
             \/ att' = [att EXCEPT ![s].phase = ph, ![s].proof = o]
      PROVE  EvidenceKept(f)
  BY <1>0, <1>2 DEF EvidenceKept, AttemptRow
<1>3. {"lost", "not_sent"} \cap Answers = {} BY DEF Answers
<1>4. ASSUME NEW e \in Epochs, Worker(e) PROVE EvidenceKept(f)
  <2>1. CASE f # e /\ (Seal(e) \/ SettleRecords(e) \/ SettleCompletes(e))
    <3>1. att'[f] = att[f]
      BY <1>0, <2>1 DEF Seal, SettleRecords, RecordTerminal, SettleCompletes, Complete
    <3> QED BY <1>1, <3>1
  <2>2. CASE RecordOpen(e) \/ Begin(e) \/ Accept(e) \/ FailCompletes(e)
    <3>1. CASE RecordOpen(e) BY <1>2, <1>3, <3>1 DEF RecordOpen
    <3>2. CASE Begin(e) BY <1>2, <1>3, <3>2 DEF Begin
    <3>3. CASE Accept(e) BY <1>2, <1>3, <3>3 DEF Accept, RecordAcceptance
    <3>4. CASE FailCompletes(e) BY <1>2, <1>3, <3>4 DEF FailCompletes, Complete
    <3> QED BY <2>2, <3>1, <3>2, <3>3, <3>4
  <2>3. CASE FailPreparation(e)
    <3> DEFINE s == turn[exec[e].turn].snap
    <3>1. s = 0 \/ s = e BY <2>3, OwnedFacts DEF FailPreparation, CanFailPreparation
    <3>2. s = 0 => att' = att BY <2>3 DEF FailPreparation
    <3>3. s # 0 => att' = [att EXCEPT ![s].phase = "settled", ![s].proof = "not_sent"]
      BY <2>3 DEF FailPreparation
    <3> HIDE DEF s
    <3> QED BY <1>1, <1>2, <1>3, <3>1, <3>2, <3>3
  <2>4. CASE att' = att BY <1>1, <2>4
  <2>5. \/ Seal(e) \/ SettleRecords(e) \/ SettleCompletes(e) \/ RecordOpen(e) \/ Begin(e)
        \/ Accept(e) \/ FailCompletes(e) \/ FailPreparation(e) \/ att' = att
    BY <1>4 DEF Worker, Reserve, PrepareEnds, OpenEnds, PreparationFails, SubmitReturns, Observed,
       FailureClosed, PersistTerminalPart, FailError, FailDone, CallFails, ReleaseLaunch, ReleaseRuntime, db
  <2> QED BY <2>1, <2>2, <2>3, <2>4, <2>5
<1>5. ASSUME NEW n \in Nodes, BootRecover(n) PROVE EvidenceKept(f)
  <2> DEFINE t == node[n].row
             s == turn[t].snap
  <2>1. t \in Turns BY <1>5 DEF BootRecover, RecoveryHasRow
  <2>2. s = 0 \/ s \in Epochs BY <2>1 DEF SnapshotIsCurrent
  <2>3. \/ att' = att
        \/ s # 0 /\ att' = [att EXCEPT ![s].phase = "settled", ![s].proof = "not_sent"]
        \/ s # 0 /\ att' = [att EXCEPT ![s].phase = "settled"]
        \/ s # 0 /\ att' = [att EXCEPT ![s].phase = "delivery_unknown"]
    BY <1>5 DEF BootRecover, Recover, ReleaseSettled, RetryPrepared, FinalizeTerminal, SettleUnknown,
       HasTerminal, db
  <2> HIDE DEF s
  <2> QED BY <1>1, <1>2, <1>3, <2>2, <2>3
<1>6. ASSUME NEW e \in Epochs, Consumer(e) PROVE EvidenceKept(f)
  <2>1. CASE f # e /\ ConsumerRecords(e)
    <3>1. att'[f] = att[f] BY <1>0, <2>1 DEF ConsumerRecords, RecordTerminal
    <3> QED BY <1>1, <3>1
  <2>2. CASE ConsumeAcceptance(e)
    BY <1>2, <1>3, <2>2 DEF ConsumeAcceptance, RecordAcceptance
  <2>3. ConsumerRecords(e) \/ ConsumeAcceptance(e) \/ att' = att
    BY <1>6 DEF Consumer, ConsumeTerminal, ConsumeExit, ConsumerAborts, ConsumerSaves, db
  <2> QED BY <1>1, <2>1, <2>2, <2>3
<1>7. ASSUME NEW e \in Epochs, Mint(e) \/ Provider(e) PROVE EvidenceKept(f)
  BY <1>1, <1>7 DEF Mint, Provider, ProviderTakes, ProviderFinishes, ProviderExits, db
<1>8. ASSUME NEW n \in Nodes, Draining(n) \/ BootScan(n) \/ BootWake(n) \/ Crash(n)
      PROVE  EvidenceKept(f)
  BY <1>1, <1>8 DEF Draining, StartDrain, ClaimNothing, ClaimTurn, DrainReturns, BootScan, BootWake,
     Crash, db
<1>9. CASE UNCHANGED vars \/ LeaseExpire \/ Posting
  BY <1>1, <1>9 DEF vars, LeaseExpire, Posting, PostBegin, PostCommit, SetConfiguration
<1> QED BY <1>4, <1>5, <1>6, <1>7, <1>8, <1>9 DEF Next, Boot

\* Every step keeps the observation.
LEMMA ObservedStep ==
  ASSUME IInv, TerminalIsObserved, [Next]_vars
  PROVE  TerminalIsObserved'
<1> SUFFICES ASSUME NEW e \in Epochs PROVE TerminalOf(e)' BY DEF TerminalIsObserved
<1>1. TerminalOf(e) BY DEF TerminalIsObserved
<1>2. AnswerKept(e) BY AnswersStay
<1>3. /\ exec \in [Epochs -> Execution] /\ exec[e] \in Execution
      /\ att \in [Epochs -> AttemptRow] /\ att[e] \in AttemptRow
  BY DEF IInv, TypeOK
<1>4. "lost" \notin Answers /\ "none" \notin Answers BY DEF Answers
<1>5. CASE PersistTerminalPart(e)
  <2> DEFINE x == exec[e]
             y == [x EXCEPT !.pc = "sterm", !.ev = IF x.ev = "none" THEN "server" ELSE x.ev,
                            !.saved = TRUE]
  <2>1. att' = att /\ x.pc = "sdone" /\ Returns(e, y) BY <1>5 DEF PersistTerminalPart
  <2>2. CASE Throw(e)
    <3>1. ReportKept(e) BY <2>2, CallKeepsReport DEF IInv, SameReport
    <3> QED BY <1>1, <1>2, <2>1, <3>1, KeptIsObserved DEF EvidenceKept
  <2>3. CASE exec' = [exec EXCEPT ![e] = y]
    <3>1. y.term = x.term /\ y.cons = x.cons /\ (x.ev # "none" => y.ev = x.ev) BY <1>3 DEF Execution
    <3>2. exec'[e] = y BY <1>3, <2>3
    <3>3. x.ev = "none" => x.term \notin Answers /\ x.cons \notin {"record", "save"}
      BY <1>1 DEF TerminalOf
    <3>4. CASE x.ev = "none" BY <1>1, <1>2, <2>1, <3>1, <3>2, <3>3, <3>4 DEF TerminalOf, AnswerKept, Answers, Delivered
    <3>5. CASE x.ev # "none"
      <4>1. ReportKept(e) BY <3>1, <3>2, <3>5 DEF ReportKept
      <4> QED BY <1>1, <1>2, <2>1, <4>1, KeptIsObserved DEF EvidenceKept
    <3> QED BY <3>4, <3>5
  <2> QED BY <2>1, <2>2, <2>3 DEF Returns
<1>6. CASE Observed(e)
  <2> DEFINE x == exec[e]
             y == [x EXCEPT !.pc = ToSettle(x), !.term = IF x.term = "none" THEN "lost" ELSE x.term]
  <2>1. att' = att BY <1>6 DEF Observed, db
  <2>2. CASE Throw(e)
    <3>1. ReportKept(e) BY <2>2, CallKeepsReport DEF IInv, SameReport
    <3> QED BY <1>1, <1>2, <2>1, <3>1, KeptIsObserved DEF EvidenceKept
  <2>3. CASE exec' = [exec EXCEPT ![e] = y]
    <3>1. y.ev = x.ev /\ y.cons = x.cons /\ (y.term = x.term \/ y.term = "lost") BY <1>3 DEF Execution
    <3>2. exec'[e] = y BY <1>3, <2>3
    <3> HIDE DEF y
    <3> QED BY <1>1, <1>2, <1>4, <2>1, <3>1, <3>2 DEF TerminalOf, AnswerKept, Answers, Delivered
  <2> QED BY <1>6, <2>2, <2>3 DEF Observed, Throw
<1>7. CASE ConsumeTerminal(e)
  <2>1. att' = att BY <1>7 DEF ConsumeTerminal, db
  <2>2. /\ exec'[e].ev = "adapter" /\ exec'[e].term = exec[e].term
    BY <1>3, <1>7 DEF ConsumeTerminal, Execution
  <2> QED BY <1>1, <1>2, <2>1, <2>2 DEF TerminalOf, AnswerKept, Answers, Delivered
<1>8. CASE ConsumeExit(e)
  <2>1. att' = att BY <1>8 DEF ConsumeExit, db
  <2>2. exec'[e].ev = exec[e].ev /\ exec'[e].term = "lost" /\ exec'[e].cons = "done"
    BY <1>3, <1>8 DEF ConsumeExit, Execution
  <2> QED BY <1>1, <1>2, <1>4, <2>1, <2>2 DEF TerminalOf, AnswerKept, Answers, Delivered
<1>9. CASE ConsumerRecords(e)
  <2> DEFINE x == exec[e]
             y == [x EXCEPT !.cons = "save", !.term = prov[e].out]
             l == [y EXCEPT !.cons = "failed", !.term = x.term, !.saved = x.saved]
             z == [x EXCEPT !.cons = "failed"]
  <2>1. x.ev = "adapter" BY <1>1, <1>9 DEF ConsumerRecords, TerminalOf
  <2>2. prov' = prov BY <1>9 DEF ConsumerRecords
  <2>3. att' = att \/ (att'[e].ev = "adapter" /\ att'[e].proof = prov[e].out)
    BY <1>3, <1>9, <2>1 DEF ConsumerRecords, RecordTerminal, AttemptRow
  <2>4. /\ y.ev = x.ev /\ y.term = prov[e].out
        /\ l.ev = x.ev /\ l.term = x.term /\ z.ev = x.ev /\ z.term = x.term
    BY <1>3 DEF Execution
  <2>5. \/ exec' = [exec EXCEPT ![e] = y] /\ att'[e].ev = "adapter"
        \/ exec' = [exec EXCEPT ![e] = l] \/ exec' = [exec EXCEPT ![e] = z]
    BY <1>3, <1>9, <2>1 DEF ConsumerRecords, RecordTerminal, AttemptRow, ConsumerReturns, ConsumerFails
  <2> HIDE DEF y, l, z
  <2>6. \/ exec'[e] = y /\ att'[e].ev = "adapter"
        \/ exec'[e] = l \/ exec'[e] = z
    BY <1>3, <2>5
  <2> QED BY <1>1, <2>1, <2>2, <2>3, <2>4, <2>6 DEF TerminalOf, Delivered
<1>10. CASE Seal(e)
  <2>1. ReportKept(e) BY <1>10, WorkerReports DEF Worker, Seal, PersistTerminalPart, Observed
  <2>2. att'[e].ev = "none" /\ att'[e].proof = "none" BY <1>3, <1>10 DEF Seal, NoAttempt
  <2>3. prov' = prov BY <1>10 DEF Seal
  <2>4. ~att[e].begun
    <3>1. att[e].turn = exec[e].turn => att[e].no # exec[e].no BY <1>10 DEF Seal, CanSeal
    <3>2. att[e].phase = "none" BY <3>1 DEF IInv, AttemptMatches
    <3> QED BY <3>2 DEF IInv, AttemptPhase
  <2>5. ~Delivered(e) BY <2>4, DeliveredFacts
  <2>6. exec[e].term \notin Answers BY <1>1, <2>5 DEF TerminalOf
  <2> QED BY <1>1, <1>4, <2>1, <2>2, <2>3, <2>6 DEF TerminalOf, ReportKept, Delivered
<1>11. CASE SettleRecords(e) \/ SettleCompletes(e)
  <2>1. ReportKept(e)
    BY <1>11, WorkerReports DEF Worker, SettleRecords, SettleCompletes, PersistTerminalPart, Observed
  <2>2. /\ att'[e].proof = exec[e].term
        /\ att'[e].ev \in {att[e].ev, exec[e].ev}
    BY <1>3, <1>11 DEF SettleRecords, RecordTerminal, SettleCompletes, Complete, AttemptRow
  <2>3. prov' = prov BY <1>11 DEF SettleRecords, SettleCompletes, Complete
  <2> QED BY <1>1, <2>1, <2>2, <2>3 DEF TerminalOf, ReportKept, Delivered
<1>12. CASE ~(\/ PersistTerminalPart(e) \/ Observed(e) \/ ConsumeTerminal(e) \/ ConsumeExit(e)
              \/ ConsumerRecords(e) \/ Seal(e) \/ SettleRecords(e) \/ SettleCompletes(e))
  <2>1. EvidenceKept(e) BY <1>12, EvidenceStays
  <2>2. ReportKept(e)
    <3>1. ASSUME NEW g \in Epochs, g # e, exec' = [exec EXCEPT ![g] = exec'[g]] PROVE ReportKept(e)
      BY <1>3, <3>1 DEF ReportKept
    <3>2. ASSUME NEW g \in Epochs, PersistTerminalPart(g) \/ Observed(g) PROVE ReportKept(e)
      BY <1>3, <1>12, <3>1, <3>2 DEF PersistTerminalPart, Observed, Returns, Throw
    <3>3. ASSUME NEW g \in Epochs, ConsumeTerminal(g) \/ ConsumeExit(g) \/ ConsumerRecords(g)
          PROVE  ReportKept(e)
      BY <1>3, <1>12, <3>1, <3>3 DEF ConsumeTerminal, ConsumeExit, ConsumerRecords, ConsumerReturns,
         ConsumerFails
    <3> QED BY <3>2, <3>3, WorkerReports, OtherReports
  <2> QED BY <1>1, <1>2, <2>1, <2>2, KeptIsObserved
<1> QED BY <1>5, <1>6, <1>7, <1>8, <1>9, <1>10, <1>11, <1>12

-----------------------------------------------------------------------------

\* Parts are only added to a message.
LEMMA PartsStay ==
  ASSUME IInv, [Next]_vars, NEW t \in Turns
  PROVE  parts[t] \subseteq parts'[t]
<1> USE DEF IInv
<1>1. ASSUME NEW u \in Turns, NEW p, parts' = [parts EXCEPT ![u] = @ \cup p] PROVE parts[t] \subseteq parts'[t]
  BY <1>1 DEF TypeOK
<1>2. ASSUME NEW e \in Epochs, Worker(e) PROVE parts[t] \subseteq parts'[t]
  <2>1. CASE PersistTerminalPart(e) \/ FailError(e) \/ FailDone(e)
    <3>1. exec[e].turn \in Turns BY <2>1, Started DEF PersistTerminalPart, FailError, FailDone
    <3> QED BY <1>1, <2>1, <3>1 DEF PersistTerminalPart, FailError, FailDone, Append
  <2>2. CASE ~(PersistTerminalPart(e) \/ FailError(e) \/ FailDone(e))
    <3>1. parts' = parts
      BY <1>2, <2>2 DEF Worker, Reserve, Seal, PrepareEnds, OpenEnds, PreparationFails, RecordOpen,
         Begin, SubmitReturns, Accept, RecordAcceptance, Observed, FailureClosed, SettleRecords,
         SettleCompletes, FailCompletes, Complete, FailPreparation, CallFails, ReleaseLaunch,
         ReleaseRuntime, db
    <3> QED BY <3>1
  <2> QED BY <2>1, <2>2
<1>3. ASSUME NEW e \in Epochs, Consumer(e) PROVE parts[t] \subseteq parts'[t]
  <2>1. CASE ConsumerSaves(e) /\ CanSave(e)
    <3>1. exec[e].turn \in Turns BY <2>1, Started DEF ConsumerSaves
    <3> QED BY <1>1, <2>1, <3>1 DEF ConsumerSaves, Append
  <2>2. CASE ~(ConsumerSaves(e) /\ CanSave(e))
    <3>1. parts' = parts
      BY <1>3, <2>2 DEF Consumer, ConsumeAcceptance, RecordAcceptance, ConsumeTerminal, ConsumeExit,
         ConsumerAborts, ConsumerRecords, ConsumerSaves, db
    <3> QED BY <3>1
  <2> QED BY <2>1, <2>2
<1>4. ASSUME NEW n \in Nodes, BootRecover(n) PROVE parts[t] \subseteq parts'[t]
  <2>1. node[n].row \in Turns BY <1>4 DEF BootRecover, RecoveryHasRow
  <2>2. CASE FinalizeTerminal(node[n].row) BY <1>1, <2>1, <2>2 DEF FinalizeTerminal
  <2>3. parts' = parts \/ FinalizeTerminal(node[n].row)
    BY <1>4 DEF BootRecover, Recover, ReleaseSettled, RetryPrepared, SettleUnknown, db
  <2> QED BY <2>2, <2>3
<1>5. ASSUME NEW e \in Epochs, Mint(e) \/ Provider(e) PROVE parts' = parts
  BY <1>5 DEF Mint, Provider, ProviderTakes, ProviderFinishes, ProviderExits, db
<1>6. ASSUME NEW n \in Nodes, Draining(n) \/ BootScan(n) \/ BootWake(n) \/ Crash(n) PROVE parts' = parts
  BY <1>6 DEF Draining, StartDrain, ClaimNothing, ClaimTurn, DrainReturns, BootScan, BootWake, Crash, db
<1>7. CASE UNCHANGED vars \/ LeaseExpire \/ Posting
  <2>1. parts' = parts
    BY <1>7 DEF vars, LeaseExpire, Posting, PostBegin, PostCommit, SetConfiguration
  <2> QED BY <2>1
<1> QED BY <1>2, <1>3, <1>4, <1>5, <1>6, <1>7 DEF Next, Boot

\* Nobody writes to the attempt of a settled turn.
LEMMA SettledAttemptStays ==
  ASSUME IInv, [Next]_vars, NEW e \in Epochs, att[e].begun, turn[att[e].turn].st # "running"
  PROVE  att'[e] = att[e]
<1> USE DEF IInv
<1>0. att \in [Epochs -> AttemptRow] BY DEF TypeOK
<1>1. att[e].phase # "none" BY DEF AttemptPhase
<1>2. /\ att[e].turn \in Turns /\ att[e].turn = exec[e].turn /\ att[e].no = exec[e].no
  BY <1>1 DEF AttemptMatches
<1>3. ~(exec[e].pc # "none" /\ Owned(e)) BY <1>2, OwnedFacts
<1>4. ASSUME NEW f \in Epochs, Worker(f) PROVE att'[e] = att[e]
  <2>1. CASE Seal(f) \/ RecordOpen(f) \/ Begin(f) \/ Accept(f) \/ SettleRecords(f)
    <3>1. exec[f].pc # "none" /\ Owned(f)
      BY <2>1 DEF Seal, CanSeal, RecordOpen, CanRecordOpen, Begin, CanBegin, Accept, RecordAcceptance,
                  CanAccept, SettleRecords, CanRecord
    <3>2. \A g \in Epochs : g # f => att'[g] = att[g]
      BY <1>0, <2>1 DEF Seal, RecordOpen, Begin, Accept, RecordAcceptance, SettleRecords, RecordTerminal
    <3> QED BY <1>3, <3>1, <3>2
  <2>2. CASE SettleCompletes(f) \/ FailCompletes(f) \/ FailPreparation(f)
    <3>1. exec[f].pc # "none" /\ Owned(f)
      BY <2>2 DEF SettleCompletes, FailCompletes, Complete, CanComplete, FailPreparation,
                  CanFailPreparation
    <3>2. turn[exec[f].turn].snap \in {0, f} BY <3>1, OwnedFacts
    <3>3. \A g \in Epochs : g # f => att'[g] = att[g]
      BY <1>0, <2>2, <3>2 DEF SettleCompletes, FailCompletes, Complete, FailPreparation
    <3> QED BY <1>3, <3>1, <3>3
  <2>3. CASE ~(\/ Seal(f) \/ RecordOpen(f) \/ Begin(f) \/ Accept(f) \/ SettleRecords(f)
               \/ SettleCompletes(f) \/ FailCompletes(f) \/ FailPreparation(f))
    BY <1>4, <2>3 DEF Worker, Reserve, PrepareEnds, OpenEnds, PreparationFails, SubmitReturns,
       Observed, FailureClosed, PersistTerminalPart, FailError, FailDone, CallFails, ReleaseLaunch,
       ReleaseRuntime, db
  <2> QED BY <2>1, <2>2, <2>3
<1>5. ASSUME NEW f \in Epochs, Consumer(f) PROVE att'[e] = att[e]
  <2>1. CASE ConsumeAcceptance(f) \/ (ConsumerRecords(f) /\ CanRecord(f))
    <3>1. exec[f].pc # "none" /\ Owned(f)
      BY <2>1, Started DEF ConsumeAcceptance, RecordAcceptance, CanAccept, ConsumerRecords, CanRecord
    <3>2. \A g \in Epochs : g # f => att'[g] = att[g]
      BY <1>0, <2>1 DEF ConsumeAcceptance, RecordAcceptance, ConsumerRecords, RecordTerminal
    <3> QED BY <1>3, <3>1, <3>2
  <2>2. CASE ~(ConsumeAcceptance(f) \/ (ConsumerRecords(f) /\ CanRecord(f)))
    BY <1>5, <2>2 DEF Consumer, ConsumeTerminal, ConsumeExit, ConsumerAborts, ConsumerRecords,
       ConsumerSaves, db
  <2> QED BY <2>1, <2>2
<1>6. ASSUME NEW n \in Nodes, BootRecover(n) PROVE att'[e] = att[e]
  <2> DEFINE t == node[n].row
             s == turn[t].snap
  <2>1. t \in Turns BY <1>6 DEF BootRecover, RecoveryHasRow
  <2>2. \/ att' = att
        \/ turn[t].st = "running" /\ s # 0 /\ \A g \in Epochs : g # s => att'[g] = att[g]
    BY <1>0, <1>6 DEF BootRecover, Recover, ReleaseSettled, RetryPrepared, FinalizeTerminal,
       SettleUnknown, HasTerminal, Dispatched, db
  <2>3. s # 0 => att[s].turn = t BY <2>1 DEF SnapshotIsCurrent
  <2> QED BY <2>2, <2>3
<1>7. ASSUME NEW f \in Epochs, Mint(f) \/ Provider(f) PROVE att' = att
  BY <1>7 DEF Mint, Provider, ProviderTakes, ProviderFinishes, ProviderExits, db
<1>8. ASSUME NEW n \in Nodes, Draining(n) \/ BootScan(n) \/ BootWake(n) \/ Crash(n) PROVE att' = att
  BY <1>8 DEF Draining, StartDrain, ClaimNothing, ClaimTurn, DrainReturns, BootScan, BootWake, Crash, db
<1>9. CASE UNCHANGED vars \/ LeaseExpire \/ Posting
  BY <1>9 DEF vars, LeaseExpire, Posting, PostBegin, PostCommit, SetConfiguration
<1> QED BY <1>4, <1>5, <1>6, <1>7, <1>8, <1>9 DEF Next, Boot

\* A turn is completed by its worker, on a terminal it has recorded, or by the recovery,
\* on one the worker left.
LEMMA Completions ==
  ASSUME IInv, [Next]_vars, NEW t \in Turns, turn'[t].st = "completed", turn[t].st # "completed"
  PROVE  \/ \E e \in Epochs : SettleCompletes(e) /\ exec[e].turn = t /\ exec[e].term = "completed"
         \/ /\ FinalizeTerminal(t) /\ att[turn[t].snap].proof = "completed"
            /\ exec' = exec /\ prov' = prov
<1> USE DEF IInv
<1>0. turn \in [Turns -> TurnRow] BY DEF TypeOK
<1>1. ASSUME turn' = turn PROVE FALSE BY <1>1
<1>2. ASSUME NEW u \in Turns, NEW st, st # "completed", turn' = [turn EXCEPT ![u].st = st] PROVE FALSE
  BY <1>0, <1>2 DEF TurnRow
<1>3. ASSUME NEW u \in Turns, NEW i, turn' = [turn EXCEPT ![u].snap = i] PROVE FALSE
  BY <1>0, <1>3 DEF TurnRow
<1>4. ASSUME NEW e \in Epochs, Worker(e)
      PROVE  SettleCompletes(e) /\ exec[e].turn = t /\ exec[e].term = "completed"
  <2>1. CASE Seal(e)
    <3>1. exec[e].turn \in Turns BY <2>1, Started DEF Seal
    <3> QED BY <1>3, <2>1, <3>1 DEF Seal
  <2>2. CASE FailCompletes(e) \/ FailPreparation(e)
    <3>1. exec[e].turn \in Turns BY <2>2, Started DEF FailCompletes, FailPreparation
    <3> QED BY <1>2, <2>2, <3>1 DEF FailCompletes, Complete, FailPreparation
  <2>3. CASE SettleCompletes(e)
    <3>1. exec[e].turn \in Turns BY <2>3, Started DEF SettleCompletes
    <3>2. CASE exec[e].term # "completed" BY <1>2, <2>3, <3>1, <3>2 DEF SettleCompletes, Complete
    <3>3. CASE exec[e].turn # t BY <1>0, <2>3, <3>1, <3>3 DEF SettleCompletes, Complete
    <3> QED BY <2>3, <3>2, <3>3
  <2>4. CASE ~(Seal(e) \/ FailCompletes(e) \/ FailPreparation(e) \/ SettleCompletes(e))
    <3>1. turn' = turn
      BY <1>4, <2>4 DEF Worker, Reserve, PrepareEnds, OpenEnds, PreparationFails, RecordOpen, Begin,
         SubmitReturns, Accept, RecordAcceptance, Observed, FailureClosed, PersistTerminalPart,
         SettleRecords, FailError, FailDone, CallFails, ReleaseLaunch, ReleaseRuntime, db
    <3> QED BY <1>1, <3>1
  <2> QED BY <2>1, <2>2, <2>3, <2>4
<1>5. ASSUME NEW n \in Nodes, BootRecover(n)
      PROVE  /\ FinalizeTerminal(t) /\ att[turn[t].snap].proof = "completed"
             /\ exec' = exec /\ prov' = prov
  <2> DEFINE u == node[n].row
  <2>1. u \in Turns BY <1>5 DEF BootRecover, RecoveryHasRow
  <2>2. CASE FinalizeTerminal(u)
    <3>1. CASE u # t BY <1>0, <2>1, <2>2, <3>1 DEF FinalizeTerminal
    <3>2. CASE att[turn[u].snap].proof # "completed" BY <1>2, <2>1, <2>2, <3>2 DEF FinalizeTerminal
    <3> QED BY <1>5, <2>2, <3>1, <3>2 DEF BootRecover
  <2>3. CASE RetryPrepared(u) BY <1>0, <2>1, <2>3 DEF RetryPrepared, TurnRow
  <2>4. CASE SettleUnknown(u) BY <1>2, <2>1, <2>4 DEF SettleUnknown
  <2>5. turn' = turn \/ FinalizeTerminal(u) \/ RetryPrepared(u) \/ SettleUnknown(u)
    BY <1>5 DEF BootRecover, Recover, ReleaseSettled, db
  <2> QED BY <1>1, <2>2, <2>3, <2>4, <2>5
<1>6. ASSUME NEW e \in Epochs, Mint(e) \/ Provider(e) \/ Consumer(e) PROVE turn' = turn
  BY <1>6 DEF Mint, Provider, ProviderTakes, ProviderFinishes, ProviderExits, Consumer,
     ConsumeAcceptance, RecordAcceptance, ConsumeTerminal, ConsumeExit, ConsumerAborts,
     ConsumerRecords, ConsumerSaves, db
<1>7. ASSUME NEW n \in Nodes, NEW p \in Turns, NEW r \in Turns, ClaimTurn(n, p, r) PROVE FALSE
  <2>1. turn'[t].st \in {turn[t].st, "running"} BY <1>0, <1>7 DEF ClaimTurn, TurnRow
  <2> QED BY <2>1
<1>8. ASSUME NEW n \in Nodes, StartDrain(n) \/ ClaimNothing(n) \/ (\E e \in Epochs : DrainReturns(n, e))
               \/ BootScan(n) \/ BootWake(n) \/ Crash(n)
      PROVE  turn' = turn
  BY <1>8 DEF StartDrain, ClaimNothing, DrainReturns, BootScan, BootWake, Crash, db
<1>9. ASSUME NEW u \in Turns, PostBegin(u) \/ \E n \in Nodes : PostCommit(u, n) PROVE FALSE
  <2>1. turn'[t].st \in {turn[t].st, "posting", "queued"}
    BY <1>0, <1>9 DEF PostBegin, PostCommit, TurnRow
  <2> QED BY <2>1
<1>10. CASE UNCHANGED vars \/ LeaseExpire \/ SetConfiguration
  BY <1>1, <1>10 DEF vars, LeaseExpire, SetConfiguration
<1> QED BY <1>1, <1>4, <1>5, <1>6, <1>7, <1>8, <1>9, <1>10 DEF Next, Boot, Draining, Posting

\* What a turn is completed with does not go away.
LEMMA CompletedStep ==
  ASSUME IInv, TerminalIsObserved, CompletedIsProved, [Next]_vars
  PROVE  CompletedIsProved'
<1> DEFINE Proved(t, s) ==
             /\ s # 0 /\ att[s].turn = t /\ att[s].proof = "completed"
             /\ prov[s].got = t /\ prov[s].out = "completed" /\ <<s, "adapter">> \in parts[t]
<1> SUFFICES ASSUME NEW t \in Turns, turn'[t].st = "completed" PROVE Proved(t, turn[t].snap)' 
  BY DEF CompletedIsProved
<1>0. t # None BY NoneAssumption
<1>1. turn[t].snap # 0 => turn[t].snap \in Epochs /\ att[turn[t].snap].turn = t
  BY DEF IInv, SnapshotIsCurrent
<1>2. CASE turn[t].st = "completed"
  <2> DEFINE s == turn[t].snap
  <2>1. Proved(t, s) BY <1>2 DEF CompletedIsProved
  <2>2. s \in Epochs /\ Delivered(s) BY <1>0, <1>1, <2>1 DEF Delivered
  <2>3. att[s].begun BY <2>2, DeliveredFacts
  <2>4. att'[s] = att[s] BY <1>2, <2>1, <2>2, <2>3, SettledAttemptStays
  <2>5. turn'[t] = turn[t] BY <1>2, Writes DEF WritesNothing, WritesPosted, WritesRunning, Settled
  <2>6. prov'[s].got = t /\ prov'[s].out = "completed"
    BY <1>0, <2>1, <2>2, AnswersStay DEF AnswerKept
  <2>7. <<s, "adapter">> \in parts'[t] BY <2>1, PartsStay
  <2> QED BY <2>1, <2>4, <2>5, <2>6, <2>7
<1>3. ASSUME NEW e \in Epochs, SettleCompletes(e), exec[e].turn = t, exec[e].term = "completed"
      PROVE  Proved(t, turn[t].snap)'
  <2>1. turn[t].snap = e /\ HasPart(e, exec[e].ev) BY <1>3 DEF SettleCompletes, Complete, CanComplete
  <2>2. turn'[t].snap = e
    BY <1>3, <2>1 DEF SettleCompletes, Complete, IInv, TypeOK, TurnRow
  <2>3. exec[e].ev = "adapter" /\ prov[e].out = "completed" /\ Delivered(e)
    BY <1>3 DEF TerminalIsObserved, TerminalOf, Answers
  <2>4. e # 0 /\ att[e].turn = t BY <1>1, <2>1 DEF Epochs
  <2>5. prov[e].got = t BY <2>3, <2>4, DeliveredFacts
  <2>6. att'[e].turn = t /\ att'[e].proof = "completed"
    BY <1>3, <2>4 DEF SettleCompletes, Complete, IInv, TypeOK, AttemptRow
  <2>7. prov' = prov /\ parts' = parts BY <1>3 DEF SettleCompletes, Complete
  <2> QED BY <1>3, <2>1, <2>2, <2>3, <2>4, <2>5, <2>6, <2>7 DEF HasPart
<1>4. ASSUME FinalizeTerminal(t), att[turn[t].snap].proof = "completed", prov' = prov
      PROVE  Proved(t, turn[t].snap)'
  <2> DEFINE s == turn[t].snap
  <2>1. s \in Epochs /\ s # 0 /\ att[s].turn = t BY <1>1, <1>4 DEF FinalizeTerminal, HasTerminal
  <2>2. att[s].ev = "adapter" /\ prov[s].out = "completed" /\ Delivered(s)
    BY <1>4, <2>1 DEF TerminalIsObserved, TerminalOf, Answers
  <2>3. prov[s].got = t BY <2>1, <2>2, DeliveredFacts
  <2>4. turn'[t].snap = s BY <1>4 DEF FinalizeTerminal, IInv, TypeOK, TurnRow
  <2>5. att'[s].turn = t /\ att'[s].proof = "completed"
    BY <1>4, <2>1 DEF FinalizeTerminal, IInv, TypeOK, AttemptRow
  <2>6. <<s, "adapter">> \in parts'[t] BY <1>4, <2>2 DEF FinalizeTerminal, IInv, TypeOK
  <2> HIDE DEF s
  <2> QED BY <1>4, <2>1, <2>2, <2>3, <2>4, <2>5, <2>6
<1> QED BY <1>2, <1>3, <1>4, Completions

\* The records agree with what the adapters saw, and completed turns with the records.
LEMMA ObservationInvariant == Spec => [](IInv /\ TerminalIsObserved /\ CompletedIsProved)
<1>1. Init => TerminalIsObserved /\ CompletedIsProved
  BY DEF Init, TerminalIsObserved, TerminalOf, CompletedIsProved, NoExec, NoAttempt, NoSession, Answers
<1>2. IInv /\ TerminalIsObserved /\ CompletedIsProved /\ [Next]_vars
        => TerminalIsObserved' /\ CompletedIsProved'
  BY ObservedStep, CompletedStep
<1> QED BY <1>1, <1>2, Invariance, PTL DEF Spec

\* A turn completed by its worker or by the recovery was completed by the provider that
\* received its input, and the adapter's terminal part is in its message.
THEOREM CompletionIsProved == Spec => []CompletedIsProved
BY ObservationInvariant, PTL

-----------------------------------------------------------------------------
(***************************************************************************)
(* The rows, workers and recoveries implement what a chat promises: every   *)
(* step is a step of ChatTurns or leaves what the user sees as it was.      *)
(***************************************************************************)

\* What a turn shows, its place in the order, the barrier of an attempt and the input
\* of a session.
SameTurn(t)    == turn'[t].st = turn[t].st /\ turn'[t].ord = turn[t].ord
SameBarrier(e) == att'[e].begun = att[e].begun /\ (att[e].begun => att'[e].turn = att[e].turn)
SameTurns      == \A t \in Turns : SameTurn(t)
SameBarriers   == \A e \in Epochs : SameBarrier(e)
SameInputs     == \A e \in Epochs : prov'[e].got = prov[e].got

LEMMA ShownStays == SameTurns => Shown' = Shown /\ Order' = Order
BY DEF SameTurns, SameTurn, Shown, Order

LEMMA BarredStays == SameBarriers => Barred' = Barred
BY DEF SameBarriers, SameBarrier, Barred

LEMMA SubmittedStays == SameInputs => Submitted' = Submitted
BY DEF SameInputs, Submitted

\* One turn moves, and the others show what they showed.
LEMMA ShownMoves ==
  ASSUME NEW t \in Turns, NEW from, NEW to, to # "posting", Shown[t] = from, turn'[t].st = to,
         \A u \in Turns : u # t => turn'[u].st = turn[u].st
  PROVE  ChatTurn!Move(t, from, to)
<1>1. Shown' = [u \in Turns |-> IF u = t THEN to ELSE Shown[u]] BY DEF Shown
<1>2. Shown = [u \in Turns |-> Shown[u]] BY DEF Shown
<1> QED BY <1>1, <1>2 DEF ChatTurn!Move

\* Only the barrier itself bars an input.
LEMMA BarriersStay ==
  ASSUME IInv, [Next]_vars, \A e \in Epochs : ~Begin(e)
  PROVE  SameBarriers
<1> USE DEF IInv
<1>0. att \in [Epochs -> AttemptRow] BY DEF TypeOK
<1>1. ASSUME att' = att PROVE SameBarriers BY <1>1 DEF SameBarriers, SameBarrier
<1>2. ASSUME NEW s \in Epochs, NEW ph, NEW o, NEW b,
             \/ att' = [att EXCEPT ![s].phase = ph] \/ att' = [att EXCEPT ![s].opened = b]
             \/ att' = [att EXCEPT ![s].phase = ph, ![s].proof = o]
      PROVE  SameBarriers
  BY <1>0, <1>2 DEF SameBarriers, SameBarrier, AttemptRow
<1>3. ASSUME NEW e \in Epochs, NEW o, RecordTerminal(e, o) PROVE SameBarriers
  BY <1>0, <1>3 DEF SameBarriers, SameBarrier, AttemptRow, RecordTerminal
<1>4. ASSUME NEW e \in Epochs, Worker(e) PROVE SameBarriers
  <2>1. CASE Seal(e)
    <3>1. att[e].turn = exec[e].turn => att[e].no # exec[e].no BY <2>1 DEF Seal, CanSeal
    <3>2. att[e].phase = "none" BY <3>1 DEF AttemptMatches
    <3>3. ~att[e].begun BY <3>2 DEF AttemptPhase
    <3>4. ~att'[e].begun /\ \A f \in Epochs : f # e => att'[f] = att[f]
      BY <1>0, <2>1 DEF Seal, NoAttempt
    <3>5. att[e].begun \in BOOLEAN /\ att'[e].begun \in BOOLEAN
      BY <1>0, <2>1 DEF Seal, NoAttempt, AttemptRow
    <3> QED BY <3>3, <3>4, <3>5 DEF SameBarriers, SameBarrier
  <2>2. CASE RecordOpen(e) BY <1>2, <2>2 DEF RecordOpen
  <2>3. CASE Accept(e) BY <1>2, <2>3 DEF Accept, RecordAcceptance
  <2>4. CASE SettleRecords(e) BY <1>3, <2>4 DEF SettleRecords
  <2>5. CASE SettleCompletes(e) BY <1>2, <2>5 DEF SettleCompletes, Complete
  <2>6. CASE FailCompletes(e) BY <1>2, <2>6 DEF FailCompletes, Complete
  <2>7. CASE FailPreparation(e)
    <3> DEFINE s == turn[exec[e].turn].snap
    <3>1. s = 0 \/ s = e BY <2>7, OwnedFacts DEF FailPreparation, CanFailPreparation
    <3>2. s = 0 => att' = att BY <2>7 DEF FailPreparation
    <3>3. s # 0 => att' = [att EXCEPT ![s].phase = "settled", ![s].proof = "not_sent"]
      BY <2>7 DEF FailPreparation
    <3> HIDE DEF s
    <3> QED BY <1>1, <1>2, <3>1, <3>2, <3>3
  <2>8. \/ att' = att \/ Seal(e) \/ RecordOpen(e) \/ Begin(e) \/ Accept(e) \/ SettleRecords(e)
        \/ SettleCompletes(e) \/ FailCompletes(e) \/ FailPreparation(e)
    BY <1>4 DEF Worker, Reserve, PrepareEnds, OpenEnds, PreparationFails, SubmitReturns, Observed,
       FailureClosed, PersistTerminalPart, FailError, FailDone, CallFails, ReleaseLaunch, ReleaseRuntime, db
  <2> QED BY <1>1, <2>1, <2>2, <2>3, <2>4, <2>5, <2>6, <2>7, <2>8
<1>5. ASSUME NEW n \in Nodes, BootRecover(n) PROVE SameBarriers
  <2> DEFINE t == node[n].row
             s == turn[t].snap
  <2>1. t \in Turns BY <1>5 DEF BootRecover, RecoveryHasRow
  <2>2. s = 0 \/ s \in Epochs BY <2>1 DEF SnapshotIsCurrent
  <2>3. \/ att' = att
        \/ s # 0 /\ att' = [att EXCEPT ![s].phase = "settled", ![s].proof = "not_sent"]
        \/ s # 0 /\ att' = [att EXCEPT ![s].phase = "settled"]
        \/ s # 0 /\ att' = [att EXCEPT ![s].phase = "delivery_unknown"]
    BY <1>5 DEF BootRecover, Recover, ReleaseSettled, RetryPrepared, FinalizeTerminal, SettleUnknown,
       HasTerminal, db
  <2> HIDE DEF s
  <2> QED BY <1>1, <1>2, <2>2, <2>3
<1>6. ASSUME NEW e \in Epochs, Consumer(e) PROVE SameBarriers
  <2>1. CASE ConsumeAcceptance(e) BY <1>2, <2>1 DEF ConsumeAcceptance, RecordAcceptance
  <2>2. CASE ConsumerRecords(e) BY <1>1, <1>3, <2>2 DEF ConsumerRecords
  <2>3. ConsumerRecords(e) \/ ConsumeAcceptance(e) \/ att' = att
    BY <1>6 DEF Consumer, ConsumeTerminal, ConsumeExit, ConsumerAborts, ConsumerSaves, db
  <2> QED BY <1>1, <2>1, <2>2, <2>3
<1>7. ASSUME NEW e \in Epochs, Mint(e) \/ Provider(e) PROVE SameBarriers
  BY <1>1, <1>7 DEF Mint, Provider, ProviderTakes, ProviderFinishes, ProviderExits, db
<1>8. ASSUME NEW n \in Nodes, Draining(n) \/ BootScan(n) \/ BootWake(n) \/ Crash(n) PROVE SameBarriers
  BY <1>1, <1>8 DEF Draining, StartDrain, ClaimNothing, ClaimTurn, DrainReturns, BootScan, BootWake,
     Crash, db
<1>9. CASE UNCHANGED vars \/ LeaseExpire \/ Posting
  BY <1>1, <1>9 DEF vars, LeaseExpire, Posting, PostBegin, PostCommit, SetConfiguration
<1> QED BY <1>4, <1>5, <1>6, <1>7, <1>8, <1>9 DEF Next, Boot

\* Only a provider that takes an input adds to the submitted ones.
LEMMA InputsStay ==
  ASSUME IInv, [Next]_vars, \A e \in Epochs : ~ProviderTakes(e)
  PROVE  SameInputs
<1> USE DEF IInv
<1>0. prov \in [Epochs -> Session] BY DEF TypeOK
<1>1. ASSUME prov' = prov PROVE SameInputs BY <1>1 DEF SameInputs
<1>2. ASSUME NEW e \in Epochs, NEW a,
             prov' = [prov EXCEPT ![e].alive = a] \/ prov' = [prov EXCEPT ![e].out = a]
      PROVE  SameInputs
  BY <1>0, <1>2 DEF SameInputs, Session
<1>3. ASSUME NEW n \in Nodes, Crash(n) PROVE SameInputs
  <2>1. ASSUME NEW e \in Epochs PROVE prov'[e].got = prov[e].got
    BY <1>0, <1>3 DEF Crash, Session
  <2> QED BY <2>1 DEF SameInputs
<1>4. ASSUME NEW e \in Epochs, Provider(e) PROVE SameInputs
  BY <1>2, <1>4 DEF Provider, ProviderFinishes, ProviderExits
<1>5. ASSUME NEW e \in Epochs, Worker(e) PROVE SameInputs
  <2>1. CASE OpenEnds(e) BY <1>1, <1>2, <2>1 DEF OpenEnds
  <2>2. prov' = prov \/ OpenEnds(e)
    BY <1>5 DEF Worker, Reserve, Seal, PrepareEnds, PreparationFails, RecordOpen, Begin,
       SubmitReturns, Accept, RecordAcceptance, Observed, FailureClosed, PersistTerminalPart,
       SettleRecords, SettleCompletes, FailError, FailDone, FailCompletes, Complete, FailPreparation,
       CallFails, ReleaseLaunch, ReleaseRuntime
  <2> QED BY <1>1, <2>1, <2>2
<1>6. ASSUME NEW e \in Epochs, Consumer(e) PROVE SameInputs
  <2>1. CASE ConsumeTerminal(e) BY <1>1, <1>2, <2>1 DEF ConsumeTerminal
  <2>2. prov' = prov \/ ConsumeTerminal(e)
    BY <1>6 DEF Consumer, ConsumeAcceptance, RecordAcceptance, ConsumeExit, ConsumerAborts,
       ConsumerRecords, ConsumerSaves
  <2> QED BY <1>1, <2>1, <2>2
<1>7. ASSUME NEW e \in Epochs, Mint(e) PROVE SameInputs BY <1>1, <1>7 DEF Mint
<1>8. ASSUME NEW n \in Nodes, Draining(n) \/ Boot(n) PROVE SameInputs
  BY <1>1, <1>8 DEF Draining, StartDrain, ClaimNothing, ClaimTurn, DrainReturns, Boot, BootScan,
     BootRecover, BootWake
<1>9. CASE UNCHANGED vars \/ LeaseExpire \/ Posting
  BY <1>1, <1>9 DEF vars, LeaseExpire, Posting, PostBegin, PostCommit, SetConfiguration
<1> QED BY <1>3, <1>4, <1>5, <1>6, <1>7, <1>8, <1>9 DEF Next

\* Clients, claims, settlements and recoveries move turns; nobody else does.
LEMMA TurnsStay ==
  ASSUME IInv, [Next]_vars,
         \A t \in Turns, n \in Nodes : ~PostCommit(t, n),
         \A n \in Nodes, t, u \in Turns : ~ClaimTurn(n, t, u),
         \A e \in Epochs : ~SettleCompletes(e) /\ ~FailCompletes(e) /\ ~FailPreparation(e),
         \A n \in Nodes : BootRecover(n) => turn' = turn
  PROVE  UNCHANGED <<Shown, Order>>
<1> USE DEF IInv
<1>0. turn \in [Turns -> TurnRow] BY DEF TypeOK
<1>1. CASE turn' = turn BY <1>1 DEF Shown, Order
<1>2. ASSUME NEW t \in Turns, PostBegin(t) PROVE UNCHANGED <<Shown, Order>>
  <2>1. turn[t].st = "absent" BY <1>2 DEF PostBegin
  <2>2. \A u \in Turns : /\ turn'[u].ord = turn[u].ord
                         /\ turn'[u].st = IF u = t THEN "posting" ELSE turn[u].st
    BY <1>0, <1>2 DEF PostBegin, TurnRow
  <2> QED BY <2>1, <2>2 DEF Shown, Order
<1>3. ASSUME NEW e \in Epochs, Worker(e) PROVE UNCHANGED <<Shown, Order>>
  <2>1. CASE Seal(e)
    <3>1. SameTurns BY <1>0, <2>1 DEF Seal, SameTurns, SameTurn, TurnRow
    <3> QED BY <3>1, ShownStays
  <2>2. turn' = turn \/ Seal(e)
    BY <1>3 DEF Worker, Reserve, PrepareEnds, OpenEnds, PreparationFails, RecordOpen, Begin,
       SubmitReturns, Accept, RecordAcceptance, Observed, FailureClosed, PersistTerminalPart,
       SettleRecords, FailError, FailDone, CallFails, ReleaseLaunch, ReleaseRuntime, db
  <2> QED BY <1>1, <2>1, <2>2
<1>4. ASSUME NEW e \in Epochs, Mint(e) \/ Provider(e) \/ Consumer(e) PROVE turn' = turn
  BY <1>4 DEF Mint, Provider, ProviderTakes, ProviderFinishes, ProviderExits, Consumer,
     ConsumeAcceptance, RecordAcceptance, ConsumeTerminal, ConsumeExit, ConsumerAborts,
     ConsumerRecords, ConsumerSaves, db
<1>5. ASSUME NEW n \in Nodes, Draining(n) \/ Boot(n) \/ Crash(n) PROVE turn' = turn
  BY <1>5 DEF Draining, StartDrain, ClaimNothing, DrainReturns, Boot, BootScan, BootWake, Crash, db
<1>6. CASE UNCHANGED vars \/ LeaseExpire \/ SetConfiguration
  BY <1>1, <1>6 DEF vars, LeaseExpire, SetConfiguration
<1> QED BY <1>1, <1>2, <1>3, <1>4, <1>5, <1>6 DEF Next, Posting

\* A committed post is the last in the order.
LEMMA PostIsPost ==
  ASSUME IInv, NEW t \in Turns, NEW n \in Nodes, PostCommit(t, n)
  PROVE  /\ Shown[t] = "absent" /\ ChatTurn!Move(t, "absent", "queued")
         /\ \A u \in Turns : Order[u] < Order'[t]
         /\ Order' = [Order EXCEPT ![t] = Order'[t]]
<1> USE DEF IInv
<1>1. turn \in [Turns -> TurnRow] /\ chat.next \in Nat BY DEF TypeOK, ChatRow
<1>2. turn[t].st = "posting" BY DEF PostCommit
<1>3. /\ turn'[t].st = "queued" /\ turn'[t].ord = chat.next
      /\ \A u \in Turns : u # t => turn'[u] = turn[u]
  BY <1>1 DEF PostCommit, TurnRow
<1>4. Shown[t] = "absent" BY <1>2 DEF Shown
<1>5. ChatTurn!Move(t, "absent", "queued") BY <1>3, <1>4, ShownMoves
<1>6. \A u \in Turns : turn[u].ord < chat.next
  <2>1. \A u \in Turns : turn[u].ord \in Nat BY <1>1 DEF TurnRow
  <2> QED BY <1>1, <2>1 DEF OrdinalsAreUnique
<1>7. \A u \in Turns : Order[u] < Order'[t] BY <1>3, <1>6 DEF Order
<1>8. Order' = [Order EXCEPT ![t] = Order'[t]] BY <1>3 DEF Order
<1> QED BY <1>4, <1>5, <1>7, <1>8

\* A claim starts the turn it sets running.
LEMMA ClaimIsStart ==
  ASSUME IInv, NEW n \in Nodes, NEW p \in Turns, NEW r \in Turns, ClaimTurn(n, p, r)
  PROVE  ChatTurn!Move(r, "queued", "running") /\ Order' = Order
<1>1. turn \in [Turns -> TurnRow] BY DEF IInv, TypeOK
<1>2. turn[r].st = "queued" /\ turn[p].st = "queued" BY DEF ClaimTurn, ClaimRun, ClaimPick, Queued
<1>3. \A u \in Turns : /\ turn'[u].ord = turn[u].ord
                       /\ turn'[u].st = IF u = r THEN "running" ELSE turn[u].st
  <2> DEFINE trn == [turn EXCEPT ![p].cfg = ClaimConfiguration(p)]
  <2>1. \A u \in Turns : trn[u].ord = turn[u].ord /\ trn[u].st = turn[u].st BY <1>1 DEF TurnRow
  <2>2. \A u \in Turns : trn[u] \in [st : TurnStates, at : Nat, ord : Nat, no : Nat,
                                     cfg : {turn[u].cfg, ClaimConfiguration(p)}, snap : 0..MaxEpoch]
    BY <1>1 DEF TurnRow
  <2>3. turn' = [trn EXCEPT ![r].st = "running", ![r].no = @ + 1] BY DEF ClaimTurn
  <2>4. \A u \in Turns : /\ turn'[u].ord = trn[u].ord
                         /\ turn'[u].st = IF u = r THEN "running" ELSE trn[u].st
    BY <1>1, <2>2, <2>3
  <2> QED BY <2>1, <2>4
<1>4. Shown[r] = "queued" BY <1>2 DEF Shown
<1>5. ChatTurn!Move(r, "queued", "running") BY <1>3, <1>4, ShownMoves
<1> QED BY <1>3, <1>5 DEF Order

\* The barrier bars an input that was not barred, of a turn that runs.
LEMMA BeginIsBar ==
  ASSUME IInv, NEW e \in Epochs, Begin(e)
  PROVE  LET t == att[e].turn IN
         t \in Turns /\ Shown[t] = "running" /\ t \notin Barred /\ Barred' = Barred \cup {t}
<1> DEFINE t == att[e].turn
<1> USE DEF IInv
<1>1. att[e].phase = "prepared" BY DEF Begin, CanBegin
<1>2. t \in Turns BY <1>1 DEF AttemptMatches
<1>3. turn[t].st = "running" /\ turn[t].snap = e /\ ~att[e].begun BY <1>1 DEF AttemptPhase
<1>4. t \notin Barred BY <1>3, BegunFacts DEF Barred
<1>5. /\ att'[e].begun /\ att'[e].turn = t
      /\ \A f \in Epochs : f # e => att'[f] = att[f]
  BY DEF Begin, TypeOK, AttemptRow
<1>6. Barred' = Barred \cup {t} BY <1>3, <1>5 DEF Barred
<1> QED BY <1>2, <1>3, <1>4, <1>6 DEF Shown

\* A provider takes an input that is barred and was not submitted, after all before it.
LEMMA TakesIsSubmit ==
  ASSUME IInv, NEW e \in Epochs, ProviderTakes(e)
  PROVE  LET t == exec[e].input IN
         /\ t \in Turns /\ t \in Barred \ Submitted /\ Submitted' = Submitted \cup {t}
         /\ \A u \in Turns : Order[u] # 0 /\ Order[u] < Order[t] => Shown[u] \in ChatTurn!Settled
<1> DEFINE t == exec[e].input
<1> USE DEF IInv
<1>1. att[e].begun /\ prov[e].got = None BY DEF ProviderTakes, SubmissionIsBegun
<1>2. t \in Turns /\ t = att[e].turn /\ turn[t].cfg # 0 BY <1>1, BegunFacts
<1>3. t \in Barred BY <1>1, <1>2 DEF Barred
<1>4. t \notin Submitted
  <2> SUFFICES ASSUME NEW f \in Epochs, prov[f].got = t, t # None PROVE FALSE BY DEF Submitted
  <2>1. att[f].begun /\ att[f].turn = t BY DeliveredFacts DEF Delivered
  <2> QED BY <1>1, <1>2, <2>1, BegunFacts
<1>5. Submitted' = Submitted \cup {t}
  <2>1. /\ prov'[e].got = t
        /\ \A f \in Epochs : f # e => prov'[f].got = prov[f].got
    BY DEF ProviderTakes, TypeOK, Session
  <2>2. t # None BY <1>2, NoneAssumption
  <2> QED BY <1>1, <2>1, <2>2 DEF Submitted
<1>6. ASSUME NEW u \in Turns, Order[u] # 0, Order[u] < Order[t] PROVE Shown[u] \in ChatTurn!Settled
  <2>1. Precedes(u, t) BY <1>2, <1>6 DEF Precedes, Order
  <2>2. turn[u].st \in Settled BY <1>2, <2>1 DEF ConfiguredInOrder
  <2> QED BY <2>2 DEF Shown, Settled, ChatTurn!Settled
<1> QED BY <1>2, <1>3, <1>4, <1>5, <1>6

\* A turn that ends with an answer had its input submitted.
LEMMA EndIsSettle ==
  ASSUME IInv, NEW t \in Turns, NEW st \in Settled, turn[t].st = "running",
         turn' = [turn EXCEPT ![t].st = st], st = "completed" => t \in Submitted
  PROVE  /\ \/ ChatTurn!Move(t, "running", "error")
            \/ t \in Submitted /\ ChatTurn!Move(t, "running", "completed")
         /\ Order' = Order
<1>1. turn \in [Turns -> TurnRow] BY DEF IInv, TypeOK
<1>2. \A u \in Turns : turn'[u].ord = turn[u].ord /\ turn'[u].st = IF u = t THEN st ELSE turn[u].st
  BY <1>1 DEF TurnRow
<1>3. Shown[t] = "running" BY DEF Shown
<1>4. ChatTurn!Move(t, "running", st) BY <1>2, <1>3, ShownMoves DEF Settled
<1> QED BY <1>2, <1>4 DEF Settled, Order

\* So do the settlements of a worker.
LEMMA WorkerSettles ==
  ASSUME IInv, TerminalIsObserved, NEW e \in Epochs,
         SettleCompletes(e) \/ FailCompletes(e) \/ FailPreparation(e)
  PROVE  \E t \in Turns :
         /\ \/ ChatTurn!Move(t, "running", "error")
            \/ t \in Submitted /\ ChatTurn!Move(t, "running", "completed")
         /\ Order' = Order
<1> DEFINE t == exec[e].turn
<1> USE DEF IInv
<1>1. t \in Turns BY Started DEF SettleCompletes, FailCompletes, FailPreparation
<1>2. turn[t].st = "running"
  BY DEF SettleCompletes, FailCompletes, Complete, CanComplete, FailPreparation, CanFailPreparation,
         Owned
<1>3. CASE SettleCompletes(e) /\ exec[e].term = "completed"
  <2>1. turn[t].snap = e BY <1>3 DEF SettleCompletes, Complete, CanComplete
  <2>2. att[e].turn = t BY <1>1, <2>1 DEF SnapshotIsCurrent, Epochs
  <2>3. Delivered(e) BY <1>3 DEF TerminalIsObserved, TerminalOf, Answers
  <2>4. prov[e].got = t BY <2>2, <2>3, DeliveredFacts
  <2>5. t \in Submitted BY <1>1, <2>4, NoneAssumption DEF Submitted
  <2>6. turn' = [turn EXCEPT ![t].st = "completed"] BY <1>3 DEF SettleCompletes, Complete
  <2> QED BY <1>1, <1>2, <2>5, <2>6, EndIsSettle DEF Settled
<1>4. CASE ~(SettleCompletes(e) /\ exec[e].term = "completed")
  <2>1. turn' = [turn EXCEPT ![t].st = "error"]
    BY <1>4 DEF SettleCompletes, FailCompletes, Complete, FailPreparation
  <2> QED BY <1>1, <1>2, <2>1, EndIsSettle DEF Settled
<1> QED BY <1>3, <1>4

\* The recovery settles a turn, or requeues one whose input is not barred.
LEMMA RecoveryRequeues ==
  ASSUME IInv, TerminalIsObserved, NEW n \in Nodes, BootRecover(n)
  PROVE  \/ turn' = turn
         \/ \E t \in Turns :
            \/ /\ \/ ChatTurn!Move(t, "running", "error")
                  \/ t \in Submitted /\ ChatTurn!Move(t, "running", "completed")
               /\ Order' = Order
            \/ t \notin Barred /\ ChatTurn!Move(t, "running", "queued") /\ Order' = Order
<1> DEFINE t == node[n].row
           s == turn[t].snap
<1> USE DEF IInv
<1>0. turn \in [Turns -> TurnRow] BY DEF TypeOK
<1>1. t \in Turns BY DEF BootRecover, RecoveryHasRow
<1>2. turn' = turn \/ RetryPrepared(t) \/ FinalizeTerminal(t) \/ SettleUnknown(t)
  BY DEF BootRecover, Recover, ReleaseSettled, db
<1>3. CASE RetryPrepared(t)
  <2>1. turn[t].st = "running" /\ (s = 0 \/ att[s].phase = "prepared") BY <1>3 DEF RetryPrepared
  <2>2. t \notin Barred
    <3> SUFFICES ASSUME NEW e \in Epochs, att[e].begun, att[e].turn = t PROVE FALSE BY DEF Barred
    <3>1. s = e BY BegunFacts
    <3>2. att[e].phase # "prepared" BY DEF AttemptPhase
    <3> QED BY <2>1, <3>1, <3>2 DEF Epochs
  <2>3. \A u \in Turns : turn'[u].ord = turn[u].ord /\ turn'[u].st = IF u = t THEN "queued" ELSE turn[u].st
    BY <1>0, <1>3 DEF RetryPrepared, TurnRow
  <2>4. Shown[t] = "running" BY <1>1, <2>1 DEF Shown
  <2>5. ChatTurn!Move(t, "running", "queued") BY <1>1, <2>3, <2>4, ShownMoves
  <2>6. Order' = Order BY <2>3 DEF Order
  <2> QED BY <1>1, <2>2, <2>5, <2>6
<1>4. CASE FinalizeTerminal(t)
  <2>1. turn[t].st = "running" /\ s # 0 BY <1>4 DEF FinalizeTerminal, Dispatched, HasTerminal
  <2>2. s \in Epochs /\ att[s].turn = t BY <1>1, <2>1 DEF SnapshotIsCurrent
  <2>3. ASSUME att[s].proof = "completed" PROVE t \in Submitted
    <3>1. Delivered(s) BY <2>2, <2>3 DEF TerminalIsObserved, TerminalOf, Answers
    <3>2. prov[s].got = t BY <2>2, <3>1, DeliveredFacts
    <3> QED BY <1>1, <2>2, <3>2, NoneAssumption DEF Submitted
  <2>4. PICK st \in Settled : /\ turn' = [turn EXCEPT ![t].st = st]
                              /\ st = "completed" => att[s].proof = "completed"
    BY <1>4 DEF FinalizeTerminal, Settled
  <2> HIDE DEF t
  <2> QED BY <1>1, <2>1, <2>3, <2>4, EndIsSettle
<1>5. CASE SettleUnknown(t)
  <2>1. turn[t].st = "running" /\ turn' = [turn EXCEPT ![t].st = "error"]
    BY <1>5 DEF SettleUnknown, Dispatched
  <2> HIDE DEF t
  <2> QED BY <1>1, <2>1, EndIsSettle DEF Settled
<1> QED BY <1>2, <1>3, <1>4, <1>5

\* Every step of the chat is a step of ChatTurns, or changes nothing a user sees.
LEMMA StepImplements ==
  ASSUME IInv, TerminalIsObserved, [Next]_vars
  PROVE  [ChatTurn!Next]_(ChatTurn!vars)
<1> DEFINE Stutter == UNCHANGED <<Shown, Order, Barred, Submitted>>
<1>1. ASSUME NEW t \in Turns, NEW n \in Nodes, PostCommit(t, n) PROVE ChatTurn!Next
  <2>1. att' = att /\ prov' = prov BY <1>1 DEF PostCommit
  <2>2. Barred' = Barred /\ Submitted' = Submitted BY <2>1 DEF Barred, Submitted
  <2>3. ChatTurn!Post(t) BY <1>1, <2>2, PostIsPost DEF ChatTurn!Post
  <2> QED BY <2>3 DEF ChatTurn!Next
<1>2. ASSUME NEW n \in Nodes, NEW p \in Turns, NEW r \in Turns, ClaimTurn(n, p, r) PROVE ChatTurn!Next
  <2>1. att' = att /\ prov' = prov BY <1>2 DEF ClaimTurn
  <2>2. Barred' = Barred /\ Submitted' = Submitted BY <2>1 DEF Barred, Submitted
  <2>3. ChatTurn!Start(r) BY <1>2, <2>2, ClaimIsStart DEF ChatTurn!Start
  <2> QED BY <2>3 DEF ChatTurn!Next
<1>3. ASSUME NEW e \in Epochs, Begin(e) PROVE ChatTurn!Next
  <2>1. turn' = turn /\ prov' = prov BY <1>3 DEF Begin
  <2>2. Shown' = Shown /\ Order' = Order /\ Submitted' = Submitted
    BY <2>1 DEF Shown, Order, Submitted
  <2>3. ChatTurn!Bar(att[e].turn) BY <1>3, <2>2, BeginIsBar DEF ChatTurn!Bar
  <2>4. att[e].turn \in Turns BY <1>3, BeginIsBar
  <2> QED BY <2>3, <2>4 DEF ChatTurn!Next
<1>4. ASSUME NEW e \in Epochs, ProviderTakes(e) PROVE ChatTurn!Next
  <2>1. turn' = turn /\ att' = att BY <1>4 DEF ProviderTakes, db
  <2>2. Shown' = Shown /\ Order' = Order /\ Barred' = Barred BY <2>1 DEF Shown, Order, Barred
  <2>3. ChatTurn!Submit(exec[e].input) BY <1>4, <2>2, TakesIsSubmit DEF ChatTurn!Submit
  <2>4. exec[e].input \in Turns BY <1>4, TakesIsSubmit
  <2> QED BY <2>3, <2>4 DEF ChatTurn!Next
<1>5. ASSUME NEW e \in Epochs, SettleCompletes(e) \/ FailCompletes(e) \/ FailPreparation(e),
             SameBarriers, SameInputs
      PROVE  ChatTurn!Next
  <2>1. Barred' = Barred /\ Submitted' = Submitted BY <1>5, BarredStays, SubmittedStays
  <2>2. PICK t \in Turns : ChatTurn!Settle(t)
    BY <1>5, <2>1, WorkerSettles DEF ChatTurn!Settle
  <2> QED BY <2>2 DEF ChatTurn!Next
<1>6. ASSUME NEW n \in Nodes, BootRecover(n), turn' # turn, SameBarriers, SameInputs
      PROVE  ChatTurn!Next
  <2>1. Barred' = Barred /\ Submitted' = Submitted BY <1>6, BarredStays, SubmittedStays
  <2>2. PICK t \in Turns : ChatTurn!Settle(t) \/ ChatTurn!Requeue(t)
    BY <1>6, <2>1, RecoveryRequeues DEF ChatTurn!Settle, ChatTurn!Requeue
  <2> QED BY <2>2 DEF ChatTurn!Next
<1>7. CASE /\ \A t \in Turns, n \in Nodes : ~PostCommit(t, n)
           /\ \A n \in Nodes, t, u \in Turns : ~ClaimTurn(n, t, u)
           /\ \A e \in Epochs : ~Begin(e) /\ ~ProviderTakes(e)
  <2>1. SameBarriers /\ SameInputs BY <1>7, BarriersStay, InputsStay
  <2>2. CASE \E e \in Epochs : SettleCompletes(e) \/ FailCompletes(e) \/ FailPreparation(e)
    BY <1>5, <2>1, <2>2
  <2>3. CASE \E n \in Nodes : BootRecover(n) /\ turn' # turn BY <1>6, <2>1, <2>3
  <2>4. CASE /\ \A e \in Epochs : ~SettleCompletes(e) /\ ~FailCompletes(e) /\ ~FailPreparation(e)
             /\ \A n \in Nodes : BootRecover(n) => turn' = turn
    <3>1. UNCHANGED <<Shown, Order>> BY <1>7, <2>4, TurnsStay
    <3>2. Barred' = Barred /\ Submitted' = Submitted BY <2>1, BarredStays, SubmittedStays
    <3> QED BY <3>1, <3>2 DEF ChatTurn!vars
  <2> QED BY <2>2, <2>3, <2>4
<1> QED BY <1>1, <1>2, <1>3, <1>4, <1>7

\* The chat keeps what ChatTurns promises: inputs are handed over in posting order, each
\* at most once, only an input that was certainly not handed over goes back to the queue,
\* and only one that was handed over is answered.
THEOREM ImplementsChatTurns == Spec => Implements
<1>1. Init => ChatTurn!Init
  <2> SUFFICES ASSUME Init PROVE ChatTurn!Init OBVIOUS
  <2>1. Shown = [t \in Turns |-> "absent"] /\ Order = [t \in Turns |-> 0] BY DEF Init, Shown, Order
  <2>2. Barred = {} BY DEF Init, Barred, NoAttempt
  <2>3. Submitted = {} BY DEF Init, Submitted, NoSession
  <2> QED BY <2>1, <2>2, <2>3 DEF ChatTurn!Init
<1>2. IInv /\ TerminalIsObserved /\ [Next]_vars => [ChatTurn!Next]_(ChatTurn!vars)
  BY StepImplements
<1> QED BY <1>1, <1>2, ObservationInvariant, PTL DEF Spec, Implements, ChatTurn!Spec

-----------------------------------------------------------------------------
(***************************************************************************)
(* While leases do not run out the owner of the chat is alone: the release  *)
(* waits for its session, and the recovery for the death of its node.       *)
(***************************************************************************)

\* A worker that has not started, has cleaned up or has died has no session and no
\* preparation; any other is the owner, on the boot of its node that claimed the chat.
Parked == {"none", "release", "gone"}
OwnerIsAlone ==
  /\ chat.lease # "expired"
  /\ \A e \in Epochs :
       IF exec[e].pc \in Parked THEN exec[e].op = "none" /\ prov[e].alive # "up"
       ELSE /\ chat.epoch = e /\ chat.lease = "held"
            /\ exec[e].node = chat.node /\ chat.node \in Nodes
            /\ chat.boot = node[chat.node].boot

\* y is x at another place of the worker, before its cleanup is done.
AtWork(x, y) == y.node = x.node /\ y.pc \notin Parked

SameOwner ==
  /\ UNCHANGED <<chat.epoch, chat.lease, chat.node, chat.boot>>
  /\ \A n \in Nodes : node'[n].boot = node[n].boot
SameLife == \A e \in Epochs : prov'[e].alive = "up" => prov[e].alive = "up"

\* Steps that leave the owner, its boot and the workers at their places.
LEMMA AloneStays ==
  ASSUME OwnerIsAlone, SameOwner, SameLife,
         \A e \in Epochs : /\ exec'[e].pc = exec[e].pc /\ exec'[e].node = exec[e].node
                           /\ exec'[e].op = exec[e].op
  PROVE  OwnerIsAlone'
  BY DEF OwnerIsAlone, SameOwner, SameLife

\* Steps of the owner.
LEMMA AloneAtWork ==
  ASSUME TypeOK, OwnerIsAlone, SameOwner, NEW e \in Epochs, NEW y, exec[e].pc \notin Parked,
         AtWork(exec[e], y), exec' = [exec EXCEPT ![e] = y],
         \A f \in Epochs : f # e => prov'[f] = prov[f]
  PROVE  OwnerIsAlone'
<1>1. exec'[e] = y /\ \A f \in Epochs : f # e => exec'[f] = exec[f] BY DEF TypeOK
<1> QED BY <1>1 DEF OwnerIsAlone, SameOwner, AtWork

\* A call returns to a place before the end of the cleanup, or throws to one.
LEMMA AloneReturns ==
  ASSUME TypeOK, OwnerIsAlone, SameOwner, NEW e \in Epochs, NEW y, exec[e].pc \notin Parked,
         AtWork(exec[e], y), Returns(e, y) \/ exec' = [exec EXCEPT ![e] = y] \/ Throw(e),
         \A f \in Epochs : f # e => prov'[f] = prov[f]
  PROVE  OwnerIsAlone'
<1>1. AtWork(exec[e], ThrowFrom(exec[e]))
  <2>1. exec[e] \in Execution BY DEF TypeOK
  <2> QED BY <2>1 DEF ThrowFrom, Execution, AtWork, Parked
<1>2. PICK z : exec' = [exec EXCEPT ![e] = z] /\ AtWork(exec[e], z) BY <1>1 DEF Returns, Throw
<1> QED BY <1>2, AloneAtWork

\* The steps of a worker.
LEMMA WorkerAlone ==
  ASSUME IInv, OwnerIsAlone, NEW e \in Epochs, Worker(e)
  PROVE  OwnerIsAlone'
<1> DEFINE x == exec[e]
<1>0. TypeOK /\ x \in Execution BY DEF IInv, TypeOK
<1>00. \A c \in {"opening", "prepared", "ready", "dispatching", "running", "closing"} : \A i :
         /\ LET d == [chat EXCEPT !.phase = c] IN
              d.epoch = chat.epoch /\ d.lease = chat.lease /\ d.node = chat.node /\ d.boot = chat.boot
         /\ LET d == [chat EXCEPT !.active = i, !.phase = c] IN
              d.epoch = chat.epoch /\ d.lease = chat.lease /\ d.node = chat.node /\ d.boot = chat.boot
  BY <1>0 DEF TypeOK, ChatRow
<1>1. CASE Reserve(e)
  <2> DEFINE y == [x EXCEPT !.pc = "seal", !.gen = TRUE]
  <2>1. AtWork(x, y) /\ x.pc \notin Parked BY <1>0, <1>1 DEF Execution, AtWork, Parked, Reserve
  <2>2. SameOwner BY <1>00, <1>1 DEF Reserve, SameOwner
  <2>3. prov' = prov /\ Returns(e, y) BY <1>1 DEF Reserve
  <2> QED BY <1>0, <2>1, <2>2, <2>3, AloneReturns
<1>2. CASE Seal(e)
  <2> DEFINE y == [x EXCEPT !.pc = "prepare", !.op = "prepare"]
  <2>1. AtWork(x, y) /\ x.pc \notin Parked BY <1>0, <1>2 DEF Execution, AtWork, Parked, Seal
  <2>2. SameOwner BY <1>00, <1>2 DEF Seal, SameOwner
  <2>3. prov' = prov /\ Returns(e, y) BY <1>2 DEF Seal
  <2> QED BY <1>0, <2>1, <2>2, <2>3, AloneReturns
<1>3. CASE Begin(e)
  <2> DEFINE y == [x EXCEPT !.pc = "submitting", !.call = "flying", !.cons = "read"]
             z == [x EXCEPT !.pc = "fclose", !.cons = "read"]
  <2>1. AtWork(x, y) /\ AtWork(x, z) /\ x.pc \notin Parked
    BY <1>0, <1>3 DEF Execution, AtWork, Parked, Begin
  <2>2. SameOwner BY <1>00, <1>3 DEF Begin, SameOwner
  <2>3. prov' = prov /\ (Returns(e, y) \/ Returns(e, z)) BY <1>3 DEF Begin
  <2> QED BY <1>0, <2>1, <2>2, <2>3, AloneReturns
<1>4. CASE PersistTerminalPart(e)
  <2> DEFINE y == [x EXCEPT !.pc = "sterm", !.ev = IF x.ev = "none" THEN "server" ELSE x.ev,
                            !.saved = TRUE]
  <2>1. AtWork(x, y) /\ x.pc \notin Parked BY <1>0, <1>4 DEF Execution, AtWork, Parked, PersistTerminalPart
  <2>2. SameOwner BY <1>4 DEF PersistTerminalPart, SameOwner
  <2>3. prov' = prov /\ Returns(e, y) BY <1>4 DEF PersistTerminalPart
  <2> QED BY <1>0, <2>1, <2>2, <2>3, AloneReturns
<1>12. CASE FailError(e) \/ FailDone(e)
  <2> DEFINE y == [x EXCEPT !.pc = "fdone", !.seq = 1]
             z == [x EXCEPT !.pc = "fcomplete", !.seq = 2]
  <2>1. AtWork(x, y) /\ AtWork(x, z) /\ x.pc \notin Parked
    BY <1>0, <1>12 DEF Execution, AtWork, Parked, FailError, FailDone
  <2>2. prov' = prov /\ SameOwner /\ (Returns(e, y) \/ Returns(e, z))
    BY <1>12 DEF FailError, FailDone, SameOwner
  <2> HIDE DEF y, z
  <2> QED BY <1>0, <2>1, <2>2, AloneReturns
<1>5. CASE RecordOpen(e) \/ Accept(e) \/ SettleRecords(e) \/ SettleCompletes(e)
           \/ FailCompletes(e) \/ FailPreparation(e)
  <2>1. PICK pc : /\ Returns(e, [x EXCEPT !.pc = pc]) /\ prov' = prov /\ x.pc \notin Parked
                  /\ pc \notin Parked
    <3>1. CASE RecordOpen(e) BY <3>1 DEF RecordOpen, Parked
    <3>2. CASE Accept(e)
      <4>1. Returns(e, [x EXCEPT !.pc = "await"]) /\ prov' = prov /\ x.pc \notin Parked
        BY <3>2 DEF Accept, RecordAcceptance, Parked
      <4>2. "await" \notin Parked BY DEF Parked
      <4> QED BY <4>1, <4>2
    <3>3. CASE SettleRecords(e) BY <3>3 DEF SettleRecords, Parked
    <3>4. CASE SettleCompletes(e)
      <4>1. Returns(e, [x EXCEPT !.pc = "cleanup"]) /\ prov' = prov /\ x.pc \notin Parked
        BY <3>4 DEF SettleCompletes, Complete, Parked
      <4>2. "cleanup" \notin Parked BY DEF Parked
      <4> QED BY <4>1, <4>2
    <3>7. CASE FailCompletes(e)
      <4>1. Returns(e, [x EXCEPT !.pc = "cleanup"]) /\ prov' = prov /\ x.pc \notin Parked
        BY <3>7 DEF FailCompletes, Complete, Parked
      <4>2. "cleanup" \notin Parked BY DEF Parked
      <4> QED BY <4>1, <4>2
    <3>6. CASE FailPreparation(e)
      <4>1. Returns(e, [x EXCEPT !.pc = "cleanup"]) /\ prov' = prov /\ x.pc \notin Parked
        BY <3>6 DEF FailPreparation, Parked
      <4>2. "cleanup" \notin Parked BY DEF Parked
      <4> QED BY <4>1, <4>2
    <3> QED BY <1>5, <3>1, <3>2, <3>3, <3>4, <3>6, <3>7
  <2>2. AtWork(x, [x EXCEPT !.pc = pc]) BY <1>0, <2>1 DEF Execution, AtWork
  <2>3. SameOwner
    BY <1>00, <1>5 DEF RecordOpen, Accept, RecordAcceptance, SettleRecords, SettleCompletes,
       FailCompletes, Complete, FailPreparation, SameOwner
  <2> QED BY <1>0, <2>1, <2>2, <2>3, AloneReturns
<1>6. CASE PreparationFails(e) \/ CallFails(e)
  <2>1. Throw(e) /\ prov' = prov /\ SameOwner
    BY <1>6 DEF PreparationFails, CallFails, db, SameOwner
  <2>2. AtWork(x, x) /\ x.pc \notin Parked BY <1>6 DEF PreparationFails, CallFails, AtWork, Parked
  <2> QED BY <1>0, <2>1, <2>2, AloneReturns
<1>7. CASE PrepareEnds(e) \/ OpenEnds(e)
  <2> DEFINE u == [x EXCEPT !.op = "none"]
             v == [u EXCEPT !.launch = TRUE]
             w == [v EXCEPT !.pc = "open", !.op = "open"]
             r == [u EXCEPT !.pc = "recopen"]
  <2>1. x.pc \notin Parked BY <1>7 DEF PrepareEnds, OpenEnds, OwnerIsAlone
  <2>2. /\ AtWork(x, u) /\ AtWork(x, v) /\ AtWork(x, w) /\ AtWork(x, r)
        /\ AtWork(x, ThrowFrom(u))
    BY <1>0, <2>1 DEF Execution, AtWork, Parked, ThrowFrom
  <2>3. \E y \in {u, v, w, r, ThrowFrom(u)} : exec' = [exec EXCEPT ![e] = y]
    BY <1>7 DEF PrepareEnds, OpenEnds
  <2>4. SameOwner /\ \A f \in Epochs : f # e => prov'[f] = prov[f]
    BY <1>0, <1>7 DEF PrepareEnds, OpenEnds, SameOwner, db, TypeOK
  <2> HIDE DEF u, v, w, r
  <2> QED BY <1>0, <2>1, <2>2, <2>3, <2>4, AloneReturns
<1>8. CASE SubmitReturns(e)
  <2>1. prov' = prov /\ SameOwner /\ x.pc \notin Parked
    BY <1>8 DEF SubmitReturns, SameOwner, db, Parked
  <2>2. ASSUME NEW pc, NEW c, pc \notin Parked, exec' = [exec EXCEPT ![e].pc = pc, ![e].call = c]
        PROVE  OwnerIsAlone'
    <3> DEFINE y == [x EXCEPT !.pc = pc, !.call = c]
    <3>1. AtWork(x, y) BY <1>0, <2>2 DEF Execution, AtWork
    <3>2. exec' = [exec EXCEPT ![e] = y] BY <1>0, <2>2 DEF TypeOK
    <3> HIDE DEF y
    <3> QED BY <1>0, <2>1, <3>1, <3>2, AloneReturns
  <2> QED BY <1>8, <2>2 DEF SubmitReturns, Parked
<1>9. CASE FailureClosed(e) \/ Observed(e)
  <2> DEFINE y == [x EXCEPT !.pc = "fparts"]
             z == [x EXCEPT !.pc = ToSettle(x), !.caught = TRUE]
             w == [x EXCEPT !.pc = ToSettle(x), !.term = IF x.term = "none" THEN "lost" ELSE x.term]
  <2>1. AtWork(x, y) /\ AtWork(x, z) /\ AtWork(x, w) /\ AtWork(x, ThrowFrom(x))
    BY <1>0 DEF Execution, AtWork, Parked, ToSettle, ThrowFrom
  <2>2. x.pc \notin Parked /\ prov' = prov /\ SameOwner
    BY <1>9 DEF FailureClosed, Observed, Parked, SameOwner, db
  <2>3. \E s \in {y, z, w, ThrowFrom(x)} : exec' = [exec EXCEPT ![e] = s]
    BY <1>9 DEF FailureClosed, Observed
  <2> HIDE DEF y, z, w
  <2> QED BY <1>0, <2>1, <2>2, <2>3, AloneReturns
<1>10. CASE ReleaseLaunch(e)
  <2>1. x.op = "none" /\ prov[e].alive # "up" /\ prov' = prov BY <1>10 DEF ReleaseLaunch, CleanupReady
  <2>2. /\ exec'[e].pc = "release" /\ exec'[e].op = x.op
        /\ \A f \in Epochs : f # e => exec'[f] = exec[f]
    BY <1>0, <1>10 DEF ReleaseLaunch, TypeOK, Execution
  <2>3. SameOwner BY <1>10 DEF ReleaseLaunch, SameOwner
  <2> QED BY <2>1, <2>2, <2>3 DEF OwnerIsAlone, SameOwner, Parked
<1>11. CASE ReleaseRuntime(e)
  <2>1. /\ x.pc = "release" /\ exec'[e].pc \in Parked /\ exec'[e].op = x.op
        /\ \A f \in Epochs : f # e => exec'[f] = exec[f]
    BY <1>0, <1>11 DEF ReleaseRuntime, TypeOK, Execution, Parked
  <2>2. prov' = prov BY <1>11 DEF ReleaseRuntime
  <2>3. \A n \in Nodes : node'[n].boot = node[n].boot
    <3>1. node' = node \/ node' = [node EXCEPT ![exec[e].node].wake = TRUE] BY <1>11 DEF ReleaseRuntime
    <3> QED BY <1>0, <3>1 DEF TypeOK, NodeState
  <2>4. CASE CanRelease(e)
    <3>1. chat.epoch = e /\ chat' = FreedChat BY <1>11, <2>4 DEF ReleaseRuntime, CanRelease
    <3>2. chat'.lease = "none" BY <1>0, <3>1 DEF FreedChat, TypeOK, ChatRow
    <3> QED BY <2>1, <2>2, <3>1, <3>2 DEF OwnerIsAlone, Parked
  <2>5. CASE ~CanRelease(e)
    <3>1. chat' = chat BY <1>11, <2>5 DEF ReleaseRuntime
    <3> QED BY <2>1, <2>2, <2>3, <3>1 DEF OwnerIsAlone, Parked
  <2> QED BY <2>4, <2>5
<1> QED BY <1>1, <1>2, <1>3, <1>4, <1>5, <1>6, <1>7, <1>8, <1>9, <1>10, <1>11, <1>12 DEF Worker

\* All steps, when leases do not run out.
LEMMA AloneStep ==
  ASSUME IInv, OwnerIsAlone, ~LeaseCanExpire, [Next]_vars
  PROVE  OwnerIsAlone'
<1>0. /\ TypeOK /\ chat \in ChatRow /\ node \in [Nodes -> NodeState]
      /\ exec \in [Epochs -> Execution] /\ prov \in [Epochs -> Session]
  BY DEF IInv, TypeOK
<1>1. ASSUME UNCHANGED <<exec, prov>>, SameOwner PROVE OwnerIsAlone'
  BY <1>1, AloneStays DEF SameLife
<1>2. CASE UNCHANGED vars \/ LeaseExpire BY <1>1, <1>2 DEF vars, LeaseExpire, SameOwner
<1>3. CASE Posting
  <2>1. /\ UNCHANGED <<exec, prov>>
        /\ chat' = chat \/ chat' = [chat EXCEPT !.next = @ + 1] \/ chat' = [chat EXCEPT !.cfg = @ + 1]
        /\ node' = node \/ \E n \in Nodes : node' = [node EXCEPT ![n].wake = TRUE]
    BY <1>3 DEF Posting, PostBegin, PostCommit, SetConfiguration
  <2>2. SameOwner BY <1>0, <2>1 DEF SameOwner, ChatRow, NodeState
  <2> QED BY <1>1, <2>1, <2>2
<1>4. ASSUME NEW n \in Nodes, NEW p \in Turns, NEW r \in Turns, ClaimTurn(n, p, r)
      PROVE  OwnerIsAlone'
  <2> DEFINE e == chat.epoch + 1
             x == [NoExec EXCEPT !.node = n, !.turn = r, !.input = p, !.cfg = ClaimConfiguration(p),
                      !.no = turn'[p].no, !.pc = "reserve"]
  <2>1. chat.lease # "held" BY <1>4 DEF ClaimTurn, ClaimBlocked
  <2>2. \A f \in Epochs : exec[f].pc \in Parked BY <2>1 DEF OwnerIsAlone
  <2>3. chat'.epoch = e /\ chat'.node = n /\ chat'.boot = node[n].boot /\ chat'.lease = "held"
    BY <1>0, <1>4 DEF ClaimTurn, ChatRow
  <2>4. x.node = n /\ x.pc = "reserve" BY DEF NoExec
  <2>5. node'[n].boot = node[n].boot BY <1>0, <1>4 DEF ClaimTurn, NodeState
  <2>6. prov' = prov /\ (exec' = exec \/ exec' = [exec EXCEPT ![e] = x]) BY <1>4 DEF ClaimTurn
  <2> HIDE DEF x
  <2>7. \A f \in Epochs : exec'[f] = exec[f] \/ (f = e /\ exec'[f] = x) BY <1>0, <2>6
  <2> QED BY <2>2, <2>3, <2>4, <2>5, <2>6, <2>7 DEF OwnerIsAlone, Parked
<1>5. ASSUME NEW n \in Nodes, StartDrain(n) \/ ClaimNothing(n) \/ (\E e \in Epochs : DrainReturns(n, e))
               \/ BootScan(n) \/ BootWake(n)
      PROVE  OwnerIsAlone'
  <2>1. UNCHANGED <<exec, prov, chat>>
    BY <1>5 DEF StartDrain, ClaimNothing, DrainReturns, BootScan, BootWake, db
  <2>2. \A m \in Nodes : node'[m].boot = node[m].boot
    <3>1. ASSUME NEW w, NEW d, node' = [node EXCEPT ![n].wake = w, ![n].drain = d]
          PROVE  \A m \in Nodes : node'[m].boot = node[m].boot
      BY <1>0, <3>1 DEF NodeState
    <3>2. ASSUME NEW d, node' = [node EXCEPT ![n].drain = d]
          PROVE  \A m \in Nodes : node'[m].boot = node[m].boot
      BY <1>0, <3>2 DEF NodeState
    <3>3. CASE BootScan(n)
      <4>1. ASSUME NEW t, node' = [node EXCEPT ![n].rec = "recover", ![n].row = t, ![n].no = turn[t].no]
            PROVE  \A m \in Nodes : node'[m].boot = node[m].boot
        BY <1>0, <4>1 DEF NodeState
      <4>2. ASSUME node' = [node EXCEPT ![n].rec = "wakeup"]
            PROVE  \A m \in Nodes : node'[m].boot = node[m].boot
        BY <1>0, <4>2 DEF NodeState
      <4> QED BY <3>3, <4>1, <4>2 DEF BootScan
    <3>4. CASE BootWake(n) BY <1>0, <3>4 DEF BootWake, NodeState
    <3> QED BY <1>5, <3>1, <3>2, <3>3, <3>4 DEF StartDrain, ClaimNothing, DrainReturns
  <2> QED BY <1>1, <2>1, <2>2 DEF SameOwner
<1>6. ASSUME NEW n \in Nodes, BootRecover(n) PROVE OwnerIsAlone'
  <2> DEFINE t == node[n].row
  <2>1. UNCHANGED <<exec, prov>> BY <1>6 DEF BootRecover
  <2>2. \A m \in Nodes : node'[m].boot = node[m].boot
    <3>1. PICK r : node' = [node EXCEPT ![n].rec = r, ![n].row = None, ![n].no = 0]
      BY <1>6 DEF BootRecover
    <3> QED BY <1>0, <3>1 DEF NodeState
  <2>3. CASE chat' = chat BY <1>1, <2>1, <2>2, <2>3 DEF SameOwner
  <2>4. CASE ~WaitOwner(n, t) /\ Recover(t)
    <3>1. chat.lease = "held" => OldBoot(n) BY <2>4 DEF WaitOwner
    <3>2. \A f \in Epochs : exec[f].pc \in Parked BY <3>1 DEF OldBoot, OwnerIsAlone
    <3>3. chat'.lease = "none" BY <1>0, <2>4 DEF Recover, FreedByRecovery, FreedChat, ChatRow
    <3> QED BY <2>1, <3>2, <3>3 DEF OwnerIsAlone
  <2> QED BY <1>6, <2>3, <2>4 DEF BootRecover, db
<1>7. ASSUME NEW n \in Nodes, Crash(n) PROVE OwnerIsAlone'
  <2>1. chat' = chat /\ \A m \in Nodes : m # n => node'[m] = node[m] BY <1>0, <1>7 DEF Crash, db
  <2>2. ASSUME NEW f \in Epochs, exec[f].node = n
        PROVE  exec'[f].pc = "gone" /\ exec'[f].op = "none" /\ prov'[f].alive # "up"
    <3>1. exec[f] \in Execution /\ prov[f] \in Session BY <1>0
    <3>2. exec'[f] = Died(exec[f]) BY <1>7, <2>2 DEF Crash, Died
    <3>3. Died(exec[f]).pc = "gone" /\ Died(exec[f]).op = "none" BY <3>1 DEF Died, Execution
    <3>4. prov'[f] = IF prov[f].alive = "up" THEN [prov[f] EXCEPT !.alive = "exited"] ELSE prov[f]
      BY <1>7, <2>2 DEF Crash
    <3>5. prov'[f].alive # "up" BY <3>1, <3>4 DEF Session
    <3> QED BY <3>2, <3>3, <3>5
  <2>3. \A f \in Epochs : exec[f].node # n => exec'[f] = exec[f] /\ prov'[f] = prov[f]
    BY <1>7 DEF Crash
  <2> QED BY <2>1, <2>2, <2>3 DEF OwnerIsAlone, Parked
<1>8. ASSUME NEW e \in Epochs, Mint(e) \/ Provider(e) PROVE OwnerIsAlone'
  <2>1. UNCHANGED <<exec, chat, node>>
    BY <1>8 DEF Mint, Provider, ProviderTakes, ProviderFinishes, ProviderExits, db
  <2>2. SameLife
    BY <1>0, <1>8 DEF Mint, Provider, ProviderTakes, ProviderFinishes, ProviderExits, SameLife, Session
  <2> QED BY <2>1, <2>2, AloneStays DEF SameOwner
<1>9. ASSUME NEW e \in Epochs, Consumer(e) PROVE OwnerIsAlone'
  <2> DEFINE x == exec[e]
  <2>1. node' = node /\ (chat' = chat \/ chat' = [chat EXCEPT !.phase = "running"])
    BY <1>9 DEF Consumer, ConsumeAcceptance, RecordAcceptance, ConsumeTerminal, ConsumeExit,
       ConsumerAborts, ConsumerRecords, ConsumerSaves, db
  <2>2. SameOwner BY <1>0, <2>1 DEF SameOwner, ChatRow
  <2>3. SameLife
    BY <1>0, <1>9 DEF Consumer, ConsumeAcceptance, RecordAcceptance, ConsumeTerminal, ConsumeExit,
       ConsumerAborts, ConsumerRecords, ConsumerSaves, SameLife, Session
  <2>4. \A f \in Epochs : /\ exec'[f].pc = exec[f].pc /\ exec'[f].node = exec[f].node
                          /\ exec'[f].op = exec[f].op
    <3> DEFINE k(c) == [x EXCEPT !.cons = c]
               r == [x EXCEPT !.cons = "record", !.ev = "adapter", !.num = x.seq]
               v == [x EXCEPT !.cons = "save", !.term = prov[e].out]
               d == [x EXCEPT !.cons = "done", !.saved = TRUE]
               o == [x EXCEPT !.cons = "done", !.term = "lost"]
               l(z) == [z EXCEPT !.cons = "failed", !.term = x.term, !.saved = x.saved]
    <3>1. x \in Execution BY <1>0
    <3>2. ASSUME NEW y, exec' = [exec EXCEPT ![e] = y], y.pc = x.pc, y.node = x.node, y.op = x.op
          PROVE  \A f \in Epochs : /\ exec'[f].pc = exec[f].pc /\ exec'[f].node = exec[f].node
                                   /\ exec'[f].op = exec[f].op
      BY <1>0, <3>2
    <3>3. \A y \in {x, k("failed"), r, v, d, o, l(x), l(v), l(d)} :
            y.pc = x.pc /\ y.node = x.node /\ y.op = x.op
      BY <3>1 DEF Execution
    <3>4. \E y \in {x, k("failed"), r, v, d, o, l(x), l(v), l(d)} :
            exec' = [exec EXCEPT ![e] = y]
      <4>1. CASE ConsumeAcceptance(e) BY <4>1 DEF ConsumeAcceptance, ConsumerReturns
      <4>2. CASE ConsumeTerminal(e)
        <5>1. exec' = [exec EXCEPT ![e] = r] BY <1>0, <4>2 DEF ConsumeTerminal
        <5> QED BY <5>1
      <4>3. CASE ConsumeExit(e)
        <5>1. exec' = [exec EXCEPT ![e] = o] BY <1>0, <4>3 DEF ConsumeExit
        <5> QED BY <5>1
      <4>4. CASE ConsumerAborts(e) BY <4>4 DEF ConsumerAborts, ConsumerFails
      <4>5. CASE ConsumerRecords(e) BY <4>5 DEF ConsumerRecords, ConsumerReturns, ConsumerFails
      <4>6. CASE ConsumerSaves(e) BY <4>6 DEF ConsumerSaves, ConsumerReturns, ConsumerFails
      <4> QED BY <1>9, <4>1, <4>2, <4>3, <4>4, <4>5, <4>6 DEF Consumer
    <3> HIDE DEF k, r, v, d, o, l
    <3> QED BY <3>2, <3>3, <3>4
  <2> QED BY <2>2, <2>3, <2>4, AloneStays
<1> QED BY <1>2, <1>3, <1>4, <1>5, <1>6, <1>7, <1>8, <1>9, WorkerAlone DEF Next, Draining, Boot

\* While leases do not run out, a chat has at most one provider process, on any number of
\* nodes and whatever replies are lost: the release waits for the exit, and a recovery for
\* a new boot of the node, which no child survives.
THEOREM OneSessionHeld ==
  ASSUME ~LeaseCanExpire
  PROVE  Spec => []OneSession
<1>1. Init => OwnerIsAlone BY DEF Init, OwnerIsAlone, NoExec, NoSession, Parked
<1>2. IInv /\ OwnerIsAlone /\ [Next]_vars => OwnerIsAlone' BY AloneStep
<1>3. OwnerIsAlone => OneSession BY DEF OwnerIsAlone, OneSession
<1> QED BY <1>1, <1>2, <1>3, Invariance, PTL DEF Spec

-----------------------------------------------------------------------------
(***************************************************************************)
(* The terminal parts of a message: who may store one, under which number,  *)
(* and when a second is stored beside it.                                   *)
(***************************************************************************)

\* The reader starts at the barrier and fixes the event before it records; the worker
\* settles with a terminal, and a reader that still works then has recorded it.
Reading  == {"read", "record", "save"}
Early    == PrePcs \cup {"none"}
Settling == {"sdone", "sterm", "scomplete"}
Late     == {"fcomplete", "cleanup", "release", "gone"}
Steady(x) ==
  /\ x.pc \in Early => x.cons = "off" /\ x.ev = "none" /\ x.term = "none"
  /\ x.cons = "read" => x.ev = "none"
  /\ x.cons \in {"record", "save"} => x.ev = "adapter"
  /\ x.cons \in {"read", "record"} => x.term = "none"
  /\ x.pc \in Settling => x.term # "none"

\* Past the barrier the attempt has begun; its evidence is the worker's event, under the
\* number of the event, and is there before the reader stores the part.
Past(x) == x.pc \in RunPcs \/ x.ev # "none" \/ x.cons \in Reading
Evidence(e) ==
  /\ Past(exec[e]) => att[e].begun
  /\ att[e].ev # "none" => att[e].ev = exec[e].ev /\ att[e].num = exec[e].num
  /\ exec[e].cons = "save" => att[e].ev # "none"

\* A part is of the begun attempt of its turn.  A part of the adapter has its event.  If
\* the reader still works beside a part of the server, or has an event, it is the part
\* of a failure, after an error part, and the worker stores nothing more.
PartFits(t, e, o) ==
  /\ att[e].begun /\ att[e].turn = t /\ exec[e].pc \notin Early
  /\ o = "adapter" => exec[e].ev = "adapter"
  /\ o = "server" /\ (exec[e].cons \in Reading \/ exec[e].ev = "adapter")
       => exec[e].pc \in Late /\ <<e, "error">> \in parts[t]
PartsFit == \A t \in Turns : \A e \in Epochs, o \in Kinds :
  <<e, o>> \in parts[t] => PartFits(t, e, o)
ErrorFirst == \A e \in Epochs : exec[e].pc = "fdone" => <<e, "error">> \in parts[exec[e].turn]
BothAreLate == \A t \in Turns : \A e \in Epochs :
  <<e, "adapter">> \in parts[t] /\ <<e, "server">> \in parts[t]
    => att[e].ev = "adapter" /\ att[e].num = 2

PartInv ==
  (\A e \in Epochs : Steady(exec[e]) /\ Evidence(e)) /\ PartsFit /\ ErrorFirst /\ BothAreLate

\* How a worker and its reader go on: the event keeps its number, a reader that is over
\* is not started again, and the end of a failure is the end.
GoesOn(x, y) == x.pc \notin Early =>
  /\ y.pc \notin Early /\ y.turn = x.turn
  /\ x.ev # "none" => y.ev = x.ev /\ y.num = x.num
  /\ x.cons \notin Reading => y.cons \notin Reading /\ (y.ev = "adapter" => x.ev = "adapter")
  /\ x.pc \in Late => y.pc \in Late
Advances(e, y) ==
  /\ Steady(y) /\ GoesOn(exec[e], y)
  /\ Past(y) => Past(exec[e]) \/ Begin(e)
  /\ y.pc = "fdone" => exec[e].pc = "fdone" \/ FailError(e)
  /\ y.cons = "save" => exec[e].cons = "save" \/ att'[e].ev = "adapter"
AllAdvance == \A e \in Epochs : Advances(e, exec'[e])

\* One worker advances, and the others stay.
LEMMA OneAdvances ==
  ASSUME TypeOK, NEW e \in Epochs, NEW y, \A f \in Epochs : Steady(exec[f]), Advances(e, y),
         exec' = [exec EXCEPT ![e] = y]
  PROVE  AllAdvance
<1>1. \A f \in Epochs : Advances(f, exec[f]) BY DEF Advances, GoesOn
<1>2. exec'[e] = y /\ \A f \in Epochs : f # e => exec'[f] = exec[f] BY DEF TypeOK
<1> QED BY <1>1, <1>2 DEF AllAdvance

\* A throw advances to a catch block or to the cleanup.
LEMMA ThrowAdvances ==
  ASSUME NEW e \in Epochs, exec[e] \in Execution, Steady(exec[e]),
         exec[e].pc \notin {"none", "gone", "release", "cleanup"}
  PROVE  Advances(e, ThrowFrom(exec[e]))
<1> DEFINE x == exec[e]
<1> USE DEF PrePcs, RunPcs
<1>1. CASE x.pc \in PrePcs
  <2>1. ThrowFrom(x) = [x EXCEPT !.pc = "fprep"] BY <1>1 DEF ThrowFrom
  <2> QED BY <1>1, <2>1 DEF Advances, Steady, GoesOn, Past, Execution, Early, Late, Reading, Settling
<1>2. CASE x.pc \notin PrePcs /\ (x.pc \in {"fprep", "fparts", "fdone", "fcomplete"} \/ x.caught)
  <2>1. ThrowFrom(x) = [x EXCEPT !.pc = "cleanup", !.ok = FALSE] BY <1>2 DEF ThrowFrom
  <2> QED BY <1>2, <2>1 DEF Advances, Steady, GoesOn, Past, Execution, Early, Late, Reading, Settling
<1>3. CASE x.pc \notin PrePcs \cup {"fprep", "fparts", "fdone", "fcomplete"} /\ ~x.caught
  <2>1. ThrowFrom(x) = [x EXCEPT !.pc = "fclose"] BY <1>3 DEF ThrowFrom
  <2>2. x.pc \in RunPcs BY <1>3 DEF Execution, Pcs
  <2> QED BY <1>3, <2>1, <2>2 DEF Advances, Steady, GoesOn, Past, Execution, Early, Late, Reading, Settling
<1> QED BY <1>1, <1>2, <1>3

\* A call returns, or throws.
LEMMA CallAdvances ==
  ASSUME TypeOK, \A f \in Epochs : Steady(exec[f]), NEW e \in Epochs, NEW y, Advances(e, y),
         exec[e].pc \notin {"none", "gone", "release", "cleanup"},
         Returns(e, y) \/ exec' = [exec EXCEPT ![e] = y] \/ Throw(e)
  PROVE  AllAdvance
<1>1. exec[e] \in Execution BY DEF TypeOK
<1>2. Advances(e, ThrowFrom(exec[e])) BY <1>1, ThrowAdvances
<1>3. PICK z : exec' = [exec EXCEPT ![e] = z] /\ Advances(e, z) BY <1>2 DEF Returns, Throw
<1> QED BY <1>3, OneAdvances

\* The steps of a worker.
LEMMA WorkerAdvances ==
  ASSUME IInv, \A f \in Epochs : Steady(exec[f]), NEW e \in Epochs, Worker(e)
  PROVE  AllAdvance
<1> DEFINE x == exec[e]
           Gone == {"none", "gone", "release", "cleanup"}
<1>0. TypeOK /\ exec \in [Epochs -> Execution] /\ x \in Execution /\ Steady(x) BY DEF IInv, TypeOK
<1> USE DEF PrePcs, RunPcs
<1>1. ASSUME NEW from, NEW to, x.pc = from, Returns(e, [x EXCEPT !.pc = to]),
             \/ from \in PrePcs /\ to \in PrePcs
             \/ <<from, to>> \in {<<"accept", "await">>, <<"sterm", "scomplete">>,
                  <<"scomplete", "cleanup">>, <<"fcomplete", "cleanup">>,
                  <<"fprep", "cleanup">>}
      PROVE  AllAdvance
  <2> DEFINE y == [x EXCEPT !.pc = to]
  <2>1. /\ y.pc = to /\ y.cons = x.cons /\ y.ev = x.ev /\ y.num = x.num
        /\ y.term = x.term /\ y.turn = x.turn
    BY <1>0 DEF Execution
  <2> HIDE DEF y
  <2>2. Advances(e, y) BY <1>0, <1>1, <2>1 DEF Advances, Steady, GoesOn, Past, Early, Late, Reading, Settling
  <2>3. x.pc \notin Gone BY <1>1
  <2>4. Returns(e, y) BY <1>1 DEF y
  <2> QED BY <1>0, <2>2, <2>3, <2>4, CallAdvances
<1>2. CASE Reserve(e)
  <2> DEFINE y == [x EXCEPT !.pc = "seal", !.gen = TRUE]
  <2>1. x.pc = "reserve" /\ Returns(e, y) BY <1>2 DEF Reserve
  <2>2. Advances(e, y) BY <1>0, <2>1 DEF Execution, Advances, Steady, GoesOn, Past, Early, Late, Reading, Settling
  <2> QED BY <1>0, <2>1, <2>2, CallAdvances
<1>3. CASE Seal(e)
  <2> DEFINE y == [x EXCEPT !.pc = "prepare", !.op = "prepare"]
  <2>1. x.pc = "seal" /\ Returns(e, y) BY <1>3 DEF Seal
  <2>2. Advances(e, y) BY <1>0, <2>1 DEF Execution, Advances, Steady, GoesOn, Past, Early, Late, Reading, Settling
  <2> QED BY <1>0, <2>1, <2>2, CallAdvances
<1>4. CASE Begin(e)
  <2> DEFINE y == [x EXCEPT !.pc = "submitting", !.call = "flying", !.cons = "read"]
             z == [x EXCEPT !.pc = "fclose", !.cons = "read"]
  <2>1. x.pc = "begin" /\ (Returns(e, y) \/ Returns(e, z)) BY <1>4 DEF Begin
  <2>2. Advances(e, y) /\ Advances(e, z)
    BY <1>0, <1>4, <2>1 DEF Execution, Advances, Steady, GoesOn, Past, Early, Late, Reading, Settling
  <2> HIDE DEF y, z
  <2> QED BY <1>0, <2>1, <2>2, CallAdvances
<1>5. CASE RecordOpen(e) \/ Accept(e) \/ SettleRecords(e) \/ SettleCompletes(e)
           \/ FailCompletes(e) \/ FailPreparation(e)
  BY <1>1, <1>5 DEF RecordOpen, Accept, SettleRecords, SettleCompletes, FailCompletes, Complete,
     FailPreparation
<1>13. CASE FailError(e) \/ FailDone(e)
  <2> DEFINE y == [x EXCEPT !.pc = "fdone", !.seq = 1]
             z == [x EXCEPT !.pc = "fcomplete", !.seq = 2]
  <2>1. \/ FailError(e) /\ x.pc = "fparts" /\ Returns(e, y)
        \/ x.pc = "fdone" /\ Returns(e, z)
    BY <1>13 DEF FailError, FailDone
  <2>2. /\ FailError(e) /\ x.pc = "fparts" => Advances(e, y)
        /\ x.pc = "fdone" => Advances(e, z)
    BY <1>0 DEF Execution, Advances, Steady, GoesOn, Past, Early, Late, Reading, Settling
  <2> HIDE DEF y, z
  <2> QED BY <1>0, <2>1, <2>2, CallAdvances
<1>6. CASE PreparationFails(e) \/ CallFails(e)
  <2>1. x.pc \notin Gone /\ Throw(e) BY <1>6 DEF PreparationFails, CallFails
  <2>2. Advances(e, x) BY <1>0 DEF Advances, GoesOn
  <2> QED BY <1>0, <2>1, <2>2, CallAdvances
<1>7. CASE PrepareEnds(e) \/ OpenEnds(e)
  <2> DEFINE u == [x EXCEPT !.op = "none"]
             v == [u EXCEPT !.launch = TRUE]
             w == [v EXCEPT !.pc = "open", !.op = "open"]
             r == [u EXCEPT !.pc = "recopen"]
             h == [u EXCEPT !.pc = "fprep"]
  <2>1. u.pc = x.pc /\ (x.pc \in PrePcs => ThrowFrom(u) = h) BY <1>0 DEF Execution, ThrowFrom
  <2>2. Advances(e, u) /\ Advances(e, v)
    BY <1>0 DEF Execution, Advances, Steady, GoesOn, Past, Early, Late, Reading, Settling
  <2>3. x.pc \in PrePcs => Advances(e, w) /\ Advances(e, r) /\ Advances(e, h)
    BY <1>0 DEF Execution, Advances, Steady, GoesOn, Past, Early, Late, Reading, Settling
  <2>4. \/ exec' = [exec EXCEPT ![e] = u] \/ exec' = [exec EXCEPT ![e] = v]
        \/ x.pc \in PrePcs /\ \E y \in {w, r, ThrowFrom(u)} : exec' = [exec EXCEPT ![e] = y]
    BY <1>7, <2>1 DEF PrepareEnds, OpenEnds
  <2> HIDE DEF u, v, w, r, h
  <2> QED BY <1>0, <2>1, <2>2, <2>3, <2>4, OneAdvances
<1>8. CASE SubmitReturns(e)
  <2>1. ASSUME NEW pc \in {"accept", "await", "fclose"}, NEW c,
               exec' = [exec EXCEPT ![e].pc = pc, ![e].call = c]
        PROVE  AllAdvance
    <3> DEFINE y == [x EXCEPT !.pc = pc, !.call = c]
    <3>1. x.pc = "submitting" BY <1>8 DEF SubmitReturns
    <3>2. exec' = [exec EXCEPT ![e] = y] BY <1>0, <2>1
    <3>3. Advances(e, y)
      BY <1>0, <2>1, <3>1 DEF Execution, Advances, Steady, GoesOn, Past, Early, Late, Reading, Settling
    <3> HIDE DEF y
    <3> QED BY <1>0, <3>2, <3>3, OneAdvances
  <2> QED BY <1>8, <2>1 DEF SubmitReturns
<1>9. CASE Observed(e)
  <2> DEFINE y == [x EXCEPT !.pc = ToSettle(x), !.term = IF x.term = "none" THEN "lost" ELSE x.term]
  <2>1. x.pc = "await" /\ x.cons \in {"done", "failed"} BY <1>9 DEF Observed
  <2>2. Advances(e, y)
    BY <1>0, <2>1 DEF Execution, Advances, Steady, GoesOn, Past, Early, Late, Reading, Settling, ToSettle
  <2>3. exec' = [exec EXCEPT ![e] = y] \/ Throw(e) BY <1>9 DEF Observed, Throw
  <2> HIDE DEF y
  <2> QED BY <1>0, <2>1, <2>2, <2>3, CallAdvances
<1>10. CASE FailureClosed(e)
  <2> DEFINE y == [x EXCEPT !.pc = "fparts"]
             z == [x EXCEPT !.pc = ToSettle(x), !.caught = TRUE]
  <2>1. x.pc = "fclose" BY <1>10 DEF FailureClosed
  <2>2. Advances(e, y) /\ (x.term # "none" => Advances(e, z))
    BY <1>0, <2>1 DEF Execution, Advances, Steady, GoesOn, Past, Early, Late, Reading, Settling, ToSettle
  <2>3. \/ exec' = [exec EXCEPT ![e] = y]
        \/ x.term # "none" /\ exec' = [exec EXCEPT ![e] = z]
    BY <1>10 DEF FailureClosed
  <2> HIDE DEF y, z
  <2> QED BY <1>0, <2>2, <2>3, OneAdvances
<1>11. CASE PersistTerminalPart(e)
  <2> DEFINE y == [x EXCEPT !.pc = "sterm", !.ev = IF x.ev = "none" THEN "server" ELSE x.ev,
                            !.saved = TRUE]
  <2>1. x.pc = "sdone" /\ Returns(e, y) BY <1>11 DEF PersistTerminalPart
  <2>2. Advances(e, y)
    BY <1>0, <2>1 DEF Execution, Advances, Steady, GoesOn, Past, Early, Late, Reading, Settling
  <2> HIDE DEF y
  <2> QED BY <1>0, <2>1, <2>2, CallAdvances
<1>12. CASE ReleaseLaunch(e) \/ ReleaseRuntime(e)
  <2>1. ASSUME NEW pc \in {"release", "gone"}, x.pc \in {"cleanup", "release"},
               exec' = [exec EXCEPT ![e].pc = pc]
        PROVE  AllAdvance
    <3> DEFINE y == [x EXCEPT !.pc = pc]
    <3>1. exec' = [exec EXCEPT ![e] = y] BY <1>0, <2>1
    <3>2. Advances(e, y)
      BY <1>0, <2>1 DEF Execution, Advances, Steady, GoesOn, Past, Early, Late, Reading, Settling
    <3> HIDE DEF y
    <3> QED BY <1>0, <3>1, <3>2, OneAdvances
  <2>2. exec' = exec => AllAdvance BY DEF AllAdvance, Advances, GoesOn
  <2> QED BY <1>12, <2>1, <2>2 DEF ReleaseLaunch, ReleaseRuntime
<1> QED BY <1>2, <1>3, <1>4, <1>5, <1>6, <1>7, <1>8, <1>9, <1>10, <1>11, <1>12, <1>13 DEF Worker

\* The steps of a reader.
LEMMA ReaderAdvances ==
  ASSUME IInv, \A f \in Epochs : Steady(exec[f]), NEW e \in Epochs, Consumer(e)
  PROVE  AllAdvance
<1> DEFINE x == exec[e]
           a == [x EXCEPT !.cons = "record", !.ev = "adapter", !.num = x.seq]
           d == [x EXCEPT !.cons = "done", !.term = "lost"]
           r == [x EXCEPT !.cons = "save", !.term = prov[e].out]
           s == [x EXCEPT !.cons = "done", !.saved = TRUE]
           l(z) == [z EXCEPT !.cons = "failed", !.term = x.term, !.saved = x.saved]
           b == [x EXCEPT !.cons = "failed"]
<1>0. TypeOK /\ exec \in [Epochs -> Execution] /\ x \in Execution /\ Steady(x) BY DEF IInv, TypeOK
<1>1. x.cons \in Reading
  BY <1>0 DEF Consumer, ConsumeAcceptance, ConsumeTerminal, ConsumeExit, ConsumerAborts, ConsumerRecords,
     ConsumerSaves, Reading
<1>2. Advances(e, x) BY <1>0 DEF Advances, GoesOn
<1>3. x.cons = "read" => Advances(e, a)
  BY <1>0 DEF Execution, Advances, Steady, GoesOn, Past, Early, Late, Reading, Settling, PrePcs, RunPcs
<1>4. Advances(e, d) /\ Advances(e, s) /\ Advances(e, b) /\ Advances(e, l(x)) /\ Advances(e, l(s))
  <2>1. x.pc \notin Early BY <1>0, <1>1 DEF Steady, Reading
  <2>2. ASSUME NEW y, y.pc = x.pc, y.turn = x.turn, y.ev = x.ev, y.num = x.num,
               y.cons \in {"done", "failed"}, y.term \in {x.term, "lost"}
        PROVE  Advances(e, y)
    BY <1>0, <1>1, <2>1, <2>2 DEF Advances, Steady, GoesOn, Past, Reading
  <2>3. \A y \in {d, s, b, l(x), l(s)} :
          /\ y.pc = x.pc /\ y.turn = x.turn /\ y.ev = x.ev /\ y.num = x.num
          /\ y.cons \in {"done", "failed"} /\ y.term \in {x.term, "lost"}
    BY <1>0 DEF Execution
  <2> HIDE DEF d, s, b, l
  <2> QED BY <2>2, <2>3
<1>5. /\ x.cons = "record" /\ att'[e].ev = "adapter" => Advances(e, r)
      /\ x.cons = "record" => Advances(e, l(r))
  BY <1>0 DEF Execution, Advances, Steady, GoesOn, Past, Early, Late, Reading, Settling, PrePcs, RunPcs
<1>6. x.cons = "record" /\ RecordTerminal(e, prov[e].out) => att'[e].ev = "adapter"
  BY <1>0 DEF RecordTerminal, Steady, TypeOK, AttemptRow
<1>7. \/ \E y \in {x, d, s, b, l(x), l(s)} : exec' = [exec EXCEPT ![e] = y]
      \/ x.cons = "read" /\ exec' = [exec EXCEPT ![e] = a]
      \/ /\ x.cons = "record" /\ att'[e].ev = "adapter"
         /\ \E y \in {r, l(r)} : exec' = [exec EXCEPT ![e] = y]
  BY <1>0, <1>6 DEF Consumer, ConsumeAcceptance, ConsumeTerminal, ConsumeExit, ConsumerAborts,
     ConsumerRecords, ConsumerSaves, ConsumerReturns, ConsumerFails
<1> HIDE DEF a, d, r, s, l, b
<1> QED BY <1>0, <1>2, <1>3, <1>4, <1>5, <1>7, OneAdvances

\* Every step.
LEMMA StepAdvances ==
  ASSUME IInv, \A f \in Epochs : Steady(exec[f]), [Next]_vars
  PROVE  AllAdvance
<1>0. TypeOK /\ exec \in [Epochs -> Execution] BY DEF IInv, TypeOK
<1>1. ASSUME exec' = exec PROVE AllAdvance BY <1>1 DEF AllAdvance, Advances, GoesOn
<1>2. ASSUME NEW n \in Nodes, Crash(n) PROVE AllAdvance
  <2> SUFFICES ASSUME NEW f \in Epochs PROVE Advances(f, exec'[f]) BY DEF AllAdvance
  <2>1. exec[f] \in Execution BY <1>0
  <2>2. exec'[f] = exec[f] \/ exec'[f] = Died(exec[f]) BY <1>2 DEF Crash, Died
  <2>3. Advances(f, exec[f]) BY DEF Advances, GoesOn
  <2>4. Advances(f, Died(exec[f]))
    BY <2>1 DEF Died, Execution, Advances, Steady, GoesOn, Past, Early, Late, Reading, Settling, PrePcs, RunPcs
  <2> QED BY <2>2, <2>3, <2>4
<1>3. ASSUME NEW n \in Nodes, NEW p \in Turns, NEW r \in Turns, ClaimTurn(n, p, r) PROVE AllAdvance
  <2> DEFINE e == chat.epoch + 1
             x == [NoExec EXCEPT !.node = n, !.turn = r, !.input = p, !.cfg = ClaimConfiguration(p),
                      !.no = turn'[p].no, !.pc = "reserve"]
  <2>1. e \in Epochs /\ (exec' = exec \/ exec' = [exec EXCEPT ![e] = x]) BY <1>3 DEF ClaimTurn
  <2>2. exec[e] = NoExec BY <2>1 DEF IInv, FutureIsEmpty, TypeOK, ChatRow
  <2>3. x.pc = "reserve" /\ x.cons = "off" /\ x.ev = "none" /\ x.term = "none" /\ NoExec.pc = "none"
    BY DEF NoExec
  <2> HIDE DEF x
  <2>4. Advances(e, x)
    BY <2>2, <2>3 DEF Advances, Steady, GoesOn, Past, Early, Late, Reading, Settling, PrePcs, RunPcs
  <2> QED BY <1>0, <1>1, <2>1, <2>4, OneAdvances
<1>4. ASSUME NEW n \in Nodes, Draining(n) \/ Boot(n) PROVE AllAdvance
  BY <1>1, <1>3, <1>4 DEF Draining, StartDrain, ClaimNothing, DrainReturns, Boot, BootScan,
     BootRecover, BootWake
<1>5. ASSUME NEW e \in Epochs, Mint(e) \/ Provider(e) PROVE AllAdvance
  BY <1>1, <1>5 DEF Mint, Provider, ProviderTakes, ProviderFinishes, ProviderExits
<1>6. CASE UNCHANGED vars \/ LeaseExpire \/ Posting
  BY <1>1, <1>6 DEF vars, LeaseExpire, Posting, PostBegin, PostCommit, SetConfiguration
<1> QED BY <1>2, <1>4, <1>5, <1>6, WorkerAdvances, ReaderAdvances DEF Next

\* The evidence of an attempt stays the event of its worker.
LEMMA EvidenceStep ==
  ASSUME IInv, \A f \in Epochs : Steady(exec[f]) /\ Evidence(f), AllAdvance, [Next]_vars, NEW e \in Epochs
  PROVE  /\ Evidence(e)'
         /\ att[e].begun => att'[e].begun /\ att'[e].turn = att[e].turn
         /\ att[e].ev # "none" => att'[e].ev # "none"
<1> DEFINE x == exec[e]
           y == exec'[e]
<1>0. /\ TypeOK /\ att \in [Epochs -> AttemptRow] /\ att[e] \in AttemptRow /\ x \in Execution
      /\ Steady(x) /\ Evidence(e) /\ Advances(e, y)
  BY DEF IInv, TypeOK, AllAdvance
<1>1. att[e].begun => att'[e].begun /\ att'[e].turn = att[e].turn
  <2>1. CASE \E f \in Epochs : Begin(f)
    BY <1>0, <2>1 DEF Begin, AttemptRow
  <2>2. CASE \A f \in Epochs : ~Begin(f)
    BY <2>2, BarriersStay DEF SameBarriers, SameBarrier
  <2> QED BY <2>1, <2>2
<1>2. Past(y) => att'[e].begun
  <2>1. Begin(e) => att'[e].begun BY <1>0 DEF Begin, AttemptRow
  <2> QED BY <1>0, <1>1, <2>1 DEF Advances, Evidence
<1>3. x.ev # "none" => y.ev = x.ev /\ y.num = x.num
  BY <1>0 DEF Steady, Advances, GoesOn
<1>4. y.cons = "save" => x.cons = "save" \/ att'[e].ev # "none"
  BY <1>0 DEF Advances
<1>5. CASE Seal(e)
  <2>1. x.ev = "none" /\ x.cons = "off" BY <1>0, <1>5 DEF Seal, Steady, Early, PrePcs
  <2>2. att'[e].ev = "none" BY <1>0, <1>5 DEF Seal, NoAttempt
  <2> QED BY <1>0, <1>1, <1>2, <1>4, <2>1, <2>2 DEF Evidence
<1>6. CASE ConsumerRecords(e) \/ SettleRecords(e) \/ SettleCompletes(e)
  <2>1. \/ att'[e].ev = att[e].ev /\ att'[e].num = att[e].num
        \/ att'[e].ev = x.ev /\ att'[e].num = x.num
    BY <1>0, <1>6 DEF ConsumerRecords, SettleRecords, RecordTerminal, SettleCompletes, Complete, AttemptRow
  <2> QED BY <1>0, <1>1, <1>2, <1>3, <1>4, <2>1 DEF Evidence
<1>7. CASE ~(Seal(e) \/ ConsumerRecords(e) \/ SettleRecords(e) \/ SettleCompletes(e))
  <2>1. EvidenceKept(e) BY <1>7, EvidenceStays
  <2> QED BY <1>0, <1>1, <1>2, <1>3, <1>4, <2>1 DEF Evidence, EvidenceKept
<1> QED BY <1>5, <1>6, <1>7

\* Who stores a part: the reader, the worker when it settles, the worker when it fails,
\* and the recovery.
Stores(t, e, o) ==
  \/ ConsumerSaves(e) /\ CanSave(e) /\ exec[e].turn = t /\ o = "adapter"
  \/ /\ PersistTerminalPart(e) /\ exec[e].turn = t
     /\ o = IF exec[e].ev = "none" THEN "server" ELSE exec[e].ev
  \/ FailError(e) /\ exec[e].turn = t /\ o = "error"
  \/ FailDone(e) /\ exec[e].turn = t /\ o = "server"
  \/ FinalizeTerminal(t) /\ e = turn[t].snap /\ o = att[e].ev /\ exec' = exec
Stored(t, e, o) == Stores(t, e, o) /\ parts'[t] = parts[t] \cup {<<e, o>>}

LEMMA PartsStored ==
  ASSUME IInv, [Next]_vars, NEW t \in Turns
  PROVE  parts'[t] = parts[t] \/ \E e \in Epochs, o \in Kinds : Stored(t, e, o)
<1> USE DEF IInv
<1>1. ASSUME NEW u \in Turns, NEW e \in Epochs, NEW o \in Kinds,
             parts' = [parts EXCEPT ![u] = @ \cup {<<e, o>>}], t = u => Stores(t, e, o)
      PROVE  parts'[t] = parts[t] \/ Stored(t, e, o)
  BY <1>1 DEF TypeOK, Stored
<1>2. ASSUME NEW e \in Epochs, Worker(e)
      PROVE  parts'[t] = parts[t] \/ \E o \in Kinds : Stored(t, e, o)
  <2>1. ASSUME NEW o \in Kinds, exec[e].pc # "none", Append(e, o),
               t = exec[e].turn => Stores(t, e, o)
        PROVE  parts'[t] = parts[t] \/ \E k \in Kinds : Stored(t, e, k)
    <3>1. exec[e].turn \in Turns BY <2>1, Started
    <3> QED BY <1>1, <2>1, <3>1 DEF Append
  <2>2. CASE PersistTerminalPart(e)
    <3> DEFINE o == IF exec[e].ev = "none" THEN "server" ELSE exec[e].ev
    <3>1. exec[e].pc # "none" /\ Append(e, o) BY <2>2 DEF PersistTerminalPart
    <3>2. o \in Kinds BY DEF TypeOK, Execution, Kinds, Origins
    <3>3. t = exec[e].turn => Stores(t, e, o) BY <2>2 DEF Stores
    <3> HIDE DEF o
    <3> QED BY <2>1, <3>1, <3>2, <3>3
  <2>3. CASE FailError(e)
    <3>1. exec[e].pc # "none" /\ Append(e, "error") BY <2>3 DEF FailError
    <3>2. t = exec[e].turn => Stores(t, e, "error") BY <2>3 DEF Stores
    <3> QED BY <2>1, <3>1, <3>2 DEF Kinds
  <2>4. CASE FailDone(e)
    <3>1. exec[e].pc # "none" /\ Append(e, "server") BY <2>4 DEF FailDone
    <3>2. t = exec[e].turn => Stores(t, e, "server") BY <2>4 DEF Stores
    <3> QED BY <2>1, <3>1, <3>2 DEF Kinds, Origins
  <2>5. CASE ~(PersistTerminalPart(e) \/ FailError(e) \/ FailDone(e))
    <3>1. parts' = parts
      BY <1>2, <2>5 DEF Worker, Reserve, Seal, PrepareEnds, OpenEnds, PreparationFails, RecordOpen,
         Begin, SubmitReturns, Accept, RecordAcceptance, Observed, FailureClosed, SettleRecords,
         SettleCompletes, FailCompletes, Complete, FailPreparation, CallFails, ReleaseLaunch,
         ReleaseRuntime, db
    <3> QED BY <3>1
  <2> QED BY <2>2, <2>3, <2>4, <2>5
<1>3. ASSUME NEW e \in Epochs, Consumer(e)
      PROVE  parts'[t] = parts[t] \/ \E o \in Kinds : Stored(t, e, o)
  <2>1. CASE ConsumerSaves(e) /\ CanSave(e)
    <3>1. exec[e].turn \in Turns BY <2>1, Started DEF ConsumerSaves
    <3>2. parts' = [parts EXCEPT ![exec[e].turn] = @ \cup {<<e, "adapter">>}]
      BY <2>1 DEF ConsumerSaves, Append
    <3>3. t = exec[e].turn => Stores(t, e, "adapter") BY <2>1 DEF Stores
    <3>4. "adapter" \in Kinds BY DEF Kinds, Origins
    <3> QED BY <1>1, <3>1, <3>2, <3>3, <3>4
  <2>2. CASE ~(ConsumerSaves(e) /\ CanSave(e))
    <3>1. parts' = parts
      BY <1>3, <2>2 DEF Consumer, ConsumeAcceptance, RecordAcceptance, ConsumeTerminal, ConsumeExit,
         ConsumerAborts, ConsumerRecords, ConsumerSaves, db
    <3> QED BY <3>1
  <2> QED BY <2>1, <2>2
<1>4. ASSUME NEW n \in Nodes, BootRecover(n)
      PROVE  parts'[t] = parts[t] \/ \E e \in Epochs, o \in Kinds : Stored(t, e, o)
  <2> DEFINE u == node[n].row
  <2>1. u \in Turns BY <1>4 DEF BootRecover, RecoveryHasRow
  <2>2. CASE FinalizeTerminal(u)
    <3> DEFINE s == turn[u].snap
               o == att[s].ev
    <3>1. s \in Epochs /\ att[s].proof \in {"completed", "failed"}
      BY <2>1, <2>2 DEF FinalizeTerminal, HasTerminal, SnapshotIsCurrent
    <3>2. o \in Kinds BY <3>1 DEF TypeOK, AttemptRow, TerminalHasEvent, Kinds
    <3>3. parts' = [parts EXCEPT ![u] = @ \cup {<<s, o>>}] BY <2>2 DEF FinalizeTerminal
    <3>4. t = u => Stores(t, s, o) BY <1>4, <2>2 DEF Stores, BootRecover
    <3> HIDE DEF o, s, u
    <3> QED BY <1>1, <2>1, <3>1, <3>2, <3>3, <3>4
  <2>3. parts' = parts \/ FinalizeTerminal(u)
    BY <1>4 DEF BootRecover, Recover, ReleaseSettled, RetryPrepared, SettleUnknown, db
  <2> QED BY <2>2, <2>3
<1>5. ASSUME NEW e \in Epochs, Mint(e) \/ Provider(e) PROVE parts' = parts
  BY <1>5 DEF Mint, Provider, ProviderTakes, ProviderFinishes, ProviderExits, db
<1>6. ASSUME NEW n \in Nodes, Draining(n) \/ BootScan(n) \/ BootWake(n) \/ Crash(n) PROVE parts' = parts
  BY <1>6 DEF Draining, StartDrain, ClaimNothing, ClaimTurn, DrainReturns, BootScan, BootWake, Crash, db
<1>7. CASE UNCHANGED vars \/ LeaseExpire \/ Posting
  <2>1. parts' = parts
    BY <1>7 DEF vars, LeaseExpire, Posting, PostBegin, PostCommit, SetConfiguration
  <2> QED BY <2>1
<1> QED BY <1>2, <1>3, <1>4, <1>5, <1>6, <1>7 DEF Next, Boot

\* A part that is stored is of the begun attempt of its turn and fits its worker.  The
\* adapter's goes beside the server's only under the third number, and the server's never
\* beside the adapter's.
StoredWell(t, e, o) ==
  /\ PartFits(t, e, o)'
  /\ o = "adapter" /\ <<e, "server">> \in parts[t] => att[e].ev = "adapter" /\ att[e].num = 2
  /\ o = "server" => <<e, "adapter">> \notin parts[t]

LEMMA StoredFits ==
  ASSUME IInv, PartInv, AllAdvance, [Next]_vars, NEW t \in Turns, NEW e \in Epochs, NEW o \in Kinds,
         Stored(t, e, o)
  PROVE  StoredWell(t, e, o)
<1> DEFINE x == exec[e]
           y == exec'[e]
<1>0. /\ TypeOK /\ exec \in [Epochs -> Execution] /\ x \in Execution /\ x.num \in Numbers
      /\ Steady(x) /\ Evidence(e) /\ Advances(e, y)
  BY DEF PartInv, IInv, TypeOK, AllAdvance, Execution
<1>1. att[e].begun => att'[e].begun /\ att'[e].turn = att[e].turn
  BY EvidenceStep DEF PartInv
<1>2. \A k \in Kinds : <<e, k>> \in parts[t] => PartFits(t, e, k) BY DEF PartInv, PartsFit
<1>3. "adapter" \in Kinds /\ "server" \in Kinds /\ "error" \in Kinds BY DEF Kinds, Origins
<1>4. turn[t].snap = e => att[e].turn = t
  <2>1. e # 0 BY DEF Epochs
  <2> QED BY <2>1 DEF IInv, SnapshotIsCurrent
<1>5. ASSUME <<e, "server">> \in parts[t], x.ev = "adapter"
      PROVE  x.pc \in Late /\ <<e, "error">> \in parts[t]
  BY <1>2, <1>3, <1>5 DEF PartFits
\* An adapter's part under a number that is not taken.
<1>6. ASSUME <<e, "server">> \in parts[t], x.ev = "adapter", ~Taken(t, e, x.num)
      PROVE  x.num = 2
  BY <1>0, <1>5, <1>6 DEF Taken, Numbers
<1>7. ASSUME CanAppend(e), x.turn = t, Past(x) PROVE att'[e].begun /\ att'[e].turn = t
  <2>1. turn[t].snap = e BY <1>7 DEF CanAppend
  <2> QED BY <1>0, <1>1, <1>4, <1>7, <2>1 DEF Evidence
<1>8. CASE ConsumerSaves(e) /\ CanSave(e) /\ x.turn = t /\ o = "adapter"
  <2>1. x.cons = "save" BY <1>8 DEF ConsumerSaves
  <2>2. x.ev = "adapter" /\ x.pc \notin Early /\ Past(x) /\ att[e].ev = "adapter" /\ att[e].num = x.num
    BY <1>0, <2>1 DEF Steady, Past, Reading, Evidence
  <2>3. y.ev = "adapter" /\ y.pc \notin Early BY <1>0, <2>2 DEF Advances, GoesOn
  <2>4. att'[e].begun /\ att'[e].turn = t BY <1>7, <1>8, <2>2 DEF CanSave
  <2>5. <<e, "server">> \in parts[t] => x.num = 2 BY <1>6, <1>8, <2>2 DEF CanSave
  <2> QED BY <1>8, <2>2, <2>3, <2>4, <2>5 DEF StoredWell, PartFits
<1>9. CASE PersistTerminalPart(e) /\ x.turn = t /\ o = IF x.ev = "none" THEN "server" ELSE x.ev
  <2>1. x.pc = "sdone" /\ CanAppend(e) BY <1>9 DEF PersistTerminalPart
  <2>2. x.pc \notin Early /\ x.pc \notin Late /\ Past(x) /\ (x.cons \in Reading => x.ev = "adapter")
    BY <1>0, <2>1 DEF Steady, Early, Late, Past, PrePcs, RunPcs, Settling, Reading
  <2>3. x.ev \in {"none", "server", "adapter"} BY <1>0 DEF Execution, Origins
  <2>4. y.pc \notin Early BY <1>0, <2>2 DEF Advances, GoesOn
  <2>5. att'[e].begun /\ att'[e].turn = t BY <1>7, <1>9, <2>1, <2>2
  <2>6. CASE o = "adapter"
    <3>1. x.ev = "adapter" BY <1>9, <2>3, <2>6
    <3>2. y.ev = "adapter" BY <1>0, <2>2, <3>1 DEF Advances, GoesOn
    <3>3. <<e, "server">> \notin parts[t] BY <1>5, <2>2, <3>1
    <3> QED BY <2>4, <2>5, <2>6, <3>2, <3>3 DEF StoredWell, PartFits
  <2>7. CASE o = "server"
    <3>1. x.ev # "adapter" BY <1>9, <2>3, <2>7
    <3>2. x.cons \notin Reading BY <2>2, <3>1
    <3>3. y.cons \notin Reading /\ y.ev # "adapter" BY <1>0, <2>2, <3>1, <3>2 DEF Advances, GoesOn
    <3>4. <<e, "adapter">> \notin parts[t] BY <1>2, <1>3, <3>1 DEF PartFits
    <3> QED BY <2>4, <2>5, <2>7, <3>3, <3>4 DEF StoredWell, PartFits
  <2> QED BY <1>9, <2>3, <2>6, <2>7
<1>10. CASE FailError(e) /\ x.turn = t /\ o = "error"
  <2>1. x.pc = "fparts" /\ CanAppend(e) BY <1>10 DEF FailError, CanFailParts
  <2>2. x.pc \notin Early /\ Past(x) BY <2>1 DEF Early, Past, Reading, PrePcs, RunPcs
  <2>3. y.pc \notin Early BY <1>0, <2>2 DEF Advances, GoesOn
  <2>4. att'[e].begun /\ att'[e].turn = t BY <1>7, <1>10, <2>1, <2>2
  <2> QED BY <1>10, <2>3, <2>4 DEF StoredWell, PartFits
<1>11. CASE FailDone(e) /\ x.turn = t /\ o = "server"
  <2>1. x.pc = "fdone" /\ CanAppend(e) /\ <<e, "adapter">> \notin parts[t]
    BY <1>11 DEF FailDone, CanFailParts, HasPart
  <2>2. x.pc \notin Early /\ Past(x) BY <2>1 DEF Early, Past, Reading, PrePcs, RunPcs
  <2>3. y.pc \in Late
    <3> DEFINE u == [x EXCEPT !.pc = "fcomplete", !.seq = 2]
               z == [x EXCEPT !.pc = "cleanup", !.ok = FALSE]
    <3>1. ThrowFrom(x) = z BY <2>1 DEF ThrowFrom, PrePcs
    <3>2. u.pc \in Late /\ z.pc \in Late BY <1>0 DEF Execution, Late
    <3>3. exec' = [exec EXCEPT ![e] = u] \/ exec' = [exec EXCEPT ![e] = z]
      BY <1>11, <3>1 DEF FailDone, Returns, Throw
    <3> HIDE DEF u, z
    <3> QED BY <1>0, <3>2, <3>3
  <2>4. y.pc \notin Early BY <1>0, <2>2 DEF Advances, GoesOn
  <2>5. <<e, "error">> \in parts'[t] BY <1>11, <2>1 DEF PartInv, ErrorFirst, Stored
  <2>6. att'[e].begun /\ att'[e].turn = t BY <1>7, <1>11, <2>1, <2>2
  <2> QED BY <1>11, <2>1, <2>3, <2>4, <2>5, <2>6 DEF StoredWell, PartFits
<1>12. CASE FinalizeTerminal(t) /\ e = turn[t].snap /\ o = att[e].ev /\ exec' = exec
  <2>1. att[e].turn = t /\ att[e].proof \in {"completed", "failed"} /\ ~Conflicts(t)
    BY <1>4, <1>12 DEF FinalizeTerminal, HasTerminal
  <2>2. att[e].ev \in {"adapter", "server"}
    BY <2>1 DEF IInv, TypeOK, AttemptRow, TerminalHasEvent, Origins
  <2>3. att[e].ev = x.ev /\ att[e].num = x.num BY <1>0, <2>2 DEF Evidence
  <2>4. x.pc \notin Early /\ Past(x) BY <1>0, <2>2, <2>3 DEF Steady, Past, Reading
  <2>5. att'[e].begun /\ att'[e].turn = t BY <1>0, <1>1, <2>1, <2>4 DEF Evidence
  <2>6. y = x BY <1>12
  <2>7. CASE o = "adapter"
    <3>1. x.ev = "adapter" BY <1>12, <2>3, <2>7
    <3>2. ASSUME <<e, "server">> \in parts[t] PROVE x.num = 2
      <4>1. CASE <<e, "adapter">> \in parts[t]
        BY <2>3, <3>2, <4>1 DEF PartInv, BothAreLate
      <4>2. CASE <<e, "adapter">> \notin parts[t]
        <5>1. ~Taken(t, e, x.num) BY <1>12, <2>1, <2>3, <3>1, <4>2 DEF Conflicts
        <5> QED BY <1>6, <3>1, <3>2, <5>1
      <4> QED BY <4>1, <4>2
    <3> QED BY <2>3, <2>4, <2>5, <2>6, <2>7, <3>1, <3>2 DEF StoredWell, PartFits
  <2>8. CASE o = "server"
    <3>1. x.ev = "server" BY <1>12, <2>3, <2>8
    <3>2. x.cons \notin Reading BY <1>0, <3>1 DEF Steady, Reading
    <3>3. <<e, "adapter">> \notin parts[t] BY <1>2, <1>3, <3>1 DEF PartFits
    <3> QED BY <2>4, <2>5, <2>6, <2>8, <3>1, <3>2, <3>3 DEF StoredWell, PartFits
  <2> QED BY <1>12, <2>2, <2>7, <2>8
<1> QED BY <1>8, <1>9, <1>10, <1>11, <1>12 DEF Stored, Stores

\* A part that fits its worker goes on fitting.
LEMMA FittingStays ==
  ASSUME IInv, PartInv, AllAdvance, [Next]_vars, NEW t \in Turns, NEW e \in Epochs, NEW o \in Kinds,
         PartFits(t, e, o)
  PROVE  PartFits(t, e, o)'
<1>1. att'[e].begun /\ att'[e].turn = t BY EvidenceStep DEF PartInv, PartFits
<1>2. parts[t] \subseteq parts'[t] BY PartsStay
<1>3. Advances(e, exec'[e]) /\ Steady(exec[e]) BY DEF PartInv, AllAdvance
<1> QED BY <1>1, <1>2, <1>3 DEF PartFits, Advances, GoesOn

LEMMA PartStep ==
  ASSUME IInv, PartInv, [Next]_vars
  PROVE  PartInv'
<1>1. AllAdvance BY StepAdvances DEF PartInv
<1>2. \A e \in Epochs : Steady(exec'[e]) BY <1>1 DEF AllAdvance, Advances
<1>3. \A e \in Epochs : /\ Evidence(e)'
                        /\ att[e].ev # "none" => att'[e].ev # "none"
  BY <1>1, EvidenceStep DEF PartInv
<1>4. ASSUME NEW t \in Turns, parts'[t] # parts[t]
      PROVE  \E e \in Epochs, o \in Kinds :
               StoredWell(t, e, o) /\ parts'[t] = parts[t] \cup {<<e, o>>}
  BY <1>1, <1>4, PartsStored, StoredFits DEF Stored
<1>5. PartsFit'
  <2> SUFFICES ASSUME NEW t \in Turns, NEW e \in Epochs, NEW o \in Kinds, <<e, o>> \in parts'[t]
               PROVE  PartFits(t, e, o)'
    BY DEF PartsFit
  <2>1. CASE <<e, o>> \in parts[t] BY <1>1, <2>1, FittingStays DEF PartInv, PartsFit
  <2>2. CASE <<e, o>> \notin parts[t]
    <3>1. PICK f \in Epochs, k \in Kinds :
            StoredWell(t, f, k) /\ parts'[t] = parts[t] \cup {<<f, k>>}
      BY <1>4, <2>2
    <3>2. f = e /\ k = o BY <2>2, <3>1
    <3> QED BY <3>1, <3>2 DEF StoredWell
  <2> QED BY <2>1, <2>2
<1>6. ErrorFirst'
  <2> SUFFICES ASSUME NEW e \in Epochs, exec'[e].pc = "fdone"
               PROVE  <<e, "error">> \in parts'[exec'[e].turn]
    BY DEF ErrorFirst
  <2>1. Advances(e, exec'[e]) BY <1>1 DEF AllAdvance
  <2>2. exec[e].pc = "fdone" \/ FailError(e) BY <2>1 DEF Advances
  <2>3. exec[e].pc \in {"fparts", "fdone"} BY <2>2 DEF FailError
  <2>4. exec'[e].turn = exec[e].turn
    BY <2>1, <2>3 DEF Advances, GoesOn, Early, PrePcs
  <2>5. exec[e].turn \in Turns BY <2>3, Started
  <2>6. CASE exec[e].pc = "fdone"
    BY <2>4, <2>5, <2>6, PartsStay DEF PartInv, ErrorFirst
  <2>7. CASE FailError(e) BY <2>4, <2>5, <2>7 DEF FailError, Append, IInv, TypeOK
  <2> QED BY <2>2, <2>6, <2>7
<1>7. BothAreLate'
  <2> SUFFICES ASSUME NEW t \in Turns, NEW e \in Epochs,
                      <<e, "adapter">> \in parts'[t], <<e, "server">> \in parts'[t]
               PROVE  att'[e].ev = "adapter" /\ att'[e].num = 2
    BY DEF BothAreLate
  <2>1. att[e].ev = "adapter" /\ att[e].num = 2
    <3>1. CASE <<e, "adapter">> \in parts[t] /\ <<e, "server">> \in parts[t]
      BY <3>1 DEF PartInv, BothAreLate
    <3>2. CASE <<e, "adapter">> \notin parts[t]
      <4>1. PICK f \in Epochs, k \in Kinds :
              StoredWell(t, f, k) /\ parts'[t] = parts[t] \cup {<<f, k>>}
        BY <1>4, <3>2
      <4>2. f = e /\ k = "adapter" BY <3>2, <4>1
      <4>3. <<e, "server">> \in parts[t] BY <4>1, <4>2
      <4> QED BY <4>1, <4>2, <4>3 DEF StoredWell
    <3>3. CASE <<e, "server">> \notin parts[t]
      <4>1. PICK f \in Epochs, k \in Kinds :
              StoredWell(t, f, k) /\ parts'[t] = parts[t] \cup {<<f, k>>}
        BY <1>4, <3>3
      <4>2. f = e /\ k = "server" BY <3>3, <4>1
      <4>3. <<e, "adapter">> \in parts[t] BY <4>1, <4>2
      <4> QED BY <4>1, <4>2, <4>3 DEF StoredWell
    <3> QED BY <3>1, <3>2, <3>3
  <2>2. exec[e].ev = "adapter" /\ exec[e].num = 2 BY <2>1 DEF PartInv, Evidence
  <2>3. exec'[e].ev = exec[e].ev /\ exec'[e].num = exec[e].num
    BY <1>1, <2>2 DEF PartInv, AllAdvance, Advances, GoesOn, Steady
  <2> QED BY <1>3, <2>1, <2>2, <2>3 DEF Evidence
<1> QED BY <1>2, <1>3, <1>5, <1>6, <1>7 DEF PartInv, Steady

\* chat/fenced-turn.ts: the message of a turn "must not gain a second done".  The reader, the
\* worker and the recoveries may each store a terminal part, also long after the close
\* deadlines and on a later boot; a second one is stored only if the reader read its terminal
\* after the reply to the failure's own done part, and no two attempts ever store one each.
THEOREM SecondDoneOnlyLate == Spec => []SecondDoneIsLate
<1>1. Init => PartInv
  BY DEF Init, PartInv, Steady, Evidence, Past, PartsFit, ErrorFirst, BothAreLate, NoExec, NoAttempt,
     Reading, RunPcs, Settling
<1>2. IInv /\ PartInv => SecondDoneIsLate
  <2> SUFFICES ASSUME IInv, PartInv, NEW t \in Turns, NEW p \in DoneParts(t), NEW q \in DoneParts(t),
                      p # q
               PROVE  p[1] = turn[t].snap /\ q[1] = turn[t].snap /\ att[turn[t].snap].num = 2
    BY DEF SecondDoneIsLate
  <2>1. ASSUME NEW r \in DoneParts(t)
        PROVE  /\ r = <<r[1], r[2]>> /\ r \in parts[t] /\ r[2] \in {"adapter", "server"}
               /\ r[1] \in Epochs /\ turn[t].snap = r[1]
    <3>1. r \in parts[t] /\ r[2] # "error" BY DEF DoneParts
    <3>2. r \in Epochs \X Kinds BY <3>1 DEF IInv, TypeOK
    <3>3. r = <<r[1], r[2]>> /\ r[1] \in Epochs /\ r[2] \in Kinds BY <3>2
    <3>4. r[2] \in {"adapter", "server"} BY <3>1, <3>3 DEF Kinds, Origins
    <3>5. PartFits(t, r[1], r[2]) BY <3>1, <3>3 DEF PartInv, PartsFit
    <3>6. turn[t].snap = r[1] BY <3>3, <3>5, BegunFacts DEF PartFits
    <3> QED BY <3>1, <3>3, <3>4, <3>6
  <2> DEFINE s == turn[t].snap
  <2>2. s \in Epochs /\ p = <<s, p[2]>> /\ q = <<s, q[2]>> BY <2>1
  <2>3. {p[2], q[2]} = {"adapter", "server"} BY <2>1, <2>2
  <2>4. <<s, "adapter">> \in parts[t] /\ <<s, "server">> \in parts[t] BY <2>1, <2>2, <2>3
  <2>5. att[s].num = 2 BY <2>2, <2>4 DEF PartInv, BothAreLate
  <2> QED BY <2>1, <2>5
<1>3. IInv /\ PartInv /\ [Next]_vars => PartInv' BY PartStep
<1> QED BY <1>1, <1>2, <1>3, Invariance, PTL DEF Spec
=============================================================================
