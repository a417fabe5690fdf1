------------------------ MODULE ChatContinuitySteps ------------------------
(***************************************************************************)
(* What the steps of ChatContinuity do to the inductive invariant: the quiet*)
(* steps together, then each step that changes a turn or an attempt.       *)
(***************************************************************************)
EXTENDS ChatContinuityTypes

-----------------------------------------------------------------------------
(***************************************************************************)
(* What every step but a claim leaves of the workers, attempts and          *)
(* sessions.                                                               *)
(***************************************************************************)

\* No worker loses what the claim gave it, one reaches the completion only with a
\* recorded terminal and the submission only past the barrier.
WorkerGoesOn(e) ==
  LET x == exec[e]
      y == exec'[e]
  IN
  \/ y = x
  \/ /\ x.pc # "none" /\ y.pc # "none" /\ HasEvent(y)
     /\ y.turn = x.turn /\ y.no = x.no /\ y.input = x.input /\ y.cfg = x.cfg
     /\ y.pc = "scomplete" => x.pc = "scomplete" \/ att'[e].ev # "none"
     /\ y.call = "flying" \/ y.pc = "submitting"
          => x.call = "flying" \/ x.pc = "submitting" \/ att'[e].begun
WorkersGoOn == \A e \in Epochs : WorkerGoesOn(e)

AttemptsGoOn == \A e \in Epochs :
  /\ att[e].begun => att'[e].begun
  /\ exec[e].pc = "scomplete" => att'[e].ev # "none"
  /\ att'[e].proof \in {"completed", "failed"} => att'[e].ev # "none"
  /\ e > chat'.epoch => att'[e] = att[e]

SessionsGoOn == \A e \in Epochs :
  /\ \/ prov'[e].got = prov[e].got
     \/ exec[e].call = "flying" /\ prov'[e].got = exec[e].input
  /\ e > chat'.epoch => prov'[e] = prov[e]

NoneStarts == \A t \in Turns : turn'[t].st = "running" =>
  turn[t].st = "running" /\ turn'[t].cfg = turn[t].cfg /\ chat'.epoch = chat.epoch

\* These four are enough for the parts of the invariant about single workers.
LEMMA WorkersStep ==
  ASSUME IInv, WorkersGoOn, AttemptsGoOn, SessionsGoOn, NoneStarts,
         chat'.epoch \in {chat.epoch, chat.epoch + 1}
  PROVE  TerminalHasEvent' /\ FutureIsEmpty' /\ SubmissionIsBegun' /\ ClaimMatches'
<1> USE DEF IInv
<1>1. TerminalHasEvent' BY DEF WorkersGoOn, WorkerGoesOn, AttemptsGoOn, TerminalHasEvent
<1>2. FutureIsEmpty'
  <2>1. chat.epoch \in Nat BY DEF TypeOK, ChatRow
  <2>2. SUFFICES ASSUME NEW e \in Epochs, e > chat'.epoch
                 PROVE  exec'[e] = NoExec /\ att'[e] = NoAttempt /\ prov'[e] = NoSession
    BY DEF FutureIsEmpty
  <2>3. e > chat.epoch BY <2>1, <2>2 DEF Epochs
  <2>4. exec[e] = NoExec /\ att[e] = NoAttempt /\ prov[e] = NoSession BY <2>3 DEF FutureIsEmpty
  <2>5. exec[e].pc = "none" BY <2>4 DEF NoExec
  <2> QED BY <2>2, <2>4, <2>5 DEF WorkersGoOn, WorkerGoesOn, AttemptsGoOn, SessionsGoOn
<1>3. SubmissionIsBegun'
  BY DEF WorkersGoOn, WorkerGoesOn, AttemptsGoOn, SessionsGoOn, SubmissionIsBegun
<1>4. ClaimMatches'
  <2>1. chat.epoch \in Nat BY DEF TypeOK, ChatRow
  <2>2. SUFFICES ASSUME NEW e \in Epochs
                 PROVE  IF exec'[e].pc = "none" THEN exec'[e] = NoExec
                        ELSE /\ exec'[e].turn \in Turns /\ exec'[e].input \in Turns
                             /\ exec'[e].cfg # 0
                             /\ chat'.epoch = e /\ turn'[exec'[e].turn].st = "running"
                                  /\ exec'[e].turn # exec'[e].input
                                  => turn'[exec'[e].turn].cfg = 0
    BY DEF ClaimMatches
  <2>3. CASE exec[e].pc = "none"
    BY <2>3 DEF ClaimMatches, WorkersGoOn, WorkerGoesOn
  <2>4. CASE exec[e].pc # "none"
    <3>1. /\ exec'[e].turn = exec[e].turn /\ exec'[e].input = exec[e].input
          /\ exec'[e].cfg = exec[e].cfg /\ exec'[e].pc # "none"
      BY <2>4 DEF WorkersGoOn, WorkerGoesOn
    <3> QED BY <2>4, <3>1 DEF ClaimMatches, NoneStarts
  <2> QED BY <2>3, <2>4
<1> QED BY <1>1, <1>2, <1>3, <1>4

\* A worker that keeps its claim goes on.
LEMMA KeepsGoesOn ==
  ASSUME IInv, NEW e \in Epochs, Keeps(e)
  PROVE  WorkersGoOn
  BY DEF Keeps, Kept, WorkersGoOn, WorkerGoesOn, IInv, TypeOK

\* Workers nobody touches go on.
LEMMA SameWorkers ==
  ASSUME exec' = exec
  PROVE  WorkersGoOn
  BY DEF WorkersGoOn, WorkerGoesOn

\* The barrier moves its worker to the submission.
LEMMA BeginGoesOn ==
  ASSUME IInv, NEW e \in Epochs, Begin(e)
  PROVE  WorkersGoOn
<1> DEFINE x == exec[e]
           y == [x EXCEPT !.pc = "submitting", !.call = "flying", !.cons = "read"]
           z == [x EXCEPT !.pc = "fclose", !.cons = "read"]
<1>1. x.pc # "none" /\ x \in Execution /\ HasEvent(x) BY Started DEF Begin
<1>2. att'[e].begun
  <2>1. att[e] \in AttemptRow /\ att \in [Epochs -> AttemptRow] BY DEF IInv, TypeOK
  <2> QED BY <2>1 DEF Begin, AttemptRow
<1>3. exec' = [exec EXCEPT ![e] = exec'[e]] /\ exec'[e] \in {y, z, ThrowFrom(x)}
  BY DEF Begin, Returns, Throw, IInv, TypeOK
<1>4. Kept(x, ThrowFrom(x)) BY <1>1, KeptByThrow
<1>5. WorkerGoesOn(e)
  <2>1. CASE exec'[e] = y
    <3>1. /\ y.pc # "none" /\ HasEvent(y) /\ y.turn = x.turn /\ y.no = x.no
          /\ y.input = x.input /\ y.cfg = x.cfg /\ y.pc # "scomplete"
      BY <1>1 DEF Execution, HasEvent
    <3> QED BY <1>1, <1>2, <2>1, <3>1 DEF WorkerGoesOn
  <2>2. CASE exec'[e] = z
    <3>1. /\ z.pc # "none" /\ HasEvent(z) /\ z.turn = x.turn /\ z.no = x.no
          /\ z.input = x.input /\ z.cfg = x.cfg /\ z.pc # "scomplete"
      BY <1>1 DEF Execution, HasEvent
    <3> QED BY <1>1, <1>2, <2>2, <3>1 DEF WorkerGoesOn
  <2>3. CASE exec'[e] = ThrowFrom(x)
    BY <1>1, <1>4, <2>3 DEF WorkerGoesOn, Kept
  <2> QED BY <1>3, <2>1, <2>2, <2>3
<1> QED BY <1>3, <1>5 DEF WorkersGoOn, WorkerGoesOn, IInv, TypeOK

\* The worker that records a terminal goes on to the completion.
LEMMA SettleRecordsGoesOn ==
  ASSUME IInv, NEW e \in Epochs, SettleRecords(e)
  PROVE  WorkersGoOn
<1> DEFINE x == exec[e]
           y == [x EXCEPT !.pc = "scomplete"]
<1>1. x.pc = "sterm" BY DEF SettleRecords
<1>2. x \in Execution /\ HasEvent(x) BY <1>1, Started
<1>3. CASE Keeps(e) BY <1>3, KeepsGoesOn
<1>4. CASE exec' = [exec EXCEPT ![e] = y]
  <2>1. x.ev # "none" BY <1>1, <1>2 DEF HasEvent
  <2>2. att'[e].ev = x.ev
    <3>1. att[e] \in AttemptRow /\ att \in [Epochs -> AttemptRow] BY DEF IInv, TypeOK
    <3> QED BY <3>1 DEF SettleRecords, RecordTerminal, AttemptRow
  <2>3. /\ y.pc = "scomplete" /\ y.pc # "none" /\ HasEvent(y) /\ y.turn = x.turn /\ y.no = x.no
        /\ y.input = x.input /\ y.cfg = x.cfg /\ y.call = x.call
    BY <1>2, <2>1 DEF Execution, HasEvent
  <2>4. exec'[e] = y BY <1>4 DEF IInv, TypeOK
  <2>5. WorkerGoesOn(e) BY <1>1, <2>1, <2>2, <2>3, <2>4 DEF WorkerGoesOn
  <2> QED BY <1>4, <2>5 DEF WorkersGoOn, WorkerGoesOn, IInv, TypeOK
<1> QED BY <1>3, <1>4, SettleRecordsExec

\* The workers of a dead node are gone, and submit and settle nothing.
LEMMA CrashGoesOn ==
  ASSUME IInv, NEW n \in Nodes, Crash(n)
  PROVE  WorkersGoOn
<1>1. SUFFICES ASSUME NEW e \in Epochs, exec[e].node = n
               PROVE  WorkerGoesOn(e)
  BY DEF WorkersGoOn, WorkerGoesOn, Crash
<1>2. exec[e].pc # "none" BY <1>1, NoneAssumption DEF IInv, ClaimMatches, NoExec
<1>3. exec[e] \in Execution /\ HasEvent(exec[e]) BY <1>2, Started
<1>4. exec'[e] = Died(exec[e]) BY <1>1 DEF Crash, Died
<1>5. LET y == Died(exec[e]) IN
        /\ y.pc = "gone" /\ HasEvent(y) /\ y.call # "flying"
        /\ y.turn = exec[e].turn /\ y.no = exec[e].no /\ y.input = exec[e].input
        /\ y.cfg = exec[e].cfg
  BY <1>3 DEF Died, Execution, HasEvent
<1> QED BY <1>2, <1>4, <1>5 DEF WorkerGoesOn
-----------------------------------------------------------------------------
(***************************************************************************)
(* Quiet steps: no turn changes, and no attempt is sealed, begun or settled.*)
(***************************************************************************)
QuietChat ==
  /\ chat'.epoch = chat.epoch /\ chat'.next = chat.next
  /\ \/ chat'.phase = chat.phase \/ chat.phase = "closing" \/ chat'.phase = "running"
     \/ chat.phase = "preparing" /\ chat'.phase = "opening"
     \/ chat'.phase = "ready" /\ att[chat.epoch].phase = "prepared"
QuietAttempts == \A e \in Epochs :
  /\ att'[e].turn = att[e].turn /\ att'[e].no = att[e].no /\ att'[e].cfg = att[e].cfg
  /\ att'[e].begun = att[e].begun
  /\ \/ att'[e].phase = att[e].phase
     \/ att[e].phase \in {"dispatching", "accepted"} /\ att'[e].phase = "accepted"
  /\ att'[e].proof = "not_sent" => att[e].proof = "not_sent"
QuietGrants == \A e \in Epochs : grant'[e] = "live" =>
  \/ grant[e] = "live"
  \/ chat.epoch = e /\ exec[e].turn \in Turns /\ turn[exec[e].turn].st = "running"
Quiet == turn' = turn /\ QuietChat /\ QuietAttempts /\ QuietGrants

\* A quiet step keeps what the invariant says of turns, attempts and grants.
LEMMA QuietStep ==
  ASSUME IInv, WorkersGoOn, Quiet
  PROVE  /\ OrdinalsAreUnique' /\ OneRunning' /\ SnapshotIsCurrent' /\ AttemptMatches'
         /\ AttemptPhase' /\ ConfiguredInOrder' /\ GrantOfOwner' /\ NoneStarts
<1> USE DEF IInv, Quiet
<1>1. OrdinalsAreUnique' BY DEF OrdinalsAreUnique, QuietChat
<1>2. OneRunning' BY DEF OneRunning, QuietChat
<1>3. SnapshotIsCurrent'
  <2>1. ASSUME NEW t \in Turns
        PROVE  turn[t].snap = 0 \/ turn[t].snap \in Epochs
    <3>1. turn[t].snap \in 0..MaxEpoch BY DEF TypeOK, TurnRow
    <3> QED BY <3>1, BoundAssumption DEF Epochs
  <2>2. ASSUME NEW t \in Turns, turn[t].st = "running", turn[t].snap # 0,
               chat'.phase \in {"prepared", "ready"}
        PROVE  att'[turn[t].snap].phase = "prepared"
    <3>1. att[turn[t].snap].phase = "prepared"
      BY <2>2 DEF SnapshotIsCurrent, QuietChat, OneRunning
    <3> QED BY <2>1, <2>2, <3>1 DEF QuietAttempts
  <2>3. ASSUME NEW t \in Turns, turn[t].st = "running", chat'.phase \in {"preparing", "opening"}
        PROVE  turn[t].snap = 0
    BY <2>3 DEF SnapshotIsCurrent, QuietChat, OneRunning
  <2>4. ASSUME NEW t \in Turns, turn[t].snap # 0
        PROVE  turn[t].snap \in Epochs /\ att'[turn[t].snap].turn = t
    BY <2>4 DEF SnapshotIsCurrent, QuietAttempts
  <2> QED BY <2>2, <2>3, <2>4 DEF SnapshotIsCurrent, QuietChat
<1>4. AttemptMatches'
  <2>1. ASSUME NEW e \in Epochs, att[e].phase # "none"
        PROVE  exec'[e].turn = exec[e].turn /\ exec'[e].no = exec[e].no /\ exec'[e].input = exec[e].input
    BY DEF WorkersGoOn, WorkerGoesOn
  <2> QED BY <2>1 DEF AttemptMatches, QuietAttempts
<1>5. AttemptPhase' BY DEF AttemptPhase, QuietAttempts
<1>6. ConfiguredInOrder' BY DEF ConfiguredInOrder, Precedes
<1>7. GrantOfOwner'
  <2>1. ASSUME NEW e \in Epochs PROVE exec'[e].turn = exec[e].turn
    BY DEF WorkersGoOn, WorkerGoesOn
  <2> QED BY <2>1 DEF GrantOfOwner, QuietGrants, QuietChat
<1>8. NoneStarts BY DEF NoneStarts, QuietChat
<1> QED BY <1>1, <1>2, <1>3, <1>4, <1>5, <1>6, <1>7, <1>8

\* All parts of the invariant but the types and the row of the reconciliation.
RowInv ==
  /\ TerminalHasEvent /\ FutureIsEmpty /\ OrdinalsAreUnique /\ OneRunning
  /\ SnapshotIsCurrent /\ AttemptMatches /\ AttemptPhase /\ SubmissionIsBegun
  /\ ConfiguredInOrder /\ ClaimMatches /\ GrantOfOwner

\* A quiet step keeps all these parts.
LEMMA QuietKeeps ==
  ASSUME IInv, WorkersGoOn, AttemptsGoOn, SessionsGoOn, Quiet
  PROVE  RowInv'
<1>1. chat'.epoch \in {chat.epoch, chat.epoch + 1} BY DEF Quiet, QuietChat
<1> QED BY <1>1, QuietStep, WorkersStep DEF RowInv

\* Whatever there is of an epoch, the epoch has come.
LEMMA EpochHasCome ==
  ASSUME IInv, NEW e \in Epochs,
         exec[e] # NoExec \/ att[e] # NoAttempt \/ prov[e] # NoSession
  PROVE  ~(e > chat.epoch)
  BY DEF IInv, FutureIsEmpty

\* Attempts nobody writes are quiet,
LEMMA SameAttempts ==
  ASSUME IInv, att' = att
  PROVE  AttemptsGoOn /\ QuietAttempts
  BY DEF IInv, TerminalHasEvent, AttemptsGoOn, QuietAttempts

\* as are turns and attempts nobody writes,
LEMMA SameRows ==
  ASSUME IInv, turn' = turn, att' = att, QuietChat, QuietGrants, WorkersGoOn, SessionsGoOn
  PROVE  RowInv'
  BY SameAttempts, QuietKeeps DEF Quiet

\* and sessions nobody touches.
LEMMA SameSessions ==
  ASSUME prov' = prov
  PROVE  SessionsGoOn
  BY DEF SessionsGoOn

\* A session that starts, takes its input, answers or exits.
LEMMA OneSessionGoesOn ==
  ASSUME IInv, NEW e \in Epochs, NEW p, prov' = [prov EXCEPT ![e] = p],
         exec[e] # NoExec \/ prov[e] # NoSession, chat'.epoch = chat.epoch,
         p.got = prov[e].got \/ (exec[e].call = "flying" /\ p.got = exec[e].input)
  PROVE  SessionsGoOn
<1>1. ~(e > chat'.epoch) BY EpochHasCome
<1> QED BY <1>1 DEF SessionsGoOn, IInv, TypeOK

\* A revocation only takes grants away.
LEMMA RevokeIsQuiet ==
  ASSUME TypeOK, NEW e \in Epochs, grant' = grant \/ grant' = Revoke(e)
  PROVE  QuietGrants
  BY DEF QuietGrants, Revoke, TypeOK
\* The steps of clients, leases, drain loops and boots that claim and recover nothing.
LEMMA NodeStepsAreQuiet ==
  ASSUME IInv,
         \/ UNCHANGED vars \/ SetConfiguration \/ LeaseExpire
         \/ \E n \in Nodes : \/ StartDrain(n) \/ ClaimNothing(n) \/ BootScan(n) \/ BootWake(n)
                             \/ Crash(n) \/ (BootRecover(n) /\ UNCHANGED db)
                             \/ \E e \in Epochs : DrainReturns(n, e)
  PROVE  RowInv'
<1>0. chat \in ChatRow BY DEF IInv, TypeOK
<1>1. CASE \E n \in Nodes : Crash(n)
  <2>1. PICK n \in Nodes : Crash(n) BY <1>1
  <2>2. WorkersGoOn BY <2>1, CrashGoesOn
  <2>3. SessionsGoOn
    <3>1. SUFFICES ASSUME NEW e \in Epochs
                   PROVE  prov'[e].got = prov[e].got /\ (e > chat'.epoch => prov'[e] = prov[e])
      BY DEF SessionsGoOn
    <3>2. prov[e] \in Session BY DEF IInv, TypeOK
    <3>3. prov'[e] = IF exec[e].node = n /\ prov[e].alive = "up"
                     THEN [prov[e] EXCEPT !.alive = "exited"] ELSE prov[e]
      BY <2>1 DEF Crash
    <3>4. prov'[e].got = prov[e].got BY <3>2, <3>3 DEF Session
    <3>5. e > chat'.epoch => prov'[e] = prov[e]
      <4>1. prov'[e] # prov[e] => prov[e] # NoSession BY <3>3 DEF NoSession
      <4>2. chat' = chat BY <2>1 DEF Crash, db
      <4> QED BY <4>1, <4>2, EpochHasCome
    <3> QED BY <3>4, <3>5
  <2> QED BY <2>1, <2>2, <2>3, SameRows DEF Crash, db, QuietChat, QuietGrants
<1>2. CASE UNCHANGED vars
  BY <1>2, SameWorkers, SameSessions, SameRows DEF vars, QuietChat, QuietGrants
<1>3. CASE SetConfiguration \/ LeaseExpire
  <2>1. QuietChat BY <1>0, <1>3 DEF SetConfiguration, LeaseExpire, QuietChat, ChatRow
  <2> QED BY <1>3, <2>1, SameWorkers, SameSessions, SameRows
       DEF SetConfiguration, LeaseExpire, QuietGrants
<1>4. CASE \E n \in Nodes : \/ StartDrain(n) \/ ClaimNothing(n) \/ BootScan(n) \/ BootWake(n)
                            \/ (BootRecover(n) /\ UNCHANGED db)
                            \/ \E e \in Epochs : DrainReturns(n, e)
  <2>1. UNCHANGED <<turn, chat, att, grant, exec, prov>>
    BY <1>4 DEF StartDrain, ClaimNothing, BootScan, BootWake, BootRecover, DrainReturns, db
  <2> QED BY <2>1, SameWorkers, SameSessions, SameRows DEF QuietChat, QuietGrants
<1> QED BY <1>1, <1>2, <1>3, <1>4

\* The steps of a worker that write no attempt and settle nothing.
LEMMA WorkerStepsAreQuiet ==
  ASSUME IInv, NEW e \in Epochs,
         \/ Reserve(e) \/ PrepareEnds(e) \/ OpenEnds(e) \/ PreparationFails(e)
         \/ SubmitReturns(e) \/ Observed(e) \/ FailureClosed(e) \/ PersistTerminalPart(e)
         \/ FailError(e) \/ FailDone(e) \/ CallFails(e) \/ ReleaseLaunch(e) \/ ReleaseRuntime(e)
  PROVE  RowInv'
<1>0. chat \in ChatRow /\ TypeOK BY DEF IInv, TypeOK
<1>1. CASE Reserve(e)
  <2>1. QuietChat BY <1>0, <1>1 DEF Reserve, CanReserve, QuietChat, ChatRow
  <2>2. UNCHANGED <<turn, att, grant, prov>> BY <1>1 DEF Reserve
  <2> QED BY <1>1, <2>1, <2>2, CallsKeep, KeepsGoesOn, SameSessions, SameRows DEF QuietGrants
<1>2. CASE PrepareEnds(e) \/ ReleaseLaunch(e)
  <2>1. QuietGrants BY <1>0, <1>2, RevokeIsQuiet DEF PrepareEnds, ReleaseLaunch
  <2>2. UNCHANGED <<turn, att, chat, prov>> BY <1>2 DEF PrepareEnds, ReleaseLaunch
  <2> QED BY <1>2, <2>1, <2>2, StepsKeep, KeepsGoesOn, SameSessions, SameRows DEF QuietChat
<1>3. CASE OpenEnds(e)
  <2>1. UNCHANGED <<turn, att, chat, grant>> BY <1>3 DEF OpenEnds, db
  <2>2. SessionsGoOn
    <3> DEFINE p == [prov[e] EXCEPT !.alive = "up"]
    <3>1. exec[e] # NoExec BY <1>3 DEF OpenEnds, NoExec
    <3>2. p.got = prov[e].got BY DEF IInv, TypeOK, Session
    <3>3. prov' = prov \/ prov' = [prov EXCEPT ![e] = p] BY <1>3 DEF OpenEnds
    <3>4. chat'.epoch = chat.epoch BY <2>1
    <3> HIDE DEF p
    <3> QED BY <3>1, <3>2, <3>3, <3>4, SameSessions, OneSessionGoesOn
  <2> QED BY <1>3, <2>1, <2>2, StepsKeep, KeepsGoesOn, SameRows DEF QuietChat, QuietGrants
<1>4. CASE SubmitReturns(e) \/ Observed(e) \/ FailureClosed(e)
  <2>1. UNCHANGED <<turn, att, chat, grant, prov>>
    BY <1>4 DEF SubmitReturns, Observed, FailureClosed, db
  <2> QED BY <1>4, <2>1, StepsKeep, KeepsGoesOn, SameSessions, SameRows DEF QuietChat, QuietGrants
<1>5. CASE \/ PreparationFails(e) \/ CallFails(e) \/ PersistTerminalPart(e)
           \/ FailError(e) \/ FailDone(e)
  <2>1. UNCHANGED <<turn, att, chat, grant, prov>>
    BY <1>5 DEF PreparationFails, CallFails, PersistTerminalPart, FailError, FailDone, db
  <2> QED BY <1>5, <2>1, CallsKeep, KeepsGoesOn, SameSessions, SameRows DEF QuietChat, QuietGrants
<1>6. CASE ReleaseRuntime(e)
  <2>1. UNCHANGED <<turn, att, grant, prov>> BY <1>6 DEF ReleaseRuntime
  <2>2. QuietChat
    BY <1>0, <1>6 DEF ReleaseRuntime, CanRelease, FreedChat, QuietChat, ChatRow
  <2> QED BY <1>6, <2>1, <2>2, ReleaseRuntimeExec, KeepsGoesOn, SameWorkers, SameSessions, SameRows
       DEF QuietGrants
<1> QED BY <1>1, <1>2, <1>3, <1>4, <1>5, <1>6

\* A grant is minted for the attempt the running turn has.
LEMMA MintIsQuiet ==
  ASSUME IInv, NEW e \in Epochs, Mint(e)
  PROVE  RowInv'
<1>1. UNCHANGED <<turn, chat, att, exec, prov>> BY DEF Mint
<1>2. att[e].phase = "prepared" /\ chat.epoch = e BY DEF Mint
<1>3. exec[e].turn \in Turns /\ turn[exec[e].turn].st = "running"
  BY <1>2 DEF IInv, AttemptMatches, AttemptPhase
<1>4. QuietGrants BY <1>2, <1>3 DEF Mint, QuietGrants, IInv, TypeOK
<1> QED BY <1>1, <1>4, SameWorkers, SameSessions, SameRows DEF QuietChat

\* A provider process takes the input of its begun attempt, answers and exits.
LEMMA ProviderIsQuiet ==
  ASSUME IInv, NEW e \in Epochs, Provider(e)
  PROVE  RowInv'
<1>1. UNCHANGED <<turn, chat, att, grant, exec>>
  BY DEF Provider, ProviderTakes, ProviderFinishes, ProviderExits, db
<1>2. prov[e].alive = "up" BY DEF Provider, ProviderTakes, ProviderFinishes, ProviderExits
<1>3. prov[e] # NoSession BY <1>2 DEF NoSession
<1>4. PICK p : /\ prov' = [prov EXCEPT ![e] = p]
               /\ p.got = prov[e].got \/ (exec[e].call = "flying" /\ p.got = exec[e].input)
  <2>0. prov[e] \in Session BY DEF IInv, TypeOK
  <2>1. CASE ProviderTakes(e)
    <3> DEFINE p == [prov[e] EXCEPT !.got = exec[e].input]
    <3>1. p.got = exec[e].input BY <2>0 DEF Session
    <3> QED BY <2>1, <3>1 DEF ProviderTakes
  <2>2. CASE ProviderFinishes(e)
    <3>1. PICK o \in {"completed", "failed"} :
            prov' = [prov EXCEPT ![e] = [prov[e] EXCEPT !.out = o]]
      BY <2>2 DEF ProviderFinishes
    <3>2. [prov[e] EXCEPT !.out = o].got = prov[e].got BY <2>0 DEF Session
    <3> QED BY <3>1, <3>2
  <2>3. CASE ProviderExits(e)
    <3> DEFINE p == [prov[e] EXCEPT !.alive = "exited"]
    <3>1. p.got = prov[e].got BY <2>0 DEF Session
    <3> QED BY <2>3, <3>1 DEF ProviderExits
  <2> QED BY <2>1, <2>2, <2>3 DEF Provider
<1>5. SessionsGoOn BY <1>1, <1>3, <1>4, OneSessionGoesOn
<1> QED BY <1>1, <1>5, SameWorkers, SameRows DEF QuietChat, QuietGrants
\* A terminal that is recorded has an event id, and changes nothing else.
LEMMA RecordIsQuiet ==
  ASSUME IInv, NEW e \in Epochs, NEW o \in Outcomes, RecordTerminal(e, o), exec[e].ev # "none",
         chat' = chat
  PROVE  AttemptsGoOn /\ QuietAttempts
<1> DEFINE a == att[e]
           b == [a EXCEPT !.proof = o, !.ev = exec[e].ev, !.num = exec[e].num]
<1>1. a \in AttemptRow /\ att \in [Epochs -> AttemptRow] BY DEF IInv, TypeOK
<1>2. att' = [att EXCEPT ![e] = b] BY <1>1 DEF RecordTerminal
<1>3. /\ b.turn = a.turn /\ b.no = a.no /\ b.cfg = a.cfg /\ b.begun = a.begun
      /\ b.phase = a.phase /\ b.proof = o /\ b.ev = exec[e].ev
  BY <1>1 DEF AttemptRow
<1>4. o # "not_sent" BY DEF Outcomes
<1>5. exec[e] # NoExec BY DEF NoExec
<1>6. ~(e > chat'.epoch) BY <1>5, EpochHasCome
<1> HIDE DEF b
<1>7. att'[e] = b /\ \A f \in Epochs \ {e} : att'[f] = att[f] BY <1>1, <1>2
<1>8. QuietAttempts BY <1>3, <1>4, <1>7 DEF QuietAttempts
<1>9. AttemptsGoOn BY <1>3, <1>6, <1>7 DEF AttemptsGoOn, IInv, TerminalHasEvent
<1> QED BY <1>8, <1>9

\* The acceptance only moves a begun attempt on.
LEMMA AcceptanceIsQuiet ==
  ASSUME IInv, NEW e \in Epochs, RecordAcceptance(e)
  PROVE  /\ AttemptsGoOn /\ QuietAttempts /\ QuietChat
         /\ UNCHANGED <<turn, grant, prov>>
<1> DEFINE a == att[e]
           b == [a EXCEPT !.phase = "accepted"]
<1>1. a \in AttemptRow /\ att \in [Epochs -> AttemptRow] /\ chat \in ChatRow BY DEF IInv, TypeOK
<1>2. att' = [att EXCEPT ![e] = b] BY <1>1 DEF RecordAcceptance
<1>3. /\ b.turn = a.turn /\ b.no = a.no /\ b.cfg = a.cfg /\ b.begun = a.begun
      /\ b.phase = "accepted" /\ b.proof = a.proof /\ b.ev = a.ev
  BY <1>1 DEF AttemptRow
<1>4. a.phase \in {"dispatching", "accepted"} /\ chat.epoch = e
  BY DEF RecordAcceptance, CanAccept, Owned
<1>5. QuietChat BY <1>1 DEF RecordAcceptance, QuietChat, ChatRow
<1>6. a # NoAttempt BY <1>4 DEF NoAttempt
<1>7. ~(e > chat'.epoch) BY <1>5, <1>6, EpochHasCome DEF QuietChat
<1> HIDE DEF b
<1>8. att'[e] = b /\ \A f \in Epochs \ {e} : att'[f] = att[f] BY <1>1, <1>2
<1>9. QuietAttempts BY <1>3, <1>4, <1>8 DEF QuietAttempts
<1>10. AttemptsGoOn BY <1>3, <1>7, <1>8 DEF AttemptsGoOn, IInv, TerminalHasEvent
<1> QED BY <1>5, <1>9, <1>10 DEF RecordAcceptance

\* The reader never changes a turn.
LEMMA ConsumerIsQuiet ==
  ASSUME IInv, NEW e \in Epochs, Consumer(e)
  PROVE  RowInv'
<1>0. WorkersGoOn BY ReaderKeeps, KeepsGoesOn
<1>1. CASE ConsumeAcceptance(e)
  <2>1. RecordAcceptance(e) BY <1>1 DEF ConsumeAcceptance
  <2> QED BY <1>0, <2>1, AcceptanceIsQuiet, SameSessions, QuietKeeps DEF Quiet, QuietGrants
<1>2. CASE ConsumeTerminal(e)
  <2>1. UNCHANGED <<turn, chat, att, grant>> BY <1>2 DEF ConsumeTerminal, db
  <2>2. SessionsGoOn
    <3> DEFINE p == [prov[e] EXCEPT !.out = "lost"]
    <3>1. exec[e] # NoExec BY <1>2 DEF ConsumeTerminal, NoExec
    <3>2. p.got = prov[e].got BY DEF IInv, TypeOK, Session
    <3>3. prov' = prov \/ prov' = [prov EXCEPT ![e] = p] BY <1>2 DEF ConsumeTerminal
    <3> HIDE DEF p
    <3> QED BY <2>1, <3>1, <3>2, <3>3, SameSessions, OneSessionGoesOn
  <2> QED BY <1>0, <2>1, <2>2, SameRows DEF QuietChat, QuietGrants
<1>3. CASE ConsumeExit(e) \/ ConsumerAborts(e) \/ ConsumerSaves(e)
  <2>1. UNCHANGED <<turn, chat, att, grant, prov>>
    BY <1>3 DEF ConsumeExit, ConsumerAborts, ConsumerSaves, db
  <2> QED BY <1>0, <2>1, SameSessions, SameRows DEF QuietChat, QuietGrants
<1>4. CASE ConsumerRecords(e)
  <2>1. UNCHANGED <<turn, chat, grant, prov>> BY <1>4 DEF ConsumerRecords
  <2>2. exec[e].ev # "none"
    <3>1. exec[e].cons = "record" BY <1>4 DEF ConsumerRecords
    <3> QED BY <3>1 DEF IInv, TerminalHasEvent, HasEvent
  <2>3. prov[e].out \in Outcomes BY DEF IInv, TypeOK, Session
  <2>4. AttemptsGoOn /\ QuietAttempts
    BY <1>4, <2>1, <2>2, <2>3, RecordIsQuiet, SameAttempts DEF ConsumerRecords
  <2> QED BY <1>0, <2>1, <2>4, SameSessions, QuietKeeps DEF Quiet, QuietChat, QuietGrants
<1> QED BY <1>1, <1>2, <1>3, <1>4 DEF Consumer

\* The records of a worker that settle nothing.
LEMMA RecordsAreQuiet ==
  ASSUME IInv, NEW e \in Epochs, RecordOpen(e) \/ Accept(e) \/ SettleRecords(e)
  PROVE  RowInv'
<1>1. CASE Accept(e)
  <2>1. RecordAcceptance(e) BY <1>1 DEF Accept
  <2> QED BY <1>1, <2>1, CallsKeep, KeepsGoesOn, AcceptanceIsQuiet, SameSessions, QuietKeeps
       DEF Quiet, QuietGrants
<1>2. CASE SettleRecords(e)
  <2>1. UNCHANGED <<turn, chat, grant, prov>> BY <1>2 DEF SettleRecords
  <2>2. exec[e].ev # "none"
    <3>1. exec[e].pc = "sterm" BY <1>2 DEF SettleRecords
    <3> QED BY <3>1 DEF IInv, TerminalHasEvent, HasEvent
  <2>3. exec[e].term \in Outcomes BY DEF IInv, TypeOK, Execution
  <2>4. AttemptsGoOn /\ QuietAttempts
    BY <1>2, <2>1, <2>2, <2>3, RecordIsQuiet DEF SettleRecords
  <2> QED BY <1>2, <2>1, <2>4, SettleRecordsGoesOn, SameSessions, QuietKeeps
       DEF Quiet, QuietChat, QuietGrants
<1>3. CASE RecordOpen(e)
  <2> DEFINE a == att[e]
             b == [a EXCEPT !.opened = TRUE]
  <2>1. a \in AttemptRow /\ att \in [Epochs -> AttemptRow] /\ chat \in ChatRow BY DEF IInv, TypeOK
  <2>2. att' = [att EXCEPT ![e] = b] BY <1>3, <2>1 DEF RecordOpen
  <2>3. /\ b.turn = a.turn /\ b.no = a.no /\ b.cfg = a.cfg /\ b.begun = a.begun
        /\ b.phase = a.phase /\ b.proof = a.proof /\ b.ev = a.ev
    BY <2>1 DEF AttemptRow
  <2>4. chat.epoch = e /\ a.phase = "prepared" BY <1>3 DEF RecordOpen, CanRecordOpen, Owned
  <2>5. QuietChat BY <1>3, <2>1, <2>4 DEF RecordOpen, QuietChat, ChatRow
  <2>6. a # NoAttempt BY <2>4 DEF NoAttempt
  <2>7. ~(e > chat'.epoch) BY <2>5, <2>6, EpochHasCome DEF QuietChat
  <2> HIDE DEF b
  <2>8. att'[e] = b /\ \A f \in Epochs \ {e} : att'[f] = att[f] BY <2>1, <2>2
  <2>9. QuietAttempts BY <2>3, <2>8 DEF QuietAttempts
  <2>10. AttemptsGoOn BY <2>3, <2>7, <2>8 DEF AttemptsGoOn, IInv, TerminalHasEvent
  <2>11. UNCHANGED <<turn, grant, prov>> BY <1>3 DEF RecordOpen
  <2> QED BY <1>3, <2>5, <2>9, <2>10, <2>11, CallsKeep, KeepsGoesOn, SameSessions, QuietKeeps
       DEF Quiet, QuietGrants
<1> QED BY <1>1, <1>2, <1>3
-----------------------------------------------------------------------------
(***************************************************************************)
(* The steps that post, claim, seal, begin, settle and recover.            *)
(***************************************************************************)

\* A posting transaction starts: the turn is still in front of everything.
LEMMA PostBeginStep ==
  ASSUME IInv, NEW t \in Turns, PostBegin(t)
  PROVE  RowInv'
<1> USE DEF IInv
<1>1. UNCHANGED <<chat, att, grant, exec, prov>> BY DEF PostBegin
<1>2. turn[t].st = "absent" BY DEF PostBegin
<1>3. \A u \in Turns :
        /\ turn'[u].st = IF u = t THEN "posting" ELSE turn[u].st
        /\ turn'[u].ord = turn[u].ord /\ turn'[u].cfg = turn[u].cfg /\ turn'[u].snap = turn[u].snap
  BY DEF PostBegin, TypeOK, TurnRow
<1>4. NoneStarts BY <1>1, <1>3 DEF NoneStarts
<1>5. TerminalHasEvent' /\ FutureIsEmpty' /\ SubmissionIsBegun' /\ ClaimMatches'
  BY <1>1, <1>4, SameWorkers, SameAttempts, SameSessions, WorkersStep
<1>6. OrdinalsAreUnique' BY <1>1, <1>2, <1>3 DEF OrdinalsAreUnique
<1>7. OneRunning' BY <1>1, <1>3 DEF OneRunning
<1>8. SnapshotIsCurrent' BY <1>1, <1>2, <1>3 DEF SnapshotIsCurrent
<1>9. AttemptMatches' BY <1>1, <1>3 DEF AttemptMatches
<1>10. AttemptPhase'
  <2>1. \A e \in Epochs : att[e].phase # "none" => att[e].turn \in Turns BY DEF AttemptMatches
  <2> QED BY <1>1, <1>2, <1>3, <2>1 DEF AttemptPhase, Settled
<1>11. ConfiguredInOrder' BY <1>2, <1>3 DEF ConfiguredInOrder, Precedes, Settled
<1>12. GrantOfOwner' BY <1>1, <1>2, <1>3 DEF GrantOfOwner
<1> QED BY <1>5, <1>6, <1>7, <1>8, <1>9, <1>10, <1>11, <1>12 DEF RowInv

\* A posted turn gets an ordinal behind every other turn.
LEMMA PostCommitStep ==
  ASSUME IInv, NEW t \in Turns, NEW n \in Nodes, PostCommit(t, n)
  PROVE  RowInv'
<1> USE DEF IInv
<1>0. chat \in ChatRow /\ chat.next \in Nat BY DEF TypeOK, ChatRow
<1>1. UNCHANGED <<att, grant, exec, prov>> BY DEF PostCommit
<1>2. turn[t].st = "posting" BY DEF PostCommit
<1>3. chat'.epoch = chat.epoch /\ chat'.phase = chat.phase /\ chat'.next = chat.next + 1
  BY <1>0 DEF PostCommit, ChatRow
<1>4. \A u \in Turns :
        /\ turn'[u].st = IF u = t THEN "queued" ELSE turn[u].st
        /\ turn'[u].ord = IF u = t THEN chat.next ELSE turn[u].ord
        /\ turn'[u].cfg = turn[u].cfg /\ turn'[u].snap = turn[u].snap
  BY DEF PostCommit, TypeOK, TurnRow
<1>5. NoneStarts BY <1>3, <1>4 DEF NoneStarts
<1>6. TerminalHasEvent' /\ FutureIsEmpty' /\ SubmissionIsBegun' /\ ClaimMatches'
  BY <1>1, <1>3, <1>5, SameWorkers, SameAttempts, SameSessions, WorkersStep
<1>7. turn[t].ord = 0 /\ turn[t].cfg = 0 BY <1>2 DEF OrdinalsAreUnique
<1>8. \A u \in Turns : turn[u].ord \in Nat /\ turn[u].ord < chat.next
  BY <1>0 DEF OrdinalsAreUnique, TypeOK, TurnRow
<1>9. OrdinalsAreUnique'
  <2>1. chat'.next # 0 BY <1>0, <1>3
  <2>2. ASSUME NEW u \in Turns
        PROVE  IF turn'[u].st \in {"absent", "posting"} THEN turn'[u].ord = 0 /\ turn'[u].cfg = 0
               ELSE turn'[u].ord # 0 /\ turn'[u].ord < chat'.next
    BY <1>0, <1>3, <1>4, <1>8 DEF OrdinalsAreUnique
  <2>3. ASSUME NEW u \in Turns, NEW v \in Turns, turn'[u].ord # 0, turn'[u].ord = turn'[v].ord
        PROVE  u = v
    BY <1>0, <1>4, <1>8, <2>3 DEF OrdinalsAreUnique
  <2> QED BY <2>1, <2>2, <2>3 DEF OrdinalsAreUnique
<1>10. OneRunning' BY <1>3, <1>4 DEF OneRunning
<1>11. SnapshotIsCurrent' BY <1>1, <1>2, <1>3, <1>4 DEF SnapshotIsCurrent
<1>12. AttemptMatches' BY <1>1, <1>4 DEF AttemptMatches
<1>13. AttemptPhase'
  <2>1. \A e \in Epochs : att[e].phase # "none" => att[e].turn \in Turns BY DEF AttemptMatches
  <2> QED BY <1>1, <1>2, <1>4, <2>1 DEF AttemptPhase, Settled
<1>14. ConfiguredInOrder'
  <2>1. SUFFICES ASSUME NEW u \in Turns, NEW v \in Turns,
                        turn'[v].cfg # 0, turn'[u].ord # 0, turn'[u].ord < turn'[v].ord
                 PROVE  turn'[u].st \in Settled
    BY DEF ConfiguredInOrder, Precedes
  <2>2. v # t BY <1>4, <1>7, <2>1
  <2>3. u # t BY <1>0, <1>4, <1>8, <2>1, <2>2
  <2> QED BY <1>4, <2>1, <2>2, <2>3 DEF ConfiguredInOrder, Precedes
<1>15. GrantOfOwner' BY <1>1, <1>2, <1>3, <1>4 DEF GrantOfOwner
<1> QED BY <1>6, <1>9, <1>10, <1>11, <1>12, <1>13, <1>14, <1>15 DEF RowInv

\* A claim starts a turn while none runs.  It may pick the input of one turn and run
\* another: then the one that runs was never configured, because the turn before it
\* is not settled.
LEMMA ClaimStep ==
  ASSUME IInv, TypeOK', NEW n \in Nodes, NEW p \in Turns, NEW r \in Turns, ClaimTurn(n, p, r)
  PROVE  RowInv'
<1> DEFINE e   == chat.epoch + 1
           cfg == ClaimConfiguration(p)
           x   == [NoExec EXCEPT !.node = n, !.turn = r, !.input = p, !.cfg = cfg,
                      !.no = turn'[p].no, !.pc = "reserve"]
<1> USE DEF IInv
<1>0. chat \in ChatRow /\ chat.epoch \in Nat BY DEF TypeOK, ChatRow
<1>1. UNCHANGED <<att, grant, prov>> BY DEF ClaimTurn
<1>2. e \in Epochs /\ p \in Queued /\ r \in Queued /\ \A t \in Turns : turn[t].st # "running"
  BY DEF ClaimTurn, ClaimBlocked, ClaimPick, ClaimRun
<1>3. turn[p].st = "queued" /\ turn[r].st = "queued" BY <1>2 DEF Queued
<1>4. cfg # 0 /\ (turn[p].cfg # 0 => cfg = turn[p].cfg)
  BY DEF ClaimConfiguration, TypeOK, ChatRow
<1>5. chat'.epoch = e /\ chat'.phase = "preparing" /\ chat'.next = chat.next
  BY <1>0 DEF ClaimTurn, ChatRow
<1>6. \A u \in Turns :
        /\ turn'[u].st = IF u = r THEN "running" ELSE turn[u].st
        /\ turn'[u].cfg = IF u = p THEN cfg ELSE turn[u].cfg
        /\ turn'[u].ord = turn[u].ord /\ turn'[u].snap = turn[u].snap
  <2> DEFINE trn == [turn EXCEPT ![p].cfg = cfg]
  <2>1. trn \in [Turns -> TurnRow]
    <3>1. cfg \in 0..MaxRev
      BY BoundAssumption DEF ClaimConfiguration, TypeOK, ChatRow, TurnRow
    <3> QED BY <3>1 DEF TypeOK, TurnRow
  <2>2. \A u \in Turns :
          /\ trn[u].cfg = IF u = p THEN cfg ELSE turn[u].cfg
          /\ trn[u].ord = turn[u].ord /\ trn[u].snap = turn[u].snap /\ trn[u].st = turn[u].st
    BY DEF TypeOK, TurnRow
  <2>3. turn' = [trn EXCEPT ![r].st = "running", ![r].no = @ + 1] BY DEF ClaimTurn
  <2> HIDE DEF trn
  <2> QED BY <2>1, <2>2, <2>3 DEF TurnRow
<1>7. exec' = [exec EXCEPT ![e] = x] \/ exec' = exec BY DEF ClaimTurn
<1>8. /\ x.pc = "reserve" /\ x.turn = r /\ x.input = p /\ x.cfg = cfg /\ x.call = "none"
      /\ x.cons = "off" /\ ~x.saved
  BY DEF NoExec
<1>9. exec[e] = NoExec /\ att[e] = NoAttempt /\ prov[e] = NoSession
  BY <1>0, <1>2 DEF FutureIsEmpty
<1> HIDE DEF x
<1>10. \A f \in Epochs : f # e => exec'[f] = exec[f] BY <1>7 DEF TypeOK
<1>11. exec'[e] = x \/ exec'[e] = NoExec BY <1>2, <1>7, <1>9 DEF TypeOK
<1> HIDE DEF e, cfg
<1>12. TerminalHasEvent'
  <2>1. \A f \in Epochs : HasEvent(exec'[f]) /\ (exec'[f].pc = "scomplete" => exec[f].pc = "scomplete")
    BY <1>8, <1>10, <1>11 DEF TerminalHasEvent, HasEvent, NoExec
  <2> QED BY <1>1, <2>1 DEF TerminalHasEvent
<1>13. FutureIsEmpty'
  <2>1. \A f \in Epochs : f > e => f > chat.epoch /\ f # e BY <1>0 DEF Epochs, e
  <2> QED BY <1>1, <1>5, <1>10, <2>1 DEF FutureIsEmpty
<1>14. OrdinalsAreUnique' BY <1>3, <1>5, <1>6 DEF OrdinalsAreUnique
<1>15. OneRunning' BY <1>2, <1>5, <1>6 DEF OneRunning
<1>16. SnapshotIsCurrent' BY <1>1, <1>2, <1>3, <1>5, <1>6 DEF SnapshotIsCurrent
<1>17. AttemptMatches'
  <2>1. SUFFICES ASSUME NEW f \in Epochs, att[f].phase # "none"
                 PROVE  /\ att[f].turn \in Turns
                        /\ att[f].turn = exec'[f].turn /\ att[f].no = exec'[f].no
                        /\ exec'[f].input = exec'[f].turn
                        /\ att[f].cfg = turn'[att[f].turn].cfg /\ att[f].cfg # 0
    BY <1>1 DEF AttemptMatches
  <2>2. f # e BY <1>9, <2>1 DEF NoAttempt
  <2> QED BY <1>4, <1>6, <1>10, <2>1, <2>2 DEF AttemptMatches
<1>18. AttemptPhase'
  <2>1. \A f \in Epochs : att[f].phase # "none" => att[f].turn \in Turns BY DEF AttemptMatches
  <2>2. "queued" \notin Settled BY DEF Settled
  <2> QED BY <1>1, <1>2, <1>3, <1>6, <2>1, <2>2 DEF AttemptPhase
<1>19. SubmissionIsBegun'
  <2>1. \A f \in Epochs :
          /\ exec'[f].call = "flying" \/ exec'[f].pc = "submitting"
               => exec[f].call = "flying" \/ exec[f].pc = "submitting"
          /\ prov[f].got # None => exec'[f].input = exec[f].input
    BY <1>8, <1>9, <1>10, <1>11 DEF NoExec, NoSession
  <2> QED BY <1>1, <2>1 DEF SubmissionIsBegun
<1>20. \A u \in Turns : Precedes(u, p) => turn[u].st \in Settled
  <2>1. SUFFICES ASSUME NEW u \in Turns, turn[u].ord # 0, turn[u].ord < turn[p].ord
                 PROVE  turn[u].st \in Settled
    BY DEF Precedes
  <2>2. turn[u].st \notin {"absent", "posting"} BY <2>1 DEF OrdinalsAreUnique
  <2>3. turn[u].ord \in Nat /\ turn[p].ord \in Nat /\ turn[u].st \in TurnStates
    BY DEF TypeOK, TurnRow
  <2>4. u \notin Queued BY <2>1, <2>3 DEF ClaimTurn, ClaimPick
  <2> QED BY <1>2, <2>2, <2>3, <2>4 DEF Queued, TurnStates, Settled
<1>21. ConfiguredInOrder'
  <2>1. SUFFICES ASSUME NEW u \in Turns, NEW v \in Turns, turn'[v].cfg # 0, Precedes(u, v)
                 PROVE  turn'[u].st \in Settled
    BY <1>6 DEF ConfiguredInOrder, Precedes
  <2>2. turn[u].st \in Settled BY <1>6, <1>20, <2>1 DEF ConfiguredInOrder
  <2>3. u # r BY <1>3, <2>2 DEF Settled
  <2> QED BY <1>6, <2>2, <2>3
<1>22. ClaimMatches'
  <2>1. r # p => turn[r].cfg = 0
    <3>1. SUFFICES ASSUME r # p, turn[r].cfg # 0 PROVE FALSE OBVIOUS
    <3>2. turn[p].ord <= turn[r].ord BY <1>2 DEF ClaimTurn, ClaimPick
    <3>3. turn[p].ord # 0 /\ turn[p].ord # turn[r].ord BY <1>3, <3>1 DEF OrdinalsAreUnique
    <3>4. turn[p].ord \in Nat /\ turn[r].ord \in Nat BY DEF TypeOK, TurnRow
    <3>5. Precedes(p, r) BY <3>2, <3>3, <3>4 DEF Precedes
    <3>6. turn[p].st \in Settled BY <3>1, <3>5 DEF ConfiguredInOrder
    <3> QED BY <1>3, <3>6 DEF Settled
  <2>2. \A f \in Epochs : exec[f].pc # "none" => f # chat'.epoch
    BY <1>5, <1>9 DEF NoExec
  <2>3. SUFFICES ASSUME NEW f \in Epochs
                 PROVE  IF exec'[f].pc = "none" THEN exec'[f] = NoExec
                        ELSE /\ exec'[f].turn \in Turns /\ exec'[f].input \in Turns
                             /\ exec'[f].cfg # 0
                             /\ chat'.epoch = f /\ turn'[exec'[f].turn].st = "running"
                                  /\ exec'[f].turn # exec'[f].input
                                  => turn'[exec'[f].turn].cfg = 0
    BY DEF ClaimMatches
  <2>4. CASE f = e
    <3>1. CASE exec'[e] = NoExec BY <2>4, <3>1 DEF NoExec
    <3>2. CASE exec'[e] = x BY <1>4, <1>6, <1>8, <2>1, <2>4, <3>2
    <3> QED BY <1>11, <3>1, <3>2
  <2>5. CASE f # e
    BY <1>10, <2>2, <2>5 DEF ClaimMatches
  <2> QED BY <2>4, <2>5
<1>23. GrantOfOwner' BY <1>1, <1>2 DEF GrantOfOwner
<1> QED BY <1>12, <1>13, <1>14, <1>15, <1>16, <1>17, <1>18, <1>19, <1>21, <1>22, <1>23 DEF RowInv
\* What the fence tells the owner of the chat.
LEMMA OwnedFacts ==
  ASSUME IInv, NEW e \in Epochs, Owned(e), exec[e].pc # "none"
  PROVE  /\ chat.epoch = e /\ exec[e].turn \in Turns /\ turn[exec[e].turn].st = "running"
         /\ turn[exec[e].turn].no = exec[e].no /\ turn[exec[e].turn] \in TurnRow
         /\ \A u \in Turns : turn[u].st = "running" => u = exec[e].turn
         /\ ~(e > chat.epoch)
         /\ turn[exec[e].turn].snap \in {0, e}
<1>1. chat.epoch = e BY DEF Owned
<1>2. exec[e].turn \in Turns BY Started
<1>3. turn[exec[e].turn].st = "running" /\ turn[exec[e].turn].no = exec[e].no BY DEF Owned
<1>4. turn[exec[e].turn].snap \in {0, e} BY <1>1, <1>2, <1>3 DEF IInv, SnapshotIsCurrent
<1>5. \A u \in Turns : turn[u].st = "running" => u = exec[e].turn
  BY <1>2, <1>3 DEF IInv, OneRunning
<1>6. ~(e > chat.epoch) BY <1>1 DEF IInv, TypeOK, ChatRow
<1> QED BY <1>1, <1>2, <1>3, <1>4, <1>5, <1>6 DEF IInv, TypeOK

\* The seal records the first attempt of this number, for the input its worker has.
LEMMA SealStep ==
  ASSUME IInv, NEW e \in Epochs, Seal(e)
  PROVE  RowInv'
<1> DEFINE x == exec[e]
           t == exec[e].turn
           a == [NoAttempt EXCEPT !.phase = "prepared", !.turn = x.turn, !.no = x.no, !.cfg = x.cfg]
<1> USE DEF IInv
<1>0. x.pc = "seal" /\ Owned(e) /\ chat.phase = "opening" /\ x.cfg = turn[t].cfg
  BY DEF Seal, CanSeal
<1>1. UNCHANGED <<grant, prov>> BY DEF Seal
<1>2. /\ chat.epoch = e /\ t \in Turns /\ turn[t].st = "running"
      /\ \A u \in Turns : turn[u].st = "running" => u = t
      /\ ~(e > chat.epoch)
  BY <1>0, OwnedFacts
<1>3. turn[t].snap = 0 BY <1>0, <1>2 DEF SnapshotIsCurrent
<1>4. /\ a.phase = "prepared" /\ a.turn = t /\ a.no = x.no /\ a.cfg = x.cfg /\ ~a.begun
      /\ a.proof = "none"
  BY DEF NoAttempt
<1>5. att' = [att EXCEPT ![e] = a] BY DEF Seal
<1> HIDE DEF a
<1>6. att'[e] = a /\ \A f \in Epochs \ {e} : att'[f] = att[f] BY <1>5 DEF TypeOK
<1>7. \A u \in Turns :
        /\ turn'[u].st = turn[u].st /\ turn'[u].ord = turn[u].ord /\ turn'[u].cfg = turn[u].cfg
        /\ turn'[u].snap = IF u = t THEN e ELSE turn[u].snap
  BY DEF Seal, TypeOK, TurnRow
<1>8. chat'.epoch = e /\ chat'.phase = "prepared" /\ chat'.next = chat.next
  BY <1>2 DEF Seal, TypeOK, ChatRow
<1>9. att[e].phase = "none"
  <2>1. att[e].turn = t => att[e].no # x.no BY DEF Seal, CanSeal
  <2> QED BY <2>1 DEF AttemptMatches
<1>10. ~att[e].begun BY <1>9 DEF AttemptPhase
<1>11. exec[e].input = t /\ x.cfg # 0
  <2>1. x.cfg # 0 BY <1>0 DEF ClaimMatches
  <2> QED BY <1>0, <1>2, <2>1 DEF ClaimMatches
<1>12. WorkersGoOn BY CallsKeep, KeepsGoesOn
<1>13. \A f \in Epochs : /\ exec'[f].turn = exec[f].turn /\ exec'[f].no = exec[f].no
                         /\ exec'[f].input = exec[f].input
  BY <1>12 DEF WorkersGoOn, WorkerGoesOn
<1>14. AttemptsGoOn
  BY <1>0, <1>2, <1>4, <1>6, <1>8, <1>10 DEF AttemptsGoOn, TerminalHasEvent
<1>15. NoneStarts BY <1>2, <1>7, <1>8 DEF NoneStarts
<1>16. TerminalHasEvent' /\ FutureIsEmpty' /\ SubmissionIsBegun' /\ ClaimMatches'
  BY <1>1, <1>2, <1>8, <1>12, <1>14, <1>15, SameSessions, WorkersStep
<1>17. OrdinalsAreUnique' BY <1>7, <1>8 DEF OrdinalsAreUnique
<1>18. OneRunning' BY <1>7, <1>8 DEF OneRunning
<1>19. SnapshotIsCurrent'
  <2>1. \A u \in Turns : u # t => turn'[u].st # "running" BY <1>2, <1>7
  <2>2. \A u \in Turns : turn[u].snap # 0 => turn[u].snap # e
    BY <1>9, NoneAssumption DEF SnapshotIsCurrent, AttemptMatches
  <2>3. \A u \in Turns : turn'[u].snap # 0 => turn'[u].snap \in Epochs /\ att'[turn'[u].snap].turn = u
    BY <1>4, <1>6, <1>7, <2>2 DEF SnapshotIsCurrent
  <2> QED BY <1>2, <1>4, <1>6, <1>7, <1>8, <2>1, <2>3 DEF SnapshotIsCurrent
<1>20. AttemptMatches'
  BY <1>0, <1>2, <1>4, <1>6, <1>7, <1>11, <1>13 DEF AttemptMatches
<1>21. AttemptPhase'
  <2>1. \A f \in Epochs : att[f].phase # "none" => att[f].turn \in Turns BY DEF AttemptMatches
  <2>2. \A f \in Epochs : att[f].phase = "prepared" \/ att[f].begun => att[f].turn # t
    <3>1. \A f \in Epochs : f # 0 BY DEF Epochs
    <3> QED BY <1>3, <3>1 DEF AttemptPhase
  <2>3. ASSUME NEW f \in Epochs, f # e
        PROVE  /\ att[f].phase = "prepared" =>
                    turn'[att[f].turn].st = "running" /\ turn'[att[f].turn].snap = f
               /\ att[f].phase \in {"dispatching", "accepted"} =>
                    att[f].begun /\ turn'[att[f].turn].st = "running"
               /\ att[f].begun => /\ att[f].phase \notin {"none", "prepared"}
                                  /\ turn'[att[f].turn].st \in Settled \cup {"running"}
                                  /\ turn'[att[f].turn].snap = f
               /\ att[f].proof = "not_sent" => ~att[f].begun /\ att[f].phase \notin {"none", "prepared"}
    BY <1>7, <2>1, <2>2 DEF AttemptPhase
  <2>4. /\ a.phase = "prepared" => turn'[a.turn].st = "running" /\ turn'[a.turn].snap = e
        /\ a.phase \notin {"dispatching", "accepted"} /\ ~a.begun /\ a.proof # "not_sent"
    BY <1>2, <1>4, <1>7
  <2> QED BY <1>6, <2>3, <2>4 DEF AttemptPhase
<1>22. ConfiguredInOrder' BY <1>7 DEF ConfiguredInOrder, Precedes
<1>23. GrantOfOwner' BY <1>1, <1>2, <1>7, <1>8, <1>13 DEF GrantOfOwner
<1> QED BY <1>16, <1>17, <1>18, <1>19, <1>20, <1>21, <1>22, <1>23 DEF RowInv

\* The barrier is passed by the prepared attempt of the running turn.
LEMMA BeginStep ==
  ASSUME IInv, NEW e \in Epochs, Begin(e)
  PROVE  RowInv'
<1> DEFINE a == att[e]
           b == [a EXCEPT !.phase = "dispatching", !.begun = TRUE]
<1> USE DEF IInv
<1>0. exec[e].pc = "begin" /\ Owned(e) /\ a.phase = "prepared" BY DEF Begin, CanBegin
<1>1. UNCHANGED <<turn, grant, prov>> BY DEF Begin
<1>2. chat.epoch = e /\ ~(e > chat.epoch) BY <1>0, OwnedFacts
<1>3. a \in AttemptRow /\ att \in [Epochs -> AttemptRow] /\ chat \in ChatRow BY DEF TypeOK
<1>4. /\ b.phase = "dispatching" /\ b.begun /\ b.turn = a.turn /\ b.no = a.no /\ b.cfg = a.cfg
      /\ b.proof = a.proof /\ b.ev = a.ev
  BY <1>3 DEF AttemptRow
<1>5. att' = [att EXCEPT ![e] = b] BY <1>3 DEF Begin
<1> HIDE DEF b
<1>6. att'[e] = b /\ \A f \in Epochs \ {e} : att'[f] = att[f] BY <1>3, <1>5
<1>7. chat'.epoch = chat.epoch /\ chat'.phase = "dispatching" /\ chat'.next = chat.next
  BY <1>3 DEF Begin, ChatRow
<1>8. WorkersGoOn BY BeginGoesOn
<1>9. \A f \in Epochs : /\ exec'[f].turn = exec[f].turn
                        /\ att[f].phase # "none" => exec'[f].no = exec[f].no /\ exec'[f].input = exec[f].input
  BY <1>8 DEF WorkersGoOn, WorkerGoesOn
<1>10. AttemptsGoOn BY <1>2, <1>4, <1>6, <1>7 DEF AttemptsGoOn, TerminalHasEvent
<1>11. NoneStarts BY <1>1, <1>7 DEF NoneStarts
<1>12. TerminalHasEvent' /\ FutureIsEmpty' /\ SubmissionIsBegun' /\ ClaimMatches'
  BY <1>1, <1>7, <1>8, <1>10, <1>11, SameSessions, WorkersStep
<1>13. OrdinalsAreUnique' BY <1>1, <1>7 DEF OrdinalsAreUnique
<1>14. OneRunning' BY <1>1, <1>7 DEF OneRunning
<1>15. SnapshotIsCurrent' BY <1>1, <1>4, <1>6, <1>7 DEF SnapshotIsCurrent
<1>16. AttemptMatches' BY <1>0, <1>1, <1>4, <1>6, <1>9 DEF AttemptMatches
<1>17. AttemptPhase'
  <2>1. turn[a.turn].st = "running" /\ turn[a.turn].snap = e BY <1>0 DEF AttemptPhase
  <2>2. a.proof # "not_sent" BY <1>0 DEF AttemptPhase
  <2> QED BY <1>1, <1>4, <1>6, <2>1, <2>2 DEF AttemptPhase
<1>18. ConfiguredInOrder' BY <1>1 DEF ConfiguredInOrder, Precedes
<1>19. GrantOfOwner' BY <1>1, <1>7, <1>9 DEF GrantOfOwner
<1> QED BY <1>12, <1>13, <1>14, <1>15, <1>16, <1>17, <1>18, <1>19 DEF RowInv
\* The running turn t is settled, or queued again before its barrier; its attempt, if
\* it has one, ends, and no grant is left.
Ends(t) ==
  /\ turn[t].st = "running"
  /\ \A u \in Turns : u # t => turn'[u] = turn[u]
  /\ turn'[t].ord = turn[t].ord /\ turn'[t].cfg = turn[t].cfg
  /\ \/ turn'[t].st \in Settled /\ turn'[t].snap = turn[t].snap
     \/ /\ turn'[t].st = "queued" /\ turn'[t].snap = 0
        /\ turn[t].snap # 0 => att[turn[t].snap].phase = "prepared"
  /\ \A e \in Epochs : IF e # turn[t].snap THEN att'[e] = att[e] ELSE
       /\ att'[e].turn = att[e].turn /\ att'[e].no = att[e].no /\ att'[e].cfg = att[e].cfg
       /\ att'[e].begun = att[e].begun /\ att'[e].ev = att[e].ev
       /\ att[e].phase # "none" /\ att'[e].phase \in {"settled", "delivery_unknown"}
       /\ att'[e].proof \in {"completed", "failed"} => att[e].ev # "none"
       /\ att'[e].proof = "not_sent" => ~att[e].begun
  /\ chat'.next = chat.next /\ chat'.epoch \in {chat.epoch, chat.epoch + 1}
  /\ \A e \in Epochs : grant'[e] # "live"
  /\ prov' = prov

\* A turn that ends like that keeps the invariant.
LEMMA EndStep ==
  ASSUME IInv, NEW t \in Turns, Ends(t), WorkersGoOn
  PROVE  RowInv'
<1> USE DEF IInv
<1>0. chat.epoch \in Nat BY DEF TypeOK, ChatRow
<1>1. turn[t].st = "running" /\ \A u \in Turns : turn[u].st = "running" => u = t
  BY DEF Ends, OneRunning
<1>2. turn[t].snap # 0 => turn[t].snap = chat.epoch BY <1>1 DEF SnapshotIsCurrent
<1>3. \A u \in Turns : /\ turn'[u].st # "running"
                       /\ turn'[u].ord = turn[u].ord /\ turn'[u].cfg = turn[u].cfg
                       /\ turn[u].st \in Settled => turn'[u] = turn[u]
                       /\ u # t => turn'[u] = turn[u]
  BY <1>1 DEF Ends, Settled
<1>4. \A f \in Epochs : /\ exec'[f].turn = exec[f].turn
                        /\ att[f].phase # "none" => exec'[f].no = exec[f].no /\ exec'[f].input = exec[f].input
  BY DEF WorkersGoOn, WorkerGoesOn
<1>5. NoneStarts BY <1>3 DEF NoneStarts
<1>6. AttemptsGoOn
  <2>1. \A f \in Epochs : f > chat'.epoch => f # turn[t].snap
    <3>1. \A f \in Epochs : f # 0 BY DEF Epochs
    <3> QED BY <1>0, <1>2, <3>1 DEF Ends
  <2> QED BY <2>1 DEF Ends, AttemptsGoOn, TerminalHasEvent
<1>7. prov' = prov /\ chat'.epoch \in {chat.epoch, chat.epoch + 1} BY DEF Ends
<1>8. TerminalHasEvent' /\ FutureIsEmpty' /\ SubmissionIsBegun' /\ ClaimMatches'
  BY <1>5, <1>6, <1>7, SameSessions, WorkersStep
<1>9. OrdinalsAreUnique'
  <2>1. turn'[t].st \notin {"absent", "posting"} BY DEF Ends, Settled
  <2>2. chat'.next = chat.next BY DEF Ends
  <2> QED BY <1>1, <1>3, <2>1, <2>2 DEF OrdinalsAreUnique
<1>10. OneRunning' BY <1>3 DEF OneRunning
<1>11. SnapshotIsCurrent'
  <2>1. turn'[t].st \in {"absent", "posting", "queued"} => turn'[t].snap = 0 BY DEF Ends, Settled
  <2>2. \A u \in Turns : turn'[u].snap # 0 => turn'[u].snap = turn[u].snap
    BY <1>3 DEF Ends
  <2>3. \A u \in Turns : turn'[u].snap # 0 => turn'[u].snap \in Epochs /\ att'[turn'[u].snap].turn = u
    BY <2>2 DEF SnapshotIsCurrent, Ends
  <2> QED BY <1>3, <2>1, <2>3 DEF SnapshotIsCurrent
<1>12. AttemptMatches' BY <1>3, <1>4 DEF Ends, AttemptMatches
<1>13. AttemptPhase'
  <2>1. \A f \in Epochs : att[f].phase # "none" => att[f].turn \in Turns BY DEF AttemptMatches
  <2>2. ASSUME NEW f \in Epochs, f # turn[t].snap
        PROVE  /\ att'[f] = att[f] /\ att[f].phase \notin {"prepared", "dispatching", "accepted"}
               /\ att[f].begun => att[f].turn # t
    <3>1. att'[f] = att[f] BY <2>2 DEF Ends
    <3>2. att[f].phase = "prepared" \/ att[f].begun => turn[att[f].turn].snap = f
      BY DEF AttemptPhase
    <3>3. att[f].phase \in {"prepared", "dispatching", "accepted"} =>
            att[f].turn = t /\ turn[att[f].turn].snap = f
      BY <1>1, <2>1, <3>2 DEF AttemptPhase
    <3> QED BY <2>2, <3>1, <3>2, <3>3
  <2>3. ASSUME NEW f \in Epochs, f # turn[t].snap
        PROVE  /\ att'[f].phase = "prepared" =>
                    turn'[att'[f].turn].st = "running" /\ turn'[att'[f].turn].snap = f
               /\ att'[f].phase \in {"dispatching", "accepted"} =>
                    att'[f].begun /\ turn'[att'[f].turn].st = "running"
               /\ att'[f].begun => /\ att'[f].phase \notin {"none", "prepared"}
                                   /\ turn'[att'[f].turn].st \in Settled \cup {"running"}
                                   /\ turn'[att'[f].turn].snap = f
               /\ att'[f].proof = "not_sent" => ~att'[f].begun /\ att'[f].phase \notin {"none", "prepared"}
    BY <1>1, <1>3, <2>1, <2>2, <2>3 DEF AttemptPhase
  <2>4. ASSUME NEW f \in Epochs, f = turn[t].snap
        PROVE  /\ att'[f].phase \in {"settled", "delivery_unknown"}
               /\ att'[f].begun => /\ turn'[att'[f].turn].st \in Settled
                                   /\ turn'[att'[f].turn].snap = f
               /\ att'[f].proof = "not_sent" => ~att'[f].begun
    <3>1. /\ att'[f].turn = att[f].turn /\ att'[f].begun = att[f].begun
          /\ att'[f].phase \in {"settled", "delivery_unknown"}
          /\ att'[f].proof = "not_sent" => ~att[f].begun
          /\ att[f].turn \in Turns
      BY <2>1, <2>4 DEF Ends
    <3>2. ASSUME att[f].begun
          PROVE  turn'[att[f].turn].st \in Settled /\ turn'[att[f].turn].snap = f
      <4>1. turn[att[f].turn].st \in Settled \cup {"running"} /\ turn[att[f].turn].snap = f
        BY <3>2 DEF AttemptPhase
      <4>2. f # 0 /\ att[f].phase # "prepared" BY <3>2 DEF AttemptPhase, Epochs
      <4>3. turn'[t].st \in Settled /\ turn'[t].snap = turn[t].snap BY <2>4, <4>2 DEF Ends
      <4>4. CASE att[f].turn = t BY <2>4, <4>3, <4>4
      <4>5. CASE att[f].turn # t BY <1>1, <1>3, <3>1, <4>1, <4>5
      <4> QED BY <4>4, <4>5
    <3> QED BY <3>1, <3>2
  <2> QED BY <2>3, <2>4 DEF AttemptPhase
<1>14. ConfiguredInOrder' BY <1>3 DEF ConfiguredInOrder, Precedes
<1>15. GrantOfOwner' BY DEF Ends, GrantOfOwner
<1> QED BY <1>8, <1>9, <1>10, <1>11, <1>12, <1>13, <1>14, <1>15 DEF RowInv

\* What is written to the attempt of the turn that ends.
LEMMA EndedAttempt ==
  ASSUME TypeOK, NEW e \in Epochs, NEW ph, NEW pr
  PROVE  /\ LET b == [att[e] EXCEPT !.phase = ph, !.proof = pr] IN
              /\ [att EXCEPT ![e].phase = ph, ![e].proof = pr] = [att EXCEPT ![e] = b]
              /\ b.turn = att[e].turn /\ b.no = att[e].no /\ b.cfg = att[e].cfg
              /\ b.begun = att[e].begun /\ b.ev = att[e].ev /\ b.phase = ph /\ b.proof = pr
         /\ LET b == [att[e] EXCEPT !.phase = ph] IN
              /\ [att EXCEPT ![e].phase = ph] = [att EXCEPT ![e] = b]
              /\ b.turn = att[e].turn /\ b.no = att[e].no /\ b.cfg = att[e].cfg
              /\ b.begun = att[e].begun /\ b.ev = att[e].ev /\ b.phase = ph
              /\ b.proof = att[e].proof
  BY DEF TypeOK, AttemptRow

\* and the turn its ordinal and configuration.
LEMMA EndedTurn ==
  ASSUME TypeOK, NEW t \in Turns, NEW st
  PROVE  /\ LET r == [turn EXCEPT ![t].st = st] IN
              /\ \A u \in Turns : u # t => r[u] = turn[u]
              /\ r[t].st = st /\ r[t].ord = turn[t].ord /\ r[t].cfg = turn[t].cfg
              /\ r[t].snap = turn[t].snap
         /\ LET r == [turn EXCEPT ![t].st = st, ![t].snap = 0] IN
              /\ \A u \in Turns : u # t => r[u] = turn[u]
              /\ r[t].st = st /\ r[t].ord = turn[t].ord /\ r[t].cfg = turn[t].cfg
              /\ r[t].snap = 0
  BY DEF TypeOK, TurnRow

\* The owner's grant is the only live one.
LEMMA RevokeLeavesNone ==
  ASSUME IInv, NEW e \in Epochs, chat.epoch = e, grant' = Revoke(e)
  PROVE  \A f \in Epochs : grant'[f] # "live"
  BY DEF IInv, TypeOK, GrantOfOwner, Revoke
\* complete_chat_turn ends the turn of its owner.
LEMMA CompleteStep ==
  ASSUME IInv, NEW e \in Epochs, NEW st \in Settled, NEW pr \in Outcomes,
         exec[e].pc # "none", Complete(e, st, pr), Keeps(e), pr = "lost" \/ att[e].ev # "none"
  PROVE  RowInv'
<1> DEFINE t == exec[e].turn
<1> USE DEF IInv
<1>1. Owned(e) /\ turn[t].snap = e /\ att[e].phase # "none" BY DEF Complete, CanComplete
<1>2. chat.epoch = e /\ t \in Turns /\ turn[t].st = "running" BY <1>1, OwnedFacts
<1>3. chat \in ChatRow /\ att \in [Epochs -> AttemptRow] BY DEF TypeOK
<1>4. chat'.epoch = chat.epoch /\ chat'.next = chat.next BY <1>3 DEF Complete, ChatRow
<1>5. \A f \in Epochs : grant'[f] # "live" BY <1>2, RevokeLeavesNone DEF Complete
<1>6. /\ \A f \in Epochs : f # e => att'[f] = att[f]
      /\ att'[e].turn = att[e].turn /\ att'[e].no = att[e].no /\ att'[e].cfg = att[e].cfg
      /\ att'[e].begun = att[e].begun /\ att'[e].ev = att[e].ev
      /\ att'[e].phase = "settled" /\ att'[e].proof = pr
  <2> DEFINE b == [att[e] EXCEPT !.phase = "settled", !.proof = pr]
  <2>1. att' = [att EXCEPT ![e] = b] BY EndedAttempt DEF Complete
  <2>2. /\ b.turn = att[e].turn /\ b.no = att[e].no /\ b.cfg = att[e].cfg
        /\ b.begun = att[e].begun /\ b.ev = att[e].ev /\ b.phase = "settled" /\ b.proof = pr
    BY DEF TypeOK, AttemptRow
  <2> HIDE DEF b
  <2> QED BY <1>3, <2>1, <2>2
<1>7. /\ \A u \in Turns : u # t => turn'[u] = turn[u]
      /\ turn'[t].st = st /\ turn'[t].ord = turn[t].ord /\ turn'[t].cfg = turn[t].cfg
      /\ turn'[t].snap = turn[t].snap
  <2>1. turn' = [turn EXCEPT ![t].st = st] BY DEF Complete
  <2> QED BY <1>2, <2>1, EndedTurn
<1>8. prov' = prov BY DEF Complete
<1>9. Ends(t)
  <2>1. pr # "not_sent" /\ (pr \in {"completed", "failed"} => att[e].ev # "none") BY DEF Outcomes
  <2> QED BY <1>1, <1>2, <1>4, <1>5, <1>6, <1>7, <1>8, <2>1 DEF Ends
<1> QED BY <1>2, <1>9, KeepsGoesOn, EndStep

\* Its two callers: a terminal observed, and a turn that failed past its barrier.
LEMMA CompletesStep ==
  ASSUME IInv, NEW e \in Epochs, SettleCompletes(e) \/ FailCompletes(e)
  PROVE  RowInv'
<1>1. Keeps(e) BY CallsKeep
<1>2. CASE SettleCompletes(e)
  <2>1. exec[e].pc = "scomplete" BY <1>2 DEF SettleCompletes
  <2>2. att[e].ev # "none" BY <2>1 DEF IInv, TerminalHasEvent
  <2>3. exec[e].term \in Outcomes BY DEF IInv, TypeOK, Execution
  <2>4. {"completed", "error"} \subseteq Settled BY DEF Settled
  <2> QED BY <1>1, <1>2, <2>1, <2>2, <2>3, <2>4, CompleteStep DEF SettleCompletes
<1>3. CASE FailCompletes(e)
  <2>1. exec[e].pc = "fcomplete" BY <1>3 DEF FailCompletes
  <2>2. "lost" \in Outcomes /\ "error" \in Settled BY DEF Outcomes, Settled
  <2> QED BY <1>1, <1>3, <2>1, <2>2, CompleteStep DEF FailCompletes
<1> QED BY <1>2, <1>3

\* A preparation fails only before the barrier: its attempt was not begun.
LEMMA FailPreparationStep ==
  ASSUME IInv, NEW e \in Epochs, FailPreparation(e)
  PROVE  RowInv'
<1> DEFINE t == exec[e].turn
           s == turn[exec[e].turn].snap
<1> USE DEF IInv
<1>1. /\ exec[e].pc = "fprep" /\ Owned(e)
      /\ chat.phase \in {"preparing", "opening", "prepared", "ready"}
  BY DEF FailPreparation, CanFailPreparation
<1>2. chat.epoch = e /\ t \in Turns /\ turn[t].st = "running" /\ s \in {0, e}
  BY <1>1, OwnedFacts
<1>3. chat \in ChatRow /\ att \in [Epochs -> AttemptRow] BY DEF TypeOK
<1>4. chat'.epoch = chat.epoch /\ chat'.next = chat.next BY <1>3 DEF FailPreparation, ChatRow
<1>5. \A f \in Epochs : grant'[f] # "live" BY <1>2, RevokeLeavesNone DEF FailPreparation
<1>6. s # 0 => att[s].phase = "prepared" /\ ~att[s].begun
  BY <1>1, <1>2 DEF SnapshotIsCurrent, AttemptPhase
<1>7. /\ \A f \in Epochs : f # s => att'[f] = att[f]
      /\ s # 0 => /\ att'[s].turn = att[s].turn /\ att'[s].no = att[s].no /\ att'[s].cfg = att[s].cfg
                  /\ att'[s].begun = att[s].begun /\ att'[s].ev = att[s].ev
                  /\ att'[s].phase = "settled" /\ att'[s].proof = "not_sent"
  <2>1. CASE s = 0 BY <2>1 DEF FailPreparation
  <2>2. CASE s # 0
    <3> DEFINE b == [att[s] EXCEPT !.phase = "settled", !.proof = "not_sent"]
    <3>1. s \in Epochs BY <1>2, <2>2
    <3>2. att' = [att EXCEPT ![s] = b] BY <2>2, <3>1, EndedAttempt DEF FailPreparation
    <3>3. /\ b.turn = att[s].turn /\ b.no = att[s].no /\ b.cfg = att[s].cfg
          /\ b.begun = att[s].begun /\ b.ev = att[s].ev /\ b.phase = "settled" /\ b.proof = "not_sent"
      BY <3>1 DEF TypeOK, AttemptRow
    <3> HIDE DEF b
    <3> QED BY <1>3, <3>1, <3>2, <3>3
  <2> QED BY <2>1, <2>2
<1>8. /\ \A u \in Turns : u # t => turn'[u] = turn[u]
      /\ turn'[t].st = "error" /\ turn'[t].ord = turn[t].ord /\ turn'[t].cfg = turn[t].cfg
      /\ turn'[t].snap = s
  <2>1. turn' = [turn EXCEPT ![t].st = "error"] BY DEF FailPreparation
  <2> QED BY <1>2, <2>1, EndedTurn
<1>9. prov' = prov BY DEF FailPreparation
<1>10. Ends(t)
  <2>1. "error" \in Settled BY DEF Settled
  <2>2. \A f \in Epochs : f # 0 BY DEF Epochs
  <2> QED BY <1>2, <1>4, <1>5, <1>6, <1>7, <1>8, <1>9, <2>1, <2>2 DEF Ends
<1> QED BY <1>2, <1>10, CallsKeep, KeepsGoesOn, EndStep

\* A settled turn whose owner is gone only frees the chat.
LEMMA ReleaseSettledStep ==
  ASSUME IInv, \A t \in Turns : turn[t].st # "running", turn' = turn, att' = att, exec' = exec,
         prov' = prov, chat'.next = chat.next, chat'.epoch = chat.epoch + 1,
         \A e \in Epochs : grant'[e] # "live"
  PROVE  RowInv'
<1> USE DEF IInv
<1>1. chat.epoch \in Nat BY DEF TypeOK, ChatRow
<1>2. NoneStarts BY DEF NoneStarts
<1>3. TerminalHasEvent' /\ FutureIsEmpty' /\ SubmissionIsBegun' /\ ClaimMatches'
  BY <1>2, SameWorkers, SameAttempts, SameSessions, WorkersStep
<1>4. OrdinalsAreUnique' /\ OneRunning' BY DEF OrdinalsAreUnique, OneRunning
<1>5. SnapshotIsCurrent' BY DEF SnapshotIsCurrent
<1>6. AttemptMatches' /\ AttemptPhase' BY DEF AttemptMatches, AttemptPhase
<1>7. ConfiguredInOrder' /\ GrantOfOwner' BY DEF ConfiguredInOrder, Precedes, GrantOfOwner
<1> QED BY <1>3, <1>4, <1>5, <1>6, <1>7 DEF RowInv

\* The recovery ends the abandoned turn, and retries it only before its barrier.
LEMMA RecoverStep ==
  ASSUME IInv, NEW n \in Nodes, NEW t \in Turns, Recover(t), ~WaitOwner(n, t),
         exec' = exec, prov' = prov
  PROVE  RowInv'
<1> DEFINE s == turn[t].snap
<1> USE DEF IInv
<1>1. chat \in ChatRow /\ chat.epoch \in Nat /\ att \in [Epochs -> AttemptRow]
  BY DEF TypeOK, ChatRow
<1>2. chat'.epoch = chat.epoch + 1 /\ chat'.next = chat.next
  BY <1>1 DEF Recover, FreedByRecovery, FreedChat, ChatRow
<1>3. \A f \in Epochs : grant'[f] # "live" BY DEF Recover, FreedByRecovery
<1>4. CASE ReleaseSettled(t)
  <2>1. chat.phase = "closing" BY <1>4 DEF ReleaseSettled, WaitOwner
  <2>2. \A u \in Turns : turn[u].st # "running" BY <2>1 DEF OneRunning
  <2> QED BY <1>2, <1>3, <1>4, <2>2, ReleaseSettledStep DEF ReleaseSettled
<1>5. SUFFICES ASSUME RetryPrepared(t) \/ FinalizeTerminal(t) \/ SettleUnknown(t)
               PROVE  Ends(t)
  BY <1>4, SameWorkers, EndStep DEF Recover
<1>6. turn[t].st = "running" BY <1>5 DEF RetryPrepared, FinalizeTerminal, SettleUnknown, Dispatched
<1>7. s = 0 \/ (s \in Epochs /\ att[s].phase # "none")
  BY NoneAssumption DEF SnapshotIsCurrent, AttemptMatches
<1> DEFINE b == [att[s] EXCEPT !.phase = "settled", !.proof = "not_sent"]
           c == [att[s] EXCEPT !.phase = "settled"]
           d == [att[s] EXCEPT !.phase = "delivery_unknown"]
<1>8. s # 0 => /\ b.turn = att[s].turn /\ b.no = att[s].no /\ b.cfg = att[s].cfg
               /\ b.begun = att[s].begun /\ b.ev = att[s].ev /\ b.phase = "settled"
               /\ b.proof = "not_sent"
               /\ c.turn = att[s].turn /\ c.no = att[s].no /\ c.cfg = att[s].cfg
               /\ c.begun = att[s].begun /\ c.ev = att[s].ev /\ c.phase = "settled"
               /\ c.proof = att[s].proof
               /\ d.turn = att[s].turn /\ d.no = att[s].no /\ d.cfg = att[s].cfg
               /\ d.begun = att[s].begun /\ d.ev = att[s].ev /\ d.phase = "delivery_unknown"
               /\ d.proof = att[s].proof
  BY <1>7 DEF TypeOK, AttemptRow
<1>9. s # 0 => /\ att[s].proof \in {"completed", "failed"} => att[s].ev # "none"
               /\ att[s].proof = "not_sent" => ~att[s].begun
  BY <1>7 DEF TerminalHasEvent, AttemptPhase
<1>10. \A f \in Epochs : f # 0 BY DEF Epochs
<1>11. CASE RetryPrepared(t)
  <2>1. s # 0 => att[s].phase = "prepared" /\ ~att[s].begun
    BY <1>7, <1>11 DEF RetryPrepared, AttemptPhase
  <2>2. att' = IF s = 0 THEN att ELSE [att EXCEPT ![s] = b]
    BY <1>7, <1>11, EndedAttempt DEF RetryPrepared
  <2> HIDE DEF b
  <2>3. /\ \A f \in Epochs : f # s => att'[f] = att[f]
        /\ s # 0 => att'[s] = b
    BY <1>1, <1>7, <2>2
  <2>4. /\ \A u \in Turns : u # t => turn'[u] = turn[u]
        /\ turn'[t].st = "queued" /\ turn'[t].ord = turn[t].ord /\ turn'[t].cfg = turn[t].cfg
        /\ turn'[t].snap = 0
    BY <1>11 DEF RetryPrepared, TypeOK, TurnRow
  <2> QED BY <1>2, <1>3, <1>6, <1>7, <1>8, <1>9, <1>10, <2>1, <2>3, <2>4 DEF Ends
<1>12. CASE FinalizeTerminal(t)
  <2>1. s # 0 BY <1>12 DEF FinalizeTerminal, HasTerminal
  <2>2. att' = [att EXCEPT ![s] = c] BY <1>12, <2>1 DEF FinalizeTerminal
  <2> HIDE DEF c
  <2>3. /\ \A f \in Epochs : f # s => att'[f] = att[f]
        /\ att'[s] = c
    BY <1>1, <1>7, <2>1, <2>2
  <2>4. PICK st \in Settled : turn' = [turn EXCEPT ![t].st = st]
    BY <1>12 DEF FinalizeTerminal, Settled
  <2>5. /\ \A u \in Turns : u # t => turn'[u] = turn[u]
        /\ turn'[t].st = st /\ turn'[t].ord = turn[t].ord /\ turn'[t].cfg = turn[t].cfg
        /\ turn'[t].snap = s
    BY <2>4, EndedTurn
  <2> QED BY <1>2, <1>3, <1>6, <1>7, <1>8, <1>9, <2>1, <2>3, <2>5 DEF Ends
<1>13. CASE SettleUnknown(t)
  <2>1. att' = IF s = 0 THEN att ELSE [att EXCEPT ![s] = d] BY <1>13 DEF SettleUnknown
  <2> HIDE DEF d
  <2>2. /\ \A f \in Epochs : f # s => att'[f] = att[f]
        /\ s # 0 => att'[s] = d
    BY <1>1, <1>7, <2>1
  <2>3. /\ \A u \in Turns : u # t => turn'[u] = turn[u]
        /\ turn'[t].st = "error" /\ turn'[t].ord = turn[t].ord /\ turn'[t].cfg = turn[t].cfg
        /\ turn'[t].snap = s
    BY <1>13, EndedTurn DEF SettleUnknown
  <2>4. "error" \in Settled BY DEF Settled
  <2> QED BY <1>2, <1>3, <1>6, <1>7, <1>8, <1>9, <1>10, <2>2, <2>3, <2>4 DEF Ends
<1> QED BY <1>5, <1>11, <1>12, <1>13
=============================================================================
