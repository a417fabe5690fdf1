------------------------- MODULE FormDeliveryProofs -------------------------
(***************************************************************************)
(* What holds of FormDelivery for any number of answers, drains, prompts,  *)
(* processes, faults and slow steps: the types, the two promises of the    *)
(* terminal, that no attempt waits for a report nobody will give, that the *)
(* record of an attempt is true, and that no answer is forgotten.  Where   *)
(* no step of a drain outlasts a lease: no answer is shown twice, the rows *)
(* of the outbox are true, and every answer is delivered as AnswerDelivery *)
(* promises.                                                               *)
(***************************************************************************)
EXTENDS FormDeliveryTypes

-----------------------------------------------------------------------------
(***************************************************************************)
(* The inductive invariant.  A prompt is admitted once in its life: what   *)
(* an attempt does before, and the numbers the attempts get, see to that.  *)
(***************************************************************************)
\* The first turn is not known to the queue before the launch.
LaunchComesFirst == launch = "new" => pty = 0 /\ Unseen(First)

\* Neither is an attempt, or a user's prompt, before its step into the queue.
Unsent ==
  /\ \A d \in Forms : adapter[d] \in {"none", "claim", "write"} => Unseen(d)
  /\ \A u \in Users : adapter[u] \in {"none", "write"} => Unseen(u)

\* Attempts are numbered as they are claimed.
Numbered == \A d \in Forms : adapter[d] # "none" => d[2] <= outbox[d[1]].attempts

\* The items a drain has not begun: each is about an attempt of its own that
\* nobody has made.
Ahead(i, n) == n \in 1..Len(drains[i].items) /\ (n > 1 \/ drains[i].at \in {"next", "claim"})
NumberOf(i, n) == <<drains[i].items[n].of, drains[i].items[n].attempt>>
ItemsAreNew ==
  /\ \A i \in Drains : \A n \in 1..Len(drains[i].items) : Ahead(i, n) =>
       /\ adapter[NumberOf(i, n)] = "none"
       /\ drains[i].items[n].attempt <= outbox[drains[i].items[n].of].attempts
  /\ \A i, j \in Drains : \A m \in 1..Len(drains[i].items), n \in 1..Len(drains[j].items) :
       Ahead(i, m) /\ Ahead(j, n) /\ NumberOf(i, m) = NumberOf(j, n) => i = j /\ m = n

\* An attempt that waits for its report is queued, being typed or reported.
WaitsForReport == \A d \in Forms : adapter[d] = "wait" => Answered(d)

IInv ==
  /\ TypeOK /\ HasItem /\ QueueInv /\ LaunchComesFirst
  /\ Unsent /\ Numbered /\ ItemsAreNew /\ WaitsForReport

-----------------------------------------------------------------------------
(***************************************************************************)
(* The queue, step by step.                                                *)
(***************************************************************************)
LEMMA FaultsBound ==
  ASSUME TypeOK, Fault \/ faults' = faults
  PROVE  faults' \in 0..MaxFaults
BY QueueAssumption DEF TypeOK, QueueTypeOK, Fault

LEMMA SameQueue ==
  ASSUME QueueInv, UNCHANGED queueVars, faults' \in 0..MaxFaults
  PROVE  QueueInv' /\ KeepsUnseen({}) /\ KeepsAnswered
<1>1. QueueInv' BY SameInput DEF queueVars, QueueInv, QueueTypeOK, LoopRuns
<1>2. KeepsUnseen({}) BY DEF queueVars, KeepsUnseen, Unseen, Busy
<1>3. KeepsAnswered BY DEF queueVars, KeepsAnswered, Answered, Pending, Busy
<1> QED BY <1>1, <1>2, <1>3

\* A step into the queue is a prompt's last step before its report.
SentNow(d) == IF d = First THEN launch' # "new" ELSE adapter[d] = "write" /\ adapter'[d] \in {"wait", "done"}
QueueKept ==
  /\ QueueInv'
  /\ \A d \in Deliveries : Unseen(d) => Unseen(d)' \/ SentNow(d)

LEMMA KeptWithout ==
  ASSUME QueueInv', NEW ds, KeepsUnseen(ds), \A d \in ds : SentNow(d)
  PROVE  QueueKept
BY DEF KeepsUnseen, QueueKept

LEMMA Prompts ==
  /\ First \in Deliveries /\ Forms \subseteq Deliveries /\ Users \subseteq Deliveries
  /\ Deliveries = (Forms \cup Users) \cup {First}
  /\ \A d \in Forms : d # First /\ d \notin Users
  /\ \A u \in Users : u # First
BY PromptAssumption DEF Deliveries

\* What the session does to the queue.
LEMMA SessionQueue ==
  ASSUME IInv, Session \/ Resume \/ End
  PROVE  QueueKept /\ KeepsAnswered
<1> USE DEF IInv
<1>0. faults' \in 0..MaxFaults
  <2>1. Fault \/ faults' = faults
    BY DEF Session, Launch, LaunchDone, LaunchFails, Resume, ResumeSpawns, ResumeRuns, ResumeDone, ResumeFails, End, RecordEnd, queueVars
  <2> QED BY <2>1, FaultsBound
<1>1. CASE Launch
  <2>1. pty = 0 /\ Unseen(First) /\ SpawnPty(<<First>>) /\ launch' # "new"
    BY <1>1 DEF Launch, LaunchComesFirst
  <2>2. QueueInv' /\ KeepsUnseen({First}) /\ KeepsAnswered BY <1>0, <2>1, SpawnStep
  <2> QED BY <2>1, <2>2, KeptWithout DEF SentNow
<1>2. CASE ResumeSpawns
  <2>1. pty = 0 /\ SpawnPty(<<>>) /\ launch' # "new" BY <1>2 DEF ResumeSpawns
  <2>2. QueueInv' /\ KeepsUnseen({First}) /\ KeepsAnswered BY <1>0, <2>1, SpawnStep
  <2> QED BY <2>1, <2>2, KeptWithout DEF SentNow
<1>3. CASE Discard
  BY <1>0, <1>3, DiscardStep, KeptWithout
<1>4. CASE UNCHANGED queueVars
  BY <1>0, <1>4, SameQueue, KeptWithout
<1>5. CASE ResumeFails /\ ~Discard /\ ~UNCHANGED queueVars
  <2>1. handoff' \in {handoff, TRUE} /\ UNCHANGED <<pty, spawns, queue, drainer, writer, input, reports>>
    BY <1>5 DEF ResumeFails
  <2>2. handoff' \in BOOLEAN BY <2>1 DEF QueueInv, QueueTypeOK
  <2>3. QueueInv' BY <1>0, <2>1, <2>2, SameInput DEF QueueInv, QueueTypeOK, LoopRuns
  <2>4. KeepsUnseen({}) BY <2>1 DEF KeepsUnseen, Unseen, Busy
  <2>5. KeepsAnswered BY <2>1 DEF KeepsAnswered, Answered, Pending, Busy
  <2> QED BY <2>3, <2>4, <2>5, KeptWithout
<1> QED
  BY <1>1, <1>2, <1>3, <1>4, <1>5 DEF Session, LaunchDone, LaunchFails, Resume, ResumeRuns, ResumeDone, End, RecordEnd

\* An attempt, and a user's prompt, that steps into the queue.
LEMMA AttemptQueue ==
  ASSUME IInv, NEW d \in Forms, Attempt(d)
  PROVE  /\ QueueKept /\ KeepsAnswered
         /\ adapter'[d] = "wait" => Answered(d)'
         /\ \A x \in Forms \cup Users : x # d => adapter'[x] = adapter[x]
         /\ adapter'[d] \in {"none", "claim", "write"} => adapter[d] \in {"none", "claim", "write"}
         /\ adapter'[d] # "none" => adapter[d] # "none"
<1> USE DEF IInv
<1>0. faults' \in 0..MaxFaults
  <2>1. Fault \/ faults' = faults BY DEF Attempt, ClaimRow, Prompt, Settle
  <2> QED BY <2>1, FaultsBound
<1>1. adapter \in [Forms \cup Users -> {"none", "claim", "write", "wait", "refused", "done"}]
  BY DEF TypeOK, FormTypeOK
<1>2. ASSUME NEW s, Adapt(d, s)
      PROVE  adapter'[d] = s /\ \A x \in Forms \cup Users : x # d => adapter'[x] = adapter[x]
  BY <1>1, <1>2 DEF Adapt
<1>3. CASE Prompt(d) /\ Admit(d)
  <2>1. adapter[d] = "write" BY <1>3 DEF Prompt
  <2>2. Adapt(d, "wait") \/ (Adapt(d, "refused") /\ UNCHANGED queueVars) BY <1>3 DEF Prompt
  <2>3. Unseen(d) /\ d \in Deliveries /\ d # First BY <2>1, Prompts DEF Unsent
  <2>4. CASE Adapt(d, "wait")
    <3>1. QueueInv' /\ KeepsUnseen({d}) /\ KeepsAnswered /\ Answered(d)'
      BY <1>0, <1>3, <2>3, AdmitStep
    <3> QED BY <1>2, <2>1, <2>3, <2>4, <3>1, KeptWithout DEF SentNow
  <2>5. CASE Adapt(d, "refused") /\ UNCHANGED queueVars
    BY <1>0, <1>2, <2>1, <2>5, SameQueue, KeptWithout
  <2> QED BY <2>2, <2>4, <2>5
<1>4. CASE UNCHANGED queueVars
  <2>1. QueueKept /\ KeepsAnswered BY <1>0, <1>4, SameQueue, KeptWithout
  <2>2. \/ Adapt(d, "write") /\ adapter[d] = "claim"
        \/ Adapt(d, "none") /\ adapter[d] = "claim"
        \/ Adapt(d, "refused") /\ adapter[d] = "write"
        \/ Adapt(d, "done") /\ adapter[d] \in {"refused", "wait"}
        \/ Adapt(d, "wait") /\ adapter[d] = "write" /\ Admit(d)
    BY DEF Attempt, ClaimRow, Prompt, Settle
  <2>3. CASE Adapt(d, "wait") /\ adapter[d] = "write" /\ Admit(d)
    <3>1. Unseen(d) /\ d \in Deliveries BY <2>3, Prompts DEF Unsent
    <3>2. Answered(d)' BY <1>0, <2>3, <3>1, AdmitStep
    <3> QED BY <1>2, <2>1, <2>3, <3>2
  <2> QED BY <1>2, <2>1, <2>2, <2>3
<1> QED BY <1>3, <1>4 DEF Attempt, ClaimRow, Prompt, Settle

\* The other steps of the server and of the users.
LEMMA UserQueue ==
  ASSUME IInv, NEW u \in Users, AskPrompt(u) \/ AdmitPrompt(u)
  PROVE  /\ QueueKept /\ KeepsAnswered
         /\ \A x \in Forms \cup Users : x # u => adapter'[x] = adapter[x]
         /\ adapter'[u] \in {"none", "write"} => adapter[u] \in {"none", "write"}
<1> USE DEF IInv
<1>0. faults' \in 0..MaxFaults BY FaultsBound DEF AskPrompt, AdmitPrompt
<1>1. adapter \in [Forms \cup Users -> {"none", "claim", "write", "wait", "refused", "done"}]
  BY DEF TypeOK, FormTypeOK
<1>2. ASSUME NEW s, Adapt(u, s)
      PROVE  adapter'[u] = s /\ \A x \in Forms \cup Users : x # u => adapter'[x] = adapter[x]
  BY <1>1, <1>2 DEF Adapt
<1>3. CASE AskPrompt(u)
  <2>1. adapter[u] = "none" /\ Adapt(u, "write") /\ UNCHANGED queueVars BY <1>3 DEF AskPrompt
  <2>2. QueueKept /\ KeepsAnswered BY <1>0, <2>1, SameQueue, KeptWithout
  <2> QED BY <1>2, <2>1, <2>2
<1>4. CASE AdmitPrompt(u)
  <2>1. adapter[u] = "write" /\ Adapt(u, "done") BY <1>4 DEF AdmitPrompt
  <2>2. Unseen(u) /\ u \in Deliveries /\ u # First BY <2>1, Prompts DEF Unsent
  <2>3. CASE Admit(u)
    <3>1. QueueInv' /\ KeepsUnseen({u}) /\ KeepsAnswered BY <1>0, <2>2, <2>3, AdmitStep
    <3> QED BY <1>2, <2>1, <2>2, <3>1, KeptWithout DEF SentNow
  <2>4. CASE UNCHANGED queueVars
    BY <1>0, <1>2, <2>1, <2>4, SameQueue, KeptWithout
  <2> QED BY <1>4, <2>3, <2>4 DEF AdmitPrompt
<1> QED BY <1>3, <1>4

\* A drain leaves the queue alone, and begins an attempt that nobody has made.
LEMMA DrainQueue ==
  ASSUME IInv, NEW i \in Drains, Drain(i)
  PROVE  /\ UNCHANGED queueVars /\ faults' \in 0..MaxFaults /\ (launch' = launch \/ launch' # "new")
         /\ \A d \in Forms \cup Users : \/ adapter'[d] = adapter[d]
                                        \/ /\ d \in Forms /\ adapter[d] = "none" /\ adapter'[d] = "claim"
                                           /\ Reserve(i) /\ d = NumberOf(i, 1) /\ Ahead(i, 1)
<1> USE DEF IInv
<1>1. /\ UNCHANGED queueVars
      /\ Fault \/ faults' = faults
      /\ launch' = launch \/ launch' = "resume"
  BY DEF Drain, StartDrain, DrainAgain, Claim, Reserve, Record, Release, RouteToSession, HandBack,
         Defer, FailItem, RouteToNew, SpawnEnds, SettleSpawned
<1>2. CASE Reserve(i)
  <2> DEFINE d == <<Of(i), Item(i).attempt>>
  <2>1. drains[i].at = "next" /\ drains[i].items # <<>> BY <1>2 DEF Reserve, HasItem
  <2>2. Item(i) = drains[i].items[1] /\ Of(i) = Item(i).of /\ d \in Forms
    BY <2>1, ItemTypes DEF Of, Forms
  <2>3. 1 \in 1..Len(drains[i].items)
    BY <2>1, TailFacts DEF TypeOK, FormTypeOK
  <2>4. Ahead(i, 1) /\ d = NumberOf(i, 1) BY <2>1, <2>2, <2>3 DEF Ahead, NumberOf
  <2>5. adapter[d] = "none" BY <2>3, <2>4 DEF ItemsAreNew
  <2>6. adapter' = adapter \/ adapter' = [adapter EXCEPT ![d] = "claim"] BY <1>2 DEF Reserve
  <2> HIDE DEF d
  <2>7. \A x \in Forms \cup Users : adapter'[x] = adapter[x] \/ (x = d /\ adapter'[x] = "claim")
    BY <2>2, <2>6 DEF TypeOK, FormTypeOK
  <2> QED BY <1>1, <1>2, <2>2, <2>4, <2>5, <2>7, FaultsBound
<1>3. CASE ~Reserve(i)
  <2>1. adapter' = adapter
    BY <1>3 DEF Drain, StartDrain, DrainAgain, Claim, Record, Release, RouteToSession, HandBack,
         Defer, FailItem, RouteToNew, SpawnEnds, SettleSpawned
  <2> QED BY <1>1, <2>1, FaultsBound
<1> QED BY <1>2, <1>3

\* What every step has to show.
LEMMA QueueSide ==
  ASSUME IInv, QueueKept,
         \A d \in Forms : adapter'[d] \in {"none", "claim", "write"} => adapter[d] \in {"none", "claim", "write"},
         \A u \in Users : adapter'[u] \in {"none", "write"} => adapter[u] \in {"none", "write"},
         \A d \in Forms : adapter'[d] = "wait" => Answered(d)',
         launch' = "new" => launch = "new" /\ pty' = pty
  PROVE  QueueKept /\ LaunchComesFirst' /\ Unsent' /\ WaitsForReport'
<1> USE DEF IInv
<1>1. LaunchComesFirst' BY Prompts DEF LaunchComesFirst, QueueKept, SentNow
<1>2. Unsent' BY Prompts DEF Unsent, QueueKept, SentNow
<1>3. WaitsForReport' BY DEF WaitsForReport
<1> QED BY <1>1, <1>2, <1>3 DEF QueueKept

\* An attempt that already waits keeps its place.
LEMMA StillAnswered ==
  ASSUME IInv, KeepsAnswered, NEW d \in Forms, adapter[d] = "wait"
  PROVE  Answered(d)'
BY Prompts DEF IInv, KeepsAnswered, WaitsForReport

LEMMA QueueSteps ==
  ASSUME IInv, [Next]_vars
  PROVE  QueueKept /\ LaunchComesFirst' /\ Unsent' /\ WaitsForReport'
<1> DEFINE Good == QueueKept /\ LaunchComesFirst' /\ Unsent' /\ WaitsForReport'
<1>1. CASE Session \/ Resume \/ End
  <2>1. QueueKept /\ KeepsAnswered BY <1>1, SessionQueue
  <2>2. launch = "new" => ~End BY QueueAssumption DEF IInv, LaunchComesFirst, End
  <2>3. adapter' = adapter /\ launch' # "new"
    BY <1>1, <2>2 DEF Session, Launch, LaunchDone, LaunchFails, Resume, ResumeSpawns, ResumeRuns, ResumeDone, ResumeFails, End, RecordEnd, formVars
  <2> QED BY <2>1, <2>3, QueueSide, StillAnswered
<1>2. CASE Crash
  <2>1. faults' \in 0..MaxFaults BY <1>2, FaultsBound DEF Crash, IInv
  <2>2. QueueInv' /\ KeepsUnseen({}) BY <1>2, <2>1, ForgetStep DEF Crash, IInv
  <2>3. /\ \A d \in Forms \cup Users : adapter'[d] = IF adapter[d] = "none" THEN "none" ELSE "done"
        /\ launch' # "new"
    BY <1>2 DEF Crash
  <2> QED BY <2>2, <2>3, KeptWithout, QueueSide
<1>3. ASSUME NEW i \in Drains, Drain(i) PROVE Good
  <2>1. QueueKept /\ KeepsAnswered
    BY <1>3, DrainQueue, SameQueue, KeptWithout DEF IInv
  <2>2. pty' = pty /\ (launch' = launch \/ launch' # "new") BY <1>3, DrainQueue DEF queueVars
  <2>3. \A d \in Forms : adapter'[d] = adapter[d] \/ (adapter[d] = "none" /\ adapter'[d] = "claim")
    BY <1>3, DrainQueue
  <2>4. \A u \in Users : adapter'[u] = adapter[u] BY <1>3, DrainQueue, Prompts
  <2> QED BY <2>1, <2>2, <2>3, <2>4, QueueSide, StillAnswered
<1>4. ASSUME NEW d \in Forms, Attempt(d) PROVE Good
  <2>1. launch' = launch /\ pty' = pty BY <1>4 DEF Attempt, ClaimRow, Prompt, Settle, Admit, queueVars
  <2>2. \A u \in Users : adapter'[u] = adapter[u] BY <1>4, AttemptQueue, Prompts
  <2> QED BY <1>4, <2>1, <2>2, AttemptQueue, QueueSide, StillAnswered
<1>5. ASSUME NEW u \in Users, AskPrompt(u) \/ AdmitPrompt(u) PROVE Good
  <2>1. launch' = launch /\ pty' = pty BY <1>5 DEF AskPrompt, AdmitPrompt, Admit, queueVars
  <2>2. \A d \in Forms : adapter'[d] = adapter[d] BY <1>5, UserQueue, Prompts
  <2> QED BY <1>5, <2>1, <2>2, UserQueue, QueueSide, StillAnswered
<1>6. ASSUME NEW d \in Deliveries, TypingStep(d) PROVE Good
  <2>1. QueueInv' /\ KeepsUnseen({}) /\ KeepsAnswered
    BY <1>6, TypingKeeps DEF TypingStep, IInv
  <2>2. launch' = launch /\ pty' = pty /\ adapter' = adapter BY <1>6 DEF TypingStep, Typing, formVars
  <2> QED BY <2>1, <2>2, KeptWithout, QueueSide, StillAnswered
<1>7. CASE UNCHANGED <<queueVars, faults, launch, adapter>>
  <2>1. QueueInv' /\ KeepsUnseen({}) /\ KeepsAnswered
    BY <1>7, SameQueue, FaultsBound DEF IInv
  <2> QED BY <1>7, <2>1, KeptWithout, QueueSide, StillAnswered DEF queueVars
<1> QED
  BY <1>1, <1>2, <1>3, <1>4, <1>5, <1>6, <1>7 DEF Next, vars, Submit, Lapse

-----------------------------------------------------------------------------
(***************************************************************************)
(* The attempts, step by step.                                             *)
(***************************************************************************)
\* A claim gives each row it wins a number that nobody had before.
LEMMA ClaimNumbers ==
  ASSUME IInv, NEW i \in Drains, NEW scope \in SUBSET Responses, NEW rest \in Seq(Items),
         \A n \in 1..Len(rest) : rest = drains[i].items /\ Ahead(i, n), Claim(i, scope, rest)
  PROVE  Numbered' /\ ItemsAreNew'
<1> USE DEF IInv
<1> DEFINE won == {r \in scope : Claimable(r)}
<1>1. PICK order \in SetToSeqs(won) : Begin(i, [n \in DOMAIN order |-> ItemOf(order[n])] \o rest)
  BY DEF Claim
<1>2. won \in SUBSET Responses /\ \A r \in won : Claimable(r) /\ r \in scope OBVIOUS
<1> HIDE DEF won
<1> DEFINE batch == [n \in DOMAIN order |-> ItemOf(order[n])]
           items == batch \o rest
<1>3. /\ order \in Seq(won) /\ \A m, n \in 1..Len(order) : order[m] = order[n] => m = n
      /\ batch \in Seq(Items) /\ Len(batch) = Len(order) /\ Len(order) \in Nat
      /\ \A n \in 1..Len(order) : order[n] \in won /\ batch[n] = ItemOf(order[n])
  BY <1>2, BatchTypes, LenProperties, ElementOfSeq
<1> HIDE DEF batch
<1>4. /\ items \in Seq(Items) /\ Len(items) = Len(order) + Len(rest) /\ Len(rest) \in Nat
      /\ \A n \in 1..Len(order) : items[n] = ItemOf(order[n])
      /\ \A n \in 1..Len(rest) : items[Len(order) + n] = rest[n]
  BY <1>3
<1>5. /\ drains' = [drains EXCEPT ![i] = [at |-> IF items = <<>> THEN "idle" ELSE "next", items |-> items]]
      /\ adapter' = adapter
      /\ outbox' = [r \in Responses |-> IF r \in scope THEN Claimed(r) ELSE outbox[r]]
  BY <1>1 DEF Claim, Begin, batch
<1> HIDE DEF items
<1>6. /\ drains'[i].items = items
      /\ \A j \in Drains : j # i => drains'[j] = drains[j]
      /\ \A j \in Drains : drains[j].items \in Seq(Items)
  BY <1>5 DEF TypeOK, FormTypeOK
\* Counts only grow, and a new number is above the old count.
<1>7. \A r \in Responses : /\ outbox[r].attempts <= outbox'[r].attempts
                           /\ outbox[r].attempts \in Nat /\ outbox'[r].attempts \in Nat
                           /\ r \in won => /\ outbox'[r].attempts = NextAttempt(r)
                                           /\ outbox[r].attempts < NextAttempt(r) /\ NextAttempt(r) \in Attempts
  <2> SUFFICES ASSUME NEW r \in Responses
               PROVE  /\ outbox[r].attempts <= outbox'[r].attempts
                      /\ outbox[r].attempts \in Nat /\ outbox'[r].attempts \in Nat
                      /\ r \in won => /\ outbox'[r].attempts = NextAttempt(r)
                                      /\ outbox[r].attempts < NextAttempt(r) /\ NextAttempt(r) \in Attempts
    OBVIOUS
  <2>1. outbox[r].attempts \in Nat BY DEF TypeOK, FormTypeOK, OutboxRows, Attempts
  <2>2. NextAttempt(r) \in Nat /\ outbox[r].attempts < NextAttempt(r) BY AttemptNumbers
  <2>3. outbox'[r].attempts = IF r \in scope /\ Claimable(r) THEN NextAttempt(r) ELSE outbox[r].attempts
    BY <1>5, ClaimTypes
  <2>4. r \in won => r \in scope /\ Claimable(r) /\ NextAttempt(r) \in Attempts BY <1>2, ClaimTypes
  <2> QED BY <2>1, <2>2, <2>3, <2>4
<1>8. Numbered'
  <2>1. \A d \in Forms : d[1] \in Responses /\ d[2] \in Nat BY DEF Forms, Attempts
  <2> QED BY <1>5, <1>7, <2>1 DEF Numbered
\* An item that is ahead now is new, or was ahead.
<1>9. ASSUME NEW j \in Drains, NEW n \in 1..Len(drains'[j].items), Ahead(j, n)'
      PROVE  \/ /\ j = i /\ n \in 1..Len(order) /\ order[n] \in won
                /\ drains'[j].items[n] = ItemOf(order[n])
             \/ /\ j = i /\ n > Len(order) /\ n - Len(order) \in 1..Len(drains[i].items)
                /\ Ahead(i, n - Len(order)) /\ drains'[j].items[n] = drains[i].items[n - Len(order)]
             \/ j # i /\ n \in 1..Len(drains[j].items) /\ Ahead(j, n) /\ drains'[j] = drains[j]
  <2>1. CASE j # i BY <1>6, <1>9, <2>1 DEF Ahead
  <2>2. CASE j = i /\ n \in 1..Len(order) BY <1>3, <1>4, <1>6, <2>2
  <2>3. CASE j = i /\ n \notin 1..Len(order)
    <3>1. n - Len(order) \in 1..Len(rest) /\ n > Len(order) BY <1>3, <1>4, <1>6, <2>3
    <3>2. items[n] = rest[n - Len(order)] BY <1>3, <1>4, <3>1
    <3> QED BY <1>6, <2>3, <3>1, <3>2 DEF Ahead
  <2> QED BY <2>1, <2>2, <2>3
<1>10. ASSUME NEW j \in Drains, NEW n \in 1..Len(drains[j].items), Ahead(j, n)
       PROVE  /\ drains[j].items[n].of \in Responses /\ drains[j].items[n].attempt \in Nat
              /\ adapter[NumberOf(j, n)] = "none"
              /\ drains[j].items[n].attempt <= outbox[drains[j].items[n].of].attempts
  <2>1. drains[j].items[n] \in Items BY <1>6, ElementOfSeq
  <2> QED BY <1>10, <2>1 DEF ItemsAreNew, Items, Attempts
<1>11. ASSUME NEW n \in 1..Len(order)
       PROVE  /\ ItemOf(order[n]).of = order[n] /\ ItemOf(order[n]).attempt = NextAttempt(order[n])
              /\ order[n] \in Responses /\ <<order[n], NextAttempt(order[n])>> \in Forms
              /\ adapter[<<order[n], NextAttempt(order[n])>>] = "none"
  <2>1. order[n] \in won /\ order[n] \in Responses BY <1>2, <1>3
  <2>2. <<order[n], NextAttempt(order[n])>> \in Forms /\ outbox[order[n]].attempts < NextAttempt(order[n])
        /\ outbox[order[n]].attempts \in Nat /\ NextAttempt(order[n]) \in Nat
    BY <1>7, <2>1 DEF Forms, Attempts
  <2>3. adapter[<<order[n], NextAttempt(order[n])>>] = "none" BY <2>2 DEF Numbered
  <2> QED BY <2>1, <2>2, <2>3 DEF ItemOf
<1>12. ASSUME NEW j \in Drains, NEW n \in 1..Len(drains'[j].items), Ahead(j, n)'
       PROVE  /\ adapter'[NumberOf(j, n)'] = "none"
              /\ drains'[j].items[n].attempt <= outbox'[drains'[j].items[n].of].attempts
  <2>1. CASE j = i /\ n \in 1..Len(order) /\ order[n] \in won /\ drains'[j].items[n] = ItemOf(order[n])
    <3> DEFINE r == order[n]
    <3>1. /\ drains'[j].items[n].of = r /\ drains'[j].items[n].attempt = NextAttempt(r)
          /\ r \in won /\ r \in Responses /\ adapter[<<r, NextAttempt(r)>>] = "none"
      BY <1>11, <2>1
    <3> HIDE DEF r
    <3>2. outbox'[r].attempts = NextAttempt(r) /\ NextAttempt(r) <= outbox'[r].attempts BY <1>7, <3>1
    <3>3. NumberOf(j, n)' = <<r, NextAttempt(r)>> BY <3>1 DEF NumberOf
    <3> QED BY <1>5, <3>1, <3>2, <3>3
  <2>2. ASSUME NEW k \in Drains, NEW m \in 1..Len(drains[k].items), Ahead(k, m), drains'[j].items[n] = drains[k].items[m]
        PROVE  /\ adapter'[NumberOf(j, n)'] = "none"
               /\ drains'[j].items[n].attempt <= outbox'[drains'[j].items[n].of].attempts
    <3> DEFINE r == drains[k].items[m].of
               a == drains[k].items[m].attempt
    <3>1. /\ drains'[j].items[n].of = r /\ drains'[j].items[n].attempt = a
          /\ NumberOf(j, n)' = NumberOf(k, m)
      BY <2>2 DEF NumberOf
    <3>2. r \in Responses /\ a \in Nat /\ adapter[NumberOf(k, m)] = "none" /\ a <= outbox[r].attempts
      BY <1>10, <2>2
    <3> HIDE DEF r, a
    <3>3. a <= outbox'[r].attempts BY <1>7, <3>2
    <3> QED BY <1>5, <3>1, <3>2, <3>3
  <2> QED BY <1>9, <1>12, <2>1, <2>2
\* What an item comes from: a new number, or an item that was ahead before.
<1> DEFINE New(j, n) == j = i /\ n \in 1..Len(order) /\ drains'[j].items[n] = ItemOf(order[n])
           Was(j, n, m) == /\ m \in 1..Len(drains[j].items) /\ Ahead(j, m)
                           /\ drains'[j].items[n] = drains[j].items[m]
                           /\ m = IF j = i THEN n - Len(order) ELSE n
<1>13. ASSUME NEW j \in Drains, NEW n \in 1..Len(drains'[j].items), Ahead(j, n)'
       PROVE  New(j, n) \/ \E m \in Nat : Was(j, n, m)
  <2>1. CASE j = i /\ n > Len(order) /\ n - Len(order) \in 1..Len(drains[i].items)
             /\ Ahead(i, n - Len(order)) /\ drains'[j].items[n] = drains[i].items[n - Len(order)]
    <3>1. n - Len(order) \in Nat BY <1>3, <2>1
    <3> QED BY <2>1, <3>1
  <2>2. CASE j # i /\ n \in 1..Len(drains[j].items) /\ Ahead(j, n) /\ drains'[j] = drains[j]
    BY <2>2
  <2> QED BY <1>9, <1>13, <2>1, <2>2
<1>14. ASSUME NEW j \in Drains, NEW k \in Drains, NEW m \in 1..Len(drains'[j].items),
              NEW n \in 1..Len(drains'[k].items), Ahead(j, m)', Ahead(k, n)', NumberOf(j, m)' = NumberOf(k, n)'
       PROVE  j = k /\ m = n
  <2>0. /\ drains'[j].items[m].of = drains'[k].items[n].of
        /\ drains'[j].items[m].attempt = drains'[k].items[n].attempt
    BY <1>14 DEF NumberOf
  <2>1. CASE New(j, m) /\ New(k, n)
    <3>1. ItemOf(order[m]).of = order[m] /\ ItemOf(order[n]).of = order[n] BY <1>11, <2>1
    <3>2. order[m] = order[n] BY <2>0, <2>1, <3>1
    <3> QED BY <1>3, <2>1, <3>2
  <2>2. ASSUME NEW a \in Drains, NEW x \in 1..Len(drains'[a].items), NEW b \in Drains,
               NEW y \in 1..Len(drains'[b].items), NEW z \in Nat, New(a, x), Was(b, y, z),
               drains'[a].items[x].of = drains'[b].items[y].of,
               drains'[a].items[x].attempt = drains'[b].items[y].attempt
        PROVE  FALSE
    <3>1. /\ order[x] \in won /\ order[x] \in Responses
          /\ drains[b].items[z].of = order[x] /\ drains[b].items[z].attempt = NextAttempt(order[x])
      BY <1>3, <1>11, <2>2
    <3>2. drains[b].items[z].attempt <= outbox[order[x]].attempts BY <1>10, <2>2, <3>1
    <3>3. outbox[order[x]].attempts \in Nat /\ outbox[order[x]].attempts < NextAttempt(order[x]) /\ NextAttempt(order[x]) \in Nat
      BY <1>7, <3>1 DEF Attempts
    <3> QED BY <3>1, <3>2, <3>3
  <2>3. ASSUME NEW x \in Nat, NEW y \in Nat, Was(j, m, x), Was(k, n, y) PROVE j = k /\ m = n
    <3>1. NumberOf(j, x) = NumberOf(k, y) BY <2>0, <2>3 DEF NumberOf
    <3>2. j = k /\ x = y BY <2>3, <3>1 DEF ItemsAreNew
    <3>3. m \in Int /\ n \in Int /\ Len(order) \in Nat BY <1>3
    <3> QED BY <2>3, <3>2, <3>3
  <2> HIDE DEF New, Was
  <2>4. New(j, m) \/ \E x \in Nat : Was(j, m, x) BY <1>13, <1>14
  <2>5. New(k, n) \/ \E y \in Nat : Was(k, n, y) BY <1>13, <1>14
  <2>6. ~(New(j, m) /\ \E y \in Nat : Was(k, n, y)) BY <2>0, <2>2
  <2>7. ~(New(k, n) /\ \E x \in Nat : Was(j, m, x)) BY <2>0, <2>2
  <2> QED BY <2>1, <2>3, <2>4, <2>5, <2>6, <2>7
<1>15. ItemsAreNew'
  <2> HIDE DEF New, Was
  <2> QED BY <1>12, <1>14 DEF ItemsAreNew
<1> QED BY <1>8, <1>15

\* Without a claim the items of a drain that are ahead were ahead, at most one
\* place further back.
Follows(j) == \E k \in {0, 1} : \A n \in 1..Len(drains'[j].items) : Ahead(j, n)' =>
  /\ n + k \in 1..Len(drains[j].items) /\ Ahead(j, n + k)
  /\ drains'[j].items[n] = drains[j].items[n + k]

\* An attempt that is made now is of an item that is not ahead any more.
BegunNow(d) == \E i \in Drains : Ahead(i, 1) /\ d = NumberOf(i, 1) /\ ~Ahead(i, 1)'

LEMMA ItemNumbers ==
  ASSUME TypeOK, NEW i \in Drains, NEW n \in 1..Len(drains[i].items)
  PROVE  /\ drains[i].items[n].of \in Responses /\ drains[i].items[n].attempt \in Attempts
         /\ NumberOf(i, n) \in Forms /\ NumberOf(i, n)[1] = drains[i].items[n].of
         /\ NumberOf(i, n)[2] = drains[i].items[n].attempt
<1>1. drains[i].items \in Seq(Items) BY DEF TypeOK, FormTypeOK
<1>2. drains[i].items[n] \in Items BY <1>1, ElementOfSeq
<1> QED BY <1>2 DEF Items, NumberOf, Forms

LEMMA KeepNumbers ==
  ASSUME IInv, \A j \in Drains : Follows(j),
         \A r \in Responses : outbox'[r].attempts = outbox[r].attempts,
         \A d \in Forms : adapter[d] = "none" => adapter'[d] = "none" \/ BegunNow(d)
  PROVE  Numbered' /\ ItemsAreNew'
<1> USE DEF IInv
<1>1. Numbered'
  <2> SUFFICES ASSUME NEW d \in Forms, adapter'[d] # "none" PROVE d[2] <= outbox'[d[1]].attempts
    BY DEF Numbered
  <2>1. d[1] \in Responses BY DEF Forms
  <2>2. CASE adapter[d] # "none" BY <2>1, <2>2 DEF Numbered
  <2>3. CASE BegunNow(d)
    <3>1. PICK i \in Drains : Ahead(i, 1) /\ d = NumberOf(i, 1) BY <2>3 DEF BegunNow
    <3>2. 1 \in 1..Len(drains[i].items) BY <3>1 DEF Ahead
    <3> QED BY <2>1, <3>1, <3>2, ItemNumbers DEF ItemsAreNew
  <2> QED BY <2>2, <2>3
<1>2. ASSUME NEW j \in Drains
      PROVE  \E k \in {0, 1} : \A n \in 1..Len(drains'[j].items) : Ahead(j, n)' =>
               /\ n + k \in 1..Len(drains[j].items) /\ Ahead(j, n + k)
               /\ drains'[j].items[n] = drains[j].items[n + k]
               /\ NumberOf(j, n)' = NumberOf(j, n + k)
  BY DEF Follows, NumberOf
<1>3. ASSUME NEW j \in Drains, NEW n \in 1..Len(drains'[j].items), Ahead(j, n)'
      PROVE  /\ adapter'[NumberOf(j, n)'] = "none"
             /\ drains'[j].items[n].attempt <= outbox'[drains'[j].items[n].of].attempts
  <2>1. PICK k \in {0, 1} :
          /\ n + k \in 1..Len(drains[j].items) /\ Ahead(j, n + k)
          /\ drains'[j].items[n] = drains[j].items[n + k]
          /\ NumberOf(j, n)' = NumberOf(j, n + k)
    BY <1>2, <1>3
  <2>2. /\ adapter[NumberOf(j, n + k)] = "none" /\ NumberOf(j, n + k) \in Forms
        /\ drains[j].items[n + k].attempt <= outbox[drains[j].items[n + k].of].attempts
        /\ drains[j].items[n + k].of \in Responses
    BY <2>1, ItemNumbers DEF ItemsAreNew
  <2>3. ~BegunNow(NumberOf(j, n + k))
    <3> SUFFICES ASSUME NEW i \in Drains, Ahead(i, 1), NumberOf(j, n + k) = NumberOf(i, 1), ~Ahead(i, 1)'
                 PROVE  FALSE
      BY DEF BegunNow
    <3>1. 1 \in 1..Len(drains[i].items) BY DEF Ahead
    <3>2. i = j /\ n + k = 1 BY <2>1, <3>1 DEF ItemsAreNew
    <3>3. n = 1 BY <2>1, <3>2
    <3> QED BY <1>3, <3>2, <3>3
  <2> QED BY <2>1, <2>2, <2>3
<1>4. ASSUME NEW i \in Drains, NEW j \in Drains, NEW m \in 1..Len(drains'[i].items), NEW n \in 1..Len(drains'[j].items),
             Ahead(i, m)', Ahead(j, n)', NumberOf(i, m)' = NumberOf(j, n)'
      PROVE  i = j /\ m = n
  <2>1. PICK k \in {0, 1} : \A x \in 1..Len(drains'[i].items) : Ahead(i, x)' =>
          x + k \in 1..Len(drains[i].items) /\ Ahead(i, x + k) /\ NumberOf(i, x)' = NumberOf(i, x + k)
    BY <1>2
  <2>2. PICK l \in {0, 1} : \A x \in 1..Len(drains'[j].items) : Ahead(j, x)' =>
          x + l \in 1..Len(drains[j].items) /\ Ahead(j, x + l) /\ NumberOf(j, x)' = NumberOf(j, x + l)
    BY <1>2
  <2>3. i = j /\ m + k = n + l BY <1>4, <2>1, <2>2 DEF ItemsAreNew
  <2>4. /\ m + k \in 1..Len(drains[i].items) /\ Ahead(i, m + k) /\ NumberOf(i, m)' = NumberOf(i, m + k)
        /\ n + k \in 1..Len(drains[i].items) /\ Ahead(i, n + k) /\ NumberOf(i, n)' = NumberOf(i, n + k)
    BY <1>4, <2>1, <2>3
  <2>5. m + k = n + k BY <1>4, <2>3, <2>4 DEF ItemsAreNew
  <2> QED BY <2>3, <2>5
<1> QED BY <1>1, <1>3, <1>4 DEF ItemsAreNew

\* How the items move in each kind of step.
LEMMA Moves ==
  ASSUME TypeOK, NEW i \in Drains
  PROVE  /\ \A s \in Steps \ {"next", "claim"} : Step(i, s) => (\A j \in Drains : Follows(j)) /\ ~Ahead(i, 1)'
         /\ \A s : drains[i].items # <<>> /\ drains' = [drains EXCEPT ![i] = [at |-> s, items |-> Tail(drains[i].items)]]
              => \A j \in Drains : Follows(j)
         /\ drains' = drains => \A j \in Drains : Follows(j)
         /\ \A s : AfterResume(s) /\ s \notin {"next", "claim"} => \A j \in Drains : Follows(j)
<1>0. drains \in [Drains -> DrainStates] /\ \A j \in Drains : drains[j].items \in Seq(Items) /\ Len(drains[j].items) \in Nat
  BY LenProperties DEF TypeOK, FormTypeOK, DrainStates
<1>1. ASSUME NEW j \in Drains, drains'[j].items = drains[j].items,
             drains'[j].at = drains[j].at \/ drains'[j].at \notin {"next", "claim"}
      PROVE  Follows(j)
  <2>1. \A n \in 1..Len(drains'[j].items) : Ahead(j, n)' =>
          /\ n + 0 \in 1..Len(drains[j].items) /\ Ahead(j, n + 0)
          /\ drains'[j].items[n] = drains[j].items[n + 0]
    BY <1>0, <1>1 DEF Ahead
  <2> QED BY <2>1 DEF Follows
<1>2. ASSUME NEW s \in Steps \ {"next", "claim"}, Step(i, s)
      PROVE  (\A j \in Drains : Follows(j)) /\ ~Ahead(i, 1)'
  <2>1. drains'[i].items = drains[i].items /\ drains'[i].at = s /\ \A j \in Drains : j # i => drains'[j] = drains[j]
    BY <1>0, <1>2 DEF Step, DrainStates
  <2> QED BY <1>1, <1>2, <2>1 DEF Ahead
<1>3. ASSUME NEW s, drains[i].items # <<>>,
             drains' = [drains EXCEPT ![i] = [at |-> s, items |-> Tail(drains[i].items)]]
      PROVE  \A j \in Drains : Follows(j)
  <2>1. /\ drains'[i].items = Tail(drains[i].items)
        /\ \A j \in Drains : j # i => drains'[j] = drains[j]
    BY <1>0, <1>3
  <2>2. /\ Len(Tail(drains[i].items)) = Len(drains[i].items) - 1
        /\ \A n \in 1..Len(drains[i].items) - 1 : Tail(drains[i].items)[n] = drains[i].items[n + 1]
    BY <1>0, <1>3, TailFacts
  <2>3. \A n \in 1..Len(drains'[i].items) :
          /\ n + 1 \in 1..Len(drains[i].items) /\ Ahead(i, n + 1)
          /\ drains'[i].items[n] = drains[i].items[n + 1]
    BY <1>0, <2>1, <2>2 DEF Ahead
  <2>4. Follows(i) BY <2>3 DEF Follows
  <2> QED BY <1>1, <2>1, <2>4
<1>4. drains' = drains => \A j \in Drains : Follows(j) BY <1>1
<1>5. ASSUME NEW s, AfterResume(s), s \notin {"next", "claim"} PROVE \A j \in Drains : Follows(j)
  <2>1. \A j \in Drains : /\ drains'[j].items = drains[j].items
                          /\ drains'[j].at = drains[j].at \/ drains'[j].at = s
    BY <1>0, <1>5 DEF AfterResume, Resuming, DrainStates
  <2> QED BY <1>1, <1>5, <2>1
<1> QED BY <1>2, <1>3, <1>4, <1>5

\* A step of a drain that is not a claim.
LEMMA DrainNumbers ==
  ASSUME IInv, NEW i \in Drains, Drain(i)
  PROVE  Numbered' /\ ItemsAreNew'
<1> USE DEF IInv
<1>0. drains[i].items \in Seq(Items) BY DEF TypeOK, FormTypeOK
<1>1. CASE StartDrain(i)
  <2>1. PICK scope \in {Responses} \cup {{r} : r \in Responses} : Claim(i, scope, <<>>)
    BY <1>1 DEF StartDrain
  <2>2. scope \in SUBSET Responses /\ <<>> \in Seq(Items) /\ 1..Len(<<>>) = {} OBVIOUS
  <2> QED BY <2>1, <2>2, ClaimNumbers
<1>2. CASE DrainAgain(i)
  <2>1. Claim(i, Responses, drains[i].items) /\ drains[i].at = "claim" BY <1>2 DEF DrainAgain
  <2>2. \A n \in 1..Len(drains[i].items) : Ahead(i, n) BY <2>1 DEF Ahead
  <2> QED BY <1>0, <2>1, <2>2, ClaimNumbers
<1>3. CASE ~StartDrain(i) /\ ~DrainAgain(i)
  <2>1. drains[i].at \notin {"idle", "claim"}
    BY <1>3 DEF Drain, Reserve, Record, Release, RouteToSession, HandBack, Defer, FailItem, RouteToNew,
       SpawnEnds, SettleSpawned
  <2>2. drains[i].items # <<>> /\ Of(i) \in Responses /\ Item(i).attempt \in Attempts
    BY <2>1, ItemTypes DEF HasItem
  <2>3. \/ \E s \in Steps \ {"next", "claim"} : Step(i, s)
        \/ \E s : drains' = [drains EXCEPT ![i] = [at |-> s, items |-> Tail(drains[i].items)]]
    BY <1>3 DEF Drain, Reserve, Record, Release, RouteToSession, HandBack, Defer, FailItem, RouteToNew,
       SpawnEnds, SettleSpawned, Steps, Advance, Begin
  <2>4. \A j \in Drains : Follows(j) BY <2>2, <2>3, Moves
  <2>5. \A r \in Responses : outbox'[r].attempts = outbox[r].attempts
    <3>1. ASSUME NEW row \in OutboxRows, Put(Of(i), row), row.attempts = outbox[Of(i)].attempts
          PROVE  \A r \in Responses : outbox'[r].attempts = outbox[r].attempts
      BY <2>2, <3>1 DEF Put, TypeOK, FormTypeOK
    <3> DEFINE row == outbox[Of(i)]
               a == Item(i).attempt
               held == [row EXCEPT !.held = a]
    <3>2. row \in OutboxRows /\ held \in OutboxRows /\ held.attempts = row.attempts
      BY <2>2, RowTypes, RowAttempts DEF TypeOK, FormTypeOK
    <3>3. \/ outbox' = outbox
          \/ Put(Of(i), row) \/ Put(Of(i), Freed(row)) \/ Put(Of(i), Deferred(row)) \/ Put(Of(i), Refused(row))
          \/ Put(Of(i), Apply(held, a, rows[<<Of(i), a>>]))
          \/ Put(Of(i), [row EXCEPT !.status = "spawned", !.leased = FALSE])
      BY <1>3 DEF Drain, Reserve, Record, Release, RouteToSession, HandBack, Defer, FailItem, RouteToNew,
         SpawnEnds, SettleSpawned
    <3> HIDE DEF row, held, a
    <3>4. ASSUME NEW o PROVE Apply(held, a, o) \in OutboxRows /\ Apply(held, a, o).attempts = row.attempts
      <4>1. a \in Attempts BY <2>2 DEF a
      <4>2. Apply(held, a, o) \in OutboxRows BY <3>2, <4>1, RowTypes
      <4>3. Apply(held, a, o).attempts = held.attempts BY <3>2, RowAttempts
      <4> QED BY <3>2, <4>2, <4>3
    <3>5. /\ [row EXCEPT !.status = "spawned", !.leased = FALSE] \in OutboxRows
          /\ [row EXCEPT !.status = "spawned", !.leased = FALSE].attempts = row.attempts
      BY <3>2, RowTypes DEF OutboxRows
    <3>6. /\ Freed(row) \in OutboxRows /\ Deferred(row) \in OutboxRows /\ Refused(row) \in OutboxRows
          /\ Freed(row).attempts = row.attempts /\ Deferred(row).attempts = row.attempts
          /\ Refused(row).attempts = row.attempts
      BY <3>2, RowTypes, RowAttempts
    <3> QED BY <3>1, <3>2, <3>3, <3>4, <3>5, <3>6 DEF row
  <2>6. \A d \in Forms : adapter[d] = "none" => adapter'[d] = "none" \/ BegunNow(d)
    <3>1. Reserve(i) => Step(i, "release") \/ Step(i, "record") BY DEF Reserve
    <3>2. Reserve(i) => ~Ahead(i, 1)' BY <3>1, Moves DEF Steps
    <3> QED BY <3>2, DrainQueue DEF BegunNow
  <2> QED BY <2>4, <2>5, <2>6, KeepNumbers
<1> QED BY <1>1, <1>2, <1>3

LEMMA NumberSteps ==
  ASSUME IInv, [Next]_vars
  PROVE  Numbered' /\ ItemsAreNew'
<1> USE DEF IInv
<1>1. ASSUME \A j \in Drains : Follows(j), outbox' = outbox, adapter' = adapter
      PROVE  Numbered' /\ ItemsAreNew'
  BY <1>1, KeepNumbers
<1>2. CASE Session \/ Resume \/ End
  <2>1. drains' = drains \/ \E s \in {"again", "fail", "cancel"} : AfterResume(s)
    BY <1>2 DEF Session, Launch, LaunchDone, LaunchFails, Resume, ResumeSpawns, ResumeRuns, ResumeDone, ResumeFails, End, RecordEnd, formVars
  <2>2. \A j \in Drains : Follows(j)
    <3> PICK i \in Drains : TRUE BY FormAssumption
    <3> QED BY <2>1, Moves
  <2>3. outbox' = outbox /\ adapter' = adapter
    BY <1>2 DEF Session, Launch, LaunchDone, LaunchFails, Resume, ResumeSpawns, ResumeRuns, ResumeDone, ResumeFails, End, RecordEnd, formVars
  <2> QED BY <1>1, <2>2, <2>3
<1>3. CASE Crash
  <2>1. /\ \A d \in Forms \cup Users : adapter'[d] = IF adapter[d] = "none" THEN "none" ELSE "done"
        /\ drains' = [i \in Drains |-> [at |-> "idle", items |-> <<>>]] /\ outbox' = outbox
    BY <1>3 DEF Crash
  <2>2. \A j \in Drains : Follows(j)
    <3>1. \A j \in Drains : 1..Len(drains'[j].items) = {} BY <2>1
    <3> QED BY <3>1 DEF Follows
  <2> QED BY <2>1, <2>2, KeepNumbers
<1>4. ASSUME drains' = drains PROVE \A j \in Drains : Follows(j)
  <2> PICK i \in Drains : TRUE BY FormAssumption
  <2> QED BY <1>4, Moves
<1>5. ASSUME NEW r \in Responses, Submit(r) \/ Lapse(r) PROVE Numbered' /\ ItemsAreNew'
  <2>1. /\ drains' = drains /\ adapter' = adapter
        /\ outbox' = [outbox EXCEPT ![r].status = "pending"] \/ outbox' = [outbox EXCEPT ![r].leased = FALSE]
    BY <1>5 DEF Submit, Lapse
  <2>2. \A x \in Responses : outbox'[x].attempts = outbox[x].attempts
    <3>1. outbox \in [Responses -> OutboxRows] BY DEF TypeOK, FormTypeOK
    <3>2. ASSUME NEW row \in OutboxRows
          PROVE  /\ [row EXCEPT !.status = "pending"].attempts = row.attempts
                 /\ [row EXCEPT !.leased = FALSE].attempts = row.attempts
      BY DEF OutboxRows
    <3>3. \/ outbox' = [outbox EXCEPT ![r] = [outbox[r] EXCEPT !.status = "pending"]]
          \/ outbox' = [outbox EXCEPT ![r] = [outbox[r] EXCEPT !.leased = FALSE]]
      BY <2>1
    <3> QED BY <3>1, <3>2, <3>3
  <2> QED BY <1>4, <2>1, <2>2, KeepNumbers
<1>6. ASSUME NEW i \in Drains, Drain(i) PROVE Numbered' /\ ItemsAreNew' BY <1>6, DrainNumbers
<1>7. ASSUME NEW d \in Forms, Attempt(d) PROVE Numbered' /\ ItemsAreNew'
  <2>1. drains' = drains BY <1>7 DEF Attempt, ClaimRow, Prompt, Settle
  <2>2. Put(d[1], Apply(outbox[d[1]], d[2], Outcome(d))) \/ outbox' = outbox
    BY <1>7 DEF Attempt, ClaimRow, Prompt, Settle
  <2>3. d[1] \in Responses /\ outbox[d[1]] \in OutboxRows BY DEF Forms, TypeOK, FormTypeOK
  <2>4. Apply(outbox[d[1]], d[2], Outcome(d)).attempts = outbox[d[1]].attempts BY <2>3, RowAttempts
  <2>5. \A x \in Responses : outbox'[x].attempts = outbox[x].attempts
    BY <2>2, <2>3, <2>4 DEF Put, TypeOK, FormTypeOK
  <2>6. \A x \in Forms : adapter[x] = "none" => adapter'[x] = "none"
    BY <1>7, AttemptQueue
  <2> QED BY <1>4, <2>1, <2>5, <2>6, KeepNumbers
<1>8. ASSUME NEW u \in Users, AskPrompt(u) \/ AdmitPrompt(u) PROVE Numbered' /\ ItemsAreNew'
  <2>1. drains' = drains /\ outbox' = outbox BY <1>8 DEF AskPrompt, AdmitPrompt
  <2>2. \A x \in Forms : adapter'[x] = adapter[x] BY <1>8, UserQueue, Prompts
  <2> QED BY <1>4, <2>1, <2>2, KeepNumbers
<1>9. ASSUME NEW d \in Deliveries, TypingStep(d) PROVE Numbered' /\ ItemsAreNew'
  BY <1>1, <1>4, <1>9 DEF TypingStep, formVars
<1>10. CASE UNCHANGED vars BY <1>1, <1>4, <1>10 DEF vars
<1> QED BY <1>2, <1>3, <1>5, <1>6, <1>7, <1>8, <1>9, <1>10 DEF Next

-----------------------------------------------------------------------------
(***************************************************************************)
(* The theorems.                                                           *)
(***************************************************************************)
LEMMA InitIsGood == Init => IInv
<1> SUFFICES ASSUME Init PROVE IInv OBVIOUS
<1> USE DEF Init, QueueInit
<1>1. QueueTypeOK
  <2>1. <<>> \in Seq(Deliveries) /\ <<>> \in Seq(Keys) /\ <<>> \in Seq(Outcomes) OBVIOUS
  <2>2. /\ pty \in {0} \cup Epochs /\ spawns \in 0..MaxSpawns /\ handoff \in BOOLEAN
        /\ faults \in 0..MaxFaults
    <3> MaxSpawns \in Nat /\ MaxFaults \in Nat BY QueueAssumption
    <3>1. pty \in {0} \cup Epochs /\ handoff \in BOOLEAN OBVIOUS
    <3>2. spawns \in 0..MaxSpawns OBVIOUS
    <3>3. faults \in 0..MaxFaults OBVIOUS
    <3> QED BY <3>1, <3>2, <3>3
  <2>3. queue \in Seq(Deliveries) /\ drainer \in Deliveries \cup {Idle} BY <2>1
  <2>4. writer \in [Deliveries -> Writers] BY DEF Writers
  <2>5. input \in [Epochs -> Seq(Keys)] BY <2>1
  <2>6. reports \in [Deliveries -> Seq(Outcomes)] BY <2>1
  <2> QED BY <2>2, <2>3, <2>4, <2>5, <2>6 DEF QueueTypeOK
<1>2. FormTypeOK /\ HasItem
  <2>1. <<>> \in Seq(Items) OBVIOUS
  <2> QED BY <2>1 DEF FormTypeOK, HasItem, OutboxRows, RowStates, Steps
<1>3. QueueInv
  <2>1. Coherent(queue, drainer, pty, spawns, writer, input)
    BY DEF Coherent, PastOnly, OneLoop, OnePlace, Waiting, LastWord, Busy, Off
  <2>2. Unmixed /\ OneTerminal BY DEF Unmixed, OneTerminal, TypedInto, ToSet
  <2> QED BY <1>1, <2>1, <2>2 DEF QueueInv, LoopRuns
<1>4. \A d \in Deliveries : Unseen(d) BY DEF Unseen, Busy, Off
<1>5. LaunchComesFirst /\ Unsent BY <1>4, Prompts DEF LaunchComesFirst, Unsent
<1>6. Numbered /\ WaitsForReport BY DEF Numbered, WaitsForReport
<1>7. ItemsAreNew BY DEF ItemsAreNew, Ahead
<1> QED BY <1>1, <1>2, <1>3, <1>5, <1>6, <1>7 DEF IInv, TypeOK

LEMMA StepIsGood == IInv /\ [Next]_vars => IInv'
<1> SUFFICES ASSUME IInv, [Next]_vars PROVE IInv' OBVIOUS
<1>1. FormTypeOK' /\ HasItem' BY StepTypes DEF IInv
<1>2. QueueInv' /\ LaunchComesFirst' /\ Unsent' /\ WaitsForReport' BY QueueSteps DEF QueueKept
<1>3. Numbered' /\ ItemsAreNew' BY NumberSteps
<1>4. TypeOK' BY <1>1, <1>2 DEF TypeOK, QueueInv
<1> QED BY <1>1, <1>2, <1>3, <1>4 DEF IInv

LEMMA Invariance == Spec => []IInv
BY InitIsGood, StepIsGood, PTL DEF Spec

\* Every variable keeps its type.
THEOREM DeliveryTypes == Spec => []TypeOK
<1>1. IInv => TypeOK BY DEF IInv
<1> QED BY <1>1, Invariance, PTL

\* deliverPrompt's promise: whatever waits, ends, is resumed, is retried or fails,
\* a body and its Enter are never interleaved with those of another prompt.
THEOREM PromptsAreUnmixed == Spec => []Unmixed
<1>1. IInv => Unmixed BY DEF IInv, QueueInv
<1> QED BY <1>1, Invariance, PTL

\* No prompt is typed into two processes of a session, in part or again.
THEOREM PromptsStayInOneTerminal == Spec => []OneTerminal
<1>1. IInv => OneTerminal BY DEF IInv, QueueInv
<1> QED BY <1>1, Invariance, PTL

\* No attempt waits for a report that nobody is going to give, and no queue is
\* left without its loop.
THEOREM NobodyWaitsForNothing == Spec => []WaitsForSomething
<1>1. IInv => WaitsForSomething
  <2> SUFFICES ASSUME IInv PROVE WaitsForSomething OBVIOUS
  <2>1. ASSUME NEW d \in Forms, adapter[d] = "wait", reports[d] = <<>>
        PROVE  d \in ToSet(queue) \/ ~At(d, "off")
    <3>1. Busy(writer, d) \/ \E n \in 1..Len(queue) : queue[n] = d
      BY <2>1 DEF IInv, WaitsForReport, Answered, Pending
    <3>2. queue \in Seq(Deliveries) BY DEF IInv, QueueInv, QueueTypeOK
    <3> QED BY <3>1, <3>2 DEF ToSet, Busy, At
  <2>2. queue # <<>> /\ drainer = Idle => pty = 0 \/ handoff BY DEF IInv, QueueInv, LoopRuns
  <2> QED BY <2>1, <2>2 DEF WaitsForSomething
<1> QED BY <1>1, Invariance, PTL

-----------------------------------------------------------------------------
(***************************************************************************)
(* The records of the attempts, whatever the drains do.                    *)
(***************************************************************************)
Unspent == {"none", "failed"}

\* The record of an attempt follows its adapter; what is not in flight, or was
\* refused, was never seen by the queue, and what was delivered was submitted.
Follow(d) ==
  /\ rows[d] = "none" => adapter[d] = "none"
  /\ adapter[d] = "claim" => rows[d] = "pending"
  /\ adapter[d] \in {"write", "wait", "refused"} => rows[d] = "dispatching"
  /\ adapter[d] = "refused" \/ rows[d] \in Unspent => Unseen(d)
  /\ rows[d] = "delivered" => Submitted(d)
RowsFollow == \A d \in Forms : Follow(d)

OnceInv == IInv /\ TypedOnce /\ RowsFollow

\* How an attempt may move: it is reserved by the drain that has it ahead, or its
\* adapter goes on.
Reserved(i, d) ==
  /\ i \in Drains /\ Reserve(i) /\ Ahead(i, 1) /\ d = NumberOf(i, 1)
  /\ drains[i].items[1].inject /\ adapter[d] = "none" /\ rows'[d] # "none"
  /\ \/ adapter'[d] \in {"none", "claim"} /\ rows'[d] = "pending"
     \/ adapter'[d] = "none" /\ rows'[d] = "failed"
Stays(d) == rows'[d] = rows[d] /\ adapter'[d] \in {adapter[d], IF adapter[d] = "none" THEN "none" ELSE "done"}
GoesOn(d) ==
  \/ adapter[d] = "claim" /\ adapter'[d] \in {"none", "write"} /\ rows'[d] = "dispatching"
  \/ adapter[d] = "claim" /\ adapter'[d] = "none" /\ rows'[d] = rows[d]
  \/ adapter[d] = "write" /\ rows'[d] = rows[d]
     /\ (adapter'[d] = "wait" \/ (adapter'[d] = "refused" /\ UNCHANGED queueVars))
  \/ /\ adapter[d] \in {"refused", "wait"} /\ adapter'[d] = "done" /\ UNCHANGED queueVars
     /\ adapter[d] = "wait" => reports[d] # <<>>
     /\ rows'[d] = rows[d] \/ rows'[d] = Outcome(d)

LEMMA RowMoves ==
  ASSUME IInv, [Next]_vars, NEW d \in Forms
  PROVE  Stays(d) \/ GoesOn(d) \/ \E i \in Drains : Reserved(i, d)
<1>0. /\ rows \in [Forms -> RowStates] /\ d \in Forms \cup Users
      /\ adapter \in [Forms \cup Users -> {"none", "claim", "write", "wait", "refused", "done"}]
  BY DEF IInv, TypeOK, FormTypeOK
<1>1. CASE UNCHANGED <<rows, adapter>> BY <1>1 DEF Stays
<1>2. CASE Crash
  BY <1>0, <1>2 DEF Crash, Stays
<1>3. ASSUME NEW i \in Drains, Reserve(i) PROVE Stays(d) \/ Reserved(i, d)
  <2> DEFINE x == <<Of(i), Item(i).attempt>>
  <2>1. drains[i].at = "next" /\ drains[i].items # <<>> BY <1>3 DEF Reserve, IInv, HasItem
  <2>2. Item(i) = drains[i].items[1] /\ Of(i) = Item(i).of /\ x \in Forms
    BY <2>1, ItemTypes DEF Of, Forms, IInv
  <2>3. 1 \in 1..Len(drains[i].items) BY <2>1, TailFacts DEF IInv, TypeOK, FormTypeOK
  <2>4. Ahead(i, 1) /\ x = NumberOf(i, 1) BY <2>1, <2>2, <2>3 DEF Ahead, NumberOf
  <2>5. adapter[x] = "none" BY <2>3, <2>4 DEF IInv, ItemsAreNew
  <2>6. /\ drains[i].items[1].inject
        /\ \/ rows' = [rows EXCEPT ![x] = "failed"] /\ adapter' = adapter
           \/ rows' = [rows EXCEPT ![x] = "pending"] /\ adapter' = [adapter EXCEPT ![x] = "claim"]
           \/ adapter' = adapter /\ (rows' = rows \/ rows' = [rows EXCEPT ![x] = "failed"]
                                     \/ rows' = [rows EXCEPT ![x] = "pending"])
    BY <1>3, <2>2 DEF Reserve
  <2> HIDE DEF x
  <2>7. CASE d # x BY <1>0, <2>2, <2>6, <2>7 DEF Stays
  <2>8. CASE d = x /\ rows' = rows /\ adapter' = adapter BY <2>8 DEF Stays
  <2>9. CASE d = x /\ ~(rows' = rows /\ adapter' = adapter)
    <3>1. \/ rows'[x] = "failed" /\ adapter'[x] = "none"
          \/ rows'[x] = "pending" /\ adapter'[x] \in {"claim", "none"}
      BY <1>0, <2>2, <2>5, <2>6, <2>9
    <3> QED BY <1>3, <2>4, <2>5, <2>6, <2>9, <3>1 DEF Reserved
  <2> QED BY <2>7, <2>8, <2>9
<1>4. ASSUME NEW x \in Forms, Attempt(x) PROVE Stays(d) \/ GoesOn(d)
  <2>1. CASE d # x
    <3>1. (rows' = rows \/ \E o : rows' = [rows EXCEPT ![x] = o]) /\ \E s : adapter' = [adapter EXCEPT ![x] = s]
      BY <1>4 DEF Attempt, ClaimRow, Prompt, Settle, Adapt
    <3> QED BY <1>0, <2>1, <3>1 DEF Stays
  <2>2. CASE d = x /\ ClaimRow(d) BY <1>0, <2>2 DEF ClaimRow, Adapt, GoesOn
  <2>3. CASE d = x /\ Prompt(d) BY <1>0, <2>3 DEF Prompt, Adapt, GoesOn
  <2>4. CASE d = x /\ Settle(d) BY <1>0, <2>4 DEF Settle, Adapt, GoesOn
  <2> QED BY <1>4, <2>1, <2>2, <2>3, <2>4 DEF Attempt
<1>5. ASSUME NEW u \in Users, AskPrompt(u) \/ AdmitPrompt(u) PROVE Stays(d)
  <2>1. d # u BY PromptAssumption
  <2> QED BY <1>0, <1>5, <2>1 DEF AskPrompt, AdmitPrompt, Adapt, Stays
<1>6. Session \/ Resume \/ End => UNCHANGED <<rows, adapter>>
  BY DEF Session, Launch, LaunchDone, LaunchFails, Resume, ResumeSpawns, ResumeRuns, ResumeDone, ResumeFails, End, RecordEnd, formVars
<1>7. \A i \in Drains : Drain(i) /\ ~Reserve(i) => UNCHANGED <<rows, adapter>>
  BY DEF Drain, StartDrain, DrainAgain, Claim, Record, Release, RouteToSession, HandBack,
         Defer, FailItem, RouteToNew, SpawnEnds, SettleSpawned
<1>8. /\ \A r \in Responses : Submit(r) \/ Lapse(r) => UNCHANGED <<rows, adapter>>
      /\ \A x \in Deliveries : TypingStep(x) => UNCHANGED <<rows, adapter>>
      /\ UNCHANGED vars => UNCHANGED <<rows, adapter>>
  BY DEF Submit, Lapse, TypingStep, formVars, vars
<1> QED BY <1>1, <1>2, <1>3, <1>4, <1>5, <1>6, <1>7, <1>8 DEF Next

\* What was submitted stays so, and what was typed once is not typed again.
LEMMA OnceStep ==
  ASSUME IInv, TypedOnce, [Next]_vars
  PROVE  TypedOnce' /\ \A d \in Forms : Submitted(d) => Submitted(d)'
<1> USE DEF IInv
<1>1. ASSUME input' = input PROVE \A d \in Forms : Submitted(d) => Submitted(d)'
  BY <1>1 DEF Submitted
<1>2. CASE Session \/ Resume \/ End
  <2>1. input' = input
    BY <1>2 DEF Session, Launch, LaunchDone, LaunchFails, Resume, ResumeSpawns, ResumeRuns, ResumeDone, ResumeFails,
       End, RecordEnd, queueVars, SpawnPty, Discard
  <2>2. \/ SpawnPty(<<First>>) \/ SpawnPty(<<>>) \/ Discard \/ UNCHANGED <<writer, input, reports>>
    BY <1>2 DEF Session, Launch, LaunchDone, LaunchFails, Resume, ResumeSpawns, ResumeRuns, ResumeDone, ResumeFails,
       End, RecordEnd, queueVars
  <2> QED BY <1>1, <2>1, <2>2, SpawnOnce, LossOnce
<1>3. CASE Crash
  BY <1>1, <1>3, LossOnce DEF Crash, ForgetQueue
<1>4. ASSUME NEW d \in Deliveries, Unseen(d), Admit(d)
      PROVE  TypedOnce' /\ \A x \in Forms : Submitted(x) => Submitted(x)'
  BY <1>1, <1>4, AdmitOnce DEF Admit
<1>5. CASE UNCHANGED queueVars
  BY <1>1, <1>5, LossOnce DEF queueVars
<1>6. ASSUME NEW d \in Forms, Attempt(d)
      PROVE  TypedOnce' /\ \A x \in Forms : Submitted(x) => Submitted(x)'
  <2>1. UNCHANGED queueVars \/ (Prompt(d) /\ Admit(d)) BY <1>6 DEF Attempt, ClaimRow, Prompt, Settle
  <2>2. Prompt(d) => Unseen(d) /\ d \in Deliveries BY DEF Prompt, Unsent, Deliveries
  <2> QED BY <1>4, <1>5, <2>1, <2>2
<1>7. ASSUME NEW u \in Users, AskPrompt(u) \/ AdmitPrompt(u)
      PROVE  TypedOnce' /\ \A x \in Forms : Submitted(x) => Submitted(x)'
  <2>1. UNCHANGED queueVars \/ (AdmitPrompt(u) /\ Admit(u)) BY <1>7 DEF AskPrompt, AdmitPrompt
  <2>2. AdmitPrompt(u) => Unseen(u) /\ u \in Deliveries BY DEF AdmitPrompt, Unsent, Deliveries
  <2> QED BY <1>4, <1>5, <2>1, <2>2
<1>8. ASSUME NEW d \in Deliveries, TypingStep(d)
      PROVE  TypedOnce' /\ \A x \in Forms : Submitted(x) => Submitted(x)'
  <2>1. Typing(d) BY <1>8 DEF TypingStep
  <2>2. TypedOnce' BY <2>1, TypingOnce
  <2>3. \/ Type(d, "body") /\ Busy(writer, d) /\ Alive(d)
        \/ Type(d, "enter") /\ Busy(writer, d) /\ Alive(d)
        \/ input' = input
    BY <2>1 DEF Typing, SeesAnotherProcess, WriteBody, NeverReady, BodyArrives, BodyIsLost,
       PressEnter, TextIsGone, TextIsStillThere, WriteThrows, At, Busy
  <2>4. \A e \in Epochs : \A n \in 1..Len(input[e]) : n \in 1..Len(input'[e]) /\ input'[e][n] = input[e][n]
    BY <2>3, KeyIsTyped
  <2> QED BY <2>2, <2>4 DEF Submitted
<1>9. /\ \A i \in Drains : Drain(i) => UNCHANGED queueVars
      /\ \A r \in Responses : Submit(r) \/ Lapse(r) => UNCHANGED queueVars
      /\ UNCHANGED vars => UNCHANGED queueVars
  BY DrainQueue DEF Submit, Lapse, vars
<1> QED BY <1>2, <1>3, <1>5, <1>6, <1>7, <1>8, <1>9 DEF Next

LEMMA FollowStep ==
  ASSUME OnceInv, [Next]_vars
  PROVE  RowsFollow'
<1> SUFFICES ASSUME NEW d \in Forms PROVE Follow(d)' BY DEF RowsFollow
<1>0. /\ IInv /\ TypedOnce /\ Follow(d) /\ d \in Deliveries /\ d # First
      /\ reports \in [Deliveries -> Seq(Outcomes)]
      /\ adapter[d] \in {"none", "claim", "write", "wait", "refused", "done"}
  BY Prompts DEF OnceInv, RowsFollow, IInv, TypeOK, QueueTypeOK, FormTypeOK
<1>1. Submitted(d) => Submitted(d)' BY <1>0, OnceStep
<1>2. Unseen(d) /\ adapter[d] # "write" => Unseen(d)'
  BY <1>0, QueueSteps DEF QueueKept, SentNow
<1>3. UNCHANGED queueVars /\ Unseen(d) => Unseen(d)' BY DEF queueVars, Unseen, Busy
<1>4. CASE Stays(d)
  BY <1>0, <1>1, <1>2, <1>4 DEF Stays, Follow, Unspent
<1>5. CASE \E i \in Drains : Reserved(i, d)
  <2>1. Unseen(d) BY <1>0, <1>5 DEF Reserved, IInv, Unsent
  <2> QED BY <1>0, <1>1, <1>2, <1>5, <2>1 DEF Reserved, Follow, Unspent
<1>6. CASE GoesOn(d)
  <2>1. CASE adapter[d] = "claim"
    BY <1>0, <1>1, <1>2, <1>6, <2>1 DEF GoesOn, Follow, Unspent
  <2>2. CASE adapter[d] = "write"
    <3>1. Unseen(d) BY <1>0, <2>2 DEF IInv, Unsent
    <3> QED BY <1>0, <1>1, <1>3, <1>6, <2>2, <3>1 DEF GoesOn, Follow, Unspent
  <2>3. CASE adapter[d] = "refused"
    BY <1>0, <1>1, <1>2, <1>6, <2>3 DEF GoesOn, Follow, Unspent, Outcome
  <2>4. CASE adapter[d] = "wait"
    <3>1. /\ reports[d] # <<>> /\ Head(reports[d]) = reports[d][1] /\ 1 \in 1..Len(reports[d])
          /\ Head(reports[d]) \in Outcomes
      BY <1>0, <1>6, <2>4, TailFacts DEF GoesOn
    <3>2. Head(reports[d]) = "delivered" => Submitted(d) BY <1>0, <3>1 DEF TypedOnce, Once
    <3> QED BY <1>0, <1>1, <1>6, <2>4, <3>1, <3>2 DEF GoesOn, Follow, Unspent, Outcome, Outcomes
  <2> QED BY <1>6, <2>1, <2>2, <2>3, <2>4 DEF GoesOn
<1> QED BY <1>0, <1>4, <1>5, <1>6, RowMoves

LEMMA OnceInvariant == Spec => []OnceInv
<1>1. Init => OnceInv
  <2> SUFFICES ASSUME Init PROVE OnceInv OBVIOUS
  <2>1. IInv BY InitIsGood
  <2>2. Forms \subseteq Deliveries /\ \A d \in Forms : reports[d] = <<>> /\ writer[d] = Off /\ Unseen(d)
    BY <2>1, Prompts DEF Init, QueueInit, IInv, Unsent
  <2>3. \A e \in Epochs : input[e] = <<>> BY DEF Init, QueueInit
  <2>4. TypedOnce BY <2>2, <2>3 DEF TypedOnce, Once, Off
  <2>5. RowsFollow BY <2>2 DEF RowsFollow, Follow, Init
  <2> QED BY <2>1, <2>4, <2>5 DEF OnceInv
<1>2. OnceInv /\ [Next]_vars => OnceInv'
  BY StepIsGood, OnceStep, FollowStep DEF OnceInv
<1> QED BY <1>1, <1>2, PTL DEF Spec

-----------------------------------------------------------------------------
(***************************************************************************)
(* One drain for each answer.  A drain that is never overtaken in what it  *)
(* takes long for (SlowSteps = {}) works alone on the rows it has claimed, *)
(* and claims none whose last attempt may have been seen.                  *)
(***************************************************************************)
\* No attempt but `a` may have been seen; `a` is above the number of any.
QuietBut(r, a) == \A b \in Attempts : b # a => rows[<<r, b>>] \in Unspent
Fresh(r, a) == \A b \in Attempts : rows[<<r, b>>] \in Unspent /\ (rows[<<r, b>>] # "none" => b < a)

\* The attempt that may have been seen is the last one.
LatestOf(r) == \A a \in Attempts : \A b \in Attempts :
  rows[<<r, a>>] \notin Unspent /\ rows[<<r, b>>] # "none" => b <= a
LatestCounts == \A r \in Responses : LatestOf(r)

\* An item whose attempt is made, in the step that ends it.
Ending(i, n) == n = 1 /\ drains[i].at \in {"record", "release"}
Held(x, over) ==
  /\ Free(outbox[x.of]) /\ outbox[x.of].leased /\ (x.inject => x.of \notin ToNew)
  /\ IF over THEN QuietBut(x.of, x.attempt) ELSE Fresh(x.of, x.attempt)
ItemIsHeld(i, n) == Held(drains[i].items[n], Ending(i, n))
ItemsAreHeld == \A i \in Drains : \A n \in 1..Len(drains[i].items) : ItemIsHeld(i, n)
OneHolder ==
  \A i, j \in Drains : \A m \in 1..Len(drains[i].items), n \in 1..Len(drains[j].items) :
    drains[i].items[m].of = drains[j].items[n].of => i = j /\ m = n

\* New sessions are for the answers that ask for one, and those have no attempts.
Lane(i) ==
  /\ drains[i].at = "resuming" => Of(i) \notin ToNew
  /\ drains[i].at \in {"spawning", "settle"} => Of(i) \in ToNew
  /\ drains[i].at \in {"fail", "cancel"} => started[Of(i)] # "running"
  /\ drains[i].at = "settle" => started[Of(i)] = "running"
SpawnsAreNew ==
  /\ \A r \in Responses : r \notin ToNew => started[r] = "none"
  /\ \A d \in Forms : d[1] \in ToNew => rows[d] = "none"
  /\ \A i \in Drains : Lane(i)

\* What the records of the attempts say of an answer that has ended.
Ended(r) ==
  /\ outbox[r].status = "delivered" => \E a \in Attempts : rows[<<r, a>>] \in {"delivered", "unknown"}
  /\ outbox[r].status = "cancelled" => started[r] # "running" /\ \A a \in Attempts : rows[<<r, a>>] \in Unspent

DrainInv == LatestCounts /\ ItemsAreHeld /\ OneHolder /\ SpawnsAreNew /\ \A r \in Responses : Ended(r)

\* What has settled stays, and what is reserved is not forgotten.
Keeps(d) ==
  /\ rows[d] \in Unspent \cup Settled => rows'[d] = rows[d]
  /\ rows[d] # "none" => rows'[d] # "none"

LEMMA OutcomeSettles ==
  ASSUME IInv, NEW d \in Forms, adapter[d] = "refused" \/ reports[d] # <<>>
  PROVE  Outcome(d) \in Settled /\ (Outcome(d) = "failed" <=> adapter[d] = "refused")
<1>1. reports[d] \in Seq(Outcomes) BY Prompts DEF IInv, TypeOK, QueueTypeOK
<1>2. reports[d] # <<>> => Head(reports[d]) \in Outcomes BY <1>1, TailFacts
<1> QED BY <1>2 DEF Outcome, Outcomes, Settled

LEMMA RowKeeps ==
  ASSUME OnceInv, [Next]_vars, NEW d \in Forms
  PROVE  Keeps(d) \/ \E i \in Drains : Reserved(i, d)
<1>1. IInv /\ Follow(d) BY DEF OnceInv, RowsFollow
<1>2. CASE Stays(d) BY <1>2 DEF Stays, Keeps
<1>3. CASE GoesOn(d)
  <2>1. adapter[d] \in {"claim", "write", "wait", "refused"} => rows[d] \in {"pending", "dispatching"}
    BY <1>1 DEF Follow
  <2>2. rows'[d] = rows[d] \/ rows'[d] = "dispatching" \/ rows'[d] \in Settled
    BY <1>1, <1>3, OutcomeSettles DEF GoesOn
  <2> QED BY <1>3, <2>1, <2>2 DEF GoesOn, Keeps, Unspent, Settled
<1> QED BY <1>1, <1>2, <1>3, RowMoves

\* An answer whose attempts only go on.
LEMMA AnswerKeeps ==
  ASSUME NEW r \in Responses, \A a \in Attempts : Keeps(<<r, a>>)
  PROVE  /\ \A a \in Attempts : QuietBut(r, a) => \A b \in Attempts : b # a => rows'[<<r, b>>] \in Unspent
         /\ \A a \in Attempts : Fresh(r, a) => \A b \in Attempts :
              rows'[<<r, b>>] \in Unspent /\ (rows'[<<r, b>>] # "none" => b < a)
         /\ LatestOf(r) => LatestOf(r)'
<1>1. ASSUME NEW b \in Attempts
      PROVE  /\ rows[<<r, b>>] \in Unspent => rows'[<<r, b>>] = rows[<<r, b>>]
             /\ rows[<<r, b>>] # "none" => rows'[<<r, b>>] # "none"
  BY DEF Keeps, Unspent
<1>2. \A b \in Attempts : rows'[<<r, b>>] # "none" => rows[<<r, b>>] # "none"
  BY <1>1 DEF Unspent
<1>3. LatestOf(r) => LatestOf(r)' BY <1>1, <1>2 DEF LatestOf
<1> QED BY <1>1, <1>2, <1>3 DEF QuietBut, Fresh

\* An answer one of whose attempts is reserved: by the drain that holds it.
Begins(i, r) ==
  /\ Reserve(i) /\ Ahead(i, 1) /\ drains[i].items[1].of = r /\ r \notin ToNew
  /\ \A b \in Attempts : b # drains[i].items[1].attempt => Keeps(<<r, b>>)

LEMMA AnswerMoves ==
  ASSUME OnceInv, DrainInv, [Next]_vars, NEW r \in Responses
  PROVE  (\A a \in Attempts : Keeps(<<r, a>>)) \/ \E i \in Drains : Begins(i, r)
<1> SUFFICES ASSUME NEW a \in Attempts, ~Keeps(<<r, a>>)
             PROVE  \E i \in Drains : Begins(i, r)
  OBVIOUS
<1>0. IInv BY DEF OnceInv
<1>1. \A b \in Attempts : <<r, b>> \in Forms BY DEF Forms
<1>2. PICK i \in Drains : Reserved(i, <<r, a>>) BY <1>1, RowKeeps
<1>3. /\ Reserve(i) /\ Ahead(i, 1) /\ 1 \in 1..Len(drains[i].items) /\ drains[i].items[1].inject
      /\ drains[i].items[1].of = r /\ drains[i].items[1].attempt = a
  BY <1>2 DEF Reserved, NumberOf, Ahead
<1>4. r \notin ToNew BY <1>3 DEF DrainInv, ItemsAreHeld, ItemIsHeld, Held
<1>5. ASSUME NEW b \in Attempts, ~Keeps(<<r, b>>) PROVE b = a
  <2>1. PICK j \in Drains : Reserved(j, <<r, b>>) BY <1>1, <1>5, RowKeeps
  <2>2. /\ 1 \in 1..Len(drains[j].items)
        /\ drains[j].items[1].of = r /\ drains[j].items[1].attempt = b
    BY <2>1 DEF Reserved, NumberOf, Ahead
  <2>3. i = j BY <1>3, <2>2 DEF DrainInv, OneHolder
  <2> QED BY <1>3, <2>2, <2>3
<1> QED BY <1>3, <1>4, <1>5 DEF Begins

\* What is then known of its rows.
LEMMA BegunRows ==
  ASSUME OnceInv, DrainInv, NEW i \in Drains, NEW r \in Responses, Begins(i, r)
  PROVE  /\ \A b \in Attempts : b # drains[i].items[1].attempt => rows'[<<r, b>>] \in Unspent
         /\ LatestOf(r)'
         /\ \A b \in Attempts : rows[<<r, b>>] \in Unspent
<1> DEFINE a == drains[i].items[1].attempt
<1>0. IInv /\ TypeOK BY DEF OnceInv, IInv
<1>1. /\ 1 \in 1..Len(drains[i].items) /\ ~Ending(i, 1) /\ a \in Attempts
  <2>1. drains[i].at = "next" /\ 1 \in 1..Len(drains[i].items) BY DEF Begins, Reserve, Ahead
  <2>2. a \in Attempts BY <1>0, <2>1, ItemNumbers
  <2> QED BY <2>1, <2>2 DEF Ending
<1>2. Fresh(r, a) BY <1>1 DEF DrainInv, ItemsAreHeld, ItemIsHeld, Held, Begins
<1>4. \A b \in Attempts : b # a => rows'[<<r, b>>] = rows[<<r, b>>] /\ rows[<<r, b>>] \in Unspent
  BY <1>2 DEF Begins, Fresh, Keeps
<1>6. LatestOf(r)'
  <2> SUFFICES ASSUME NEW x \in Attempts, NEW y \in Attempts, rows'[<<r, x>>] \notin Unspent, rows'[<<r, y>>] # "none"
               PROVE  y <= x
    BY DEF LatestOf
  <2>1. x = a BY <1>4
  <2>2. y = a \/ y < a BY <1>2, <1>4 DEF Fresh
  <2>3. x \in Int /\ y \in Int BY DEF Attempts
  <2> QED BY <2>1, <2>2, <2>3
<1> QED BY <1>2, <1>4, <1>6 DEF Fresh

-----------------------------------------------------------------------------
(***************************************************************************)
(* The items that a drain keeps, and the rows of the outbox they are about. *)
(***************************************************************************)
\* The n-th item of drain j was its m-th; its row stays as it was.
Came(j, n, m) ==
  /\ m \in 1..Len(drains[j].items) /\ drains'[j].items[n] = drains[j].items[m]
  /\ outbox'[drains[j].items[m].of] = outbox[drains[j].items[m].of]
  /\ IF Reserve(j) /\ m = 1 THEN Ending(j, n)' ELSE Ending(j, n)' <=> Ending(j, m)
AllCame(j) == \E k \in {0, 1} : \A n \in 1..Len(drains'[j].items) : Came(j, n, n + k)

LEMMA SameCame ==
  ASSUME IInv, NEW j \in Drains, drains'[j].items = drains[j].items,
         \A n \in 1..Len(drains[j].items) : outbox'[drains[j].items[n].of] = outbox[drains[j].items[n].of],
         drains'[j].at \in {"record", "release"} <=> Reserve(j) \/ drains[j].at \in {"record", "release"}
  PROVE  AllCame(j)
<1>1. drains[j].items \in Seq(Items) BY DEF IInv, TypeOK, FormTypeOK
<1>2. Len(drains[j].items) \in Nat BY <1>1, LenProperties
<1>3. ASSUME NEW n \in 1..Len(drains[j].items) PROVE Came(j, n, n + 0)
  BY <1>2, <1>3 DEF Came, Ending
<1> QED BY <1>3 DEF AllCame

\* A drain that is done with its first item.
Drops(i) ==
  /\ drains[i].items # <<>>
  /\ \E s \in Steps \ {"record", "release"} :
       drains' = [drains EXCEPT ![i] = [at |-> s, items |-> Tail(drains[i].items)]]

LEMMA NextCame ==
  ASSUME IInv, NEW i \in Drains, Drops(i), ~Reserve(i),
         \A n \in 1..Len(drains[i].items) : n > 1 => outbox'[drains[i].items[n].of] = outbox[drains[i].items[n].of]
  PROVE  AllCame(i)
<1>1. /\ drains[i].items \in Seq(Items) /\ drains \in [Drains -> DrainStates]
  BY DEF IInv, TypeOK, FormTypeOK, DrainStates
<1>2. /\ drains'[i].items = Tail(drains[i].items) /\ drains'[i].at \notin {"record", "release"}
  BY <1>1 DEF Drops
<1>3. /\ Len(drains[i].items) \in Nat
      /\ Len(Tail(drains[i].items)) = Len(drains[i].items) - 1
      /\ \A n \in 1..Len(drains[i].items) - 1 : Tail(drains[i].items)[n] = drains[i].items[n + 1]
  BY <1>1, TailFacts, LenProperties DEF Drops
<1>4. ASSUME NEW n \in 1..Len(drains'[i].items) PROVE Came(i, n, n + 1)
  <2>1. n + 1 \in 1..Len(drains[i].items) /\ n + 1 > 1 /\ n + 1 # 1 BY <1>2, <1>3
  <2>2. drains'[i].items[n] = drains[i].items[n + 1] BY <1>2, <1>3
  <2> QED BY <1>2, <2>1, <2>2 DEF Came, Ending
<1> QED BY <1>4 DEF AllCame

LEMMA OthersStay ==
  ASSUME IInv, NEW i \in Drains, NEW s, drains' = [drains EXCEPT ![i] = s], NEW j \in Drains, j # i
  PROVE  drains'[j] = drains[j]
BY DEF IInv, TypeOK, FormTypeOK

\* Only the drain at "next" reserves.
LEMMA OneReserves ==
  ASSUME IInv, NEW i \in Drains, NEW j \in Drains, Reserve(i), Reserve(j)
  PROVE  i = j
<1>1. drains[i].at = "next" /\ drains'[i].at \in {"record", "release"}
  BY DEF Reserve, Step, IInv, TypeOK, FormTypeOK
<1>2. j # i => drains'[i] = drains[i]
  BY OthersStay DEF Reserve, Step
<1> QED BY <1>1, <1>2

\* A step that writes the row of its own first item, and is done with it.
LEMMA HeadCame ==
  ASSUME IInv, OneHolder, NEW i \in Drains, Drops(i), outbox' = outbox \/ \E row : Put(Of(i), row)
  PROVE  \A j \in Drains : AllCame(j)
<1>0. /\ drains[i].items \in Seq(Items) /\ drains[i].items # <<>>
      /\ outbox \in [Responses -> OutboxRows]
  BY DEF Drops, IInv, TypeOK, FormTypeOK
<1>1. /\ Of(i) = drains[i].items[1].of /\ 1 \in 1..Len(drains[i].items)
  BY <1>0, TailFacts, ItemTypes DEF Of, IInv
<1>2. ASSUME NEW r \in Responses, r # Of(i) PROVE outbox'[r] = outbox[r]
  BY <1>0, <1>2 DEF Put
<1>3. ASSUME NEW j \in Drains, NEW n \in 1..Len(drains[j].items), j # i \/ n # 1
      PROVE  outbox'[drains[j].items[n].of] = outbox[drains[j].items[n].of]
  <2>1. drains[j].items[n].of \in Responses BY ItemNumbers DEF IInv
  <2>2. drains[j].items[n].of # Of(i) BY <1>1, <1>3 DEF OneHolder
  <2> QED BY <1>2, <2>1, <2>2
<1>4. ~Reserve(i)
  <2>1. drains'[i].items = Tail(drains[i].items) /\ Len(Tail(drains[i].items)) # Len(drains[i].items)
    BY <1>0, TailFacts, LenProperties DEF Drops, IInv, TypeOK, FormTypeOK
  <2>2. Reserve(i) => drains'[i].items = drains[i].items
    BY DEF Reserve, Step, IInv, TypeOK, FormTypeOK
  <2> QED BY <2>1, <2>2
<1>5. AllCame(i) BY <1>3, <1>4, NextCame
<1>6. ASSUME NEW j \in Drains, j # i PROVE AllCame(j)
  <2>1. drains'[j] = drains[j] BY <1>6, OthersStay DEF Drops
  <2>2. ~Reserve(j)
    <3>1. Reserve(j) => drains'[i] = drains[i] BY <1>6, OthersStay DEF Reserve, Step
    <3>2. drains'[i].items = Tail(drains[i].items) /\ Len(Tail(drains[i].items)) # Len(drains[i].items)
      BY <1>0, TailFacts, LenProperties DEF Drops, IInv, TypeOK, FormTypeOK
    <3> QED BY <3>1, <3>2
  <2> QED BY <1>3, <1>6, <2>1, <2>2, SameCame
<1> QED BY <1>5, <1>6

\* A step that only moves a drain, or those that wait for a resume.
LEMMA StepCame ==
  ASSUME IInv, outbox' = outbox, NEW j \in Drains, drains'[j].items = drains[j].items,
         drains'[j].at = drains[j].at
           \/ (drains[j].at \notin {"record", "release"} /\ drains'[j].at \notin {"record", "release"})
           \/ (drains[j].at \in {"record", "release"} /\ drains'[j].at \in {"record", "release"})
  PROVE  AllCame(j)
<1>1. Reserve(j) => drains[j].at = "next" /\ drains'[j].at \in {"record", "release"}
  BY DEF Reserve, Step, IInv, TypeOK, FormTypeOK
<1> QED BY <1>1, SameCame

LEMMA MoveCame ==
  ASSUME IInv, outbox' = outbox, NEW i \in Drains,
         \/ Reserve(i)
         \/ \E s \in Steps \ {"record", "release"} : drains[i].at \notin {"record", "release"} /\ Step(i, s)
         \/ drains[i].at = "record" /\ Step(i, "release")
         \/ drains' = drains
         \/ \E s \in Steps \ {"record", "release"} : AfterResume(s)
  PROVE  \A j \in Drains : AllCame(j)
<1>0. drains \in [Drains -> DrainStates] BY DEF IInv, TypeOK, FormTypeOK, DrainStates
<1>1. CASE Reserve(i)
  <2>1. /\ drains[i].at = "next" /\ drains'[i].at \in {"record", "release"}
        /\ drains'[i].items = drains[i].items
    BY <1>0, <1>1 DEF Reserve, Step, DrainStates
  <2>2. AllCame(i) BY <1>1, <2>1, SameCame
  <2>3. ASSUME NEW j \in Drains, j # i PROVE AllCame(j)
    <3>1. drains'[j] = drains[j] BY <1>1, <2>3, OthersStay DEF Reserve, Step
    <3> QED BY <3>1, StepCame
  <2> QED BY <2>2, <2>3
<1>2. ASSUME NEW s \in Steps, Step(i, s),
             \/ drains[i].at \notin {"record", "release"} /\ s \notin {"record", "release"}
             \/ drains[i].at = "record" /\ s = "release"
      PROVE  \A j \in Drains : AllCame(j)
  <2>1. drains'[i].items = drains[i].items /\ drains'[i].at = s BY <1>0, <1>2 DEF Step, DrainStates
  <2>2. AllCame(i) BY <1>2, <2>1, StepCame
  <2>3. ASSUME NEW j \in Drains, j # i PROVE AllCame(j)
    <3>1. drains'[j] = drains[j] BY <1>2, <2>3, OthersStay DEF Step
    <3> QED BY <3>1, StepCame
  <2> QED BY <2>2, <2>3
<1>3. CASE drains' = drains BY <1>3, StepCame
<1>4. ASSUME NEW s \in Steps \ {"record", "release"}, AfterResume(s) PROVE \A j \in Drains : AllCame(j)
  <2>1. \A j \in Drains : /\ drains'[j].items = drains[j].items
                          /\ drains'[j].at = drains[j].at \/ (drains[j].at = "resuming" /\ drains'[j].at = s)
    BY <1>0, <1>4 DEF AfterResume, Resuming, DrainStates
  <2> QED BY <1>4, <2>1, StepCame
<1> QED BY <1>1, <1>2, <1>3, <1>4 DEF Steps

LEMMA StillCame ==
  ASSUME IInv, drains' = drains,
         \A j \in Drains : \A n \in 1..Len(drains[j].items) :
           outbox'[drains[j].items[n].of] = outbox[drains[j].items[n].of]
  PROVE  \A j \in Drains : AllCame(j)
<1>1. \A j \in Drains : Reserve(j) => drains'[j] # drains[j]
  BY DEF Reserve, Step, IInv, TypeOK, FormTypeOK
<1> QED BY <1>1, SameCame

\* What a drain has to do with the items, unless it claims.
LEMMA DrainCame ==
  ASSUME IInv, OneHolder, NEW i \in Drains, Drain(i), ~StartDrain(i), ~DrainAgain(i)
  PROVE  \A j \in Drains : AllCame(j)
<1>1. drains[i].items # <<>>
  BY DEF IInv, HasItem, Drain, Reserve, Record, Release, RouteToSession, HandBack, Defer, FailItem, RouteToNew,
     SpawnEnds, SettleSpawned
<1>2. ASSUME Advance(i) PROVE Drops(i)
  <2> DEFINE s == IF Tail(drains[i].items) = <<>> THEN "idle" ELSE "next"
  <2>1. drains' = [drains EXCEPT ![i] = [at |-> s, items |-> Tail(drains[i].items)]]
    BY <1>2 DEF Advance, Begin
  <2>2. s \in Steps \ {"record", "release"} BY DEF Steps
  <2> HIDE DEF s
  <2> QED BY <1>1, <2>1, <2>2 DEF Drops
<1>3. CASE Reserve(i) BY <1>3, MoveCame DEF Reserve
<1>4. CASE Record(i)
  <2>1. \/ Advance(i) /\ \E row : Put(Of(i), row)
        \/ Step(i, "release") /\ outbox' = outbox /\ drains[i].at = "record"
    BY <1>4 DEF Record
  <2> QED BY <1>2, <2>1, HeadCame, MoveCame
<1>5. CASE Release(i) \/ Defer(i) \/ FailItem(i) \/ SettleSpawned(i)
  <2>1. Advance(i) /\ \E row : Put(Of(i), row) BY <1>5 DEF Release, Defer, FailItem, SettleSpawned
  <2> QED BY <1>2, <2>1, HeadCame
<1>6. CASE HandBack(i)
  <2>1. Drops(i) BY <1>1, <1>6 DEF HandBack, Drops, Steps
  <2> QED BY <1>6, <2>1, HeadCame DEF HandBack
<1>7. CASE RouteToSession(i)
  <2>1. /\ drains[i].at = "next" /\ outbox' = outbox
        /\ Step(i, "again") \/ Step(i, "defer") \/ Step(i, "resuming")
    BY <1>7 DEF RouteToSession
  <2> QED BY <2>1, MoveCame DEF Steps
<1>8. CASE RouteToNew(i)
  <2>1. /\ drains[i].at = "next" /\ outbox' = outbox
        /\ Advance(i) \/ \E s \in {"spawning", "settle", "fail", "defer"} : Step(i, s)
    BY <1>8 DEF RouteToNew
  <2> QED BY <1>2, <2>1, HeadCame, MoveCame DEF Steps
<1>9. CASE SpawnEnds(i)
  <2>1. /\ drains[i].at = "spawning" /\ outbox' = outbox
        /\ Step(i, "settle") \/ Step(i, "fail") \/ Step(i, "cancel")
    BY <1>9 DEF SpawnEnds
  <2> QED BY <2>1, MoveCame DEF Steps
<1> QED BY <1>3, <1>4, <1>5, <1>6, <1>7, <1>8, <1>9 DEF Drain

\* Nothing but its drain touches the row of an answer that is held.
LEMMA ItemsCame ==
  ASSUME SlowSteps = {}, OnceInv, DrainInv, [Next]_vars, \A i \in Drains : ~StartDrain(i) /\ ~DrainAgain(i)
  PROVE  \A j \in Drains : AllCame(j)
<1>0. IInv /\ OneHolder /\ outbox \in [Responses -> OutboxRows] BY DEF OnceInv, DrainInv, IInv, TypeOK, FormTypeOK
<1>1. \A j \in Drains : \A n \in 1..Len(drains[j].items) :
        /\ drains[j].items[n].of \in Responses /\ Free(outbox[drains[j].items[n].of])
        /\ Holds(j, drains[j].items[n].of)
  <2> SUFFICES ASSUME NEW j \in Drains, NEW n \in 1..Len(drains[j].items)
               PROVE  /\ drains[j].items[n].of \in Responses /\ Free(outbox[drains[j].items[n].of])
                      /\ Holds(j, drains[j].items[n].of)
    OBVIOUS
  <2>1. drains[j].items[n].of \in Responses BY <1>0, ItemNumbers DEF IInv
  <2>2. Free(outbox[drains[j].items[n].of]) BY DEF DrainInv, ItemsAreHeld, ItemIsHeld, Held
  <2>3. n \in DOMAIN drains[j].items BY <1>0, LenProperties DEF IInv, TypeOK, FormTypeOK
  <2> QED BY <2>1, <2>2, <2>3 DEF Holds
<1>2. CASE Session \/ Resume \/ End
  <2>1. outbox' = outbox /\ (drains' = drains \/ \E s \in {"again", "fail", "cancel"} : AfterResume(s))
    BY <1>2 DEF Session, Launch, LaunchDone, LaunchFails, Resume, ResumeSpawns, ResumeRuns, ResumeDone, ResumeFails,
       End, RecordEnd, formVars
  <2>2. CASE drains' = drains BY <1>0, <2>1, <2>2, StillCame
  <2>3. ASSUME NEW s \in {"again", "fail", "cancel"}, AfterResume(s) PROVE \A j \in Drains : AllCame(j)
    <3>1. s \in Steps \ {"record", "release"} BY DEF Steps
    <3>2. \E i \in Drains : TRUE BY FormAssumption
    <3> QED BY <1>0, <2>1, <2>3, <3>1, <3>2, MoveCame
  <2> QED BY <2>1, <2>2, <2>3
<1>3. CASE Crash
  <2>1. \A j \in Drains : drains'[j].items = <<>> BY <1>3 DEF Crash
  <2>2. 1..Len(<<>>) = {} OBVIOUS
  <2> QED BY <2>1, <2>2 DEF AllCame
<1>4. ASSUME NEW r \in Responses, Submit(r) \/ Lapse(r) PROVE \A j \in Drains : AllCame(j)
  <2>1. drains' = drains /\ \A x \in Responses : x # r => outbox'[x] = outbox[x]
    BY <1>0, <1>4 DEF Submit, Lapse
  <2>2. \A j \in Drains : ~(Free(outbox[r]) /\ Holds(j, r))
    BY <1>4 DEF Submit, Lapse, Free
  <2> QED BY <1>0, <1>1, <2>1, <2>2, StillCame
<1>5. ASSUME NEW d \in Forms, Attempt(d) PROVE \A j \in Drains : AllCame(j)
  <2>1. drains' = drains /\ (outbox' = outbox \/ Put(d[1], Apply(outbox[d[1]], d[2], Outcome(d))))
    BY <1>5 DEF Attempt, ClaimRow, Prompt, Settle
  <2>2. Free(outbox[d[1]]) => Apply(outbox[d[1]], d[2], Outcome(d)) = outbox[d[1]]
    BY DEF Free, Apply, Forms, Attempts
  <2>3. \A r \in Responses : Free(outbox[r]) => outbox'[r] = outbox[r]
    BY <1>0, <2>1, <2>2 DEF Put
  <2> QED BY <1>0, <1>1, <2>1, <2>3, StillCame
<1>6. ASSUME NEW i \in Drains, Drain(i) PROVE \A j \in Drains : AllCame(j)
  BY <1>0, <1>6, DrainCame
<1>7. CASE UNCHANGED <<outbox, drains>> BY <1>0, <1>7, StillCame
<1> QED
  BY <1>2, <1>3, <1>4, <1>5, <1>6, <1>7 DEF Next, AskPrompt, AdmitPrompt, TypingStep, formVars, vars

-----------------------------------------------------------------------------
(***************************************************************************)
(* What a claim takes.                                                     *)
(***************************************************************************)
LEMMA LatestNumber ==
  ASSUME TypeOK, NEW r \in Responses
  PROVE  /\ Latest(r) \in Nat /\ NextAttempt(r) \in Nat /\ Latest(r) < NextAttempt(r)
         /\ Latest(r) # 0 => Latest(r) \in Attempts /\ rows[<<r, Latest(r)>>] # "none"
         /\ \A b \in Attempts : rows[<<r, b>>] # "none" => b <= Latest(r)
<1>1. MaxAttempts \in Nat BY QueueAssumption
<1>2. outbox[r].attempts \in 0..MaxAttempts BY <1>1 DEF TypeOK, FormTypeOK, OutboxRows, Attempts
<1>3. Latest(r) \in 0..MaxAttempts /\ \A b \in Attempts : rows[<<r, b>>] # "none" => b <= Latest(r)
  BY AttemptNumbers
<1>4. Latest(r) # 0 => Latest(r) \in Attempts /\ rows[<<r, Latest(r)>>] # "none"
  <2> DEFINE S == {0} \cup {a \in Attempts : rows[<<r, a>>] # "none"}
  <2>1. S \in SUBSET (0..MaxAttempts) /\ S # {} BY <1>1 DEF Attempts
  <2>2. Latest(r) = Max(S) BY DEF Latest
  <2>3. \A a \in S : a = 0 \/ (a \in Attempts /\ rows[<<r, a>>] # "none") OBVIOUS
  <2> HIDE DEF S
  <2> QED BY <1>1, <2>1, <2>2, <2>3, MaxOfBounded
<1>5. NextAttempt(r) \in Nat /\ Latest(r) < NextAttempt(r)
  <2> DEFINE S == {outbox[r].attempts, Latest(r)}
  <2>1. S \in SUBSET (0..MaxAttempts) /\ S # {} /\ Latest(r) \in S BY <1>2, <1>3
  <2>2. NextAttempt(r) = Max(S) + 1 BY DEF NextAttempt
  <2> HIDE DEF S
  <2>3. Max(S) \in 0..MaxAttempts /\ Latest(r) <= Max(S) BY <1>1, <2>1, MaxOfBounded
  <2> QED BY <1>1, <1>3, <2>2, <2>3
<1> QED BY <1>3, <1>4, <1>5

\* The last attempt is the one that may have been seen.
LEMMA LatestDecides ==
  ASSUME TypeOK, NEW r \in Responses, LatestOf(r), NEW a \in Attempts, rows[<<r, a>>] \notin Unspent
  PROVE  Latest(r) = a
<1>1. a <= Latest(r) /\ Latest(r) \in Nat BY LatestNumber DEF Unspent
<1>2. Latest(r) # 0 BY <1>1 DEF Attempts
<1>3. Latest(r) <= a BY <1>2, LatestNumber DEF LatestOf
<1> QED BY <1>1, <1>3 DEF Attempts

\* How a claim finds the row.
LEMMA ReconciledRow ==
  ASSUME TypeOK, NEW r \in Responses
  PROVE  LET o == rows[<<r, Latest(r)>>]
         IN  \/ Reconciled(r) = outbox[r] /\ (outbox[r].status # "pending" \/ Latest(r) = 0)
             \/ /\ outbox[r].status = "pending" /\ Latest(r) # 0 /\ o = "failed"
                /\ \/ Reconciled(r) = outbox[r]
                   \/ Reconciled(r).status \in {"pending", "cancelled"} /\ Reconciled(r).held = 0
                      /\ outbox[r].held # 0 /\ ~Reconciled(r).leased
             \/ /\ outbox[r].status = "pending" /\ Latest(r) # 0 /\ o \in InFlight
                /\ Reconciled(r).status = "pending" /\ Reconciled(r).held = Latest(r)
             \/ /\ outbox[r].status = "pending" /\ Latest(r) # 0 /\ o \in {"delivered", "unknown"}
                /\ Reconciled(r).status = "delivered"
<1> DEFINE a == Latest(r)
           o == rows[<<r, Latest(r)>>]
           held == [outbox[r] EXCEPT !.held = a]
<1>1. outbox[r] \in OutboxRows BY DEF TypeOK, FormTypeOK
<1>2. a # 0 => a \in Attempts /\ o # "none" /\ o \in RowStates
  BY LatestNumber DEF TypeOK, FormTypeOK, Forms
<1>3. a # 0 => held \in OutboxRows /\ held.held = a /\ held.status = outbox[r].status
  BY <1>1, <1>2 DEF OutboxRows
<1>4. \/ (outbox[r].status # "pending" \/ a = 0) /\ Reconciled(r) = outbox[r]
      \/ outbox[r].status = "pending" /\ a # 0 /\ o # "failed" /\ Reconciled(r) = Apply(held, a, o)
      \/ outbox[r].status = "pending" /\ a # 0 /\ o = "failed" /\ Reconciled(r) = Apply(outbox[r], a, o)
  BY DEF Reconciled
<1> HIDE DEF a, o, held
<1>5. CASE outbox[r].status = "pending" /\ a # 0 /\ o # "failed" /\ Reconciled(r) = Apply(held, a, o)
  <2>1. o \in InFlight \/ o \in {"delivered", "unknown"} BY <1>2, <1>5 DEF RowStates, InFlight
  <2>2. CASE o \in InFlight
    <3>1. Reconciled(r) = held BY <1>5, <2>2 DEF Apply, Settled, InFlight
    <3> QED BY <1>3, <1>5, <2>2, <3>1 DEF a, o
  <2>3. CASE o \in {"delivered", "unknown"}
    <3>1. Reconciled(r) = [held EXCEPT !.status = "delivered", !.leased = FALSE]
      BY <1>3, <1>5, <2>3 DEF Apply, Settled
    <3>2. Reconciled(r).status = "delivered" BY <1>3, <1>5, <3>1 DEF OutboxRows
    <3> QED BY <1>5, <2>3, <3>2 DEF a, o
  <2> QED BY <2>1, <2>2, <2>3
<1>6. CASE outbox[r].status = "pending" /\ a # 0 /\ o = "failed" /\ Reconciled(r) = Apply(outbox[r], a, o)
  <2>1. CASE outbox[r].held # a
    <3>1. Reconciled(r) = outbox[r] BY <1>6, <2>1 DEF Apply
    <3> QED BY <1>6, <3>1 DEF a, o
  <2>2. CASE outbox[r].held = a
    <3>1. Reconciled(r).status \in {"pending", "cancelled"} /\ Reconciled(r).held = 0 /\ ~Reconciled(r).leased
      BY <1>1, <1>6, <2>2 DEF Apply, Settled, OutboxRows
    <3> QED BY <1>6, <2>2, <3>1 DEF a, o
  <2> QED BY <2>1, <2>2
<1> QED BY <1>4, <1>5, <1>6 DEF a, o

\* A row that is won has no attempt that may have been seen.
LEMMA WonIsFresh ==
  ASSUME TypeOK, NEW r \in Responses, LatestOf(r), Claimable(r)
  PROVE  /\ Fresh(r, NextAttempt(r)) /\ Free(Claimed(r)) /\ Claimed(r).leased
         /\ ItemOf(r).inject => r \notin ToNew
<1>1. Free(Reconciled(r)) /\ NextAttempt(r) \in Attempts BY DEF Claimable
<1>2. Reconciled(r) \in OutboxRows BY ClaimTypes
<1>3. Free(Claimed(r)) /\ Claimed(r).leased BY <1>1, <1>2 DEF Claimed, Free, OutboxRows
<1>4. ASSUME NEW b \in Attempts PROVE rows[<<r, b>>] \in Unspent
  <2> SUFFICES ASSUME rows[<<r, b>>] \notin Unspent PROVE FALSE OBVIOUS
  <2>1. Latest(r) = b BY LatestDecides
  <2>2. Latest(r) # 0 /\ rows[<<r, Latest(r)>>] # "failed" BY <2>1 DEF Attempts, Unspent
  <2> QED BY <1>1, <2>2, ReconciledRow DEF Free
<1>5. ASSUME NEW b \in Attempts, rows[<<r, b>>] # "none" PROVE b < NextAttempt(r)
  <2>1. b <= Latest(r) /\ Latest(r) < NextAttempt(r) /\ Latest(r) \in Nat /\ NextAttempt(r) \in Nat
    BY <1>5, LatestNumber
  <2> QED BY <2>1 DEF Attempts
<1>6. ItemOf(r).inject => r \notin ToNew BY DEF ItemOf
<1> QED BY <1>3, <1>4, <1>5, <1>6 DEF Fresh

\* A row that is held and whose attempt is not made yet is left alone.
LEMMA HeldIsLeft ==
  ASSUME TypeOK, NEW r \in Responses, Free(outbox[r]), outbox[r].leased, \A b \in Attempts : rows[<<r, b>>] \in Unspent
  PROVE  ~Claimable(r) /\ Claimed(r) = outbox[r]
<1>1. Latest(r) # 0 => rows[<<r, Latest(r)>>] = "failed" BY LatestNumber DEF Unspent
<1>2. Reconciled(r) = outbox[r] BY <1>1, ReconciledRow DEF Free, InFlight
<1> QED BY <1>2 DEF Claimable, Claimed

LEMMA Joined ==
  ASSUME NEW S, NEW s \in Seq(S), NEW t \in Seq(S)
  PROVE  /\ s \o t \in Seq(S) /\ Len(s \o t) = Len(s) + Len(t) /\ Len(t) \in Nat
         /\ \A n \in 1..Len(s) : (s \o t)[n] = s[n]
         /\ \A n \in 1..Len(t) : (s \o t)[Len(s) + n] = t[n]
OBVIOUS

LEMMA SameHolder ==
  ASSUME OneHolder, NEW i \in Drains, NEW j \in Drains,
         NEW m \in 1..Len(drains[i].items), NEW n \in 1..Len(drains[j].items),
         drains[i].items[m].of = drains[j].items[n].of
  PROVE  i = j /\ m = n
BY DEF OneHolder

LEMMA ClaimHolds ==
  ASSUME SlowSteps = {}, IInv, DrainInv, NEW i \in Drains, drains[i].at \in {"idle", "claim"},
         NEW scope \in SUBSET Responses, NEW rest \in Seq(Items), rest = <<>> \/ rest = drains[i].items,
         Claim(i, scope, rest)
  PROVE  ItemsAreHeld' /\ OneHolder'
<1>0. TypeOK BY DEF IInv
<1> DEFINE won == {r \in scope : Claimable(r)}
<1>1. PICK order \in SetToSeqs(won) : Begin(i, [n \in DOMAIN order |-> ItemOf(order[n])] \o rest)
  BY DEF Claim
<1>2. won \in SUBSET Responses /\ \A r \in won : Claimable(r) /\ r \in scope OBVIOUS
<1> HIDE DEF won
<1> DEFINE batch == [n \in DOMAIN order |-> ItemOf(order[n])]
           items == batch \o rest
<1>3. /\ order \in Seq(won) /\ \A m, n \in 1..Len(order) : order[m] = order[n] => m = n
      /\ batch \in Seq(Items) /\ Len(batch) = Len(order) /\ Len(order) \in Nat
      /\ \A n \in 1..Len(order) : order[n] \in won /\ batch[n] = ItemOf(order[n])
  BY <1>0, <1>2, BatchTypes, LenProperties, ElementOfSeq
<1> HIDE DEF batch
<1>4. /\ items \in Seq(Items) /\ Len(items) = Len(order) + Len(rest) /\ Len(rest) \in Nat
      /\ \A n \in 1..Len(order) : items[n] = ItemOf(order[n])
      /\ \A n \in 1..Len(rest) : items[Len(order) + n] = rest[n]
  <2>1. 1..Len(batch) = 1..Len(order) BY <1>3
  <2>2. rest \in Seq(Items) /\ batch \in Seq(Items) BY <1>3
  <2>3. /\ items \in Seq(Items) /\ Len(items) = Len(batch) + Len(rest) /\ Len(rest) \in Nat
        /\ \A n \in 1..Len(batch) : items[n] = batch[n]
        /\ \A n \in 1..Len(rest) : items[Len(batch) + n] = rest[n]
    BY <2>2, Joined
  <2> HIDE DEF items
  <2> QED BY <1>3, <2>1, <2>3
<1>5. /\ drains' = [drains EXCEPT ![i] = [at |-> IF items = <<>> THEN "idle" ELSE "next", items |-> items]]
      /\ rows' = rows
      /\ outbox' = [r \in Responses |-> IF r \in scope THEN Claimed(r) ELSE outbox[r]]
      /\ \A j \in Drains : drains[j].at \in {"record", "release"} => Of(j) \notin scope
  BY <1>1 DEF Claim, Begin, batch
<1> HIDE DEF items
<1>6. /\ drains'[i].items = items /\ drains'[i].at \notin {"record", "release"}
      /\ \A j \in Drains : j # i => drains'[j] = drains[j]
      /\ \A j \in Drains : drains[j].items \in Seq(Items)
  BY <1>0, <1>5 DEF TypeOK, FormTypeOK
\* What was held is neither won nor written.
<1>7. ASSUME NEW j \in Drains, NEW m \in 1..Len(drains[j].items)
      PROVE  /\ drains[j].items[m].of \in Responses /\ drains[j].items[m].of \notin won
             /\ outbox'[drains[j].items[m].of] = outbox[drains[j].items[m].of]
  <2> DEFINE r == drains[j].items[m].of
             x == drains[j].items[m]
  <2>1. r \in Responses BY <1>0, ItemNumbers
  <2>2. Held(x, Ending(j, m)) BY DEF DrainInv, ItemsAreHeld, ItemIsHeld
  <2>3. CASE Ending(j, m)
    <3>1. drains[j].items # <<>> /\ m = 1 BY <2>3, QueueAssumption DEF Ending, IInv, HasItem
    <3>2. Of(j) = r BY <1>0, <3>1, ItemTypes DEF Of
    <3>3. r \notin scope BY <1>5, <2>3, <3>2 DEF Ending
    <3> QED BY <1>2, <1>5, <2>1, <3>3
  <2>4. CASE ~Ending(j, m)
    <3>1. Free(outbox[r]) /\ outbox[r].leased /\ \A b \in Attempts : rows[<<r, b>>] \in Unspent
      BY <2>2, <2>4 DEF Held, Fresh
    <3> HIDE DEF r
    <3>2. ~Claimable(r) /\ Claimed(r) = outbox[r] BY <1>0, <2>1, <3>1, HeldIsLeft
    <3>3. outbox'[r] = outbox[r] /\ r \notin won BY <1>2, <1>5, <2>1, <3>2
    <3> QED BY <2>1, <3>3 DEF r
  <2> QED BY <2>3, <2>4
\* An item is won now, or was held before.
<1> DEFINE New(j, n) == j = i /\ n \in 1..Len(order) /\ drains'[j].items[n] = ItemOf(order[n])
           Was(j, n, m) == /\ m \in 1..Len(drains[j].items) /\ drains'[j].items[n] = drains[j].items[m]
                           /\ m = IF j = i THEN n - Len(order) ELSE n
                           /\ Ending(j, n)' <=> Ending(j, m)
<1>8. ASSUME NEW j \in Drains, NEW n \in 1..Len(drains'[j].items)
      PROVE  New(j, n) \/ \E m \in Nat : Was(j, n, m)
  <2>1. CASE j # i BY <1>6, <2>1 DEF Ending
  <2>2. CASE j = i /\ n \in 1..Len(order) BY <1>4, <1>6, <2>2
  <2>3. CASE j = i /\ n \notin 1..Len(order)
    <3>1. n - Len(order) \in 1..Len(rest) /\ n - Len(order) \in Nat BY <1>3, <1>4, <1>6, <2>3
    <3>2. items[n] = rest[n - Len(order)]
      <4>1. Len(order) + (n - Len(order)) = n BY <1>3
      <4> QED BY <1>4, <3>1, <4>1
    <3>3. rest = drains[i].items
      <4>1. Len(<<>>) = 0 OBVIOUS
      <4> QED BY <3>1, <4>1
    <3>4. ~Ending(j, n)' /\ ~Ending(j, n - Len(order)) BY <1>6, <2>3 DEF Ending
    <3> QED BY <1>6, <2>3, <3>1, <3>2, <3>3, <3>4
  <2> QED BY <2>1, <2>2, <2>3
<1>9. ASSUME NEW n \in 1..Len(order)
      PROVE  /\ ItemOf(order[n]).of = order[n] /\ ItemOf(order[n]).attempt = NextAttempt(order[n])
             /\ order[n] \in won /\ order[n] \in Responses
  BY <1>2, <1>3 DEF ItemOf
<1>10. ASSUME NEW j \in Drains, NEW n \in 1..Len(drains'[j].items)
       PROVE  ItemIsHeld(j, n)'
  <2>1. CASE New(j, n)
    <3> DEFINE r == order[n]
    <3>1. /\ r \in won /\ r \in Responses /\ drains'[j].items[n] = ItemOf(r) /\ ~Ending(j, n)'
          /\ ItemOf(r).of = r /\ ItemOf(r).attempt = NextAttempt(r)
      BY <1>6, <1>9, <2>1 DEF Ending
    <3> HIDE DEF r
    <3>2. /\ Fresh(r, NextAttempt(r)) /\ Free(Claimed(r)) /\ Claimed(r).leased
          /\ ItemOf(r).inject => r \notin ToNew
      BY <1>0, <1>2, <3>1, WonIsFresh DEF DrainInv, LatestCounts
    <3>3. outbox'[r] = Claimed(r) BY <1>2, <1>5, <3>1
    <3>4. rows' = rows BY <1>5
    <3>5. \A b \in Attempts : rows'[<<r, b>>] \in Unspent /\ (rows'[<<r, b>>] # "none" => b < NextAttempt(r))
      BY <3>2, <3>4 DEF Fresh
    <3> QED BY <3>1, <3>2, <3>3, <3>5 DEF ItemIsHeld, Held, Free, Fresh
  <2>2. ASSUME NEW m \in Nat, Was(j, n, m) PROVE ItemIsHeld(j, n)'
    <3>1. Held(drains[j].items[m], Ending(j, m)) BY <2>2 DEF DrainInv, ItemsAreHeld, ItemIsHeld
    <3>2. outbox'[drains[j].items[m].of] = outbox[drains[j].items[m].of] BY <1>7, <2>2
    <3>3. drains'[j].items[n] = drains[j].items[m] /\ (Ending(j, n)' <=> Ending(j, m)) BY <2>2
    <3> QED BY <1>5, <3>1, <3>2, <3>3 DEF ItemIsHeld, Held, Free, Fresh, QuietBut
  <2> QED BY <1>8, <2>1, <2>2
<1>11. ItemsAreHeld'
  <2> HIDE DEF New, Was
  <2> QED BY <1>10 DEF ItemsAreHeld
<1>12. ASSUME NEW j \in Drains, NEW k \in Drains, NEW m \in 1..Len(drains'[j].items), NEW n \in 1..Len(drains'[k].items),
              drains'[j].items[m].of = drains'[k].items[n].of
       PROVE  j = k /\ m = n
  <2>1. CASE New(j, m) /\ New(k, n)
    <3>1. order[m] = order[n] BY <1>9, <1>12, <2>1
    <3> QED BY <1>3, <2>1, <3>1
  <2>2. ASSUME NEW a \in Drains, NEW x \in Nat, NEW b \in Drains, NEW y \in Nat, NEW z \in Nat,
               New(a, x), Was(b, y, z), drains'[a].items[x].of = drains'[b].items[y].of
        PROVE  FALSE
    <3>1. order[x] \in won /\ drains[b].items[z].of = order[x] BY <1>9, <2>2
    <3> QED BY <1>7, <2>2, <3>1
  <2>3. ASSUME NEW x \in Nat, NEW y \in Nat, Was(j, m, x), Was(k, n, y) PROVE j = k /\ m = n
    <3>1. drains[j].items[x].of = drains[k].items[y].of BY <1>12, <2>3
    <3>2. x \in 1..Len(drains[j].items) /\ y \in 1..Len(drains[k].items) BY <2>3
    <3>0. j = k /\ x = y
      <4>1. OneHolder BY DEF DrainInv
      <4> HIDE DEF Was, New
      <4> QED BY <3>1, <3>2, <4>1, SameHolder
    <3>3. m \in Int /\ n \in Int /\ Len(order) \in Nat BY <1>3
    <3> QED BY <2>3, <3>0, <3>3
  <2> HIDE DEF New, Was
  <2>4. New(j, m) \/ \E x \in Nat : Was(j, m, x) BY <1>8, <1>12
  <2>5. New(k, n) \/ \E y \in Nat : Was(k, n, y) BY <1>8, <1>12
  <2>6. m \in Nat /\ n \in Nat OBVIOUS
  <2>7. ~(New(j, m) /\ \E y \in Nat : Was(k, n, y)) BY <1>12, <2>2, <2>6
  <2>8. ~(New(k, n) /\ \E x \in Nat : Was(j, m, x)) BY <1>12, <2>2, <2>6
  <2> QED BY <2>1, <2>3, <2>4, <2>5, <2>7, <2>8
<1>13. OneHolder'
  <2> HIDE DEF New, Was
  <2> QED BY <1>12 DEF OneHolder
<1> QED BY <1>11, <1>13

-----------------------------------------------------------------------------
(***************************************************************************)
(* Every step keeps each answer with one drain.                            *)
(***************************************************************************)
Claims == \E i \in Drains : StartDrain(i) \/ DrainAgain(i)

LEMMA ClaimsHold ==
  ASSUME SlowSteps = {}, OnceInv, DrainInv, Claims
  PROVE  ItemsAreHeld' /\ OneHolder'
<1>0. IInv BY DEF OnceInv
<1>1. PICK i \in Drains : StartDrain(i) \/ DrainAgain(i) BY DEF Claims
<1>2. drains[i].items \in Seq(Items) /\ <<>> \in Seq(Items) BY <1>0 DEF IInv, TypeOK, FormTypeOK
<1>3. CASE StartDrain(i)
  <2>1. PICK scope \in {Responses} \cup {{r} : r \in Responses} : Claim(i, scope, <<>>)
    BY <1>3 DEF StartDrain
  <2>2. scope \in SUBSET Responses /\ drains[i].at = "idle" BY <1>3 DEF StartDrain
  <2> QED BY <1>0, <1>2, <2>1, <2>2, ClaimHolds
<1>4. CASE DrainAgain(i)
  <2>1. Claim(i, Responses, drains[i].items) /\ drains[i].at = "claim" BY <1>4 DEF DrainAgain
  <2> QED BY <1>0, <1>2, <2>1, ClaimHolds
<1> QED BY <1>1, <1>3, <1>4

\* What is held before and after.
LEMMA HeldNow ==
  ASSUME NEW j, NEW n, NEW x, drains'[j].items[n] = x, outbox'[x.of] = outbox[x.of],
         NEW over, Held(x, over),
         IF Ending(j, n)' THEN \A b \in Attempts : b # x.attempt => rows'[<<x.of, b>>] \in Unspent
         ELSE \A b \in Attempts : rows'[<<x.of, b>>] \in Unspent /\ (rows'[<<x.of, b>>] # "none" => b < x.attempt)
  PROVE  ItemIsHeld(j, n)'
<1>1. Free(outbox[x.of])' /\ outbox'[x.of].leased /\ (x.inject => x.of \notin ToNew) BY DEF Held, Free
<1>2. IF Ending(j, n)' THEN QuietBut(x.of, x.attempt)' ELSE Fresh(x.of, x.attempt)'
  BY DEF QuietBut, Fresh
<1> QED BY <1>1, <1>2 DEF ItemIsHeld, Held, Free, Fresh, QuietBut

LEMMA HoldStep ==
  ASSUME SlowSteps = {}, OnceInv, DrainInv, [Next]_vars
  PROVE  ItemsAreHeld' /\ OneHolder'
<1>0. IInv /\ OneHolder /\ ItemsAreHeld BY DEF OnceInv, DrainInv
<1>1. CASE Claims BY <1>1, ClaimsHold
<1>2. CASE ~Claims
  <2>1. \A j \in Drains : AllCame(j) BY <1>2, ItemsCame DEF Claims
  <2>2. ASSUME NEW j \in Drains, NEW n \in 1..Len(drains'[j].items), NEW m \in 1..Len(drains[j].items), Came(j, n, m)
        PROVE  ItemIsHeld(j, n)'
    <3> DEFINE x == drains[j].items[m]
               r == drains[j].items[m].of
               a == drains[j].items[m].attempt
    <3>1. r \in Responses /\ a \in Attempts BY <1>0, ItemNumbers DEF IInv
    <3>2. Held(x, Ending(j, m)) BY <1>0 DEF ItemsAreHeld, ItemIsHeld
    <3>3. drains'[j].items[n] = x /\ outbox'[r] = outbox[r] BY <2>2 DEF Came
    <3>4. CASE \E i \in Drains : Begins(i, r)
      <4>1. PICK i \in Drains : Begins(i, r) BY <3>4
      <4>2. 1 \in 1..Len(drains[i].items) /\ drains[i].items[1].of = r /\ Reserve(i)
        BY <4>1 DEF Begins, Ahead
      <4>3. i = j /\ m = 1 BY <1>0, <4>2, SameHolder
      <4>4. \A b \in Attempts : b # a => rows'[<<r, b>>] \in Unspent
        BY <3>1, <4>1, <4>3, BegunRows
      <4>5. Ending(j, n)' BY <2>2, <4>2, <4>3 DEF Came
      <4> QED BY <3>2, <3>3, <4>4, <4>5, HeldNow
    <3>5. CASE \A b \in Attempts : Keeps(<<r, b>>)
      <4> HIDE DEF r, a
      <4>1. /\ QuietBut(r, a) => \A b \in Attempts : b # a => rows'[<<r, b>>] \in Unspent
            /\ Fresh(r, a) => \A b \in Attempts :
                 rows'[<<r, b>>] \in Unspent /\ (rows'[<<r, b>>] # "none" => b < a)
        BY <3>1, <3>5, AnswerKeeps
      <4>2. Fresh(r, a) => QuietBut(r, a) BY DEF Fresh, QuietBut
      <4>3. (Ending(j, m) => QuietBut(r, a)) /\ (~Ending(j, m) => Fresh(r, a))
        BY <3>2 DEF Held, r, a
      <4>4. Ending(j, n)' \/ (Ending(j, n)' <=> Ending(j, m)) BY <2>2 DEF Came
      <4>5. IF Ending(j, n)' THEN \A b \in Attempts : b # a => rows'[<<r, b>>] \in Unspent
            ELSE \A b \in Attempts : rows'[<<r, b>>] \in Unspent /\ (rows'[<<r, b>>] # "none" => b < a)
        BY <4>1, <4>2, <4>3, <4>4
      <4> QED BY <3>2, <3>3, <4>5, HeldNow DEF r, a
    <3> QED BY <3>1, <3>4, <3>5, AnswerMoves
  <2>3. ItemsAreHeld'
    <3> SUFFICES ASSUME NEW j \in Drains, NEW n \in 1..Len(drains'[j].items)
                 PROVE  ItemIsHeld(j, n)'
      BY DEF ItemsAreHeld
    <3>1. PICK k \in {0, 1} : Came(j, n, n + k) BY <2>1 DEF AllCame
    <3>2. n + k \in 1..Len(drains[j].items) BY <3>1 DEF Came
    <3> QED BY <2>2, <3>1, <3>2
  <2>4. ASSUME NEW i \in Drains, NEW j \in Drains, NEW m \in 1..Len(drains'[i].items), NEW n \in 1..Len(drains'[j].items),
               drains'[i].items[m].of = drains'[j].items[n].of
        PROVE  i = j /\ m = n
    <3>1. PICK k \in {0, 1} : \A x \in 1..Len(drains'[i].items) : Came(i, x, x + k) BY <2>1 DEF AllCame
    <3>2. PICK l \in {0, 1} : \A x \in 1..Len(drains'[j].items) : Came(j, x, x + l) BY <2>1 DEF AllCame
    <3>3. /\ m + k \in 1..Len(drains[i].items) /\ drains'[i].items[m] = drains[i].items[m + k]
          /\ n + l \in 1..Len(drains[j].items) /\ drains'[j].items[n] = drains[j].items[n + l]
      BY <3>1, <3>2 DEF Came
    <3>4. i = j BY <1>0, <2>4, <3>3, SameHolder
    <3>5. n + k \in 1..Len(drains[i].items) /\ drains'[i].items[n] = drains[i].items[n + k]
      BY <3>1, <3>4 DEF Came
    <3>6. m + k = n + k BY <1>0, <2>4, <3>3, <3>4, <3>5, SameHolder
    <3> QED BY <3>4, <3>6
  <2>5. OneHolder' BY <2>4 DEF OneHolder
  <2> QED BY <2>3, <2>5
<1> QED BY <1>1, <1>2

LEMMA LatestStep ==
  ASSUME OnceInv, DrainInv, [Next]_vars
  PROVE  LatestCounts'
<1> SUFFICES ASSUME NEW r \in Responses PROVE LatestOf(r)' BY DEF LatestCounts
<1>1. LatestOf(r) BY DEF DrainInv, LatestCounts
<1> QED BY <1>1, AnswerMoves, AnswerKeeps, BegunRows

-----------------------------------------------------------------------------
(***************************************************************************)
(* New sessions, and the ends of the answers.                              *)
(***************************************************************************)
\* Who is told to have a new session, and by whom.
StartedMoves(r) ==
  \/ started'[r] = started[r]
  \/ Crash /\ started'[r] = "failed" /\ started[r] # "none"
  \/ started'[r] = "none" /\ started[r] = "failed"
  \/ r \in ToNew /\ started'[r] = "starting" /\ started[r] = "none"
  \/ \E i \in Drains : SpawnEnds(i) /\ Of(i) = r /\ r \in ToNew

LEMMA AtWork ==
  ASSUME IInv, NEW i \in Drains, drains[i].at \notin {"idle", "claim"}
  PROVE  /\ drains[i].items # <<>> /\ 1 \in 1..Len(drains[i].items)
         /\ Of(i) = drains[i].items[1].of /\ Of(i) \in Responses
         /\ Item(i) = drains[i].items[1] /\ Item(i).attempt \in Attempts
<1>1. drains[i].items # <<>> /\ drains[i].items \in Seq(Items) BY DEF IInv, HasItem, TypeOK, FormTypeOK
<1>2. 1 \in 1..Len(drains[i].items) BY <1>1, TailFacts
<1> QED BY <1>1, <1>2, ItemTypes DEF IInv, Of

LEMMA StartedStep ==
  ASSUME IInv, DrainInv, [Next]_vars, NEW r \in Responses
  PROVE  StartedMoves(r)
<1>0. started \in [Responses -> {"none", "starting", "running", "failed"}] /\ \A i \in Drains : Lane(i)
  BY DEF IInv, TypeOK, FormTypeOK, DrainInv, SpawnsAreNew
<1>1. CASE started' = started BY <1>1 DEF StartedMoves
<1>2. CASE Crash BY <1>0, <1>2 DEF Crash, StartedMoves
<1>3. ASSUME NEW i \in Drains, FailItem(i) PROVE StartedMoves(r)
  <2>1. Of(i) \in Responses BY <1>3, AtWork DEF FailItem
  <2> QED BY <1>0, <1>3, <2>1 DEF FailItem, StartedMoves
<1>4. ASSUME NEW i \in Drains, RouteToNew(i) PROVE StartedMoves(r)
  <2>1. Of(i) \in ToNew BY <1>4 DEF RouteToNew
  <2> QED BY <1>0, <1>4, <2>1 DEF RouteToNew, StartedMoves
<1>5. ASSUME NEW i \in Drains, SpawnEnds(i) PROVE StartedMoves(r)
  <2>1. Of(i) \in ToNew BY <1>0, <1>5 DEF SpawnEnds, Lane
  <2> QED BY <1>0, <1>5, <2>1 DEF SpawnEnds, StartedMoves
<1>6. Session \/ Resume \/ End => started' = started
  BY DEF Session, Launch, LaunchDone, LaunchFails, Resume, ResumeSpawns, ResumeRuns, ResumeDone, ResumeFails, End, RecordEnd, formVars
<1>7. \A i \in Drains : Drain(i) /\ ~FailItem(i) /\ ~RouteToNew(i) /\ ~SpawnEnds(i) => started' = started
  BY DEF Drain, StartDrain, DrainAgain, Claim, Reserve, Record, Release, RouteToSession, HandBack, Defer, SettleSpawned
<1>8. /\ \A x \in Responses : Submit(x) \/ Lapse(x) => started' = started
      /\ \A d \in Forms : Attempt(d) => started' = started
      /\ \A u \in Users : AskPrompt(u) \/ AdmitPrompt(u) => started' = started
      /\ \A d \in Deliveries : TypingStep(d) => started' = started
      /\ UNCHANGED vars => started' = started
  BY DEF Submit, Lapse, Attempt, ClaimRow, Prompt, Settle, AskPrompt, AdmitPrompt, TypingStep, formVars, vars
<1> QED BY <1>1, <1>2, <1>3, <1>4, <1>5, <1>6, <1>7, <1>8 DEF Next

\* A drain that is where it was, or where nothing is said of it.
LEMMA LaneStays ==
  ASSUME IInv, DrainInv, [Next]_vars, NEW i \in Drains,
         drains'[i] = drains[i] \/ drains'[i].at \notin {"resuming", "spawning", "settle", "fail", "cancel"}
  PROVE  Lane(i)'
<1>1. CASE drains'[i].at \notin {"resuming", "spawning", "settle", "fail", "cancel"} BY <1>1 DEF Lane
<1>2. CASE drains'[i] = drains[i] /\ drains[i].at \in {"resuming", "spawning", "settle", "fail", "cancel"}
  <2>1. Lane(i) BY DEF DrainInv, SpawnsAreNew
  <2>2. Of(i)' = Of(i) BY <1>2 DEF Of, Item
  <2>3. Of(i) \in Responses /\ 1 \in 1..Len(drains[i].items) /\ Of(i) = drains[i].items[1].of BY <1>2, AtWork
  <2>4. ASSUME drains[i].at \in {"fail", "cancel"} PROVE started'[Of(i)] # "running"
    <3>1. started[Of(i)] # "running" BY <2>1, <2>4 DEF Lane
    <3>2. ASSUME NEW j \in Drains, SpawnEnds(j), Of(j) = Of(i) PROVE FALSE
      <4>1. drains[j].at = "spawning" BY <3>2 DEF SpawnEnds
      <4>2. 1 \in 1..Len(drains[j].items) /\ Of(j) = drains[j].items[1].of BY <4>1, AtWork
      <4>3. i = j BY <2>3, <3>2, <4>2, SameHolder DEF DrainInv
      <4> QED BY <2>4, <4>1, <4>3
    <3>3. StartedMoves(Of(i)) BY <2>3, StartedStep
    <3> QED BY <3>1, <3>2, <3>3 DEF StartedMoves
  <2>5. ASSUME drains[i].at = "settle" PROVE started'[Of(i)] = "running"
    <3>1. started[Of(i)] = "running" BY <2>1, <2>5 DEF Lane
    <3>2. ASSUME NEW j \in Drains, SpawnEnds(j), Of(j) = Of(i) PROVE FALSE
      <4>1. drains[j].at = "spawning" BY <3>2 DEF SpawnEnds
      <4>2. 1 \in 1..Len(drains[j].items) /\ Of(j) = drains[j].items[1].of BY <4>1, AtWork
      <4>3. i = j BY <2>3, <3>2, <4>2, SameHolder DEF DrainInv
      <4> QED BY <2>5, <4>1, <4>3
    <3>3. StartedMoves(Of(i)) BY <2>3, StartedStep
    <3>4. ~Crash BY <1>2, <2>5 DEF Crash
    <3> QED BY <3>1, <3>2, <3>3, <3>4 DEF StartedMoves
  <2> QED BY <1>2, <2>1, <2>2, <2>4, <2>5 DEF Lane
<1> QED BY <1>1, <1>2

\* A drain that takes its next step with the same item.
LEMMA LaneMoves ==
  ASSUME IInv, DrainInv, [Next]_vars, NEW i \in Drains, NEW s, Step(i, s),
         s = "resuming" => Of(i) \notin ToNew, s \in {"spawning", "settle"} => Of(i) \in ToNew,
         s \in {"fail", "cancel"} => started'[Of(i)] # "running",
         s = "settle" => started'[Of(i)] = "running"
  PROVE  \A j \in Drains : Lane(j)'
<1>1. /\ drains'[i].at = s /\ drains'[i].items = drains[i].items
      /\ \A j \in Drains : j # i => drains'[j] = drains[j]
  BY DEF Step, IInv, TypeOK, FormTypeOK
<1>2. Of(i)' = Of(i) BY <1>1 DEF Of, Item
<1>3. Lane(i)' BY <1>1, <1>2 DEF Lane
<1> QED BY <1>1, <1>3, LaneStays

LEMMA LaneStep ==
  ASSUME IInv, DrainInv, [Next]_vars
  PROVE  \A j \in Drains : Lane(j)'
<1>0. /\ started \in [Responses -> {"none", "starting", "running", "failed"}]
      /\ drains \in [Drains -> DrainStates] /\ \A i \in Drains : Lane(i)
      /\ \A r \in Responses : r \notin ToNew => started[r] = "none"
  BY DEF IInv, TypeOK, FormTypeOK, DrainInv, SpawnsAreNew, DrainStates
<1>1. CASE drains' = drains BY <1>1, LaneStays
<1>2. CASE Crash BY <1>2, LaneStays DEF Crash
<1>3. ASSUME NEW s \in {"again", "fail", "cancel"}, AfterResume(s), started' = started PROVE \A j \in Drains : Lane(j)'
  <2> SUFFICES ASSUME NEW j \in Drains PROVE Lane(j)' OBVIOUS
  <2>1. CASE drains[j].at # "resuming"
    <3>1. drains'[j] = drains[j] BY <1>3, <2>1 DEF AfterResume, Resuming
    <3> QED BY <3>1, LaneStays
  <2>2. CASE drains[j].at = "resuming"
    <3>1. drains'[j].at = s /\ drains'[j].items = drains[j].items
      BY <1>0, <1>3, <2>2 DEF AfterResume, Resuming, DrainStates
    <3>2. Of(j)' = Of(j) BY <3>1 DEF Of, Item
    <3>3. started[Of(j)] = "none" BY <1>0, <2>2, AtWork DEF Lane
    <3> QED BY <1>3, <3>1, <3>2, <3>3 DEF Lane
  <2> QED BY <2>1, <2>2
<1>4. ASSUME NEW i \in Drains, Drain(i) PROVE \A j \in Drains : Lane(j)'
  <2>1. ASSUME NEW s \in Steps \ {"resuming", "spawning", "settle", "fail", "cancel"}, NEW items,
               drains' = [drains EXCEPT ![i] = [at |-> s, items |-> items]]
        PROVE  \A j \in Drains : Lane(j)'
    <3>1. drains'[i].at = s /\ \A j \in Drains : j # i => drains'[j] = drains[j] BY <1>0, <2>1
    <3> QED BY <2>1, <3>1, LaneStays
  <2>2. ASSUME NEW items, Begin(i, items) PROVE \A j \in Drains : Lane(j)'
    <3> DEFINE s == IF items = <<>> THEN "idle" ELSE "next"
    <3>1. drains' = [drains EXCEPT ![i] = [at |-> s, items |-> items]] BY <2>2 DEF Begin
    <3>2. s \in Steps \ {"resuming", "spawning", "settle", "fail", "cancel"} BY DEF Steps
    <3> HIDE DEF s
    <3> QED BY <2>1, <3>1, <3>2
  <2>3. CASE StartDrain(i) \/ DrainAgain(i)
    <3>1. \E items : Begin(i, items) BY <2>3 DEF StartDrain, DrainAgain, Claim
    <3> QED BY <2>2, <3>1
  <2>4. CASE Release(i) \/ Defer(i) \/ FailItem(i) \/ SettleSpawned(i)
    <3>1. Begin(i, Tail(drains[i].items)) BY <2>4 DEF Release, Defer, FailItem, SettleSpawned, Advance
    <3> QED BY <2>2, <3>1
  <2>5. CASE HandBack(i)
    <3>1. drains' = [drains EXCEPT ![i] = [at |-> "claim", items |-> Tail(drains[i].items)]]
      BY <2>5 DEF HandBack
    <3> QED BY <2>1, <3>1 DEF Steps
  <2>6. CASE Reserve(i) \/ Record(i)
    <3>1. Step(i, "record") \/ Step(i, "release") \/ Begin(i, Tail(drains[i].items))
      BY <2>6 DEF Reserve, Record, Advance
    <3> QED BY <2>2, <3>1, LaneMoves
  <2>7. CASE RouteToSession(i)
    <3>1. Of(i) \notin ToNew /\ (Step(i, "again") \/ Step(i, "defer") \/ Step(i, "resuming"))
      BY <2>7 DEF RouteToSession
    <3> QED BY <3>1, LaneMoves
  <2>8. CASE RouteToNew(i)
    <3>1. Of(i) \in Responses BY <2>8, AtWork DEF RouteToNew
    <3>2. \/ Begin(i, Tail(drains[i].items))
          \/ /\ Of(i) \in ToNew
             /\ \/ Step(i, "spawning") \/ Step(i, "defer")
                \/ Step(i, "settle") /\ started[Of(i)] = "running"
                \/ Step(i, "fail") /\ started[Of(i)] = "failed"
             /\ started' = [started EXCEPT ![Of(i)] = IF @ = "none" THEN "starting" ELSE @]
      BY <2>8 DEF RouteToNew, Advance
    <3>3. started' = [started EXCEPT ![Of(i)] = IF @ = "none" THEN "starting" ELSE @] /\ started[Of(i)] = "failed"
            => started'[Of(i)] # "running"
      BY <1>0, <3>1
    <3>4. started' = [started EXCEPT ![Of(i)] = IF @ = "none" THEN "starting" ELSE @] /\ started[Of(i)] = "running"
            => started'[Of(i)] = "running"
      BY <1>0, <3>1
    <3> QED BY <2>2, <3>2, <3>3, <3>4, LaneMoves
  <2>9. CASE SpawnEnds(i)
    <3>1. Of(i) \in Responses /\ Of(i) \in ToNew BY <1>0, <2>9, AtWork DEF SpawnEnds, Lane
    <3>2. \/ Step(i, "settle") /\ started'[Of(i)] = "running"
          \/ (Step(i, "fail") \/ Step(i, "cancel")) /\ started'[Of(i)] = "failed"
      BY <1>0, <2>9, <3>1 DEF SpawnEnds
    <3> QED BY <3>1, <3>2, LaneMoves
  <2> QED BY <1>4, <2>3, <2>4, <2>5, <2>6, <2>7, <2>8, <2>9 DEF Drain
<1>5. CASE Session \/ Resume \/ End
  <2>1. started' = started /\ (drains' = drains \/ \E s \in {"again", "fail", "cancel"} : AfterResume(s))
    BY <1>5 DEF Session, Launch, LaunchDone, LaunchFails, Resume, ResumeSpawns, ResumeRuns, ResumeDone, ResumeFails,
       End, RecordEnd, formVars
  <2> QED BY <1>1, <1>3, <2>1
<1>6. /\ \A r \in Responses : Submit(r) \/ Lapse(r) => drains' = drains
      /\ \A d \in Forms : Attempt(d) => drains' = drains
      /\ \A u \in Users : AskPrompt(u) \/ AdmitPrompt(u) => drains' = drains
      /\ \A d \in Deliveries : TypingStep(d) => drains' = drains
      /\ UNCHANGED vars => drains' = drains
  BY DEF Submit, Lapse, Attempt, ClaimRow, Prompt, Settle, AskPrompt, AdmitPrompt, TypingStep, formVars, vars
<1> QED BY <1>1, <1>2, <1>4, <1>5, <1>6 DEF Next

LEMMA NewStep ==
  ASSUME OnceInv, DrainInv, [Next]_vars
  PROVE  SpawnsAreNew'
<1>0. IInv /\ SpawnsAreNew BY DEF OnceInv, DrainInv
<1>1. ASSUME NEW r \in Responses, r \notin ToNew PROVE started'[r] = "none"
  <2>1. started[r] = "none" BY <1>0, <1>1 DEF SpawnsAreNew
  <2> QED BY <1>0, <1>1, <2>1, StartedStep DEF StartedMoves
<1>2. ASSUME NEW d \in Forms, d[1] \in ToNew PROVE rows'[d] = "none"
  <2>1. d[1] \in Responses /\ d[2] \in Attempts /\ d = <<d[1], d[2]>> BY DEF Forms
  <2>2. rows[d] = "none" BY <1>0, <1>2 DEF SpawnsAreNew
  <2>3. Keeps(<<d[1], d[2]>>) BY <1>2, <2>1, AnswerMoves DEF Begins
  <2> QED BY <2>1, <2>2, <2>3 DEF Keeps, Unspent
<1>3. \A i \in Drains : Lane(i)' BY <1>0, LaneStep
<1> QED BY <1>1, <1>2, <1>3 DEF SpawnsAreNew

\* An answer whose row has not ended now.
LEMMA EndedStays ==
  ASSUME OnceInv, DrainInv, [Next]_vars, NEW r \in Responses,
         outbox'[r].status \in {outbox[r].status, "pending", "spawned"}
  PROVE  Ended(r)'
<1>0. IInv /\ Ended(r) BY DEF OnceInv, DrainInv
<1>1. CASE outbox[r].status = outbox'[r].status /\ outbox[r].status \in {"delivered", "cancelled"}
  <2>1. \A i \in Drains : \A n \in 1..Len(drains[i].items) : drains[i].items[n].of # r
    BY <1>1 DEF DrainInv, ItemsAreHeld, ItemIsHeld, Held, Free
  <2>2. \A a \in Attempts : Keeps(<<r, a>>) BY <2>1, AnswerMoves DEF Begins, Ahead
  <2>3. ~\E i \in Drains : SpawnEnds(i) /\ Of(i) = r
    <3>1. \A i \in Drains : SpawnEnds(i) => drains[i].at \notin {"idle", "claim"} BY DEF SpawnEnds
    <3> QED BY <1>0, <2>1, <3>1, AtWork
  <2>4. started[r] # "running" => started'[r] # "running"
    BY <1>0, <2>3, StartedStep DEF StartedMoves
  <2>5. \A a \in Attempts : rows[<<r, a>>] \in {"delivered", "unknown"} \cup Unspent => rows'[<<r, a>>] = rows[<<r, a>>]
    BY <2>2 DEF Keeps, Settled
  <2> QED BY <1>0, <1>1, <2>4, <2>5 DEF Ended
<1>2. CASE outbox'[r].status \in {"pending", "spawned"} BY <1>2 DEF Ended
<1>3. CASE outbox[r].status = outbox'[r].status /\ outbox[r].status \notin {"delivered", "cancelled"}
  BY <1>3 DEF Ended
<1> QED BY <1>1, <1>2, <1>3

\* What form_delivery_apply makes of a row.
LEMMA Applies ==
  ASSUME NEW row \in OutboxRows, NEW a, NEW o
  PROVE  \/ Apply(row, a, o).status \in {row.status, "pending"}
         \/ Apply(row, a, o).status = "delivered" /\ o \in {"delivered", "unknown"}
         \/ Apply(row, a, o).status = "cancelled" /\ o = "failed" /\ row.status = "pending" /\ row.held = a
BY DEF OutboxRows, Apply, Settled

\* An answer that ends now, by one of its attempts or without any.
LEMMA EndsByAttempt ==
  ASSUME SpawnsAreNew, NEW r \in Responses, NEW a \in Attempts, started' = started, rows[<<r, a>>] # "none",
         \/ outbox'[r].status = "delivered" /\ rows'[<<r, a>>] \in {"delivered", "unknown"}
         \/ outbox'[r].status = "cancelled" /\ \A b \in Attempts : rows'[<<r, b>>] \in Unspent
  PROVE  Ended(r)'
<1>1. <<r, a>> \in Forms /\ <<r, a>>[1] = r BY DEF Forms
<1>2. started'[r] = "none" BY <1>1 DEF SpawnsAreNew
<1> QED BY <1>2 DEF Ended

LEMMA EndStep ==
  ASSUME OnceInv, DrainInv, [Next]_vars, NEW r \in Responses
  PROVE  Ended(r)'
<1>0. /\ IInv /\ TypeOK /\ SpawnsAreNew /\ LatestOf(r)
      /\ outbox \in [Responses -> OutboxRows] /\ rows \in [Forms -> RowStates]
  BY DEF OnceInv, DrainInv, IInv, TypeOK, FormTypeOK, LatestCounts
<1>1. \A a \in Attempts : <<r, a>> \in Forms BY DEF Forms
<1>2. ASSUME NEW d \in Forms, Settle(d) PROVE Ended(r)'
  <2>1. d[1] \in Responses /\ d[2] \in Attempts /\ d = <<d[1], d[2]>> BY DEF Forms
  <2>2. CASE outbox' = outbox \/ r # d[1] BY <1>0, <1>2, <2>2, EndedStays DEF Settle, Put
  <2>3. CASE outbox' # outbox /\ r = d[1]
    <3>1. /\ rows' = [rows EXCEPT ![d] = Outcome(d)] /\ started' = started
          /\ outbox'[r] = Apply(outbox[r], d[2], Outcome(d))
          /\ adapter[d] = "refused" \/ (adapter[d] = "wait" /\ reports[d] # <<>>)
      BY <1>0, <1>2, <2>3 DEF Settle, Put
    <3>2. rows[d] = "dispatching" BY <3>1 DEF OnceInv, RowsFollow, Follow
    <3>3. rows'[d] = Outcome(d) BY <1>0, <3>1
    <3>4. CASE outbox'[r].status \in {outbox[r].status, "pending"} BY <3>4, EndedStays
    <3>5. CASE outbox'[r].status = "delivered" /\ Outcome(d) \in {"delivered", "unknown"}
      BY <1>0, <2>1, <2>3, <3>1, <3>2, <3>3, <3>5, EndsByAttempt
    <3>6. CASE outbox'[r].status = "cancelled" /\ Outcome(d) = "failed"
      <4>1. ASSUME NEW b \in Attempts PROVE rows'[<<r, b>>] \in Unspent
        <5>1. CASE b = d[2] BY <2>1, <2>3, <3>3, <3>6, <5>1 DEF Unspent
        <5>2. CASE b # d[2]
          <6>1. rows[<<r, b>>] \in Unspent
            <7>1. rows[<<r, d[2]>>] = "dispatching" BY <2>1, <2>3, <3>2
            <7>2. rows[<<r, b>>] \notin Unspent => b = d[2]
              BY <1>0, <2>1, <7>1 DEF LatestOf, Unspent, Attempts
            <7> QED BY <5>2, <7>2
          <6>2. <<r, b>> # d BY <2>1, <5>2
          <6> QED BY <1>0, <1>1, <3>1, <6>1, <6>2
        <5> QED BY <5>1, <5>2
      <4> QED BY <1>0, <2>1, <2>3, <3>1, <3>2, <3>6, <4>1, EndsByAttempt
    <3>7. outbox[r] \in OutboxRows BY <1>0
    <3> QED BY <3>1, <3>4, <3>5, <3>6, <3>7, Applies
  <2> QED BY <2>2, <2>3
<1>3. ASSUME NEW i \in Drains, Record(i) PROVE Ended(r)'
  <2> DEFINE a == Item(i).attempt
             held == [outbox[r] EXCEPT !.held = Item(i).attempt]
  <2>1. /\ Of(i) \in Responses /\ 1 \in 1..Len(drains[i].items)
        /\ Item(i) = drains[i].items[1] /\ Of(i) = drains[i].items[1].of /\ a \in Attempts
    BY <1>0, <1>3, AtWork DEF Record
  <2>2. CASE outbox' = outbox \/ r # Of(i) BY <1>0, <1>3, <2>2, EndedStays DEF Record, Put
  <2>3. CASE outbox' # outbox /\ r = Of(i)
    <3>1. /\ rows' = rows /\ started' = started
          /\ outbox'[r] = outbox[r] \/ (outbox[r].status = "pending" /\ outbox'[r] = Apply(held, a, rows[<<r, a>>]))
      BY <1>0, <1>3, <2>3 DEF Record, Put
    <3>2. QuietBut(r, a)
      <4>1. ItemIsHeld(i, 1) /\ Ending(i, 1) BY <1>3, <2>1 DEF Record, Ending, DrainInv, ItemsAreHeld
      <4> QED BY <2>1, <2>3, <4>1 DEF ItemIsHeld, Held
    <3>3. held \in OutboxRows /\ held.status = outbox[r].status BY <1>0, <2>1 DEF OutboxRows
    <3>4. CASE outbox'[r].status \in {outbox[r].status, "pending"} BY <3>4, EndedStays
    <3>5. CASE outbox'[r].status = "delivered" /\ rows[<<r, a>>] \in {"delivered", "unknown"}
      BY <1>0, <2>1, <3>1, <3>5, EndsByAttempt
    <3>6. CASE outbox'[r].status = "cancelled" /\ rows[<<r, a>>] = "failed"
      <4>1. \A b \in Attempts : rows'[<<r, b>>] \in Unspent BY <3>1, <3>2, <3>6 DEF QuietBut, Unspent
      <4> QED BY <1>0, <2>1, <3>1, <3>6, <4>1, EndsByAttempt
    <3> HIDE DEF held, a
    <3> QED BY <3>1, <3>3, <3>4, <3>5, <3>6, Applies
  <2> QED BY <2>2, <2>3
<1>4. ASSUME NEW i \in Drains, FailItem(i) PROVE Ended(r)'
  <2>1. /\ Of(i) \in Responses /\ 1 \in 1..Len(drains[i].items)
        /\ Item(i) = drains[i].items[1] /\ Of(i) = drains[i].items[1].of
    BY <1>0, <1>4, AtWork DEF FailItem
  <2>2. CASE r # Of(i) BY <1>0, <1>4, <2>2, EndedStays DEF FailItem, Put
  <2>3. CASE r = Of(i)
    <3>1. outbox'[r] = Refused(outbox[r]) \/ outbox'[r] = Deferred(outbox[r])
      BY <1>0, <1>4, <2>3 DEF FailItem, Put
    <3>2. outbox[r] \in OutboxRows BY <1>0
    <3>3. outbox'[r].status \in {outbox[r].status, "cancelled"} BY <3>1, <3>2 DEF Refused, Deferred, OutboxRows
    <3>4. \A b \in Attempts : rows'[<<r, b>>] \in Unspent
      <4>1. ItemIsHeld(i, 1) /\ ~Ending(i, 1) /\ rows' = rows
        BY <1>4, <2>1 DEF FailItem, Ending, DrainInv, ItemsAreHeld
      <4> QED BY <2>1, <2>3, <4>1 DEF ItemIsHeld, Held, Fresh
    <3>5. started'[r] # "running"
      <4>1. started[r] # "running" BY <1>0, <1>4, <2>3 DEF FailItem, SpawnsAreNew, Lane
      <4>2. ~\E j \in Drains : SpawnEnds(j) /\ Of(j) = r
        <5> SUFFICES ASSUME NEW j \in Drains, SpawnEnds(j), Of(j) = r PROVE FALSE OBVIOUS
        <5>1. drains[j].at = "spawning" /\ drains[i].at \in {"fail", "cancel"} BY <1>4 DEF SpawnEnds, FailItem
        <5>2. 1 \in 1..Len(drains[j].items) /\ Of(j) = drains[j].items[1].of BY <1>0, <5>1, AtWork
        <5>3. i = j BY <2>1, <2>3, <5>2, SameHolder DEF DrainInv
        <5> QED BY <5>1, <5>3
      <4> QED BY <1>0, <4>1, <4>2, StartedStep DEF StartedMoves
    <3>6. CASE outbox'[r].status = outbox[r].status BY <3>6, EndedStays
    <3>7. CASE outbox'[r].status = "cancelled" BY <3>4, <3>5, <3>7 DEF Ended
    <3> QED BY <3>3, <3>6, <3>7
  <2> QED BY <2>2, <2>3
<1>5. CASE Claims
  <2>1. /\ rows' = rows /\ started' = started
        /\ outbox'[r] = outbox[r] \/ outbox'[r] = Claimed(r)
    BY <1>5 DEF Claims, StartDrain, DrainAgain, Claim
  <2>2. Reconciled(r) \in OutboxRows BY <1>0, ClaimTypes
  <2>3. Claimed(r).status = Reconciled(r).status BY <2>2 DEF Claimed, OutboxRows
  <2>4. Latest(r) # 0 => Latest(r) \in Attempts /\ rows[<<r, Latest(r)>>] # "none" BY <1>0, LatestNumber
  <2>5. CASE outbox'[r].status \in {outbox[r].status, "pending"} BY <2>5, EndedStays
  <2>6. CASE outbox'[r].status = "delivered" /\ Latest(r) # 0 /\ rows[<<r, Latest(r)>>] \in {"delivered", "unknown"}
    BY <1>0, <2>1, <2>4, <2>6, EndsByAttempt
  <2>7. CASE outbox'[r].status = "cancelled" /\ Latest(r) # 0 /\ rows[<<r, Latest(r)>>] = "failed"
    <3>1. \A b \in Attempts : rows[<<r, b>>] \in Unspent
      <4> SUFFICES ASSUME NEW b \in Attempts, rows[<<r, b>>] \notin Unspent PROVE FALSE OBVIOUS
      <4>1. Latest(r) = b BY <1>0, LatestDecides
      <4> QED BY <2>7, <4>1 DEF Unspent
    <3> QED BY <1>0, <2>1, <2>4, <2>7, <3>1, EndsByAttempt
  <2>8. \/ Reconciled(r).status \in {outbox[r].status, "pending"}
        \/ Reconciled(r).status = "delivered" /\ Latest(r) # 0 /\ rows[<<r, Latest(r)>>] \in {"delivered", "unknown"}
        \/ Reconciled(r).status = "cancelled" /\ Latest(r) # 0 /\ rows[<<r, Latest(r)>>] = "failed"
    BY <1>0, ReconciledRow
  <2> QED BY <2>1, <2>3, <2>5, <2>6, <2>7, <2>8
<1>6. CASE outbox' = outbox BY <1>6, EndedStays
<1>7. ASSUME NEW i \in Drains, Release(i) \/ HandBack(i) \/ Defer(i) \/ SettleSpawned(i) PROVE Ended(r)'
  <2>1. Of(i) \in Responses BY <1>0, <1>7, AtWork DEF Release, HandBack, Defer, SettleSpawned
  <2>2. outbox[Of(i)] \in OutboxRows BY <1>0, <2>1
  <2> DEFINE row == outbox[Of(i)]
             done == IF Free(row) THEN [row EXCEPT !.status = "spawned", !.leased = FALSE] ELSE row
  <2>3. Put(Of(i), Freed(row)) \/ Put(Of(i), Deferred(row)) \/ Put(Of(i), done)
    BY <1>7 DEF Release, HandBack, Defer, SettleSpawned
  <2>5. /\ Freed(row).status = row.status /\ Deferred(row).status = row.status
        /\ done.status \in {row.status, "spawned"}
    BY <2>2 DEF Freed, Deferred, OutboxRows
  <2> HIDE DEF done
  <2>4. outbox'[r].status \in {outbox[r].status, "spawned"} BY <1>0, <2>1, <2>3, <2>5 DEF Put
  <2> QED BY <2>4, EndedStays
<1>8. ASSUME NEW x \in Responses, Submit(x) \/ Lapse(x) PROVE Ended(r)'
  <2>1. outbox[x] \in OutboxRows BY <1>0
  <2>2. outbox'[r].status \in {outbox[r].status, "pending"} BY <1>0, <1>8, <2>1 DEF Submit, Lapse, OutboxRows
  <2> QED BY <2>2, EndedStays
<1>9. /\ Session \/ Resume \/ End \/ Crash => outbox' = outbox
      /\ \A i \in Drains : Reserve(i) \/ RouteToSession(i) \/ RouteToNew(i) \/ SpawnEnds(i) => outbox' = outbox
      /\ \A d \in Forms : ClaimRow(d) \/ Prompt(d) => outbox' = outbox
      /\ \A u \in Users : AskPrompt(u) \/ AdmitPrompt(u) => outbox' = outbox
      /\ \A d \in Deliveries : TypingStep(d) => outbox' = outbox
      /\ UNCHANGED vars => outbox' = outbox
  BY DEF Session, Launch, LaunchDone, LaunchFails, Resume, ResumeSpawns, ResumeRuns, ResumeDone, ResumeFails,
     End, RecordEnd, formVars, Crash, Reserve, RouteToSession, RouteToNew, SpawnEnds, ClaimRow, Prompt,
     AskPrompt, AdmitPrompt, TypingStep, vars
<1> QED
  BY <1>2, <1>3, <1>4, <1>5, <1>6, <1>7, <1>8, <1>9 DEF Next, Drain, Attempt, Claims

-----------------------------------------------------------------------------
LEMMA DrainInvariant == ASSUME SlowSteps = {} PROVE Spec => [](OnceInv /\ DrainInv)
<1>1. Init => DrainInv
  <2> SUFFICES ASSUME Init PROVE DrainInv OBVIOUS
  <2>1. /\ \A d \in Forms : rows[d] = "none"
        /\ \A r \in Responses : started[r] = "none"
        /\ \A r \in Responses : outbox[r].status = "none"
        /\ \A i \in Drains : drains[i].items = <<>> /\ drains[i].at = "idle"
    BY DEF Init
  <2>2. \A r \in Responses : \A a \in Attempts : <<r, a>> \in Forms BY DEF Forms
  <2>3. 1..Len(<<>>) = {} OBVIOUS
  <2>4. LatestCounts BY <2>1, <2>2 DEF LatestCounts, LatestOf, Unspent
  <2>5. ItemsAreHeld /\ OneHolder BY <2>1, <2>3 DEF ItemsAreHeld, OneHolder
  <2>6. SpawnsAreNew
    <3>1. \A i \in Drains : Lane(i) BY <2>1 DEF Lane
    <3> QED BY <2>1, <3>1 DEF SpawnsAreNew
  <2>7. \A r \in Responses : Ended(r) BY <2>1 DEF Ended
  <2> QED BY <2>4, <2>5, <2>6, <2>7 DEF DrainInv
<1>2. OnceInv /\ DrainInv /\ [Next]_vars => DrainInv'
  <2> SUFFICES ASSUME OnceInv, DrainInv, [Next]_vars PROVE DrainInv' OBVIOUS
  <2> QED BY HoldStep, LatestStep, NewStep, EndStep DEF DrainInv
<1> QED BY <1>1, <1>2, OnceInvariant, PTL DEF Spec

\* What an attempt has put into a terminal makes its record one that may count.
LEMMA TouchedCounts ==
  ASSUME OnceInv, NEW d \in Forms, NEW e \in Epochs, NEW n \in 1..Len(input[e]), input[e][n].of = d
  PROVE  rows[d] \notin Unspent
BY DEF OnceInv, RowsFollow, Follow, Unseen

LEMMA InputIs ==
  ASSUME OnceInv, NEW e \in Epochs
  PROVE  input[e] \in Seq(Keys) /\ DOMAIN input[e] = 1..Len(input[e]) /\ ToSet(input[e]) = {input[e][n] : n \in 1..Len(input[e])}
<1>1. input[e] \in Seq(Keys) BY DEF OnceInv, IInv, TypeOK, QueueTypeOK
<1>2. DOMAIN input[e] = 1..Len(input[e]) BY <1>1
<1> QED BY <1>1, <1>2 DEF ToSet

LEMMA Touches ==
  ASSUME OnceInv, NEW d \in Forms
  PROVE  /\ Touched(d) => rows[d] \notin Unspent
         /\ Submitted(d) => Entered(d)
<1>1. Touched(d) => rows[d] \notin Unspent
  <2> SUFFICES ASSUME NEW e \in Epochs, d \in TypedInto(e) PROVE rows[d] \notin Unspent BY DEF Touched
  <2>1. PICK n \in 1..Len(input[e]) : input[e][n].of = d BY InputIs DEF TypedInto
  <2> QED BY <2>1, TouchedCounts
<1>2. Submitted(d) => Entered(d)
  <2> SUFFICES ASSUME NEW e \in Epochs, NEW n \in 1..Len(input[e]), IsKey(input[e][n], d, "enter") PROVE Entered(d)
    BY DEF Submitted
  <2>1. input[e][n] \in Keys BY InputIs, ElementOfSeq
  <2>2. input[e][n] = [of |-> d, key |-> "enter"] BY <2>1 DEF Keys, IsKey
  <2>3. input[e][n] \in ToSet(input[e]) BY InputIs
  <2> QED BY <2>2, <2>3 DEF Entered
<1> QED BY <1>1, <1>2

\* Two bodies of one answer are the same key press.
LEMMA OneBody ==
  ASSUME OnceInv, DrainInv, NEW r \in Responses, NEW p \in BodiesOf(r), NEW q \in BodiesOf(r)
  PROVE  p = q
<1> DEFINE Body(x, e, n) ==
      /\ x = <<e, n>> /\ e \in Epochs /\ n \in 1..Len(input[e])
      /\ input[e][n].key = "body" /\ input[e][n].of \in {r} \X Attempts
<1>1. ASSUME NEW x \in BodiesOf(r) PROVE \E e \in Epochs : \E n \in 1..Len(input[e]) : Body(x, e, n)
  <2>1. PICK e \in Epochs : x \in {e} \X DOMAIN input[e] BY DEF BodiesOf, Places
  <2>2. x = <<e, x[2]>> /\ x[1] = e /\ x[2] \in 1..Len(input[e]) BY <2>1, InputIs
  <2>3. input[x[1]][x[2]].key = "body" /\ input[x[1]][x[2]].of \in {r} \X Attempts BY DEF BodiesOf
  <2> QED BY <2>2, <2>3
<1>2. PICK e \in Epochs : \E m \in 1..Len(input[e]) : Body(p, e, m) BY <1>1
<1>3. PICK m \in 1..Len(input[e]) : Body(p, e, m) BY <1>2
<1>4. PICK f \in Epochs : \E n \in 1..Len(input[f]) : Body(q, f, n) BY <1>1
<1>5. PICK n \in 1..Len(input[f]) : Body(q, f, n) BY <1>4
<1> DEFINE c == input[e][m].of
           d == input[f][n].of
<1>6. c \in Forms /\ d \in Forms /\ c[1] = r /\ d[1] = r /\ c[2] \in Attempts /\ d[2] \in Attempts
      /\ c = <<r, c[2]>> /\ d = <<r, d[2]>>
  BY <1>3, <1>5 DEF Forms
<1>7. c = d
  <2>1. rows[<<r, c[2]>>] \notin Unspent /\ rows[<<r, d[2]>>] \notin Unspent BY <1>6, TouchedCounts
  <2>2. LatestOf(r) BY DEF DrainInv, LatestCounts
  <2> HIDE DEF c, d
  <2>3. c[2] <= d[2] /\ d[2] <= c[2] BY <1>6, <2>1, <2>2 DEF LatestOf, Unspent
  <2> QED BY <1>6, <2>3 DEF Attempts
<1>8. e = f
  <2>1. OneTerminal BY DEF OnceInv, IInv, QueueInv
  <2>2. c \in TypedInto(e) /\ d \in TypedInto(f) BY InputIs DEF TypedInto
  <2> HIDE DEF c, d
  <2> QED BY <1>7, <2>1, <2>2 DEF OneTerminal
<1>9. m = n
  <2>1. IsKey(input[e][m], c, "body") /\ IsKey(input[e][n], c, "body") BY <1>3, <1>5, <1>7, <1>8 DEF IsKey
  <2>2. Once(c) BY <1>6 DEF OnceInv, TypedOnce
  <2> HIDE DEF c, d
  <2> QED BY <1>8, <2>1, <2>2 DEF Once
<1> QED BY <1>3, <1>5, <1>8, <1>9

\* The record of an attempt is true however slow the drains are: one that failed
\* was never typed, and one that was delivered was typed and submitted.
THEOREM AttemptRecordsAreTrue ==
  Spec => [](\A d \in Forms : (rows[d] = "failed" => ~Touched(d)) /\ (rows[d] = "delivered" => Entered(d)))
<1>1. OnceInv => \A d \in Forms : (rows[d] = "failed" => ~Touched(d)) /\ (rows[d] = "delivered" => Entered(d))
  BY Touches DEF OnceInv, RowsFollow, Follow, Unspent
<1> QED BY <1>1, OnceInvariant, PTL

\* form-delivery.ts: "two drains racing each other all reach the terminal once".  An
\* answer is typed at most once, over all its attempts and all processes of the
\* session, unless a drain outlives the lease it works under.
THEOREM AnswersAreShownOnce == ASSUME SlowSteps = {} PROVE Spec => []ShownOnce
<1>1. OnceInv /\ DrainInv => ShownOnce
  <2> SUFFICES ASSUME OnceInv, DrainInv, NEW r \in Responses PROVE Cardinality(BodiesOf(r)) <= 1
    BY DEF ShownOnce
  <2>1. CASE BodiesOf(r) = {} BY <2>1, FS_EmptySet
  <2>2. CASE BodiesOf(r) # {}
    <3>1. PICK p \in BodiesOf(r) : TRUE BY <2>2
    <3>2. BodiesOf(r) = {p} BY <3>1, OneBody
    <3> QED BY <3>2, FS_Singleton
  <2> QED BY <2>1, <2>2
<1> QED BY <1>1, DrainInvariant, PTL

\* The records of deliveries and answers tell the truth about the terminal, so
\* that what is tried again, or given to a new session, repeats nothing.
THEOREM RecordsTellTheTruth == ASSUME SlowSteps = {} PROVE Spec => []RecordsAreTrue
<1>1. OnceInv /\ DrainInv => RecordsAreTrue
  <2> SUFFICES ASSUME OnceInv, DrainInv PROVE RecordsAreTrue OBVIOUS
  <2>1. ASSUME NEW d \in Forms
        PROVE  (rows[d] = "failed" => ~Touched(d)) /\ (rows[d] = "delivered" => Entered(d))
    BY Touches DEF OnceInv, RowsFollow, Follow, Unspent
  <2>2. ASSUME NEW r \in Responses
        PROVE  /\ outbox[r].status = "delivered" => \E a \in Attempts : rows[<<r, a>>] \in {"delivered", "unknown"}
               /\ outbox[r].status = "cancelled" => started[r] # "running" /\ \A a \in Attempts : ~Touched(<<r, a>>)
    <3>1. Ended(r) /\ \A a \in Attempts : <<r, a>> \in Forms BY DEF DrainInv, Forms
    <3> QED BY <3>1, Touches DEF Ended
  <2> QED BY <2>1, <2>2 DEF RecordsAreTrue
<1> QED BY <1>1, DrainInvariant, PTL

-----------------------------------------------------------------------------
(***************************************************************************)
(* Every answer is delivered as AnswerDelivery promises.                   *)
(***************************************************************************)
\* The queue knows an attempt only while its adapter waits for the report.
Sending(d) == Pending(d) => adapter[d] = "wait" /\ reports[d] = <<>>

\* An answer has no attempt before it is submitted, and ends in a new session only if
\* its form asks for one.
Plain(r) ==
  /\ outbox[r].status = "none" => outbox[r].attempts = 0
  /\ outbox[r].status = "spawned" => r \in ToNew

AnswerInv == (\A d \in Forms : Sending(d)) /\ (\A r \in Responses : Plain(r))

LEMMA SendKeeps ==
  ASSUME NEW d \in Forms, Sending(d), NEW ds, KeepsUnreported(ds), d \notin ds,
         adapter[d] = "wait" => adapter'[d] = "wait"
  PROVE  Sending(d)'
BY DEF Sending, KeepsUnreported, Unreported

LEMMA SendStep ==
  ASSUME IInv, [Next]_vars, NEW d \in Forms, Sending(d)
  PROVE  Sending(d)'
<1> USE DEF IInv
<1>0. QueueInv /\ d \in Deliveries /\ d # First /\ d \notin Users BY Prompts
<1>1. CASE Session \/ Resume \/ End
  <2>1. \/ SpawnPty(<<First>>) \/ SpawnPty(<<>>) \/ Discard \/ UNCHANGED <<queue, writer, reports>>
    BY <1>1 DEF Session, Launch, LaunchDone, LaunchFails, Resume, ResumeSpawns, ResumeRuns, ResumeDone, ResumeFails,
       End, RecordEnd, queueVars
  <2>2. adapter' = adapter
    BY <1>1 DEF Session, Launch, LaunchDone, LaunchFails, Resume, ResumeSpawns, ResumeRuns, ResumeDone, ResumeFails, End, RecordEnd, formVars
  <2>3. KeepsUnreported({}) BY <1>0, <2>1, SpawnPending, LossPending
  <2> QED BY <2>2, <2>3, SendKeeps
<1>2. CASE Crash
  <2>1. queue' = <<>> /\ writer'[d] = Off /\ 1..Len(<<>>) = {} BY <1>0, <1>2 DEF Crash, ForgetQueue
  <2> QED BY <2>1 DEF Sending, Pending, Busy, Off
<1>3. ASSUME NEW x \in Forms, Attempt(x) PROVE Sending(d)'
  <2>1. CASE d # x
    <3>1. adapter'[d] = adapter[d] BY <1>3, <2>1, AttemptQueue
    <3>2. UNCHANGED queueVars \/ (Prompt(x) /\ Admit(x)) BY <1>3 DEF Attempt, ClaimRow, Prompt, Settle
    <3>3. Prompt(x) => Unseen(x) /\ x \in Deliveries BY Prompts DEF Prompt, Unsent
    <3>4. UNCHANGED queueVars => KeepsUnreported({}) BY <1>0, LossPending DEF queueVars
    <3>5. Prompt(x) /\ Admit(x) => KeepsUnreported({x}) BY <1>0, <3>3, AdmitPending
    <3> QED BY <2>1, <3>1, <3>2, <3>4, <3>5, SendKeeps
  <2>2. CASE d = x
    <3>1. adapter \in [Forms \cup Users -> {"none", "claim", "write", "wait", "refused", "done"}]
      BY DEF TypeOK, FormTypeOK
    <3>2. CASE UNCHANGED queueVars /\ (adapter[d] = "wait" => reports[d] # <<>>)
      BY <3>2 DEF Sending, Pending, Busy, queueVars
    <3>3. CASE Prompt(d) /\ Admit(d) /\ adapter'[d] = "wait"
      <4>1. Unseen(d) BY <3>3 DEF Prompt, Unsent
      <4>2. reports' = reports /\ reports[d] = <<>> BY <3>3, <4>1 DEF Admit, Unseen
      <4> QED BY <3>3, <4>2 DEF Sending
    <3>4. adapter[d] = "wait" /\ UNCHANGED queueVars => reports[d] # <<>>
      BY <1>3, <2>2 DEF Attempt, ClaimRow, Prompt, Settle
    <3>5. UNCHANGED queueVars \/ (Prompt(d) /\ Admit(d) /\ adapter'[d] = "wait")
      BY <1>3, <2>2, <3>1 DEF Attempt, ClaimRow, Prompt, Settle, Adapt
    <3> QED BY <3>2, <3>3, <3>4, <3>5
  <2> QED BY <2>1, <2>2
<1>4. ASSUME NEW u \in Users, AskPrompt(u) \/ AdmitPrompt(u) PROVE Sending(d)'
  <2>1. adapter'[d] = adapter[d] /\ d # u BY <1>0, <1>4, UserQueue
  <2>2. UNCHANGED queueVars \/ (AdmitPrompt(u) /\ Admit(u)) BY <1>4 DEF AskPrompt, AdmitPrompt
  <2>3. AdmitPrompt(u) => Unseen(u) /\ u \in Deliveries BY Prompts DEF AdmitPrompt, Unsent
  <2>4. UNCHANGED queueVars => KeepsUnreported({}) BY <1>0, LossPending DEF queueVars
  <2>5. AdmitPrompt(u) /\ Admit(u) => KeepsUnreported({u}) BY <1>0, <2>3, AdmitPending
  <2> QED BY <2>1, <2>2, <2>4, <2>5, SendKeeps
<1>5. ASSUME NEW x \in Deliveries, TypingStep(x) PROVE Sending(d)'
  <2>1. KeepsUnreported({}) /\ adapter' = adapter BY <1>0, <1>5, TypingPending DEF TypingStep, formVars
  <2> QED BY <2>1, SendKeeps
<1>6. ASSUME UNCHANGED queueVars, adapter[d] = "wait" => adapter'[d] = "wait" PROVE Sending(d)'
  BY <1>6 DEF Sending, Pending, Busy, queueVars
<1>7. ASSUME NEW i \in Drains, Drain(i) PROVE Sending(d)'
  <2>1. UNCHANGED queueVars /\ (adapter'[d] = adapter[d] \/ adapter[d] = "none") BY <1>7, DrainQueue
  <2> QED BY <1>6, <2>1
<1>8. /\ \A r \in Responses : Submit(r) \/ Lapse(r) => UNCHANGED <<queueVars, adapter>>
      /\ UNCHANGED vars => UNCHANGED <<queueVars, adapter>>
  BY DEF Submit, Lapse, vars
<1> QED BY <1>1, <1>2, <1>3, <1>4, <1>5, <1>6, <1>7, <1>8 DEF Next

\* A row that is left as it is, or ends by what its attempts came to.
Ends(row, new) ==
  \/ new.status = row.status /\ (row.status = "pending" \/ new.attempts = row.attempts)
  \/ row.status = "pending" /\ new.status \in {"delivered", "cancelled"}

LEMMA RowEnds ==
  ASSUME NEW row \in OutboxRows
  PROVE  /\ \A a, o : Ends(row, Apply(row, a, o))
         /\ \A a \in Attempts : \A o : row.status = "pending" => Ends(row, Apply([row EXCEPT !.held = a], a, o))
         /\ Ends(row, row) /\ Ends(row, Freed(row)) /\ Ends(row, Deferred(row)) /\ Ends(row, Refused(row))
         /\ Ends(row, [row EXCEPT !.leased = FALSE])
BY DEF OutboxRows, Ends, Apply, Freed, Deferred, Refused, Free

LEMMA ClaimEnds ==
  ASSUME TypeOK, NEW r \in Responses
  PROVE  Ends(outbox[r], Claimed(r))
<1>1. outbox[r] \in OutboxRows BY DEF TypeOK, FormTypeOK
<1>2. CASE outbox[r].status # "pending"
  <2>1. Reconciled(r) = outbox[r] BY <1>2 DEF Reconciled
  <2>2. Claimed(r) = outbox[r] BY <1>2, <2>1 DEF Claimed, Claimable, Free
  <2> QED BY <1>1, <2>2, RowEnds
<1>3. CASE outbox[r].status = "pending"
  <2>1. Reconciled(r) \in OutboxRows BY ClaimTypes
  <2>2. Claimed(r).status = Reconciled(r).status BY <2>1 DEF Claimed, OutboxRows
  <2>3. Latest(r) # 0 => Latest(r) \in Attempts BY AttemptNumbers, QueueAssumption DEF Attempts
  <2>4. \/ Reconciled(r) = outbox[r]
        \/ \E a, o : Reconciled(r) = Apply(outbox[r], a, o)
        \/ \E a \in Attempts : \E o : Reconciled(r) = Apply([outbox[r] EXCEPT !.held = a], a, o)
    BY <2>3 DEF Reconciled
  <2>5. Ends(outbox[r], Reconciled(r))
    <3> DEFINE row == outbox[r]
    <3>1. row \in OutboxRows /\ row.status = "pending" BY <1>1, <1>3
    <3> HIDE DEF row
    <3>2. \A a, o : Ends(row, Apply(row, a, o)) BY <3>1, RowEnds
    <3>3. \A a \in Attempts : \A o : Ends(row, Apply([row EXCEPT !.held = a], a, o)) BY <3>1, RowEnds
    <3>4. Ends(row, row) BY <3>1, RowEnds
    <3> QED BY <2>4, <3>2, <3>3, <3>4 DEF row
  <2> QED BY <1>3, <2>2, <2>5 DEF Ends
<1> QED BY <1>2, <1>3

\* A step that writes rows types nothing and begins no session.
Quietly == input' = input /\ \A x \in Responses : started'[x] = "running" <=> started[x] = "running"
GetsSpawned(r) ==
  /\ \E i \in Drains : SettleSpawned(i) /\ drains[i].at = "settle" /\ Of(i) = r
  /\ outbox[r].status = "pending" /\ outbox'[r].status = "spawned"
RowSteps(r) ==
  \/ Ends(outbox[r], outbox'[r])
  \/ outbox[r].status = "none" /\ outbox'[r].status = "pending"
  \/ GetsSpawned(r)

LEMMA OutboxStep ==
  ASSUME IInv, [Next]_vars, NEW r \in Responses
  PROVE  outbox' = outbox \/ (Quietly /\ RowSteps(r))
<1> USE DEF IInv
<1>0. outbox \in [Responses -> OutboxRows] /\ outbox[r] \in OutboxRows BY DEF TypeOK, FormTypeOK
<1>1. outbox'[r] = outbox[r] => RowSteps(r) BY <1>0, RowEnds DEF RowSteps
<1>2. UNCHANGED <<queueVars, started>> => Quietly BY DEF queueVars, Quietly
<1>3. CASE Claims
  <2>1. UNCHANGED <<queueVars, started>> /\ (outbox'[r] = outbox[r] \/ outbox'[r] = Claimed(r))
    BY <1>3 DEF Claims, StartDrain, DrainAgain, Claim
  <2> QED BY <1>1, <1>2, <2>1, ClaimEnds DEF RowSteps
<1>4. ASSUME NEW row, NEW x \in Responses, Put(x, row), Ends(outbox[x], row) PROVE RowSteps(r)
  <2>1. x = r => outbox'[r] = row BY <1>0, <1>4 DEF Put
  <2>2. x # r => outbox'[r] = outbox[r] BY <1>0, <1>4 DEF Put
  <2> QED BY <1>1, <1>4, <2>1, <2>2 DEF RowSteps
<1>5. ASSUME NEW i \in Drains, Record(i) PROVE outbox' = outbox \/ (Quietly /\ RowSteps(r))
  <2>1. Of(i) \in Responses /\ Item(i).attempt \in Attempts BY <1>5, AtWork DEF Record
  <2>2. outbox[Of(i)] \in OutboxRows BY <1>0, <2>1
  <2>3. \/ outbox' = outbox
        \/ Put(Of(i), outbox[Of(i)])
        \/ \E o : outbox[Of(i)].status = "pending"
                  /\ Put(Of(i), Apply([outbox[Of(i)] EXCEPT !.held = Item(i).attempt], Item(i).attempt, o))
    BY <1>5 DEF Record
  <2>4. UNCHANGED <<queueVars, started>> BY <1>5 DEF Record
  <2> QED BY <1>2, <1>4, <2>1, <2>2, <2>3, <2>4, RowEnds
<1>6. ASSUME NEW i \in Drains, Release(i) \/ HandBack(i) \/ Defer(i) PROVE Quietly /\ RowSteps(r)
  <2>1. Of(i) \in Responses BY <1>6, AtWork DEF Release, HandBack, Defer
  <2>2. outbox[Of(i)] \in OutboxRows BY <1>0, <2>1
  <2>3. Put(Of(i), Freed(outbox[Of(i)])) \/ Put(Of(i), Deferred(outbox[Of(i)])) BY <1>6 DEF Release, HandBack, Defer
  <2>4. UNCHANGED <<queueVars, started>> BY <1>6 DEF Release, HandBack, Defer
  <2> QED BY <1>2, <1>4, <2>1, <2>2, <2>3, <2>4, RowEnds
<1>7. ASSUME NEW i \in Drains, FailItem(i) PROVE Quietly /\ RowSteps(r)
  <2>1. Of(i) \in Responses BY <1>7, AtWork DEF FailItem
  <2>2. outbox[Of(i)] \in OutboxRows BY <1>0, <2>1
  <2>3. Put(Of(i), Refused(outbox[Of(i)])) \/ Put(Of(i), Deferred(outbox[Of(i)])) BY <1>7 DEF FailItem
  <2>4. Quietly
    <3>1. started \in [Responses -> {"none", "starting", "running", "failed"}] BY DEF TypeOK, FormTypeOK
    <3>2. UNCHANGED queueVars BY <1>7 DEF FailItem
    <3>3. \A x \in Responses : started'[x] = started[x] \/ (started[x] = "failed" /\ started'[x] = "none")
      BY <1>7, <3>1 DEF FailItem
    <3> QED BY <3>2, <3>3 DEF Quietly, queueVars
  <2> QED BY <1>4, <2>1, <2>2, <2>3, <2>4, RowEnds
<1>8. ASSUME NEW i \in Drains, SettleSpawned(i) PROVE Quietly /\ RowSteps(r)
  <2>1. Of(i) \in Responses BY <1>8, AtWork DEF SettleSpawned
  <2>2. UNCHANGED <<queueVars, started>> /\ drains[i].at = "settle" BY <1>8 DEF SettleSpawned
  <2>3. CASE r # Of(i) \/ ~Free(outbox[Of(i)])
    <3>1. outbox'[r] = outbox[r] BY <1>0, <1>8, <2>1, <2>3 DEF SettleSpawned, Put
    <3> QED BY <1>1, <1>2, <2>2, <3>1
  <2>4. CASE r = Of(i) /\ Free(outbox[r])
    <3>1. outbox'[r] = [outbox[r] EXCEPT !.status = "spawned", !.leased = FALSE]
      BY <1>0, <1>8, <2>1, <2>4 DEF SettleSpawned, Put
    <3>2. outbox'[r].status = "spawned" BY <1>0, <3>1 DEF OutboxRows
    <3> QED BY <1>2, <1>8, <2>2, <2>4, <3>2 DEF RowSteps, GetsSpawned, Free
  <2> QED BY <2>3, <2>4
<1>9. ASSUME NEW d \in Forms, Settle(d) PROVE outbox' = outbox \/ (Quietly /\ RowSteps(r))
  <2>1. d[1] \in Responses BY DEF Forms
  <2>2. outbox' = outbox \/ Put(d[1], Apply(outbox[d[1]], d[2], Outcome(d))) BY <1>9 DEF Settle
  <2>3. UNCHANGED <<queueVars, started>> /\ outbox[d[1]] \in OutboxRows BY <1>0, <1>9, <2>1 DEF Settle
  <2> QED BY <1>2, <1>4, <2>1, <2>2, <2>3, RowEnds
<1>10. ASSUME NEW x \in Responses, Submit(x) \/ Lapse(x) PROVE Quietly /\ RowSteps(r)
  <2>1. UNCHANGED <<queueVars, started>> /\ outbox[x] \in OutboxRows BY <1>0, <1>10 DEF Submit, Lapse
  <2>2. CASE Lapse(x)
    <3>1. outbox' = [outbox EXCEPT ![x] = [outbox[x] EXCEPT !.leased = FALSE]] BY <2>2 DEF Lapse
    <3> QED BY <1>2, <1>4, <2>1, <3>1, RowEnds DEF Put
  <2>3. CASE Submit(x)
    <3>1. x = r => outbox'[r].status = "pending" /\ outbox[r].status = "none"
      BY <1>0, <2>3 DEF Submit, OutboxRows
    <3>2. x # r => outbox'[r] = outbox[r] BY <1>0, <2>3 DEF Submit
    <3> QED BY <1>1, <1>2, <2>1, <3>1, <3>2 DEF RowSteps
  <2> QED BY <1>10, <2>2, <2>3
<1>11. /\ Session \/ Resume \/ End \/ Crash => outbox' = outbox
       /\ \A i \in Drains : Reserve(i) \/ RouteToSession(i) \/ RouteToNew(i) \/ SpawnEnds(i) => outbox' = outbox
       /\ \A d \in Forms : ClaimRow(d) \/ Prompt(d) => outbox' = outbox
       /\ \A u \in Users : AskPrompt(u) \/ AdmitPrompt(u) => outbox' = outbox
       /\ \A d \in Deliveries : TypingStep(d) => outbox' = outbox
       /\ UNCHANGED vars => outbox' = outbox
  BY DEF Session, Launch, LaunchDone, LaunchFails, Resume, ResumeSpawns, ResumeRuns, ResumeDone, ResumeFails,
     End, RecordEnd, formVars, Crash, Reserve, RouteToSession, RouteToNew, SpawnEnds, ClaimRow, Prompt,
     AskPrompt, AdmitPrompt, TypingStep, vars
<1> QED
  BY <1>3, <1>5, <1>6, <1>7, <1>8, <1>9, <1>10, <1>11 DEF Next, Drain, Attempt, Claims

LEMMA AnswerStep ==
  ASSUME IInv, DrainInv, AnswerInv, [Next]_vars
  PROVE  AnswerInv'
<1>1. \A d \in Forms : Sending(d)' BY SendStep DEF AnswerInv
<1>2. ASSUME NEW r \in Responses PROVE Plain(r)'
  <2>1. Plain(r) BY DEF AnswerInv
  <2>2. GetsSpawned(r) => r \in ToNew BY DEF GetsSpawned, DrainInv, SpawnsAreNew, Lane
  <2>3. outbox' = outbox \/ RowSteps(r) BY OutboxStep
  <2>4. CASE outbox' = outbox BY <2>1, <2>4 DEF Plain
  <2>5. CASE RowSteps(r)
    <3>1. GetsSpawned(r) => Plain(r)' BY <2>2 DEF GetsSpawned, Plain
    <3> QED BY <2>1, <2>5, <3>1 DEF Plain, RowSteps, Ends
  <2> QED BY <2>3, <2>4, <2>5
<1> QED BY <1>1, <1>2 DEF AnswerInv

\* What is typed of an answer, and where.
LEMMA BodyIs ==
  ASSUME NEW inp \in [Epochs -> Seq(Keys)], NEW r,
         NEW p \in {x \in UNION {{e} \X DOMAIN inp[e] : e \in Epochs} :
                     inp[x[1]][x[2]].key = "body" /\ inp[x[1]][x[2]].of \in {r} \X Attempts}
  PROVE  \E e \in Epochs : \E n \in 1..Len(inp[e]) :
           p = <<e, n>> /\ inp[e][n].key = "body" /\ inp[e][n].of \in {r} \X Attempts
<1>1. PICK e \in Epochs : p \in {e} \X DOMAIN inp[e] OBVIOUS
<1>2. inp[e] \in Seq(Keys) OBVIOUS
<1>3. DOMAIN inp[e] = 1..Len(inp[e]) BY <1>2
<1>4. p = <<e, p[2]>> /\ p[1] = e /\ p[2] \in 1..Len(inp[e]) BY <1>1, <1>3
<1>5. inp[p[1]][p[2]].key = "body" /\ inp[p[1]][p[2]].of \in {r} \X Attempts OBVIOUS
<1> QED BY <1>4, <1>5

\* Only an answer that is pending is typed.
LEMMA TypedIsPending ==
  ASSUME OnceInv, DrainInv, AnswerInv, NEW r \in Responses, NEW d \in Forms, d[1] = r, Busy(writer, d)
  PROVE  outbox[r].status = "pending" /\ r \notin ToNew
<1>1. d = <<r, d[2]>> /\ d[2] \in Attempts BY DEF Forms
<1>2. IInv /\ Follow(d) /\ LatestOf(r) /\ Ended(r) /\ Plain(r)
  BY DEF OnceInv, RowsFollow, DrainInv, LatestCounts, AnswerInv
<1>3. adapter[d] = "wait" BY DEF AnswerInv, Sending, Pending
<1>4. rows[d] = "dispatching" BY <1>2, <1>3 DEF Follow
<1>5. r \notin ToNew BY <1>4 DEF DrainInv, SpawnsAreNew
<1>6. outbox[r].status # "none"
  <2>1. d[2] <= outbox[r].attempts BY <1>2, <1>3 DEF IInv, Numbered
  <2> QED BY <1>1, <1>2, <2>1 DEF Plain, Attempts
<1>7. outbox[r].status # "spawned" BY <1>2, <1>5 DEF Plain
<1>8. outbox[r].status # "cancelled" BY <1>1, <1>2, <1>4 DEF Ended, Unspent
<1>9. outbox[r].status # "delivered"
  <2> SUFFICES ASSUME NEW a \in Attempts, rows[<<r, a>>] \in {"delivered", "unknown"} PROVE FALSE
    BY <1>2 DEF Ended
  <2>1. a <= d[2] /\ d[2] <= a BY <1>1, <1>2, <1>4 DEF LatestOf, Unspent
  <2>2. a = d[2] BY <1>1, <2>1 DEF Attempts
  <2> QED BY <1>1, <1>4, <2>2
<1>10. outbox[r].status \in {"none", "pending", "delivered", "spawned", "cancelled"}
  BY <1>2 DEF IInv, TypeOK, FormTypeOK, OutboxRows
<1> QED BY <1>5, <1>6, <1>7, <1>8, <1>9, <1>10

\* Only the typing loop types.
LEMMA OnlyTyping ==
  ASSUME [Next]_vars, input' # input
  PROVE  /\ \E x \in Deliveries : Typing(x)
         /\ UNCHANGED <<outbox, started>>
<1>1. Session \/ Resume \/ End \/ Crash => input' = input
  BY DEF Session, Launch, LaunchDone, LaunchFails, Resume, ResumeSpawns, ResumeRuns, ResumeDone, ResumeFails,
     End, RecordEnd, queueVars, SpawnPty, Discard, Crash, ForgetQueue
<1>2. \A i \in Drains : Drain(i) => input' = input
  BY DEF Drain, StartDrain, DrainAgain, Claim, Reserve, Record, Release, RouteToSession, HandBack,
         Defer, FailItem, RouteToNew, SpawnEnds, SettleSpawned, queueVars
<1>3. /\ \A r \in Responses : Submit(r) \/ Lapse(r) => input' = input
      /\ \A d \in Forms : Attempt(d) => input' = input
      /\ \A u \in Users : AskPrompt(u) \/ AdmitPrompt(u) => input' = input
      /\ UNCHANGED vars => input' = input
  BY DEF Submit, Lapse, Attempt, ClaimRow, Prompt, Settle, AskPrompt, AdmitPrompt, Admit, queueVars, vars
<1>4. PICK x \in Deliveries : TypingStep(x) BY <1>1, <1>2, <1>3 DEF Next
<1> QED BY <1>4 DEF TypingStep, formVars

LEMMA TypedNow ==
  ASSUME OnceInv, OnceInv', DrainInv, AnswerInv, [Next]_vars, NEW r \in Responses, BodiesOf(r)' # BodiesOf(r)
  PROVE  /\ BodiesOf(r) \subseteq BodiesOf(r)' /\ BodiesOf(r)' # {}
         /\ outbox[r].status = "pending" /\ r \notin ToNew /\ UNCHANGED <<outbox, started>>
<1>0. QueueInv /\ input \in [Epochs -> Seq(Keys)] /\ input' \in [Epochs -> Seq(Keys)]
  BY DEF OnceInv, IInv, TypeOK, QueueTypeOK
<1>1. input' # input BY DEF BodiesOf, Places
<1>2. UNCHANGED <<outbox, started>> BY <1>1, OnlyTyping
<1>3. PICK x \in Deliveries : Typing(x) BY <1>1, OnlyTyping
<1>4. /\ Busy(writer, x) /\ Alive(x)
      /\ \E k \in {"body", "enter"} : Type(x, k)
  <2>1. \A stage \in Stages : At(x, stage) => Busy(writer, x) BY DEF Stages, At, Busy
  <2> QED BY <1>1, <1>3, <2>1 DEF Typing, SeesAnotherProcess, WriteBody, NeverReady, BodyArrives, BodyIsLost,
       PressEnter, TextIsGone, TextIsStillThere, WriteThrows, Stages, At, Busy
<1>5. PICK k \in {"body", "enter"} : Type(x, k) BY <1>4
<1>6. /\ \A e \in Epochs : \A n \in 1..Len(input[e]) : n \in 1..Len(input'[e]) /\ input'[e][n] = input[e][n]
      /\ \A e \in Epochs : \A n \in 1..Len(input'[e]) :
           (n \in 1..Len(input[e]) /\ input'[e][n] = input[e][n]) \/ IsKey(input'[e][n], x, k)
  BY <1>0, <1>4, <1>5, KeyIsTyped
<1>7. \A e \in Epochs : DOMAIN input[e] = 1..Len(input[e]) /\ DOMAIN input'[e] = 1..Len(input'[e])
  <2> SUFFICES ASSUME NEW e \in Epochs PROVE DOMAIN input[e] = 1..Len(input[e]) /\ DOMAIN input'[e] = 1..Len(input'[e])
    OBVIOUS
  <2>1. input[e] \in Seq(Keys) /\ input'[e] \in Seq(Keys) BY <1>0
  <2> QED BY <2>1
<1>8. BodiesOf(r) \subseteq BodiesOf(r)'
  <2> SUFFICES ASSUME NEW p \in BodiesOf(r) PROVE p \in BodiesOf(r)' OBVIOUS
  <2>0. PICK e \in Epochs : \E n \in 1..Len(input[e]) :
          p = <<e, n>> /\ input[e][n].key = "body" /\ input[e][n].of \in {r} \X Attempts
    <3>1. p \in {y \in UNION {{e} \X DOMAIN input[e] : e \in Epochs} :
            input[y[1]][y[2]].key = "body" /\ input[y[1]][y[2]].of \in {r} \X Attempts}
      BY DEF BodiesOf, Places
    <3> QED BY <1>0, <3>1, BodyIs
  <2>1. PICK n \in 1..Len(input[e]) :
          p = <<e, n>> /\ input[e][n].key = "body" /\ input[e][n].of \in {r} \X Attempts
    BY <2>0
  <2>2. n \in 1..Len(input'[e]) /\ input'[e][n] = input[e][n] BY <1>6
  <2> QED BY <1>7, <2>1, <2>2 DEF BodiesOf, Places
<1>9. PICK p \in BodiesOf(r)' : p \notin BodiesOf(r) BY <1>8
<1>13. PICK e \in Epochs : \E n \in 1..Len(input'[e]) :
         p = <<e, n>> /\ input'[e][n].key = "body" /\ input'[e][n].of \in {r} \X Attempts
  <2>1. p \in {y \in UNION {{e} \X DOMAIN input'[e] : e \in Epochs} :
          input'[y[1]][y[2]].key = "body" /\ input'[y[1]][y[2]].of \in {r} \X Attempts}
    BY DEF BodiesOf, Places
  <2> QED BY <1>0, <2>1, BodyIs
<1>10. PICK n \in 1..Len(input'[e]) :
         p = <<e, n>> /\ input'[e][n].key = "body" /\ input'[e][n].of \in {r} \X Attempts
  BY <1>13
<1>11. IsKey(input'[e][n], x, k)
  <2> SUFFICES ASSUME n \in 1..Len(input[e]), input'[e][n] = input[e][n] PROVE FALSE BY <1>6
  <2> QED BY <1>7, <1>9, <1>10 DEF BodiesOf, Places
<1>12. x \in Forms /\ x[1] = r BY <1>10, <1>11 DEF IsKey, Forms
<1> QED BY <1>2, <1>4, <1>8, <1>9, <1>12, TypedIsPending

\* Every step is one of AnswerDelivery for the answer r, or changes nothing of it.
LEMMA AnswerImplements ==
  ASSUME OnceInv, OnceInv', DrainInv, DrainInv', AnswerInv, [Next]_vars, NEW r \in Responses,
         \A p, q \in BodiesOf(r)' : p = q
  PROVE  [Answer(r)!Next]_(Answer(r)!vars)
<1>0. IInv /\ IInv' /\ Ended(r)' /\ SpawnsAreNew /\ SpawnsAreNew' BY DEF OnceInv, DrainInv
<1> DEFINE Same == Cardinality(BodiesOf(r))' = Cardinality(BodiesOf(r))
<1>1. CASE BodiesOf(r)' # BodiesOf(r)
  <2>1. /\ BodiesOf(r) \subseteq BodiesOf(r)' /\ BodiesOf(r)' # {}
        /\ outbox[r].status = "pending" /\ r \notin ToNew /\ UNCHANGED <<outbox, started>>
    BY <1>1, TypedNow
  <2>2. PICK p \in BodiesOf(r)' : BodiesOf(r)' = {p} BY <2>1
  <2>3. BodiesOf(r) = {} BY <1>1, <2>1, <2>2
  <2>4. Cardinality(BodiesOf(r)) = 0 BY <2>3, FS_EmptySet
  <2>5. Cardinality(BodiesOf(r)') = 1 BY <2>2, FS_Singleton
  <2>6. Answer(r)!Show BY <2>1, <2>4, <2>5 DEF Answer!Show
  <2> QED BY <2>6 DEF Answer!Next
<1>2. CASE BodiesOf(r)' = BodiesOf(r) /\ outbox' = outbox
  <2>1. Cardinality(BodiesOf(r))' = Cardinality(BodiesOf(r)) BY <1>2
  <2>2. CASE (started'[r] = "running") = (started[r] = "running")
    BY <1>2, <2>1, <2>2 DEF Answer!vars
  <2>3. CASE started[r] = "running" /\ started'[r] # "running"
    <3>1. Answer(r)!Lose BY <1>2, <2>1, <2>3 DEF Answer!Lose
    <3> QED BY <3>1 DEF Answer!Next
  <2>4. CASE started[r] # "running" /\ started'[r] = "running"
    <3>1. PICK i \in Drains : SpawnEnds(i) /\ Of(i) = r /\ r \in ToNew
      BY <1>0, <2>4, StartedStep DEF StartedMoves
    <3>2. drains[i].at = "spawning" BY <3>1 DEF SpawnEnds
    <3>3. 1 \in 1..Len(drains[i].items) /\ drains[i].items[1].of = r BY <1>0, <3>1, <3>2, AtWork
    <3>4. outbox[r].status = "pending"
      BY <3>3 DEF DrainInv, ItemsAreHeld, ItemIsHeld, Held, Free
    <3>5. Answer(r)!Begin BY <1>2, <2>1, <2>4, <3>1, <3>4 DEF Answer!Begin
    <3> QED BY <3>5 DEF Answer!Next
  <2> QED BY <2>2, <2>3, <2>4
<1>3. CASE outbox' # outbox
  <2>1. Quietly /\ RowSteps(r) BY <1>0, <1>3, OutboxStep
  <2>2. BodiesOf(r)' = BodiesOf(r) BY <2>1 DEF Quietly, BodiesOf, Places
  <2>3. Cardinality(BodiesOf(r))' = Cardinality(BodiesOf(r)) BY <2>2
  <2>4. (started'[r] = "running") = (started[r] = "running") BY <2>1 DEF Quietly
  <2>5. CASE outbox'[r].status = outbox[r].status
    BY <2>3, <2>4, <2>5 DEF Answer!vars
  <2>6. CASE outbox[r].status = "none" /\ outbox'[r].status = "pending"
    <3>1. Answer(r)!Submit BY <2>3, <2>4, <2>6 DEF Answer!Submit, Answer!Move
    <3> QED BY <3>1 DEF Answer!Next
  <2>7. CASE GetsSpawned(r)
    <3>1. PICK i \in Drains : drains[i].at = "settle" /\ Of(i) = r BY <2>7 DEF GetsSpawned
    <3>2. started[r] = "running" BY <1>0, <3>1 DEF SpawnsAreNew, Lane
    <3>3. Answer(r)!Spawn BY <2>3, <2>4, <2>7, <3>2 DEF GetsSpawned, Answer!Spawn, Answer!Move
    <3> QED BY <3>3 DEF Answer!Next
  <2>8. CASE outbox[r].status = "pending" /\ outbox'[r].status = "delivered"
    <3>1. PICK a \in Attempts : rows'[<<r, a>>] \in {"delivered", "unknown"} BY <1>0, <2>8 DEF Ended
    <3>2. <<r, a>> \in Forms /\ <<r, a>>[1] = r BY DEF Forms
    <3>3. r \notin ToNew BY <1>0, <3>1, <3>2 DEF SpawnsAreNew
    <3>4. Answer(r)!Deliver BY <2>3, <2>4, <2>8, <3>3 DEF Answer!Deliver, Answer!Move
    <3> QED BY <3>4 DEF Answer!Next
  <2>9. CASE outbox[r].status = "pending" /\ outbox'[r].status = "cancelled"
    <3>1. started'[r] # "running" /\ \A a \in Attempts : rows'[<<r, a>>] \in Unspent BY <1>0, <2>9 DEF Ended
    <3>2. BodiesOf(r)' = {}
      <4> SUFFICES ASSUME NEW p \in BodiesOf(r)' PROVE FALSE OBVIOUS
      <4>1. input' \in [Epochs -> Seq(Keys)] BY <1>0 DEF IInv, TypeOK, QueueTypeOK
      <4>2. p \in {y \in UNION {{e} \X DOMAIN input'[e] : e \in Epochs} :
              input'[y[1]][y[2]].key = "body" /\ input'[y[1]][y[2]].of \in {r} \X Attempts}
        BY DEF BodiesOf, Places
      <4>3. PICK e \in Epochs : \E n \in 1..Len(input'[e]) :
              p = <<e, n>> /\ input'[e][n].key = "body" /\ input'[e][n].of \in {r} \X Attempts
        BY <4>1, <4>2, BodyIs
      <4>4. PICK n \in 1..Len(input'[e]) : input'[e][n].of \in {r} \X Attempts BY <4>3
      <4>5. PICK a \in Attempts : input'[e][n].of = <<r, a>> BY <4>4
      <4>6. <<r, a>> \in Forms BY DEF Forms
      <4>7. Follow(<<r, a>>)' BY <4>6 DEF OnceInv, RowsFollow
      <4> QED BY <3>1, <4>5, <4>7 DEF Follow, Unseen
    <3>3. Cardinality(BodiesOf(r)) = 0 BY <2>2, <3>2, FS_EmptySet
    <3>4. Answer(r)!Cancel BY <2>3, <2>4, <2>9, <3>1, <3>3 DEF Answer!Cancel, Answer!Move
    <3> QED BY <3>4 DEF Answer!Next
  <2> QED BY <2>1, <2>5, <2>6, <2>7, <2>8, <2>9 DEF RowSteps, Ends
<1> QED BY <1>1, <1>2, <1>3

OneBodyEach == \A r \in Responses : \A p, q \in BodiesOf(r) : p = q

\* The outbox, its drains and the prompt queue implement AnswerDelivery for every
\* answer, if no drain outlives its leases: what a member submits is typed at most once
\* or begins a new session, ends once and for all, and is not shown after that.
THEOREM EveryAnswerIsDelivered == ASSUME SlowSteps = {} PROVE Spec => AnswersAreDelivered
<1>1. Init => AnswerInv /\ \A r \in Responses : Answer(r)!Init
  <2> SUFFICES ASSUME Init PROVE AnswerInv /\ \A r \in Responses : Answer(r)!Init OBVIOUS
  <2>1. ASSUME NEW d \in Forms PROVE Sending(d)
    <3>1. d \in Deliveries BY Prompts
    <3>2. writer[d] = Off /\ queue = <<>> /\ 1..Len(<<>>) = {} BY <3>1 DEF Init, QueueInit
    <3> QED BY <3>2 DEF Sending, Pending, Busy, Off
  <2>2. ASSUME NEW r \in Responses PROVE Plain(r) BY DEF Init, Plain
  <2>3. ASSUME NEW r \in Responses PROVE Answer(r)!Init
    <3>1. BodiesOf(r) = {}
      <4>1. Places = {}
        <5>1. \A e \in Epochs : input[e] = <<>> BY DEF Init, QueueInit
        <5>2. DOMAIN <<>> = {} OBVIOUS
        <5> QED BY <5>1, <5>2 DEF Places
      <4> QED BY <4>1 DEF BodiesOf
    <3>2. Cardinality(BodiesOf(r)) = 0 BY <3>1, FS_EmptySet
    <3>3. outbox[r].status = "none" /\ started[r] = "none" BY DEF Init
    <3> QED BY <3>2, <3>3 DEF Answer!Init
  <2> QED BY <2>1, <2>2, <2>3 DEF AnswerInv
<1>2. OnceInv /\ DrainInv /\ AnswerInv /\ [Next]_vars => AnswerInv'
  BY AnswerStep DEF OnceInv
<1>3. OnceInv /\ DrainInv => OneBodyEach
  BY OneBody DEF OneBodyEach
<1>4. /\ OnceInv /\ OnceInv' /\ DrainInv /\ DrainInv' /\ AnswerInv /\ OneBodyEach' /\ [Next]_vars
      => [\A r \in Responses : [Answer(r)!Next]_(Answer(r)!vars)]_vars
  BY AnswerImplements DEF OneBodyEach
<1>5. Spec => [](OnceInv /\ DrainInv) BY DrainInvariant
<1>6. Spec => []AnswerInv BY <1>1, <1>2, <1>5, PTL DEF Spec
<1>7. Spec => [][\A r \in Responses : [Answer(r)!Next]_(Answer(r)!vars)]_vars
  BY <1>3, <1>4, <1>5, <1>6, PTL DEF Spec
<1>8. Spec => \A r \in Responses : Answer(r)!Init BY <1>1 DEF Spec
<1> QED BY <1>7, <1>8 DEF AnswersAreDelivered

-----------------------------------------------------------------------------
(***************************************************************************)
(* No answer is forgotten: while it is pending, something can be done.     *)
(***************************************************************************)
\* How far a launch has got, and what the session has by then.  Only the last process
\* that the bound allows is not followed by another.
LaunchIsOnItsWay ==
  /\ launch = "new" => spawns = 0
  /\ launch = "first" => spawns = 1 /\ Answered(First)
  /\ launch = "resume" => pty = 0 /\ status = "spawning"
  /\ status = "exited" => pty = 0 /\ launch = "none"
  /\ launch = "none" /\ status = "spawning" => pty = 0
  /\ pty = 0 => spawns < MaxSpawns
  /\ handoff => pty = 0
  /\ pty \in {0, spawns}

\* Who waits for a resume waits for one that is under way.
ResumesAreUnderWay == \A i \in Drains : Resuming(i) => launch \in {"resume", "booting"}

\* A drain at rest has no item, one that records an attempt has made it, and what it
\* has not begun nobody has made.
NothingIsKept == \A i \in Drains : drains[i].at = "idle" => drains[i].items = <<>>
RecordIsMade  == \A i \in Drains : drains[i].at = "record" => rows[<<Of(i), Item(i).attempt>>] # "none"
NothingIsMade == \A i \in Drains : \A n \in 1..Len(drains[i].items) : Ahead(i, n) => rows[NumberOf(i, n)] = "none"

\* A pending row holds an attempt only while that is in flight.
HeldRow(r, row) ==
  /\ row.status = "none" => row.held = 0
  /\ row.status = "pending" /\ row.held # 0 => rows[<<r, row.held>>] \in InFlight
HeldIsInFlight == \A r \in Responses : HeldRow(r, outbox[r])

RestInv ==
  /\ QueueAtRest /\ LaunchIsOnItsWay /\ ResumesAreUnderWay
  /\ NothingIsKept /\ RecordIsMade /\ NothingIsMade /\ HeldIsInFlight

LEMMA QueueRests ==
  ASSUME IInv, QueueAtRest, [Next]_vars
  PROVE  QueueAtRest'
<1> USE DEF IInv
<1>1. CASE UNCHANGED <<pty, queue, drainer, writer, reports>> BY <1>1, LossRests
<1>2. CASE Session \/ Resume \/ End
  <2>1. \/ Launch \/ SpawnPty(<<>>) \/ Discard \/ UNCHANGED <<pty, queue, drainer, writer, reports>>
    BY <1>2 DEF Session, LaunchDone, LaunchFails, Resume, ResumeSpawns, ResumeRuns, ResumeDone, ResumeFails,
       End, RecordEnd, queueVars
  <2>2. CASE Launch
    <3>1. Unseen(First) /\ SpawnPty(<<First>>) BY <2>2 DEF Launch, LaunchComesFirst
    <3> QED BY <3>1, SpawnRests
  <2> QED BY <1>1, <2>1, <2>2, SpawnRests, LossRests
<1>3. CASE Crash BY <1>3, LossRests DEF Crash
<1>4. ASSUME NEW d \in Forms, Attempt(d) PROVE QueueAtRest'
  <2>1. (pty # 0 /\ Admit(d)) \/ UNCHANGED queueVars BY <1>4 DEF Attempt, ClaimRow, Prompt, Settle
  <2> QED BY <1>1, <2>1, Prompts, AdmitRests DEF queueVars
<1>5. ASSUME NEW u \in Users, AskPrompt(u) \/ AdmitPrompt(u) PROVE QueueAtRest'
  <2>1. Admit(u) \/ UNCHANGED queueVars BY <1>5 DEF AskPrompt, AdmitPrompt
  <2> QED BY <1>1, <2>1, Prompts, AdmitRests DEF queueVars
<1>6. ASSUME NEW d \in Deliveries, TypingStep(d) PROVE QueueAtRest'
  BY <1>6, TypingRests DEF TypingStep
<1>7. ASSUME NEW i \in Drains, Drain(i) PROVE QueueAtRest'
  BY <1>1, <1>7, DrainQueue DEF queueVars
<1>8. CASE UNCHANGED queueVars BY <1>1, <1>8 DEF queueVars
<1> QED BY <1>2, <1>3, <1>4, <1>5, <1>6, <1>7, <1>8 DEF Next, Submit, Lapse, vars

LEMMA LaunchStep ==
  ASSUME MaxSpawns > 1, IInv, QueueAtRest, LaunchIsOnItsWay, [Next]_vars
  PROVE  LaunchIsOnItsWay'
<1> USE DEF IInv
<1>0. /\ pty \in {0} \cup Epochs /\ spawns \in 0..MaxSpawns /\ MaxSpawns \in Nat /\ spawns \in Nat
      /\ First \in Deliveries \ Users
  BY Prompts, PromptAssumption, QueueAssumption DEF TypeOK, QueueTypeOK
<1>1. ASSUME UNCHANGED <<status, launch, pty, spawns, handoff>>, KeepsAnswered PROVE LaunchIsOnItsWay'
  BY <1>0, <1>1 DEF LaunchIsOnItsWay, KeepsAnswered
<1>2. Session \/ Resume \/ End => KeepsAnswered BY SessionQueue
<1>3. CASE Launch
  <2>1. /\ spawns = 0 /\ Unseen(First) /\ SpawnPty(<<First>>) /\ launch' = "first" /\ status' = status
        /\ status # "exited"
    BY <1>3 DEF Launch, LaunchIsOnItsWay, LaunchComesFirst
  <2>2. Answered(First)' BY <2>1, SpawnRests DEF Answered
  <2>3. pty' = 1 /\ spawns' = 1 /\ handoff' = FALSE BY <2>1 DEF SpawnPty
  <2> QED BY <2>1, <2>2, <2>3 DEF LaunchIsOnItsWay
<1>4. CASE LaunchDone
  BY <1>4 DEF LaunchDone, LaunchIsOnItsWay, queueVars
<1>5. CASE LaunchFails
  BY <1>5 DEF LaunchFails, LaunchIsOnItsWay, Discard
<1>6. CASE Resume
  BY <1>6 DEF Resume, LaunchIsOnItsWay, queueVars
<1>7. CASE ResumeSpawns
  BY <1>0, <1>7 DEF ResumeSpawns, LaunchIsOnItsWay, SpawnPty
<1>8. CASE ResumeRuns
  BY <1>8 DEF ResumeRuns, LaunchIsOnItsWay, queueVars
<1>9. CASE ResumeDone
  BY <1>9 DEF ResumeDone, LaunchIsOnItsWay, queueVars
<1>10. CASE ResumeFails
  <2>1. launch' = "none" /\ status' = "exited" /\ spawns' = spawns /\ pty' = 0 /\ spawns < MaxSpawns
    <3>1. CASE launch = "resume" BY <1>10, <3>1 DEF ResumeFails, LaunchIsOnItsWay
    <3>2. CASE launch = "booting" /\ pty = 0 BY <1>10, <3>2 DEF ResumeFails, LaunchIsOnItsWay, queueVars
    <3>3. CASE launch = "booting" /\ pty # 0 BY <1>0, <1>10, <3>3 DEF ResumeFails, LaunchIsOnItsWay, Discard
    <3> QED BY <1>10, <3>1, <3>2, <3>3 DEF ResumeFails
  <2> QED BY <2>1 DEF LaunchIsOnItsWay
<1>11. CASE End
  <2>1. pty' = 0 /\ handoff' = FALSE /\ UNCHANGED <<status, launch, spawns>> /\ spawns < MaxSpawns
    BY <1>0, <1>11 DEF End, Discard, LaunchIsOnItsWay
  <2>2. launch = "first" => Answered(First)' BY <1>0, <1>2, <1>11 DEF LaunchIsOnItsWay, KeepsAnswered
  <2> QED BY <2>1, <2>2 DEF LaunchIsOnItsWay
<1>12. CASE RecordEnd
  BY <1>12 DEF RecordEnd, LaunchIsOnItsWay, queueVars
<1>13. CASE Crash
  BY <1>13 DEF Crash, ForgetQueue, LaunchIsOnItsWay
<1>14. ASSUME NEW i \in Drains, Drain(i) PROVE LaunchIsOnItsWay'
  <2>1. UNCHANGED queueVars /\ faults' \in 0..MaxFaults BY <1>14, DrainQueue
  <2>2. KeepsAnswered BY <2>1, SameQueue
  <2>3. CASE RouteToSession(i)
    BY <2>1, <2>2, <1>1, <2>3 DEF RouteToSession, LaunchIsOnItsWay, queueVars
  <2>4. CASE ~RouteToSession(i)
    <3>1. UNCHANGED <<status, launch>>
      BY <1>14, <2>4 DEF Drain, StartDrain, DrainAgain, Claim, Reserve, Record, Release, HandBack,
         Defer, FailItem, RouteToNew, SpawnEnds, SettleSpawned
    <3> QED BY <1>1, <2>1, <2>2, <3>1 DEF queueVars
  <2> QED BY <2>3, <2>4
<1>15. ASSUME NEW d \in Forms, Attempt(d) PROVE LaunchIsOnItsWay'
  <2>1. UNCHANGED <<status, launch, pty, spawns, handoff>>
    BY <1>15 DEF Attempt, ClaimRow, Prompt, Settle, Admit, queueVars
  <2> QED BY <1>1, <1>15, <2>1, AttemptQueue
<1>16. ASSUME NEW u \in Users, AskPrompt(u) \/ AdmitPrompt(u) PROVE LaunchIsOnItsWay'
  <2>1. UNCHANGED <<status, launch, pty, spawns, handoff>>
    BY <1>16 DEF AskPrompt, AdmitPrompt, Admit, queueVars
  <2> QED BY <1>1, <1>16, <2>1, UserQueue
<1>17. ASSUME NEW d \in Deliveries, TypingStep(d) PROVE LaunchIsOnItsWay'
  <2>1. UNCHANGED <<status, launch, pty, spawns, handoff>> BY <1>17 DEF TypingStep, Typing
  <2>2. KeepsAnswered BY <1>17, TypingKeeps DEF TypingStep
  <2> QED BY <1>1, <2>1, <2>2
<1>18. CASE UNCHANGED <<queueVars, faults, status, launch>>
  <2>1. KeepsAnswered BY <1>18, SameQueue, FaultsBound
  <2> QED BY <1>1, <1>18, <2>1 DEF queueVars
<1> QED
  BY <1>3, <1>4, <1>5, <1>6, <1>7, <1>8, <1>9, <1>10, <1>11, <1>12, <1>13, <1>14, <1>15, <1>16, <1>17, <1>18
  DEF Next, Session, Submit, Lapse, vars

\* How a drain may move: it stays, comes to rest, gets to an item, or goes on with its
\* first item.
Moved(j) ==
  \/ drains'[j] = drains[j]
  \/ drains'[j].at = "idle" /\ drains'[j].items = <<>>
  \/ drains'[j].at \in {"next", "claim"}
  \/ /\ drains'[j].items = drains[j].items /\ drains[j].at \notin {"idle", "claim"} /\ drains'[j].at # "idle"
     /\ drains'[j].at = "record" => rows'[<<Of(j), Item(j).attempt>>] = "pending"
     /\ drains'[j].at = "resuming" => launch' = "resume"

LEMMA DrainMoved ==
  ASSUME IInv, [Next]_vars, NEW j \in Drains
  PROVE  Moved(j)
<1>0. drains \in [Drains -> DrainStates] /\ rows \in [Forms -> RowStates]
  BY DEF IInv, TypeOK, FormTypeOK, DrainStates
<1>1. CASE drains' = drains BY <1>1 DEF Moved
<1>2. ASSUME NEW s \in {"again", "fail", "cancel"}, AfterResume(s) PROVE Moved(j)
  <2>1. drains'[j] = drains[j] \/ (drains[j].at = "resuming" /\ drains'[j] = [drains[j] EXCEPT !.at = s])
    BY <1>2 DEF AfterResume, Resuming
  <2> QED BY <1>0, <2>1 DEF Moved, DrainStates
<1>3. CASE Session \/ Resume \/ End
  <2>1. drains' = drains \/ \E s \in {"again", "fail", "cancel"} : AfterResume(s)
    BY <1>3 DEF Session, Launch, LaunchDone, LaunchFails, Resume, ResumeSpawns, ResumeRuns, ResumeDone, ResumeFails,
       End, RecordEnd, formVars
  <2> QED BY <1>1, <1>2, <2>1
<1>4. CASE Crash BY <1>4 DEF Crash, Moved
<1>5. ASSUME NEW i \in Drains, Drain(i) PROVE Moved(j)
  <2>1. ASSUME NEW s, drains' = [drains EXCEPT ![i] = s], j # i PROVE Moved(j)
    BY <1>0, <2>1 DEF Moved
  <2>2. ASSUME NEW items, Begin(i, items) PROVE Moved(j)
    <3>1. drains'[i] = [at |-> IF items = <<>> THEN "idle" ELSE "next", items |-> items]
      BY <1>0, <2>2 DEF Begin
    <3>2. j = i => Moved(j)
      <4>1. CASE items = <<>> BY <3>1, <4>1 DEF Moved
      <4>2. CASE items # <<>> BY <3>1, <4>2 DEF Moved
      <4> QED BY <4>1, <4>2
    <3> QED BY <2>1, <2>2, <3>2 DEF Begin
  <2>3. ASSUME NEW s \in Steps \ {"idle", "next", "claim"}, Step(i, s), drains[i].at \notin {"idle", "claim"},
               s = "record" => rows'[<<Of(i), Item(i).attempt>>] = "pending",
               s = "resuming" => launch' = "resume"
        PROVE  Moved(j)
    <3>1. drains'[i].items = drains[i].items /\ drains'[i].at = s BY <1>0, <2>3 DEF Step, DrainStates
    <3>2. j = i => Moved(j) BY <2>3, <3>1 DEF Moved
    <3> QED BY <2>1, <2>3, <3>2 DEF Step
  <2>4. CASE StartDrain(i) \/ DrainAgain(i)
    <3>1. \E items : Begin(i, items) BY <2>4 DEF StartDrain, DrainAgain, Claim
    <3> QED BY <2>2, <3>1
  <2>5. CASE Reserve(i)
    <3>1. drains[i].at = "next" /\ <<Of(i), Item(i).attempt>> \in Forms
      BY <2>5, AtWork DEF Reserve, Forms
    <3>2. Step(i, "release") \/ (Step(i, "record") /\ rows' = [rows EXCEPT ![<<Of(i), Item(i).attempt>>] = "pending"])
      BY <2>5 DEF Reserve
    <3>3. Step(i, "record") => rows'[<<Of(i), Item(i).attempt>>] = "pending" \/ Step(i, "release")
      BY <1>0, <3>1, <3>2
    <3> QED BY <2>3, <3>1, <3>2, <3>3 DEF Steps
  <2>6. CASE HandBack(i)
    <3>1. drains' = [drains EXCEPT ![i] = [at |-> "claim", items |-> Tail(drains[i].items)]] BY <2>6 DEF HandBack
    <3>2. j = i => drains'[j].at = "claim" BY <1>0, <3>1
    <3> QED BY <2>1, <3>1, <3>2 DEF Moved
  <2>7. CASE RouteToSession(i)
    <3>1. drains[i].at = "next" /\ (Step(i, "again") \/ Step(i, "defer") \/ (Step(i, "resuming") /\ launch' = "resume"))
      BY <2>7 DEF RouteToSession
    <3> QED BY <2>3, <3>1 DEF Steps
  <2>8. CASE Record(i) \/ Release(i) \/ Defer(i) \/ FailItem(i) \/ RouteToNew(i) \/ SpawnEnds(i) \/ SettleSpawned(i)
    <3>1. /\ drains[i].at \notin {"idle", "claim"}
          /\ Advance(i) \/ \E s \in {"release", "spawning", "settle", "fail", "cancel", "defer"} : Step(i, s)
      BY <2>8 DEF Record, Release, Defer, FailItem, RouteToNew, SpawnEnds, SettleSpawned
    <3> QED BY <2>2, <2>3, <3>1 DEF Advance, Steps
  <2> QED BY <1>5, <2>4, <2>5, <2>6, <2>7, <2>8 DEF Drain
<1> QED
  BY <1>1, <1>3, <1>4, <1>5 DEF Next, Submit, Lapse, Attempt, ClaimRow, Prompt, Settle, AskPrompt, AdmitPrompt,
     TypingStep, formVars, vars

\* Nothing waits for a resume that is over.
LEMMA ResumeStays ==
  ASSUME IInv, [Next]_vars, launch \in {"resume", "booting"}, NEW j \in Drains, Resuming(j)'
  PROVE  launch' \in {"resume", "booting"}
<1>1. ASSUME NEW s \in {"again", "fail", "cancel"}, AfterResume(s) PROVE FALSE
  <2>1. ~Resuming(j)'
    BY <1>1 DEF AfterResume, Resuming, IInv, TypeOK, FormTypeOK
  <2> QED BY <2>1
<1>2. CASE Session \/ Resume \/ End
  BY <1>1, <1>2 DEF Session, Launch, LaunchDone, LaunchFails, Resume, ResumeSpawns, ResumeRuns, ResumeDone, ResumeFails,
     End, RecordEnd
<1>3. CASE Crash BY <1>3 DEF Crash, Resuming
<1>4. ASSUME NEW i \in Drains, Drain(i) PROVE launch' \in {"resume", "booting"}
  BY <1>4 DEF Drain, StartDrain, DrainAgain, Claim, Reserve, Record, Release, RouteToSession, HandBack,
     Defer, FailItem, RouteToNew, SpawnEnds, SettleSpawned
<1> QED
  BY <1>2, <1>3, <1>4 DEF Next, Submit, Lapse, Attempt, ClaimRow, Prompt, Settle, AskPrompt, AdmitPrompt,
     TypingStep, vars

LEMMA DrainsRest ==
  ASSUME OnceInv, ResumesAreUnderWay, NothingIsKept, RecordIsMade, [Next]_vars
  PROVE  ResumesAreUnderWay' /\ NothingIsKept' /\ RecordIsMade'
<1>0. IInv BY DEF OnceInv
<1>1. ASSUME NEW j \in Drains, Resuming(j)' PROVE launch' \in {"resume", "booting"}
  <2>1. Moved(j) BY <1>0, DrainMoved
  <2> QED BY <1>0, <1>1, <2>1, ResumeStays DEF Moved, Resuming, ResumesAreUnderWay
<1>2. ASSUME NEW j \in Drains, drains'[j].at = "idle" PROVE drains'[j].items = <<>>
  <2>1. Moved(j) BY <1>0, DrainMoved
  <2> QED BY <1>2, <2>1 DEF Moved, NothingIsKept
<1>3. ASSUME NEW j \in Drains, drains'[j].at = "record" PROVE rows'[<<Of(j)', Item(j)'.attempt>>] # "none"
  <2>1. Moved(j) BY <1>0, DrainMoved
  <2>2. drains'[j].items = drains[j].items /\ drains[j].at \notin {"idle", "claim"} BY <1>3, <2>1 DEF Moved
  <2>3. Of(j)' = Of(j) /\ Item(j)' = Item(j) BY <2>2 DEF Of, Item
  <2>4. <<Of(j), Item(j).attempt>> \in Forms BY <1>0, <2>2, AtWork DEF Forms
  <2>5. CASE drains'[j] = drains[j]
    <3>1. rows[<<Of(j), Item(j).attempt>>] # "none" BY <1>3, <2>5 DEF RecordIsMade
    <3>2. rows'[<<Of(j), Item(j).attempt>>] # "none" BY <2>4, <3>1, RowKeeps DEF Keeps, Reserved
    <3> QED BY <2>3, <3>2
  <2>6. CASE rows'[<<Of(j), Item(j).attempt>>] = "pending" BY <2>3, <2>6
  <2> QED BY <1>3, <2>1, <2>5, <2>6 DEF Moved
<1> QED BY <1>1, <1>2, <1>3 DEF ResumesAreUnderWay, NothingIsKept, RecordIsMade

\* Without a claim no drain gets an item.
LEMMA ItemsFollow ==
  ASSUME IInv, [Next]_vars, ~Claims
  PROVE  \A j \in Drains : Follows(j)
<1> USE DEF IInv
<1>0. PICK k \in Drains : TRUE BY FormAssumption
<1>1. CASE drains' = drains BY <1>0, <1>1, Moves
<1>2. CASE Session \/ Resume \/ End
  <2>1. drains' = drains \/ \E s \in {"again", "fail", "cancel"} : AfterResume(s)
    BY <1>2 DEF Session, Launch, LaunchDone, LaunchFails, Resume, ResumeSpawns, ResumeRuns, ResumeDone, ResumeFails,
       End, RecordEnd, formVars
  <2> QED BY <1>0, <2>1, Moves
<1>3. CASE Crash
  <2>1. \A j \in Drains : 1..Len(drains'[j].items) = {} BY <1>3 DEF Crash
  <2> QED BY <2>1 DEF Follows
<1>4. ASSUME NEW i \in Drains, Drain(i), ~StartDrain(i), ~DrainAgain(i) PROVE \A j \in Drains : Follows(j)
  <2>1. drains[i].items # <<>>
    BY <1>4, AtWork DEF Drain, Reserve, Record, Release, RouteToSession, HandBack, Defer, FailItem, RouteToNew,
       SpawnEnds, SettleSpawned
  <2>2. \/ \E s \in Steps \ {"next", "claim"} : Step(i, s)
        \/ \E s : drains' = [drains EXCEPT ![i] = [at |-> s, items |-> Tail(drains[i].items)]]
    BY <1>4 DEF Drain, Reserve, Record, Release, RouteToSession, HandBack, Defer, FailItem, RouteToNew,
       SpawnEnds, SettleSpawned, Steps, Advance, Begin
  <2> QED BY <2>1, <2>2, Moves
<1> QED
  BY <1>1, <1>2, <1>3, <1>4 DEF Next, Claims, Submit, Lapse, Attempt, ClaimRow, Prompt, Settle, AskPrompt,
     AdmitPrompt, TypingStep, formVars, vars

\* What a claim wins has a number that no attempt has.
LEMMA WonIsNotMade ==
  ASSUME IInv, NothingIsMade, Claims
  PROVE  NothingIsMade'
<1> USE DEF IInv
<1>1. PICK i \in Drains : StartDrain(i) \/ DrainAgain(i) BY DEF Claims
<1>2. PICK scope \in SUBSET Responses, rest \in Seq(Items) :
        /\ Claim(i, scope, rest)
        /\ \A n \in 1..Len(rest) : rest = drains[i].items /\ Ahead(i, n)
  <2>1. CASE StartDrain(i)
    <3>1. PICK scope \in {Responses} \cup {{r} : r \in Responses} : Claim(i, scope, <<>>)
      BY <2>1 DEF StartDrain
    <3>2. scope \in SUBSET Responses /\ <<>> \in Seq(Items) /\ 1..Len(<<>>) = {} OBVIOUS
    <3> QED BY <3>1, <3>2
  <2>2. CASE DrainAgain(i)
    <3>1. Claim(i, Responses, drains[i].items) /\ drains[i].at = "claim" BY <2>2 DEF DrainAgain
    <3>2. \A n \in 1..Len(drains[i].items) : Ahead(i, n) BY <3>1 DEF Ahead
    <3>3. drains[i].items \in Seq(Items) BY DEF TypeOK, FormTypeOK
    <3> QED BY <3>1, <3>2, <3>3
  <2> QED BY <1>1, <2>1, <2>2
<1> DEFINE won == {r \in scope : Claimable(r)}
<1>3. PICK order \in SetToSeqs(won) : Begin(i, [n \in DOMAIN order |-> ItemOf(order[n])] \o rest)
  BY <1>2 DEF Claim
<1>4. won \in SUBSET Responses /\ \A r \in won : Claimable(r) OBVIOUS
<1> HIDE DEF won
<1> DEFINE batch == [n \in DOMAIN order |-> ItemOf(order[n])]
           items == batch \o rest
<1>5. /\ order \in Seq(won) /\ batch \in Seq(Items) /\ Len(batch) = Len(order) /\ Len(order) \in Nat
      /\ \A n \in 1..Len(order) : order[n] \in won /\ batch[n] = ItemOf(order[n])
  BY <1>4, BatchTypes, LenProperties, ElementOfSeq
<1> HIDE DEF batch
<1>6. /\ Len(items) = Len(order) + Len(rest) /\ Len(rest) \in Nat
      /\ \A n \in 1..Len(order) : items[n] = ItemOf(order[n])
      /\ \A n \in 1..Len(rest) : items[Len(order) + n] = rest[n]
  <2>1. 1..Len(batch) = 1..Len(order) /\ batch \in Seq(Items) BY <1>5
  <2>2. /\ Len(items) = Len(batch) + Len(rest) /\ Len(rest) \in Nat
        /\ \A n \in 1..Len(batch) : items[n] = batch[n]
        /\ \A n \in 1..Len(rest) : items[Len(batch) + n] = rest[n]
    BY <2>1, Joined
  <2> HIDE DEF items
  <2> QED BY <1>5, <2>1, <2>2
<1>7. /\ rows' = rows
      /\ drains' = [drains EXCEPT ![i] = [at |-> IF items = <<>> THEN "idle" ELSE "next", items |-> items]]
  BY <1>2, <1>3 DEF Claim, Begin, batch
<1> HIDE DEF items
<1>8. drains'[i].items = items /\ \A j \in Drains : j # i => drains'[j] = drains[j]
  BY <1>7 DEF TypeOK, FormTypeOK
<1>9. ASSUME NEW n \in 1..Len(items) PROVE rows'[NumberOf(i, n)'] = "none"
  <2>1. CASE n \in 1..Len(order)
    <3> DEFINE r == order[n]
    <3>4. r \in won /\ items[n] = ItemOf(r) BY <1>5, <1>6, <2>1
    <3> HIDE DEF r
    <3>5. r \in Responses /\ NextAttempt(r) \in Attempts BY <1>4, <3>4 DEF Claimable
    <3>6. items[n].of = r /\ items[n].attempt = NextAttempt(r) BY <3>4 DEF ItemOf
    <3>7. NumberOf(i, n)' = <<items[n].of, items[n].attempt>> BY <1>8 DEF NumberOf
    <3>1. r \in Responses /\ NumberOf(i, n)' = <<r, NextAttempt(r)>> /\ NextAttempt(r) \in Attempts
      BY <3>5, <3>6, <3>7
    <3>2. Latest(r) \in Nat /\ NextAttempt(r) \in Nat /\ Latest(r) < NextAttempt(r) BY <3>1, LatestNumber
    <3>3. rows[<<r, NextAttempt(r)>>] # "none" => NextAttempt(r) <= Latest(r) BY <3>1, LatestNumber
    <3> QED BY <1>7, <3>1, <3>2, <3>3
  <2>2. CASE n \notin 1..Len(order)
    <3>1. n - Len(order) \in 1..Len(rest) /\ Len(order) + (n - Len(order)) = n BY <1>5, <1>6, <2>2
    <3>2. items[n] = rest[n - Len(order)] BY <1>6, <3>1
    <3>3. NumberOf(i, n)' = NumberOf(i, n - Len(order)) /\ Ahead(i, n - Len(order))
      BY <1>2, <1>8, <3>1, <3>2 DEF NumberOf
    <3> QED BY <1>2, <1>7, <3>1, <3>3 DEF NothingIsMade
  <2> QED BY <2>1, <2>2
<1>10. ASSUME NEW j \in Drains, j # i, NEW n \in 1..Len(drains'[j].items), Ahead(j, n)'
       PROVE  rows'[NumberOf(j, n)'] = "none"
  BY <1>7, <1>8, <1>10 DEF NothingIsMade, Ahead, NumberOf
<1> QED BY <1>8, <1>9, <1>10 DEF NothingIsMade

LEMMA NotMadeStep ==
  ASSUME IInv, NothingIsMade, [Next]_vars
  PROVE  NothingIsMade'
<1> USE DEF IInv
<1>1. CASE Claims BY <1>1, WonIsNotMade
<1>2. CASE ~Claims
  <2> SUFFICES ASSUME NEW j \in Drains, NEW n \in 1..Len(drains'[j].items), Ahead(j, n)'
               PROVE  rows'[NumberOf(j, n)'] = "none"
    BY DEF NothingIsMade
  <2>1. Follows(j) BY <1>2, ItemsFollow
  <2>2. PICK k \in {0, 1} :
          /\ n + k \in 1..Len(drains[j].items) /\ Ahead(j, n + k)
          /\ drains'[j].items[n] = drains[j].items[n + k]
    BY <2>1 DEF Follows
  <2> DEFINE d == NumberOf(j, n + k)
  <2>3. NumberOf(j, n)' = d /\ d \in Forms /\ rows[d] = "none" /\ adapter[d] = "none"
    BY <2>2, ItemNumbers DEF NumberOf, NothingIsMade, ItemsAreNew
  <2>4. ASSUME NEW i \in Drains, Reserved(i, d) PROVE FALSE
    <3>1. Ahead(i, 1) /\ d = NumberOf(i, 1) /\ Reserve(i) BY <2>4 DEF Reserved
    <3>2. 1 \in 1..Len(drains[i].items) BY <3>1 DEF Ahead
    <3>3. i = j /\ n + k = 1 BY <2>2, <3>1, <3>2 DEF ItemsAreNew
    <3>4. n = 1 BY <2>2, <3>3
    <3>5. ~Ahead(i, 1)'
      <4>1. Step(i, "release") \/ Step(i, "record") BY <3>1 DEF Reserve
      <4> QED BY <4>1, Moves DEF Steps
    <3> QED BY <3>3, <3>4, <3>5
  <2> HIDE DEF d
  <2>5. Stays(d) BY <2>3, <2>4, RowMoves DEF GoesOn
  <2> QED BY <2>3, <2>5 DEF Stays
<1> QED BY <1>1, <1>2

\* What happens to a row that leaves what it holds alone.
LEMMA RowIsLeft ==
  ASSUME NEW r, NEW row \in OutboxRows, HeldRow(r, row)
  PROVE  /\ HeldRow(r, Freed(row)) /\ HeldRow(r, Deferred(row)) /\ HeldRow(r, Refused(row))
         /\ HeldRow(r, [row EXCEPT !.leased = FALSE])
         /\ HeldRow(r, [row EXCEPT !.status = "spawned", !.leased = FALSE])
         /\ row.status = "none" => HeldRow(r, [row EXCEPT !.status = "pending"])
BY DEF OutboxRows, HeldRow, Freed, Deferred, Refused, Free

\* What form_delivery_apply leaves holding its attempt has not settled.
LEMMA ApplyHolds ==
  ASSUME NEW r, NEW row \in OutboxRows, NEW a \in Attempts, row.status = "pending", row.held = a,
         rows[<<r, a>>] \in InFlight \cup Settled
  PROVE  HeldRow(r, Apply(row, a, rows[<<r, a>>]))
<1>1. a # 0 BY DEF Attempts
<1>2. CASE rows[<<r, a>>] \in Settled
  <2>1. \/ Apply(row, a, rows[<<r, a>>]).status \in {"delivered", "cancelled"}
        \/ Apply(row, a, rows[<<r, a>>]).status = "pending" /\ Apply(row, a, rows[<<r, a>>]).held = 0
    BY <1>2 DEF Apply, OutboxRows
  <2> QED BY <2>1 DEF HeldRow
<1>3. CASE rows[<<r, a>>] \notin Settled
  <2>1. Apply(row, a, rows[<<r, a>>]) = row BY <1>3 DEF Apply
  <2> QED BY <1>3, <2>1 DEF HeldRow
<1> QED BY <1>2, <1>3

LEMMA ClaimHoldsInFlight ==
  ASSUME TypeOK, NEW r \in Responses, HeldRow(r, outbox[r])
  PROVE  HeldRow(r, Claimed(r))
<1>1. Reconciled(r) \in OutboxRows BY ClaimTypes
<1>2. CASE Claimable(r)
  <2>1. Claimed(r).status = "pending" /\ Claimed(r).held = 0
    BY <1>1, <1>2 DEF Claimed, Claimable, Free, OutboxRows
  <2> QED BY <2>1 DEF HeldRow
<1>3. CASE ~Claimable(r)
  <2>1. Claimed(r) = Reconciled(r) BY <1>3 DEF Claimed
  <2> QED BY <2>1, ReconciledRow DEF HeldRow
<1> QED BY <1>2, <1>3

\* A step that leaves the row alone and takes nothing out of flight.
LEMMA HeldStays ==
  ASSUME NEW r \in Responses, HeldRow(r, outbox[r]), TypeOK, outbox'[r] = outbox[r],
         \A a \in Attempts : rows[<<r, a>>] \in InFlight => rows'[<<r, a>>] \in InFlight
  PROVE  HeldRow(r, outbox[r])'
<1>1. outbox[r].held # 0 => outbox[r].held \in Attempts BY DEF TypeOK, FormTypeOK, OutboxRows
<1> QED BY <1>1 DEF HeldRow

LEMMA HeldWithRows ==
  ASSUME NEW r, NEW row, HeldRow(r, row), rows' = rows, outbox'[r] = row
  PROVE  HeldRow(r, outbox[r])'
BY DEF HeldRow

LEMMA HeldStep ==
  ASSUME OnceInv, RestInv, [Next]_vars, NEW r \in Responses
  PROVE  HeldRow(r, outbox[r])'
<1>0. /\ IInv /\ TypeOK /\ HeldRow(r, outbox[r])
      /\ outbox \in [Responses -> OutboxRows] /\ outbox[r] \in OutboxRows /\ rows \in [Forms -> RowStates]
      /\ \A a \in Attempts : <<r, a>> \in Forms
  BY DEF OnceInv, IInv, TypeOK, FormTypeOK, RestInv, HeldIsInFlight, Forms
<1>1. CASE outbox' = outbox /\ rows' = rows BY <1>0, <1>1, HeldStays
<1>2. ASSUME NEW x \in Responses, NEW row, Put(x, row), rows' = rows, x = r => HeldRow(r, row)
      PROVE  HeldRow(r, outbox[r])'
  <2>1. CASE x = r
    <3>1. outbox'[r] = row BY <1>0, <1>2, <2>1 DEF Put
    <3> QED BY <1>2, <2>1, <3>1, HeldWithRows
  <2>2. CASE x # r
    <3>1. outbox'[r] = outbox[r] BY <1>0, <1>2, <2>2 DEF Put
    <3> QED BY <1>0, <1>2, <3>1, HeldWithRows
  <2> QED BY <2>1, <2>2
<1>3. CASE Claims
  <2>1. rows' = rows /\ (outbox'[r] = outbox[r] \/ outbox'[r] = Claimed(r))
    BY <1>3 DEF Claims, StartDrain, DrainAgain, Claim
  <2>2. HeldRow(r, Claimed(r)) BY <1>0, ClaimHoldsInFlight
  <2> QED BY <1>0, <2>1, <2>2, HeldWithRows
<1>4. ASSUME NEW i \in Drains, Reserve(i) PROVE HeldRow(r, outbox[r])'
  <2> DEFINE d == <<Of(i), Item(i).attempt>>
  <2>1. drains[i].at = "next" BY <1>4 DEF Reserve
  <2>2. 1 \in 1..Len(drains[i].items) /\ d = NumberOf(i, 1) /\ Ahead(i, 1) /\ d \in Forms
    BY <1>0, <2>1, AtWork DEF NumberOf, Ahead, Forms
  <2>3. rows[d] = "none" BY <2>2 DEF RestInv, NothingIsMade
  <2>4. outbox' = outbox /\ (rows' = rows \/ \E s : rows' = [rows EXCEPT ![d] = s]) BY <1>4 DEF Reserve
  <2> HIDE DEF d
  <2>5. \A a \in Attempts : rows[<<r, a>>] \in InFlight => rows'[<<r, a>>] = rows[<<r, a>>]
    BY <1>0, <2>2, <2>3, <2>4 DEF InFlight
  <2> QED BY <1>0, <2>4, <2>5, HeldStays
<1>5. ASSUME NEW i \in Drains, Record(i) PROVE HeldRow(r, outbox[r])'
  <2> DEFINE x == Of(i)
             a == Item(i).attempt
             held == [outbox[x] EXCEPT !.held = a]
  <2>1. drains[i].at = "record" /\ x \in Responses /\ a \in Attempts BY <1>0, <1>5, AtWork DEF Record
  <2>2. rows[<<x, a>>] \in InFlight \cup Settled
    BY <1>0, <2>1 DEF RestInv, RecordIsMade, RowStates, InFlight, Settled, Forms
  <2>3. outbox[x] \in OutboxRows BY <1>0, <2>1
  <2>4. held \in OutboxRows /\ held.held = a /\ held.status = outbox[x].status BY <2>1, <2>3 DEF OutboxRows
  <2>5. /\ rows' = rows
        /\ \/ outbox' = outbox \/ Put(x, outbox[x])
           \/ outbox[x].status = "pending" /\ Put(x, Apply(held, a, rows[<<x, a>>]))
    BY <1>5 DEF Record
  <2> HIDE DEF x, a, held
  <2>6. outbox[x].status = "pending" => HeldRow(x, Apply(held, a, rows[<<x, a>>]))
    BY <2>1, <2>2, <2>4, ApplyHolds
  <2> QED BY <1>0, <1>1, <1>2, <2>1, <2>5, <2>6
<1>6. ASSUME NEW i \in Drains, Release(i) \/ HandBack(i) \/ Defer(i) \/ FailItem(i) \/ SettleSpawned(i)
      PROVE  HeldRow(r, outbox[r])'
  <2>1. Of(i) \in Responses BY <1>0, <1>6, AtWork DEF Release, HandBack, Defer, FailItem, SettleSpawned
  <2>2. outbox[Of(i)] \in OutboxRows /\ HeldRow(Of(i), outbox[Of(i)])
    BY <1>0, <2>1 DEF RestInv, HeldIsInFlight
  <2>3. /\ rows' = rows
        /\ \/ Put(Of(i), Freed(outbox[Of(i)])) \/ Put(Of(i), Deferred(outbox[Of(i)]))
           \/ Put(Of(i), Refused(outbox[Of(i)])) \/ Put(Of(i), outbox[Of(i)])
           \/ Put(Of(i), [outbox[Of(i)] EXCEPT !.status = "spawned", !.leased = FALSE])
    BY <1>6 DEF Release, HandBack, Defer, FailItem, SettleSpawned
  <2> QED BY <1>2, <2>1, <2>2, <2>3, RowIsLeft
<1>7. ASSUME NEW d \in Forms, ClaimRow(d) PROVE HeldRow(r, outbox[r])'
  <2>1. outbox' = outbox /\ (rows' = rows \/ rows' = [rows EXCEPT ![d] = "dispatching"]) BY <1>7 DEF ClaimRow
  <2>2. \A a \in Attempts : rows[<<r, a>>] \in InFlight => rows'[<<r, a>>] \in InFlight
    BY <1>0, <2>1 DEF InFlight
  <2> QED BY <1>0, <2>1, <2>2, HeldStays
<1>8. ASSUME NEW d \in Forms, Settle(d), ~(outbox' = outbox /\ rows' = rows) PROVE HeldRow(r, outbox[r])'
  <2> DEFINE o == Outcome(d)
  <2>1. /\ d[1] \in Responses /\ d[2] \in Attempts /\ d = <<d[1], d[2]>>
        /\ rows' = [rows EXCEPT ![d] = o] /\ Put(d[1], Apply(outbox[d[1]], d[2], o))
    BY <1>8 DEF Settle, Forms
  <2>2. o \in Settled BY <1>0, <1>8, OutcomeSettles DEF Settle
  <2> HIDE DEF o
  <2>3. \A a \in Attempts : <<r, a>> # d => rows'[<<r, a>>] = rows[<<r, a>>] BY <1>0, <2>1
  <2>4. CASE d[1] # r
    <3>1. outbox'[r] = outbox[r] BY <1>0, <2>1, <2>4 DEF Put
    <3>2. \A a \in Attempts : rows'[<<r, a>>] = rows[<<r, a>>] BY <2>3, <2>4
    <3> QED BY <1>0, <3>1, <3>2, HeldStays
  <2>5. CASE d[1] = r
    <3>1. outbox'[r] = Apply(outbox[r], d[2], o) BY <1>0, <2>1, <2>5 DEF Put
    <3>2. CASE outbox[r].status # "pending" \/ outbox[r].held # d[2]
      <4>1. outbox'[r] = outbox[r] BY <3>1, <3>2 DEF Apply
      <4>2. outbox[r].held # 0 => outbox[r].held \in Attempts BY <1>0 DEF OutboxRows
      <4>3. outbox[r].status = "pending" /\ outbox[r].held # 0 =>
              rows'[<<r, outbox[r].held>>] = rows[<<r, outbox[r].held>>]
        BY <2>1, <2>3, <3>2, <4>2
      <4> QED BY <1>0, <4>1, <4>3 DEF HeldRow
    <3>3. CASE outbox[r].status = "pending" /\ outbox[r].held = d[2]
      <4>1. \/ outbox'[r].status \in {"delivered", "cancelled"}
            \/ outbox'[r].status = "pending" /\ outbox'[r].held = 0
        BY <1>0, <2>2, <3>1, <3>3 DEF Apply, OutboxRows
      <4> QED BY <4>1 DEF HeldRow
    <3> QED BY <3>2, <3>3
  <2> QED BY <2>4, <2>5
<1>9. ASSUME NEW x \in Responses, Submit(x) \/ Lapse(x) PROVE HeldRow(r, outbox[r])'
  <2>1. outbox[x] \in OutboxRows /\ HeldRow(x, outbox[x]) /\ rows' = rows
    BY <1>0, <1>9 DEF RestInv, HeldIsInFlight, Submit, Lapse
  <2>2. \/ Put(x, [outbox[x] EXCEPT !.leased = FALSE])
        \/ outbox[x].status = "none" /\ Put(x, [outbox[x] EXCEPT !.status = "pending"])
    BY <1>9 DEF Submit, Lapse, Put
  <2> QED BY <1>2, <2>1, <2>2, RowIsLeft
<1>10. /\ Session \/ Resume \/ End \/ Crash => UNCHANGED <<outbox, rows>>
       /\ \A i \in Drains : RouteToSession(i) \/ RouteToNew(i) \/ SpawnEnds(i) => UNCHANGED <<outbox, rows>>
       /\ \A d \in Forms : Prompt(d) => UNCHANGED <<outbox, rows>>
       /\ \A u \in Users : AskPrompt(u) \/ AdmitPrompt(u) => UNCHANGED <<outbox, rows>>
       /\ \A d \in Deliveries : TypingStep(d) => UNCHANGED <<outbox, rows>>
       /\ UNCHANGED vars => UNCHANGED <<outbox, rows>>
  BY DEF Session, Launch, LaunchDone, LaunchFails, Resume, ResumeSpawns, ResumeRuns, ResumeDone, ResumeFails,
     End, RecordEnd, formVars, Crash, RouteToSession, RouteToNew, SpawnEnds, Prompt, AskPrompt, AdmitPrompt,
     TypingStep, vars
<1> QED
  BY <1>1, <1>3, <1>4, <1>5, <1>6, <1>7, <1>8, <1>9, <1>10 DEF Next, Drain, Attempt, Claims

LEMMA RestStep == ASSUME MaxSpawns > 1, OnceInv, RestInv, [Next]_vars PROVE RestInv'
<1>1. IInv BY DEF OnceInv
<1> QED
  BY <1>1, QueueRests, LaunchStep, DrainsRest, NotMadeStep, HeldStep DEF RestInv, HeldIsInFlight

LEMMA RestInvariant == ASSUME MaxSpawns > 1 PROVE Spec => [](OnceInv /\ RestInv)
<1>1. Init => RestInv
  <2> SUFFICES ASSUME Init PROVE RestInv OBVIOUS
  <2>1. /\ First \in Deliveries /\ MaxSpawns \in Nat BY Prompts, QueueAssumption
  <2>2. /\ reports[First] = <<>> /\ queue = <<>> /\ Len(<<>>) = 0 /\ 1..Len(<<>>) = {}
    BY <2>1 DEF Init, QueueInit
  <2>3. QueueAtRest
    BY <2>2 DEF Init, QueueInit, QueueAtRest, LoopTypes, FirstIsReportedOnce, Unreported, NoFormWaits
  <2>4. LaunchIsOnItsWay BY <2>1 DEF Init, QueueInit, LaunchIsOnItsWay
  <2>5. \A i \in Drains : drains[i].at = "idle" /\ drains[i].items = <<>> BY DEF Init
  <2>6. ResumesAreUnderWay /\ NothingIsKept /\ RecordIsMade /\ NothingIsMade
    BY <2>2, <2>5 DEF ResumesAreUnderWay, Resuming, NothingIsKept, RecordIsMade, NothingIsMade
  <2>7. HeldIsInFlight BY DEF Init, HeldIsInFlight, HeldRow
  <2> QED BY <2>3, <2>4, <2>6, <2>7 DEF RestInv
<1>2. OnceInv /\ RestInv /\ [Next]_vars => RestInv' BY RestStep
<1>3. Spec => []OnceInv BY OnceInvariant
<1> QED BY <1>1, <1>2, <1>3, PTL DEF Spec

\* A session that does not go on has ended, or has its process and is running.
LEMMA SessionRests ==
  ASSUME OnceInv, RestInv, ~SessionCanGo, \A d \in Deliveries : At(d, "off")
  PROVE  launch = "none" /\ status # "spawning"
<1>0. /\ IInv /\ LaunchIsOnItsWay /\ launch \in {"none", "new", "first", "resume", "booting"}
      /\ First \in Deliveries /\ reports[First] \in Seq(Outcomes) /\ Len(reports[First]) <= 1
  BY Prompts DEF OnceInv, RestInv, QueueAtRest, FirstIsReportedOnce, IInv, TypeOK, QueueTypeOK, FormTypeOK
<1>1. launch # "new" BY <1>0 DEF IInv, LaunchComesFirst, LaunchIsOnItsWay, SessionCanGo
<1>2. launch \notin {"resume", "booting"} BY <1>0 DEF LaunchIsOnItsWay, SessionCanGo
<1>3. ASSUME launch = "first" PROVE FALSE
  <2>1. pty # 0 /\ reports[First] \notin {<<"delivered">>, <<"unknown">>} BY <1>3 DEF SessionCanGo
  <2>2. reports[First] = <<>>
    <3>1. Len(reports[First]) = 0 \/ Len(reports[First]) = 1
      <4> DEFINE n == Len(reports[First])
      <4>1. n \in Nat /\ n <= 1 BY <1>0, LenProperties
      <4> HIDE DEF n
      <4>2. n = 0 \/ n = 1 BY <4>1
      <4> QED BY <4>2 DEF n
    <3>2. ASSUME Len(reports[First]) = 1 PROVE FALSE
      <4>1. reports[First] = <<reports[First][1]>> /\ reports[First][1] \in Outcomes BY <1>0, <3>2
      <4> QED BY <2>1, <4>1 DEF Outcomes
    <3> QED BY <1>0, <3>1, <3>2
  <2>3. Pending(First) BY <1>0, <1>3, <2>2 DEF LaunchIsOnItsWay, Answered
  <2>4. ~Busy(writer, First) BY <1>0 DEF At, Busy
  <2>5. PICK n \in 1..Len(queue) : queue[n] = First BY <2>3, <2>4 DEF Pending
  <2>6. queue # <<>> BY <2>5
  <2>7. drainer = Idle
    BY <1>0 DEF RestInv, QueueAtRest, LoopTypes, At, Busy, IInv, TypeOK, QueueTypeOK
  <2> QED BY <1>0, <2>1, <2>6, <2>7 DEF IInv, QueueInv, LoopRuns, LaunchIsOnItsWay
<1>4. launch = "none" BY <1>0, <1>1, <1>2, <1>3
<1>5. status # "spawning" BY <1>0, <1>4 DEF LaunchIsOnItsWay, SessionCanGo
<1> QED BY <1>4, <1>5

\* An attempt that does not go on is not in flight, or is stranded.
LEMMA AttemptRests ==
  ASSUME OnceInv, RestInv, \A d \in Deliveries : At(d, "off"), NEW d \in Forms, ~AttemptCanGo(d)
  PROVE  adapter[d] \in {"none", "done"}
<1>0. IInv /\ LaunchIsOnItsWay /\ d \in Deliveries
  BY Prompts DEF OnceInv, RestInv
<1>1. adapter[d] \in {"none", "claim", "write", "wait", "refused", "done"}
  BY <1>0 DEF IInv, TypeOK, FormTypeOK
<1>2. ASSUME adapter[d] = "wait" PROVE FALSE
  <2>1. reports[d] = <<>> BY <1>2 DEF AttemptCanGo
  <2>2. Pending(d) BY <1>0, <1>2, <2>1 DEF IInv, WaitsForReport, Answered
  <2>3. PICK n \in 1..Len(queue) : queue[n] = d BY <1>0, <2>2 DEF Pending, Busy, At
  <2>4. queue # <<>> BY <2>3
  <2>5. drainer = Idle
    BY <1>0 DEF RestInv, QueueAtRest, LoopTypes, At, Busy, IInv, TypeOK, QueueTypeOK
  <2>6. pty = 0 BY <1>0, <2>4, <2>5 DEF IInv, QueueInv, LoopRuns, LaunchIsOnItsWay
  <2> QED BY <2>3, <2>6 DEF RestInv, QueueAtRest, NoFormWaits
<1> QED BY <1>1, <1>2 DEF AttemptCanGo

\* A drain that does not go on has nothing left to do.
LEMMA DrainsAreIdle ==
  ASSUME OnceInv, RestInv, launch = "none", \A i \in Drains : ~DrainCanGo(i)
  PROVE  ClaimCanGo /\ \A i \in Drains : drains[i].at = "idle" /\ drains[i].items = <<>>
<1>0. IInv /\ \A i \in Drains : drains[i].at \in Steps BY DEF OnceInv, IInv, TypeOK, FormTypeOK
<1>1. ASSUME NEW i \in Drains PROVE drains[i].at \in {"idle", "claim", "next", "resuming"}
  BY <1>0 DEF DrainCanGo
<1>2. ClaimCanGo BY <1>1 DEF ClaimCanGo
<1>3. ASSUME NEW i \in Drains PROVE drains[i].at = "idle"
  <2>1. drains[i].at # "claim" BY <1>2 DEF DrainCanGo
  <2>2. drains[i].at # "next" BY DEF DrainCanGo
  <2>3. drains[i].at # "resuming" BY DEF RestInv, ResumesAreUnderWay, Resuming
  <2> QED BY <1>1, <2>1, <2>2, <2>3
<1> QED BY <1>2, <1>3 DEF RestInv, NothingIsKept

\* A pending row has something to be claimed or adopted, unless its attempt is on
\* its way or somebody still leases it.
LEMMA ClaimFindsIt ==
  ASSUME OnceInv, RestInv, NEW r \in Responses, outbox[r].status = "pending", ~outbox[r].leased \/ outbox[r].held # 0,
         \A a \in Attempts : rows[<<r, a>>] \notin InFlight, NextAttempt(r) \in Attempts, status # "spawning"
  PROVE  Claimed(r) # outbox[r]
<1>0. /\ TypeOK /\ outbox[r] \in OutboxRows /\ Reconciled(r) \in OutboxRows
      /\ Latest(r) # 0 => Latest(r) \in Attempts
  BY ClaimTypes, LatestNumber DEF OnceInv, IInv, TypeOK, FormTypeOK
<1>1. outbox[r].held = 0
  <2>1. outbox[r].held # 0 => outbox[r].held \in Attempts BY <1>0 DEF OutboxRows
  <2> QED BY <2>1 DEF RestInv, HeldIsInFlight, HeldRow
<1>2. Reconciled(r) = outbox[r] \/ Reconciled(r).status = "delivered"
  <2>1. Latest(r) # 0 => rows[<<r, Latest(r)>>] \notin InFlight BY <1>0
  <2> QED BY <1>0, <1>1, <2>1, ReconciledRow
<1>3. CASE Reconciled(r) = outbox[r]
  <2>1. Claimable(r) BY <1>1, <1>3 DEF Claimable, Free
  <2>2. Claimed(r).leased BY <1>0, <2>1 DEF Claimed, OutboxRows
  <2> QED BY <1>1, <2>2
<1>4. CASE Reconciled(r).status = "delivered"
  <2>1. ~Claimable(r) BY <1>4 DEF Claimable, Free
  <2>2. Claimed(r).status = "delivered" BY <1>4, <2>1 DEF Claimed
  <2> QED BY <2>2
<1> QED BY <1>2, <1>3, <1>4

\* form-delivery.ts: the tick claims "everything, so a restart, a lost hook or a crash
\* between steps still ends".  While an answer is pending, no attempt for it is stranded
\* and it may have another one, the session, a prompt, an attempt, a lease or a drain can
\* take a step, whatever the drains, the other prompts, the slow steps and the faults.
THEOREM NobodyIsForgotten ==
  ASSUME MaxSpawns > 1
  PROVE  Spec => []((\E r \in Responses : outbox[r].status = "pending" /\ ~Stranded(r) /\ NextAttempt(r) \in Attempts)
                    => CanGoOn)
<1>1. ASSUME OnceInv, RestInv, NEW r \in Responses, outbox[r].status = "pending", ~Stranded(r),
             NextAttempt(r) \in Attempts, ~CanGoOn
      PROVE  FALSE
  <2>1. /\ ~SessionCanGo /\ \A d \in Deliveries : At(d, "off")
        /\ \A d \in Forms : ~AttemptCanGo(d)
        /\ \A i \in Drains : ~DrainCanGo(i)
        /\ ~(Free(outbox[r]) /\ outbox[r].leased /\ \A i \in Drains : ~Holds(i, r))
    BY <1>1 DEF CanGoOn
  <2>2. launch = "none" /\ status # "spawning" BY <1>1, <2>1, SessionRests
  <2>3. ClaimCanGo /\ \A i \in Drains : drains[i].at = "idle" /\ drains[i].items = <<>>
    BY <1>1, <2>1, <2>2, DrainsAreIdle
  <2>4. ~(Free(outbox[r]) /\ outbox[r].leased)
    <3>1. DOMAIN <<>> = {} OBVIOUS
    <3> QED BY <2>1, <2>3, <3>1 DEF Holds
  <2>5. ASSUME NEW a \in Attempts PROVE rows[<<r, a>>] \notin InFlight
    <3>1. <<r, a>> \in Forms BY DEF Forms
    <3>2. adapter[<<r, a>>] \in {"none", "done"} BY <1>1, <2>1, <3>1, AttemptRests
    <3> QED BY <1>1, <3>2 DEF Stranded
  <2>6. ~outbox[r].leased \/ outbox[r].held # 0 BY <1>1, <2>4 DEF Free
  <2>7. Claimed(r) # outbox[r] BY <1>1, <2>2, <2>5, <2>6, ClaimFindsIt
  <2>8. PICK i \in Drains : TRUE BY FormAssumption
  <2>9. DrainCanGo(i) BY <2>3, <2>7 DEF DrainCanGo
  <2> QED BY <2>1, <2>9
<1>2. OnceInv /\ RestInv =>
        ((\E r \in Responses : outbox[r].status = "pending" /\ ~Stranded(r) /\ NextAttempt(r) \in Attempts) => CanGoOn)
  BY <1>1
<1>3. Spec => [](OnceInv /\ RestInv) BY RestInvariant
<1> QED BY <1>2, <1>3, PTL
=============================================================================
