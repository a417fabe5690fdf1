------------------------- MODULE FormDeliveryTypes -------------------------
(***************************************************************************)
(* The types of FormDelivery, for any number of answers, drains, prompts,  *)
(* processes and faults.                                                   *)
(***************************************************************************)
EXTENDS FormDelivery, PromptQueueProofs, FiniteSetTheorems, WellFoundedInduction

-----------------------------------------------------------------------------
(***************************************************************************)
(* Numbers of attempts.                                                    *)
(***************************************************************************)
LEMMA Reflected ==
  ASSUME NEW n \in Int, NEW a \in Int, NEW b \in Int, ~(n - b < n - a)
  PROVE  a >= b
OBVIOUS

LEMMA MaxOfBounded ==
  ASSUME NEW N \in Nat, NEW S \in SUBSET (0..N), S # {}
  PROVE  Max(S) \in S /\ \A y \in S : y <= Max(S)
<1> DEFINE T == {N - x : x \in S}
<1>0. \A x \in S : x \in Int /\ N - x \in Nat OBVIOUS
<1>1. T \subseteq Nat /\ T # {} BY <1>0
<1> DEFINE R == OpToRel(<, Nat)
<1>2. PICK t \in T : \A y \in T : ~(<<y, t>> \in R)
  <2>1. IsWellFoundedOn(R, Nat) BY NatLessThanWellFounded
  <2> HIDE DEF R, T
  <2> QED BY <1>1, <2>1, WFMin
<1>3. \A y \in T : ~(y < t) BY <1>1, <1>2 DEF OpToRel
<1>4. PICK x \in S : t = N - x OBVIOUS
<1>5. \A y \in S : x >= y
  <2> SUFFICES ASSUME NEW y \in S PROVE x >= y OBVIOUS
  <2>1. N - y \in T OBVIOUS
  <2>2. ~(N - y < N - x) BY <1>3, <1>4, <2>1
  <2>3. N \in Int /\ x \in Int /\ y \in Int BY <1>0
  <2> HIDE DEF T, R
  <2> QED BY <2>2, <2>3, Reflected
<1> QED BY <1>5 DEF Max

LEMMA AttemptNumbers ==
  ASSUME TypeOK, NEW r \in Responses
  PROVE  /\ Latest(r) \in 0..MaxAttempts
         /\ NextAttempt(r) \in Nat /\ outbox[r].attempts < NextAttempt(r)
         /\ \A a \in Attempts : rows[<<r, a>>] # "none" => a <= Latest(r)
<1>1. MaxAttempts \in Nat BY QueueAssumption
<1>2. outbox[r].attempts \in 0..MaxAttempts BY <1>1 DEF TypeOK, FormTypeOK, OutboxRows, Attempts
<1>3. /\ Latest(r) \in 0..MaxAttempts
      /\ \A a \in Attempts : rows[<<r, a>>] # "none" => a <= Latest(r)
  <2> DEFINE S == {0} \cup {a \in Attempts : rows[<<r, a>>] # "none"}
  <2>1. S \in SUBSET (0..MaxAttempts) /\ S # {} BY <1>1 DEF Attempts
  <2>2. Latest(r) = Max(S) BY DEF Latest
  <2>3. \A a \in Attempts : rows[<<r, a>>] # "none" => a \in S OBVIOUS
  <2> HIDE DEF S
  <2> QED BY <1>1, <2>1, <2>2, <2>3, MaxOfBounded
<1>4. NextAttempt(r) \in Nat /\ outbox[r].attempts < NextAttempt(r)
  <2> DEFINE S == {outbox[r].attempts, Latest(r)}
  <2>1. S \in SUBSET (0..MaxAttempts) /\ S # {} /\ outbox[r].attempts \in S BY <1>2, <1>3
  <2>2. NextAttempt(r) = Max(S) + 1 BY DEF NextAttempt
  <2> HIDE DEF S
  <2>3. Max(S) \in 0..MaxAttempts /\ outbox[r].attempts <= Max(S) BY <1>1, <2>1, MaxOfBounded
  <2> QED BY <1>2, <2>2, <2>3
<1> QED BY <1>3, <1>4

-----------------------------------------------------------------------------
(***************************************************************************)
(* Rows and items.                                                         *)
(***************************************************************************)
LEMMA RowTypes ==
  ASSUME NEW row \in OutboxRows
  PROVE  /\ \A a, o : Apply(row, a, o) \in OutboxRows
         /\ Freed(row) \in OutboxRows /\ Deferred(row) \in OutboxRows /\ Refused(row) \in OutboxRows
         /\ \A a \in Attempts : [row EXCEPT !.held = a] \in OutboxRows
         /\ [row EXCEPT !.status = "spawned", !.leased = FALSE] \in OutboxRows
         /\ [row EXCEPT !.leased = FALSE] \in OutboxRows
         /\ [row EXCEPT !.status = "pending"] \in OutboxRows
BY DEF OutboxRows, Apply, Freed, Deferred, Refused

\* What a drain does to a row leaves its count of attempts alone.
LEMMA RowAttempts ==
  ASSUME NEW row \in OutboxRows
  PROVE  /\ \A a, o : Apply(row, a, o).attempts = row.attempts
         /\ Freed(row).attempts = row.attempts /\ Deferred(row).attempts = row.attempts
         /\ Refused(row).attempts = row.attempts
         /\ \A a \in Attempts : [row EXCEPT !.held = a].attempts = row.attempts
BY DEF OutboxRows, Apply, Freed, Deferred, Refused

LEMMA ClaimTypes ==
  ASSUME TypeOK, NEW r \in Responses
  PROVE  /\ Reconciled(r) \in OutboxRows /\ Reconciled(r).attempts = outbox[r].attempts
         /\ Claimed(r) \in OutboxRows
         /\ Claimed(r).attempts = IF Claimable(r) THEN NextAttempt(r) ELSE outbox[r].attempts
         /\ Claimable(r) => NextAttempt(r) \in Attempts /\ ItemOf(r) \in Items
<1>1. outbox[r] \in OutboxRows BY DEF TypeOK, FormTypeOK
<1>2. Latest(r) # 0 => Latest(r) \in Attempts
  BY AttemptNumbers, QueueAssumption DEF Attempts
<1>3. Reconciled(r) \in OutboxRows /\ Reconciled(r).attempts = outbox[r].attempts
  <2> DEFINE held == [outbox[r] EXCEPT !.held = Latest(r)]
  <2>1. Latest(r) # 0 => held \in OutboxRows /\ held.attempts = outbox[r].attempts
    BY <1>1, <1>2, RowTypes, RowAttempts
  <2>2. \/ Reconciled(r) = outbox[r]
        \/ Reconciled(r) = Apply(outbox[r], Latest(r), rows[<<r, Latest(r)>>])
        \/ Latest(r) # 0 /\ Reconciled(r) = Apply(held, Latest(r), rows[<<r, Latest(r)>>])
    BY DEF Reconciled
  <2> HIDE DEF held
  <2>3. ASSUME NEW row \in OutboxRows, row.attempts = outbox[r].attempts, NEW a, NEW o, Reconciled(r) = Apply(row, a, o)
        PROVE  Reconciled(r) \in OutboxRows /\ Reconciled(r).attempts = outbox[r].attempts
    <3>1. Apply(row, a, o) \in OutboxRows BY RowTypes
    <3>2. Apply(row, a, o).attempts = row.attempts BY RowAttempts
    <3> QED BY <2>3, <3>1, <3>2
  <2> QED BY <1>1, <2>1, <2>2, <2>3
<1>4. Claimable(r) => NextAttempt(r) \in Attempts BY DEF Claimable
<1>5. Claimable(r) => ItemOf(r) \in Items BY <1>4 DEF ItemOf, Items
<1>6. Claimed(r) \in OutboxRows /\ Claimed(r).attempts = IF Claimable(r) THEN NextAttempt(r) ELSE outbox[r].attempts
  BY <1>3, <1>4 DEF Claimed, OutboxRows
<1> QED BY <1>3, <1>4, <1>5, <1>6

\* The batch that a claim wins: one item for each row.
LEMMA BatchTypes ==
  ASSUME TypeOK, NEW won \in SUBSET Responses, \A r \in won : Claimable(r), NEW order \in SetToSeqs(won)
  PROVE  /\ order \in Seq(won) /\ \A m, n \in 1..Len(order) : order[m] = order[n] => m = n
         /\ [n \in DOMAIN order |-> ItemOf(order[n])] \in Seq(Items)
         /\ Len([n \in DOMAIN order |-> ItemOf(order[n])]) = Len(order)
<1>1. Cardinality(won) \in Nat
  BY FormAssumption, FS_Subset, FS_CardinalityType
<1>2. /\ order \in [1..Cardinality(won) -> won]
      /\ \A m, n \in 1..Cardinality(won) : m # n => order[m] # order[n]
  BY DEF SetToSeqs
<1>3. order \in Seq(won) /\ Len(order) = Cardinality(won) /\ DOMAIN order = 1..Len(order)
  BY <1>1, <1>2
<1>4. \A n \in 1..Len(order) : ItemOf(order[n]) \in Items
  BY <1>2, <1>3, ClaimTypes
<1> DEFINE batch == [n \in DOMAIN order |-> ItemOf(order[n])]
<1>5. batch \in [1..Len(order) -> Items] BY <1>3, <1>4
<1>6. batch \in Seq(Items) /\ Len(batch) = Len(order) BY <1>1, <1>3, <1>5
<1> QED BY <1>2, <1>3, <1>6

-----------------------------------------------------------------------------
(***************************************************************************)
(* Steps.                                                                  *)
(***************************************************************************)
\* A drain that works has an item.
HasItem == \A i \in Drains : drains[i].at \notin {"idle", "claim"} => drains[i].items # <<>>

DrainStates == [at : Steps, items : Seq(Items)]

LEMMA ItemTypes ==
  ASSUME TypeOK, NEW i \in Drains, drains[i].items # <<>>
  PROVE  /\ Item(i) \in Items /\ Of(i) \in Responses /\ Item(i).attempt \in Attempts
         /\ Item(i) = drains[i].items[1]
         /\ Tail(drains[i].items) \in Seq(Items)
<1>1. drains[i].items \in Seq(Items) BY DEF TypeOK, FormTypeOK, DrainStates
<1>2. /\ Head(drains[i].items) = drains[i].items[1] /\ drains[i].items[1] \in Items
      /\ Tail(drains[i].items) \in Seq(Items)
  BY <1>1, TailFacts
<1> QED BY <1>2 DEF Item, Of, Items

LEMMA DrainMoves ==
  ASSUME TypeOK, HasItem, NEW i \in Drains
  PROVE  /\ \A s \in Steps : Step(i, s) => drains' \in [Drains -> DrainStates]
         /\ \A items \in Seq(Items) : Begin(i, items) => drains' \in [Drains -> DrainStates] /\ HasItem'
         /\ \A s \in Steps \ {"idle", "claim"} : drains[i].items # <<>> /\ Step(i, s) => HasItem'
<1>1. drains \in [Drains -> DrainStates] BY DEF TypeOK, FormTypeOK, DrainStates
<1>2. ASSUME NEW s \in Steps, Step(i, s)
      PROVE  drains' \in [Drains -> DrainStates]
  BY <1>1, <1>2 DEF Step, DrainStates
<1>3. ASSUME NEW items \in Seq(Items), Begin(i, items)
      PROVE  drains' \in [Drains -> DrainStates] /\ HasItem'
  BY <1>1, <1>3 DEF Begin, DrainStates, Steps, HasItem
<1>4. ASSUME NEW s \in Steps \ {"idle", "claim"}, drains[i].items # <<>>, Step(i, s) PROVE HasItem'
  BY <1>1, <1>4 DEF Step, DrainStates, HasItem
<1> QED BY <1>2, <1>3, <1>4

\* A claim writes every row in its scope and starts on what it won.
LEMMA ClaimStep ==
  ASSUME TypeOK, HasItem, NEW i \in Drains, NEW scope \in SUBSET Responses,
         NEW rest \in Seq(Items), Claim(i, scope, rest)
  PROVE  FormTypeOK' /\ HasItem'
<1> DEFINE won == {r \in scope : Claimable(r)}
<1>1. outbox' = [r \in Responses |-> IF r \in scope THEN Claimed(r) ELSE outbox[r]]
  BY DEF Claim
<1>2. outbox' \in [Responses -> OutboxRows] BY <1>1, ClaimTypes DEF TypeOK, FormTypeOK
<1>3. PICK order \in SetToSeqs(won) : Begin(i, [n \in DOMAIN order |-> ItemOf(order[n])] \o rest)
  BY DEF Claim
<1>4. won \in SUBSET Responses /\ \A r \in won : Claimable(r) OBVIOUS
<1> HIDE DEF won
<1> DEFINE batch == [n \in DOMAIN order |-> ItemOf(order[n])]
<1>5. batch \in Seq(Items) BY <1>4, BatchTypes
<1> HIDE DEF batch
<1>6. batch \o rest \in Seq(Items) BY <1>5
<1>7. drains' \in [Drains -> DrainStates] /\ HasItem' BY <1>3, <1>6, DrainMoves DEF batch
<1> QED BY <1>2, <1>7 DEF Claim, TypeOK, FormTypeOK, DrainStates

LEMMA PutTypes ==
  ASSUME TypeOK, NEW r \in Responses, NEW row \in OutboxRows, Put(r, row)
  PROVE  outbox' \in [Responses -> OutboxRows]
BY DEF TypeOK, FormTypeOK, Put

LEMMA SessionTypes ==
  ASSUME TypeOK, HasItem, Session \/ Resume \/ End
  PROVE  FormTypeOK' /\ HasItem'
<1> USE DEF TypeOK, FormTypeOK
<1>1. ASSUME NEW s \in {"again", "fail", "cancel"}, AfterResume(s)
      PROVE  drains' \in [Drains -> DrainStates] /\ HasItem'
  <2>1. drains \in [Drains -> DrainStates] BY DEF DrainStates
  <2>2. s \in Steps BY DEF Steps
  <2> QED BY <1>1, <2>1, <2>2 DEF AfterResume, Resuming, HasItem, DrainStates
<1>2. CASE ResumeDone BY <1>1, <1>2 DEF ResumeDone, DrainStates
<1>3. CASE ResumeFails BY <1>1, <1>3 DEF ResumeFails, DrainStates
<1>4. CASE UNCHANGED formVars /\ (Session \/ Resume \/ End)
  <2>1. HasItem' BY <1>4 DEF formVars, HasItem
  <2>2. status' \in {"spawning", "running", "exited"} /\ launch' \in {"none", "new", "first", "resume", "booting"}
    BY <1>2, <1>3, <1>4 DEF Session, Launch, LaunchDone, LaunchFails, Resume, ResumeSpawns, ResumeRuns, ResumeDone, ResumeFails,
       End, RecordEnd
  <2> QED BY <1>4, <2>1, <2>2 DEF formVars
<1> QED BY <1>2, <1>3, <1>4 DEF Session, Launch, LaunchDone, LaunchFails, Resume, ResumeSpawns, ResumeRuns, End, RecordEnd

\* An item that is over.
LEMMA AdvanceTypes ==
  ASSUME TypeOK, HasItem, NEW i \in Drains, drains[i].items # <<>>, Advance(i)
  PROVE  drains' \in [Drains -> DrainStates] /\ HasItem'
BY ItemTypes, DrainMoves DEF Advance

LEMMA DrainTypes ==
  ASSUME TypeOK, HasItem, NEW i \in Drains, Drain(i)
  PROVE  FormTypeOK' /\ HasItem'
<1> DEFINE Good == FormTypeOK' /\ HasItem'
<1>0. drains[i].items \in Seq(Items) BY DEF TypeOK, FormTypeOK
<1>1. CASE StartDrain(i)
  <2>1. PICK scope \in {Responses} \cup {{r} : r \in Responses} : Claim(i, scope, <<>>)
    BY <1>1 DEF StartDrain
  <2>2. scope \in SUBSET Responses /\ <<>> \in Seq(Items) OBVIOUS
  <2> QED BY <2>1, <2>2, ClaimStep
<1>2. CASE DrainAgain(i)
  <2>1. Claim(i, Responses, drains[i].items) BY <1>2 DEF DrainAgain
  <2> QED BY <1>0, <2>1, ClaimStep
<1>3. drains[i].at \notin {"idle", "claim"} => /\ drains[i].items # <<>>
                                               /\ Of(i) \in Responses /\ Item(i).attempt \in Attempts
  BY ItemTypes DEF HasItem
<1>4. \A row \in OutboxRows : Of(i) \in Responses /\ Put(Of(i), row) => outbox' \in [Responses -> OutboxRows]
  BY PutTypes
<1>5. Of(i) \in Responses => outbox[Of(i)] \in OutboxRows BY DEF TypeOK, FormTypeOK
<1> USE DEF TypeOK, FormTypeOK
<1>6. CASE Reserve(i)
  <2>1. drains[i].items # <<>> /\ <<Of(i), Item(i).attempt>> \in Forms
    BY <1>3, <1>6 DEF Reserve, Forms
  <2>2. rows' \in [Forms -> RowStates]
    BY <1>6, <2>1 DEF Reserve, RowStates
  <2>3. adapter' = adapter \/ adapter' = [adapter EXCEPT ![<<Of(i), Item(i).attempt>>] = "claim"]
    BY <1>6 DEF Reserve
  <2>4. Step(i, "record") \/ Step(i, "release") BY <1>6 DEF Reserve
  <2>5. drains' \in [Drains -> DrainStates] /\ HasItem' BY <2>1, <2>4, DrainMoves DEF Steps
  <2>6. UNCHANGED <<status, launch, outbox, started>> BY <1>6 DEF Reserve
  <2> QED BY <2>2, <2>3, <2>5, <2>6 DEF DrainStates
<1>7. CASE Record(i)
  <2> DEFINE r == Of(i)
             a == Item(i).attempt
             row == outbox[r]
  <2>1. drains[i].items # <<>> /\ r \in Responses /\ a \in Attempts /\ row \in OutboxRows
    BY <1>3, <1>5, <1>7 DEF Record
  <2>2. \/ Advance(i) /\ Put(r, IF row.status = "pending" THEN Apply([row EXCEPT !.held = a], a, rows[<<r, a>>]) ELSE row)
        \/ Step(i, "release") /\ outbox' = outbox
    BY <1>7 DEF Record
  <2>3. UNCHANGED <<status, launch, rows, adapter, started>> BY <1>7 DEF Record
  <2> HIDE DEF r, a, row
  <2>4. Apply([row EXCEPT !.held = a], a, rows[<<r, a>>]) \in OutboxRows BY <2>1, RowTypes
  <2>5. outbox' \in [Responses -> OutboxRows] BY <2>1, <2>2, <2>4, PutTypes
  <2>6. drains' \in [Drains -> DrainStates] /\ HasItem'
    BY <2>1, <2>2, DrainMoves, AdvanceTypes DEF Steps
  <2> QED BY <2>3, <2>5, <2>6 DEF DrainStates
<1>8. CASE Release(i) \/ Defer(i)
  <2>1. drains[i].items # <<>> /\ Of(i) \in Responses /\ Advance(i) BY <1>3, <1>8 DEF Release, Defer
  <2>2. outbox' \in [Responses -> OutboxRows]
    BY <1>4, <1>5, <1>8, <2>1, RowTypes DEF Release, Defer
  <2>3. drains' \in [Drains -> DrainStates] /\ HasItem' BY <2>1, AdvanceTypes
  <2>4. UNCHANGED <<status, launch, rows, adapter, started>> BY <1>8 DEF Release, Defer
  <2> QED BY <2>2, <2>3, <2>4 DEF DrainStates
<1>9. CASE RouteToSession(i)
  <2>1. drains[i].items # <<>> BY <1>3, <1>9 DEF RouteToSession
  <2>2. Step(i, "again") \/ Step(i, "defer") \/ Step(i, "resuming") BY <1>9 DEF RouteToSession
  <2>3. drains' \in [Drains -> DrainStates] /\ HasItem' BY <2>1, <2>2, DrainMoves DEF Steps
  <2> QED BY <1>9, <2>3 DEF RouteToSession, DrainStates
<1>10. CASE HandBack(i)
  <2>1. drains[i].items # <<>> /\ Of(i) \in Responses /\ Tail(drains[i].items) \in Seq(Items)
    BY <1>3, <1>10, ItemTypes DEF HandBack
  <2>2. outbox' \in [Responses -> OutboxRows] BY <1>4, <1>5, <1>10, <2>1, RowTypes DEF HandBack
  <2>3. drains' = [drains EXCEPT ![i] = [at |-> "claim", items |-> Tail(drains[i].items)]]
    BY <1>10 DEF HandBack
  <2>4. drains' \in [Drains -> DrainStates] /\ HasItem'
    BY <2>1, <2>3 DEF DrainStates, Steps, HasItem
  <2> QED BY <1>10, <2>2, <2>4 DEF HandBack, DrainStates
<1>11. CASE FailItem(i)
  <2>1. drains[i].items # <<>> /\ Of(i) \in Responses /\ Advance(i) BY <1>3, <1>11 DEF FailItem
  <2>2. Put(Of(i), Refused(outbox[Of(i)])) \/ Put(Of(i), Deferred(outbox[Of(i)])) BY <1>11 DEF FailItem
  <2>3. outbox' \in [Responses -> OutboxRows] BY <1>4, <1>5, <2>1, <2>2, RowTypes
  <2>4. drains' \in [Drains -> DrainStates] /\ HasItem' BY <2>1, AdvanceTypes
  <2>5. started' = started \/ started' = [started EXCEPT ![Of(i)] = "none"] \/ started' = [started EXCEPT ![Of(i)] = started[Of(i)]]
    BY <1>11 DEF FailItem
  <2> QED BY <1>11, <2>1, <2>3, <2>4, <2>5 DEF FailItem, DrainStates
<1>12. CASE RouteToNew(i)
  <2>1. drains[i].items # <<>> /\ Of(i) \in Responses BY <1>3, <1>12 DEF RouteToNew
  <2>2. Advance(i) \/ \E s \in {"spawning", "settle", "fail", "defer"} : Step(i, s)
    BY <1>12 DEF RouteToNew
  <2>3. drains' \in [Drains -> DrainStates] /\ HasItem'
    BY <2>1, <2>2, AdvanceTypes, DrainMoves DEF Steps
  <2>4. started' = started \/ started' = [started EXCEPT ![Of(i)] = "starting"] \/ started' = [started EXCEPT ![Of(i)] = started[Of(i)]]
    BY <1>12 DEF RouteToNew
  <2> QED BY <1>12, <2>1, <2>3, <2>4 DEF RouteToNew, DrainStates
<1>13. CASE SpawnEnds(i)
  <2>1. drains[i].items # <<>> /\ Of(i) \in Responses BY <1>3, <1>13 DEF SpawnEnds
  <2>2. Step(i, "settle") \/ Step(i, "fail") \/ Step(i, "cancel") BY <1>13 DEF SpawnEnds
  <2>3. drains' \in [Drains -> DrainStates] /\ HasItem' BY <2>1, <2>2, DrainMoves DEF Steps
  <2>4. started' = [started EXCEPT ![Of(i)] = "running"] \/ started' = [started EXCEPT ![Of(i)] = "failed"]
    BY <1>13 DEF SpawnEnds
  <2> QED BY <1>13, <2>1, <2>3, <2>4 DEF SpawnEnds, DrainStates
<1>14. CASE SettleSpawned(i)
  <2>1. drains[i].items # <<>> /\ Of(i) \in Responses /\ Advance(i) BY <1>3, <1>14 DEF SettleSpawned
  <2>2. \/ Put(Of(i), [outbox[Of(i)] EXCEPT !.status = "spawned", !.leased = FALSE])
        \/ Put(Of(i), outbox[Of(i)])
    BY <1>14 DEF SettleSpawned
  <2>3. outbox' \in [Responses -> OutboxRows] BY <1>4, <1>5, <2>1, <2>2, RowTypes
  <2>4. drains' \in [Drains -> DrainStates] /\ HasItem' BY <2>1, AdvanceTypes
  <2> QED BY <1>14, <2>3, <2>4 DEF SettleSpawned, DrainStates
<1> QED BY <1>1, <1>2, <1>6, <1>7, <1>8, <1>9, <1>10, <1>11, <1>12, <1>13, <1>14 DEF Drain

LEMMA AttemptTypes ==
  ASSUME TypeOK, HasItem, NEW d \in Forms, Attempt(d)
  PROVE  FormTypeOK' /\ HasItem'
<1> USE DEF TypeOK, FormTypeOK
<1>0. d[1] \in Responses /\ d[2] \in Attempts /\ outbox[d[1]] \in OutboxRows BY DEF Forms
<1>1. HasItem' BY DEF Attempt, ClaimRow, Prompt, Settle, HasItem
<1>2. CASE ClaimRow(d)
  BY <1>1, <1>2 DEF ClaimRow, Adapt, RowStates
<1>3. CASE Prompt(d)
  BY <1>1, <1>3 DEF Prompt, Adapt
<1>4. CASE Settle(d)
  <2>1. Outcome(d) \in RowStates
    <3>1. d \in Deliveries BY DEF Deliveries
    <3>2. reports[d] # <<>> => Head(reports[d]) \in Outcomes BY <3>1, TailFacts DEF QueueTypeOK
    <3> QED BY <1>4, <3>2 DEF Settle, Outcome, RowStates, Outcomes
  <2>2. rows' \in [Forms -> RowStates] BY <1>4, <2>1 DEF Settle
  <2>3. Put(d[1], Apply(outbox[d[1]], d[2], Outcome(d))) \/ outbox' = outbox BY <1>4 DEF Settle
  <2>4. outbox' \in [Responses -> OutboxRows] BY <1>0, <2>3, RowTypes, PutTypes
  <2>5. adapter' = [adapter EXCEPT ![d] = "done"] /\ UNCHANGED <<status, launch, drains, started>>
    BY <1>4 DEF Settle, Adapt
  <2> QED BY <1>1, <2>2, <2>4, <2>5
<1> QED BY <1>2, <1>3, <1>4 DEF Attempt

\* Every step keeps the types of everything but the queue.
LEMMA StepTypes ==
  ASSUME TypeOK, HasItem, [Next]_vars
  PROVE  FormTypeOK' /\ HasItem'
<1> USE DEF TypeOK, FormTypeOK
<1>1. CASE Session \/ Resume \/ End BY <1>1, SessionTypes
<1>2. CASE Crash
  <2>1. adapter' \in [Forms \cup Users -> {"none", "claim", "write", "wait", "refused", "done"}]
    BY <1>2 DEF Crash
  <2>2. drains' = [i \in Drains |-> [at |-> "idle", items |-> <<>>]] BY <1>2 DEF Crash
  <2>3. [at |-> "idle", items |-> <<>>] \in DrainStates BY DEF DrainStates, Steps
  <2>4. drains' \in [Drains -> DrainStates] /\ HasItem' BY <2>2, <2>3 DEF HasItem
  <2>5. started' \in [Responses -> {"none", "starting", "running", "failed"}] BY <1>2 DEF Crash
  <2> QED BY <1>2, <2>1, <2>4, <2>5 DEF Crash, DrainStates
<1>3. ASSUME NEW r \in Responses, Submit(r) \/ Lapse(r) PROVE FormTypeOK' /\ HasItem'
  <2>1. outbox' = [outbox EXCEPT ![r].status = "pending"] \/ outbox' = [outbox EXCEPT ![r].leased = FALSE]
    BY <1>3 DEF Submit, Lapse
  <2>2. /\ [outbox[r] EXCEPT !.status = "pending"] \in OutboxRows
        /\ [outbox[r] EXCEPT !.leased = FALSE] \in OutboxRows
    BY DEF OutboxRows
  <2>3. outbox' \in [Responses -> OutboxRows] BY <2>1, <2>2
  <2>4. UNCHANGED drains BY <1>3 DEF Submit, Lapse
  <2> QED BY <1>3, <2>3, <2>4 DEF Submit, Lapse, HasItem
<1>4. ASSUME NEW i \in Drains, Drain(i) PROVE FormTypeOK' /\ HasItem' BY <1>4, DrainTypes
<1>5. ASSUME NEW d \in Forms, Attempt(d) PROVE FormTypeOK' /\ HasItem' BY <1>5, AttemptTypes
<1>6. ASSUME NEW u \in Users, AskPrompt(u) \/ AdmitPrompt(u) PROVE FormTypeOK' /\ HasItem'
  BY <1>6 DEF AskPrompt, AdmitPrompt, Adapt, HasItem
<1>7. ASSUME NEW d \in Deliveries, TypingStep(d) PROVE FormTypeOK' /\ HasItem'
  BY <1>7 DEF TypingStep, formVars, HasItem
<1>8. CASE UNCHANGED vars BY <1>8 DEF vars, queueVars, HasItem
<1> QED BY <1>1, <1>2, <1>3, <1>4, <1>5, <1>6, <1>7, <1>8 DEF Next
=============================================================================
