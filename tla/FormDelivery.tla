---------------------------- MODULE FormDelivery ----------------------------
(***************************************************************************)
(* Delivering the answers of a form to the session that asked, or to a new *)
(* one: the outbox (form_deliveries), the drains that claim its rows       *)
(* (form-delivery.ts, form-delivery-spawn.ts), the three calls of one      *)
(* delivery (reserve, claim, settle of session_message_deliveries) around  *)
(* the prompt queue, and the launch and resume of the session.             *)
(*                                                                         *)
(* An attempt d = <<r, a>> is one row of session_message_deliveries.  A    *)
(* drain runs in the server, one item after the other; a crash takes all   *)
(* drains, adapters and processes.  Notices, deleted sessions, envelopes   *)
(* and permissions are left out; `idle` counts as running, `failed` as     *)
(* exited.                                                                 *)
(***************************************************************************)
EXTENDS PromptQueue, FiniteSetsExt

CONSTANTS
  Drains,    \* drains that may run at one time: hooks and the tick
  ToNew,     \* responses whose form sends them to a new session
  SlowSteps, \* steps of a drain that may outlast the leases it holds, or that
             \* another drain may overtake
  GiveUpAt   \* attempts after which a refusal is final (form_delivery_max_attempts)

ASSUME FormAssumption ==
  /\ Responses # {} /\ IsFiniteSet(Responses) /\ ToNew \subseteq Responses /\ Drains # {}
  /\ SlowSteps \subseteq {"resuming", "spawning", "record", "release"} /\ GiveUpAt \in Nat \ {0}

VARIABLES
  status,   \* work_sessions.status of the session that asked
  launch,   \* how far spawn or resume has got
  outbox,   \* the row of each response
  rows,     \* session_message_deliveries.status of each attempt
  adapter,  \* the server's run of each attempt, and of each user's prompt
  drains,   \* the items each drain still has, and its step
  started   \* the new session that has the response as its first turn, under the
            \* key that the row has pinned

vars == <<queueVars, faults, status, launch, outbox, rows, adapter, drains, started>>
formVars == <<outbox, rows, adapter, drains, started>>

RowStates == {"none", "pending", "dispatching", "delivered", "unknown", "failed"}
InFlight  == {"pending", "dispatching"}
Settled   == {"delivered", "unknown", "failed"}
Steps     == {"idle", "next", "record", "release", "resuming", "again", "claim", "spawning", "settle",
              "defer", "fail", "cancel"}

\* `inject`: the session was live when the item was claimed.
Items == [of : Responses, attempt : Attempts, inject : BOOLEAN]

OutboxRows ==
  [status : {"none", "pending", "delivered", "spawned", "cancelled"},
   held : {0} \cup Attempts, leased : BOOLEAN, attempts : {0} \cup Attempts]

FormTypeOK ==
  /\ status \in {"spawning", "running", "exited"}
  /\ launch \in {"none", "new", "first", "resume", "booting"}
  /\ outbox \in [Responses -> OutboxRows]
  /\ rows \in [Forms -> RowStates]
  /\ adapter \in [Forms \cup Users -> {"none", "claim", "write", "wait", "refused", "done"}]
  /\ drains \in [Drains -> [at : Steps, items : Seq(Items)]]
  /\ started \in [Responses -> {"none", "starting", "running", "failed"}]
TypeOK == QueueTypeOK /\ FormTypeOK

Init ==
  /\ QueueInit /\ status = "spawning" /\ launch = "new"
  /\ outbox = [r \in Responses |-> [status |-> "none", held |-> 0, leased |-> FALSE, attempts |-> 0]]
  /\ rows = [d \in Forms |-> "none"]
  /\ adapter = [d \in Forms \cup Users |-> "none"]
  /\ drains = [i \in Drains |-> [at |-> "idle", items |-> <<>>]]
  /\ started = [r \in Responses |-> "none"]

-----------------------------------------------------------------------------
(***************************************************************************)
(* The session: SpawnService.spawn, resume, and its end.                   *)
(***************************************************************************)
\* spawn: the first turn is queued behind the handoff, then the process starts.
Launch ==
  /\ launch = "new" /\ launch' = "first"
  /\ SpawnPty(<<First>>) /\ UNCHANGED <<formVars, status, faults>>

\* The first turn settled as delivered and the process is there: running.
LaunchDone ==
  /\ launch = "first" /\ pty # 0 /\ reports[First] = <<"delivered">>
  /\ launch' = "none" /\ status' = "running" /\ UNCHANGED <<formVars, queueVars, faults>>

\* The process ended, the first turn did not get there, or it took too long:
\* failSession, and a kill that clears what is queued.
LaunchFails ==
  /\ launch = "first"
  /\ \/ (pty = 0 \/ reports[First] = <<"unknown">>) /\ UNCHANGED faults
     \/ Fault
  /\ launch' = "none" /\ status' = "exited" /\ Discard /\ UNCHANGED formVars

\* resume, by a member: only one of two can leave `exited`.
Resume ==
  /\ status = "exited" /\ launch = "none"
  /\ status' = "spawning" /\ launch' = "resume" /\ UNCHANGED <<formVars, queueVars, faults>>

ResumeSpawns ==
  /\ launch = "resume" /\ pty = 0 /\ launch' = "booting"
  /\ SpawnPty(<<>>) /\ UNCHANGED <<formVars, status, faults>>

Resuming(i) == drains[i].at = "resuming"
AfterResume(step) ==
  drains' = [i \in Drains |-> IF Resuming(i) THEN [drains[i] EXCEPT !.at = step] ELSE drains[i]]

\* The session counts as running before the process has outlived its boot.
ResumeRuns ==
  /\ launch = "booting" /\ status = "spawning"
  /\ status' = "running" /\ UNCHANGED <<formVars, queueVars, launch, faults>>

\* The drain that resumed frees its row, then looks at the outbox again.
ResumeDone ==
  /\ launch = "booting" /\ status = "running" /\ pty # 0
  /\ launch' = "none" /\ AfterResume("again")
  /\ UNCHANGED <<queueVars, faults, status, outbox, rows, adapter, started>>

\* It fails before it has a process, which leaves the handoff open, or while the
\* process boots, which is then killed.
ResumeFails ==
  /\ \/ launch = "resume" /\ Fault /\ handoff' \in {handoff, TRUE}
        /\ UNCHANGED <<pty, spawns, queue, drainer, writer, input, reports>>
     \/ launch = "booting" /\ pty = 0 /\ UNCHANGED <<queueVars, faults>>
     \/ launch = "booting" /\ pty \in 1..MaxSpawns - 1 /\ Fault /\ Discard
  /\ launch' = "none" /\ status' = "exited" /\ (AfterResume("fail") \/ AfterResume("cancel"))
  /\ UNCHANGED <<outbox, rows, adapter, started>>

\* The process exits, or terminate kills it.  The last one that the bound allows
\* stays: otherwise a session without a process could not be resumed.
End == pty \in 1..MaxSpawns - 1 /\ Discard /\ UNCHANGED <<formVars, status, launch, faults>>

\* handlePtyExit, terminate and, after a restart, reconcileNodeGhosts.
RecordEnd ==
  /\ pty = 0 /\ launch = "none" /\ status # "exited" /\ status' = "exited"
  /\ UNCHANGED <<formVars, queueVars, launch, faults>>

-----------------------------------------------------------------------------
(***************************************************************************)
(* The outbox, as SQL writes it.                                           *)
(***************************************************************************)
Submit(r) ==
  /\ outbox[r].status = "none" /\ launch # "new"
  /\ outbox' = [outbox EXCEPT ![r].status = "pending"]
  /\ UNCHANGED <<queueVars, faults, status, launch, rows, adapter, drains, started>>

ApplyAgain(row, a, o) ==   \* `unknown` counted as a failure
  IF row.status # "pending" \/ row.held # a \/ o \notin Settled THEN row
  ELSE IF o = "delivered" THEN [row EXCEPT !.status = "delivered", !.leased = FALSE]
  ELSE [row EXCEPT !.status = IF row.attempts >= GiveUpAt THEN "cancelled" ELSE "pending",
                   !.held = 0, !.leased = FALSE]
ApplyHolding(row, a, o) ==   \* a failure keeps its attempt
  IF row.status # "pending" \/ row.held # a \/ o \notin Settled THEN row
  ELSE IF o # "failed" THEN [row EXCEPT !.status = "delivered", !.leased = FALSE]
  ELSE [row EXCEPT !.status = IF row.attempts >= GiveUpAt THEN "cancelled" ELSE "pending",
                   !.leased = FALSE]
\* form_delivery_apply: what attempt `a` came to, on a row that holds it.
Apply(row, a, o) ==
  IF row.status # "pending" \/ row.held # a \/ o \notin Settled THEN row
  ELSE IF o # "failed" THEN [row EXCEPT !.status = "delivered", !.leased = FALSE]
  ELSE [row EXCEPT !.status = IF row.attempts >= GiveUpAt THEN "cancelled" ELSE "pending",
                   !.held = 0, !.leased = FALSE]

\* A row that is pending and holds no attempt can still be freed or cancelled.
Free(row)    == row.status = "pending" /\ row.held = 0
Freed(row)   == IF Free(row) THEN [row EXCEPT !.leased = FALSE] ELSE row
Deferred(row) == IF Free(row) THEN [row EXCEPT !.leased = TRUE] ELSE row
Refused(row) == IF Free(row) THEN [row EXCEPT !.leased = FALSE, !.status = "cancelled"] ELSE row
Put(r, row)  == outbox' = [outbox EXCEPT ![r] = row]

Unreconciled(r) == outbox[r]   \* only what has settled before counts

LatestInFlight(r) == Max({0} \cup {a \in Attempts : rows[<<r, a>>] \in InFlight})   \* only what works

\* claim_form_deliveries, first step: the latest attempt is adopted while it is
\* in flight or came to something, and one that has settled is applied.
Latest(r) == Max({0} \cup {a \in Attempts : rows[<<r, a>>] # "none"})
Reconciled(r) ==
  LET a == Latest(r)
      o == rows[<<r, a>>]
  IN  IF outbox[r].status # "pending" \/ a = 0 THEN outbox[r]
      ELSE Apply(IF o # "failed" THEN [outbox[r] EXCEPT !.held = a] ELSE outbox[r], a, o)

NextAttempt(r) == Max({outbox[r].attempts, Latest(r)}) + 1

\* Third step: a free row that nobody leases, for a live session or a handler.
Claimable(r) ==
  LET row == Reconciled(r)
  IN  /\ Free(row) /\ ~row.leased /\ NextAttempt(r) \in Attempts
      /\ r \in ToNew \/ status # "spawning"
ItemOf(r) == [of |-> r, attempt |-> NextAttempt(r), inject |-> status = "running" /\ r \notin ToNew]
Claimed(r) ==
  IF Claimable(r) THEN [Reconciled(r) EXCEPT !.leased = TRUE, !.attempts = NextAttempt(r)]
  ELSE Reconciled(r)

-----------------------------------------------------------------------------
(***************************************************************************)
(* A drain: claim, then one item after the other.                          *)
(***************************************************************************)
Item(i) == Head(drains[i].items)
Of(i)   == Item(i).of
Step(i, s) == drains' = [drains EXCEPT ![i].at = s]
Begin(i, items) ==
  drains' = [drains EXCEPT ![i] = [at |-> IF items = <<>> THEN "idle" ELSE "next", items |-> items]]
Advance(i) == Begin(i, Tail(drains[i].items))

\* Everything, or what was just submitted; the rows come in the order of creation.
\* A quick step that ends an item is not overtaken by the claim of another drain.
Claim(i, scope, rest) ==
  LET won == {r \in scope : Claimable(r)}
  IN  /\ \A j \in Drains : drains[j].at \in {"record", "release"} \ SlowSteps => Of(j) \notin scope
      /\ outbox' = [r \in Responses |-> IF r \in scope THEN Claimed(r) ELSE outbox[r]]
      /\ \E order \in SetToSeqs(won) :
           Begin(i, [n \in DOMAIN order |-> ItemOf(order[n])] \o rest)
      /\ UNCHANGED <<queueVars, faults, status, launch, rows, adapter, started>>
StartDrain(i) ==
  /\ drains[i].at = "idle"
  /\ \E scope \in {Responses} \cup {{r} : r \in Responses} : Claim(i, scope, <<>>)
  /\ outbox' # outbox
DrainAgain(i) == drains[i].at = "claim" /\ Claim(i, Responses, drains[i].items)

\* reserve: SQL writes the refusal itself when the session has ended.  When the
\* reply is lost the drain frees its row, whatever was written.
Reserve(i) ==
  LET d == <<Of(i), Item(i).attempt>>
  IN  /\ drains[i].at = "next" /\ Item(i).inject
      /\ \/ /\ status = "exited" /\ rows' = [rows EXCEPT ![d] = "failed"]
            /\ Step(i, "release") /\ UNCHANGED <<adapter, faults>>
         \/ /\ status # "exited" /\ rows' = [rows EXCEPT ![d] = "pending"]
            /\ adapter' = [adapter EXCEPT ![d] = "claim"]
            /\ Step(i, "record") /\ UNCHANGED faults
         \/ /\ Fault /\ rows' \in {rows, [rows EXCEPT ![d] = IF status = "exited" THEN "failed" ELSE "pending"]}
            /\ Step(i, "release") /\ UNCHANGED adapter
      /\ UNCHANGED <<queueVars, status, launch, outbox, started>>

\* record_form_delivery_attempt: the row holds the attempt, which may have
\* settled meanwhile.
Record(i) ==
  LET r == Of(i)
      a == Item(i).attempt
      row == outbox[r]
  IN  /\ drains[i].at = "record"
      /\ \/ /\ Put(r, IF row.status = "pending" THEN Apply([row EXCEPT !.held = a], a, rows[<<r, a>>]) ELSE row)
            /\ Advance(i) /\ UNCHANGED faults
         \/ Fault /\ Step(i, "release") /\ UNCHANGED outbox
      /\ UNCHANGED <<queueVars, status, launch, rows, adapter, started>>

Release(i) ==
  /\ drains[i].at = "release" /\ Put(Of(i), Freed(outbox[Of(i)])) /\ Advance(i)
  /\ UNCHANGED <<queueVars, faults, status, launch, rows, adapter, started>>

\* resumeFor: a live session is drained again, one that is being launched is left
\* for later, and one that ended is resumed.
RouteToSession(i) ==
  /\ drains[i].at = "next" /\ ~Item(i).inject /\ Of(i) \notin ToNew
  /\ \/ status = "running" /\ Step(i, "again") /\ UNCHANGED <<status, launch>>
     \/ status = "spawning" /\ Step(i, "defer") /\ UNCHANGED <<status, launch>>
     \/ /\ status = "exited" /\ launch = "none" /\ Step(i, "resuming")
        /\ status' = "spawning" /\ launch' = "resume"
  /\ UNCHANGED <<queueVars, faults, outbox, rows, adapter, started>>
HandBack(i) ==
  /\ drains[i].at = "again" /\ Put(Of(i), Freed(outbox[Of(i)]))
  /\ drains' = [drains EXCEPT ![i] = [at |-> "claim", items |-> Tail(@.items)]]
  /\ UNCHANGED <<queueVars, faults, status, launch, rows, adapter, started>>

\* Not now: the row gets a lease that lapses later.
Defer(i) ==
  /\ drains[i].at = "defer" /\ Put(Of(i), Deferred(outbox[Of(i)])) /\ Advance(i)
  /\ UNCHANGED <<queueVars, faults, status, launch, rows, adapter, started>>

\* failTransient: the same until the last attempt, and a key whose spawn failed is
\* forgotten; a failure that is permanent ends the row.
FailItem(i) ==
  LET r == Of(i)
      last == drains[i].at = "cancel" \/ Item(i).attempt >= GiveUpAt
  IN  /\ drains[i].at \in {"fail", "cancel"} /\ Advance(i)
      /\ Put(r, IF last THEN Refused(outbox[r]) ELSE Deferred(outbox[r]))
      /\ started' = [started EXCEPT ![r] = IF @ = "failed" /\ ~last THEN "none" ELSE @]
      /\ UNCHANGED <<queueVars, faults, status, launch, rows, adapter>>

\* spawnFor: under the key of the row the ledger replays a spawn that was made
\* before, and the session says how it went.
RouteToNew(i) ==
  LET r == Of(i)
  IN  /\ drains[i].at = "next" /\ r \in ToNew
      /\ \/ ~(Free(outbox[r]) /\ outbox[r].leased) /\ Advance(i) /\ UNCHANGED started
         \/ /\ Free(outbox[r]) /\ outbox[r].leased
            /\ Step(i, CASE started[r] = "none" -> "spawning" [] started[r] = "running" -> "settle"
                         [] started[r] = "failed" -> "fail" [] OTHER -> "defer")
            /\ started' = [started EXCEPT ![r] = IF @ = "none" THEN "starting" ELSE @]
      /\ UNCHANGED <<queueVars, faults, status, launch, outbox, rows, adapter>>
SpawnEnds(i) ==
  /\ drains[i].at = "spawning"
  /\ \/ started' = [started EXCEPT ![Of(i)] = "running"] /\ Step(i, "settle") /\ UNCHANGED faults
     \/ Fault /\ started' = [started EXCEPT ![Of(i)] = "failed"] /\ (Step(i, "fail") \/ Step(i, "cancel"))
  /\ UNCHANGED <<queueVars, status, launch, outbox, rows, adapter>>
SettleSpawned(i) ==
  LET row == outbox[Of(i)]
  IN  /\ drains[i].at = "settle" /\ Advance(i)
      /\ Put(Of(i), IF Free(row) THEN [row EXCEPT !.status = "spawned", !.leased = FALSE] ELSE row)
      /\ UNCHANGED <<queueVars, faults, status, launch, rows, adapter, started>>

-----------------------------------------------------------------------------
(***************************************************************************)
(* One attempt: W2MessageDeliveryAdapter.run around promptInternal.        *)
(***************************************************************************)
Adapt(d, s) == adapter' = [adapter EXCEPT ![d] = s]

\* claim; when it is refused or lost the attempt stays as it is, for nobody.
ClaimRow(d) ==
  /\ adapter[d] = "claim"
  /\ \/ rows' = [rows EXCEPT ![d] = "dispatching"] /\ Adapt(d, "write") /\ UNCHANGED faults
     \/ Fault /\ Adapt(d, "none") /\ rows' \in {rows, [rows EXCEPT ![d] = "dispatching"]}
  /\ UNCHANGED <<queueVars, status, launch, outbox, drains, started>>

\* promptInternal: without a process, or with a full queue, nothing is typed.
Prompt(d) ==
  /\ adapter[d] = "write" /\ d \in Forms
  /\ IF pty # 0 /\ HasRoom THEN Adapt(d, "wait") /\ Admit(d)
     ELSE Adapt(d, "refused") /\ UNCHANGED queueVars
  /\ UNCHANGED <<faults, status, launch, outbox, rows, drains, started>>

\* settle, and the trigger that tells the outbox.  A settlement that fails, or
\* comes after the lease of the attempt, leaves it dispatching.
OutcomeAsSaid(d) ==   \* the adapter's own word for it
  IF adapter[d] = "refused" THEN "refused" ELSE Head(reports[d])
Outcome(d) == IF adapter[d] = "refused" THEN "failed" ELSE Head(reports[d])
Settle(d) ==
  /\ adapter[d] = "refused" \/ (adapter[d] = "wait" /\ reports[d] # <<>>)
  /\ Adapt(d, "done")
  /\ \/ /\ rows' = [rows EXCEPT ![d] = Outcome(d)]
        /\ Put(d[1], Apply(outbox[d[1]], d[2], Outcome(d))) /\ UNCHANGED faults
     \/ Fault /\ UNCHANGED <<rows, outbox>>
  /\ UNCHANGED <<queueVars, status, launch, drains, started>>

\* execution.prompt: the check for a process, the ledger, and then the queue,
\* which takes the prompt whether or not the process is still there.
AskPrompt(u) ==
  /\ adapter[u] = "none" /\ pty # 0 /\ Adapt(u, "write")
  /\ UNCHANGED <<queueVars, faults, status, launch, outbox, rows, drains, started>>
AdmitPrompt(u) ==
  /\ adapter[u] = "write" /\ Adapt(u, "done")
  /\ IF HasRoom THEN Admit(u) ELSE UNCHANGED queueVars
  /\ UNCHANGED <<faults, status, launch, outbox, rows, drains, started>>

-----------------------------------------------------------------------------
\* A lease lapses once no drain holds the row, or while one is in a slow step
\* that is not about this row.
Holds(i, r) == \E n \in DOMAIN drains[i].items : drains[i].items[n].of = r
Lapse(r) ==
  /\ Free(outbox[r]) /\ outbox[r].leased
  /\ \A i \in Drains : Holds(i, r) => drains[i].at \in SlowSteps /\ Of(i) # r
  /\ outbox' = [outbox EXCEPT ![r].leased = FALSE]
  /\ UNCHANGED <<queueVars, faults, status, launch, rows, adapter, drains, started>>

\* The server stops and starts again: what was in memory is gone, and so are the
\* processes; a launch that was under way is failed by the reconciliation.
Crash ==
  /\ Fault /\ launch # "new" /\ spawns < MaxSpawns /\ ForgetQueue
  /\ launch' = "none"
  /\ adapter' = [d \in Forms \cup Users |-> IF adapter[d] = "none" THEN "none" ELSE "done"]
  /\ drains' = [i \in Drains |-> [at |-> "idle", items |-> <<>>]]
  /\ started' = [r \in Responses |-> IF started[r] = "none" THEN "none" ELSE "failed"]
  /\ UNCHANGED <<status, outbox, rows>>

TypingStep(d) == Typing(d) /\ UNCHANGED <<status, launch, formVars>>
Drain(i) ==
  \/ StartDrain(i) \/ DrainAgain(i) \/ Reserve(i) \/ Record(i) \/ Release(i)
  \/ RouteToSession(i) \/ HandBack(i) \/ Defer(i) \/ FailItem(i)
  \/ RouteToNew(i) \/ SpawnEnds(i) \/ SettleSpawned(i)
Attempt(d) == ClaimRow(d) \/ Prompt(d) \/ Settle(d)
Session == Launch \/ LaunchDone \/ LaunchFails \/ ResumeSpawns \/ ResumeRuns \/ ResumeDone \/ ResumeFails \/ RecordEnd

Next ==
  \/ Session \/ Resume \/ End \/ Crash
  \/ \E r \in Responses : Submit(r) \/ Lapse(r)
  \/ \E i \in Drains : Drain(i)
  \/ \E d \in Forms : Attempt(d)
  \/ \E u \in Users : AskPrompt(u) \/ AdmitPrompt(u)
  \/ \E d \in Deliveries : TypingStep(d)

Spec == Init /\ [][Next]_vars

\* What goes on by itself: the steps of the server, the tick that starts drains,
\* leases that lapse and the waits of the typing loop, each of which has a timeout.
\* Members, new answers and the end of a process owe nothing.
Progress ==
  \/ Session
  \/ \E d \in Deliveries : TypingStep(d)
  \/ \E r \in Responses : Lapse(r)
  \/ \E d \in Forms : Attempt(d)
  \/ \E i \in Drains : Drain(i)

\* What lets one of these steps be taken, read off the guards.  A drain that waits
\* for a resume, and a launch whose first turn is on its way, wait for another step.
SessionCanGo ==
  \/ launch \in {"new", "resume"} /\ pty = 0 /\ spawns < MaxSpawns
  \/ launch = "first" /\ (pty = 0 \/ reports[First] \in {<<"delivered">>, <<"unknown">>})
  \/ launch = "booting" /\ (status # "exited" \/ pty = 0)
  \/ launch = "none" /\ pty = 0 /\ status # "exited"
AttemptCanGo(d) == adapter[d] \in {"claim", "write", "refused"} \/ (adapter[d] = "wait" /\ reports[d] # <<>>)
ClaimCanGo == \A j \in Drains : drains[j].at \notin {"record", "release"}
DrainCanGo(i) ==
  \/ drains[i].at = "idle" /\ ClaimCanGo /\ \E r \in Responses : Claimed(r) # outbox[r]
  \/ drains[i].at = "claim" /\ ClaimCanGo
  \/ drains[i].at = "next" /\ (Item(i).inject \/ Of(i) \in ToNew \/ status # "exited" \/ launch = "none")
  \/ drains[i].at \notin {"idle", "claim", "next", "resuming"}
CanGoOn ==
  \/ SessionCanGo
  \/ \E d \in Deliveries : ~At(d, "off")
  \/ \E d \in Forms : AttemptCanGo(d)
  \/ \E r \in Responses : Free(outbox[r]) /\ outbox[r].leased /\ \A i \in Drains : ~Holds(i, r)
  \/ \E i \in Drains : DrainCanGo(i)

-----------------------------------------------------------------------------
(***************************************************************************)
(* Properties.                                                             *)
(***************************************************************************)
Places == UNION {{e} \X DOMAIN input[e] : e \in Epochs}
BodiesOf(r) ==
  {p \in Places :
    input[p[1]][p[2]].key = "body" /\ input[p[1]][p[2]].of \in {r} \X Attempts}

\* "Two drains racing each other all reach the terminal once": an answer is typed
\* at most once, over all attempts and all processes of the session.
ShownOnce == \A r \in Responses : Cardinality(BodiesOf(r)) <= 1

\* The records tell the truth about the terminal.  An attempt that failed, and an
\* answer that was cancelled, was never typed, so that a retry or a new session
\* repeats nothing; one that was delivered was typed and submitted.
Touched(d) == \E e \in Epochs : d \in TypedInto(e)
Entered(d) == \E e \in Epochs : [of |-> d, key |-> "enter"] \in ToSet(input[e])
RecordsAreTrue ==
  /\ \A d \in Forms : (rows[d] = "failed" => ~Touched(d)) /\ (rows[d] = "delivered" => Entered(d))
  /\ \A r \in Responses :
       /\ outbox[r].status = "delivered" => \E a \in Attempts : rows[<<r, a>>] \in {"delivered", "unknown"}
       /\ outbox[r].status = "cancelled" => started[r] # "running" /\ \A a \in Attempts : ~Touched(<<r, a>>)

\* An attempt in flight that nothing in the server works on any more.
Stranded(r) == \E a \in Attempts :
  rows[<<r, a>>] \in InFlight /\ adapter[<<r, a>>] \in {"none", "done"}

\* An answer that was submitted ends as delivered, spawned or cancelled, unless an
\* attempt is stranded by a crash or a lost call: the server never comes to rest
\* before.  No step of a behaviour can be repeated for ever under the bounds, so
\* that the answer does end when the server goes on while it can.
NeverAtRest ==
  (\E r \in Responses : outbox[r].status = "pending" /\ ~Stranded(r)) => CanGoOn /\ ENABLED Progress

\* PromptSettlementWaiter has no timeout: an attempt that waits for its report is
\* still queued or being typed, and a queue that could be drained has its loop.
WaitsForSomething ==
  /\ \A d \in Forms : adapter[d] = "wait" /\ reports[d] = <<>> => d \in ToSet(queue) \/ ~At(d, "off")
  /\ queue # <<>> /\ drainer = Idle => pty = 0 \/ handoff

\* The outbox, its drains and the queue together keep the promise of AnswerDelivery
\* to every answer: \A r \in Responses : Answer(r)!Spec, with one box for all.
Answer(r) == INSTANCE AnswerDelivery WITH
  ForNew <- r \in ToNew, state <- outbox[r].status,
  shown <- Cardinality(BodiesOf(r)), begun <- started[r] = "running"
AnswersAreDelivered ==
  /\ \A r \in Responses : Answer(r)!Init
  /\ [][\A r \in Responses : [Answer(r)!Next]_(Answer(r)!vars)]_vars
=============================================================================
