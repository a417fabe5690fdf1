# tm8: models of chat continuity, the event feed, the terminal stream and form delivery

tm8 is a workspace server on which people and agents share spaces, chats,
terminals and containers. This directory holds TLA+ models of its parts that
are hard to test, the TLC configurations that check them, and theorems checked
by TLAPS. Paths are relative to the directory that holds `src/` and `tla/`.

## 1. The system

| part | state | operations | what is hard |
|---|---|---|---|
| chat rows (`src/db/migrations/332_chat_continuity.sql`, 314, 176) | `chats`, `chat_turns`, `chat_turn_attempts`, `chat_native_bindings`, runtime `auth_sessions`, `message_parts` | post, claim, reserve, seal, issue, open, begin, acceptance, terminal, append, complete, fail, release, recover | the fence (epoch, lease, attempt number, generation) must stop every stale caller |
| fenced turn worker (`chat/fenced-turn.ts`) | one activation per claim: launch, session, reader, flags | about twenty calls and waits in a row, each with a deadline and a catch block | lost replies, late operations, a reader that runs beside the worker |
| chat orchestrator (`chat/orchestrator.ts`) | drains and pending wakes by chat | `wake`, `drain`, `reconcileOnBoot` | wakes that coalesce or are lost, crashes anywhere |
| harness adapters (`execution/src/runtime`) | a provider process and its stream | `open`, `submit`, observations, `close` | the process may die, answer late, or never |
| durable event feed (`server/src/events`) | cursors by connection and space, subscriptions | `subscribe`, `resume`, pump tick, `forget` | cursors written after an await |
| websocket transport, presence | connections, leases, presence entries | upgrade, frames, heartbeat, close | frames of one connection overlap |
| event client (`tm8-ui/src/data/real`) | socket, phase, cursor, poll and probe in flight, timers | open, close, dispatch, resume, poll, probe, reconnect | four sources of the same rows, one cursor |
| terminal host (`execution/src/pty`, `server/src/pty`) | ring of output, send buffer, subscribers, epoch; prompt queue | spawn, output, attach, snapshot, exit, deliver a prompt | replay meets live output; the process changes under a prompt |
| terminal client (`tm8-ui/src/terminal/pty`) | socket, offset, epoch, expected replay, timers, grants in flight | open, close, suspend, resume, reconnect, frames | one number must describe the screen over drops and respawns |
| container saga (`execution/src/containers`) | saga steps, provider resources | provision, compensate | a step that fails in the middle |
| spawn and resume (`spawn/SpawnService.ts`) | session rows, handoffs | spawn, resume, terminate, reconcile | prompts that arrive while a process is replaced |
| worktrees | git worktrees | create, reconcile, remove | file system and rows disagree after a crash |
| scheduler and sweeps (`server/src/scheduler`) | job rows, leases | loops, reaper, uploads, retention | a job that overlaps itself |
| form delivery (`facade/services/w2`, migrations 214, 215, 221, 253, 146) | outbox rows, delivery attempts, leases | submit, claim, reserve, record, settle, release, defer | a retry of what was already typed |
| workspace service, identity, credentials, sidecar, facade, CLI, UI | rows, files, caches | request handlers | mostly one transaction each |

How they meet. A post commits a `queued` turn; the facade's post-commit hook
wakes the orchestrator of the node that handled it. The orchestrator's drain
claims turns one by one and runs `executeFencedTurn` for each. The worker calls
PostgreSQL functions, each of which locks the chat row and checks the fence,
and drives a provider process through a harness adapter. Its provider acts on
the graph with the runtime grant of the claim. Every committed change is
captured in the event log, which the pump delivers to sockets. At boot a node
reconciles the turns its predecessor left behind.

Agents that are not chats run in terminals. `SpawnService` starts a process in
`PtyHostService`, browsers attach to its output over a socket, and prompts are
typed into it from a queue. An answer to a form is such a prompt: a row of the
outbox is claimed by a drain, reserved as an attempt, queued, typed and settled;
when its session has ended, the drain resumes it or starts another one.

`PROJECT.json` lists the components with what is modelled of each, and the
hazards of the code at their lines.

What makes each part correct, in short:
- chat: an input is handed to a provider at most once, in posting order, under
  its own turn; what is recorded of a delivery is true; a settled turn stays
  settled; authority ends with the turn; every queued turn is settled.
- event feed: a subscriber sees a gapless suffix of what it may read, in order,
  and nothing twice unless it resumes; a closed connection leaves nothing.
- event client: it applies every row past its first mark that it may read, in
  order and once, whatever the socket does.
- terminal: whatever happens to its sockets, a viewer's screen is the stream and
  its offset is where the screen ends; a prompt's body and Enter are not mixed
  with another's and go into one process.
- form delivery: an answer is typed at most once, over all attempts and
  processes; what is recorded of it is true; it is not forgotten.
- container saga: a failed provisioning leaves no resource behind.
- sweeps: two runs of a job do not do its work twice.

## 2. Plan

1. `ChatTurns`, `ChatContinuity`: the chat core, its runs and its safety
   proofs (done; sections 3 to 6).
2. `EventServer`, `EventFeed`: the feed's server side, and the client composed
   with it (done; types, `LiveIsExact`, `AppliedInOrder` and `OnlySubscribesLose`
   proved). To come: an abstract feed (a log and a reader's position) that the
   server implements for a connection which only subscribes.
3. Refinement proof: `ChatContinuity` implements `ChatTurns`; `CompletedIsProved`,
   whose invariant adds the reader's knowledge; `OneSession`, `SecondDoneIsLate` (done).
4. Several chats on a node: one failing recovery stops the others.
5. `PtyHost`, `PtyClient`: the terminal's output (done, every safety property
   proved); `PromptQueue`, `FormDelivery`: prompts and answers (done; types and
   every safety property proved, `ShownOnce` and `RecordsAreTrue` under the
   assumption on slow steps that their run makes; that no answer is forgotten proved); `AnswerDelivery`, which
   `FormDelivery` implements for every answer (done, the refinement proved under
   the same assumption).
6. `ContainerSaga`, then the sweeps that hold leases (loops, reaper).
7. Pure functions checked over small inputs: history budget
   (`chat/continuity.ts`), workspace command reducer.

Bounds as in section 4: two or three actors of each kind, one fault or crash
budget of one or two. Properties come from the hazards; each has a mutant.

## 3. Modules and the code

| module | models |
|---|---|
| `ChatTurns` | what a chat promises of the inputs posted to it: posting order, one hand-over, requeue only before the point of no return |
| `ChatContinuity` | one chat: rows, workers, readers, provider processes, drains, boots |
| `MCChatContinuity` | symmetry sets and the bound of `ChatNodes` for TLC |
| `ChatContinuityTypes` | the inductive invariant `IInv` and the proof of type correctness |
| `ChatContinuitySteps` | what the steps do to `IInv` |
| `ChatContinuityProofs` | induction and the theorems |
| `EventServer` | one space's log, its connections, their control frames, the pump, presence |
| `MCEventServer` | scripts of frames for TLC |
| `EventFeed` | extends `EventServer` with the client: the connection manager of the user interface |
| `MCEventFeed` | connections and hidden rows for TLC |
| `EventFeedProofs` | types, what a subscriber is sent, what is on its way to a client |
| `PtyHost` | the output of one terminal session on the server: ring, fan-out, processes, upgrades |
| `PtyClient` | extends `PtyHost` with the browser's transport |
| `PtyClientProofs` | dialling, runs of frames, what a viewer shows |
| `AnswerDelivery` | what is promised of one answer: typed at most once or begun as a new session, one end, cancelled only unseen |
| `PromptQueue` | the prompt queue of one session and the typing of a prompt |
| `FormDelivery` | extends `PromptQueue` with the outbox, its drains, attempts, launch and resume |
| `MCFormDelivery` | symmetry of the drains for TLC |
| `PromptQueueProofs` | what every step of the queue keeps |
| `FormDeliveryTypes`, `FormDeliveryProofs` | types, the inductive invariant and the theorems |

### The chat core

State of `ChatContinuity`:

| variable | code |
|---|---|
| `turn` | `chat_turns`: state, queue time `at`, `turn_ordinal`, `attempt_no`, claimed configuration, `execution_snapshot_id` |
| `chat` | `chats`: `runtime_epoch`, owner node and boot, lease, `runtime_phase`, active snapshot, next ordinal, desired configuration |
| `att` | `chat_turn_attempts`: phase, terminal proof with the number of its `done` part, and whether it was opened and begun |
| `binding`, `grant` | native generations and runtime `auth_sessions` |
| `parts` | the rows of `message_parts` that end a turn, by snapshot: the `done` part of the adapter, the one of the server, and the error part of the failure branch |
| `exec` | an activation of `executeFencedTurn`: program counter, operation in flight, reader, local variables; `seq` and `num` are the next part number and the one of the reader's terminal, counted from the number that the failure branch takes first |
| `prov` | the session's process: alive, input received, terminal |
| `node` | the orchestrator's drain, `pendingWakes`, the boot reconciliation and the row it recovers |
| `clock` | `now()` of posting transactions |

One name for many. A claim raises `runtime_epoch`, mints one lease token, seals
at most one snapshot, reserves at most one generation and mints at most one
grant. All are indexed by the epoch, so a stale lease, snapshot or generation
is a stale epoch. `Owned` is `internal.chat_lock_owned`.

Steps. A PostgreSQL function is one action, guard and all: it locks the chat
row first. Between two calls anything may happen. A call whose guard fails is
refused (`CallFails`); a call whose guard holds may fail before it commits
(`Fault` in `CallFails`) or after (`Fault` in `Returns`). `ThrowFrom` says where
the throw lands. `prepare` and `open` run beside the worker (`op`), because the
code leaves them running when their deadline passes. The reader
(`Consumer`) is the promise chain `observed`. The claim keeps the code's two
picks: `ClaimPick` is the turn of the lowest ordinal that is stamped and whose
input the worker gets; `ClaimRun` is the turn of the earliest queue time that
the nested 314 function sets running.

A crash kills the node's workers, readers and provider processes and starts the
next boot. Leases may run out at any time when `LeaseCanExpire` holds, which
stands for a missing heartbeat.

Operators commented as mutations are plausible bugs, used only to show that the
runs would notice them.

### The event feed

| variable | code |
|---|---|
| `lastSeq` | `space_event_seq.last_seq`; an event is its seq |
| `sock` | `WsConnection.state`, and `new` before the upgrade |
| `subscribed` | `SubscriptionRegistry.bySpace` for the space |
| `cursor` | the pump's `cursors`; `Unseeded` is no entry |
| `tick` | the pump's running tick: connections left, the one being read, its page |
| `up`, `down` | frames and messages on their way |
| `jobs` | handlers of frames that wait at an await: authorization, read, then the effect |
| `viewing` | connections with an entry in the presence store |
| `open`, `seen`, `epoch` | the manager's `open`, `cursors`, `prepareEpochs` |
| `conn`, `ready`, `lost` | `socket`, `socket.isOpen()`, `disconnectedAtMs` |
| `accel`, `pollTimer`, `poll`, `probe` | the timers and requests in flight |
| `base`, `applied`, `hist` | history: where the space was first opened, what the listeners got, what each connection asked for |

Steps. The code between two awaits is one action. A frame is handled up to its
first await by `Receive`; `main.ts` drops the handler's promise, so the handlers
of one connection are a set of jobs that go on in any order. A page is
determined by its `since` and by the last seq examined (`PageTop`); rows of
`Hidden` are examined and not returned, as rows are that the mapper skips. Rows that
row-level security hides are not examined by the code, and are not modelled. The pump's tick is `TickStarts`,
`TickTakes`, `PumpReads`, `PumpSends`; there is one `tick`, which is the
`running` guard. `Finish` is the terminal transition, whatever led to it
(heartbeat, idle or absolute timeout, close by either side).

The client's handlers are one action each; the assignments they share are
`Closes` (`handleClose`), `Connects`, `StartsPoll`, `Applies` (`dispatch`).
Timers fire at any time once armed. When the client gives a socket up, the
server closes it in the same step, which hides only what the server does for a
client that is gone; `EventServer` alone has those steps.

### The terminal stream

| variable | code |
|---|---|
| `epoch`, `spawns` | the session's `PtyEntry`; epochs are counted |
| `made`, `chunks` | `OutputBuffer.totalBytes`, and where each retained chunk begins |
| `unsent` | `sendBuf` |
| `srv` | a connection: asked (awaits its authorization), snapshot (`pendingSubscribers`), live (`subscribers`) |
| `wire`, `browser` | frames on their way, and the browser's end |
| `active`, `suspended`, `exited`, `refused` | `_activeSessions`, `_suspended`, `_exitedSessions`, `_refusals` |
| `timer`, `connecting`, `generation`, `requests` | `_reconnectTimers`, `_connecting`, `_connectGenerations`, grants in flight |
| `current`, `received`, `seen`, `expected` | `_sockets`, `_received`, `_epochs`, `_pendingReplay` |
| `screen` | what the terminal shows: the interval of bytes painted so far, of which stream, and whether without a break |

Output is named by its offset, so a frame is an interval and a snapshot of the
first `n` bytes is the interval from 0 to `n`. An attach runs without an await
from the replay to the join, and is one action; before it lies the await of the
authorization, after it, on the gap path, the await of the snapshot. `Cut` stands for the
network and for the closes of a slow, silent or old connection. A refused
upgrade reaches the browser as a close without a code, like a drop.

### Prompts and form delivery

| variable | code |
|---|---|
| `pty`, `spawns`, `handoff` | the live process, `promptHandoffs` |
| `queue`, `drainer`, `writer` | `pendingPrompts`, its loop, and where `writePromptToEntry` is for each prompt; a loop whose queue was thrown away goes on until it looks at its process |
| `input`, `reports` | history of what was typed into each process; what `onPromptSettled` said |
| `status`, `launch` | `work_sessions.status`; the step of `spawn` or `resume` |
| `outbox` | `form_deliveries`: status, `delivery_id` as `held`, `claimed_at` as `leased`, attempts |
| `rows`, `adapter` | `session_message_deliveries.status` and `W2MessageDeliveryAdapter.run`, by attempt |
| `drains` | the items each `drain` still has, and the call it is at |
| `started` | the session spawned for an answer under the key the row has pinned |

A SQL function is one action, and so is the stretch of the typing loop between
two waits. The agent decides whether it becomes ready, shows a body or takes an
Enter. A lease is held or not: `Lapse` ends it when no drain is at work on the
row, or while its drain is busy with another item in one of `SlowSteps`. A nested
drain (`drainSession`) puts its items before those of the drain that called it.
`Crash` takes processes, loops, adapters and drains; rows stay.

`Answer(r)` reads an `AnswerDelivery` for the answer `r` out of this state: its
status is that of the outbox row, it was shown as often as a body of one of its
attempts was typed, and it has begun a session while the one started for it
runs. The abstract guards are what the code has no single place for: by the time
the outbox says `cancelled`, no queue, adapter or process may have typed the answer
or be about to.

## 4. Runs

The chat runs use `MCChatContinuity`. Deadlock checking is off in all of them: a chat
with nothing queued has nothing to do, and the epoch bound stops the rest. It is
on in the runs of the event feed, where the pump always has a next tick, and off
for terminals and answers: a terminal nobody watches, and an outbox with nothing
pending, may rest. `NeverAtRest` says when they may not.

| run | instance | shows |
|---|---|---|
| `ChatFaults` | 1 turn, 1 node, 2 boots, 1 fault, slow closes, fair | types; `NotSentIsTrue`, `BegunIsNotRetried`, `CompletedIsProved` survive a lost reply, a failed call and a crash at every point; `SecondDoneIsLate`: a second done part has one way in; `EveryTurnSettles`, `DrainedAfterBoot`, `AbandonedIsRecovered` but for the cases they name |
| `ChatOverlap` | 2 turns posted in overlapping transactions, 4 epochs, 2 boots | `DeliveredOnce`, `InputOfTurn`, `DeliveredInOrder`, `OneSession`, `SettledStays` although the claim orders turns in two ways; `QueuedHasTaker`: no wake is lost between a drain's last claim and its end; `ChatContinuity` implements `ChatTurns` |
| `ChatNodes` | 1 turn, 2 configurations, 2 nodes with 2 boots each, leases run out | `GrantIsFenced`, `EffectsOfRunningTurn`, `AttemptsAreFinal` with a stale worker alive; `RetryKeepsConfiguration` |
| `ChatTwoDone` | 1 turn, no crash, no fault, slow closes; see section 7 | TLC finds the counterexample to `AtMostOneDone` |
| `FeedFrames` | 2 connections, one that subscribes and leaves, one that subscribes or is present; 3 rows, the second hidden; pump pages of 2; 1 fault; fair | `LiveIsExact`: without a replay a subscriber is sent the readable rows after its mark, each once; `EveryoneIsServed`: neither a failed read nor an unreadable page nor another connection's close stops a cursor |
| `FeedClient` | client, 2 sockets, 2 rows, pages of 1 | `AppliedInOrder`; `OnlySubscribesLose`: whatever is lost lies at or below a subscribe's mark |
| `FeedConverges` | client, 1 socket, 1 row, 1 fault, probe, fair | `Converges` |
| `FeedGap` | client, 1 socket, 2 rows; see section 7 | TLC finds the counterexample |
| `TerminalStream` | 2 sockets, a terminal mounted twice, 2 processes of 4 and 1 bytes, a ring of the last chunk, snapshots that may wait for 1 byte, 1 fault; fair | `ScreenIsStream`, `FirstIsWhole`, `ExitIsLast`, `SuspendedIsQuiet`; `CatchesUp`: a viewer who stays is shown the end |
| `TerminalTwice` | the same terminal without faults, mounted again while a grant request is in flight; see section 7 | TLC finds the counterexample to `OneSocket` |
| `Delivery` | 2 answers, one for a new session, 2 drains, 5 attempts, a pasted prompt, a queue of 1, 2 processes, 1 fault | `ShownOnce`, `RecordsAreTrue`, `Unmixed`, `OneTerminal`, `WaitsForSomething`, `NeverAtRest`; `FormDelivery` implements `AnswerDelivery` for both answers (`AnswersAreDelivered`) |
| `FormTwice` | 2 answers, 2 drains, no fault, launches slower than a lease; see section 7 | TLC finds the counterexample |

Bounds of the chat runs. `MaxEpoch` counts claims and recoveries. A turn needs an epoch for its
claim, one for its recovery and one for its retry, so three let one turn be
claimed, recovered and run again, and four let a second turn follow; five, with
three boots, let a turn be recovered twice. Two turns are enough for order: the
properties relate a turn to the turns before it. Two nodes are enough for a
stale owner and a new one. One fault hits every call in turn. `Overlap`, `LeaseCanExpire`
and `SlowClose` switch on what a run is about. `ChatNodes` bounds the change of
configuration (`ChangeBound`): it comes after the first claim, before which it would only rename the
revisions, and then at most one of the two nodes reboots; without a change both
do. The proofs cover all values of
all of them.

Bounds of the feed runs. Pages of one or two rows against two or three make a
page a part of the log, which is when a cursor written after an await matters.
Two sockets are an old one and its replacement; with none left the client stays
on its polls. `FeedConverges` has one row and one fault, so that each of the
server, the poll and the probe may be the one that fails. The client opens its
space once in all runs (`MaxOpens`): a space that is closed while frames of its
connection are under way and opened again has the loss of `FeedGap` in one more
form, which `OnlySubscribesLose` excludes (`opens = 1`). Reopening with one row
was explored without a run of its own, and applies nothing twice.

Bounds of the terminal run. Four bytes in chunks of one, a ring that retains only
its last chunk, a send buffer flushed at two and a backlog of one make every case
happen: an offset in the ring, one behind it, one past the end of a new stream,
output that is retained and not yet sent, a backlog that overflows. The second
process writes one byte, so that its output is short of an old offset;
`HeadIsPainted` (section 7) is what happens when it is not. Two sockets are an
old one and its successor.

Bounds of the delivery run. An answer may fail once and be given up at its second
failure (`GiveUpAt`); `MaxAttempts` leaves room for the attempts that refusals
and lost replies add on top, and is large enough that no answer stops because of
it. Two processes are a session and its resumption; the last one does not end.
With `SlowSteps` empty a drain is faster than its leases. A body is written once
and an Enter pressed once (`BodyAttempts`, `SubmitAttempts`), which keeps the run
under a million states; both repeated, and no member's prompt beside the answers,
was explored without a run of its own and passes. The theorems on the queue
(section 6) hold for any number of repetitions.

`OneSession` is checked with leases that hold: when a lease runs out under a
live worker, the recovery by a peer does not wait for that worker's process, and
two may run for a while. The peer's grant and the fence keep the older one from
having effects (`EffectsOfRunningTurn`, which is checked with expiring leases).

The liveness of `ChatFaults` is stated up to named exceptions. `EveryTurnSettles` lets
a queued turn wait if a call fails (nothing repeats a wake) or in one of three states (`Stranded`) which
section 7 describes: `ClosedUnsealed`, `Unrecoverable`, `GivenUp`. The other two
start at a boot and count the faults after it, so that what went wrong before the boot is
made up for. `AbandonedIsRecovered` excludes only `Unrecoverable`. With one turn no wake meets a
drain that is about to end; that is what `QueuedHasTaker` checks with two in `ChatOverlap`,
as an invariant: nothing repeats a wake, so that a queued turn without a taker waits
for ever. It excludes `ClosedUnsealed` and `SplitClaim` (section 7).

`TerminalStream` has quiet remounts (`QuietRemount`): the terminal is mounted
again only when no grant request of it is in flight. The code does not enforce
this, and `TerminalTwice` is what happens without it.

## 5. Fairness

`ChatFaults` uses `LiveSpec`: weak fairness of each node's drain and boot, of each worker and reader, and
of the exit of a session that is being closed. These are promise chains in one
event loop: when a step is enabled it is taken, as every wait of
the worker on something else ends by a deadline (30 s preparation, open and
submission, 120 s without an observation, 15 s per close), and each deadline is
a disjunct of the step that waits. A closing session exits because the adapter
terminates the process group. Nothing is assumed of clients, of the provider
while it works, of leases, crashes or faults. Strong fairness is not used: a
worker at a call always has a step, if only to be refused.

The runs of the feed assume that the pump's timer fires and its reads end
(`WF` of `TickWork`), that handlers and received frames go on, and of the client
that its timers fire, its requests are answered, and a closed socket is noticed.
Nothing is assumed of `Commit`, of the application, of `Foreground`, of a
replaced socket or of faults, and `LosesSocket` is fair only once the server has
closed: a socket that stays open and silent is the probe's business.

`CatchesUp` assumes that the reconnect timer fires, that grants are answered (not
that they are given), that sockets deliver or close, that the server answers an
upgrade, finishes a snapshot and flushes its buffer. Nothing is assumed of the
process, the user, wakes or faults.

Delivery has no fairness. `NeverAtRest` is an invariant: while an answer is
pending and not stranded, a step of the server is enabled. It says so twice: by
`ENABLED Progress`, and by `CanGoOn`, the guards of those steps written out, so that
TLC compares the two in every state that matters, and the second can be proved
(section 6). A behaviour of the model has no cycle of such steps that does not use up an attempt, so going on
is enough to end.

## 6. Proofs

### The chat core

For every set of turns and nodes and every bound, TLAPS checks:

| theorem | property |
|---|---|
| `Invariance` | `Spec => []IInv` |
| `TypeCorrect` | `TypeOK` |
| `DeliveredAtMostOnce` | `DeliveredOnce` |
| `InputIsOfTurn` | `InputOfTurn` |
| `DeliveryIsOrdered` | `DeliveredInOrder` |
| `NoRetryPastBarrier` | `BegunIsNotRetried` |
| `NotSentHolds` | `NotSentIsTrue` |
| `RetriesKeepConfiguration` | `RetryKeepsConfiguration` |
| `GrantsAreFenced` | `GrantIsFenced` |
| `EffectsAreOfRunningTurn` | `EffectsOfRunningTurn` |
| `SettledTurnsStay` | `SettledStays` |
| `LeftAttemptsAreFinal` | `AttemptsAreFinal` |
| `CompletionIsProved` | `CompletedIsProved` |
| `ImplementsChatTurns` | `Implements`: the chat implements `ChatTurns` |
| `OneSessionHeld` | `OneSession`, if leases do not run out |
| `SecondDoneOnlyLate` | `SecondDoneIsLate` |

They rest on the two assumptions of `ChatContinuity`: `None` is no turn and no
node, and the bounds are of their types. `OneSessionHeld` also assumes
`~LeaseCanExpire`, without which the property is false (section 4). The others, with
`SecondDoneOnlyLate`, hold for slow closes, faults, crashes and leases that run out.

The invariant. None of the properties is inductive. `IInv` adds to `TypeOK`:

- `FutureIsEmpty`, `OrdinalsAreUnique`, `OneRunning`: nothing exists for an epoch to come; ordinals are
  given once, and a turn that is not posted has none and no configuration; one
  turn runs, and then the chat has an owner.
- `SnapshotIsCurrent`, `AttemptMatches`, `AttemptPhase`: a running turn's
  snapshot is the attempt of the chat's epoch; an attempt carries the turn,
  number and configuration of its worker; its phase goes with its turn's state.
  This is what makes a phase test in `recover_chat_attempt` decide whether an
  input can have been handed over.
- `SubmissionIsBegun`: only a begun attempt has a submission in flight, and its
  process has its worker's input.
- `ConfiguredInOrder`, `ClaimMatches`: a turn has a configuration only if all turns before it are
  settled, and when the claim picked one turn's input and ran another turn, the
  one that runs has no configuration. The seal compares configurations, so such
  a worker never gets past it. This is the argument why the two orders of the
  claim never deliver an input under the wrong turn.
- `GrantOfOwner`: a live grant is the grant of the running turn's owner.
- `TerminalHasEvent`, `RecoveryHasRow`: two facts the types need.

The proof. Most steps leave turns alone and neither seal, begin nor settle an
attempt: they are `Quiet`, and one lemma (`QuietStep`) covers them all once the
worker is shown to keep what its claim gave it (`Keeps`). Six kinds of steps
remain, with a lemma each: post, commit, claim, seal, begin, and the steps that
end a running turn, which share `Ends`. The action properties follow from who
may write a row (`Writes`): clients and claims write turns nobody runs,
everyone else passes the fence and writes for the running turn in its epoch.

Completion. `TerminalIsObserved` follows a terminal from the process to the row:
what a worker or an attempt holds as the provider's answer has the adapter's
evidence and is what the session of its epoch answered, and only a session that
was handed an input answers. Three lemmas (`ReportKept`, `EvidenceKept`,
`AnswerKept`) say which steps leave which part of this chain alone.

Refinement. The mapping takes a turn's abstract state from its row and the barred
and submitted turns from its attempts (`Shown`, `Order`, `Barred`, `Submitted`). Each
step is a stutter or one abstract step: a post, the running half of a claim, the
begin, the process's taking of the input, the end of a turn, or a recovery
that requeues. `IInv` supplies the abstract guards, above all that a claim starts
only what may still be started and that an input taken is the barred turn's.

One session. `OwnerIsAlone`: a worker that has not started, has cleaned up or has
died has no live session and no preparation under way; any other is the owner,
on the boot that claimed the chat. The release waits for the
session, and the recovery of another boot for the death of its node.

Terminal parts. That a message has one done part is false (`ChatTwoDone`); what is
proved is that a second one has a single way in. `PartInv`: all parts of a message
are of the begun attempt of its turn (`PartsFit`), so that neither a retry nor a recovery
of a later boot adds one beside those of another attempt. A part of the adapter has
the event that its worker keeps, under the number the reader's terminal was given
(`Evidence`). When there is a part of the server while the reader still works, or
has a terminal of its own, the failure branch has stored its error part
first (`ErrorFirst`) and is past its own done part. Now the numbers decide. A terminal
read before the reply to the error part has the number of the error part, and one read before the
reply to the done part has that of the done part; the database refuses both
(`Taken`), to the reader and to a recovery (`Conflicts`). Only a terminal read
afterwards has a free number (`BothAreLate`). `Steady` is what the worker and its
reader agree on while neither is late.

### Prompts and form delivery

For every number of answers, drains, prompts, processes, attempts and faults:

| theorem | property of `FormDelivery` |
|---|---|
| `DeliveryTypes` | `TypeOK` |
| `PromptsAreUnmixed` | `Unmixed` |
| `PromptsStayInOneTerminal` | `OneTerminal` |
| `NobodyWaitsForNothing` | `WaitsForSomething` |
| `AttemptRecordsAreTrue` | the part of `RecordsAreTrue` that is about attempts |
| `AnswersAreShownOnce` (if `SlowSteps` is empty) | `ShownOnce` |
| `RecordsTellTheTruth` (if `SlowSteps` is empty) | `RecordsAreTrue` |
| `EveryAnswerIsDelivered` (if `SlowSteps` is empty) | `AnswersAreDelivered` |
| `NobodyIsForgotten` (if `MaxSpawns` is above 1) | `NeverAtRest` without `ENABLED`, for an answer that may have another attempt |

They rest on the assumptions of `PromptQueue` and `FormDelivery`: bounds are
natural numbers, positive where zero would switch the subject off, prompts of different kinds are different, there are finitely many
answers and at least one answer and one drain.

The invariant of the queue (`QueueInv`) adds to types what an interleaving could
break: only the loop of the present queue types into the live process
(`OneLoop`), a loop of an older queue still believes in an older process, a
prompt that is being typed was typed nowhere else (`OnePlace`), one that waits
waits once and was not typed at all (`Waiting`), and between its body and the end
of its check a prompt has the last word in its process (`LastWord`). All of it
needs that a prompt is admitted once in its life. That is the outbox's doing, and
the rest of `IInv`: attempts are numbered as they are claimed (`Numbered`), the items
that drains hold have numbers of their own that no attempt has used
(`ItemsAreNew`), and an attempt is unknown to the queue before its step into it
(`Unsent`). So a drain whose lease has run out repeats an answer, which `ShownOnce`
forbids and `FormTwice` shows, but never an attempt. `WaitsForReport` gives
`NobodyWaitsForNothing`.

`OnceInv` adds what the terminal and the records say of one attempt, for any
drains. `TypedOnce`: the body of a prompt is typed once in its life, and a report of
`delivered` stands for an Enter that was pressed. `RowsFollow`: the row of an
attempt follows its adapter, a row that is still to be reserved or has failed
belongs to a prompt the queue has never seen, and a delivered one to a prompt
that was submitted.

`DrainInv` is about answers, and is what a slow drain breaks. Every item a drain
holds is of an answer whose row is open and leased, which no other drain holds
(`ItemsAreHeld`, `OneHolder`). None of the answer's earlier attempts can have been
seen, except, in the step that records or releases it, the attempt just made.
Of an answer's attempts only the last may have been seen (`LatestCounts`), because a
claim looks at the last attempt and takes an answer up again only if that one
has failed. New sessions are started only for answers that ask for one, and
those have no attempts (`SpawnsAreNew`). `Ended` says what follows from the status in
the outbox. `SlowSteps = {}` is used where a lease lapses (`Lapse`) and where a claim
comes between a drain and its own record or release (`Claims`): a lease of an
answer that a drain holds does not run out, and no other drain claims the answer whose
attempt has just ended. The code has no such fence. It has time limits that
make it likely; `FormTwice` and section 7 show what happens without it.

Refinement. Each step leaves an answer alone or is one abstract step of it: the submission, the
typing of a body, the start or the loss of its session, or its end. That a step
which types the body finds the answer still open and never shown is the hard one:
the prompt that is typed may have been queued long before, by a drain that has
gone. `AnswerInv` closes the gap. An attempt which is queued or being typed is one
whose adapter waits for a report that has not come (`Sending`), so its row is
in flight and the answer, by `DrainInv`, is pending; this rests on lemmas of the
queue that say what a prompt does until it is reported (`TypingPending` and its
neighbours in `PromptQueueProofs`). An answer that was not submitted has no attempts, and one that ends as spawned
is for a new session (`Plain`). The steps that write the outbox (`OutboxStep`) type nothing and begin
no session, so no concrete step is two abstract ones; `RowSteps` and `Ends` say
which ends they may write.

No answer is forgotten. `NobodyIsForgotten` needs no assumption on the drains: it holds
with slow steps too. If a step of the server were not possible, all typing would
be over, and `RestInv` says what is left then. The queue's loop types what it has
taken, the first turn is reported once, and no attempt waits in the queue of a
session without a process (`QueueAtRest`); so no attempt that works is
waiting, and the launch is not either, which is why the session has ended or runs
(`LaunchIsOnItsWay`). A drain that waits for a resume waits for one that is under way
(`ResumesAreUnderWay`), so that drains are idle, and an idle drain keeps no item whose
lease it would hold (`NothingIsKept`). A pending row that holds an attempt holds
one in flight (`HeldIsInFlight`), which rests on `NothingIsMade`: the number a drain
is about to reserve has no record yet, so that reserving takes no other attempt
out of flight. Then the claim of the tick either finds the row free, or finds that
its last attempt came to something (`ClaimFindsIt`). Two of its conditions are
bounds of the model: the session may have a process after its first
(`MaxSpawns > 1`), and the answer may have another attempt
(`NextAttempt(r) \in Attempts`).

### The event feed

For every log, page size, number of connections and faults, with any rows hidden:

| theorem | property |
|---|---|
| `ServerTypeCorrect` | `ServerTypeOK` of `EventServer` |
| `LiveFeedIsExact` | `LiveIsExact` of `EventServer` |
| `FeedTypeCorrect` | `ServerTypeOK` and `ClientTypeOK` of `EventFeed` |
| `RowsInOrder` | `AppliedInOrder` |
| `NothingElseLoses` | `OnlySubscribesLose` |

`AscendingIs` is the fact about the model's operators that they need: the rows
of a page can be put in order, in one way. It is proved by descent on the
largest row, as the library's induction cannot be used.

`LiveInv` is about a connection that has subscribed once and asked for nothing.
Either nothing was sent and no tick has taken it (`Quiet`), or there is an `n` up
to which exactly the readable rows after its mark were sent, which is its
cursor, and the start of the page that a tick is reading for it (`SentUpTo`). The
second half is what the await in the pump could break: the page is sent to a
cursor that nobody else has moved.

`FeedInv` is about what is on its way on each socket. `Safe` are the rows that
need not come on it: hidden ones, those at or below the mark of its subscribe,
and those the client has passed. Every event is preceded by the rows below it,
as far as they are not safe (`Chain`), and while the connection is open its
messages reach its cursor, all that the client asked for starts at or below its
own cursor, and a page under way does too (`Continues`). So the client, whichever
source it takes its next row from, skips nothing but what a mark allows. The
theorem is about a space that was opened once, as the property is.

### The terminal stream

For every number of sockets, mounts, bytes, processes and faults, and every size of the
ring, the send buffer and the backlog:

| theorem | says |
|---|---|
| `SecondSocketNeedsRace` | if `OneSocket` fails, the terminal was mounted a second time, and `QuietRemount` does not hold |
| `TerminalTypeCorrect` | `Unraced => TypeOK` |
| `SuspendedStaysQuiet` | `Unraced => SuspendedIsQuiet` |
| `ScreenShowsStream` | `Unraced => ScreenIsStream` |
| `FirstScreenIsWhole` | `Unraced => FirstIsWhole` |
| `ExitComesLast` | `Unraced => ExitIsLast` |

`Unraced` says that the terminal was mounted at most once so far, or that
`QuietRemount` holds. A mount that finds no request in flight is a step of the model
with `QuietRemount`, so the theorems cover every behaviour up to the first
mount that overtakes a request. That one the code does not prevent. After it two sockets
may deliver to one screen (`TerminalTwice`), and then none of the other properties of
the screen holds either. `SecondSocketNeedsRace` says that there is no other way to two sockets:
suspensions, wakes, timers, refusals, drops and respawns do not open a second one.

`DialInv` says when a grant may be asked for: a session that is wanted has at most
one request in flight, of its own generation, and none while it holds a socket
(`OneRequest`); the socket that is up is `current` (`Holds`). `OneSocket`
and `SuspendedIsQuiet` follow from it alone.

`StreamInv` follows the bytes. What is on the wire of a socket is a run of frames:
each continues the one before it (`RunOf`). The first is the one the viewer is
ready for (`Fits`): a handshake whose base is the viewer's offset, or the replay it
waits for, or output that begins at its offset. The last ends where the server
is, at what it has sent of the live process (`EndsAt`). When nothing is on the
wire, viewer and server agree on the offset (`Level`). Server steps append at the
end and browser steps take from the front; an await between the upgrade's
request and the replay is harmless because the offset asked for is the viewer's
for as long as that socket is up. `ViewerInv` is the screen itself: it ends at the offset,
in the epoch the client noted, and has no break while the session is active.
`ExitInv` says that after an exit only the close of that socket is still to
come. A socket that the client has given up may still be closed by the server,
but what it carries is no longer taken (`closing`).

### What stays with TLC

Every safety property that a passing run checks is a theorem but one, `NeverAtRest` in what it
says of `CanGoOn`. Some of them are so
under an assumption that their run makes as well: `OneSession` (leases hold), `ShownOnce`, `RecordsAreTrue` and `AnswersAreDelivered`
(drains faster than their leases), and those of the terminal (`Unraced`). `QueuedHasTaker`
is the exception and is only model-checked.

What TLC alone shows: that the guards in `CanGoOn` are those of steps that are
`ENABLED` (`NeverAtRest`), and all liveness properties
(`EveryTurnSettles`, `DrainedAfterBoot`, `AbandonedIsRecovered`,
`EveryoneIsServed`, `Converges`, `CatchesUp`): fairness and `ENABLED` are outside
what TLAPS 1.4.5 handles. No definition here is recursive.

## 7. Where the code and its comments disagree

`PROJECT.json` quotes the lines.

- `FeedGap`: between the subscribe's mark and the resume's page the pump can send
  a newer row; the client's cursor passes the older ones, and their replay is
  dropped. `OnlySubscribesLose` shows that this is the only way to lose a row.
- `FormTwice`: a drain claims several answers under one lease and handles them one
  after the other. While it starts a session for the first, the lease of the
  second runs out; another drain claims it, both reserve an attempt, and both
  attempts are typed. Nothing asks for the claim again before the reservation.
- `ChatTwoDone`: after a failure past the barrier the worker waits for its session and
  its reader, 15 s each, and goes on without them. It appends an error part and a
  done part; the reader then reads its terminal, records it and appends another done part,
  before the worker settles the turn. `fenced-turn.ts:306` says that the
  reader's parts "are consumed before this branch and must not gain a second done".
  `SecondDoneIsLate` shows that this is the only order in which it happens.
- `TerminalTwice`: a terminal is closed and opened again while its first grant
  request is in flight. The old answer clears `_connecting` before it is found
  stale (`ptyTransport.ts:331`), so that a wake asks again beside the request of the second
  mount, and both answers open a socket. `ptyTransport.ts:2` says one per session.

More were met, and are stated without a run of their own. Each is violated when
its name is put into the configuration that is named:

- `ClaimsLowestOrdinal` (`ChatOverlap.cfg`): the claim stamps the turn of the lowest
  ordinal (332:372) and runs the one with the earliest queue time (314:56). No
  input is delivered out of order (`DeliveredInOrder` is a theorem), but a turn
  that was run too early is failed at the seal. The design document
  (`src/docs/architecture/chat-harness-continuity-lld.md:405`) says "Claim locks
  chat, then the lowest unsettled ordinal".
- `QueuedIsClaimed` (`ChatFaults.cfg`): a wake, a claim or a
  release that fails once leaves the next turn queued until another post or a
  boot, because nothing repeats the wake. The same document (:805) says
  "Scheduler sees durable queued ordinal and claims it"; there is no scheduler.
- `QueuedHasTaker` without its last line (`ChatOverlap.cfg`): two states strand a chat.
  `ClosedUnsealed`: a crash between failing an unsealed preparation and releasing the
  chat leaves a lease that no boot recovers, because the boot query
  (`orchestrator.ts:378`) compares a null snapshot. `SplitClaim`: a claim that stamped one
  turn and ran another gives its worker an input it may not seal and a turn it may not
  fail, and the chat is held until the next boot.
- `AbandonedIsRecovered` without `Unrecoverable` (`ChatFaults.cfg`): a terminal that was
  read before the reply to the failure branch's part, and recorded, has the
  number of that part. Every recovery of the turn tries to store the done part there and raises
  (332:711), and each time the node's reconciliation ends with it.
- `EveryTurnSettles` without `GivenUp` (`ChatFaults.cfg`): the same competition
  the other way round. The reader's part is stored first, the failure branch is refused its own and
  throws, and the turn runs until the next boot.
- `ExpiredIsSettledFirst` (`ChatFaults.cfg` with `Turns = {t1, t2}`, `LeaseCanExpire = TRUE`,
  `SlowClose = FALSE`, `MaxBoot = 1` and `MaxFaults = 0`): a lease
  that runs out while its node is up is recovered only by the next boot.
- `UnsubscribeStops` (`FeedFrames.cfg`): an unsubscribe overtakes a subscribe that
  is still being authorized.
- `PresenceDiesWithConnection` (`FeedFrames.cfg`): presence set by a frame that
  outlives its connection stays until it expires (`events/presence.ts:21`).
- `NoMarkNoCursor` (`FeedFrames.cfg` with scripts that subscribe, unsubscribe and
  subscribe again): a subscription that returns without a mark goes live from the
  cursor the first one left (`events/control.ts:152`).
- `Converges` (`FeedConverges.cfg` with two rows, `Hidden <- FirstRow` and poll
  pages of one): the idle probe looks at the items of its page and not at its
  cursor, so it never moves past a page of rows it may not read
  (`connection.ts:404`).
- `HeadIsPainted` (`TerminalStream.cfg` with `SPECIFICATION Spec`, `LaterBytes = 2`
  and `MaxOpens = 1`): an offset of an earlier process that the present one has
  already reached is answered as a plain resume, and the head of the new stream
  is not painted. The client then notes the new epoch without starting afresh.

Met while modelling, without a definition:

- A viewer who is not connected when the process exits is never told: the upgrade
  is refused before the socket opens, which is a close without a code, and the
  client tries again for as long as the terminal is mounted.
- The calls that record and release an attempt of an answer do not ask whether the
  attempt is still the row's. With `"record"` or `"release"` in `SlowSteps`,
  `ShownOnce` fails as in `FormTwice`. `begin_form_delivery_spawn` asks only whether
  the row has a lease (215:63), not whose.
- An attempt that is stranded between reservation and end by a crash or a lost
  reply (`Stranded`) is adopted by every later drain and never tried again.
  `form-delivery.ts:14` says the tick lets it end; the function that would settle it,
  `internal.w1_prune_operational_state` (146:334), is called by tests only.
- At boot, a session without a process is retired as `failed`, a session spawned
  for an answer included. A crash between the spawn and
  `settle_form_delivery_spawned` therefore spawns the answer again
  (`form-delivery-spawn.ts:190`).
- An answer that is refused at its reservation does not count as an attempt, while
  a session whose row says `running` and whose process is gone uses attempts up
  until the answer is cancelled.

## 8. Not modelled

Of the chat: output parts other than those that end a turn, usage, interactions and cancellation; the
heartbeat, whose absence is `LeaseExpire`; edits of queued turns; claims without
a runtime contract and the orchestrator's `runTurn` path, which nodes without a
harness registry use; other chats of the node. Row-level security and
authorization are preconditions of calls that the orchestrator meets.

Of the feed: one space and one identity, so the loop of a frame over several
spaces and the fan-out by recipient are absent; no pruning of the log; no change
of boot, which clears the client's cursor; the paging of `prepareSpace` and the
persisted cursor, of which the first mark is what is left; resync callbacks,
which ask consumers to read afresh after a long gap and so mend some of what
`FeedGap` loses.

Of the terminal: keystrokes and the terminal's size; activity detection and the
contents of the screen mirror, of which the time a snapshot takes is left; grants'
tokens, the delays of reconnects and the scheduling of writes in the browser;
`requestFullReplay`, which nothing calls.

Of delivery: notices of forms, the `queue` mode of messages, redelivery by hand
and deleted sessions; the envelope of a message and permissions; whether the
agent is idle. One launch is under way at a time, so a resume that fails and
kills its process does not meet a later one. A record of the end of an attempt
that fails is not modelled, as its attempt is stranded like the others.

The repository has half a million lines, most of them request handlers that are
one transaction each, schemas and contracts, views and command line parsing. The
models are of the places where actors meet over shared state. The remaining
components are listed with reasons in `PROJECT.json`.
