--------------------------- MODULE ChatContinuity ---------------------------
(***************************************************************************)
(* One tm8 chat: the durable rows that order its turns and fence the        *)
(* process that answers them, the worker (executeFencedTurn) each claim     *)
(* starts on a server node, the provider process the worker drives, and the *)
(* node's drain loop and boot reconciliation.                               *)
(*                                                                         *)
(* Every PostgreSQL function is one atomic step (it locks the chat row); a  *)
(* worker is interleaved between its calls.  A call can be refused by its   *)
(* own guard, can fail before it commits, or can commit and lose its reply: *)
(* the last two consume the budget MaxFaults.                               *)
(*                                                                         *)
(* Abstractions.                                                            *)
(*  - Lease token, attempt snapshot, native generation and runtime grant    *)
(*    are all named by the runtime epoch of the claim that created them:    *)
(*    each claim raises the epoch, and a claim seals at most one snapshot,  *)
(*    reserves at most one generation and mints at most one grant.          *)
(*  - Of the message parts those that end a turn are kept: the `done` parts *)
(*    of the adapter and of the server, and the error part that the failure *)
(*    branch appends before its own; each under the epoch of its attempt.   *)
(*    Their numbers are counted from the one the reader's terminal and the  *)
(*    first part of the failure branch compete for.                         *)
(*  - A configuration is its revision.                                      *)
(*  - A heartbeat is the absence of LeaseExpire.                            *)
(*                                                                         *)
(* An operator commented as a mutation is the form its neighbour would have *)
(* with a plausible bug; the specification does not use it.                 *)
(***************************************************************************)
EXTENDS Naturals, FiniteSets

CONSTANTS
  Turns,          \* inputs that may be posted to the chat
  Nodes,          \* server nodes that share the database
  None,           \* no node, no turn
  MaxEpoch,       \* bound: runtime epochs (claims and recoveries)
  MaxRev,         \* bound: configuration revisions
  MaxBoot,        \* bound: boots of each node
  MaxFaults,      \* bound: calls that fail although their guard holds
  Overlap,        \* whether posting transactions may overlap in time
  LeaseCanExpire, \* whether a lease may run out (ten minutes, no heartbeat)
  SlowClose       \* whether the close deadlines (15 s) may pass in a failed turn

ASSUME NoneAssumption == None \notin Turns \cup Nodes
ASSUME BoundAssumption ==
  /\ MaxEpoch \in Nat /\ MaxRev \in Nat \ {0} /\ MaxBoot \in Nat \ {0}
  /\ MaxFaults \in Nat /\ Overlap \in BOOLEAN /\ LeaseCanExpire \in BOOLEAN
  /\ SlowClose \in BOOLEAN

Epochs == 1..MaxEpoch

VARIABLES
  turn,      \* chat_turns rows
  chat,      \* the chats row: order, desired configuration, owner, lease, phase
  att,       \* chat_turn_attempts rows, by epoch
  binding,   \* chat_native_bindings status, by epoch
  grant,     \* runtime auth_sessions, by epoch
  parts,     \* message_parts of each turn's agent message that end it
  exec,      \* executeFencedTurn activations, by epoch
  prov,      \* provider processes, by epoch
  node,      \* drain loop, pending wake and boot reconciliation of each node
  clock,     \* start times of posting transactions
  faults     \* failed calls so far

db      == <<turn, chat, att, binding, grant, parts>>
vars    == <<turn, chat, att, binding, grant, parts, exec, prov, node, clock, faults>>

TurnStates   == {"absent", "posting", "queued", "running", "completed", "error"}
Settled      == {"completed", "error"}
ChatPhases   == {"idle", "preparing", "opening", "prepared", "ready",
                 "dispatching", "running", "closing"}
AttemptPhases == {"none", "prepared", "dispatching", "accepted", "settled",
                  "delivery_unknown"}
Current      == {"reserved", "prepared"}
Outcomes     == {"none", "completed", "failed", "lost"}
Origins      == {"adapter", "server"}
Kinds        == Origins \cup {"error"}
Numbers      == 0..2
PrePcs       == {"reserve", "seal", "prepare", "open", "recopen", "begin"}
RunPcs       == {"submitting", "accept", "await", "sdone", "sterm", "scomplete",
                 "fclose", "fparts", "fdone", "fcomplete"}
Pcs          == PrePcs \cup RunPcs \cup {"none", "fprep", "cleanup", "release", "gone"}

NoAttempt == [phase |-> "none", turn |-> None, no |-> 0, cfg |-> 0, opened |-> FALSE,
              begun |-> FALSE, proof |-> "none", ev |-> "none", num |-> 0]
NoExec    == [node |-> None, turn |-> None, no |-> 0, input |-> None, cfg |-> 0,
              pc |-> "none", gen |-> FALSE, op |-> "none", launch |-> FALSE, call |-> "none",
              cons |-> "off", term |-> "none", ev |-> "none", seq |-> 0,
              num |-> 0, saved |-> FALSE, caught |-> FALSE, ok |-> TRUE]
NoSession == [alive |-> "no", got |-> None, out |-> "none"]

TurnRow    == [st : TurnStates, at : Nat, ord : Nat, no : Nat, cfg : 0..MaxRev,
               snap : 0..MaxEpoch]
ChatRow    == [epoch : 0..MaxEpoch, node : Nodes \cup {None}, boot : 0..MaxBoot,
               lease : {"none", "held", "expired"}, phase : ChatPhases,
               active : 0..MaxEpoch, next : Nat, cfg : 1..MaxRev]
AttemptRow == [phase : AttemptPhases, turn : Turns \cup {None}, no : Nat, cfg : 0..MaxRev,
               opened : BOOLEAN, begun : BOOLEAN, proof : Outcomes \cup {"not_sent"},
               ev : Origins \cup {"none"}, num : Numbers]
Execution  == [node : Nodes \cup {None}, turn : Turns \cup {None}, no : Nat,
               input : Turns \cup {None}, cfg : 0..MaxRev, pc : Pcs, gen : BOOLEAN,
               op : {"none", "prepare", "open"}, launch : BOOLEAN,
               call : {"none", "flying", "over"},
               cons : {"off", "read", "record", "save", "done", "failed"},
               term : Outcomes, ev : Origins \cup {"none"}, seq : Numbers,
               num : Numbers, saved : BOOLEAN, caught : BOOLEAN, ok : BOOLEAN]
Session    == [alive : {"no", "up", "exited"}, got : Turns \cup {None}, out : Outcomes]
NodeState  == [boot : 1..MaxBoot, drain : {"idle", "claim", "run"}, wake : BOOLEAN,
               rec : {"done", "scan", "recover", "wakeup"}, row : Turns \cup {None},
               no : Nat]

\* Every variable has its type; in particular a `done` part that a worker or the
\* recovery stores has an event id.
TypeOK ==
  /\ turn \in [Turns -> TurnRow] /\ chat \in ChatRow
  /\ att \in [Epochs -> AttemptRow]
  /\ binding \in [Epochs -> Current \cup {"none", "retired"}]
  /\ grant \in [Epochs -> {"none", "live", "revoked"}]
  /\ parts \in [Turns -> SUBSET (Epochs \X Kinds)]
  /\ exec \in [Epochs -> Execution] /\ prov \in [Epochs -> Session]
  /\ node \in [Nodes -> NodeState]
  /\ clock \in Nat /\ faults \in Nat

Init ==
  /\ turn = [t \in Turns |-> [st |-> "absent", at |-> 0, ord |-> 0, no |-> 0,
                              cfg |-> 0, snap |-> 0]]
  /\ chat = [epoch |-> 0, node |-> None, boot |-> 0, lease |-> "none",
             phase |-> "idle", active |-> 0, next |-> 1, cfg |-> 1]
  /\ att = [e \in Epochs |-> NoAttempt]
  /\ binding = [e \in Epochs |-> "none"]
  /\ grant = [e \in Epochs |-> "none"]
  /\ parts = [t \in Turns |-> {}]
  /\ exec = [e \in Epochs |-> NoExec]
  /\ prov = [e \in Epochs |-> NoSession]
  /\ node = [n \in Nodes |-> [boot |-> 1, drain |-> "idle", wake |-> FALSE,
                              rec |-> "done", row |-> None, no |-> 0]]
  /\ clock = 1
  /\ faults = 0

-----------------------------------------------------------------------------
(***************************************************************************)
(* Posting and configuration.                                              *)
(***************************************************************************)

\* A posting transaction starts: queued_at will be its now(), the time it began.
PostBegin(t) ==
  /\ turn[t].st = "absent"
  /\ Overlap \/ \A u \in Turns : turn[u].st # "posting"
  /\ turn' = [turn EXCEPT ![t].st = "posting", ![t].at = clock]
  /\ clock' = clock + 1
  /\ UNCHANGED <<chat, att, binding, grant, parts, exec, prov, node, faults>>

\* It inserts the turn under the chat's row lock, which assigns the ordinal, and
\* commits; the node that handled the post then wakes the chat.
PostCommit(t, n) ==
  /\ turn[t].st = "posting"
  /\ turn' = [turn EXCEPT ![t].st = "queued", ![t].ord = chat.next]
  /\ chat' = [chat EXCEPT !.next = @ + 1]
  /\ \/ node' = [node EXCEPT ![n].wake = TRUE] /\ UNCHANGED faults
     \/ faults < MaxFaults /\ faults' = faults + 1 /\ UNCHANGED node
  /\ UNCHANGED <<att, binding, grant, parts, exec, prov, clock>>

\* set_chat_configuration: compare and set the revision the client expects.
SetConfiguration ==
  /\ chat.cfg < MaxRev
  /\ chat' = [chat EXCEPT !.cfg = @ + 1]
  /\ UNCHANGED <<turn, att, binding, grant, parts, exec, prov, node, clock, faults>>

-----------------------------------------------------------------------------
(***************************************************************************)
(* The drain loop of a node.                                               *)
(***************************************************************************)

StartDrain(n) ==
  /\ node[n].wake /\ node[n].drain = "idle"
  /\ node' = [node EXCEPT ![n].wake = FALSE, ![n].drain = "claim"]
  /\ UNCHANGED <<db, exec, prov, clock, faults>>

Queued == {t \in Turns : turn[t].st = "queued"}
ClaimBlocked ==
  \/ chat.lease = "held"
  \/ \E t \in Turns : turn[t].st = "running"
  \/ Queued = {}

\* claim_next_chat_turn answers null, or raises: either way the drain ends.
ClaimNothing(n) ==
  /\ node[n].drain = "claim"
  /\ \/ ClaimBlocked /\ UNCHANGED faults
     \/ faults < MaxFaults /\ faults' = faults + 1
  /\ node' = [node EXCEPT ![n].drain = "idle"]
  /\ UNCHANGED <<db, exec, prov, clock>>

\* The turn the claim stamps with its configuration, and the turn it sets running.
\* Mutation: the turn is picked by queue time, like the turn that is run.
ClaimPickEarliest(t) == t \in Queued /\ \A u \in Queued : turn[t].at <= turn[u].at
ClaimPick(t) == t \in Queued /\ \A u \in Queued : turn[t].ord <= turn[u].ord
ClaimRun(t)  == t \in Queued /\ \A u \in Queued : turn[t].at <= turn[u].at

\* Mutation: every claim takes the configuration the chat has now.
ClaimConfigurationNow(t) == chat.cfg
\* The first claim of a turn pins its configuration.
ClaimConfiguration(t) == IF turn[t].cfg = 0 THEN chat.cfg ELSE turn[t].cfg

ClaimTurn(n, pick, run) ==
  LET e   == chat.epoch + 1
      cfg == ClaimConfiguration(pick)
      trn == [turn EXCEPT ![pick].cfg = cfg]
  IN
  /\ node[n].drain = "claim" /\ ~ClaimBlocked /\ e \in Epochs
  /\ ClaimPick(pick) /\ ClaimRun(run)
  /\ turn' = [trn EXCEPT ![run].st = "running", ![run].no = @ + 1]
  /\ chat' = [chat EXCEPT !.epoch = e, !.node = n, !.boot = node[n].boot,
                          !.lease = "held", !.phase = "preparing", !.active = 0]
  /\ \/ /\ exec' = [exec EXCEPT ![e] =
             [NoExec EXCEPT !.node = n, !.turn = run, !.input = pick, !.cfg = cfg,
                !.no = turn'[pick].no, !.pc = "reserve"]]
        /\ node' = [node EXCEPT ![n].drain = "run"]
        /\ UNCHANGED faults
     \/ /\ faults < MaxFaults /\ faults' = faults + 1
        /\ node' = [node EXCEPT ![n].drain = "idle"]
        /\ UNCHANGED exec
  /\ UNCHANGED <<att, binding, grant, parts, prov, clock>>

\* executeFencedTurn returns to the drain once cleanup has run or is left to a
\* deadline, a retry timer or a late operation; a throw ends the drain.
DrainReturns(n, e) ==
  /\ node[n].drain = "run" /\ exec[e].node = n
  /\ exec[e].pc \in {"cleanup", "release", "gone"}
  /\ \A f \in Epochs : exec[f].node = n => f <= e
  /\ node' = [node EXCEPT ![n].drain = IF exec[e].ok THEN "claim" ELSE "idle"]
  /\ UNCHANGED <<db, exec, prov, clock, faults>>

LeaseExpire ==
  /\ LeaseCanExpire /\ chat.lease = "held"
  /\ chat' = [chat EXCEPT !.lease = "expired"]
  /\ UNCHANGED <<turn, att, binding, grant, parts, exec, prov, node, clock, faults>>

-----------------------------------------------------------------------------
(***************************************************************************)
(* The worker of a claim, from reservation to the dispatch barrier.        *)
(***************************************************************************)

\* chat_lock_owned: the fence every lifecycle call of a worker must pass.
Owned(e) ==
  LET x == exec[e] IN
  /\ chat.epoch = e /\ chat.lease = "held"
  /\ turn[x.turn].st = "running" /\ turn[x.turn].no = x.no
  /\ x.gen => binding[e] \in Current

\* Where a throw lands: the catch block before and after the barrier, and out of
\* the catch block itself to the finally.
ThrowFrom(x) ==
  IF x.pc \in PrePcs THEN [x EXCEPT !.pc = "fprep"]
  ELSE IF x.pc \in {"fprep", "fparts", "fdone", "fcomplete"} \/ x.caught
    THEN [x EXCEPT !.pc = "cleanup", !.ok = FALSE]
  ELSE [x EXCEPT !.pc = "fclose"]
Throw(e) == exec' = [exec EXCEPT ![e] = ThrowFrom(@)]

Fault == faults < MaxFaults /\ faults' = faults + 1
\* The call committed: it returns, or its reply is lost and the caller throws.
Returns(e, next) ==
  \/ exec' = [exec EXCEPT ![e] = next] /\ UNCHANGED faults
  \/ Fault /\ Throw(e)

RetireCurrent == [f \in Epochs |-> IF binding[f] \in Current THEN "retired" ELSE binding[f]]
Revoke(e) == [grant EXCEPT ![e] = IF @ = "live" THEN "revoked" ELSE @]

CanReserve(e) == Owned(e) /\ chat.phase = "preparing"
Reserve(e) ==
  /\ exec[e].pc = "reserve" /\ CanReserve(e)
  /\ binding' = [RetireCurrent EXCEPT ![e] = "reserved"]
  /\ chat' = [chat EXCEPT !.phase = "opening"]
  /\ Returns(e, [exec[e] EXCEPT !.pc = "seal", !.gen = TRUE])
  /\ UNCHANGED <<turn, att, grant, parts, prov, node, clock>>

\* Mutation: the snapshot is sealed whatever configuration the turn was claimed with.
CanSealAnyInput(e) ==
  /\ Owned(e) /\ chat.phase = "opening"
  /\ \A f \in Epochs : att[f].turn = exec[e].turn => att[f].no # exec[e].no
\* Mutation: the seal does not check the fence.
CanSealUnfenced(e) ==
  /\ chat.lease = "held" /\ turn[exec[e].turn].st = "running"
  /\ chat.phase = "opening" /\ exec[e].cfg = turn[exec[e].turn].cfg
CanSeal(e) ==
  LET x == exec[e] IN
  /\ Owned(e) /\ chat.phase = "opening"
  /\ x.cfg = turn[x.turn].cfg
  /\ \A f \in Epochs : att[f].turn = x.turn => att[f].no # x.no
Seal(e) ==
  LET x == exec[e] IN
  /\ x.pc = "seal" /\ CanSeal(e)
  /\ att' = [att EXCEPT ![e] = [NoAttempt EXCEPT !.phase = "prepared", !.turn = x.turn,
                                  !.no = x.no, !.cfg = x.cfg]]
  /\ turn' = [turn EXCEPT ![x.turn].snap = e]
  /\ chat' = [chat EXCEPT !.active = e, !.phase = "prepared"]
  /\ binding' = [binding EXCEPT ![e] = "prepared"]
  /\ Returns(e, [x EXCEPT !.pc = "prepare", !.op = "prepare"])
  /\ UNCHANGED <<grant, parts, prov, node, clock>>

\* Mutation: the grant is minted for the worker, wherever the chat is by then.
MintLate(e) ==
  /\ exec[e].op = "prepare" /\ grant[e] = "none" /\ att[e].phase # "none"
  /\ grant' = [grant EXCEPT ![e] = "live"]
  /\ UNCHANGED <<turn, chat, att, binding, parts, exec, prov, node, clock, faults>>
\* issue_agent_runtime_session, called while the launch is being prepared.
Mint(e) ==
  /\ exec[e].op = "prepare" /\ grant[e] = "none"
  /\ chat.epoch = e /\ chat.lease = "held" /\ chat.active = e
  /\ chat.phase = "prepared" /\ att[e].phase = "prepared"
  /\ grant' = [grant EXCEPT ![e] = "live"]
  /\ UNCHANGED <<turn, chat, att, binding, parts, exec, prov, node, clock, faults>>

\* The launch is prepared, or fails and releases what it took (a grant whose mint
\* lost its reply is not among it).  A worker whose deadline passed has left the
\* call, and only the end of the operation is recorded.
PrepareEnds(e) ==
  LET x == [exec[e] EXCEPT !.op = "none"]
      y == [x EXCEPT !.launch = TRUE]
  IN
  /\ exec[e].op = "prepare"
  /\ \/ /\ grant[e] # "none"
        /\ exec' = [exec EXCEPT ![e] = IF x.pc = "prepare"
                      THEN [y EXCEPT !.pc = "open", !.op = "open"] ELSE y]
        /\ UNCHANGED <<grant, faults>>
     \/ /\ exec' = [exec EXCEPT ![e] = IF x.pc = "prepare" THEN ThrowFrom(x) ELSE x]
        /\ \/ grant' = Revoke(e) /\ UNCHANGED faults
           \/ Fault /\ UNCHANGED grant
  /\ UNCHANGED <<turn, chat, att, binding, parts, prov, node, clock>>

OpenEnds(e) ==
  LET x == [exec[e] EXCEPT !.op = "none"] IN
  /\ exec[e].op = "open"
  /\ \/ /\ prov' = [prov EXCEPT ![e].alive = "up"]
        /\ exec' = [exec EXCEPT ![e] = IF x.pc = "open" THEN [x EXCEPT !.pc = "recopen"]
                                        ELSE x]
     \/ /\ exec' = [exec EXCEPT ![e] = IF x.pc = "open" THEN ThrowFrom(x) ELSE x]
        /\ UNCHANGED prov
  /\ UNCHANGED <<db, node, clock, faults>>

\* The 30 s deadlines of preparation and open, a refused admission, an
\* unreadable history and a failed revalidation all throw before the barrier.
PreparationFails(e) ==
  /\ exec[e].pc \in {"reserve", "seal", "prepare", "open", "begin"}
  /\ Throw(e)
  /\ UNCHANGED <<db, prov, node, clock, faults>>

CanRecordOpen(e) ==
  Owned(e) /\ chat.active = e /\ att[e].phase = "prepared" /\ ~att[e].opened
RecordOpen(e) ==
  /\ exec[e].pc = "recopen" /\ CanRecordOpen(e)
  /\ att' = [att EXCEPT ![e].opened = TRUE]
  /\ chat' = [chat EXCEPT !.phase = "ready"]
  /\ Returns(e, [exec[e] EXCEPT !.pc = "begin"])
  /\ UNCHANGED <<turn, binding, grant, parts, prov, node, clock>>

\* The durable barrier; on its reply the observation reader starts and the input
\* is handed to the session in the same turn of the event loop.  A session that
\* has died refuses it at once.
CanBegin(e) ==
  /\ Owned(e) /\ chat.active = e /\ chat.phase = "ready"
  /\ att[e].phase = "prepared" /\ att[e].opened
Begin(e) ==
  /\ exec[e].pc = "begin" /\ CanBegin(e)
  /\ att' = [att EXCEPT ![e].phase = "dispatching", ![e].begun = TRUE]
  /\ chat' = [chat EXCEPT !.phase = "dispatching"]
  /\ Returns(e, IF prov[e].alive = "up"
       THEN [exec[e] EXCEPT !.pc = "submitting", !.call = "flying", !.cons = "read"]
       ELSE [exec[e] EXCEPT !.pc = "fclose", !.cons = "read"])
  /\ UNCHANGED <<turn, binding, grant, parts, prov, node, clock>>

-----------------------------------------------------------------------------
(***************************************************************************)
(* The provider process and the submission.                                *)
(***************************************************************************)

ProviderTakes(e) ==
  /\ exec[e].call = "flying" /\ prov[e].alive = "up" /\ prov[e].got = None
  /\ prov' = [prov EXCEPT ![e].got = exec[e].input]
  /\ UNCHANGED <<db, exec, node, clock, faults>>

ProviderFinishes(e) ==
  /\ prov[e].alive = "up" /\ prov[e].got # None /\ prov[e].out = "none"
  /\ \E o \in {"completed", "failed"} : prov' = [prov EXCEPT ![e].out = o]
  /\ UNCHANGED <<db, exec, node, clock, faults>>

\* The process ends: of itself, or because the worker closes its session.
ProviderExits(e) ==
  /\ prov[e].alive = "up"
  /\ prov' = [prov EXCEPT ![e].alive = "exited"]
  /\ UNCHANGED <<db, exec, node, clock, faults>>

\* submit() returns: delivered with or without a native acknowledgement to
\* record, or not (not sent, unknown, or its deadline passed while in flight).
SubmitReturns(e) ==
  /\ exec[e].pc = "submitting"
  /\ \/ /\ prov[e].got # None
        /\ \E pc \in {"accept", "await"} :
             exec' = [exec EXCEPT ![e].pc = pc, ![e].call = "over"]
     \/ \E c \in {"flying", "over"} : exec' = [exec EXCEPT ![e].pc = "fclose", ![e].call = c]
  /\ UNCHANGED <<db, prov, node, clock, faults>>

CanAccept(e) ==
  Owned(e) /\ chat.active = e /\ att[e].phase \in {"dispatching", "accepted"}
RecordAcceptance(e) ==
  /\ CanAccept(e)
  /\ att' = [att EXCEPT ![e].phase = "accepted"]
  /\ chat' = [chat EXCEPT !.phase = "running"]
  /\ UNCHANGED <<turn, binding, grant, parts, prov, node, clock>>

Accept(e) ==
  /\ exec[e].pc = "accept" /\ RecordAcceptance(e)
  /\ Returns(e, [exec[e] EXCEPT !.pc = "await"])

-----------------------------------------------------------------------------
(***************************************************************************)
(* The reader of the session's observations.                               *)
(***************************************************************************)

ConsumerFails(e) == exec' = [exec EXCEPT ![e].cons = "failed"]
\* A call of the reader that committed: it goes on, or the reply is lost.
ConsumerReturns(e, next) ==
  \/ exec' = [exec EXCEPT ![e] = next] /\ UNCHANGED faults
  \/ Fault /\ exec' = [exec EXCEPT ![e] = [next EXCEPT !.cons = "failed",
                         !.term = exec[e].term, !.saved = exec[e].saved]]

ConsumeAcceptance(e) ==
  /\ exec[e].cons = "read" /\ prov[e].got # None /\ RecordAcceptance(e)
  /\ ConsumerReturns(e, exec[e])

\* A terminal observation (the provider's, or the adapter's when the process exits
\* or does not take the input) fixes the event id and the sequence number of the
\* normalized `done` part, before any call is made with them.  The number is the
\* worker's `seq`, which moves on when the reply to a part of the failure branch is
\* here.
ConsumeTerminal(e) ==
  LET lost == prov[e].out = "none" IN
  /\ exec[e].cons = "read" /\ exec[e].call # "none"
  /\ lost => prov[e].alive = "exited" \/ (exec[e].call = "over" /\ prov[e].got = None)
  /\ prov' = IF lost THEN [prov EXCEPT ![e].out = "lost"] ELSE prov
  /\ exec' = [exec EXCEPT ![e].cons = "record", ![e].ev = "adapter",
                          ![e].num = exec[e].seq]
  /\ UNCHANGED <<db, node, clock, faults>>

\* The session was dead before the submission: the stream ends with runtime_exit.
ConsumeExit(e) ==
  /\ exec[e].cons = "read" /\ exec[e].call = "none" /\ prov[e].alive = "exited"
  /\ exec' = [exec EXCEPT ![e].cons = "done", ![e].term = "lost"]
  /\ UNCHANGED <<db, prov, node, clock, faults>>

\* No observation for 120 s, or a call of the reader that never committed.
ConsumerAborts(e) ==
  /\ \/ exec[e].cons = "read" /\ UNCHANGED faults
     \/ exec[e].cons \in {"record", "save"} /\ Fault
  /\ ConsumerFails(e)
  /\ UNCHANGED <<db, prov, node, clock>>

CanRecord(e) == Owned(e) /\ chat.active = e /\ chat.phase \in {"dispatching", "running"}
RecordTerminal(e, o) ==
  att' = [att EXCEPT ![e].proof = o, ![e].ev = exec[e].ev, ![e].num = exec[e].num]

ConsumerRecords(e) ==
  /\ exec[e].cons = "record"
  /\ \/ /\ CanRecord(e) /\ RecordTerminal(e, prov[e].out)
        /\ ConsumerReturns(e, [exec[e] EXCEPT !.cons = "save", !.term = prov[e].out])
     \/ ~CanRecord(e) /\ ConsumerFails(e) /\ UNCHANGED <<att, faults>>
  /\ UNCHANGED <<turn, chat, binding, grant, parts, prov, node, clock>>

\* append_chat_message_part: refused when the fence or the phase is stale, or when
\* its sequence number is taken by another part.
CanAppend(e) ==
  /\ Owned(e) /\ turn[exec[e].turn].snap = e /\ chat.active = e
  /\ chat.phase \in {"dispatching", "running"}
Append(e, o) == parts' = [parts EXCEPT ![exec[e].turn] = @ \cup {<<e, o>>}]
HasPart(e, o) == <<e, o>> \in parts[exec[e].turn]

\* The failure branch has stored a part under this number: its error part under the
\* first, its done part under the next.
Taken(t, e, num) ==
  \/ num = 0 /\ <<e, "error">> \in parts[t]
  \/ num = 1 /\ <<e, "server">> \in parts[t]

\* Mutation: the number is not compared.
CanSaveAnyNumber(e) == CanAppend(e)
CanSave(e) == CanAppend(e) /\ ~Taken(exec[e].turn, e, exec[e].num)
ConsumerSaves(e) ==
  /\ exec[e].cons = "save"
  /\ \/ /\ CanSave(e) /\ Append(e, "adapter")
        /\ ConsumerReturns(e, [exec[e] EXCEPT !.cons = "done", !.saved = TRUE])
     \/ ~CanSave(e) /\ ConsumerFails(e) /\ UNCHANGED <<parts, faults>>
  /\ UNCHANGED <<turn, chat, att, binding, grant, prov, node, clock>>

-----------------------------------------------------------------------------
(***************************************************************************)
(* Settlement by the worker.                                               *)
(***************************************************************************)

\* settleTerminal skips the append when the reader has persisted the part.
ToSettle(x) == IF x.saved THEN "sterm" ELSE "sdone"

\* Mutation: the failure of the reader does not reach the worker.
ObservedEnd(e) ==
  LET x == exec[e] IN
  /\ x.pc = "await" /\ x.cons = "done"
  /\ exec' = [exec EXCEPT ![e] =
       [x EXCEPT !.pc = ToSettle(x), !.term = IF @ = "none" THEN "lost" ELSE @]]
  /\ UNCHANGED <<db, prov, node, clock, faults>>
\* `await observed`: without a terminal the runtime is lost; a failed reader throws.
Observed(e) ==
  LET x == exec[e] IN
  /\ x.pc = "await" /\ x.cons \in {"done", "failed"}
  /\ exec' = [exec EXCEPT ![e] =
       IF x.cons = "failed" THEN ThrowFrom(x)
       ELSE [x EXCEPT !.pc = ToSettle(x), !.term = IF @ = "none" THEN "lost" ELSE @]]
  /\ UNCHANGED <<db, prov, node, clock, faults>>

\* The catch block after the barrier closes the session and waits for the reader,
\* each up to a deadline; a terminal that is known by then decides the turn.
FailureClosed(e) ==
  LET x == exec[e] IN
  /\ x.pc = "fclose"
  /\ SlowClose \/ (prov[e].alive = "exited" /\ x.cons \in {"done", "failed"})
  /\ exec' = [exec EXCEPT ![e] =
       IF x.term = "none" THEN [x EXCEPT !.pc = "fparts"]
       ELSE [x EXCEPT !.pc = ToSettle(x), !.caught = TRUE]]
  /\ UNCHANGED <<db, prov, node, clock, faults>>

\* settleTerminal, first call: the terminal part is durable before the terminal.
PersistTerminalPart(e) ==
  LET x  == exec[e]
      ev == IF x.ev = "none" THEN "server" ELSE x.ev
  IN
  /\ x.pc = "sdone" /\ CanAppend(e) /\ Append(e, ev)
  /\ Returns(e, [x EXCEPT !.pc = "sterm", !.ev = ev, !.saved = TRUE])
  /\ UNCHANGED <<turn, chat, att, binding, grant, prov, node, clock>>

SettleRecords(e) ==
  /\ exec[e].pc = "sterm" /\ CanRecord(e) /\ RecordTerminal(e, exec[e].term)
  /\ Returns(e, [exec[e] EXCEPT !.pc = "scomplete"])
  /\ UNCHANGED <<turn, chat, binding, grant, parts, prov, node, clock>>

CanComplete(e) ==
  /\ Owned(e) /\ chat.active = e /\ turn[exec[e].turn].snap = e
  /\ att[e].phase \in {"prepared", "dispatching", "accepted"}
\* complete_chat_turn: the answer, the proof, the retired generation and the
\* revoked grant are one transaction.
Complete(e, state, proof) ==
  /\ CanComplete(e)
  /\ turn' = [turn EXCEPT ![exec[e].turn].st = state]
  /\ att' = [att EXCEPT ![e].phase = "settled", ![e].proof = proof]
  /\ chat' = [chat EXCEPT !.phase = "closing"]
  /\ binding' = [binding EXCEPT ![e] = "retired"]
  /\ grant' = Revoke(e)
  /\ Returns(e, [exec[e] EXCEPT !.pc = "cleanup"])
  /\ UNCHANGED <<parts, prov, node, clock>>

SettleCompletes(e) ==
  LET x == exec[e] IN
  /\ x.pc = "scomplete" /\ HasPart(e, x.ev)
  /\ Complete(e, IF x.term = "completed" THEN "completed" ELSE "error", x.term)

\* The failure branch appends an error part and then its own `done` part, each under
\* the next number, unless the reader's part is stored there, and then settles.
CanFailParts(e) == CanAppend(e) /\ ~HasPart(e, "adapter")
FailError(e) ==
  /\ exec[e].pc = "fparts" /\ CanFailParts(e) /\ Append(e, "error")
  /\ Returns(e, [exec[e] EXCEPT !.pc = "fdone", !.seq = 1])
  /\ UNCHANGED <<turn, chat, att, binding, grant, prov, node, clock>>
FailDone(e) ==
  /\ exec[e].pc = "fdone" /\ CanFailParts(e) /\ Append(e, "server")
  /\ Returns(e, [exec[e] EXCEPT !.pc = "fcomplete", !.seq = 2])
  /\ UNCHANGED <<turn, chat, att, binding, grant, prov, node, clock>>

FailCompletes(e) == exec[e].pc = "fcomplete" /\ Complete(e, "error", "lost")

\* Mutation: a preparation may be failed in any phase.
CanFailAnyPhase(e) == Owned(e)
\* fail_chat_preparation: only while nothing can have been dispatched.
CanFailPreparation(e) ==
  Owned(e) /\ chat.phase \in {"preparing", "opening", "prepared", "ready"}
FailPreparation(e) ==
  LET t == exec[e].turn
      s == turn[t].snap
  IN
  /\ exec[e].pc = "fprep" /\ CanFailPreparation(e)
  /\ turn' = [turn EXCEPT ![t].st = "error"]
  /\ att' = IF s = 0 THEN att
            ELSE [att EXCEPT ![s].phase = "settled", ![s].proof = "not_sent"]
  /\ chat' = [chat EXCEPT !.phase = "closing"]
  /\ binding' = [binding EXCEPT ![e] = IF @ = "none" THEN @ ELSE "retired"]
  /\ grant' = Revoke(e)
  /\ Returns(e, [exec[e] EXCEPT !.pc = "cleanup"])
  /\ UNCHANGED <<parts, prov, node, clock>>

\* What a call of the worker needs to commit; a call that does not get it is
\* refused, and one that does may still fail on its way.
Permits(e) ==
  LET pc == exec[e].pc IN
  CASE pc = "reserve"   -> CanReserve(e)
    [] pc = "seal"      -> CanSeal(e)
    [] pc = "recopen"   -> CanRecordOpen(e)
    [] pc = "begin"     -> CanBegin(e)
    [] pc = "accept"    -> CanAccept(e)
    [] pc = "sdone"     -> CanAppend(e)
    [] pc = "sterm"     -> CanRecord(e)
    [] pc = "scomplete" -> CanComplete(e) /\ HasPart(e, exec[e].ev)
    [] pc \in {"fparts", "fdone"} -> CanFailParts(e)
    [] pc = "fcomplete" -> CanComplete(e)
    [] pc = "fprep"     -> CanFailPreparation(e)
    [] OTHER            -> FALSE
CallFails(e) ==
  /\ exec[e].pc \in {"reserve", "seal", "recopen", "begin", "accept", "sdone", "sterm",
                     "scomplete", "fparts", "fdone", "fcomplete", "fprep"}
  /\ \/ ~Permits(e) /\ UNCHANGED faults
     \/ Fault
  /\ Throw(e)
  /\ UNCHANGED <<db, prov, node, clock>>

-----------------------------------------------------------------------------
(***************************************************************************)
(* Cleanup.  It starts when no preparation or open is in flight and the     *)
(* session, if there is one, has exited; both calls are retried for ever.   *)
(***************************************************************************)

\* Mutation: the release does not wait for the session to exit.
CleanupEarly(e) == exec[e].op = "none"
CleanupReady(e) == exec[e].op = "none" /\ prov[e].alive # "up"

ReleaseLaunch(e) ==
  /\ exec[e].pc = "cleanup" /\ CleanupReady(e)
  /\ grant' = IF exec[e].launch THEN Revoke(e) ELSE grant
  /\ exec' = [exec EXCEPT ![e].pc = "release"]
  /\ UNCHANGED <<turn, chat, att, binding, parts, prov, node, clock, faults>>

CanRelease(e) == chat.epoch = e /\ chat.lease # "none" /\ chat.phase = "closing"
FreedChat == [chat EXCEPT !.phase = "idle", !.lease = "none", !.active = 0]

\* Mutation: nothing wakes the chat after its release.
ReleaseQuietly(e) ==
  /\ exec[e].pc = "release"
  /\ chat' = IF CanRelease(e) THEN FreedChat ELSE chat
  /\ exec' = [exec EXCEPT ![e].pc = "gone"]
  /\ UNCHANGED <<turn, att, binding, grant, parts, prov, node, clock, faults>>
\* Only a release that reports it released something wakes the chat; the retry of
\* a release whose reply was lost reports that it found nothing.
ReleaseRuntime(e) ==
  /\ exec[e].pc = "release"
  /\ chat' = IF CanRelease(e) THEN FreedChat ELSE chat
  /\ \/ /\ exec' = [exec EXCEPT ![e].pc = "gone"]
        /\ node' = IF CanRelease(e) THEN [node EXCEPT ![exec[e].node].wake = TRUE] ELSE node
        /\ UNCHANGED faults
     \/ Fault /\ UNCHANGED <<exec, node>>
  /\ UNCHANGED <<turn, att, binding, grant, parts, prov, clock>>

-----------------------------------------------------------------------------
(***************************************************************************)
(* The node dies, boots and reconciles.                                    *)
(***************************************************************************)

\* No hot child survives the node process.
Crash(n) ==
  /\ node[n].boot < MaxBoot
  /\ node' = [node EXCEPT ![n] = [boot |-> @.boot + 1, drain |-> "idle", wake |-> FALSE,
                                  rec |-> "scan", row |-> None, no |-> 0]]
  /\ exec' = [e \in Epochs |-> IF exec[e].node = n
                THEN [exec[e] EXCEPT !.pc = "gone", !.op = "none", !.call = "over",
                                     !.cons = "off"]
                ELSE exec[e]]
  /\ prov' = [e \in Epochs |-> IF exec[e].node = n /\ prov[e].alive = "up"
                THEN [prov[e] EXCEPT !.alive = "exited"] ELSE prov[e]]
  /\ UNCHANGED <<db, clock, faults>>

\* A turn whose owner is gone: still running, or settled but not released.
Abandoned(t) ==
  \/ turn[t].st = "running"
  \/ chat.phase = "closing" /\ chat.active # 0 /\ turn[t].snap = chat.active
OldBoot(n) == chat.node = n /\ chat.boot # node[n].boot

\* Mutation: only expired leases are reconciled.
BootScanExpired(n) ==
  /\ node[n].rec = "scan"
  /\ \/ chat.lease # "expired" /\ node' = [node EXCEPT ![n].rec = "wakeup"]
     \/ \E t \in Turns : chat.lease = "expired" /\ Abandoned(t)
          /\ node' = [node EXCEPT ![n].rec = "recover", ![n].row = t, ![n].no = turn[t].no]
  /\ UNCHANGED <<db, exec, prov, clock, faults>>
BootScan(n) ==
  LET rows == {t \in Turns : Abandoned(t) /\ (OldBoot(n) \/ chat.lease = "expired")}
  IN
  /\ node[n].rec = "scan"
  /\ \/ /\ rows = {}
        /\ node' = [node EXCEPT ![n].rec = "wakeup"]
     \/ \E t \in rows :
          /\ \A u \in rows : turn[t].ord <= turn[u].ord
          /\ node' = [node EXCEPT ![n].rec = "recover", ![n].row = t,
                                  ![n].no = turn[t].no]
  /\ UNCHANGED <<db, exec, prov, clock, faults>>

\* recover_chat_attempt leaves the row to its owner.  Comparing a null snapshot is
\* neither true nor false, and does not leave it.
WaitOwner(n, t) ==
  \/ turn[t].no # node[n].no
  \/ turn[t].st # "running" /\ ~(chat.phase = "closing"
                                 /\ (turn[t].snap = chat.active \/ 0 \in {turn[t].snap, chat.active}))
  \/ chat.lease = "held" /\ ~OldBoot(n)

\* Every disposition retires the old epoch's authority and starts a new one.
FreedByRecovery ==
  /\ binding' = [binding EXCEPT ![chat.epoch] = IF @ \in Current THEN "retired" ELSE @]
  /\ grant' = [f \in Epochs |-> IF grant[f] = "live" THEN "revoked" ELSE grant[f]]
  /\ chat.epoch + 1 \in Epochs
  /\ chat' = [FreedChat EXCEPT !.epoch = chat.epoch + 1]

ReleaseSettled(t) ==
  /\ turn[t].st # "running"
  /\ UNCHANGED <<turn, att, parts>>
\* Mutation: an attempt past the barrier is retried as if it were only prepared.
RetryDispatched(t) ==
  LET s == turn[t].snap IN
  /\ turn[t].st = "running" /\ s # 0 /\ att[s].phase \in {"prepared", "dispatching"}
  /\ turn' = [turn EXCEPT ![t].st = "queued", ![t].snap = 0]
  /\ att' = [att EXCEPT ![s].phase = "settled", ![s].proof = "not_sent"]
  /\ UNCHANGED parts
\* Mutation: whatever was not dispatched is retried, settled or not.
RetryUnbegun(t) ==
  LET s == turn[t].snap IN
  /\ s # 0 /\ ~att[s].begun
  /\ turn' = [turn EXCEPT ![t].st = "queued", ![t].snap = 0]
  /\ att' = [att EXCEPT ![s].phase = "settled", ![s].proof = "not_sent"]
  /\ UNCHANGED parts
RetryPrepared(t) ==
  LET s == turn[t].snap IN
  /\ turn[t].st = "running"
  /\ IF s = 0 THEN turn[t].cfg # 0 ELSE att[s].phase = "prepared"
  /\ turn' = [turn EXCEPT ![t].st = "queued", ![t].snap = 0]
  /\ att' = IF s = 0 THEN att
            ELSE [att EXCEPT ![s].phase = "settled", ![s].proof = "not_sent"]
  /\ UNCHANGED parts

\* The attempt may have been dispatched: settle it, from the recorded terminal
\* when the provider gave one.
Dispatched(t) ==
  LET s == turn[t].snap IN
  turn[t].st = "running" /\ (IF s = 0 THEN turn[t].cfg = 0 ELSE att[s].phase # "prepared")
\* Mutation: the evidence of the terminal is not looked at.
HasAnyProof(t) == turn[t].snap # 0
HasTerminal(t) == turn[t].snap # 0 /\ att[turn[t].snap].proof \in {"completed", "failed"}
\* The terminal part to restore cannot be stored: its number is another part's.
Conflicts(t) ==
  LET s == turn[t].snap
  IN  <<s, att[s].ev>> \notin parts[t] /\ Taken(t, s, att[s].num)

\* Mutation: the terminal part is taken to be stored already.
FinalizeWithoutPart(t) ==
  LET s == turn[t].snap IN
  /\ Dispatched(t) /\ HasTerminal(t)
  /\ turn' = [turn EXCEPT ![t].st = IF att[s].proof = "completed" THEN "completed"
                                    ELSE "error"]
  /\ att' = [att EXCEPT ![s].phase = "settled"]
  /\ UNCHANGED parts
FinalizeTerminal(t) ==
  LET s == turn[t].snap IN
  /\ Dispatched(t) /\ HasTerminal(t) /\ ~Conflicts(t)
  /\ parts' = [parts EXCEPT ![t] = @ \cup {<<s, att[s].ev>>}]
  /\ turn' = [turn EXCEPT ![t].st = IF att[s].proof = "completed" THEN "completed"
                                    ELSE "error"]
  /\ att' = [att EXCEPT ![s].phase = "settled"]
SettleUnknown(t) ==
  LET s == turn[t].snap IN
  /\ Dispatched(t) /\ ~HasTerminal(t)
  /\ turn' = [turn EXCEPT ![t].st = "error"]
  /\ att' = IF s = 0 THEN att ELSE [att EXCEPT ![s].phase = "delivery_unknown"]
  /\ UNCHANGED parts

Recover(t) ==
  /\ FreedByRecovery
  /\ ReleaseSettled(t) \/ RetryPrepared(t) \/ FinalizeTerminal(t) \/ SettleUnknown(t)

\* One row of the reconciliation.  A call that raises ends the whole
\* reconciliation: nothing catches it, and the queued chats are not woken.
BootRecover(n) ==
  LET t == node[n].row
      goes(r) == node' = [node EXCEPT ![n].rec = r, ![n].row = None, ![n].no = 0]
      raises  == Dispatched(t) /\ HasTerminal(t) /\ Conflicts(t)
  IN
  /\ node[n].rec = "recover"
  /\ \/ WaitOwner(n, t) /\ UNCHANGED db /\ goes("wakeup") /\ UNCHANGED faults
     \/ /\ ~WaitOwner(n, t) /\ Recover(t)
        /\ \/ goes("wakeup") /\ UNCHANGED faults
           \/ Fault /\ goes("done")
     \/ ~WaitOwner(n, t) /\ raises /\ UNCHANGED <<db, faults>> /\ goes("done")
     \/ Fault /\ UNCHANGED db /\ goes("done")
  /\ UNCHANGED <<exec, prov, clock>>

\* Mutation: the boot wakes only chats that no node has owned.
BootWakeUnowned(n) ==
  /\ node[n].rec = "wakeup"
  /\ node' = [node EXCEPT ![n].rec = "done",
                          ![n].wake = @ \/ (Queued # {} /\ chat.node = None)]
  /\ UNCHANGED <<db, exec, prov, clock, faults>>
BootWake(n) ==
  /\ node[n].rec = "wakeup"
  /\ node' = [node EXCEPT ![n].rec = "done", ![n].wake =
       @ \/ (Queued # {} /\ (chat.node \in {n, None} \/ chat.lease = "expired"))]
  /\ UNCHANGED <<db, exec, prov, clock, faults>>

-----------------------------------------------------------------------------
Posting == (\E t \in Turns : PostBegin(t) \/ \E n \in Nodes : PostCommit(t, n))
           \/ SetConfiguration
Draining(n) ==
  \/ StartDrain(n) \/ ClaimNothing(n)
  \/ \E t, u \in Turns : ClaimTurn(n, t, u)
  \/ \E e \in Epochs : DrainReturns(n, e)
Worker(e) ==
  \/ Reserve(e) \/ Seal(e) \/ PrepareEnds(e) \/ OpenEnds(e) \/ PreparationFails(e)
  \/ RecordOpen(e) \/ Begin(e) \/ SubmitReturns(e) \/ Accept(e) \/ Observed(e)
  \/ FailureClosed(e) \/ PersistTerminalPart(e) \/ SettleRecords(e) \/ SettleCompletes(e)
  \/ FailError(e) \/ FailDone(e) \/ FailCompletes(e) \/ FailPreparation(e) \/ CallFails(e)
  \/ ReleaseLaunch(e) \/ ReleaseRuntime(e)
Consumer(e) ==
  \/ ConsumeAcceptance(e) \/ ConsumeTerminal(e) \/ ConsumeExit(e) \/ ConsumerAborts(e)
  \/ ConsumerRecords(e) \/ ConsumerSaves(e)
Provider(e) == ProviderTakes(e) \/ ProviderFinishes(e) \/ ProviderExits(e)
Boot(n) == BootScan(n) \/ BootRecover(n) \/ BootWake(n)

Next ==
  \/ Posting \/ LeaseExpire
  \/ \E n \in Nodes : Draining(n) \/ Boot(n) \/ Crash(n)
  \/ \E e \in Epochs : Worker(e) \/ Mint(e) \/ Consumer(e) \/ Provider(e)

Spec == Init /\ [][Next]_vars

(***************************************************************************)
(* Fairness.  A drain loop, a boot reconciliation, a worker and its reader  *)
(* are promise chains: an enabled step of theirs is taken in the end, and   *)
(* each wait on the provider has a deadline, which is a step.  A session    *)
(* that is being closed exits.  Nothing is assumed of clients, of the       *)
(* provider while it works, of leases, crashes and faults.                  *)
(***************************************************************************)
Closes(e) == ProviderExits(e) /\ exec[e].pc \in {"fclose", "cleanup"}
Fairness ==
  /\ \A n \in Nodes : WF_vars(Draining(n)) /\ WF_vars(Boot(n))
  /\ \A e \in Epochs : WF_vars(Worker(e)) /\ WF_vars(Consumer(e)) /\ WF_vars(Closes(e))
LiveSpec == Spec /\ Fairness

-----------------------------------------------------------------------------
(***************************************************************************)
(* Delivery.                                                               *)
(***************************************************************************)
Delivered(e) == prov[e].got # None
Precedes(t, u) == turn[t].ord # 0 /\ turn[t].ord < turn[u].ord

\* No input reaches two provider processes, whatever is retried after crashes,
\* lost replies and expired leases: recover_chat_attempt requeues only what
\* begin_chat_dispatch has not let through.
DeliveredOnce == \A e, f \in Epochs :
  Delivered(e) /\ prov[e].got = prov[f].got => e = f

\* What a provider receives is the input of the turn its attempt is recorded
\* for, although the claim picks the input by ordinal and the running turn by
\* queue time, and these can name different turns.
InputOfTurn == \A e \in Epochs : Delivered(e) => prov[e].got = att[e].turn

\* Turns are handed over in posting order, each after all earlier ones settled.
DeliveredInOrder == \A e \in Epochs : Delivered(e) =>
  \A t \in Turns : Precedes(t, prov[e].got) => turn[t].st \in Settled

\* The claim takes the lowest unsettled ordinal, as the design document says.  It
\* does not when posts overlap.
ClaimsLowestOrdinal == [][\A t \in Turns :
  turn[t].st = "queued" /\ turn'[t].st = "running"
    => \A u \in Turns : Precedes(u, t) => turn[u].st \in Settled]_vars

\* Past the dispatch barrier an attempt is never requeued: its turn runs under it
\* until it is settled.
BegunIsNotRetried == \A e \in Epochs : att[e].begun =>
  LET t == att[e].turn IN
  turn[t].st \in Settled \/ (turn[t].st = "running" /\ turn[t].snap = e)

\* An attempt recorded as not sent was not sent and never will be, although its
\* worker may still be alive on another node when the record is made.
NotSentIsTrue == \A e \in Epochs :
  att[e].proof = "not_sent" => ~att[e].begun /\ ~Delivered(e)

\* A retry runs with the configuration of the first claim, not with a newer one.
RetryKeepsConfiguration == \A e, f \in Epochs :
  att[e].turn # None /\ att[e].turn = att[f].turn => att[e].cfg = att[f].cfg

-----------------------------------------------------------------------------
(***************************************************************************)
(* Settlement.                                                             *)
(***************************************************************************)

\* A completed turn was completed by the provider that received its input, and
\* the normalized terminal part of that session is in its message: by the
\* worker or, after a crash, by the recovery.
CompletedIsProved == \A t \in Turns : turn[t].st = "completed" =>
  LET s == turn[t].snap IN
  /\ s # 0 /\ att[s].turn = t /\ att[s].proof = "completed"
  /\ prov[s].got = t /\ prov[s].out = "completed" /\ <<s, "adapter">> \in parts[t]

\* No worker, recovery or late reply changes a settled turn.
SettledStays == [][\A t \in Turns : turn[t].st \in Settled => turn'[t] = turn[t]]_vars

\* When the chat has moved to a later epoch nothing writes to an attempt any more.
AttemptsAreFinal == [][\A e \in Epochs : e < chat.epoch => att'[e] = att[e]]_vars

\* The message of a turn gets one done part ("must not gain a second done").  It may
\* gain two when a close deadline of the failure branch passes.
DoneParts(t) == {p \in parts[t] : p[2] # "error"}
AtMostOneDone == \A t \in Turns : Cardinality(DoneParts(t)) <= 1

\* A second done part has one way in, whatever fails, crashes, expires or is late:
\* the reader of the same attempt read its terminal after the reply to the failure
\* branch's done part.  In every other order the parts compete for one number, and
\* neither a retry nor a recovery stores a part beside one of another attempt.
SecondDoneIsLate == \A t \in Turns : \A p, q \in DoneParts(t) : p # q =>
  p[1] = turn[t].snap /\ q[1] = turn[t].snap /\ att[turn[t].snap].num = 2

-----------------------------------------------------------------------------
(***************************************************************************)
(* Authority and processes.                                                *)
(***************************************************************************)

\* A live runtime grant belongs to the owner of a running turn: every way out of
\* an epoch revokes it, and none is minted late by an abandoned preparation.
GrantIsFenced == \A e \in Epochs : grant[e] = "live" =>
  chat.epoch = e /\ turn[exec[e].turn].st = "running"

\* Mutation: effects are allowed like the launch's binding read, from the seal on.
EffectPrepared(e) ==
  /\ grant[e] = "live" /\ chat.epoch = e /\ chat.active = e /\ chat.lease = "held"
  /\ chat.phase \in {"prepared", "ready", "dispatching", "running"}
  /\ att[e].phase \in {"prepared", "dispatching", "accepted"}
\* assert_chat_generation(false): what the graph effects of a runtime need.
EffectAllowed(e) ==
  /\ grant[e] = "live" /\ chat.epoch = e /\ chat.active = e /\ chat.lease = "held"
  /\ chat.phase \in {"dispatching", "running"}
  /\ att[e].phase \in {"dispatching", "accepted"}
\* A runtime has effects only for the turn it runs, past that turn's durable
\* barrier, with every earlier turn settled.
EffectsOfRunningTurn == \A e \in Epochs : EffectAllowed(e) =>
  /\ turn[att[e].turn].st = "running" /\ turn[att[e].turn].snap = e /\ att[e].begun
  /\ \A t \in Turns : Precedes(t, att[e].turn) => turn[t].st \in Settled

\* While leases do not run out, a chat has at most one provider process: the
\* next claim waits for the release, and the release for the exit.
OneSession == \A e, f \in Epochs : prov[e].alive = "up" /\ prov[f].alive = "up" => e = f

-----------------------------------------------------------------------------
(***************************************************************************)
(* What the chat promises, and progress.                                   *)
(***************************************************************************)
Shown     == [t \in Turns |-> IF turn[t].st = "posting" THEN "absent" ELSE turn[t].st]
Order     == [t \in Turns |-> turn[t].ord]
Barred    == {att[e].turn : e \in {f \in Epochs : att[f].begun}}
Submitted == {prov[e].got : e \in Epochs} \ {None}

ChatTurn == INSTANCE ChatTurns WITH
  state <- Shown, ord <- Order, barred <- Barred, submitted <- Submitted

\* The rows, workers and recoveries together keep the promise of ChatTurns.
Implements == ChatTurn!Spec

\* A queued turn of a chat that nobody holds is claimed in the end, as the table
\* of failure boundaries says of a lost wake.  It is not: nothing repeats a wake.
QueuedIsClaimed == \A t \in Turns :
  turn[t].st = "queued" /\ chat.lease = "none" ~> turn[t].st # "queued" \/ chat.lease # "none"

\* A turn whose lease ran out is settled before a turn behind it is claimed, as
\* the design of the drain loop says.
ExpiredIsSettledFirst == \A t, u \in Turns :
  turn[u].st = "queued" /\ turn[t].st = "running" /\ chat.lease = "expired"
    ~> turn[t].st # "running"

\* The node died between failing an unsealed preparation and releasing the chat.
ClosedUnsealed == chat.phase = "closing" /\ chat.active = 0 /\ \E n \in Nodes : OldBoot(n)
\* Recovery raises at every boot: the failure branch has stored a part under the number
\* that the recorded terminal needs.
Unrecoverable(t) == turn[t].st = "running" /\ HasTerminal(t) /\ Conflicts(t)
\* The failure branch was refused, because the reader had stored its part, and gave the
\* turn up: it stays running until the next boot.
GivenUp(t) == LET s == turn[t].snap IN
  s # 0 /\ <<s, "adapter">> \in parts[t] /\ ~exec[s].ok

\* The claim set one turn running and took the input of another: its worker passes no
\* fence, fails nothing and frees nothing, until the next boot.
SplitClaim == chat.epoch # 0 /\ exec[chat.epoch].turn # exec[chat.epoch].input

\* Somebody is left to take up a queued turn: a wake or a drain, a reconciliation, or a
\* worker that will release the chat, unless a crash or a split claim strands the chat.
\* Nothing repeats a wake, so that a turn without any of these waits for ever.
Stirring(n) == node[n].wake \/ node[n].drain # "idle" \/ node[n].rec # "done"
QueuedHasTaker == Queued # {} =>
  \/ \E n \in Nodes : Stirring(n)
  \/ \E e \in Epochs : exec[e].pc \notin {"none", "gone"}
  \/ ClosedUnsealed \/ SplitClaim

\* A queued turn is settled in the end, crashes or not, unless a call fails or one of
\* three named cases strands the chat: no worker, drain or release forgets it.
Stranded == ClosedUnsealed \/ \E t \in Turns : Unrecoverable(t) \/ GivenUp(t)
EveryTurnSettles == \A t \in Turns :
  turn[t].st = "queued" ~> turn[t].st \in Settled \/ Stranded \/ faults > 0

\* A boot drains the turns it finds queued and those it requeues, also when their wake
\* was lost or a lost reply had left their chat held, unless another call fails.
DrainedAfterBoot == \A n \in Nodes, t \in Turns, f \in 0..MaxFaults :
  turn[t].st = "queued" /\ node[n].rec # "done" /\ faults = f
    ~> turn[t].st \in Settled \/ Stranded \/ faults > f

\* A boot recovers the turn that a dead boot of its node left running, whatever call
\* had failed before, unless another one fails or the turn cannot be recovered.
AbandonedIsRecovered == \A n \in Nodes, t \in Turns, f \in 0..MaxFaults :
  turn[t].st = "running" /\ OldBoot(n) /\ node[n].rec = "scan" /\ faults = f
    ~> turn[t].st # "running" \/ Unrecoverable(t) \/ faults > f
=============================================================================
