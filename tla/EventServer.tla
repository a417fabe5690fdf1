---------------------------- MODULE EventServer ----------------------------
(***************************************************************************)
(* The server side of one space's event feed: the sequence of committed     *)
(* workspace_events rows, the control frames of each WebSocket connection   *)
(* (subscribe, unsubscribe, resume, presence.set), and the pump that reads  *)
(* the log once per tick for every subscribed connection.                   *)
(*                                                                         *)
(* A frame is handled without waiting for the frame before it (main.ts:714  *)
(* drops the promise), so the handlers of one connection interleave at each *)
(* await, with each other, with the pump's own awaits and with the close.   *)
(*                                                                         *)
(* Abstractions.                                                            *)
(*  - One space, one identity: connections and frames do not share state    *)
(*    across spaces, apart from the tick, which this model keeps.           *)
(*  - An event is its seq.  A page is determined by its `since` and by the  *)
(*    last seq examined, its `nextCursor`; Hidden are the rows that a page  *)
(*    examines and counts and the mapper skips.  Rows that row-level        *)
(*    security withholds, which the query never returns, are out of scope,  *)
(*    like the recipients it withholds them from.                           *)
(*  - Retention does not prune during a behaviour.                          *)
(*                                                                         *)
(* An operator commented as a mutation is the form its neighbour would have *)
(* with a plausible bug; the specification does not use it.                 *)
(***************************************************************************)
EXTENDS Integers, SequencesExt

CONSTANTS
  NoConn,       \* no connection
  Conns,        \* connections; an id (a UUID) is never used again
  MaxSeq,       \* bound: rows committed to the log
  Hidden,       \* rows the mapper skips: examined, and not sent
  PumpBatch,    \* rows of one pump page (200 in the code)
  ResumeBatch,  \* rows of one resume page (500 in the code)
  MaxFaults,    \* bound: refusals, failed reads, lost sockets
  Scripts       \* the frames the connections may send, when no client is modelled

ASSUME NoConnAssumption == NoConn \notin Conns
ASSUME SeqAssumption == MaxSeq \in Nat /\ Hidden \subseteq 1..MaxSeq
ASSUME BatchAssumption == PumpBatch \in Nat \ {0} /\ ResumeBatch \in Nat \ {0}
ASSUME FaultAssumption == MaxFaults \in Nat

VARIABLES
  lastSeq,     \* space_event_seq.last_seq: rows 1..lastSeq are committed
  sock,        \* state of each WsConnection; registered while open or closing
  subscribed,  \* connections in the registry's set for the space
  cursor,      \* the pump's cursor of each connection
  tick,        \* the pump's running tick
  up,          \* frames sent by the client and not yet handled
  jobs,        \* handlers of each connection that wait at an await
  down,        \* what was sent to each connection and not yet received
  viewing,     \* connections the presence store holds an entry of
  faults,      \* faults so far
  hist         \* history: what each connection asked for, and when

serverVars == <<lastSeq, sock, subscribed, cursor, tick, up, jobs, down, viewing,
                faults, hist>>

Unseeded == -1

AtMost(a, b) == IF a < b THEN a ELSE b
AtLeast(a, b) == IF a < b THEN b ELSE a

Frame(type, since) == [type |-> type, since |-> since]
Frames == [type : {"subscribe", "unsubscribe", "resume", "presence.on", "presence.off"},
           since : 0..MaxSeq]

ASSUME ScriptAssumption == \A script \in Scripts : script \in [Conns -> Seq(Frames)]

Job    == [type : {"subscribe", "resume", "presence.on", "presence.off"}, since : 0..MaxSeq,
           at : {"authorize", "read", "apply"}, top : Unseeded..MaxSeq]
Event(e)    == [type |-> "event", seq |-> e]
Refusal(ty) == [type |-> "refused", frame |-> ty]
Messages == [type : {"event"}, seq : 1..MaxSeq]
            \cup [type : {"refused"}, frame : {"subscribe", "resume", "presence.on", "presence.off"}]
NoHistory == [wants |-> FALSE, asked |-> FALSE, subs |-> 0, marked |-> FALSE, start |-> Unseeded]
NoTick == [phase |-> "next", left |-> {}, conn |-> NoConn, since |-> 0, top |-> 0]

\* What the server holds of each connection, of its handlers and of the tick has its
\* type, and no page ends beyond the log, unless a client asked from beyond it (poll.ts).
ServerTypeOK ==
  /\ lastSeq \in 0..MaxSeq
  /\ sock \in [Conns -> {"new", "open", "closing", "closed"}]
  /\ subscribed \subseteq Conns /\ viewing \subseteq Conns
  /\ cursor \in [Conns -> Unseeded..MaxSeq]
  /\ tick \in [phase : {"next", "read", "send"}, left : SUBSET Conns, conn : Conns \cup {NoConn},
               since : 0..MaxSeq, top : 0..MaxSeq]
  /\ tick.top <= AtLeast(tick.since, lastSeq)
  /\ \A c \in Conns :
       /\ \A i \in DOMAIN up[c] : up[c][i] \in Frames
       /\ \A i \in DOMAIN jobs[c] : /\ jobs[c][i] \in Job
                                     /\ jobs[c][i].top <= AtLeast(jobs[c][i].since, lastSeq)
       /\ \A i \in DOMAIN down[c] : down[c][i] \in Messages
  /\ faults \in 0..MaxFaults
  /\ hist \in [Conns -> [wants : BOOLEAN, asked : BOOLEAN, subs : Nat, marked : BOOLEAN,
                         start : Unseeded..MaxSeq]]

ServerInit ==
  /\ lastSeq = 0 /\ faults = 0
  /\ sock = [c \in Conns |-> "new"] /\ subscribed = {} /\ viewing = {}
  /\ cursor = [c \in Conns |-> Unseeded] /\ tick = NoTick
  /\ jobs = [c \in Conns |-> <<>>] /\ down = [c \in Conns |-> <<>>]
  /\ hist = [c \in Conns |-> NoHistory]

-----------------------------------------------------------------------------
(* The log.                                                                 *)

\* internal.next_event_seq holds the counter's row lock until the mutation commits,
\* so rows become visible in the order of their seqs.
Commit ==
  /\ lastSeq < MaxSeq
  /\ lastSeq' = lastSeq + 1
  /\ UNCHANGED <<sock, subscribed, cursor, tick, up, jobs, down, viewing, faults, hist>>

\* Mutation: the cursor moves a whole page on, whatever the page held.
PageTopUncapped(since, cap) == IF lastSeq <= since THEN since ELSE since + cap

\* nextCursor of a page: the last row examined, skipped rows included, or `since` when
\* there was none.
PageTop(since, cap) == IF lastSeq <= since THEN since ELSE AtMost(since + cap, lastSeq)

\* The rows of a finite set in ascending order.
Ascending(S) ==
  CHOOSE s \in [1..Cardinality(S) -> S] : \A i, j \in DOMAIN s : i < j => s[i] < s[j]

\* The items of the page, and what is sent for them.
PageItems(since, top) == (since + 1)..top \ Hidden
PageEvents(since, top) ==
  LET items == Ascending(PageItems(since, top)) IN [i \in DOMAIN items |-> Event(items[i])]

-----------------------------------------------------------------------------
(* Connections.                                                             *)

IsOpen(c) == sock[c] = "open"
Registered(c) == sock[c] \in {"open", "closing"}
Fault == faults < MaxFaults /\ faults' = faults + 1

Accept(c) ==
  /\ sock[c] = "new"
  /\ sock' = [sock EXCEPT ![c] = "open"]
  /\ UNCHANGED <<lastSeq, subscribed, cursor, tick, up, jobs, down, viewing, faults, hist>>

\* closeAll at shutdown, and the answer to a binary frame.
CloseBegin(c) ==
  /\ IsOpen(c)
  /\ sock' = [sock EXCEPT ![c] = "closing"]
  /\ UNCHANGED <<lastSeq, subscribed, cursor, tick, up, jobs, down, viewing, faults, hist>>

\* The terminal transition and its handlers: the registry, the presence store and
\* (cursor, below) the pump forget the connection; frames not yet read are dropped.
Gone(c) ==
  /\ sock' = [sock EXCEPT ![c] = "closed"]
  /\ up' = [up EXCEPT ![c] = <<>>]
  /\ subscribed' = subscribed \ {c}
  /\ viewing' = viewing \ {c}

Finish(c) ==
  /\ Registered(c)
  /\ Gone(c)
  /\ cursor' = [cursor EXCEPT ![c] = Unseeded]
  /\ UNCHANGED <<lastSeq, tick, jobs, down, faults, hist>>

\* A presence entry older than staleAfterMs is dropped when the entity is read.
PresenceExpires(c) ==
  /\ c \in viewing
  /\ viewing' = viewing \ {c}
  /\ UNCHANGED <<lastSeq, sock, subscribed, cursor, tick, up, jobs, down, faults, hist>>

-----------------------------------------------------------------------------
(* Control frames.                                                          *)

\* A frame is taken off the socket and its handler runs up to its first await;
\* unsubscribe has none, and leaves the pump's cursor as it is.
Receive(c) ==
  /\ Registered(c) /\ up[c] # <<>>
  /\ LET f == Head(up[c]) IN
     /\ up' = [up EXCEPT ![c] = Tail(@)]
     /\ IF f.type = "unsubscribe"
        THEN /\ subscribed' = subscribed \ {c}
             /\ hist' = [hist EXCEPT ![c].wants = FALSE]
             /\ UNCHANGED jobs
        ELSE /\ jobs' = [jobs EXCEPT ![c] =
                  Append(@, [type |-> f.type, since |-> f.since, at |-> "authorize", top |-> Unseeded])]
             /\ hist' = CASE f.type = "subscribe" ->
                               [hist EXCEPT ![c].wants = TRUE, ![c].subs = @ + 1]
                          [] f.type = "resume" -> [hist EXCEPT ![c].asked = TRUE]
                          [] OTHER -> hist
             /\ UNCHANGED subscribed
  /\ UNCHANGED <<lastSeq, sock, cursor, tick, down, viewing, faults>>

Ends(c, i) == jobs' = [jobs EXCEPT ![c] = RemoveAt(@, i)]

\* The authorizer's answer is yes.  A subscribe becomes a member of the fan-out
\* here, before its mark is read, unless the connection has closed meanwhile.
Authorized(c, i) ==
  /\ jobs[c][i].at = "authorize"
  /\ jobs' = [jobs EXCEPT ![c][i].at =
                IF jobs[c][i].type \in {"subscribe", "resume"} THEN "read" ELSE "apply"]
  /\ subscribed' = IF jobs[c][i].type = "subscribe" /\ Registered(c)
                   THEN subscribed \cup {c} ELSE subscribed
  /\ hist' = IF jobs[c][i].type = "subscribe"
             THEN [hist EXCEPT ![c].marked = @ /\ c \in subscribed, ![c].start = AtLeast(@, cursor[c])]
             ELSE hist
  /\ UNCHANGED <<lastSeq, sock, cursor, tick, up, down, viewing, faults>>

\* The answer is no, or the probe failed and reads as no.
Refused(c, i) ==
  /\ jobs[c][i].at = "authorize" /\ Fault
  /\ Ends(c, i)
  /\ down' = IF IsOpen(c) THEN [down EXCEPT ![c] = Append(@, Refusal(jobs[c][i].type))] ELSE down
  /\ UNCHANGED <<lastSeq, sock, subscribed, cursor, tick, up, viewing, hist>>

\* The read of the mark (subscribe) or of the page (resume), in one transaction.
Reads(c, i) ==
  /\ jobs[c][i].at = "read"
  /\ jobs' = [jobs EXCEPT ![c][i].at = "apply",
                ![c][i].top = IF jobs[c][i].type = "subscribe" THEN lastSeq
                              ELSE PageTop(jobs[c][i].since, ResumeBatch)]
  /\ UNCHANGED <<lastSeq, sock, subscribed, cursor, tick, up, down, viewing, faults, hist>>

\* The mark is null, or the read throws: the handler ends, and a subscribe stays
\* without a cursor of its own.
ReadFails(c, i) ==
  /\ jobs[c][i].at = "read" /\ Fault
  /\ Ends(c, i)
  /\ UNCHANGED <<lastSeq, sock, subscribed, cursor, tick, up, down, viewing, hist>>

\* seed() checks nothing: it also creates a cursor for a connection that is gone.
Seeded(c, s) == cursor' = [cursor EXCEPT ![c] = s]

\* Mutation: a subscribe goes live from the row before its mark.
SeedBelowMark(c, i) ==
  /\ jobs[c][i].at = "apply" /\ jobs[c][i].type = "subscribe"
  /\ Seeded(c, IF jobs[c][i].top = 0 THEN 0 ELSE jobs[c][i].top - 1)
  /\ hist' = [hist EXCEPT ![c].marked = TRUE, ![c].start = AtLeast(@, jobs[c][i].top)]
  /\ Ends(c, i)
  /\ UNCHANGED <<lastSeq, sock, subscribed, tick, up, down, viewing, faults>>

\* The mark becomes the connection's cursor.
SeedMark(c, i) ==
  /\ jobs[c][i].at = "apply" /\ jobs[c][i].type = "subscribe"
  /\ Seeded(c, jobs[c][i].top)
  /\ hist' = [hist EXCEPT ![c].marked = TRUE, ![c].start = AtLeast(@, jobs[c][i].top)]
  /\ Ends(c, i)
  /\ UNCHANGED <<lastSeq, sock, subscribed, tick, up, down, viewing, faults>>

\* The replay, then the handover.  An empty page does not look at the socket.
SendPage(c, i) ==
  LET job == jobs[c][i]  page == PageEvents(job.since, job.top) IN
  /\ job.at = "apply" /\ job.type = "resume"
  /\ IF IsOpen(c) THEN down' = [down EXCEPT ![c] = @ \o page] ELSE UNCHANGED down
  /\ IF IsOpen(c) \/ page = <<>> THEN Seeded(c, job.top) ELSE UNCHANGED cursor
  /\ Ends(c, i)
  /\ UNCHANGED <<lastSeq, sock, subscribed, tick, up, viewing, faults, hist>>

\* The socket's buffer is full at the k-th event: the connection is destroyed in
\* the middle of the page; after the last event the handover still happens.
ResumeOverflows(c, i) ==
  LET job == jobs[c][i]  page == PageEvents(job.since, job.top) IN
  /\ job.at = "apply" /\ job.type = "resume" /\ IsOpen(c) /\ Fault
  /\ \E k \in DOMAIN page :
       /\ down' = [down EXCEPT ![c] = @ \o SubSeq(page, 1, k - 1)]
       /\ Seeded(c, IF k = Len(page) THEN job.top ELSE Unseeded)
  /\ Gone(c) /\ Ends(c, i)
  /\ UNCHANGED <<lastSeq, tick, hist>>

SetPresence(c, i) ==
  /\ jobs[c][i].at = "apply" /\ jobs[c][i].type \in {"presence.on", "presence.off"}
  /\ viewing' = IF jobs[c][i].type = "presence.on" THEN viewing \cup {c} ELSE viewing \ {c}
  /\ Ends(c, i)
  /\ UNCHANGED <<lastSeq, sock, subscribed, cursor, tick, up, down, faults, hist>>

-----------------------------------------------------------------------------
(* The pump: one tick at a time, over the registered connections.           *)

\* A tick has ended when no connection is left.
TickStarts ==
  /\ tick.phase = "next" /\ tick.left = {}
  /\ tick' = [NoTick EXCEPT !.left = {c \in Conns : Registered(c)}]
  /\ UNCHANGED <<lastSeq, sock, subscribed, cursor, up, jobs, down, viewing, faults, hist>>

\* A connection without membership or without a cursor gets nothing.
Eligible(c) == c \in subscribed /\ cursor[c] # Unseeded

TickTakes(c) ==
  /\ tick.phase = "next" /\ c \in tick.left
  /\ tick' = IF IsOpen(c) /\ Eligible(c)
             THEN [tick EXCEPT !.phase = "read", !.left = @ \ {c}, !.conn = c, !.since = cursor[c]]
             ELSE [tick EXCEPT !.left = @ \ {c}]
  /\ cursor' = IF IsOpen(c) THEN cursor ELSE [cursor EXCEPT ![c] = Unseeded]
  /\ UNCHANGED <<lastSeq, sock, subscribed, up, jobs, down, viewing, faults, hist>>

PumpReads ==
  /\ tick.phase = "read"
  /\ tick' = [tick EXCEPT !.phase = "send", !.top = PageTop(tick.since, PumpBatch)]
  /\ UNCHANGED <<lastSeq, sock, subscribed, cursor, up, jobs, down, viewing, faults, hist>>

TickMovesOn == tick' = [NoTick EXCEPT !.left = tick.left]

\* A failed read ends this connection's turn and no other's.
PumpFails ==
  /\ tick.phase = "read" /\ Fault
  /\ TickMovesOn
  /\ UNCHANGED <<lastSeq, sock, subscribed, cursor, up, jobs, down, viewing, hist>>

\* Mutation: the cursor is not advanced past a page that had no items.
AdvancesDelivered(c) ==
  IF PageItems(tick.since, tick.top) # {} /\ sock[c] # "closed"
  THEN cursor' = [cursor EXCEPT ![c] = tick.top]
  ELSE UNCHANGED cursor

\* After the await the cursor is written whatever it has become meanwhile; only a
\* connection that was forgotten has left this reader an orphaned map.
Advances(c) ==
  IF tick.top > tick.since /\ sock[c] # "closed"
  THEN cursor' = [cursor EXCEPT ![c] = tick.top]
  ELSE UNCHANGED cursor

PumpSends ==
  LET c == tick.conn IN
  /\ tick.phase = "send"
  /\ down' = IF IsOpen(c) THEN [down EXCEPT ![c] = @ \o PageEvents(tick.since, tick.top)] ELSE down
  /\ Advances(c)
  /\ TickMovesOn
  /\ UNCHANGED <<lastSeq, sock, subscribed, up, jobs, viewing, faults, hist>>

PumpOverflows ==
  LET c == tick.conn  page == PageEvents(tick.since, tick.top) IN
  /\ tick.phase = "send" /\ IsOpen(c) /\ Fault
  /\ \E k \in DOMAIN page : down' = [down EXCEPT ![c] = @ \o SubSeq(page, 1, k - 1)]
  /\ Gone(c)
  /\ cursor' = [cursor EXCEPT ![c] = Unseeded]
  /\ TickMovesOn
  /\ UNCHANGED <<lastSeq, jobs, hist>>

-----------------------------------------------------------------------------
JobWork(c) == \E i \in DOMAIN jobs[c] :
  Authorized(c, i) \/ Reads(c, i) \/ SeedMark(c, i) \/ SendPage(c, i) \/ SetPresence(c, i)
JobFault(c) == \E i \in DOMAIN jobs[c] :
  Refused(c, i) \/ ReadFails(c, i) \/ ResumeOverflows(c, i)
TickWork == TickStarts \/ (\E c \in Conns : TickTakes(c)) \/ PumpReads \/ PumpSends

ServerNext ==
  \/ Commit \/ TickWork \/ PumpFails \/ PumpOverflows
  \/ \E c \in Conns : Finish(c) \/ PresenceExpires(c) \/ Receive(c)
                      \/ JobWork(c) \/ JobFault(c)

\* The server with connections that send the frames of a script.
Init == ServerInit /\ up \in Scripts
Next == ServerNext \/ \E c \in Conns : Accept(c) \/ CloseBegin(c)
Spec == Init /\ [][Next]_serverVars

\* Timers fire, transactions end, and what is read off a socket is handled.
ServerFairness ==
  /\ WF_serverVars(TickWork)
  /\ \A c \in Conns : WF_serverVars(JobWork(c)) /\ WF_serverVars(Receive(c))
FairSpec == Spec /\ ServerFairness

-----------------------------------------------------------------------------
(* Properties.                                                              *)

\* A connection that has subscribed once, and has never asked for a replay, has
\* been sent the readable rows after its mark, each once, in order, without one
\* missing; without a mark it has been sent nothing (pump.ts:92-107, control.ts:218-231).
SentEvents(c) == {i \in DOMAIN down[c] : down[c][i].type = "event"}
LiveIsExact == \A c \in Conns : ~hist[c].asked /\ hist[c].subs <= 1 =>
  /\ \A i, j \in SentEvents(c) : i < j => down[c][i].seq < down[c][j].seq
  /\ \E n \in 0..lastSeq : {down[c][i].seq : i \in SentEvents(c)} =
       IF hist[c].start = Unseeded THEN {} ELSE PageItems(hist[c].start, n)

\* "A subscribe that cannot establish a start point is left UNSEEDED" (control.ts:149-152):
\* a member that never asked for a replay has no cursor, unless a mark was read and
\* seeded since it became a member.
NoMarkNoCursor == \A c \in subscribed :
  ~hist[c].asked /\ jobs[c] = <<>> => cursor[c] = Unseeded \/ hist[c].marked

\* A connection can always "stop its own subscription" (control.ts:236-239): once its
\* last frame is an unsubscribe and no handler is left, it is not a member.
UnsubscribeStops == \A c \in Conns :
  ~hist[c].wants /\ jobs[c] = <<>> => c \notin subscribed

\* "Presence dies with the connection" (presence.ts:22).
PresenceDiesWithConnection == \A c \in viewing : sock[c] # "closed"

\* One connection's slow or failed read does not stop the others: whoever is a
\* member with a cursor is brought to the end of the log (pump.ts:125-149).
EveryoneIsServed == \A c \in Conns :
  Eligible(c) ~> (cursor[c] >= lastSeq \/ ~Eligible(c) \/ ~IsOpen(c))
=============================================================================
