----------------------------- MODULE EventFeed -----------------------------
(***************************************************************************)
(* A client of the event feed (the connection manager of tm8-ui) composed   *)
(* with the server: one space, one page, one socket at a time.  The client  *)
(* subscribes and resumes on every socket that opens, re-resumes while its  *)
(* cursor advances, polls the log while it has no socket, probes the log    *)
(* when its socket is silent, and applies an event only if its seq is past  *)
(* the cursor.                                                              *)
(*                                                                         *)
(* Abstractions.                                                            *)
(*  - Timers fire at any time after they are armed; the backoff, the        *)
(*    foreground signal and the silence clock only say when.                *)
(*  - The mark a space is first opened at (execution.liveness, or the walk  *)
(*    of prepareSpace) is any seq committed before.                         *)
(*  - Listeners, refusal records and resync callbacks are outside: they ask *)
(*    consumers to read afresh and change nothing here.                     *)
(*  - A socket the client has left is closed on the server in the same step, *)
(*    and its handlers are over: nothing they may still do reaches the       *)
(*    client (what they leave behind on the server is EventServer's matter). *)
(*  - The page stays on one boot of the node: clearCursor is not called.    *)
(***************************************************************************)
EXTENDS EventServer

CONSTANTS
  PollBatch,  \* rows of one poll page (500 in the code)
  MaxOpens,   \* bound: times the space is opened
  CanIdle     \* whether a socket may be silent long enough (90 s) for the probe

ASSUME PollAssumption == PollBatch \in Nat \ {0} /\ MaxOpens \in Nat /\ CanIdle \in BOOLEAN

VARIABLES
  open,       \* the space is open
  opens,      \* times it was opened
  conn,       \* the current socket, if any
  ready,      \* that socket is open
  lost,       \* disconnectedAtMs is set: phase polling or offline
  seen,       \* cursors[space]
  base,       \* the mark the space was first opened at
  applied,    \* events handed to the listeners, in order
  accel,      \* cursor at the resume the armed accelerate timer belongs to
  pollTimer,  \* a poll is scheduled
  poll,       \* the poll request in flight
  probe,      \* the idle probe in flight
  epoch       \* prepareEpochs[space]

clientVars == <<open, opens, conn, ready, lost, seen, base, applied, accel, pollTimer,
                poll, probe, epoch>>
vars == <<serverVars, clientVars>>

NoTimer == -1
NoRequest == [at |-> "idle", since |-> 0, epoch |-> 0, top |-> 0]
Request == [at : {"idle", "asked", "served"}, since : 0..MaxSeq, epoch : 0..MaxOpens, top : 0..MaxSeq]

\* The client's variables have their types, and an armed accelerate timer or a socket
\* that is open belongs to a connection.
ClientTypeOK ==
  /\ open \in BOOLEAN /\ opens \in 0..MaxOpens
  /\ conn \in Conns \cup {NoConn} /\ ready \in BOOLEAN /\ lost \in BOOLEAN
  /\ ready => conn # NoConn
  /\ seen \in 0..MaxSeq /\ base \in 0..MaxSeq
  /\ \A i \in DOMAIN applied : applied[i] \in 1..MaxSeq
  /\ accel \in NoTimer..MaxSeq /\ pollTimer \in BOOLEAN
  /\ poll \in Request /\ probe \in Request /\ epoch \in 0..MaxOpens

ClientInit ==
  /\ open = FALSE /\ opens = 0 /\ conn = NoConn /\ ready = FALSE /\ lost = FALSE
  /\ seen = 0 /\ base = 0 /\ applied = <<>> /\ accel = NoTimer
  /\ pollTimer = FALSE /\ poll = NoRequest /\ probe = NoRequest /\ epoch = 0

-----------------------------------------------------------------------------
(* The pieces the handlers are made of.                                     *)

\* A frame sent after the server has closed the connection is read by nobody, and
\* socket.send does nothing unless the socket is open.
SendsOn(c, frames) == up' = IF sock[c] = "closed" THEN up ELSE [up EXCEPT ![c] = @ \o frames]
Sends(frames) == IF ready THEN SendsOn(conn, frames) ELSE UNCHANGED up

Fresh == {c \in Conns : sock[c] = "new"}

\* connect(): a new socket unless there is one.  When no connection is left the
\* node refuses, which the client notices no differently from never connecting.
Connects ==
  IF conn = NoConn /\ Fresh # {}
  THEN \E c \in Fresh : conn' = c /\ sock' = [sock EXCEPT ![c] = "open"]
  ELSE UNCHANGED <<conn, sock>>

\* pollTick: one request at a time, and none while the socket is open.
StartsPoll(wanted) ==
  poll' = IF wanted /\ open' /\ ~ready' /\ poll.at = "idle"
          THEN [at |-> "asked", since |-> seen', epoch |-> epoch', top |-> 0] ELSE poll

\* Mutation: an event is applied whether or not the cursor is past it.
AppliesAll(events, from) == applied' = applied \o Ascending(events)

\* dispatch: an event of an open space past the cursor is applied and moves it.
Applies(events, from) == applied' = applied \o Ascending({e \in events : e > from})

LastOr(events, from) == IF events = {} THEN from ELSE AtLeast(from, Max(events))

\* The client has no use for the socket any more.
Leaves(c) ==
  /\ sock' = [k \in Conns |-> IF k = c THEN "closed" ELSE IF k = conn' THEN "open" ELSE sock[k]]
  /\ subscribed' = subscribed \ {c} /\ viewing' = viewing \ {c}
  /\ cursor' = [k \in Conns |-> IF k = c /\ sock[c] # "closed" THEN Unseeded ELSE cursor[k]]
  /\ up' = [k \in Conns |-> IF k = c THEN <<>> ELSE up[k]]
  /\ down' = [k \in Conns |-> IF k = c THEN <<>> ELSE down[k]]
  /\ jobs' = [k \in Conns |-> IF k = c THEN <<>> ELSE jobs[k]]
  /\ hist' = [k \in Conns |-> IF k = c THEN NoHistory ELSE hist[k]]

\* Mutation: the closed socket still counts as open.
ClosesReady ==
  /\ conn' = NoConn /\ lost' = TRUE
  /\ accel' = IF open THEN NoTimer ELSE accel
  /\ UNCHANGED ready /\ StartsPoll(~pollTimer)

\* Mutation: the pollers are not started.
ClosesQuietly ==
  /\ conn' = NoConn /\ ready' = FALSE /\ lost' = TRUE
  /\ accel' = IF open THEN NoTimer ELSE accel
  /\ UNCHANGED poll

\* handleClose: no socket, no accelerate timer, the pollers start, and a reconnect
\* is scheduled (the guard of Reconnects).
Closes ==
  /\ conn' = NoConn /\ ready' = FALSE /\ lost' = TRUE
  /\ accel' = IF open THEN NoTimer ELSE accel
  /\ StartsPoll(~pollTimer)

-----------------------------------------------------------------------------
(* The application opens and closes the space.                              *)

\* The first time the space is prepared: its cursor is set to a mark.
OpenSpace ==
  /\ ~open /\ opens < MaxOpens
  /\ open' = TRUE /\ opens' = opens + 1
  /\ \E mark \in IF opens = 0 THEN 0..lastSeq ELSE {seen} :
       /\ seen' = AtLeast(mark, seen)
       /\ base' = IF opens = 0 THEN seen' ELSE base
  /\ Sends(<<Frame("subscribe", 0), Frame("resume", seen')>>)
  /\ accel' = IF ready THEN seen' ELSE accel
  /\ IF ready THEN UNCHANGED <<conn, sock>> ELSE Connects
  /\ UNCHANGED <<ready, lost, applied, pollTimer, probe, epoch>>
  /\ StartsPoll(lost /\ ~pollTimer)
  /\ UNCHANGED <<lastSeq, subscribed, cursor, tick, jobs, down, viewing, faults, hist>>

\* The cursor is kept.
CloseSpace ==
  /\ open
  /\ open' = FALSE /\ epoch' = epoch + 1
  /\ accel' = NoTimer /\ pollTimer' = FALSE
  /\ Sends(<<Frame("unsubscribe", 0)>>)
  /\ UNCHANGED <<opens, conn, ready, lost, seen, base, applied, poll, probe>>
  /\ UNCHANGED <<lastSeq, sock, subscribed, cursor, tick, jobs, down, viewing, faults, hist>>

-----------------------------------------------------------------------------
(* The socket.                                                              *)

\* The reconnect timer; the foreground signal also polls at once.
Reconnects ==
  /\ lost /\ conn = NoConn /\ Fresh # {}
  /\ Connects
  /\ UNCHANGED <<open, opens, ready, lost, seen, base, applied, accel, pollTimer, poll, probe, epoch>>
  /\ UNCHANGED <<lastSeq, subscribed, cursor, tick, up, jobs, down, viewing, faults, hist>>

\* resumeNow: the client need not have opened a space or had a socket before.
Foreground ==
  /\ ~ready
  /\ Connects
  /\ pollTimer' = (pollTimer /\ ~open)
  /\ UNCHANGED <<open, opens, ready, lost, seen, base, applied, accel, probe, epoch>>
  /\ StartsPoll(TRUE)
  /\ UNCHANGED <<lastSeq, subscribed, cursor, tick, up, jobs, down, viewing, faults, hist>>

\* A changed credential replaces the socket without the close path; when there is no
\* socket this is the next attempt to connect (Foreground, Reconnects).
ReplaceSocket ==
  /\ conn # NoConn /\ Fresh # {}
  /\ conn' \in Fresh /\ ready' = FALSE
  /\ Leaves(conn)
  /\ UNCHANGED <<open, opens, lost, seen, base, applied, accel, pollTimer, poll, probe, epoch>>
  /\ UNCHANGED <<lastSeq, tick, faults>>

\* handleOpen: the pollers stop, and an open space is subscribed and resumed.
HandleOpen ==
  /\ conn # NoConn /\ ~ready
  /\ ready' = TRUE /\ lost' = FALSE /\ pollTimer' = FALSE
  /\ SendsOn(conn, IF open THEN <<Frame("subscribe", 0), Frame("resume", seen)>> ELSE <<>>)
  /\ accel' = IF open THEN seen ELSE accel
  /\ UNCHANGED <<open, opens, conn, seen, base, applied, poll, probe, epoch>>
  /\ UNCHANGED <<lastSeq, sock, subscribed, cursor, tick, jobs, down, viewing, faults, hist>>

\* A message arrives: an event goes to dispatch, a refusal to the listeners.
ReceivesMessage ==
  /\ ready /\ down[conn] # <<>>
  /\ LET m == Head(down[conn]) IN
     IF m.type = "event" /\ open
     THEN Applies({m.seq}, seen) /\ seen' = AtLeast(seen, m.seq)
     ELSE UNCHANGED <<applied, seen>>
  /\ down' = [down EXCEPT ![conn] = Tail(@)]
  /\ UNCHANGED <<open, opens, conn, ready, lost, base, accel, pollTimer, poll, probe, epoch>>
  /\ UNCHANGED <<lastSeq, sock, subscribed, cursor, tick, up, jobs, viewing, faults, hist>>

\* The accelerate timer: resume again from a cursor that has advanced.
AcceleratesFires ==
  /\ accel # NoTimer
  /\ IF open /\ ready /\ seen > accel
     THEN Sends(<<Frame("resume", seen)>>) /\ accel' = seen
     ELSE UNCHANGED up /\ accel' = NoTimer
  /\ UNCHANGED <<open, opens, conn, ready, lost, seen, base, applied, pollTimer, poll, probe, epoch>>
  /\ UNCHANGED <<lastSeq, sock, subscribed, cursor, tick, jobs, down, viewing, faults, hist>>

\* The server has closed, or the network took the socket (a fault): what was still
\* on its way is lost.
LosesSocket ==
  /\ conn # NoConn
  /\ IF sock[conn] = "closed" THEN UNCHANGED faults ELSE Fault
  /\ UNCHANGED <<open, opens, seen, base, applied, pollTimer, probe, epoch>>
  /\ Closes /\ Leaves(conn)
  /\ UNCHANGED <<lastSeq, tick>>

-----------------------------------------------------------------------------
(* The poll fallback.                                                       *)

PollTimerFires ==
  /\ pollTimer
  /\ pollTimer' = FALSE
  /\ UNCHANGED <<open, opens, conn, ready, lost, seen, base, applied, accel, probe, epoch>>
  /\ StartsPoll(TRUE)
  /\ UNCHANGED serverVars

PollReads ==
  /\ poll.at = "asked"
  /\ poll' = [poll EXCEPT !.at = "served", !.top = PageTop(poll.since, PollBatch)]
  /\ UNCHANGED <<open, opens, conn, ready, lost, seen, base, applied, accel, pollTimer, probe, epoch>>
  /\ UNCHANGED serverVars

\* The answer belongs to the opening of the space that asked.
PollIsCurrent == open /\ epoch = poll.epoch

\* Mutation: the cursor moves to the newest row, of which the page was a part.
PollCursorNewest == AtLeast(lastSeq, seen)

\* The cursor only moves forward.
PollCursor == AtLeast(poll.top, seen)

PollAnswers ==
  /\ poll.at = "served"
  /\ IF PollIsCurrent
     THEN Applies(PageItems(poll.since, poll.top), seen) /\ seen' = PollCursor
     ELSE UNCHANGED <<applied, seen>>
  /\ poll' = NoRequest
  /\ pollTimer' = (pollTimer \/ (open /\ ~ready))
  /\ UNCHANGED <<open, opens, conn, ready, lost, base, accel, probe, epoch>>
  /\ UNCHANGED serverVars

PollFails ==
  /\ poll.at = "asked" /\ Fault
  /\ poll' = NoRequest
  /\ pollTimer' = (pollTimer \/ (open /\ ~ready))
  /\ UNCHANGED <<open, opens, conn, ready, lost, seen, base, applied, accel, probe, epoch>>
  /\ UNCHANGED <<lastSeq, sock, subscribed, cursor, tick, up, jobs, down, viewing, hist>>

-----------------------------------------------------------------------------
(* The idle probe.                                                          *)

ProbeStarts ==
  /\ CanIdle /\ ready /\ open /\ probe.at = "idle"
  /\ probe' = [NoRequest EXCEPT !.at = "asked", !.since = seen]
  /\ UNCHANGED <<open, opens, conn, ready, lost, seen, base, applied, accel, pollTimer, poll, epoch>>
  /\ UNCHANGED serverVars

ProbeReads ==
  /\ probe.at = "asked"
  /\ probe' = [probe EXCEPT !.at = "served", !.top = PageTop(probe.since, PollBatch)]
  /\ UNCHANGED <<open, opens, conn, ready, lost, seen, base, applied, accel, pollTimer, poll, epoch>>
  /\ UNCHANGED serverVars

ProbeFails ==
  /\ probe.at = "asked" /\ Fault
  /\ probe' = NoRequest
  /\ UNCHANGED <<open, opens, conn, ready, lost, seen, base, applied, accel, pollTimer, poll, epoch>>
  /\ UNCHANGED <<lastSeq, sock, subscribed, cursor, tick, up, jobs, down, viewing, hist>>

\* What the probe found is applied, and then whichever socket there is is closed; the
\* cursor does not move past rows the page examined without returning.
ProbeAnswers ==
  LET items == PageItems(probe.since, probe.top) IN
  /\ probe.at = "served"
  /\ probe' = NoRequest
  /\ IF open THEN Applies(items, seen) /\ seen' = LastOr(items, seen)
             ELSE UNCHANGED <<applied, seen>>
  /\ UNCHANGED <<open, opens, base, pollTimer, epoch>>
  /\ IF items # {} THEN Closes /\ Leaves(conn)
     ELSE UNCHANGED <<conn, ready, lost, accel, poll, sock, subscribed, cursor, up, down, jobs, viewing, hist>>
  /\ UNCHANGED <<lastSeq, tick, faults>>

-----------------------------------------------------------------------------
ClientWork ==
  \/ HandleOpen \/ ReceivesMessage \/ AcceleratesFires
  \/ PollTimerFires \/ PollReads \/ PollAnswers
  \/ ProbeStarts \/ ProbeReads \/ ProbeAnswers \/ Reconnects

ClientNext ==
  \/ ClientWork \/ OpenSpace \/ CloseSpace \/ Foreground \/ ReplaceSocket
  \/ LosesSocket \/ PollFails \/ ProbeFails

FeedInit == ServerInit /\ up = [c \in Conns |-> <<>>] /\ ClientInit
FeedNext == ClientNext \/ (ServerNext /\ UNCHANGED clientVars)
FeedSpec == FeedInit /\ [][FeedNext]_vars

\* Timers fire, requests are answered, messages arrive, and a closed socket is noticed.
FeedFairness ==
  /\ WF_vars(TickWork /\ UNCHANGED clientVars)
  /\ \A c \in Conns : /\ WF_vars(JobWork(c) /\ UNCHANGED clientVars)
                      /\ WF_vars(Receive(c) /\ UNCHANGED clientVars)
  /\ WF_vars(Reconnects) /\ WF_vars(HandleOpen) /\ WF_vars(ReceivesMessage) /\ WF_vars(AcceleratesFires)
  /\ WF_vars(PollTimerFires) /\ WF_vars(PollReads \/ PollAnswers)
  /\ WF_vars(ProbeStarts) /\ WF_vars(ProbeReads \/ ProbeAnswers)
  /\ WF_vars(LosesSocket /\ sock[conn] = "closed")
FairFeed == FeedSpec /\ FeedFairness

-----------------------------------------------------------------------------
(* Properties.                                                              *)

\* "strictly increasing seq per space, no duplicates" (connection.ts:9-12), whatever
\* the socket, the poll and the probe deliver late or twice.
AppliedInOrder == \A i, j \in DOMAIN applied : i < j => applied[i] < applied[j]

\* Rows the cursor has passed and the listeners were never given.
Missing == {e \in (base + 1)..seen : e \notin Hidden /\ \A i \in DOMAIN applied : applied[i] # e}

\* "there is no gap between replay end and live" (connection.ts:37-39).
NothingIsMissing == opens > 0 => Missing = {}

\* Until the space is opened a second time, the only rows a client can lose are at or
\* below the mark its connection went live at by a subscribe: the pump, the replay, the
\* poll and the probe lose nothing (connection.ts:36-43, poll.ts:210-229).
OnlySubscribesLose == [][opens = 1 =>
  \A e \in Missing' \ Missing : conn # NoConn /\ e <= hist[conn].start]_vars

\* "the client would still converge" (connection.ts:40-43): a row that the client may
\* read is passed by the cursor of a space that stays open.
Converges == \A e \in 1..MaxSeq \ Hidden :
  (open /\ e <= lastSeq) ~> (seen >= e \/ ~open)
=============================================================================
