----------------------------- MODULE PtyClient -----------------------------
(***************************************************************************)
(* The browser's half of the terminal stream, ptyTransport.ts, for one     *)
(* session, joined to the server's half of PtyHost.                        *)
(*                                                                         *)
(* The client keeps one number of the stream, the offset it has received,  *)
(* and asks for the rest of the stream with it on every connect.  The      *)
(* screen is the terminal that shows the bytes.  Timers, backoff, input    *)
(* and the modes of an attachment are left out, and output is on the       *)
(* screen when it arrives: the write scheduler drops nothing.              *)
(***************************************************************************)
EXTENDS PtyHost

CONSTANTS
  MaxOpens,     \* bound: times the terminal is mounted
  QuietRemount  \* it is mounted again only when no grant request is in flight

ASSUME ClientAssumption == MaxOpens \in Nat /\ QuietRemount \in BOOLEAN

VARIABLES
  mounted,     \* a terminal is mounted for the session
  opens,       \* times it was mounted
  active,      \* _activeSessions
  suspended,   \* _suspended
  exited,      \* _exitedSessions
  refused,     \* _refusals
  timer,       \* a reconnect is scheduled
  connecting,  \* _connecting
  generation,  \* _connectGenerations
  requests,    \* grant requests in flight, by their generation
  current,     \* _sockets, 0 for none
  received,    \* _received
  seen,        \* _epochs, 0 for none
  expected,    \* _pendingReplay: `next` of the replay to come, or Nothing
  screen       \* what the terminal shows

session  == <<mounted, opens, active, suspended, exited>>
dialling == <<refused, timer, connecting, generation, requests, current>>
resume   == <<received, seen, expected, screen>>
clientVars == <<session, dialling, resume>>
vars == <<hostVars, wire, browser, faults, clientVars>>

Nothing == -1
Generations == 0..(2 * MaxOpens)

\* A screen shows the bytes [from, to) of a stream, unless they were not
\* painted one after the other.
Blank == [epoch |-> 0, from |-> 0, to |-> 0, exact |-> TRUE]
Paint(b) ==
  IF screen = Blank THEN [epoch |-> b.epoch, from |-> b.from, to |-> b.to, exact |-> TRUE]
  ELSE IF b.epoch = screen.epoch /\ b.from = screen.to THEN [screen EXCEPT !.to = b.to]
  ELSE [screen EXCEPT !.exact = FALSE]

ClientTypeOK ==
  /\ mounted \in BOOLEAN /\ opens \in 0..MaxOpens
  /\ active \in BOOLEAN /\ suspended \in BOOLEAN /\ exited \in BOOLEAN
  /\ refused \in BOOLEAN /\ timer \in BOOLEAN /\ connecting \in BOOLEAN
  /\ generation \in Generations /\ requests \in [Generations -> Nat]
  /\ current \in {0} \cup Sockets
  /\ received \in Offsets /\ seen \in {0} \cup Epochs /\ expected \in {Nothing} \cup Offsets
  /\ screen \in [epoch : {0} \cup Epochs, from : Offsets, to : Offsets, exact : BOOLEAN]

\* One invariant of types for both halves.
TypeOK == HostTypeOK /\ ClientTypeOK

Init ==
  /\ HostInit
  /\ mounted = FALSE /\ opens = 0 /\ active = FALSE /\ suspended = FALSE /\ exited = FALSE
  /\ refused = FALSE /\ timer = FALSE /\ connecting = FALSE
  /\ generation = 0 /\ requests = [g \in Generations |-> 0] /\ current = 0
  /\ received = 0 /\ seen = 0 /\ expected = Nothing /\ screen = Blank

-----------------------------------------------------------------------------
(***************************************************************************)
(* Dialling: a grant is minted for every connect.                          *)
(***************************************************************************)
\* _ensureSocket, given what the caller has just set.
Ensure(gen, isRefused, isConnecting, cur) ==
  IF cur # 0 \/ isRefused \/ isConnecting
    THEN connecting' = isConnecting /\ UNCHANGED requests
    ELSE connecting' = TRUE /\ requests' = [requests EXCEPT ![gen] = @ + 1]

\* ws.close(): from here on the browser drops what arrives.  A close frame, the
\* last of its socket, is still seen.
ClosingPart(fs) ==
  IF fs # <<>> /\ fs[Len(fs)].type = "close" THEN <<fs[Len(fs)]>> ELSE <<>>
Hangup(s) == /\ browser' = IF s = 0 THEN browser ELSE [browser EXCEPT ![s] = "closing"]
             /\ wire' = IF s = 0 THEN wire ELSE [wire EXCEPT ![s] = ClosingPart(@)]

Free == {s \in Sockets : browser[s] = "none"}

\* _openSocket: the offset is read when the socket is opened.
OpenSocket ==
  /\ Free # {}
  /\ LET s == Min(Free) IN
       /\ current' = s
       /\ browser' = [browser EXCEPT ![s] = "up"]
       /\ srv' = [srv EXCEPT ![s] = Asked(received)]

Answered(g) == requests[g] > 0 /\ requests' = [requests EXCEPT ![g] = @ - 1]

WantedHidden(g) == active /\ g = generation

\* The answer counts unless the session was closed, opened again or suspended.
Wanted(g) == active /\ ~suspended /\ g = generation

Granted(g) ==
  /\ Answered(g) /\ connecting' = FALSE
  /\ IF Wanted(g) THEN OpenSocket ELSE UNCHANGED <<current, browser, srv>>
  /\ UNCHANGED <<epoch, spawns, made, chunks, unsent, wire, faults, session,
                 refused, timer, generation, resume>>

\* The request fails; the generation is not looked at.
MintFails(g) ==
  /\ Fault /\ Answered(g) /\ connecting' = FALSE
  /\ timer' = (timer \/ (active /\ ~suspended))
  /\ UNCHANGED <<hostVars, wire, browser, session, refused, generation, current, resume>>

\* The request is refused: nothing dials again by itself.
MintRefused(g) ==
  /\ Answered(g) /\ connecting' = FALSE
  /\ refused' = TRUE /\ timer' = FALSE
  /\ UNCHANGED <<hostVars, wire, browser, faults, session, generation, current, resume>>

\* A new sign-in withdraws the refusal.
ClearRefusal ==
  /\ refused /\ refused' = FALSE
  /\ IF active /\ ~suspended THEN Ensure(generation, FALSE, connecting, current)
                             ELSE UNCHANGED <<connecting, requests>>
  /\ UNCHANGED <<hostVars, wire, browser, faults, session, timer, generation, current, resume>>

\* The reconnect timer.
Reconnect ==
  /\ timer /\ timer' = FALSE
  /\ IF active THEN Ensure(generation, refused, connecting, current)
               ELSE UNCHANGED <<connecting, requests>>
  /\ UNCHANGED <<hostVars, wire, browser, faults, session, refused, generation, current, resume>>

\* The page becomes visible or the network is back.
Wake ==
  /\ active /\ ~suspended /\ current = 0
  /\ timer' = FALSE
  /\ Ensure(generation, refused, connecting, 0)
  /\ UNCHANGED <<hostVars, wire, browser, faults, session, refused, generation, current, resume>>

-----------------------------------------------------------------------------
(***************************************************************************)
(* The terminal is mounted, goes off screen, comes back, is unmounted.     *)
(***************************************************************************)
OpenSession ==
  /\ ~mounted /\ opens < MaxOpens
  /\ QuietRemount => \A g \in Generations : requests[g] = 0
  /\ mounted' = TRUE /\ opens' = opens + 1
  /\ active' = TRUE /\ suspended' = FALSE /\ exited' = FALSE /\ refused' = FALSE
  /\ generation' = generation + 1
  /\ Ensure(generation + 1, FALSE, FALSE, current)
  /\ received' = 0 /\ seen' = 0 /\ expected' = Nothing /\ screen' = Blank
  /\ UNCHANGED <<hostVars, wire, browser, faults, timer, current>>

CloseSession ==
  /\ mounted /\ mounted' = FALSE
  /\ active' = FALSE /\ suspended' = FALSE /\ exited' = FALSE
  /\ refused' = FALSE /\ timer' = FALSE /\ connecting' = FALSE
  /\ generation' = generation + 1
  /\ received' = 0 /\ seen' = 0 /\ expected' = Nothing /\ screen' = Blank
  /\ Hangup(current) /\ current' = 0
  /\ UNCHANGED <<hostVars, faults, opens, requests>>

Suspend ==
  /\ mounted /\ active /\ ~suspended
  /\ suspended' = TRUE /\ timer' = FALSE
  /\ Hangup(current) /\ current' = 0
  /\ UNCHANGED <<hostVars, faults, mounted, opens, active, exited,
                 refused, connecting, generation, requests, resume>>

Resume ==
  /\ suspended /\ suspended' = FALSE
  /\ IF active THEN Ensure(generation, refused, connecting, current)
               ELSE UNCHANGED <<connecting, requests>>
  /\ UNCHANGED <<hostVars, wire, browser, faults, mounted, opens, active, exited,
                 refused, timer, generation, current, resume>>

-----------------------------------------------------------------------------
(***************************************************************************)
(* Frames.  The handlers of a socket serve the session, whichever socket   *)
(* the session holds now.                                                  *)
(***************************************************************************)
Resets(f) == f.gap > 0 \/ (seen # 0 /\ seen # f.epoch)

TakeAttachedAtOnce(f) ==
  /\ seen' = f.epoch
  /\ screen' = IF Resets(f) THEN Blank ELSE screen
  /\ expected' = (IF f.replay THEN f.next ELSE Nothing) /\ received' = f.next

\* _handleAttached: the offset moves to `next` only once the replay is here.
TakeAttached(f) ==
  /\ seen' = f.epoch
  /\ screen' = IF Resets(f) THEN Blank ELSE screen
  /\ IF f.replay THEN /\ expected' = f.next
                      /\ received' = IF Resets(f) THEN 0 ELSE received
                 ELSE expected' = Nothing /\ received' = f.next

TakeBytesCounted(f) ==
  /\ screen' = Paint(f)
  /\ expected' = Nothing
  /\ received' = (IF expected # Nothing THEN expected ELSE received) + (f.to - f.from)
  /\ UNCHANGED seen

TakeBytes(f) ==
  /\ screen' = Paint(f)
  /\ expected' = Nothing
  /\ received' = IF expected # Nothing THEN expected ELSE received + (f.to - f.from)
  /\ UNCHANGED seen

Receive(s) ==
  /\ wire[s] # <<>> /\ Head(wire[s]).type # "close"
  /\ wire' = [wire EXCEPT ![s] = Tail(@)]
  /\ LET f == Head(wire[s]) IN
       \/ f.type = "attached" /\ TakeAttached(f) /\ UNCHANGED <<active, exited>>
       \/ f.type = "bytes" /\ TakeBytes(f) /\ UNCHANGED <<active, exited>>
       \/ f.type = "exit" /\ exited' = TRUE /\ active' = FALSE /\ UNCHANGED resume
  /\ UNCHANGED <<hostVars, browser, faults, mounted, opens, suspended, dialling>>

\* The session is over: everything but the terminal is forgotten.
TearDown ==
  /\ active' = FALSE /\ suspended' = FALSE /\ exited' = FALSE
  /\ refused' = FALSE /\ timer' = FALSE /\ connecting' = FALSE
  /\ received' = 0 /\ seen' = 0 /\ expected' = Nothing

DroppedForGood ==
  /\ exited' = FALSE /\ timer' = FALSE
  /\ IF active THEN UNCHANGED <<received, seen, expected>>
               ELSE received' = 0 /\ seen' = 0 /\ expected' = Nothing
  /\ UNCHANGED <<active, suspended, refused, connecting>>

\* The connection dropped: dial again with the offset, if it is still wanted.
Dropped ==
  /\ exited' = FALSE /\ timer' = active
  /\ IF active THEN UNCHANGED <<received, seen, expected>>
               ELSE received' = 0 /\ seen' = 0 /\ expected' = Nothing
  /\ UNCHANGED <<active, suspended, refused, connecting>>

OnClose(s) ==
  /\ wire[s] # <<>> /\ Head(wire[s]).type = "close"
  /\ browser' = [browser EXCEPT ![s] = "none"] /\ wire' = [wire EXCEPT ![s] = <<>>]
  /\ current' = IF current = s THEN 0 ELSE current
  /\ \/ /\ suspended /\ timer' = FALSE
        /\ UNCHANGED <<active, suspended, exited, refused, connecting, received, seen, expected>>
     \/ ~suspended /\ (exited \/ Head(wire[s]).code = "end") /\ TearDown
     \/ ~suspended /\ ~exited /\ Head(wire[s]).code # "end" /\ Dropped
  /\ UNCHANGED <<hostVars, faults, mounted, opens, generation, requests, screen>>

-----------------------------------------------------------------------------
Network == \E s \in Sockets : Receive(s) \/ OnClose(s)
Answer  == \E g \in Generations : Granted(g) \/ MintFails(g) \/ MintRefused(g)
User    == OpenSession \/ CloseSession \/ Suspend \/ Resume \/ Wake \/ ClearRefusal

Next == \/ HostNext /\ UNCHANGED clientVars
        \/ Network \/ Answer \/ Reconnect \/ User
Spec == Init /\ [][Next]_vars

\* Timers fire, requests are answered, sockets deliver or close, and the server
\* finishes what it has begun.  The process and the user are free.
Serves(s) == Attach(s) \/ (epoch = 0 /\ Refuse(s)) \/ SnapshotReady(s) \/ SeesClose(s)
Fairness ==
  /\ WF_vars(Flush /\ UNCHANGED clientVars)
  /\ WF_vars(Reconnect)
  /\ WF_vars(\E g \in Generations : Granted(g) \/ MintRefused(g))
  /\ \A s \in Sockets : /\ WF_vars(Serves(s) /\ UNCHANGED clientVars)
                       /\ WF_vars(Receive(s) \/ OnClose(s))
FairSpec == Spec /\ Fairness

-----------------------------------------------------------------------------
(***************************************************************************)
(* What the two halves promise together.                                   *)
(***************************************************************************)
\* The offset is the screen: whatever was cut off, replayed, restored from a
\* snapshot or respawned, bytes are painted one after the other, none twice,
\* and the offset that the next connect asks with is where they end.
ScreenIsStream == active =>
  /\ screen.exact
  /\ expected = Nothing /\ screen # Blank => screen.to = received

\* The screen of a session's first process begins at its first byte, although
\* the ring evicts: a screen that would not is restored from a snapshot.
FirstIsWhole == screen.epoch = 1 => screen.from = 0

\* The screen of every process begins at its first byte.  It need not: an offset of
\* the process before, which the new one has reached, asks for the rest only.
HeadIsPainted == screen.epoch # 0 => screen.from = 0

\* A session ends for its viewer only after the last byte: the exit frame comes
\* behind everything the process wrote.  (No stream is seen once the close of
\* an older socket has torn the session down.)
ExitIsLast == exited /\ seen # 0 => expected = Nothing /\ received = made[seen]

\* A terminal that is off screen has no stream: no answer, timer or close that
\* was on its way opens one behind its back.
SuspendedIsQuiet == suspended => \A s \in Sockets : browser[s] # "up"

\* The browser never has two sockets of one session that deliver ("one WebSocket per
\* session").  It may: the answer to a request of an earlier mount takes the mark off
\* the session, whoever dials next asks again, and both answers open a socket.
OneSocket == Cardinality({s \in Sockets : browser[s] = "up"}) <= 1

\* A viewer who stays is shown the end of the stream, after any drop, overflow
\* or eviction, as long as its process lives:
\* an offset that stands still short of the end is a silent terminal.
Watching == active /\ ~suspended /\ ~refused /\ epoch # 0
CaughtUp == seen = epoch /\ expected = Nothing /\ received = Total
CatchesUp == <>[]Watching => []<>(epoch # 0 /\ CaughtUp)
=============================================================================
