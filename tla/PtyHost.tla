------------------------------ MODULE PtyHost ------------------------------
(***************************************************************************)
(* The server's half of the terminal stream of one session: PtyHostService *)
(* with its OutputBuffer, and the WebSocket upgrade of pty-ws-server.ts.   *)
(*                                                                         *)
(* Bytes are named by their offset in the stream of one process, so a      *)
(* frame of output is an interval.  A process is named by its epoch; the   *)
(* client compares epochs, the server never learns the client's.  Sockets  *)
(* are used again once both ends are done with them.  The text of the      *)
(* replay (stripping device queries, serialising the screen), the          *)
(* terminal's size and the input path are left out.                        *)
(***************************************************************************)
EXTENDS Integers, Sequences, FiniteSetsExt

CONSTANTS
  MaxSockets,    \* bound: sockets that exist at one time
  MaxBytes,      \* bound: bytes the first process writes
  LaterBytes,    \* bound: bytes a later process writes
  MaxSpawns,     \* bound: processes of the session, one after the other
  MaxFaults,     \* bound: failures of the network, the server and a call
  ChunkSizes,    \* sizes of the writes of the process
  RingCap,       \* bytes the ring retains (outputCapBytes)
  CoalesceBytes, \* bytes that flush the send buffer at once (coalesceMaxBytes)
  BacklogCap     \* bytes a snapshot may wait for (MAX_PENDING_SNAPSHOT_BYTES)

ASSUME HostAssumption ==
  /\ MaxSockets \in Nat \ {0} /\ MaxBytes \in Nat /\ LaterBytes \in 0..MaxBytes
  /\ MaxSpawns \in Nat /\ MaxFaults \in Nat
  /\ ChunkSizes \subseteq Nat \ {0}
  /\ RingCap \in Nat /\ CoalesceBytes \in Nat /\ BacklogCap \in Nat

VARIABLES
  epoch,    \* the live process, 0 when the session has none
  spawns,   \* processes spawned so far
  made,     \* bytes each process has written
  chunks,   \* offsets at which the chunks that the ring retains begin
  unsent,   \* bytes in the send buffer, at the end of the stream
  srv,      \* the server's end of each socket
  wire,     \* frames on their way to the browser
  browser,  \* the browser's end of each socket
  faults    \* failures so far

hostVars == <<epoch, spawns, made, chunks, unsent, srv>>

Sockets == 1..MaxSockets
Epochs  == 1..MaxSpawns
Offsets == 0..MaxBytes

\* The frames of the protocol.  The epoch of a frame of bytes is not on the
\* wire: it is there to say which stream the bytes are from.
Attached(base, gap, next, replay, e) ==
  [type |-> "attached", base |-> base, gap |-> gap, next |-> next, replay |-> replay, epoch |-> e]
Bytes(from, to, e) == [type |-> "bytes", from |-> from, to |-> to, epoch |-> e]
ExitFrame   == [type |-> "exit"]
Close(code) == [type |-> "close", code |-> code]

\* A close with code 1011 tells the client that the session is over.
Frames ==
  [type : {"attached"}, base : Offsets, gap : Offsets, next : Offsets, replay : BOOLEAN, epoch : Epochs]
    \cup [type : {"bytes"}, from : Offsets, to : Offsets, epoch : Epochs]
    \cup {ExitFrame} \cup [type : {"close"}, code : {"drop", "end"}]

\* The server's end: waiting for its authorization, buffering behind a snapshot
\* of the first `next` bytes, or in the live fan-out.
Idle        == [at |-> "none"]
Asked(k)    == [at |-> "asked", offset |-> k]
Pending(g)  == [at |-> "snapshot", gap |-> g, next |-> made[epoch]]
Live        == [at |-> "live"]
Ends == {Idle, Live} \cup [at : {"asked"}, offset : Offsets]
          \cup [at : {"snapshot"}, gap : Offsets, next : Offsets]

HostTypeOK ==
  /\ epoch \in {0} \cup Epochs /\ spawns \in 0..MaxSpawns
  /\ made \in [Epochs -> Offsets]
  /\ chunks \in SUBSET Offsets /\ unsent \in Offsets
  /\ srv \in [Sockets -> Ends] /\ wire \in [Sockets -> Seq(Frames)]
  /\ browser \in [Sockets -> {"none", "up", "closing"}]
  /\ faults \in 0..MaxFaults

HostInit ==
  /\ epoch = 0 /\ spawns = 0 /\ made = [e \in Epochs |-> 0]
  /\ chunks = {} /\ unsent = 0
  /\ srv = [s \in Sockets |-> Idle] /\ wire = [s \in Sockets |-> <<>>]
  /\ browser = [s \in Sockets |-> "none"]
  /\ faults = 0

Fault == faults < MaxFaults /\ faults' = faults + 1

-----------------------------------------------------------------------------
(***************************************************************************)
(* The ring and the fan-out.                                               *)
(***************************************************************************)
Total == made[epoch]
Start == Min(chunks \cup {Total})   \* startOffset
Sent  == Total - unsent             \* what the sockets have been sent

\* The chunks retained once the stream ends at `total`: the oldest are evicted
\* while too much is buffered, but never the last one.
Retained(cs, last, total) == {c \in cs \cup {last} : total - c <= RingCap \/ c = last}

\* Where the bytes after offset k are taken up: an offset past the end counts
\* as a fresh attach, one behind the ring leaves a gap.
ReplayFrom(k) == IF k > Total THEN Start ELSE k
NoGap(k) == 0
Gap(k)  == IF ReplayFrom(k) < Start THEN Start - ReplayFrom(k) ELSE 0
Base(k) == Max({ReplayFrom(k), Start})

\* Frames reach a browser that has not closed its end; close frames always do.
Put(s, fs) == IF browser[s] = "closing" THEN wire[s] ELSE wire[s] \o fs
Hang(s, code) == Append(IF browser[s] = "closing" THEN <<>> ELSE wire[s], Close(code))

BytesTo(to) == IF Sent < to THEN <<Bytes(Sent, to, epoch)>> ELSE <<>>
Overflows(s, to) == srv[s].at = "snapshot" /\ to - srv[s].next > BacklogCap

\* flushOutput: the send buffer, up to offset `to`, goes to the live sockets as
\* one frame and to the backlogs; one that grows too long closes its socket.
FlushedSrv(to)  == [s \in Sockets |-> IF Overflows(s, to) THEN Idle ELSE srv[s]]
FlushedWire(to) == [s \in Sockets |->
  IF srv[s].at = "live" THEN Put(s, BytesTo(to))
  ELSE IF Overflows(s, to) THEN Hang(s, "drop") ELSE wire[s]]

Flush ==
  /\ epoch # 0 /\ unsent > 0
  /\ unsent' = 0
  /\ srv' = FlushedSrv(Total) /\ wire' = FlushedWire(Total)
  /\ UNCHANGED <<epoch, spawns, made, chunks, browser, faults>>

\* onData: the ring is fed at once, the sockets when enough is buffered.
Produce(n) ==
  /\ epoch # 0 /\ Total + n <= IF epoch = 1 THEN MaxBytes ELSE LaterBytes
  /\ made' = [made EXCEPT ![epoch] = @ + n]
  /\ chunks' = Retained(chunks, Total, Total + n)
  /\ IF unsent + n >= CoalesceBytes
       THEN /\ unsent' = 0
            /\ srv' = FlushedSrv(Total + n) /\ wire' = FlushedWire(Total + n)
       ELSE unsent' = unsent + n /\ UNCHANGED <<srv, wire>>
  /\ UNCHANGED <<epoch, spawns, browser, faults>>

-----------------------------------------------------------------------------
(***************************************************************************)
(* The process.  Every launcher goes through spawnIfAbsent, so a live      *)
(* process is never replaced.                                              *)
(***************************************************************************)
Spawn ==
  /\ epoch = 0 /\ spawns < MaxSpawns
  /\ spawns' = spawns + 1 /\ epoch' = spawns + 1
  /\ chunks' = {} /\ unsent' = 0
  /\ UNCHANGED <<made, srv, wire, browser, faults>>

FarewellAtOnce(s) == IF srv[s].at = "live" /\ browser[s] # "closing"
  THEN wire[s] \o <<ExitFrame, Close("drop")>> ELSE Hang(s, "drop")

\* notifyExit: the tail of the output, then the exit frame, for the sockets of
\* the live fan-out; the others are only closed.
Farewell(s) ==
  IF srv[s].at = "live" /\ browser[s] # "closing"
    THEN wire[s] \o BytesTo(Total) \o <<ExitFrame, Close("drop")>>
    ELSE Hang(s, "drop")
Attending(s) == srv[s].at \in {"live", "snapshot"}

\* The process exits (onExit) or is killed (kill): the session is forgotten.
Exit ==
  /\ epoch # 0
  /\ wire' = [s \in Sockets |-> IF Attending(s) THEN Farewell(s) ELSE wire[s]]
  /\ srv' = [s \in Sockets |-> IF Attending(s) THEN Idle ELSE srv[s]]
  /\ epoch' = 0 /\ chunks' = {} /\ unsent' = 0
  /\ UNCHANGED <<spawns, made, browser, faults>>

\* The server dies: its processes with it, and nobody is told.
Crash ==
  /\ epoch # 0 /\ Fault
  /\ wire' = [s \in Sockets |-> IF srv[s].at # "none" THEN Hang(s, "drop") ELSE wire[s]]
  /\ srv' = [s \in Sockets |-> Idle]
  /\ epoch' = 0 /\ chunks' = {} /\ unsent' = 0
  /\ UNCHANGED <<spawns, made, browser>>

-----------------------------------------------------------------------------
(***************************************************************************)
(* The upgrade and the end of a socket.                                    *)
(***************************************************************************)
\* The authorization says no, or there is no process to attach to.
Refuse(s) ==
  /\ srv[s].at = "asked"
  /\ IF epoch = 0 THEN UNCHANGED faults ELSE Fault
  /\ srv' = [srv EXCEPT ![s] = Idle]
  /\ wire' = [wire EXCEPT ![s] = Hang(s, "drop")]
  /\ UNCHANGED <<epoch, spawns, made, chunks, unsent, browser>>

\* Without a gap, the replay and the join to the fan-out are one step.
AttachDelta(s, k) ==
  /\ Gap(k) = 0
  /\ srv' = [FlushedSrv(Total) EXCEPT ![s] = Live]
  /\ wire' = [FlushedWire(Total) EXCEPT ![s] =
       Put(s, <<Attached(Base(k), 0, Total, Base(k) < Total, epoch)>>
                \o (IF Base(k) < Total THEN <<Bytes(Base(k), Total, epoch)>> ELSE <<>>))]

\* With one, the socket waits for a snapshot that ends here.
AttachPending(s, k) ==
  /\ Gap(k) > 0
  /\ srv' = [FlushedSrv(Total) EXCEPT ![s] = Pending(Gap(k))]
  /\ wire' = FlushedWire(Total)

Attach(s) ==
  /\ srv[s].at = "asked" /\ epoch # 0
  /\ AttachDelta(s, srv[s].offset) \/ AttachPending(s, srv[s].offset)
  /\ unsent' = 0
  /\ UNCHANGED <<epoch, spawns, made, chunks, browser, faults>>

\* finishSnapshotAttach: the handshake, the whole screen, and what was flushed
\* since; then the socket joins the fan-out.
SnapshotReady(s) ==
  /\ srv[s].at = "snapshot"
  /\ LET next == srv[s].next IN
     wire' = [wire EXCEPT ![s] =
       Put(s, <<Attached(next, srv[s].gap, next, TRUE, epoch), Bytes(0, next, epoch)>>
                \o (IF next < Sent THEN <<Bytes(next, Sent, epoch)>> ELSE <<>>))]
  /\ srv' = [srv EXCEPT ![s] = Live]
  /\ UNCHANGED <<epoch, spawns, made, chunks, unsent, browser, faults>>

SnapshotFails(s) ==
  /\ srv[s].at = "snapshot" /\ Fault
  /\ srv' = [srv EXCEPT ![s] = Idle]
  /\ wire' = [wire EXCEPT ![s] = Hang(s, "end")]
  /\ UNCHANGED <<epoch, spawns, made, chunks, unsent, browser>>

\* The network breaks, or the server closes a slow, silent or old connection:
\* what is on its way is lost.
Cut(s) ==
  /\ browser[s] # "none" /\ Fault
  /\ srv' = [srv EXCEPT ![s] = Idle]
  /\ wire' = [wire EXCEPT ![s] = <<Close("drop")>>]
  /\ UNCHANGED <<epoch, spawns, made, chunks, unsent, browser>>

\* The server answers the browser's close and forgets the socket.
SeesClose(s) ==
  /\ srv[s].at # "none" /\ browser[s] = "closing"
  /\ srv' = [srv EXCEPT ![s] = Idle]
  /\ wire' = [wire EXCEPT ![s] = Hang(s, "drop")]
  /\ UNCHANGED <<epoch, spawns, made, chunks, unsent, browser, faults>>

HostNext ==
  \/ Flush \/ Spawn \/ Exit \/ Crash
  \/ \E n \in ChunkSizes : Produce(n)
  \/ \E s \in Sockets : Refuse(s) \/ Attach(s) \/ SnapshotReady(s) \/ SnapshotFails(s)
                          \/ Cut(s) \/ SeesClose(s)
=============================================================================
