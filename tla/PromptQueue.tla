---------------------------- MODULE PromptQueue ----------------------------
(***************************************************************************)
(* The prompt queue of one session in PtyHostService: a bounded FIFO, one  *)
(* drain loop, and the closed loop that types a prompt into the terminal   *)
(* (wait for silence, body, Enter, verify), each step of which is followed *)
(* by a wait and a check that the process is still the same one.           *)
(*                                                                         *)
(* A process is named by its epoch.  The agent is the environment: whether *)
(* it gets ready, shows the body or takes the Enter is its choice.  What   *)
(* the browser types, and the bytes of a prompt, are left out.             *)
(***************************************************************************)
EXTENDS Integers, SequencesExt

CONSTANTS
  Responses,      \* form responses that are delivered to the session
  Users,          \* prompts sent through execution.prompt
  Pastes,         \* the users' prompts that are pasted: nobody presses Enter
  First,          \* the first turn of the session
  Idle,           \* stands for no prompt: no loop runs
  MaxAttempts,    \* bound: attempts to deliver one response
  MaxSpawns,      \* bound: processes of the session, one after the other
  MaxFaults,      \* bound: crashes, lost calls and failed calls
  QueueCap,       \* prompts that may wait (MAX_PENDING_PROMPTS_PER_SESSION)
  BodyAttempts,   \* times the first turn is written (PROMPT_BODY_WRITE_ATTEMPTS)
  SubmitAttempts  \* checks after the Enter (PROMPT_SUBMIT_ATTEMPTS)

ASSUME QueueAssumption ==
  /\ Pastes \subseteq Users
  /\ MaxAttempts \in Nat \ {0} /\ MaxSpawns \in Nat \ {0} /\ MaxFaults \in Nat
  /\ QueueCap \in Nat \ {0} /\ BodyAttempts \in Nat \ {0} /\ SubmitAttempts \in Nat \ {0}

Attempts   == 1..MaxAttempts
Forms      == Responses \X Attempts        \* one attempt for one response
Deliveries == Forms \cup Users \cup {First}
Epochs     == 1..MaxSpawns

ASSUME PromptAssumption ==
  Idle \notin Deliveries /\ First \notin Forms \cup Users /\ Forms \cap Users = {}

VARIABLES
  pty,      \* the live process, 0 when the session has none
  spawns,   \* processes spawned so far
  handoff,  \* a launch is between its decision and its process
  queue,    \* prompts that wait
  drainer,  \* the prompt the queue's own loop is typing, or none
  writer,   \* where the typing of each prompt is
  input,    \* what was typed into each process
  reports,  \* what onPromptSettled said of each prompt
  faults    \* failures so far

queueVars == <<pty, spawns, handoff, queue, drainer, writer, input, reports>>

Keys     == [of : Deliveries, key : {"body", "enter"}]
Stages   == {"gate", "arrive", "enter", "verify"}
Off      == [at |-> "off"]
Writers  == {Off} \cup [at : Stages, pty : Epochs]
Outcomes == {"delivered", "unknown"}

QueueTypeOK ==
  /\ pty \in {0} \cup Epochs /\ spawns \in 0..MaxSpawns /\ handoff \in BOOLEAN
  /\ queue \in Seq(Deliveries) /\ drainer \in Deliveries \cup {Idle}
  /\ writer \in [Deliveries -> Writers]
  /\ input \in [Epochs -> Seq(Keys)]
  /\ reports \in [Deliveries -> Seq(Outcomes)]
  /\ faults \in 0..MaxFaults

QueueInit ==
  /\ pty = 0 /\ spawns = 0 /\ handoff = FALSE
  /\ queue = <<>> /\ drainer = Idle /\ writer = [d \in Deliveries |-> Off]
  /\ input = [e \in Epochs |-> <<>>] /\ reports = [d \in Deliveries |-> <<>>]
  /\ faults = 0

Fault == faults < MaxFaults /\ faults' = faults + 1

-----------------------------------------------------------------------------
(***************************************************************************)
(* The queue and its loop.                                                 *)
(***************************************************************************)
\* Only a prompt with a delivery id is reported.
Reported(rs, ds, o) ==
  [d \in Deliveries |-> IF d \in ds \ Users THEN Append(rs[d], o) ELSE rs[d]]

\* drainPendingPrompts: the loop takes the head of queue `q` unless it is busy,
\* a handoff pauses it or the session has no process.
PumpAnyway(q, busy, p, h, w) ==   \* a loop of its own for each prompt
  IF q # <<>> /\ p # 0 /\ ~h
  THEN /\ queue' = Tail(q) /\ drainer' = Head(q)
       /\ writer' = [w EXCEPT ![Head(q)] = [at |-> "gate", pty |-> p]]
  ELSE queue' = q /\ drainer' = busy /\ writer' = w
Pump(q, busy, p, h, w) ==
  IF q # <<>> /\ busy = Idle /\ p # 0 /\ ~h
  THEN /\ queue' = Tail(q) /\ drainer' = Head(q)
       /\ writer' = [w EXCEPT ![Head(q)] = [at |-> "gate", pty |-> p]]
  ELSE queue' = q /\ drainer' = busy /\ writer' = w

\* deliverPrompt, when the queue has room.
HasRoom == Len(queue) < QueueCap
Admit(d) ==
  /\ Pump(Append(queue, d), drainer, pty, handoff, writer)
  /\ UNCHANGED <<pty, spawns, handoff, input, reports>>

\* spawnIfAbsent of a session without a process: spawn, and the end of the
\* handoff, which drains what was queued, `ds` and whatever waited before.
SpawnPty(ds) ==
  /\ spawns < MaxSpawns /\ spawns' = spawns + 1 /\ pty' = spawns + 1 /\ handoff' = FALSE
  /\ Pump(queue \o ds, drainer, spawns + 1, FALSE, writer)
  /\ UNCHANGED <<input, reports>>

\* kill, and the exit of the process: the queue is thrown away and what waited
\* in it is reported.  The loop that is typing belongs to the old queue now.
LoseQueue ==   \* without a word to those who wait
  /\ pty' = 0 /\ handoff' = FALSE /\ queue' = <<>> /\ drainer' = Idle
  /\ UNCHANGED <<spawns, writer, input, reports>>
Discard ==
  /\ pty' = 0 /\ handoff' = FALSE /\ queue' = <<>> /\ drainer' = Idle
  /\ reports' = Reported(reports, ToSet(queue), "unknown")
  /\ UNCHANGED <<spawns, writer, input>>

\* The server stops: the loops and the queue were in its memory.
ForgetQueue ==
  /\ pty' = 0 /\ handoff' = FALSE /\ queue' = <<>> /\ drainer' = Idle
  /\ writer' = [d \in Deliveries |-> Off]
  /\ UNCHANGED <<spawns, input, reports>>

-----------------------------------------------------------------------------
(***************************************************************************)
(* writePromptToEntry, one action per stretch between two waits.           *)
(***************************************************************************)
At(d, stage) == writer[d].at = stage
Alive(d)     == writer[d].pty = pty

Type(d, k)      == input' = [input EXCEPT ![writer[d].pty] = Append(@, [of |-> d, key |-> k])]
Typed(d, k, n)  == Len(SelectSeq(input[writer[d].pty], LAMBDA x : x = [of |-> d, key |-> k])) < n
GoOn(d, stage) ==
  /\ writer' = [writer EXCEPT ![d].at = stage]
  /\ UNCHANGED <<queue, drainer, reports>>

\* The end of one prompt: it is reported, and the loop takes the next one if its
\* queue is still the session's.
Finish(d, o) ==
  /\ reports' = Reported(reports, {d}, o)
  /\ LET w == [writer EXCEPT ![d] = Off]
     IN  IF drainer = d THEN Pump(queue, Idle, pty, handoff, w)
         ELSE writer' = w /\ UNCHANGED <<queue, drainer>>

\* After a wait the process is gone or another one.
SeesAnotherProcess(d) ==
  /\ ~At(d, "off") /\ ~Alive(d)
  /\ Finish(d, "unknown") /\ UNCHANGED <<input, faults>>

\* The terminal went silent: the body is written.  A pasted prompt ends here.
WriteBody(d) ==
  /\ At(d, "gate") /\ Alive(d) /\ Type(d, "body")
  /\ IF d \in Pastes THEN Finish(d, "delivered")
     ELSE GoOn(d, IF d = First THEN "arrive" ELSE "enter")
  /\ UNCHANGED faults

\* A first turn needs an agent that spoke, and a body that arrives: it is written
\* again while no Enter was pressed, then given up; lines that cannot be framed
\* were submitted as they arrived, and are written once.
NeverReady(d) ==
  /\ d = First /\ At(d, "gate") /\ Alive(d)
  /\ Finish(d, "unknown") /\ UNCHANGED <<input, faults>>
BodyArrives(d) ==
  /\ At(d, "arrive") /\ Alive(d) /\ GoOn(d, "enter") /\ UNCHANGED <<input, faults>>
BodyIsLost(d) ==
  /\ At(d, "arrive") /\ Alive(d)
  /\ \/ Typed(d, "body", BodyAttempts) /\ Type(d, "body") /\ GoOn(d, "arrive")
     \/ Finish(d, "unknown") /\ UNCHANGED input
  /\ UNCHANGED faults

\* submitWithVerify: Enter, and Enter again while the text is still at the cursor.
PressEnterBlind(d) ==   \* into whatever process the session has by now
  /\ At(d, "enter") /\ pty # 0 /\ GoOn(d, "verify")
  /\ input' = [input EXCEPT ![pty] = Append(@, [of |-> d, key |-> "enter"])]
  /\ UNCHANGED faults
PressEnter(d) ==
  /\ At(d, "enter") /\ Alive(d) /\ Type(d, "enter") /\ GoOn(d, "verify")
  /\ UNCHANGED faults
TextIsGone(d) ==
  /\ At(d, "verify") /\ Alive(d)
  /\ Finish(d, "delivered") /\ UNCHANGED <<input, faults>>
TextIsStillThere(d) ==
  /\ At(d, "verify") /\ Alive(d)
  /\ IF Typed(d, "enter", SubmitAttempts) THEN Type(d, "enter") /\ GoOn(d, "verify")
     ELSE Finish(d, "unknown") /\ UNCHANGED input
  /\ UNCHANGED faults

\* The write to the process throws, with or without the key.
WriteThrows(d) ==
  /\ ~At(d, "off") /\ Alive(d) /\ Fault
  /\ \/ At(d, "gate") /\ Type(d, "body")
     \/ UNCHANGED input
  /\ Finish(d, "unknown")

Typing(d) ==
  /\ \/ SeesAnotherProcess(d) \/ WriteBody(d) \/ NeverReady(d) \/ BodyArrives(d)
     \/ BodyIsLost(d) \/ PressEnter(d) \/ TextIsGone(d) \/ TextIsStillThere(d)
     \/ WriteThrows(d)
  /\ UNCHANGED <<pty, spawns, handoff>>

-----------------------------------------------------------------------------
\* A body and its Enter never interleave with another prompt: an Enter is typed
\* right after the body, or an Enter, of the same prompt (deliverPrompt's FIFO).
Unmixed ==
  \A e \in Epochs : \A n \in 1..Len(input[e]) :
    input[e][n].key = "enter" => n > 1 /\ input[e][n - 1].of = input[e][n].of

\* A resume in the middle of a delivery never spills a body or an Enter into the
\* new process: what was typed of a prompt went into one process.
TypedInto(e) == {x.of : x \in ToSet(input[e])}
OneTerminal == \A e, f \in Epochs : e # f => TypedInto(e) \cap TypedInto(f) = {}
=============================================================================
