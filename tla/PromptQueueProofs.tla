------------------------- MODULE PromptQueueProofs -------------------------
(***************************************************************************)
(* What every step of the prompt queue keeps, whatever the session and the *)
(* senders around it do: the invariant behind Unmixed and OneTerminal.     *)
(***************************************************************************)
EXTENDS PromptQueue, SequenceTheorems, TLAPS

-----------------------------------------------------------------------------
(***************************************************************************)
(* The invariant, part by part, over the values it relates.                *)
(***************************************************************************)
Busy(w, d) == w[d].at # "off"

\* Nothing is typed into a process before it is spawned.
PastOnly(p, s, w, inp) ==
  /\ p <= s
  /\ \A d \in Deliveries : Busy(w, d) => w[d].pty <= s
  /\ \A e \in Epochs : e > s => inp[e] = <<>>

\* Only the loop of the queue types into the live process.
OneLoop(busy, p, w) == \A d \in Deliveries : Busy(w, d) /\ w[d].pty = p => busy = d

\* A prompt that is being typed was typed nowhere else.
OnePlace(w, inp) == \A e \in Epochs : \A n \in 1..Len(inp[e]) :
  Busy(w, inp[e][n].of) => w[inp[e][n].of].pty = e

\* A prompt that waits does so once, and nothing of it was typed.
Waiting(q, w, inp) == \A n \in 1..Len(q) :
  /\ ~Busy(w, q[n])
  /\ \A e \in Epochs : \A m \in 1..Len(inp[e]) : inp[e][m].of # q[n]
  /\ \A m \in 1..Len(q) : q[m] = q[n] => m = n

\* Between its body and the end of its check a prompt has the last word.
LastWord(p, w, inp) == \A d \in Deliveries :
  Busy(w, d) /\ w[d].pty = p /\ w[d].at # "gate" => inp[p] # <<>> /\ inp[p][Len(inp[p])].of = d

Coherent(q, busy, p, s, w, inp) ==
  /\ PastOnly(p, s, w, inp) /\ OneLoop(busy, p, w) /\ OnePlace(w, inp)
  /\ Waiting(q, w, inp) /\ LastWord(p, w, inp)

\* A queue that could be drained is being drained.
LoopRuns == queue # <<>> /\ drainer = Idle => pty = 0 \/ handoff

QueueInv ==
  /\ QueueTypeOK /\ Coherent(queue, drainer, pty, spawns, writer, input)
  /\ LoopRuns /\ Unmixed /\ OneTerminal

\* A prompt that nobody admitted yet, and one that somebody will report.
Unseen(d) ==
  /\ ~Busy(writer, d) /\ reports[d] = <<>>
  /\ \A n \in 1..Len(queue) : queue[n] # d
  /\ \A e \in Epochs : \A n \in 1..Len(input[e]) : input[e][n].of # d
Pending(d) == Busy(writer, d) \/ \E n \in 1..Len(queue) : queue[n] = d
Answered(d) == Pending(d) \/ reports[d] # <<>>

-----------------------------------------------------------------------------
(***************************************************************************)
(* Sequences.                                                              *)
(***************************************************************************)
LEMMA TailFacts ==
  ASSUME NEW S, NEW q \in Seq(S), q # <<>>
  PROVE  /\ Head(q) = q[1] /\ q[1] \in S /\ Tail(q) \in Seq(S) /\ Len(q) >= 1 /\ Len(Tail(q)) = Len(q) - 1
         /\ \A n \in 1..Len(q) - 1 : Tail(q)[n] = q[n + 1]
OBVIOUS

LEMMA AppendFacts ==
  ASSUME NEW S, NEW q \in Seq(S), NEW x \in S
  PROVE  /\ Append(q, x) \in Seq(S) /\ Len(Append(q, x)) = Len(q) + 1
         /\ Append(q, x)[Len(q) + 1] = x /\ Append(q, x) # <<>>
         /\ \A n \in 1..Len(q) : Append(q, x)[n] = q[n]
OBVIOUS

LEMMA TypedBy ==
  ASSUME NEW inp \in [Epochs -> Seq(Keys)], NEW e \in Epochs, NEW n \in 1..Len(inp[e])
  PROVE  inp[e][n] \in Keys /\ inp[e][n].of \in Deliveries
<1>1. inp[e] \in Seq(Keys) OBVIOUS
<1>2. inp[e][n] \in Keys BY <1>1, ElementOfSeq
<1> QED BY <1>2 DEF Keys

-----------------------------------------------------------------------------
(***************************************************************************)
(* The loop takes the next prompt.                                         *)
(***************************************************************************)
LEMMA PumpTypes ==
  ASSUME NEW q \in Seq(Deliveries), NEW busy \in Deliveries \cup {Idle}, NEW p \in {0} \cup Epochs,
         NEW h, NEW w \in [Deliveries -> Writers], Pump(q, busy, p, h, w)
  PROVE  /\ queue' \in Seq(Deliveries) /\ drainer' \in Deliveries \cup {Idle}
         /\ writer' \in [Deliveries -> Writers]
<1>1. CASE q # <<>> /\ busy = Idle /\ p # 0 /\ ~h
  <2>1. [at |-> "gate", pty |-> p] \in Writers BY <1>1 DEF Writers, Stages
  <2> QED BY <1>1, <2>1, TailFacts DEF Pump
<1> QED BY <1>1 DEF Pump

LEMMA PumpKeeps ==
  ASSUME NEW q \in Seq(Deliveries), NEW busy \in Deliveries \cup {Idle}, NEW p \in {0} \cup Epochs,
         NEW s \in Nat, NEW h, NEW w \in [Deliveries -> Writers], NEW inp \in [Epochs -> Seq(Keys)],
         Coherent(q, busy, p, s, w, inp), Pump(q, busy, p, h, w)
  PROVE  /\ Coherent(queue', drainer', p, s, writer', inp)
         /\ queue' # <<>> /\ drainer' = Idle => p = 0 \/ h
         /\ \A d \in Deliveries : \/ ~Busy(w, d) => ~Busy(writer', d)
                                  \/ \E n \in 1..Len(q) : q[n] = d
         /\ \A n \in 1..Len(queue') : \E m \in 1..Len(q) : q[m] = queue'[n]
         /\ \A d \in Deliveries : Busy(w, d) => Busy(writer', d)
         /\ \A n \in 1..Len(q) : Busy(writer', q[n]) \/ \E m \in 1..Len(queue') : queue'[m] = q[n]
<1>1. CASE q # <<>> /\ busy = Idle /\ p # 0 /\ ~h
  <2> DEFINE x == q[1]
  <2>1. /\ queue' = Tail(q) /\ drainer' = x /\ writer' = [w EXCEPT ![x] = [at |-> "gate", pty |-> p]]
        /\ x \in Deliveries /\ Len(queue') = Len(q) - 1 /\ Len(q) \in Nat /\ Len(q) >= 1
        /\ \A n \in 1..Len(q) - 1 : queue'[n] = q[n + 1]
    BY <1>1, TailFacts DEF Pump
  <2>2. \A n \in 1..Len(q) - 1 : q[n + 1] # x
    BY <2>1 DEF Coherent, Waiting
  <2>3. writer'[x] = [at |-> "gate", pty |-> p] /\ \A d \in Deliveries : d # x => writer'[d] = w[d]
    BY <2>1
  <2>4. x # Idle BY <2>1, PromptAssumption
  <2> HIDE DEF x
  <2>5. PastOnly(p, s, writer', inp)
    BY <2>3 DEF Coherent, PastOnly, Busy
  <2>6. OneLoop(drainer', p, writer')
    BY <1>1, <2>1, <2>3, PromptAssumption DEF Coherent, OneLoop, Busy
  <2>7. OnePlace(writer', inp)
    <3>1. \A e \in Epochs : \A n \in 1..Len(inp[e]) : inp[e][n].of # x
      <4>1. 1 \in 1..Len(q) BY <2>1
      <4> QED BY <4>1 DEF Coherent, Waiting, x
    <3>2. \A e \in Epochs : \A n \in 1..Len(inp[e]) : inp[e][n].of \in Deliveries
      BY TypedBy
    <3> QED BY <2>3, <3>1, <3>2 DEF Coherent, OnePlace, Busy
  <2>8. Waiting(queue', writer', inp)
    <3>1. \A n \in 1..Len(queue') : n + 1 \in 1..Len(q) /\ queue'[n] = q[n + 1] /\ queue'[n] # x /\ queue'[n] \in Deliveries
      BY <2>1, <2>2
    <3> QED BY <2>3, <3>1 DEF Coherent, Waiting, Busy
  <2>9. LastWord(p, writer', inp)
    BY <2>3 DEF Coherent, LastWord, Busy
  <2>10. \A n \in 1..Len(q) : Busy(writer', q[n]) \/ \E m \in 1..Len(queue') : queue'[m] = q[n]
    <3>1. Busy(writer', x) BY <2>3 DEF Busy
    <3>2. ASSUME NEW n \in 1..Len(q), n # 1 PROVE \E m \in 1..Len(queue') : queue'[m] = q[n]
      <4>1. n - 1 \in 1..Len(queue') /\ queue'[n - 1] = q[n] BY <2>1, <3>2
      <4> QED BY <4>1
    <3> QED BY <3>1, <3>2 DEF x
  <2>11. \A n \in 1..Len(queue') : \E m \in 1..Len(q) : q[m] = queue'[n]
    BY <2>1
  <2>12. \A d \in Deliveries : d # x => (Busy(writer', d) <=> Busy(w, d))
    BY <2>3 DEF Busy
  <2>13. Busy(writer', x) /\ \E n \in 1..Len(q) : q[n] = x BY <2>1, <2>3 DEF Busy, x
  <2> QED BY <2>1, <2>4, <2>5, <2>6, <2>7, <2>8, <2>9, <2>10, <2>11, <2>12, <2>13 DEF Coherent
<1>2. CASE ~(q # <<>> /\ busy = Idle /\ p # 0 /\ ~h)
  BY <1>2 DEF Pump
<1> QED BY <1>1, <1>2

-----------------------------------------------------------------------------
(***************************************************************************)
(* What the steps around the typing keep.                                  *)
(***************************************************************************)
KeepsUnseen(ds) == \A d \in Deliveries \ ds : Unseen(d) => Unseen(d)'
KeepsAnswered   == \A d \in Deliveries \ Users : Answered(d) => Answered(d)'

LEMMA SameInput ==
  ASSUME Unmixed, OneTerminal, input' = input
  PROVE  Unmixed' /\ OneTerminal'
BY DEF Unmixed, OneTerminal, TypedInto

\* The loop takes a prompt of queue `q`, and nothing else happens to the prompts
\* that are in it already.
LEMMA PumpStep ==
  ASSUME QueueInv, NEW q \in Seq(Deliveries), NEW d \in Deliveries, NEW p \in {0} \cup Epochs,
         NEW s \in 0..MaxSpawns, NEW h \in BOOLEAN,
         Coherent(q, drainer, p, s, writer, input), Pump(q, drainer, p, h, writer),
         \A n \in 1..Len(q) : q[n] = d \/ \E m \in 1..Len(queue) : queue[m] = q[n],
         \A n \in 1..Len(queue) : \E m \in 1..Len(q) : q[m] = queue[n],
         pty' = p, spawns' = s, handoff' = h, faults' \in 0..MaxFaults, UNCHANGED <<input, reports>>
  PROVE  QueueInv' /\ KeepsUnseen({d}) /\ KeepsAnswered
<1>0. /\ drainer \in Deliveries \cup {Idle} /\ writer \in [Deliveries -> Writers]
      /\ input \in [Epochs -> Seq(Keys)] /\ s \in Nat
  BY QueueAssumption DEF QueueInv, QueueTypeOK
<1>1. QueueTypeOK' BY <1>0, PumpTypes DEF QueueInv, QueueTypeOK
<1>2. /\ Coherent(queue', drainer', p, s, writer', input)
      /\ queue' # <<>> /\ drainer' = Idle => p = 0 \/ h
      /\ \A x \in Deliveries : \/ ~Busy(writer, x) => ~Busy(writer', x)
                               \/ \E n \in 1..Len(q) : q[n] = x
      /\ \A n \in 1..Len(queue') : \E m \in 1..Len(q) : q[m] = queue'[n]
      /\ \A x \in Deliveries : Busy(writer, x) => Busy(writer', x)
      /\ \A n \in 1..Len(q) : Busy(writer', q[n]) \/ \E m \in 1..Len(queue') : queue'[m] = q[n]
  BY <1>0, PumpKeeps
<1>3. QueueInv'
  BY <1>1, <1>2, SameInput DEF LoopRuns, QueueInv
<1>4. KeepsUnseen({d})
  <2> SUFFICES ASSUME NEW x \in Deliveries, x # d, Unseen(x) PROVE Unseen(x)'
    BY DEF KeepsUnseen
  <2>1. \A n \in 1..Len(q) : q[n] # x BY DEF Unseen
  <2>2. ~Busy(writer', x) BY <1>2, <2>1 DEF Unseen
  <2>3. ASSUME NEW n \in 1..Len(queue') PROVE queue'[n] # x
    <3>1. PICK m \in 1..Len(q) : q[m] = queue'[n] BY <1>2
    <3> QED BY <2>1, <3>1
  <2> QED BY <2>2, <2>3 DEF Unseen, Busy
<1>5. KeepsAnswered
  <2> SUFFICES ASSUME NEW x \in Deliveries, Pending(x) PROVE Pending(x)'
    BY DEF KeepsAnswered, Answered
  <2>1. CASE Busy(writer, x) BY <1>2, <2>1 DEF Pending, Busy
  <2>2. CASE \E n \in 1..Len(queue) : queue[n] = x
    <3>1. PICK m \in 1..Len(q) : q[m] = x BY <2>2
    <3>2. Busy(writer', x) \/ \E n \in 1..Len(queue') : queue'[n] = x BY <1>2, <3>1
    <3> QED BY <3>2 DEF Pending, Busy
  <2> QED BY <2>1, <2>2 DEF Pending
<1> QED BY <1>3, <1>4, <1>5

\* deliverPrompt: a prompt that was never seen waits, or is taken at once.
LEMMA AdmitStep ==
  ASSUME QueueInv, NEW d \in Deliveries, Unseen(d), Admit(d), faults' \in 0..MaxFaults
  PROVE  QueueInv' /\ KeepsUnseen({d}) /\ KeepsAnswered /\ Answered(d)'
<1>0. /\ drainer \in Deliveries \cup {Idle} /\ writer \in [Deliveries -> Writers]
      /\ input \in [Epochs -> Seq(Keys)] /\ queue \in Seq(Deliveries) /\ spawns \in Nat
      /\ pty \in {0} \cup Epochs /\ spawns \in 0..MaxSpawns /\ handoff \in BOOLEAN
      /\ Coherent(queue, drainer, pty, spawns, writer, input)
  BY QueueAssumption DEF QueueInv, QueueTypeOK
<1> DEFINE q == Append(queue, d)
<1>1. /\ q \in Seq(Deliveries) /\ Len(q) = Len(queue) + 1 /\ q[Len(queue) + 1] = d
      /\ \A n \in 1..Len(queue) : q[n] = queue[n]
      /\ Len(queue) \in Nat
  BY <1>0, AppendFacts, LenProperties
<1>2. Pump(q, drainer, pty, handoff, writer) /\ UNCHANGED <<pty, spawns, handoff, input, reports>>
  BY DEF Admit
<1> HIDE DEF q
<1>3. Waiting(q, writer, input)
  <2>1. \A n \in 1..Len(queue) : queue[n] # d BY DEF Unseen
  <2>2. \A n \in 1..Len(q) :
          \/ n \in 1..Len(queue) /\ q[n] = queue[n] /\ q[n] # d
          \/ n = Len(queue) + 1 /\ q[n] = d
    <3> SUFFICES ASSUME NEW n \in 1..Len(q)
                 PROVE  \/ n \in 1..Len(queue) /\ q[n] = queue[n] /\ q[n] # d
                        \/ n = Len(queue) + 1 /\ q[n] = d
      OBVIOUS
    <3>1. n \in 1..Len(queue) \/ n = Len(queue) + 1 BY <1>1
    <3> QED BY <1>1, <2>1, <3>1
  <2>3. Waiting(queue, writer, input) BY <1>0 DEF Coherent
  <2>4. ASSUME NEW n \in 1..Len(q) PROVE
          ~Busy(writer, q[n]) /\ \A e \in Epochs : \A m \in 1..Len(input[e]) : input[e][m].of # q[n]
    BY <2>2, <2>3 DEF Waiting, Unseen
  <2>5. ASSUME NEW n \in 1..Len(q), NEW m \in 1..Len(q), q[m] = q[n] PROVE m = n
    BY <2>2, <2>3, <2>5 DEF Waiting
  <2> QED BY <2>4, <2>5 DEF Waiting
<1>4. Coherent(q, drainer, pty, spawns, writer, input) BY <1>0, <1>3 DEF Coherent
<1>5. /\ \A n \in 1..Len(q) : q[n] = d \/ \E m \in 1..Len(queue) : queue[m] = q[n]
      /\ \A n \in 1..Len(queue) : \E m \in 1..Len(q) : q[m] = queue[n]
  <2>1. \A n \in 1..Len(queue) : n \in 1..Len(q) BY <1>1
  <2>2. \A n \in 1..Len(q) : n \in 1..Len(queue) \/ n = Len(queue) + 1 BY <1>1
  <2> QED BY <1>1, <2>1, <2>2
<1>6. QueueInv' /\ KeepsUnseen({d}) /\ KeepsAnswered
  BY <1>0, <1>1, <1>2, <1>4, <1>5, PumpStep
<1>7. Answered(d)'
  <2>1. Len(queue) + 1 \in 1..Len(q) BY <1>1
  <2>2. Busy(writer', d) \/ \E m \in 1..Len(queue') : queue'[m] = d
    BY <1>0, <1>1, <1>2, <1>4, <2>1, PumpKeeps
  <2> QED BY <2>2 DEF Answered, Pending, Busy
<1> QED BY <1>6, <1>7

\* A process is spawned for a session that has none.
LEMMA SpawnStep ==
  ASSUME QueueInv, pty = 0, NEW ds, SpawnPty(ds), faults' \in 0..MaxFaults,
         ds = <<>> \/ (ds = <<First>> /\ Unseen(First))
  PROVE  QueueInv' /\ KeepsUnseen({First}) /\ KeepsAnswered
<1>0. /\ drainer \in Deliveries \cup {Idle} /\ writer \in [Deliveries -> Writers]
      /\ input \in [Epochs -> Seq(Keys)] /\ queue \in Seq(Deliveries)
      /\ spawns \in Nat /\ Len(queue) \in Nat /\ First \in Deliveries
      /\ Coherent(queue, drainer, pty, spawns, writer, input)
  BY QueueAssumption, LenProperties DEF QueueInv, QueueTypeOK, Deliveries
<1> DEFINE q == queue \o ds
           p == spawns + 1
<1>1. /\ p \in Epochs /\ p \in 0..MaxSpawns /\ Pump(q, drainer, p, FALSE, writer)
      /\ pty' = p /\ spawns' = p /\ handoff' = FALSE /\ UNCHANGED <<input, reports>>
  <2>1. p \in Epochs /\ p \in 0..MaxSpawns BY <1>0, QueueAssumption DEF SpawnPty, Epochs
  <2> QED BY <2>1 DEF SpawnPty
<1>2. /\ q \in Seq(Deliveries)
      /\ \A n \in 1..Len(queue) : n \in 1..Len(q) /\ q[n] = queue[n]
      /\ \A n \in 1..Len(q) : \/ n \in 1..Len(queue) /\ q[n] = queue[n]
                              \/ ds # <<>> /\ q[n] = First /\ n = Len(queue) + 1
  <2>1. CASE ds = <<>>
    <3>1. q = queue BY <1>0, <2>1
    <3> QED BY <1>0, <2>1, <3>1
  <2>2. CASE ds = <<First>>
    <3>1. q = Append(queue, First) BY <1>0, <2>2
    <3> HIDE DEF q
    <3>2. /\ q \in Seq(Deliveries) /\ Len(q) = Len(queue) + 1 /\ q[Len(queue) + 1] = First
          /\ \A n \in 1..Len(queue) : q[n] = queue[n]
      BY <1>0, <3>1, AppendFacts
    <3>3. \A n \in 1..Len(q) : n \in 1..Len(queue) \/ n = Len(queue) + 1 BY <1>0, <3>2
    <3> QED BY <1>0, <2>2, <3>2, <3>3
  <2> QED BY <2>1, <2>2
<1> HIDE DEF q
<1>3. \A d \in Deliveries : Busy(writer, d) => writer[d].pty # p
  BY <1>0 DEF Coherent, PastOnly, Busy
<1>4. Waiting(q, writer, input)
  <2>1. Waiting(queue, writer, input) BY <1>0 DEF Coherent
  <2>2. ds # <<>> => /\ ~Busy(writer, First) /\ \A n \in 1..Len(queue) : queue[n] # First
                     /\ \A e \in Epochs : \A n \in 1..Len(input[e]) : input[e][n].of # First
    BY DEF Unseen
  <2>3. ASSUME NEW n \in 1..Len(q) PROVE
          ~Busy(writer, q[n]) /\ \A e \in Epochs : \A m \in 1..Len(input[e]) : input[e][m].of # q[n]
    BY <1>2, <2>1, <2>2 DEF Waiting
  <2>4. ASSUME NEW n \in 1..Len(q), NEW m \in 1..Len(q), q[m] = q[n] PROVE m = n
    BY <1>2, <2>1, <2>2, <2>4 DEF Waiting
  <2> QED BY <2>3, <2>4 DEF Waiting
<1>5. PastOnly(p, p, writer, input)
  <2>1. \A d \in Deliveries : Busy(writer, d) => writer[d].pty \in Epochs
    BY <1>0 DEF Busy, Writers, Off
  <2> QED BY <1>0, <2>1 DEF Coherent, PastOnly, Epochs
<1>6. Coherent(q, drainer, p, p, writer, input)
  BY <1>0, <1>3, <1>4, <1>5 DEF Coherent, OneLoop, LastWord
<1>7. /\ \A n \in 1..Len(q) : q[n] = First \/ \E m \in 1..Len(queue) : queue[m] = q[n]
      /\ \A n \in 1..Len(queue) : \E m \in 1..Len(q) : q[m] = queue[n]
  BY <1>2
<1> HIDE DEF p
<1> QED BY <1>0, <1>1, <1>2, <1>6, <1>7, PumpStep

\* kill and exit: what waited is reported, and the loop has no queue any more.
LEMMA ReportedFacts ==
  ASSUME NEW rs \in [Deliveries -> Seq(Outcomes)], NEW ds, NEW o \in Outcomes
  PROVE  /\ Reported(rs, ds, o) \in [Deliveries -> Seq(Outcomes)]
         /\ \A d \in Deliveries \ ds : Reported(rs, ds, o)[d] = rs[d]
         /\ \A d \in Deliveries : rs[d] # <<>> => Reported(rs, ds, o)[d] # <<>>
         /\ \A d \in (Deliveries \cap ds) \ Users : Reported(rs, ds, o)[d] # <<>>
<1>1. \A d \in Deliveries : /\ rs[d] \in Seq(Outcomes) /\ Append(rs[d], o) \in Seq(Outcomes)
                            /\ Append(rs[d], o) # <<>>
  BY AppendFacts
<1> QED BY <1>1 DEF Reported

LEMMA DiscardStep ==
  ASSUME QueueInv, Discard, faults' \in 0..MaxFaults
  PROVE  QueueInv' /\ KeepsUnseen({}) /\ KeepsAnswered
<1>0. /\ writer \in [Deliveries -> Writers] /\ queue \in Seq(Deliveries)
      /\ reports \in [Deliveries -> Seq(Outcomes)]
      /\ Coherent(queue, drainer, pty, spawns, writer, input)
  BY DEF QueueInv, QueueTypeOK
<1>1. /\ pty' = 0 /\ handoff' = FALSE /\ queue' = <<>> /\ drainer' = Idle
      /\ reports' = Reported(reports, ToSet(queue), "unknown") /\ UNCHANGED <<spawns, writer, input>>
  BY DEF Discard
<1>2. /\ reports' \in [Deliveries -> Seq(Outcomes)]
      /\ \A d \in Deliveries \ ToSet(queue) : reports'[d] = reports[d]
      /\ \A d \in Deliveries : reports[d] # <<>> => reports'[d] # <<>>
      /\ \A d \in (Deliveries \cap ToSet(queue)) \ Users : reports'[d] # <<>>
  BY <1>0, <1>1, ReportedFacts DEF Outcomes
<1>3. QueueTypeOK'
  <2>1. <<>> \in Seq(Deliveries) OBVIOUS
  <2> QED BY <1>1, <1>2, <2>1 DEF QueueInv, QueueTypeOK
<1>4. Coherent(queue', drainer', pty', spawns', writer', input')
  <2>1. \A d \in Deliveries : Busy(writer, d) => writer[d].pty # 0
    BY <1>0 DEF Busy, Writers, Off, Epochs
  <2> QED BY <1>0, <1>1, <2>1, QueueAssumption
    DEF Coherent, PastOnly, OneLoop, OnePlace, Waiting, LastWord, QueueInv, QueueTypeOK
<1>5. QueueInv' BY <1>1, <1>3, <1>4, SameInput DEF QueueInv, LoopRuns
<1>6. \A d : d \in ToSet(queue) <=> \E n \in 1..Len(queue) : queue[n] = d
  BY <1>0 DEF ToSet
<1>7. KeepsUnseen({})
  BY <1>1, <1>2, <1>6 DEF KeepsUnseen, Unseen, Busy
<1>8. KeepsAnswered
  BY <1>1, <1>2, <1>6 DEF KeepsAnswered, Answered, Pending, Busy
<1> QED BY <1>5, <1>7, <1>8

\* The server stops: everything that was in its memory is gone.
LEMMA ForgetStep ==
  ASSUME QueueInv, ForgetQueue, faults' \in 0..MaxFaults
  PROVE  QueueInv' /\ KeepsUnseen({})
<1>1. /\ pty' = 0 /\ handoff' = FALSE /\ queue' = <<>> /\ drainer' = Idle
      /\ writer' = [d \in Deliveries |-> Off] /\ UNCHANGED <<spawns, input, reports>>
  BY DEF ForgetQueue
<1>2. \A d \in Deliveries : ~Busy(writer', d) BY <1>1 DEF Busy, Off
<1>3. QueueTypeOK'
  <2>1. <<>> \in Seq(Deliveries) /\ Off \in Writers BY DEF Writers
  <2> QED BY <1>1, <2>1 DEF QueueInv, QueueTypeOK
<1>4. \A e \in Epochs : \A n \in 1..Len(input[e]) : input[e][n].of \in Deliveries
  BY TypedBy DEF QueueInv, QueueTypeOK
<1>5. Coherent(queue', drainer', pty', spawns', writer', input')
  <2>1. pty' <= spawns' BY <1>1, QueueAssumption DEF QueueInv, QueueTypeOK
  <2>2. \A e \in Epochs : e > spawns' => input'[e] = <<>>
    BY <1>1 DEF QueueInv, Coherent, PastOnly
  <2>3. Waiting(queue', writer', input') BY <1>1 DEF Waiting
  <2> QED BY <1>1, <1>2, <1>4, <2>1, <2>2, <2>3 DEF Coherent, PastOnly, OneLoop, OnePlace, LastWord
<1>6. QueueInv' BY <1>1, <1>3, <1>5, SameInput DEF QueueInv, LoopRuns
<1>7. KeepsUnseen({}) BY <1>1, <1>2 DEF KeepsUnseen, Unseen, Busy
<1> QED BY <1>6, <1>7

-----------------------------------------------------------------------------
(***************************************************************************)
(* What the typing keeps.                                                  *)
(***************************************************************************)
\* What a step of the typing of `d` leaves to show of the input.
GoodInput(d) ==
  /\ input' \in [Epochs -> Seq(Keys)] /\ Unmixed' /\ OneTerminal'
  /\ Coherent(queue, drainer, pty, spawns, writer, input')
  /\ \A x \in Deliveries : Unseen(x) =>
       \A e \in Epochs : \A n \in 1..Len(input'[e]) : input'[e][n].of # x

LEMMA QuietInput ==
  ASSUME QueueInv, NEW d \in Deliveries, input' = input
  PROVE  GoodInput(d)
BY SameInput DEF QueueInv, QueueTypeOK, GoodInput, Unseen

LEMMA KeyStep ==
  ASSUME QueueInv, NEW d \in Deliveries, Busy(writer, d), Alive(d), NEW k \in {"body", "enter"},
         k = "enter" => writer[d].at # "gate", Type(d, k)
  PROVE  GoodInput(d) /\ input'[pty] # <<>> /\ input'[pty][Len(input'[pty])].of = d
<1> DEFINE x == [of |-> d, key |-> k]
<1>0. /\ writer \in [Deliveries -> Writers] /\ input \in [Epochs -> Seq(Keys)]
      /\ Coherent(queue, drainer, pty, spawns, writer, input) /\ Unmixed /\ OneTerminal
      /\ \A e \in Epochs : Len(input[e]) \in Nat
  BY LenProperties DEF QueueInv, QueueTypeOK
<1>1. pty \in Epochs /\ writer[d].pty = pty
  BY <1>0 DEF Busy, Alive, Writers, Off
<1>2. x \in Keys BY DEF Keys
<1>3. /\ input' = [input EXCEPT ![pty] = Append(input[pty], x)]
      /\ x.of = d /\ x.key = k
  BY <1>1 DEF Type
<1> HIDE DEF x
<1>4. /\ input'[pty] \in Seq(Keys) /\ Len(input'[pty]) = Len(input[pty]) + 1
      /\ input'[pty][Len(input[pty]) + 1] = x /\ input'[pty] # <<>>
      /\ \A n \in 1..Len(input[pty]) : input'[pty][n] = input[pty][n]
  BY <1>0, <1>1, <1>2, <1>3, AppendFacts
<1>5. \A e \in Epochs : e # pty => input'[e] = input[e]
  BY <1>0, <1>3
<1>6. input' \in [Epochs -> Seq(Keys)] BY <1>0, <1>1, <1>3, <1>4
<1>7. input'[pty][Len(input'[pty])].of = d BY <1>3, <1>4
\* Every key is old, or the one that was typed now.
<1>8. ASSUME NEW e \in Epochs, NEW n \in 1..Len(input'[e])
      PROVE  \/ n \in 1..Len(input[e]) /\ input'[e][n] = input[e][n]
             \/ e = pty /\ n = Len(input[e]) + 1 /\ input'[e][n] = x
  <2>1. CASE e = pty
    <3>1. n \in 1..Len(input[e]) \/ n = Len(input[e]) + 1 BY <1>0, <1>4, <2>1
    <3> QED BY <1>4, <2>1, <3>1
  <2> QED BY <1>5, <2>1
<1>9. Unmixed'
  <2> SUFFICES ASSUME NEW e \in Epochs, NEW n \in 1..Len(input'[e]), input'[e][n].key = "enter"
               PROVE  n > 1 /\ input'[e][n - 1].of = input'[e][n].of
    BY DEF Unmixed
  <2>1. CASE n \in 1..Len(input[e]) /\ input'[e][n] = input[e][n]
    <3>1. n > 1 /\ input[e][n - 1].of = input[e][n].of BY <1>0, <2>1 DEF Unmixed
    <3>2. n - 1 \in 1..Len(input[e]) BY <1>0, <2>1, <3>1
    <3>3. input'[e][n - 1] = input[e][n - 1] BY <1>4, <1>5, <3>2
    <3> QED BY <2>1, <3>1, <3>3
  <2>2. CASE e = pty /\ n = Len(input[e]) + 1 /\ input'[e][n] = x
    <3>1. input[pty] # <<>> /\ input[pty][Len(input[pty])].of = d
      BY <1>0, <1>1, <1>3, <2>2 DEF Coherent, LastWord
    <3>2. Len(input[pty]) \in 1..Len(input[pty]) /\ Len(input[pty]) \in Nat
      BY <1>0, <1>1, <3>1, EmptySeq
    <3> QED BY <1>3, <1>4, <2>2, <3>1, <3>2
  <2> QED BY <1>8, <2>1, <2>2
\* What is typed of `d` was typed into the same process.
<1>10. ASSUME NEW e \in Epochs, NEW n \in 1..Len(input[e]), input[e][n].of = d PROVE e = pty
  BY <1>0, <1>1, <1>10 DEF Coherent, OnePlace
<1>11. OneTerminal'
  <2>1. \A e \in Epochs : TypedInto(e) = {input[e][n].of : n \in 1..Len(input[e])}
    BY <1>0 DEF TypedInto, ToSet
  <2>2. \A e \in Epochs : TypedInto(e)' = {input'[e][n].of : n \in 1..Len(input'[e])}
    BY <1>6 DEF TypedInto, ToSet
  <2>3. ASSUME NEW e \in Epochs PROVE TypedInto(e)' \subseteq TypedInto(e) \cup (IF e = pty THEN {d} ELSE {})
    BY <1>3, <1>8, <2>1, <2>2
  <2>4. \A e \in Epochs : d \in TypedInto(e) => e = pty BY <1>10, <2>1
  <2> QED BY <1>0, <2>3, <2>4 DEF OneTerminal
<1>12. Coherent(queue, drainer, pty, spawns, writer, input')
  <2>1. PastOnly(pty, spawns, writer, input')
    <3>1. ~(pty > spawns) BY <1>1, QueueAssumption DEF QueueInv, QueueTypeOK, Coherent, PastOnly, Epochs
    <3> QED BY <1>0, <1>5, <3>1 DEF Coherent, PastOnly
  <2>2. OneLoop(drainer, pty, writer) BY <1>0 DEF Coherent
  <2>3. OnePlace(writer, input')
    BY <1>0, <1>1, <1>3, <1>8 DEF Coherent, OnePlace
  <2>4. Waiting(queue, writer, input')
    <3>1. \A n \in 1..Len(queue) : queue[n] # d BY <1>0 DEF Coherent, Waiting
    <3> QED BY <1>0, <1>3, <1>8, <3>1 DEF Coherent, Waiting
  <2>5. LastWord(pty, writer, input')
    <3>1. \A y \in Deliveries : Busy(writer, y) /\ writer[y].pty = pty => y = d
      BY <1>0, <1>1 DEF Coherent, OneLoop
    <3> QED BY <1>4, <1>7, <3>1 DEF LastWord
  <2> QED BY <2>1, <2>2, <2>3, <2>4, <2>5 DEF Coherent
<1>13. \A y \in Deliveries : Unseen(y) =>
         \A e \in Epochs : \A n \in 1..Len(input'[e]) : input'[e][n].of # y
  BY <1>3, <1>8 DEF Unseen
<1> QED BY <1>4, <1>6, <1>7, <1>9, <1>11, <1>12, <1>13 DEF GoodInput

\* The next stage, for a prompt that has the last word, or whose process is gone.
LEMMA GoOnStep ==
  ASSUME QueueInv, NEW d \in Deliveries, Busy(writer, d), GoodInput(d), NEW stage \in Stages, GoOn(d, stage),
         input'[pty] # <<>> /\ input'[pty][Len(input'[pty])].of = d,
         UNCHANGED <<pty, spawns, handoff>>, faults' \in 0..MaxFaults
  PROVE  QueueInv' /\ KeepsUnseen({}) /\ KeepsAnswered
<1>0. /\ writer \in [Deliveries -> Writers] /\ writer[d] \in Writers
      /\ writer' = [writer EXCEPT ![d].at = stage] /\ UNCHANGED <<queue, drainer, reports>>
      /\ writer[d] # Off
  BY DEF QueueInv, QueueTypeOK, GoOn, Busy, Off
<1>1. /\ writer'[d] = [at |-> stage, pty |-> writer[d].pty]
      /\ \A x \in Deliveries : x # d => writer'[x] = writer[x]
  BY <1>0 DEF Writers
<1>2. writer'[d] \in Writers /\ writer'[d].at # "off" /\ writer'[d].pty = writer[d].pty
  BY <1>0, <1>1 DEF Writers, Stages
<1>3. writer' \in [Deliveries -> Writers] BY <1>0, <1>1, <1>2
<1>4. QueueTypeOK' BY <1>0, <1>3 DEF QueueInv, QueueTypeOK, GoodInput
<1>5. \A x \in Deliveries : (Busy(writer', x) <=> Busy(writer, x)) /\ (Busy(writer, x) => writer'[x].pty = writer[x].pty)
  BY <1>1, <1>2 DEF Busy
<1>6. Coherent(queue, drainer, pty, spawns, writer', input')
  <2>1. \A e \in Epochs : \A n \in 1..Len(input'[e]) : input'[e][n].of \in Deliveries
    BY TypedBy DEF GoodInput
  <2>2. \A n \in 1..Len(queue) : queue[n] \in Deliveries
    BY ElementOfSeq DEF QueueInv, QueueTypeOK
  <2>3. LastWord(pty, writer', input')
    BY <1>1, <1>2 DEF GoodInput, Coherent, LastWord, Busy
  <2> QED BY <1>5, <2>1, <2>2, <2>3 DEF GoodInput, Coherent, PastOnly, OneLoop, OnePlace, Waiting
<1>7. QueueInv' BY <1>0, <1>4, <1>6 DEF QueueInv, GoodInput, LoopRuns
<1>8. KeepsUnseen({}) BY <1>0, <1>5 DEF KeepsUnseen, Unseen, GoodInput, Busy
<1>9. KeepsAnswered BY <1>0, <1>5 DEF KeepsAnswered, Answered, Pending, Busy
<1> QED BY <1>7, <1>8, <1>9

\* The end of a prompt, which is reported, and the next one.
LEMMA FinishStep ==
  ASSUME QueueInv, NEW d \in Deliveries, Busy(writer, d), GoodInput(d), NEW o \in Outcomes, Finish(d, o),
         UNCHANGED <<pty, spawns, handoff>>, faults' \in 0..MaxFaults
  PROVE  QueueInv' /\ KeepsUnseen({}) /\ KeepsAnswered
<1> DEFINE w == [writer EXCEPT ![d] = Off]
<1>0. /\ writer \in [Deliveries -> Writers] /\ queue \in Seq(Deliveries) /\ drainer \in Deliveries \cup {Idle}
      /\ reports \in [Deliveries -> Seq(Outcomes)] /\ input' \in [Epochs -> Seq(Keys)]
      /\ pty \in {0} \cup Epochs /\ spawns \in Nat /\ handoff \in BOOLEAN
      /\ Coherent(queue, drainer, pty, spawns, writer, input')
  BY QueueAssumption DEF QueueInv, QueueTypeOK, GoodInput
<1>1. /\ w \in [Deliveries -> Writers] /\ ~Busy(w, d)
      /\ \A x \in Deliveries : x # d => w[x] = writer[x]
  BY <1>0 DEF Writers, Busy, Off
<1>2. /\ reports' = Reported(reports, {d}, o)
      /\ IF drainer = d THEN Pump(queue, Idle, pty, handoff, w)
         ELSE writer' = w /\ UNCHANGED <<queue, drainer>>
  BY DEF Finish
<1> HIDE DEF w
<1>3. /\ reports' \in [Deliveries -> Seq(Outcomes)]
      /\ \A x \in Deliveries : x # d => reports'[x] = reports[x]
      /\ \A x \in Deliveries : reports[x] # <<>> => reports'[x] # <<>>
      /\ d \notin Users => reports'[d] # <<>>
  <2> DEFINE ds == {d}
  <2>1. reports' = Reported(reports, ds, o) /\ d \in ds /\ \A x : x # d => x \notin ds BY <1>2
  <2> HIDE DEF ds
  <2>2. /\ reports' \in [Deliveries -> Seq(Outcomes)]
        /\ \A x \in Deliveries \ ds : reports'[x] = reports[x]
        /\ \A x \in Deliveries : reports[x] # <<>> => reports'[x] # <<>>
        /\ \A x \in (Deliveries \cap ds) \ Users : reports'[x] # <<>>
    BY <1>0, <2>1, ReportedFacts
  <2> QED BY <2>1, <2>2
<1>4. ASSUME NEW busy \in {Idle, drainer}, busy = drainer \/ drainer = d
      PROVE  Coherent(queue, busy, pty, spawns, w, input')
  <2>1. \A x \in Deliveries : Busy(w, x) => x # d /\ Busy(writer, x) /\ w[x] = writer[x]
    BY <1>1 DEF Busy
  <2>2. \A e \in Epochs : \A n \in 1..Len(input'[e]) : input'[e][n].of \in Deliveries
    BY <1>0, TypedBy
  <2>3. \A n \in 1..Len(queue) : queue[n] \in Deliveries
    BY <1>0, ElementOfSeq
  <2>4. PastOnly(pty, spawns, w, input') BY <1>0, <2>1 DEF Coherent, PastOnly
  <2>5. OneLoop(busy, pty, w) BY <1>0, <1>4, <2>1 DEF Coherent, OneLoop
  <2>6. OnePlace(w, input') BY <1>0, <2>1, <2>2 DEF Coherent, OnePlace
  <2>7. Waiting(queue, w, input') BY <1>0, <2>1, <2>3 DEF Coherent, Waiting
  <2>8. LastWord(pty, w, input') BY <1>0, <2>1 DEF Coherent, LastWord
  <2> QED BY <2>4, <2>5, <2>6, <2>7, <2>8 DEF Coherent
\* What the queue and the loops come to.
<1>5. /\ queue' \in Seq(Deliveries) /\ drainer' \in Deliveries \cup {Idle} /\ writer' \in [Deliveries -> Writers]
      /\ Coherent(queue', drainer', pty, spawns, writer', input')
      /\ LoopRuns'
      /\ \A x \in Deliveries : \/ ~Busy(w, x) => ~Busy(writer', x)
                               \/ \E n \in 1..Len(queue) : queue[n] = x
      /\ \A n \in 1..Len(queue') : \E m \in 1..Len(queue) : queue[m] = queue'[n]
      /\ \A x \in Deliveries : Busy(w, x) => Busy(writer', x)
      /\ \A n \in 1..Len(queue) : Busy(writer', queue[n]) \/ \E m \in 1..Len(queue') : queue'[m] = queue[n]
  <2>1. CASE drainer = d
    <3>1. Idle \in Deliveries \cup {Idle} /\ Coherent(queue, Idle, pty, spawns, w, input')
      BY <1>4, <2>1
    <3>2. Pump(queue, Idle, pty, handoff, w) BY <1>2, <2>1
    <3>3. /\ queue' \in Seq(Deliveries) /\ drainer' \in Deliveries \cup {Idle}
          /\ writer' \in [Deliveries -> Writers]
      BY <1>0, <1>1, <3>1, <3>2, PumpTypes
    <3>4. /\ Coherent(queue', drainer', pty, spawns, writer', input')
          /\ queue' # <<>> /\ drainer' = Idle => pty = 0 \/ handoff
          /\ \A x \in Deliveries : \/ ~Busy(w, x) => ~Busy(writer', x)
                                   \/ \E n \in 1..Len(queue) : queue[n] = x
          /\ \A n \in 1..Len(queue') : \E m \in 1..Len(queue) : queue[m] = queue'[n]
          /\ \A x \in Deliveries : Busy(w, x) => Busy(writer', x)
          /\ \A n \in 1..Len(queue) : Busy(writer', queue[n]) \/ \E m \in 1..Len(queue') : queue'[m] = queue[n]
      BY <1>0, <1>1, <3>1, <3>2, PumpKeeps
    <3>5. LoopRuns' BY <3>4 DEF LoopRuns
    <3> QED BY <3>3, <3>4, <3>5
  <2>2. CASE drainer # d
    <3>1. writer' = w /\ queue' = queue /\ drainer' = drainer BY <1>2, <2>2
    <3>3. Coherent(queue, drainer, pty, spawns, w, input') BY <1>4
    <3>4. LoopRuns' BY <3>1 DEF QueueInv, LoopRuns
    <3> QED BY <1>0, <1>1, <3>1, <3>3, <3>4
  <2> QED BY <2>1, <2>2
<1>6. QueueInv'
  BY <1>0, <1>3, <1>5 DEF QueueInv, QueueTypeOK, GoodInput
<1>7. KeepsUnseen({})
  <2> SUFFICES ASSUME NEW x \in Deliveries, Unseen(x) PROVE Unseen(x)'
    BY DEF KeepsUnseen
  <2>1. x # d /\ ~Busy(w, x) BY <1>1 DEF Unseen, Busy
  <2>2. \A n \in 1..Len(queue) : queue[n] # x BY DEF Unseen
  <2>3. ~Busy(writer', x) BY <1>5, <2>1, <2>2
  <2>4. ASSUME NEW n \in 1..Len(queue') PROVE queue'[n] # x
    <3>1. PICK m \in 1..Len(queue) : queue[m] = queue'[n] BY <1>5
    <3> QED BY <2>2, <3>1
  <2> QED BY <1>3, <2>1, <2>3, <2>4 DEF Unseen, Busy, GoodInput
<1>8. KeepsAnswered
  <2> SUFFICES ASSUME NEW x \in Deliveries \ Users, Answered(x) PROVE Answered(x)'
    BY DEF KeepsAnswered
  <2>1. CASE reports[x] # <<>> \/ x = d BY <1>3, <2>1 DEF Answered
  <2>2. CASE Busy(writer, x) /\ x # d
    BY <1>1, <1>5, <2>2 DEF Answered, Pending, Busy
  <2>3. CASE \E n \in 1..Len(queue) : queue[n] = x
    <3>1. PICK n \in 1..Len(queue) : queue[n] = x BY <2>3
    <3>2. Busy(writer', x) \/ \E m \in 1..Len(queue') : queue'[m] = x BY <1>5, <3>1
    <3> QED BY <3>2 DEF Answered, Pending, Busy
  <2> QED BY <2>1, <2>2, <2>3 DEF Answered, Pending
<1> QED BY <1>6, <1>7, <1>8

\* Every step of the typing.
LEMMA TypingKeeps ==
  ASSUME QueueInv, NEW d \in Deliveries, Typing(d)
  PROVE  QueueInv' /\ KeepsUnseen({}) /\ KeepsAnswered /\ faults' \in 0..MaxFaults
<1> DEFINE Kept == QueueInv' /\ KeepsUnseen({}) /\ KeepsAnswered
<1>0. UNCHANGED <<pty, spawns, handoff>> BY DEF Typing
<1>1. faults' \in 0..MaxFaults
  <2>1. faults' = faults \/ (faults < MaxFaults /\ faults' = faults + 1)
    BY DEF Typing, SeesAnotherProcess, WriteBody, NeverReady, BodyArrives, BodyIsLost,
           PressEnter, TextIsGone, TextIsStillThere, WriteThrows, Fault
  <2> QED BY <2>1, QueueAssumption DEF QueueInv, QueueTypeOK
<1>2. Stages \subseteq {"gate", "arrive", "enter", "verify"} /\ "unknown" \in Outcomes /\ "delivered" \in Outcomes
  BY DEF Stages, Outcomes
<1>3. input' = input => GoodInput(d) BY QuietInput
<1>4. ASSUME Busy(writer, d), Alive(d), At(d, "arrive") \/ At(d, "enter") \/ At(d, "verify")
      PROVE  input[pty] # <<>> /\ input[pty][Len(input[pty])].of = d
  BY <1>4 DEF QueueInv, Coherent, LastWord, At, Alive
\* A stage that is not "off" belongs to a prompt that is being typed.
<1>5. \A stage \in Stages : At(d, stage) => Busy(writer, d)
  BY DEF At, Busy, Stages
<1>6. "gate" \in Stages /\ "arrive" \in Stages /\ "enter" \in Stages /\ "verify" \in Stages
  BY DEF Stages
<1>7. CASE SeesAnotherProcess(d)
  BY <1>0, <1>1, <1>2, <1>3, <1>7, FinishStep DEF SeesAnotherProcess, At, Busy
<1>8. CASE NeverReady(d)
  BY <1>0, <1>1, <1>2, <1>3, <1>5, <1>6, <1>8, FinishStep DEF NeverReady
<1>9. CASE TextIsGone(d)
  BY <1>0, <1>1, <1>2, <1>3, <1>5, <1>6, <1>9, FinishStep DEF TextIsGone
<1>10. CASE BodyArrives(d)
  BY <1>0, <1>1, <1>3, <1>4, <1>5, <1>6, <1>10, GoOnStep DEF BodyArrives
<1>11. ASSUME Busy(writer, d), Alive(d), Type(d, "body")
       PROVE  GoodInput(d) /\ input'[pty] # <<>> /\ input'[pty][Len(input'[pty])].of = d
  BY <1>11, KeyStep
<1>12. ASSUME Busy(writer, d), Alive(d), Type(d, "enter"), ~At(d, "gate")
       PROVE  GoodInput(d) /\ input'[pty] # <<>> /\ input'[pty][Len(input'[pty])].of = d
  BY <1>12, KeyStep DEF At
<1>13. CASE WriteBody(d)
  <2>1. Busy(writer, d) /\ Alive(d) /\ Type(d, "body") BY <1>5, <1>6, <1>13 DEF WriteBody
  <2>2. Finish(d, "delivered") \/ GoOn(d, "arrive") \/ GoOn(d, "enter") BY <1>13 DEF WriteBody
  <2> QED BY <1>0, <1>1, <1>2, <1>6, <1>11, <2>1, <2>2, FinishStep, GoOnStep
<1>14. CASE BodyIsLost(d)
  <2>1. Busy(writer, d) /\ Alive(d) BY <1>5, <1>6, <1>14 DEF BodyIsLost
  <2>2. (Type(d, "body") /\ GoOn(d, "arrive")) \/ (Finish(d, "unknown") /\ input' = input)
    BY <1>14 DEF BodyIsLost
  <2> QED BY <1>0, <1>1, <1>2, <1>3, <1>6, <1>11, <2>1, <2>2, FinishStep, GoOnStep
<1>15. CASE PressEnter(d)
  <2>1. Busy(writer, d) /\ Alive(d) /\ Type(d, "enter") /\ ~At(d, "gate") /\ GoOn(d, "verify")
    BY <1>5, <1>6, <1>15 DEF PressEnter, At
  <2> QED BY <1>0, <1>1, <1>6, <1>12, <2>1, GoOnStep
<1>16. CASE TextIsStillThere(d)
  <2>1. Busy(writer, d) /\ Alive(d) /\ ~At(d, "gate") BY <1>5, <1>6, <1>16 DEF TextIsStillThere, At
  <2>2. (Type(d, "enter") /\ GoOn(d, "verify")) \/ (Finish(d, "unknown") /\ input' = input)
    BY <1>16 DEF TextIsStillThere
  <2> QED BY <1>0, <1>1, <1>2, <1>3, <1>6, <1>12, <2>1, <2>2, FinishStep, GoOnStep
<1>17. CASE WriteThrows(d)
  <2>1. Busy(writer, d) /\ Alive(d) /\ Finish(d, "unknown") BY <1>17 DEF WriteThrows, At, Busy
  <2>2. Type(d, "body") \/ input' = input BY <1>17 DEF WriteThrows
  <2> QED BY <1>0, <1>1, <1>2, <1>3, <1>11, <2>1, <2>2, FinishStep
<1> QED
  BY <1>1, <1>7, <1>8, <1>9, <1>10, <1>13, <1>14, <1>15, <1>16, <1>17 DEF Typing

-----------------------------------------------------------------------------
(***************************************************************************)
(* An attempt is typed once.                                               *)
(***************************************************************************)
Untyped(d) == \A e \in Epochs : \A n \in 1..Len(input[e]) : input[e][n].of # d
IsKey(x, d, k) == x.of = d /\ x.key = k
Submitted(d) == \E e \in Epochs : \E n \in 1..Len(input[e]) : IsKey(input[e][n], d, "enter")

\* Nothing of an attempt is typed while it waits at the gate, its body is written once
\* in one process, and what was checked or reported as delivered was submitted.
Once(d) ==
  /\ writer[d].at # "arrive"
  /\ writer[d].at = "gate" => Untyped(d)
  /\ writer[d].at = "verify" => Submitted(d)
  /\ \A n \in 1..Len(reports[d]) : reports[d][n] = "delivered" => Submitted(d)
  /\ \A e \in Epochs : \A m, n \in 1..Len(input[e]) :
       IsKey(input[e][m], d, "body") /\ IsKey(input[e][n], d, "body") => m = n
TypedOnce == \A d \in Forms : Once(d)

\* What is typed stays, and what is new is not of d.
NothingOf(d) == \A e \in Epochs :
  /\ \A n \in 1..Len(input[e]) : n \in 1..Len(input'[e]) /\ input'[e][n] = input[e][n]
  /\ \A n \in 1..Len(input'[e]) : input'[e][n].of = d => n \in 1..Len(input[e]) /\ input'[e][n] = input[e][n]

LEMMA OnceKept ==
  ASSUME NEW d, Once(d), NothingOf(d),
         writer'[d] = writer[d] \/ writer'[d].at = "off" \/ (writer'[d].at = "gate" /\ Untyped(d)),
         \A n \in 1..Len(reports'[d]) : reports'[d][n] = "delivered" =>
           n \in 1..Len(reports[d]) /\ reports[d][n] = "delivered"
  PROVE  Once(d)'
<1>1. Untyped(d) => Untyped(d)' BY DEF Untyped, NothingOf
<1>2. Submitted(d) => Submitted(d)' BY DEF Submitted, NothingOf
<1>3. \A e \in Epochs : \A m, n \in 1..Len(input'[e]) :
        IsKey(input'[e][m], d, "body") /\ IsKey(input'[e][n], d, "body") => m = n
  BY DEF Once, NothingOf, IsKey
<1> QED BY <1>1, <1>2, <1>3 DEF Once

LEMMA SameIsNothing == ASSUME input' = input PROVE \A d : NothingOf(d)
BY DEF NothingOf

\* The loop leaves a prompt where it is, or takes it from the queue.
LEMMA PumpTakes ==
  ASSUME NEW q \in Seq(Deliveries), NEW busy, NEW p, NEW h, NEW w \in [Deliveries -> Writers],
         Pump(q, busy, p, h, w), NEW x \in Deliveries
  PROVE  writer'[x] = w[x] \/ (writer'[x].at = "gate" /\ \E n \in 1..Len(q) : q[n] = x)
<1>1. CASE q # <<>> /\ busy = Idle /\ p # 0 /\ ~h
  <2>1. Head(q) = q[1] /\ 1 \in 1..Len(q) /\ Head(q) \in Deliveries BY <1>1, TailFacts
  <2>2. writer' = [w EXCEPT ![Head(q)] = [at |-> "gate", pty |-> p]] BY <1>1 DEF Pump
  <2> QED BY <2>1, <2>2
<1>2. CASE ~(q # <<>> /\ busy = Idle /\ p # 0 /\ ~h) BY <1>2 DEF Pump
<1> QED BY <1>1, <1>2

LEMMA WaitsUntyped ==
  ASSUME QueueInv, NEW n \in 1..Len(queue) PROVE Untyped(queue[n])
BY DEF QueueInv, Coherent, Waiting, Untyped

\* A prompt that the queue takes in.
LEMMA AdmitOnce ==
  ASSUME QueueInv, NEW d \in Deliveries, Unseen(d), Admit(d), TypedOnce
  PROVE  TypedOnce'
<1> SUFFICES ASSUME NEW x \in Forms PROVE Once(x)' BY DEF TypedOnce
<1>1. /\ writer \in [Deliveries -> Writers] /\ queue \in Seq(Deliveries) /\ x \in Deliveries
      /\ Len(queue) \in Nat
  BY DEF QueueInv, QueueTypeOK, Deliveries
<1>2. Pump(Append(queue, d), drainer, pty, handoff, writer) /\ input' = input /\ reports' = reports
  BY DEF Admit
<1>3. Append(queue, d) \in Seq(Deliveries) BY <1>1
<1>4. writer'[x] = writer[x]
      \/ (writer'[x].at = "gate" /\ \E n \in 1..Len(Append(queue, d)) : Append(queue, d)[n] = x)
  BY <1>1, <1>2, <1>3, PumpTakes
<1>5. ASSUME NEW n \in 1..Len(Append(queue, d)), Append(queue, d)[n] = x PROVE Untyped(x)
  <2>1. n \in 1..Len(queue) \/ n = Len(queue) + 1 BY <1>1
  <2>2. CASE n \in 1..Len(queue)
    <3>1. queue[n] = x BY <1>1, <1>5, <2>2, AppendFacts
    <3> QED BY <2>2, <3>1, WaitsUntyped
  <2>3. CASE n = Len(queue) + 1
    <3>1. x = d BY <1>1, <1>5, <2>3, AppendFacts
    <3> QED BY <3>1 DEF Unseen, Untyped
  <2> QED BY <2>1, <2>2, <2>3
<1>6. NothingOf(x) BY <1>2, SameIsNothing
<1>7. Once(x) BY DEF TypedOnce
<1> QED BY <1>2, <1>4, <1>5, <1>6, <1>7, OnceKept

\* A process that is spawned, with or without the first turn.
LEMMA SpawnOnce ==
  ASSUME QueueInv, NEW ds, SpawnPty(ds), ds = <<>> \/ ds = <<First>>, TypedOnce
  PROVE  TypedOnce'
<1> SUFFICES ASSUME NEW x \in Forms PROVE Once(x)' BY DEF TypedOnce
<1>1. /\ writer \in [Deliveries -> Writers] /\ queue \in Seq(Deliveries) /\ x \in Deliveries
      /\ Len(queue) \in Nat /\ First \in Deliveries /\ x # First
  BY PromptAssumption DEF QueueInv, QueueTypeOK, Deliveries
<1> DEFINE q == queue \o ds
<1>2. Pump(q, drainer, spawns + 1, FALSE, writer) /\ input' = input /\ reports' = reports
  BY DEF SpawnPty
<1>3. ds \in Seq(Deliveries) /\ q \in Seq(Deliveries) /\ \A n \in 1..Len(ds) : ds[n] = First
  <2>1. <<>> \in Seq(Deliveries) /\ <<First>> \in Seq(Deliveries) /\ 1..Len(<<>>) = {} BY <1>1
  <2>2. \A n \in 1..Len(<<First>>) : <<First>>[n] = First OBVIOUS
  <2>3. ds \in Seq(Deliveries) BY <2>1
  <2>4. \A n \in 1..Len(ds) : ds[n] = First BY <2>1, <2>2
  <2> QED BY <1>1, <2>3, <2>4
<1>5. ASSUME NEW n \in 1..Len(q), q[n] = x PROVE Untyped(x)
  <2>1. n \in 1..Len(queue) \/ n - Len(queue) \in 1..Len(ds)
    BY <1>1, <1>3
  <2>2. CASE n \in 1..Len(queue)
    <3>1. queue[n] = x BY <1>1, <1>3, <1>5, <2>2
    <3> QED BY <2>2, <3>1, WaitsUntyped
  <2>3. CASE n \notin 1..Len(queue) /\ n - Len(queue) \in 1..Len(ds)
    <3>1. q[n] = ds[n - Len(queue)] BY <1>1, <1>3, <2>3
    <3> QED BY <1>1, <1>3, <1>5, <2>3, <3>1
  <2> QED BY <2>1, <2>2, <2>3
<1> HIDE DEF q
<1>4. writer'[x] = writer[x] \/ (writer'[x].at = "gate" /\ \E n \in 1..Len(q) : q[n] = x)
  BY <1>1, <1>2, <1>3, PumpTakes
<1>6. NothingOf(x) BY <1>2, SameIsNothing
<1>7. Once(x) BY DEF TypedOnce
<1> QED BY <1>2, <1>4, <1>5, <1>6, <1>7, OnceKept

\* What is reported as unknown tells nothing new of what was delivered.
LEMMA UnknownSaysNothing ==
  ASSUME NEW rs \in [Deliveries -> Seq(Outcomes)], NEW ds, NEW d \in Deliveries
  PROVE  \A n \in 1..Len(Reported(rs, ds, "unknown")[d]) :
           Reported(rs, ds, "unknown")[d][n] = "delivered" => n \in 1..Len(rs[d]) /\ rs[d][n] = "delivered"
<1>1. rs[d] \in Seq(Outcomes) OBVIOUS
<1>2. Reported(rs, ds, "unknown")[d] = rs[d] \/ Reported(rs, ds, "unknown")[d] = Append(rs[d], "unknown")
  BY DEF Reported
<1> QED BY <1>1, <1>2

\* A queue that is thrown away, by its session or by a crash.
LEMMA LossOnce ==
  ASSUME QueueInv, Discard \/ ForgetQueue \/ UNCHANGED <<writer, input, reports>>, TypedOnce
  PROVE  TypedOnce'
<1> SUFFICES ASSUME NEW x \in Forms PROVE Once(x)' BY DEF TypedOnce
<1>1. reports \in [Deliveries -> Seq(Outcomes)] /\ x \in Deliveries
  BY DEF QueueInv, QueueTypeOK, Deliveries
<1>2. /\ input' = input
      /\ writer'[x] = writer[x] \/ writer'[x].at = "off"
      /\ reports' = reports \/ \E ds : reports' = Reported(reports, ds, "unknown")
  BY <1>1 DEF Discard, ForgetQueue, Off
<1>3. \A n \in 1..Len(reports'[x]) : reports'[x][n] = "delivered" =>
        n \in 1..Len(reports[x]) /\ reports[x][n] = "delivered"
  BY <1>1, <1>2, UnknownSaysNothing
<1>4. NothingOf(x) BY <1>2, SameIsNothing
<1>5. Once(x) BY DEF TypedOnce
<1> QED BY <1>2, <1>3, <1>4, <1>5, OnceKept

\* A key that is typed comes after what its process was given.
LEMMA KeyIsTyped ==
  ASSUME QueueInv, NEW d \in Deliveries, Busy(writer, d), Alive(d), NEW k \in {"body", "enter"}, Type(d, k)
  PROVE  /\ \A x : x # d => NothingOf(x)
         /\ \A e \in Epochs : \A n \in 1..Len(input[e]) : n \in 1..Len(input'[e]) /\ input'[e][n] = input[e][n]
         /\ \A e \in Epochs : \A n \in 1..Len(input'[e]) :
              \/ n \in 1..Len(input[e]) /\ input'[e][n] = input[e][n]
              \/ e = pty /\ n = Len(input[e]) + 1 /\ IsKey(input'[e][n], d, k)
         /\ k = "enter" => Submitted(d)'
<1> DEFINE x == [of |-> d, key |-> k]
<1>0. /\ writer \in [Deliveries -> Writers] /\ input \in [Epochs -> Seq(Keys)]
      /\ \A e \in Epochs : Len(input[e]) \in Nat
  BY LenProperties DEF QueueInv, QueueTypeOK
<1>1. pty \in Epochs /\ writer[d].pty = pty
  BY <1>0 DEF Busy, Alive, Writers, Off
<1>2. x \in Keys /\ IsKey(x, d, k) BY DEF Keys, IsKey
<1>3. input' = [input EXCEPT ![pty] = Append(input[pty], x)] BY <1>1 DEF Type
<1> HIDE DEF x
<1>4. /\ Len(input'[pty]) = Len(input[pty]) + 1
      /\ input'[pty][Len(input[pty]) + 1] = x
      /\ \A n \in 1..Len(input[pty]) : input'[pty][n] = input[pty][n]
  BY <1>0, <1>1, <1>2, <1>3, AppendFacts
<1>5. \A e \in Epochs : e # pty => input'[e] = input[e] BY <1>0, <1>3
<1>6. \A e \in Epochs : \A n \in 1..Len(input[e]) : n \in 1..Len(input'[e]) /\ input'[e][n] = input[e][n]
  BY <1>0, <1>4, <1>5
<1>7. ASSUME NEW e \in Epochs, NEW n \in 1..Len(input'[e])
      PROVE  \/ n \in 1..Len(input[e]) /\ input'[e][n] = input[e][n]
             \/ e = pty /\ n = Len(input[e]) + 1 /\ IsKey(input'[e][n], d, k)
  <2>1. CASE e = pty
    <3>1. n \in 1..Len(input[e]) \/ n = Len(input[e]) + 1 BY <1>0, <1>4, <2>1
    <3> QED BY <1>2, <1>4, <2>1, <3>1
  <2> QED BY <1>5, <2>1
<1>8. \A y : y # d => NothingOf(y) BY <1>6, <1>7 DEF NothingOf, IsKey
<1>9. k = "enter" => Submitted(d)'
  <2>1. Len(input[pty]) + 1 \in 1..Len(input'[pty]) BY <1>0, <1>1, <1>4
  <2> QED BY <1>1, <1>2, <1>4, <2>1 DEF Submitted
<1> QED BY <1>6, <1>7, <1>8, <1>9

\* The prompt that ends, or goes on, and those it is not about.
LEMMA EndOnce ==
  ASSUME QueueInv, NEW d \in Deliveries, NEW o \in Outcomes, Finish(d, o), NEW x \in Forms, Once(x),
         x # d => NothingOf(x)
  PROVE  /\ writer'[x] = writer[x] \/ writer'[x].at = "off" \/ (writer'[x].at = "gate" /\ Untyped(x))
         /\ x # d => Once(x)'
         /\ o = "unknown" => \A n \in 1..Len(reports'[x]) : reports'[x][n] = "delivered" =>
              n \in 1..Len(reports[x]) /\ reports[x][n] = "delivered"
<1> DEFINE w == [writer EXCEPT ![d] = Off]
<1>1. /\ writer \in [Deliveries -> Writers] /\ queue \in Seq(Deliveries) /\ x \in Deliveries
      /\ reports \in [Deliveries -> Seq(Outcomes)]
  BY DEF QueueInv, QueueTypeOK, Deliveries
<1>2. /\ w \in [Deliveries -> Writers]
      /\ w[x] = writer[x] \/ w[x].at = "off"
  BY <1>1 DEF Writers, Off
<1>3. /\ reports' = Reported(reports, {d}, o)
      /\ Pump(queue, Idle, pty, handoff, w) \/ writer' = w
  BY DEF Finish
<1> HIDE DEF w
<1>4. writer'[x] = w[x] \/ (writer'[x].at = "gate" /\ \E n \in 1..Len(queue) : queue[n] = x)
  BY <1>1, <1>2, <1>3, PumpTakes
<1>5. writer'[x] = writer[x] \/ writer'[x].at = "off" \/ (writer'[x].at = "gate" /\ Untyped(x))
  BY <1>2, <1>4, WaitsUntyped
<1>6. o = "unknown" => \A n \in 1..Len(reports'[x]) : reports'[x][n] = "delivered" =>
        n \in 1..Len(reports[x]) /\ reports[x][n] = "delivered"
  <2> DEFINE ds == {d}
  <2>1. o = "unknown" => reports' = Reported(reports, ds, "unknown") BY <1>3
  <2> HIDE DEF ds
  <2> QED BY <1>1, <2>1, UnknownSaysNothing
<1>7. ASSUME x # d PROVE Once(x)'
  <2>1. reports'[x] = reports[x] BY <1>1, <1>3, <1>7 DEF Reported
  <2> QED BY <1>5, <1>7, <2>1, OnceKept
<1> QED BY <1>5, <1>6, <1>7

LEMMA OnOnce ==
  ASSUME QueueInv, NEW d \in Deliveries, NEW stage \in Stages, GoOn(d, stage), NEW x \in Forms, Once(x),
         x # d, NothingOf(x)
  PROVE  Once(x)'
<1>1. writer \in [Deliveries -> Writers] BY DEF QueueInv, QueueTypeOK
<1>2. writer'[x] = writer[x] /\ reports' = reports BY <1>1 DEF GoOn, Deliveries
<1> QED BY <1>2, OnceKept

\* A key of the attempt itself.
LEMMA OwnKeyOnce ==
  ASSUME QueueInv, NEW d \in Forms, Once(d), Busy(writer, d), Alive(d), NEW k \in {"body", "enter"}, Type(d, k),
         k = "body" => At(d, "gate"), writer'[d].at \in {"off", "enter", "verify"},
         writer'[d].at = "verify" => k = "enter",
         \A n \in 1..Len(reports'[d]) : reports'[d][n] = "delivered" =>
           n \in 1..Len(reports[d]) /\ reports[d][n] = "delivered"
  PROVE  Once(d)'
<1>1. d \in Deliveries BY DEF Deliveries
<1>2. /\ \A e \in Epochs : \A n \in 1..Len(input[e]) : n \in 1..Len(input'[e]) /\ input'[e][n] = input[e][n]
      /\ \A e \in Epochs : \A n \in 1..Len(input'[e]) :
           \/ n \in 1..Len(input[e]) /\ input'[e][n] = input[e][n]
           \/ e = pty /\ n = Len(input[e]) + 1 /\ IsKey(input'[e][n], d, k)
      /\ k = "enter" => Submitted(d)'
  BY <1>1, KeyIsTyped
<1>3. Submitted(d) => Submitted(d)' BY <1>2 DEF Submitted
<1>4. ASSUME NEW e \in Epochs, NEW m \in 1..Len(input'[e]), NEW n \in 1..Len(input'[e]),
             IsKey(input'[e][m], d, "body"), IsKey(input'[e][n], d, "body")
      PROVE  m = n
  <2>1. CASE k = "body"
    <3>1. Untyped(d) BY <2>1 DEF At, Once
    <3>2. m = Len(input[e]) + 1 /\ n = Len(input[e]) + 1 BY <1>2, <1>4, <3>1 DEF IsKey, Untyped
    <3> QED BY <3>2
  <2>2. CASE k = "enter"
    <3>1. /\ m \in 1..Len(input[e]) /\ input'[e][m] = input[e][m]
          /\ n \in 1..Len(input[e]) /\ input'[e][n] = input[e][n]
      BY <1>2, <1>4, <2>2 DEF IsKey
    <3> QED BY <1>4, <3>1 DEF Once
  <2> QED BY <2>1, <2>2
<1>5. \A n \in 1..Len(reports'[d]) : reports'[d][n] = "delivered" => Submitted(d)'
  BY <1>3 DEF Once
<1>6. writer'[d].at # "gate" /\ writer'[d].at # "arrive" /\ (writer'[d].at = "verify" => Submitted(d)')
  BY <1>2
<1> QED BY <1>4, <1>5, <1>6 DEF Once

\* Every step of the typing.
LEMMA TypingOnce ==
  ASSUME QueueInv, NEW d \in Deliveries, Typing(d), TypedOnce
  PROVE  TypedOnce'
<1> SUFFICES ASSUME NEW x \in Forms PROVE Once(x)' BY DEF TypedOnce
<1>0. /\ writer \in [Deliveries -> Writers] /\ x \in Deliveries /\ Once(x)
      /\ reports \in [Deliveries -> Seq(Outcomes)] /\ Len(reports[x]) \in Nat
      /\ x # First /\ x \notin Pastes
      /\ "unknown" \in Outcomes /\ "delivered" \in Outcomes
      /\ \A stage \in Stages : At(d, stage) => Busy(writer, d)
      /\ "gate" \in Stages /\ "arrive" \in Stages /\ "enter" \in Stages /\ "verify" \in Stages
  BY PromptAssumption, QueueAssumption, LenProperties
     DEF QueueInv, QueueTypeOK, Deliveries, TypedOnce, Outcomes, At, Busy, Stages
<1>1. \/ Type(d, "body") /\ Busy(writer, d) /\ Alive(d)
      \/ Type(d, "enter") /\ Busy(writer, d) /\ Alive(d)
      \/ input' = input
  BY <1>0 DEF Typing, SeesAnotherProcess, WriteBody, NeverReady, BodyArrives, BodyIsLost,
     PressEnter, TextIsGone, TextIsStillThere, WriteThrows
<1>2. x # d => NothingOf(x) BY <1>1, KeyIsTyped, SameIsNothing
<1>3. \/ \E o \in Outcomes : Finish(d, o)
      \/ \E stage \in Stages : GoOn(d, stage)
  BY <1>0 DEF Typing, SeesAnotherProcess, WriteBody, NeverReady, BodyArrives, BodyIsLost,
     PressEnter, TextIsGone, TextIsStillThere, WriteThrows
<1>4. CASE x # d BY <1>0, <1>2, <1>3, <1>4, EndOnce, OnOnce
<1>5. CASE x = d
  <2>1. ~At(d, "arrive") BY <1>0, <1>5 DEF Once, At
  <2>2. ASSUME Finish(d, "unknown")
        PROVE  /\ writer'[x] = writer[x] \/ writer'[x].at = "off" \/ (writer'[x].at = "gate" /\ Untyped(x))
               /\ \A n \in 1..Len(reports'[x]) : reports'[x][n] = "delivered" =>
                    n \in 1..Len(reports[x]) /\ reports[x][n] = "delivered"
    BY <1>0, <1>5, <2>2, EndOnce
  <2>3. ASSUME Finish(d, "unknown"), input' = input PROVE Once(x)'
    BY <1>0, <2>2, <2>3, SameIsNothing, OnceKept
  <2>4. ASSUME NEW stage \in Stages, GoOn(d, stage)
        PROVE  /\ writer'[x].at = stage
               /\ \A n \in 1..Len(reports'[x]) : reports'[x][n] = "delivered" =>
                    n \in 1..Len(reports[x]) /\ reports[x][n] = "delivered"
    <3>1. writer' = [writer EXCEPT ![d].at = stage] /\ reports' = reports BY <2>4 DEF GoOn
    <3>2. writer[d] \in Writers BY <1>0
    <3>3. writer'[d].at = stage BY <1>0, <3>1, <3>2 DEF Writers, Off
    <3> QED BY <1>5, <3>1, <3>3
  <2>5. CASE SeesAnotherProcess(d) \/ NeverReady(d) \/ (TextIsStillThere(d) /\ Finish(d, "unknown") /\ input' = input)
    BY <2>3, <2>5 DEF SeesAnotherProcess, NeverReady
  <2>6. CASE WriteBody(d)
    <3>1. /\ Busy(writer, d) /\ Alive(d) /\ Type(d, "body") /\ At(d, "gate") /\ GoOn(d, "enter")
      BY <1>0, <1>5, <2>6 DEF WriteBody
    <3>2. writer'[x].at = "enter" BY <1>0, <2>4, <3>1
    <3> QED BY <1>0, <1>5, <2>4, <3>1, <3>2, OwnKeyOnce
  <2>7. CASE (PressEnter(d) \/ TextIsStillThere(d)) /\ Type(d, "enter") /\ GoOn(d, "verify")
    <3>1. Busy(writer, d) /\ Alive(d) BY <1>0, <2>7 DEF PressEnter, TextIsStillThere
    <3>2. writer'[x].at = "verify" BY <1>0, <2>4, <2>7
    <3> QED BY <1>0, <1>5, <2>4, <2>7, <3>1, <3>2, OwnKeyOnce
  <2>8. CASE TextIsGone(d)
    <3>1. Submitted(x) /\ Finish(d, "delivered") /\ input' = input
      BY <1>0, <1>5, <2>8 DEF TextIsGone, At, Once
    <3>2. writer'[x] = writer[x] \/ writer'[x].at = "off" \/ (writer'[x].at = "gate" /\ Untyped(x))
      BY <1>0, <1>5, <3>1, EndOnce
    <3>3. Untyped(x)' = Untyped(x) /\ Submitted(x)' = Submitted(x) BY <3>1 DEF Untyped, Submitted
    <3>4. writer[x].at = "verify" BY <1>5, <2>8 DEF TextIsGone, At
    <3>5. writer'[x].at # "arrive" /\ (writer'[x].at = "gate" => Untyped(x)') BY <3>2, <3>3, <3>4
    <3>6. \A e \in Epochs : \A m, n \in 1..Len(input'[e]) :
            IsKey(input'[e][m], x, "body") /\ IsKey(input'[e][n], x, "body") => m = n
      BY <1>0, <3>1 DEF Once
    <3> QED BY <3>1, <3>3, <3>5, <3>6 DEF Once
  <2>9. CASE WriteThrows(d)
    <3>1. Busy(writer, d) /\ Alive(d) /\ Finish(d, "unknown") BY <2>9 DEF WriteThrows, At, Busy
    <3>2. input' = input \/ (At(d, "gate") /\ Type(d, "body")) BY <2>9 DEF WriteThrows
    <3>3. CASE At(d, "gate") /\ Type(d, "body")
      <4>1. writer'[x] = Off
        <5>1. \A n \in 1..Len(queue) : queue[n] # d BY <3>1 DEF QueueInv, Coherent, Waiting
        <5> DEFINE w == [writer EXCEPT ![d] = Off]
        <5>2. w \in [Deliveries -> Writers] /\ w[x] = Off BY <1>0, <1>5 DEF Writers
        <5>3. Pump(queue, Idle, pty, handoff, w) \/ writer' = w BY <3>1 DEF Finish
        <5>4. queue \in Seq(Deliveries) BY DEF QueueInv, QueueTypeOK
        <5> HIDE DEF w
        <5> QED BY <1>0, <1>5, <5>1, <5>2, <5>3, <5>4, PumpTakes
      <4>2. writer'[x].at = "off" BY <4>1 DEF Off
      <4> QED BY <1>5, <2>2, <3>1, <3>3, <4>2, <1>0, OwnKeyOnce
    <3> QED BY <2>3, <3>1, <3>2, <3>3
  <2>10. ~BodyArrives(d) /\ ~BodyIsLost(d) BY <2>1 DEF BodyArrives, BodyIsLost
  <2>11. PressEnter(d) => Type(d, "enter") /\ GoOn(d, "verify") BY DEF PressEnter
  <2>12. TextIsStillThere(d) => \/ Type(d, "enter") /\ GoOn(d, "verify")
                                \/ Finish(d, "unknown") /\ input' = input
    BY DEF TextIsStillThere
  <2> QED BY <2>5, <2>6, <2>7, <2>8, <2>9, <2>10, <2>11, <2>12 DEF Typing
<1> QED BY <1>4, <1>5

-----------------------------------------------------------------------------
(***************************************************************************)
(* A prompt that is queued or being typed has not been reported.           *)
(***************************************************************************)
Unreported(d) == Pending(d) => reports[d] = <<>>

\* Nobody steps into the queue but ds, and what is there is not reported.
KeepsUnreported(ds) == \A d \in Forms :
  Unreported(d) => Unreported(d)' /\ (Pending(d)' => Pending(d) \/ d \in ds)

\* The loop takes prompts from its queue only.
LEMMA PumpPending ==
  ASSUME NEW q \in Seq(Deliveries), NEW busy, NEW p, NEW h, NEW w \in [Deliveries -> Writers],
         Pump(q, busy, p, h, w), NEW d \in Deliveries, Pending(d)'
  PROVE  Busy(w, d) \/ \E n \in 1..Len(q) : q[n] = d
<1>1. CASE q # <<>> /\ queue' = Tail(q)
  <2>1. Busy(writer, d)' \/ \E n \in 1..Len(Tail(q)) : Tail(q)[n] = d BY <1>1 DEF Pending
  <2>2. \A n \in 1..Len(Tail(q)) : n + 1 \in 1..Len(q) /\ Tail(q)[n] = q[n + 1] BY <1>1, TailFacts
  <2>3. Busy(writer, d)' => Busy(w, d) \/ \E n \in 1..Len(q) : q[n] = d BY PumpTakes DEF Busy
  <2> QED BY <2>1, <2>2, <2>3
<1>2. CASE queue' = q /\ writer' = w BY <1>2 DEF Pending, Busy
<1> QED BY <1>1, <1>2 DEF Pump

LEMMA AdmitPending ==
  ASSUME QueueInv, NEW x \in Deliveries, Unseen(x), Admit(x)
  PROVE  KeepsUnreported({x})
<1> SUFFICES ASSUME NEW d \in Forms, Unreported(d)
             PROVE  Unreported(d)' /\ (Pending(d)' => Pending(d) \/ d = x)
  BY DEF KeepsUnreported
<1>1. writer \in [Deliveries -> Writers] /\ queue \in Seq(Deliveries) /\ d \in Deliveries
  BY DEF QueueInv, QueueTypeOK, Deliveries
<1>2. /\ Append(queue, x) \in Seq(Deliveries)
      /\ \A n \in 1..Len(Append(queue, x)) :
           Append(queue, x)[n] = x \/ (n \in 1..Len(queue) /\ Append(queue, x)[n] = queue[n])
  BY <1>1
<1>3. Pending(d)' => Pending(d) \/ d = x
  <2> DEFINE q == Append(queue, x)
  <2>1. Pump(q, drainer, pty, handoff, writer) BY DEF Admit
  <2>2. q \in Seq(Deliveries) BY <1>2
  <2>3. \A n \in 1..Len(q) : q[n] = x \/ (n \in 1..Len(queue) /\ q[n] = queue[n]) BY <1>2
  <2> HIDE DEF q
  <2>4. Pending(d)' => Busy(writer, d) \/ \E n \in 1..Len(q) : q[n] = d BY <1>1, <2>1, <2>2, PumpPending
  <2> QED BY <2>3, <2>4 DEF Pending
<1>4. reports' = reports BY DEF Admit
<1>5. d = x => reports[d] = <<>> BY DEF Unseen
<1> QED BY <1>3, <1>4, <1>5 DEF Unreported

LEMMA SpawnPending ==
  ASSUME QueueInv, NEW ds, SpawnPty(ds), ds = <<>> \/ ds = <<First>>
  PROVE  KeepsUnreported({})
<1> SUFFICES ASSUME NEW d \in Forms, Unreported(d)
             PROVE  Unreported(d)' /\ (Pending(d)' => Pending(d))
  BY DEF KeepsUnreported
<1>1. /\ writer \in [Deliveries -> Writers] /\ queue \in Seq(Deliveries) /\ d \in Deliveries
      /\ First \in Deliveries /\ d # First /\ Len(queue) \in Nat
  BY PromptAssumption DEF QueueInv, QueueTypeOK, Deliveries
<1>2. ds \in Seq(Deliveries) /\ \A n \in 1..Len(ds) : ds[n] = First
  <2>1. <<>> \in Seq(Deliveries) /\ <<First>> \in Seq(Deliveries) /\ 1..Len(<<>>) = {} BY <1>1
  <2>2. \A n \in 1..Len(<<First>>) : <<First>>[n] = First OBVIOUS
  <2> QED BY <2>1, <2>2
<1>3. /\ queue \o ds \in Seq(Deliveries)
      /\ \A n \in 1..Len(queue \o ds) :
           (queue \o ds)[n] = First \/ (n \in 1..Len(queue) /\ (queue \o ds)[n] = queue[n])
  BY <1>1, <1>2
<1>4. Pending(d)' => Pending(d)
  <2> DEFINE q == queue \o ds
  <2>1. Pump(q, drainer, spawns + 1, FALSE, writer) BY DEF SpawnPty
  <2>2. q \in Seq(Deliveries) /\ \A n \in 1..Len(q) : q[n] = First \/ (n \in 1..Len(queue) /\ q[n] = queue[n])
    BY <1>3
  <2> HIDE DEF q
  <2>3. Pending(d)' => Busy(writer, d) \/ \E n \in 1..Len(q) : q[n] = d BY <1>1, <2>1, <2>2, PumpPending
  <2> QED BY <1>1, <2>2, <2>3 DEF Pending
<1>5. reports' = reports BY DEF SpawnPty
<1> QED BY <1>4, <1>5 DEF Unreported

\* A prompt that is being typed does not wait as well.
LEMMA BusyIsNotQueued ==
  ASSUME QueueInv, NEW d, Busy(writer, d)
  PROVE  d \notin ToSet(queue) /\ \A n \in 1..Len(queue) : queue[n] # d
<1>1. queue \in Seq(Deliveries) /\ \A n \in 1..Len(queue) : queue[n] # d
  BY DEF QueueInv, QueueTypeOK, Coherent, Waiting
<1> QED BY <1>1 DEF ToSet

LEMMA LossPending ==
  ASSUME QueueInv, Discard \/ ForgetQueue \/ UNCHANGED <<queue, writer, reports>>
  PROVE  KeepsUnreported({})
<1> SUFFICES ASSUME NEW d \in Forms, Unreported(d)
             PROVE  Unreported(d)' /\ (Pending(d)' => Pending(d))
  BY DEF KeepsUnreported
<1>1. d \in Deliveries /\ reports \in [Deliveries -> Seq(Outcomes)] BY DEF QueueInv, QueueTypeOK, Deliveries
<1>2. CASE Discard
  <2>1. queue' = <<>> /\ writer' = writer /\ 1..Len(<<>>) = {} BY <1>2 DEF Discard
  <2>2. Pending(d)' => Busy(writer, d) BY <2>1 DEF Pending, Busy
  <2>3. Busy(writer, d) => reports'[d] = reports[d] BY <1>1, <1>2, BusyIsNotQueued DEF Discard, Reported
  <2> QED BY <2>2, <2>3 DEF Unreported, Pending
<1>3. CASE ForgetQueue
  <2>1. queue' = <<>> /\ writer'[d] = Off /\ 1..Len(<<>>) = {} BY <1>1, <1>3 DEF ForgetQueue
  <2>2. ~Pending(d)' BY <2>1 DEF Pending, Busy, Off
  <2> QED BY <2>2 DEF Unreported
<1>4. CASE UNCHANGED <<queue, writer, reports>> BY <1>4 DEF Unreported, Pending, Busy
<1> QED BY <1>2, <1>3, <1>4

LEMMA TypingPending ==
  ASSUME QueueInv, NEW x \in Deliveries, Typing(x)
  PROVE  KeepsUnreported({})
<1> SUFFICES ASSUME NEW d \in Forms, Unreported(d)
             PROVE  Unreported(d)' /\ (Pending(d)' => Pending(d))
  BY DEF KeepsUnreported
<1>0. /\ d \in Deliveries /\ reports \in [Deliveries -> Seq(Outcomes)]
      /\ writer \in [Deliveries -> Writers] /\ queue \in Seq(Deliveries)
  BY DEF QueueInv, QueueTypeOK, Deliveries
<1>1. /\ Busy(writer, x)
      /\ \/ \E o \in Outcomes : Finish(x, o)
         \/ \E stage \in Stages : GoOn(x, stage)
  <2>1. \A stage \in Stages : At(x, stage) => Busy(writer, x) BY DEF Stages, At, Busy
  <2> QED BY <2>1 DEF Typing, SeesAnotherProcess, WriteBody, NeverReady, BodyArrives, BodyIsLost,
       PressEnter, TextIsGone, TextIsStillThere, WriteThrows, Stages, Outcomes, At, Busy
<1>2. ASSUME NEW o \in Outcomes, Finish(x, o) PROVE Unreported(d)' /\ (Pending(d)' => Pending(d))
  <2> DEFINE w == [writer EXCEPT ![x] = Off]
  <2>1. w \in [Deliveries -> Writers] /\ (d # x => w[d] = writer[d]) /\ (d = x => ~Busy(w, d))
    BY <1>0 DEF Writers, Off, Busy
  <2>2. Pump(queue, Idle, pty, handoff, w) \/ (queue' = queue /\ writer' = w)
    BY <1>2 DEF Finish
  <2> HIDE DEF w
  <2>3. Pending(d)' => Busy(w, d) \/ \E n \in 1..Len(queue) : queue[n] = d
    BY <1>0, <2>1, <2>2, PumpPending DEF Pending, Busy
  <2>4. CASE d = x
    <3>1. ~Pending(d)' BY <1>1, <2>1, <2>3, <2>4, BusyIsNotQueued
    <3> QED BY <3>1 DEF Unreported
  <2>5. CASE d # x
    <3>1. Pending(d)' => Pending(d) BY <2>1, <2>3, <2>5 DEF Pending, Busy
    <3>2. reports'[d] = reports[d] BY <1>0, <1>2, <2>5 DEF Finish, Reported
    <3> QED BY <3>1, <3>2 DEF Unreported
  <2> QED BY <2>4, <2>5
<1>3. ASSUME NEW stage \in Stages, GoOn(x, stage) PROVE Unreported(d)' /\ (Pending(d)' => Pending(d))
  <2>1. queue' = queue /\ reports' = reports BY <1>3 DEF GoOn
  <2>2. d # x => writer'[d] = writer[d] BY <1>0, <1>3 DEF GoOn
  <2>3. Pending(d)' => Pending(d) BY <1>1, <2>1, <2>2 DEF Pending, Busy
  <2> QED BY <2>1, <2>3 DEF Unreported
<1> QED BY <1>1, <1>2, <1>3
-----------------------------------------------------------------------------
(***************************************************************************)
(* The queue at rest: a loop that has a prompt types it, the first turn is *)
(* reported once, and no attempt waits for a process that is not there.    *)
(***************************************************************************)
LoopTypes  == drainer # Idle => Busy(writer, drainer)
FirstIsReportedOnce == Len(reports[First]) <= 1 /\ Unreported(First)
NoFormWaits == pty = 0 => \A n \in 1..Len(queue) : queue[n] \notin Forms
QueueAtRest == LoopTypes /\ FirstIsReportedOnce /\ NoFormWaits

\* What the loop types it has taken, and what waits has waited.
LEMMA PumpRests ==
  ASSUME NEW q \in Seq(Deliveries), NEW busy, NEW p, NEW h, NEW w \in [Deliveries -> Writers],
         Pump(q, busy, p, h, w), busy # Idle => Busy(w, busy)
  PROVE  LoopTypes' /\ \A n \in 1..Len(queue') : \E m \in 1..Len(q) : queue'[n] = q[m]
<1>1. CASE q # <<>> /\ busy = Idle /\ p # 0 /\ ~h
  <2>1. /\ queue' = Tail(q) /\ drainer' = q[1] /\ q[1] \in Deliveries
        /\ writer' = [w EXCEPT ![q[1]] = [at |-> "gate", pty |-> p]]
    BY <1>1, TailFacts DEF Pump
  <2>2. writer'[q[1]].at = "gate" BY <2>1
  <2>3. \A n \in 1..Len(Tail(q)) : n + 1 \in 1..Len(q) /\ Tail(q)[n] = q[n + 1] BY <1>1, TailFacts
  <2> QED BY <2>1, <2>2, <2>3 DEF LoopTypes, Busy
<1>2. CASE ~(q # <<>> /\ busy = Idle /\ p # 0 /\ ~h)
  <2>1. queue' = q /\ drainer' = busy /\ writer' = w BY <1>2 DEF Pump
  <2> QED BY <2>1 DEF LoopTypes, Busy
<1> QED BY <1>1, <1>2

LEMMA AdmitRests ==
  ASSUME QueueInv, QueueAtRest, NEW x \in Deliveries, x # First, pty # 0 \/ x \notin Forms, Admit(x)
  PROVE  QueueAtRest'
<1>0. /\ writer \in [Deliveries -> Writers] /\ queue \in Seq(Deliveries) /\ First \in Deliveries
      /\ Pump(Append(queue, x), drainer, pty, handoff, writer) /\ UNCHANGED <<pty, reports>>
  BY DEF QueueInv, QueueTypeOK, Deliveries, Admit
<1> DEFINE q == Append(queue, x)
<1>1. q \in Seq(Deliveries) /\ \A n \in 1..Len(q) : q[n] = x \/ (n \in 1..Len(queue) /\ q[n] = queue[n])
  BY <1>0
<1> HIDE DEF q
<1>2. LoopTypes' /\ \A n \in 1..Len(queue') : \E m \in 1..Len(q) : queue'[n] = q[m]
  BY <1>0, <1>1, PumpRests DEF q, QueueAtRest, LoopTypes
<1>3. Pending(First)' => Pending(First)
  <2>1. Pending(First)' => Busy(writer, First) \/ \E n \in 1..Len(q) : q[n] = First
    BY <1>0, <1>1, PumpPending DEF q
  <2> QED BY <1>1, <2>1 DEF Pending
<1>4. FirstIsReportedOnce' BY <1>0, <1>3 DEF QueueAtRest, FirstIsReportedOnce, Unreported
<1>5. NoFormWaits' BY <1>0, <1>1, <1>2 DEF QueueAtRest, NoFormWaits
<1> QED BY <1>2, <1>4, <1>5 DEF QueueAtRest

LEMMA SpawnRests ==
  ASSUME QueueInv, QueueAtRest, NEW ds, SpawnPty(ds), ds = <<>> \/ (ds = <<First>> /\ Unseen(First))
  PROVE  QueueAtRest' /\ pty' # 0 /\ (ds = <<First>> => Pending(First)')
<1>0. /\ writer \in [Deliveries -> Writers] /\ queue \in Seq(Deliveries) /\ First \in Deliveries
      /\ Pump(queue \o ds, drainer, spawns + 1, FALSE, writer) /\ pty' = spawns + 1 /\ reports' = reports
      /\ spawns \in 0..MaxSpawns
  BY DEF QueueInv, QueueTypeOK, Deliveries, SpawnPty
<1>1. spawns \in Nat /\ Len(queue) \in Nat BY <1>0, LenProperties, QueueAssumption
<1> DEFINE q == queue \o ds
<1>2. /\ q \in Seq(Deliveries)
      /\ \A n \in 1..Len(q) : (ds # <<>> /\ q[n] = First) \/ (n \in 1..Len(queue) /\ q[n] = queue[n])
      /\ ds = <<First>> => \E n \in 1..Len(q) : q[n] = First
  <2>1. CASE ds = <<>>
    <3>1. q = queue /\ ds # <<First>> BY <1>0, <2>1
    <3> QED BY <1>0, <2>1, <3>1
  <2>2. CASE ds = <<First>>
    <3>1. q = Append(queue, First) BY <1>0, <1>1, <2>2
    <3> HIDE DEF q
    <3>2. /\ q \in Seq(Deliveries) /\ Len(q) = Len(queue) + 1 /\ q[Len(queue) + 1] = First
          /\ \A n \in 1..Len(queue) : q[n] = queue[n]
      BY <1>0, <1>1, <3>1, AppendFacts
    <3>3. \A n \in 1..Len(q) : n \in 1..Len(queue) \/ n = Len(queue) + 1 BY <1>1, <3>2
    <3>4. Len(queue) + 1 \in 1..Len(q) /\ ds # <<>> BY <1>1, <2>2, <3>2
    <3> QED BY <3>2, <3>3, <3>4
  <2> QED BY <2>1, <2>2
<1> HIDE DEF q
<1>3. LoopTypes' /\ \A n \in 1..Len(queue') : \E m \in 1..Len(q) : queue'[n] = q[m]
  BY <1>0, <1>2, PumpRests DEF q, QueueAtRest, LoopTypes
<1>4. pty' # 0 BY <1>0, <1>1
<1>5. FirstIsReportedOnce'
  <2>1. Pending(First)' => Busy(writer, First) \/ \E n \in 1..Len(q) : q[n] = First
    BY <1>0, <1>2, PumpPending DEF q
  <2>2. Pending(First)' => Pending(First) \/ Unseen(First) BY <1>2, <2>1 DEF Pending
  <2> QED BY <1>0, <2>2 DEF QueueAtRest, FirstIsReportedOnce, Unreported, Unseen
<1>6. ds = <<First>> => Pending(First)'
  <2> SUFFICES ASSUME ds = <<First>> PROVE Pending(First)' OBVIOUS
  <2>1. PICK n \in 1..Len(q) : q[n] = First BY <1>2
  <2>2. CASE q # <<>> /\ queue' = Tail(q) /\ drainer' = q[1] /\ n = 1
    <3>1. drainer' = First /\ First # Idle BY <1>0, <2>1, <2>2, PromptAssumption
    <3> QED BY <1>3, <3>1 DEF LoopTypes, Pending, Busy
  <2>3. CASE q # <<>> /\ queue' = Tail(q) /\ n # 1
    <3>1. n - 1 \in 1..Len(Tail(q)) /\ Tail(q)[n - 1] = q[n] BY <1>2, <2>1, <2>3, TailFacts
    <3> QED BY <2>1, <2>3, <3>1 DEF Pending
  <2>4. CASE queue' = q BY <2>1, <2>4 DEF Pending
  <2>5. q # <<>> => Head(q) = q[1] BY <1>2, TailFacts
  <2> QED BY <1>0, <2>2, <2>3, <2>4, <2>5 DEF Pump, q
<1> QED BY <1>3, <1>4, <1>5, <1>6 DEF QueueAtRest, NoFormWaits

LEMMA LossRests ==
  ASSUME QueueInv, QueueAtRest, Discard \/ ForgetQueue \/ UNCHANGED <<pty, queue, drainer, writer, reports>>
  PROVE  QueueAtRest'
<1>0. /\ First \in Deliveries \ Users /\ reports \in [Deliveries -> Seq(Outcomes)]
      /\ reports[First] \in Seq(Outcomes) /\ 1..Len(<<>>) = {}
  BY PromptAssumption DEF QueueInv, QueueTypeOK, Deliveries
<1>1. CASE Discard
  <2>1. queue' = <<>> /\ drainer' = Idle /\ writer' = writer /\ reports' = Reported(reports, ToSet(queue), "unknown")
    BY <1>1 DEF Discard
  <2>2. Pending(First)' => Busy(writer, First) BY <1>0, <2>1 DEF Pending, Busy
  <2>3. CASE First \in ToSet(queue)
    <3>1. \E n \in 1..Len(queue) : queue[n] = First
      BY <2>3 DEF QueueInv, QueueTypeOK, ToSet
    <3>2. reports[First] = <<>> BY <3>1 DEF QueueAtRest, FirstIsReportedOnce, Unreported, Pending
    <3>3. reports'[First] = <<"unknown">> BY <1>0, <2>1, <2>3, <3>2 DEF Reported
    <3>4. ~Busy(writer, First) BY <3>1, BusyIsNotQueued
    <3>5. FirstIsReportedOnce' BY <2>2, <3>3, <3>4 DEF FirstIsReportedOnce, Unreported
    <3> QED BY <1>0, <2>1, <3>5 DEF QueueAtRest, LoopTypes, NoFormWaits
  <2>4. CASE First \notin ToSet(queue)
    <3>1. reports'[First] = reports[First] BY <1>0, <2>1, <2>4 DEF Reported
    <3> QED BY <1>0, <2>1, <2>2, <3>1 DEF QueueAtRest, LoopTypes, FirstIsReportedOnce, Unreported, NoFormWaits, Pending
  <2> QED BY <2>3, <2>4
<1>2. CASE ForgetQueue
  <2>1. queue' = <<>> /\ drainer' = Idle /\ writer'[First] = Off /\ reports' = reports BY <1>0, <1>2 DEF ForgetQueue
  <2>2. ~Pending(First)' BY <1>0, <2>1 DEF Pending, Busy, Off
  <2> QED BY <1>0, <2>1, <2>2 DEF QueueAtRest, LoopTypes, FirstIsReportedOnce, Unreported, NoFormWaits
<1>3. CASE UNCHANGED <<pty, queue, drainer, writer, reports>>
  BY <1>3 DEF QueueAtRest, LoopTypes, FirstIsReportedOnce, Unreported, NoFormWaits, Pending, Busy
<1> QED BY <1>1, <1>2, <1>3

LEMMA TypingRests ==
  ASSUME QueueInv, QueueAtRest, NEW x \in Deliveries, Typing(x)
  PROVE  QueueAtRest'
<1>0. /\ First \in Deliveries \ Users /\ reports \in [Deliveries -> Seq(Outcomes)]
      /\ reports[First] \in Seq(Outcomes) /\ pty' = pty
      /\ writer \in [Deliveries -> Writers] /\ queue \in Seq(Deliveries)
      /\ drainer \in Deliveries \cup {Idle}
  BY PromptAssumption DEF QueueInv, QueueTypeOK, Deliveries, Typing
<1>1. /\ Busy(writer, x)
      /\ \/ \E o \in Outcomes : Finish(x, o)
         \/ \E stage \in Stages : GoOn(x, stage)
  <2>1. \A stage \in Stages : At(x, stage) => Busy(writer, x) BY DEF Stages, At, Busy
  <2> QED BY <2>1 DEF Typing, SeesAnotherProcess, WriteBody, NeverReady, BodyArrives, BodyIsLost,
       PressEnter, TextIsGone, TextIsStillThere, WriteThrows, Stages, Outcomes, At, Busy
<1>2. ASSUME NEW o \in Outcomes, Finish(x, o) PROVE QueueAtRest'
  <2> DEFINE w == [writer EXCEPT ![x] = Off]
             busy == IF drainer = x THEN Idle ELSE drainer
  <2>1. /\ w \in [Deliveries -> Writers] /\ (\A d \in Deliveries : d # x => w[d] = writer[d]) /\ ~Busy(w, x)
    BY <1>0 DEF Writers, Off, Busy
  <2>2. busy # Idle => Busy(w, busy)
    BY <1>0, <2>1 DEF QueueAtRest, LoopTypes, Busy
  <2>3. \/ Pump(queue, busy, pty, handoff, w)
        \/ queue' = queue /\ drainer' = busy /\ writer' = w
    BY <1>2 DEF Finish
  <2> HIDE DEF w, busy
  <2>4. LoopTypes' /\ \A n \in 1..Len(queue') : \E m \in 1..Len(queue) : queue'[n] = queue[m]
    BY <1>0, <2>1, <2>2, <2>3, PumpRests DEF LoopTypes, Busy
  <2>5. Pending(First)' => Busy(w, First) \/ \E n \in 1..Len(queue) : queue[n] = First
    <3>1. First \in Deliveries BY <1>0
    <3>2. CASE Pump(queue, busy, pty, handoff, w)
      <4> SUFFICES ASSUME Pending(First)' PROVE Busy(w, First) \/ \E n \in 1..Len(queue) : queue[n] = First
        OBVIOUS
      <4>1. queue \in Seq(Deliveries) /\ w \in [Deliveries -> Writers] BY <1>0, <2>1
      <4> QED BY <3>1, <3>2, <4>1, PumpPending
    <3>3. CASE queue' = queue /\ writer' = w BY <3>3 DEF Pending, Busy
    <3> QED BY <2>3, <3>2, <3>3
  <2>6. FirstIsReportedOnce'
    <3>1. CASE x = First
      <4>1. reports[First] = <<>> BY <1>1, <3>1 DEF QueueAtRest, FirstIsReportedOnce, Unreported, Pending
      <4>2. reports'[First] = <<o>> BY <1>0, <1>2, <3>1, <4>1 DEF Finish, Reported
      <4>3. ~Pending(First)' BY <1>1, <2>1, <2>5, <3>1, BusyIsNotQueued
      <4> QED BY <4>2, <4>3 DEF FirstIsReportedOnce, Unreported
    <3>2. CASE x # First
      <4>1. reports'[First] = reports[First] BY <1>0, <1>2, <3>2 DEF Finish, Reported
      <4>2. Pending(First)' => Pending(First) BY <1>0, <2>1, <2>5, <3>2 DEF Pending, Busy
      <4> QED BY <4>1, <4>2 DEF QueueAtRest, FirstIsReportedOnce, Unreported
    <3> QED BY <3>1, <3>2
  <2>7. NoFormWaits' BY <1>0, <2>4 DEF QueueAtRest, NoFormWaits
  <2> QED BY <2>4, <2>6, <2>7 DEF QueueAtRest
<1>3. ASSUME NEW stage \in Stages, GoOn(x, stage) PROVE QueueAtRest'
  <2>1. queue' = queue /\ reports' = reports /\ drainer' = drainer BY <1>3 DEF GoOn
  <2>2. (\A d \in Deliveries : d # x => writer'[d] = writer[d]) /\ writer'[x].at = stage /\ stage # "off"
    BY <1>0, <1>3 DEF GoOn, Writers, Off, Stages
  <2>3. LoopTypes' BY <1>0, <2>1, <2>2, PromptAssumption DEF QueueAtRest, LoopTypes, Busy
  <2>4. Pending(First)' => Pending(First) BY <1>0, <1>1, <2>1, <2>2 DEF Pending, Busy
  <2> QED BY <1>0, <2>1, <2>3, <2>4 DEF QueueAtRest, FirstIsReportedOnce, Unreported, NoFormWaits
<1> QED BY <1>1, <1>2, <1>3
=============================================================================
