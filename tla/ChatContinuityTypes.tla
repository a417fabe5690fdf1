------------------------ MODULE ChatContinuityTypes ------------------------
(***************************************************************************)
(* The inductive invariant of ChatContinuity, and the proof that every step*)
(* keeps the types of its variables.                                       *)
(***************************************************************************)
EXTENDS ChatContinuity, TLAPS

-----------------------------------------------------------------------------
(***************************************************************************)
(* The inductive invariant, part by part.                                  *)
(***************************************************************************)

\* A terminal that is recorded or about to be recorded has an event id.
HasEvent(x) ==
  x.cons \in {"record", "save"} \/ x.saved \/ x.pc \in {"sterm", "scomplete"} => x.ev # "none"
TerminalHasEvent == \A e \in Epochs :
  /\ HasEvent(exec[e])
  /\ exec[e].pc = "scomplete" => att[e].ev # "none"
  /\ att[e].proof \in {"completed", "failed"} => att[e].ev # "none"

\* Nothing exists for an epoch that has not come.
FutureIsEmpty == \A e \in Epochs : e > chat.epoch =>
  exec[e] = NoExec /\ att[e] = NoAttempt /\ prov[e] = NoSession

\* An ordinal is given once, when the post commits, and is below the next one; a
\* turn is not configured before.
OrdinalsAreUnique ==
  /\ chat.next # 0
  /\ \A t \in Turns :
       IF turn[t].st \in {"absent", "posting"} THEN turn[t].ord = 0 /\ turn[t].cfg = 0
       ELSE turn[t].ord # 0 /\ turn[t].ord < chat.next
  /\ \A t, u \in Turns : turn[t].ord # 0 /\ turn[t].ord = turn[u].ord => t = u

OneRunning == \A t \in Turns : turn[t].st = "running" =>
  /\ chat.phase \notin {"idle", "closing"}
  /\ \A u \in Turns : turn[u].st = "running" => u = t

\* A turn has a snapshot only once a seal of the current epoch gave it one.
SnapshotIsCurrent == \A t \in Turns :
  /\ turn[t].snap # 0 => turn[t].snap \in Epochs /\ att[turn[t].snap].turn = t
  /\ turn[t].st \in {"absent", "posting", "queued"} => turn[t].snap = 0
  /\ turn[t].st = "running" /\ chat.phase \in {"preparing", "opening"} => turn[t].snap = 0
  /\ turn[t].st = "running" /\ turn[t].snap # 0 => turn[t].snap = chat.epoch
  /\ turn[t].st = "running" /\ turn[t].snap # 0 /\ chat.phase \in {"prepared", "ready"}
       => att[turn[t].snap].phase = "prepared"

\* An attempt is for the turn, number and configuration its worker has, and the
\* worker has the input of that turn.
AttemptMatches == \A e \in Epochs :
  IF att[e].phase = "none" THEN att[e].turn = None
  ELSE /\ att[e].turn \in Turns
       /\ att[e].turn = exec[e].turn /\ att[e].no = exec[e].no
       /\ exec[e].input = exec[e].turn
       /\ att[e].cfg = turn[att[e].turn].cfg /\ att[e].cfg # 0

\* The phases of an attempt and the state of its turn.
AttemptPhase == \A e \in Epochs :
  /\ att[e].phase = "prepared" =>
       turn[att[e].turn].st = "running" /\ turn[att[e].turn].snap = e
  /\ att[e].phase \in {"dispatching", "accepted"} =>
       att[e].begun /\ turn[att[e].turn].st = "running"
  /\ att[e].begun => /\ att[e].phase \notin {"none", "prepared"}
                     /\ turn[att[e].turn].st \in Settled \cup {"running"}
                     /\ turn[att[e].turn].snap = e
  /\ att[e].proof = "not_sent" => ~att[e].begun /\ att[e].phase \notin {"none", "prepared"}

\* Only a begun attempt is submitted, with the input of its worker.
SubmissionIsBegun == \A e \in Epochs :
  /\ exec[e].call = "flying" \/ exec[e].pc = "submitting" => att[e].begun
  /\ prov[e].got # None => att[e].begun /\ prov[e].got = exec[e].input

\* A turn is given a configuration when all turns before it are settled.
ConfiguredInOrder == \A t, u \in Turns :
  turn[t].cfg # 0 /\ Precedes(u, t) => turn[u].st \in Settled

\* A worker has a turn, an input and a configuration; if the claim picked the
\* input of one turn and ran another, the turn that runs has no configuration.
ClaimMatches == \A e \in Epochs :
  IF exec[e].pc = "none" THEN exec[e] = NoExec
  ELSE /\ exec[e].turn \in Turns /\ exec[e].input \in Turns /\ exec[e].cfg # 0
       /\ chat.epoch = e /\ turn[exec[e].turn].st = "running"
            /\ exec[e].turn # exec[e].input => turn[exec[e].turn].cfg = 0

\* A live grant is the grant of the running turn's owner.
GrantOfOwner == \A e \in Epochs : grant[e] = "live" =>
  chat.epoch = e /\ exec[e].turn \in Turns /\ turn[exec[e].turn].st = "running"

\* The reconciliation recovers a row it has read.
RecoveryHasRow == \A n \in Nodes : node[n].rec = "recover" => node[n].row \in Turns

IInv ==
  /\ TypeOK /\ TerminalHasEvent /\ FutureIsEmpty /\ OrdinalsAreUnique /\ OneRunning
  /\ SnapshotIsCurrent /\ AttemptMatches /\ AttemptPhase /\ SubmissionIsBegun
  /\ ConfiguredInOrder /\ ClaimMatches /\ GrantOfOwner /\ RecoveryHasRow

-----------------------------------------------------------------------------
(***************************************************************************)
(* How a worker and its reader advance: they keep what the claim gave them. *)
(***************************************************************************)

\* y is x after a step that keeps the claim, records no terminal and submits nothing.
Kept(x, y) ==
  /\ y \in Execution /\ y.pc # "none" /\ HasEvent(y)
  /\ y.turn = x.turn /\ y.no = x.no /\ y.input = x.input /\ y.cfg = x.cfg
  /\ y.pc = "scomplete" => x.pc = "scomplete"
  /\ y.call = "flying" \/ y.pc = "submitting" => x.call = "flying" \/ x.pc = "submitting"

Keeps(e) ==
  exec[e].pc # "none" /\ exec' = [exec EXCEPT ![e] = exec'[e]] /\ Kept(exec[e], exec'[e])

\* A worker that does anything, or has a preparation or a reader, was started by a claim.
LEMMA Started ==
  ASSUME IInv, NEW e \in Epochs,
         exec[e].pc # "none" \/ exec[e].op # "none" \/ exec[e].cons # "off"
           \/ exec[e].call # "none"
  PROVE  /\ exec[e] \in Execution /\ exec[e].pc # "none" /\ HasEvent(exec[e])
         /\ exec[e].turn \in Turns /\ exec[e].input \in Turns
  BY DEF IInv, TypeOK, ClaimMatches, TerminalHasEvent, NoExec

\* A throw moves the worker only to a catch block or to its cleanup.
LEMMA KeptByThrow ==
  ASSUME NEW x \in Execution, x.pc # "none", HasEvent(x)
  PROVE  Kept(x, ThrowFrom(x))
<1>1. ThrowFrom(x) = [x EXCEPT !.pc = ThrowFrom(x).pc, !.ok = ThrowFrom(x).ok]
  BY DEF ThrowFrom, Execution
<1>2. ThrowFrom(x).pc \in {"fprep", "cleanup", "fclose"} /\ ThrowFrom(x).ok \in BOOLEAN
  BY DEF ThrowFrom, Execution
<1>3. ThrowFrom(x) \in Execution
  BY <1>1, <1>2 DEF Execution, Pcs, RunPcs
<1> QED BY <1>1, <1>2, <1>3 DEF Execution, Kept, HasEvent

\* The updates of a worker before and after its barrier, and of its cleanup.
LEMMA KeptByWorker ==
  ASSUME NEW x \in Execution, x.pc # "none", HasEvent(x)
  PROVE
  /\ \A pc \in {"begin", "await", "cleanup", "fparts", "release", "gone"} : Kept(x, [x EXCEPT !.pc = pc])
  /\ Kept(x, [x EXCEPT !.pc = "seal", !.gen = TRUE])
  /\ Kept(x, [x EXCEPT !.pc = "prepare", !.op = "prepare"])
  /\ \A ev \in Origins : Kept(x, [x EXCEPT !.pc = "sterm", !.ev = ev, !.saved = TRUE])
  /\ Kept(x, [x EXCEPT !.op = "none"])
  /\ Kept(x, [x EXCEPT !.launch = TRUE])
  /\ Kept(x, [x EXCEPT !.pc = "open", !.op = "open"])
  /\ Kept(x, [x EXCEPT !.pc = "recopen"])
  /\ \A pc \in {"accept", "await", "fclose"} : Kept(x, [x EXCEPT !.pc = pc, !.call = "over"])
  /\ \A c \in {"flying", "over"} : x.pc = "submitting" => Kept(x, [x EXCEPT !.pc = "fclose", !.call = c])
  /\ \A o \in Outcomes : Kept(x, [x EXCEPT !.pc = ToSettle(x), !.term = o])
  /\ Kept(x, [x EXCEPT !.pc = ToSettle(x), !.caught = TRUE])
  /\ Kept(x, [x EXCEPT !.pc = "fdone", !.seq = 1])
  /\ Kept(x, [x EXCEPT !.pc = "fcomplete", !.seq = 2])
<1>1. \A pc \in {"begin", "await", "cleanup", "fparts", "release", "gone"} : Kept(x, [x EXCEPT !.pc = pc])
  <2> SUFFICES ASSUME NEW pc \in {"begin", "await", "cleanup", "fparts", "release", "gone"} PROVE Kept(x, [x EXCEPT !.pc = pc])
    OBVIOUS
  <2> DEFINE y == [x EXCEPT !.pc = pc]
  <2>0. pc \in Pcs /\ pc \notin {"none", "scomplete", "sterm", "submitting"} BY DEF Pcs, PrePcs, RunPcs
  <2>1. y \in Execution BY <2>0 DEF Execution
  <2>2. y.turn = x.turn /\ y.no = x.no /\ y.input = x.input /\ y.cfg = x.cfg BY DEF Execution
  <2>3. y.pc # "none" /\ (y.pc = "scomplete" => x.pc = "scomplete")
        /\ (y.call = "flying" \/ y.pc = "submitting" => x.call = "flying" \/ x.pc = "submitting")
    BY <2>0 DEF Execution
  <2>4. HasEvent(y) BY <2>0 DEF Execution, HasEvent
  <2> QED BY <2>1, <2>2, <2>3, <2>4 DEF Kept
<1>2. Kept(x, [x EXCEPT !.pc = "seal", !.gen = TRUE])
  <2> DEFINE y == [x EXCEPT !.pc = "seal", !.gen = TRUE]
  <2>0. "seal" \in Pcs BY DEF Pcs, PrePcs, RunPcs
  <2>1. y \in Execution BY <2>0 DEF Execution
  <2>2. y.turn = x.turn /\ y.no = x.no /\ y.input = x.input /\ y.cfg = x.cfg BY DEF Execution
  <2>3. y.pc # "none" /\ (y.pc = "scomplete" => x.pc = "scomplete")
        /\ (y.call = "flying" \/ y.pc = "submitting" => x.call = "flying" \/ x.pc = "submitting")
    BY <2>0 DEF Execution
  <2>4. HasEvent(y) BY <2>0 DEF Execution, HasEvent
  <2> QED BY <2>1, <2>2, <2>3, <2>4 DEF Kept
<1>3. Kept(x, [x EXCEPT !.pc = "prepare", !.op = "prepare"])
  <2> DEFINE y == [x EXCEPT !.pc = "prepare", !.op = "prepare"]
  <2>0. "prepare" \in Pcs BY DEF Pcs, PrePcs, RunPcs
  <2>1. y \in Execution BY <2>0 DEF Execution
  <2>2. y.turn = x.turn /\ y.no = x.no /\ y.input = x.input /\ y.cfg = x.cfg BY DEF Execution
  <2>3. y.pc # "none" /\ (y.pc = "scomplete" => x.pc = "scomplete")
        /\ (y.call = "flying" \/ y.pc = "submitting" => x.call = "flying" \/ x.pc = "submitting")
    BY <2>0 DEF Execution
  <2>4. HasEvent(y) BY <2>0 DEF Execution, HasEvent
  <2> QED BY <2>1, <2>2, <2>3, <2>4 DEF Kept
<1>4. \A ev \in Origins : Kept(x, [x EXCEPT !.pc = "sterm", !.ev = ev, !.saved = TRUE])
  <2> SUFFICES ASSUME NEW ev \in Origins PROVE Kept(x, [x EXCEPT !.pc = "sterm", !.ev = ev, !.saved = TRUE])
    OBVIOUS
  <2> DEFINE y == [x EXCEPT !.pc = "sterm", !.ev = ev, !.saved = TRUE]
  <2>0. "sterm" \in Pcs /\ ev # "none" BY DEF Pcs, PrePcs, RunPcs, Origins
  <2>1. y \in Execution BY <2>0 DEF Execution
  <2>2. y.turn = x.turn /\ y.no = x.no /\ y.input = x.input /\ y.cfg = x.cfg BY DEF Execution
  <2>3. y.pc # "none" /\ (y.pc = "scomplete" => x.pc = "scomplete")
        /\ (y.call = "flying" \/ y.pc = "submitting" => x.call = "flying" \/ x.pc = "submitting")
    BY <2>0 DEF Execution
  <2>4. HasEvent(y) BY <2>0 DEF Execution, HasEvent
  <2> QED BY <2>1, <2>2, <2>3, <2>4 DEF Kept
<1>5. Kept(x, [x EXCEPT !.op = "none"])
  <2> DEFINE y == [x EXCEPT !.op = "none"]
  <2>1. y \in Execution BY DEF Execution
  <2>2. y.turn = x.turn /\ y.no = x.no /\ y.input = x.input /\ y.cfg = x.cfg BY DEF Execution
  <2>3. y.pc # "none" /\ (y.pc = "scomplete" => x.pc = "scomplete")
        /\ (y.call = "flying" \/ y.pc = "submitting" => x.call = "flying" \/ x.pc = "submitting")
    BY DEF Execution
  <2>4. HasEvent(y) BY DEF Execution, HasEvent
  <2> QED BY <2>1, <2>2, <2>3, <2>4 DEF Kept
<1>6. Kept(x, [x EXCEPT !.launch = TRUE])
  <2> DEFINE y == [x EXCEPT !.launch = TRUE]
  <2>1. y \in Execution BY DEF Execution
  <2>2. y.turn = x.turn /\ y.no = x.no /\ y.input = x.input /\ y.cfg = x.cfg BY DEF Execution
  <2>3. y.pc # "none" /\ (y.pc = "scomplete" => x.pc = "scomplete")
        /\ (y.call = "flying" \/ y.pc = "submitting" => x.call = "flying" \/ x.pc = "submitting")
    BY DEF Execution
  <2>4. HasEvent(y) BY DEF Execution, HasEvent
  <2> QED BY <2>1, <2>2, <2>3, <2>4 DEF Kept
<1>7. Kept(x, [x EXCEPT !.pc = "open", !.op = "open"])
  <2> DEFINE y == [x EXCEPT !.pc = "open", !.op = "open"]
  <2>0. "open" \in Pcs BY DEF Pcs, PrePcs, RunPcs
  <2>1. y \in Execution BY <2>0 DEF Execution
  <2>2. y.turn = x.turn /\ y.no = x.no /\ y.input = x.input /\ y.cfg = x.cfg BY DEF Execution
  <2>3. y.pc # "none" /\ (y.pc = "scomplete" => x.pc = "scomplete")
        /\ (y.call = "flying" \/ y.pc = "submitting" => x.call = "flying" \/ x.pc = "submitting")
    BY <2>0 DEF Execution
  <2>4. HasEvent(y) BY <2>0 DEF Execution, HasEvent
  <2> QED BY <2>1, <2>2, <2>3, <2>4 DEF Kept
<1>8. Kept(x, [x EXCEPT !.pc = "recopen"])
  <2> DEFINE y == [x EXCEPT !.pc = "recopen"]
  <2>0. "recopen" \in Pcs BY DEF Pcs, PrePcs, RunPcs
  <2>1. y \in Execution BY <2>0 DEF Execution
  <2>2. y.turn = x.turn /\ y.no = x.no /\ y.input = x.input /\ y.cfg = x.cfg BY DEF Execution
  <2>3. y.pc # "none" /\ (y.pc = "scomplete" => x.pc = "scomplete")
        /\ (y.call = "flying" \/ y.pc = "submitting" => x.call = "flying" \/ x.pc = "submitting")
    BY <2>0 DEF Execution
  <2>4. HasEvent(y) BY <2>0 DEF Execution, HasEvent
  <2> QED BY <2>1, <2>2, <2>3, <2>4 DEF Kept
<1>9. \A pc \in {"accept", "await", "fclose"} : Kept(x, [x EXCEPT !.pc = pc, !.call = "over"])
  <2> SUFFICES ASSUME NEW pc \in {"accept", "await", "fclose"} PROVE Kept(x, [x EXCEPT !.pc = pc, !.call = "over"])
    OBVIOUS
  <2> DEFINE y == [x EXCEPT !.pc = pc, !.call = "over"]
  <2>0. pc \in Pcs /\ pc \notin {"none", "scomplete", "sterm", "submitting"} BY DEF Pcs, PrePcs, RunPcs
  <2>1. y \in Execution BY <2>0 DEF Execution
  <2>2. y.turn = x.turn /\ y.no = x.no /\ y.input = x.input /\ y.cfg = x.cfg BY DEF Execution
  <2>3. y.pc # "none" /\ (y.pc = "scomplete" => x.pc = "scomplete")
        /\ (y.call = "flying" \/ y.pc = "submitting" => x.call = "flying" \/ x.pc = "submitting")
    BY <2>0 DEF Execution
  <2>4. HasEvent(y) BY <2>0 DEF Execution, HasEvent
  <2> QED BY <2>1, <2>2, <2>3, <2>4 DEF Kept
<1>10. \A c \in {"flying", "over"} : x.pc = "submitting" => Kept(x, [x EXCEPT !.pc = "fclose", !.call = c])
  <2> SUFFICES ASSUME NEW c \in {"flying", "over"}, x.pc = "submitting" PROVE Kept(x, [x EXCEPT !.pc = "fclose", !.call = c])
    OBVIOUS
  <2> DEFINE y == [x EXCEPT !.pc = "fclose", !.call = c]
  <2>0. "fclose" \in Pcs BY DEF Pcs, PrePcs, RunPcs
  <2>1. y \in Execution BY <2>0 DEF Execution
  <2>2. y.turn = x.turn /\ y.no = x.no /\ y.input = x.input /\ y.cfg = x.cfg BY DEF Execution
  <2>3. y.pc # "none" /\ (y.pc = "scomplete" => x.pc = "scomplete")
        /\ (y.call = "flying" \/ y.pc = "submitting" => x.call = "flying" \/ x.pc = "submitting")
    BY <2>0 DEF Execution
  <2>4. HasEvent(y) BY <2>0 DEF Execution, HasEvent
  <2> QED BY <2>1, <2>2, <2>3, <2>4 DEF Kept
<1>11. \A o \in Outcomes : Kept(x, [x EXCEPT !.pc = ToSettle(x), !.term = o])
  <2> SUFFICES ASSUME NEW o \in Outcomes PROVE Kept(x, [x EXCEPT !.pc = ToSettle(x), !.term = o])
    OBVIOUS
  <2> DEFINE y == [x EXCEPT !.pc = ToSettle(x), !.term = o]
  <2>0. ToSettle(x) \in Pcs \ {"none", "scomplete", "submitting"} BY DEF Pcs, PrePcs, RunPcs, ToSettle
  <2>1. y \in Execution BY <2>0 DEF Execution
  <2>2. y.turn = x.turn /\ y.no = x.no /\ y.input = x.input /\ y.cfg = x.cfg BY DEF Execution
  <2>3. y.pc # "none" /\ (y.pc = "scomplete" => x.pc = "scomplete")
        /\ (y.call = "flying" \/ y.pc = "submitting" => x.call = "flying" \/ x.pc = "submitting")
    BY <2>0 DEF Execution
  <2>4. HasEvent(y) BY <2>0 DEF Execution, HasEvent, ToSettle
  <2> QED BY <2>1, <2>2, <2>3, <2>4 DEF Kept
<1>12. Kept(x, [x EXCEPT !.pc = ToSettle(x), !.caught = TRUE])
  <2> DEFINE y == [x EXCEPT !.pc = ToSettle(x), !.caught = TRUE]
  <2>0. ToSettle(x) \in Pcs \ {"none", "scomplete", "submitting"} BY DEF Pcs, PrePcs, RunPcs, ToSettle
  <2>1. y \in Execution BY <2>0 DEF Execution
  <2>2. y.turn = x.turn /\ y.no = x.no /\ y.input = x.input /\ y.cfg = x.cfg BY DEF Execution
  <2>3. y.pc # "none" /\ (y.pc = "scomplete" => x.pc = "scomplete")
        /\ (y.call = "flying" \/ y.pc = "submitting" => x.call = "flying" \/ x.pc = "submitting")
    BY <2>0 DEF Execution
  <2>4. HasEvent(y) BY <2>0 DEF Execution, HasEvent, ToSettle
  <2> QED BY <2>1, <2>2, <2>3, <2>4 DEF Kept
<1>13. Kept(x, [x EXCEPT !.pc = "fdone", !.seq = 1])
  <2> DEFINE y == [x EXCEPT !.pc = "fdone", !.seq = 1]
  <2>0. "fdone" \in Pcs /\ 1 \in Numbers BY DEF Pcs, PrePcs, RunPcs, Numbers
  <2>1. y \in Execution BY <2>0 DEF Execution
  <2>2. y.turn = x.turn /\ y.no = x.no /\ y.input = x.input /\ y.cfg = x.cfg BY DEF Execution
  <2>3. y.pc # "none" /\ (y.pc = "scomplete" => x.pc = "scomplete")
        /\ (y.call = "flying" \/ y.pc = "submitting" => x.call = "flying" \/ x.pc = "submitting")
    BY <2>0 DEF Execution
  <2>4. HasEvent(y) BY <2>0 DEF Execution, HasEvent
  <2> QED BY <2>1, <2>2, <2>3, <2>4 DEF Kept
<1>14. Kept(x, [x EXCEPT !.pc = "fcomplete", !.seq = 2])
  <2> DEFINE y == [x EXCEPT !.pc = "fcomplete", !.seq = 2]
  <2>0. "fcomplete" \in Pcs /\ 2 \in Numbers BY DEF Pcs, PrePcs, RunPcs, Numbers
  <2>1. y \in Execution BY <2>0 DEF Execution
  <2>2. y.turn = x.turn /\ y.no = x.no /\ y.input = x.input /\ y.cfg = x.cfg BY DEF Execution
  <2>3. y.pc # "none" /\ (y.pc = "scomplete" => x.pc = "scomplete")
        /\ (y.call = "flying" \/ y.pc = "submitting" => x.call = "flying" \/ x.pc = "submitting")
    BY <2>0 DEF Execution
  <2>4. HasEvent(y) BY <2>0 DEF Execution, HasEvent
  <2> QED BY <2>1, <2>2, <2>3, <2>4 DEF Kept
<1> QED BY <1>1, <1>2, <1>3, <1>4, <1>5, <1>6, <1>7, <1>8, <1>9, <1>10, <1>11, <1>12, <1>13, <1>14

\* The updates of its reader.
LEMMA KeptByReader ==
  ASSUME NEW x \in Execution, x.pc # "none", HasEvent(x)
  PROVE
  /\ Kept(x, [x EXCEPT !.cons = "failed"])
  /\ \A k \in Numbers : Kept(x, [x EXCEPT !.cons = "record", !.ev = "adapter", !.num = k])
  /\ Kept(x, [x EXCEPT !.cons = "done", !.term = "lost"])
  /\ \A o \in Outcomes : x.ev # "none" => Kept(x, [x EXCEPT !.cons = "save", !.term = o])
  /\ \A b \in BOOLEAN : x.ev # "none" => Kept(x, [x EXCEPT !.cons = "done", !.saved = b])
<1>1. Kept(x, [x EXCEPT !.cons = "failed"])
  <2> DEFINE y == [x EXCEPT !.cons = "failed"]
  <2>1. y \in Execution BY DEF Execution
  <2>2. y.turn = x.turn /\ y.no = x.no /\ y.input = x.input /\ y.cfg = x.cfg BY DEF Execution
  <2>3. y.pc # "none" /\ (y.pc = "scomplete" => x.pc = "scomplete")
        /\ (y.call = "flying" \/ y.pc = "submitting" => x.call = "flying" \/ x.pc = "submitting")
    BY DEF Execution
  <2>4. HasEvent(y) BY DEF Execution, HasEvent
  <2> QED BY <2>1, <2>2, <2>3, <2>4 DEF Kept
<1>2. \A k \in Numbers : Kept(x, [x EXCEPT !.cons = "record", !.ev = "adapter", !.num = k])
  <2> SUFFICES ASSUME NEW k \in Numbers PROVE Kept(x, [x EXCEPT !.cons = "record", !.ev = "adapter", !.num = k])
    OBVIOUS
  <2> DEFINE y == [x EXCEPT !.cons = "record", !.ev = "adapter", !.num = k]
  <2>0. "adapter" \in Origins BY DEF Origins
  <2>1. y \in Execution BY <2>0 DEF Execution
  <2>2. y.turn = x.turn /\ y.no = x.no /\ y.input = x.input /\ y.cfg = x.cfg BY DEF Execution
  <2>3. y.pc # "none" /\ (y.pc = "scomplete" => x.pc = "scomplete")
        /\ (y.call = "flying" \/ y.pc = "submitting" => x.call = "flying" \/ x.pc = "submitting")
    BY <2>0 DEF Execution
  <2>4. HasEvent(y) BY <2>0 DEF Execution, HasEvent
  <2> QED BY <2>1, <2>2, <2>3, <2>4 DEF Kept
<1>3. Kept(x, [x EXCEPT !.cons = "done", !.term = "lost"])
  <2> DEFINE y == [x EXCEPT !.cons = "done", !.term = "lost"]
  <2>0. "lost" \in Outcomes BY DEF Outcomes
  <2>1. y \in Execution BY <2>0 DEF Execution
  <2>2. y.turn = x.turn /\ y.no = x.no /\ y.input = x.input /\ y.cfg = x.cfg BY DEF Execution
  <2>3. y.pc # "none" /\ (y.pc = "scomplete" => x.pc = "scomplete")
        /\ (y.call = "flying" \/ y.pc = "submitting" => x.call = "flying" \/ x.pc = "submitting")
    BY <2>0 DEF Execution
  <2>4. HasEvent(y) BY <2>0 DEF Execution, HasEvent
  <2> QED BY <2>1, <2>2, <2>3, <2>4 DEF Kept
<1>4. \A o \in Outcomes : x.ev # "none" => Kept(x, [x EXCEPT !.cons = "save", !.term = o])
  <2> SUFFICES ASSUME NEW o \in Outcomes, x.ev # "none" PROVE Kept(x, [x EXCEPT !.cons = "save", !.term = o])
    OBVIOUS
  <2> DEFINE y == [x EXCEPT !.cons = "save", !.term = o]
  <2>1. y \in Execution BY DEF Execution
  <2>2. y.turn = x.turn /\ y.no = x.no /\ y.input = x.input /\ y.cfg = x.cfg BY DEF Execution
  <2>3. y.pc # "none" /\ (y.pc = "scomplete" => x.pc = "scomplete")
        /\ (y.call = "flying" \/ y.pc = "submitting" => x.call = "flying" \/ x.pc = "submitting")
    BY DEF Execution
  <2>4. HasEvent(y) BY DEF Execution, HasEvent
  <2> QED BY <2>1, <2>2, <2>3, <2>4 DEF Kept
<1>5. \A b \in BOOLEAN : x.ev # "none" => Kept(x, [x EXCEPT !.cons = "done", !.saved = b])
  <2> SUFFICES ASSUME NEW b \in BOOLEAN, x.ev # "none" PROVE Kept(x, [x EXCEPT !.cons = "done", !.saved = b])
    OBVIOUS
  <2> DEFINE y == [x EXCEPT !.cons = "done", !.saved = b]
  <2>1. y \in Execution BY DEF Execution
  <2>2. y.turn = x.turn /\ y.no = x.no /\ y.input = x.input /\ y.cfg = x.cfg BY DEF Execution
  <2>3. y.pc # "none" /\ (y.pc = "scomplete" => x.pc = "scomplete")
        /\ (y.call = "flying" \/ y.pc = "submitting" => x.call = "flying" \/ x.pc = "submitting")
    BY DEF Execution
  <2>4. HasEvent(y) BY DEF Execution, HasEvent
  <2> QED BY <2>1, <2>2, <2>3, <2>4 DEF Kept
<1> QED BY <1>1, <1>2, <1>3, <1>4, <1>5
\* A step of the reader may be followed by a throw of its worker.
LEMMA KeptTransitive ==
  ASSUME NEW x, NEW y, NEW z, Kept(x, y), Kept(y, z)
  PROVE  Kept(x, z)
  BY DEF Kept

\* A call that returns, or loses its reply, keeps what the worker is for.
LEMMA ReturnsKeeps ==
  ASSUME IInv, NEW e \in Epochs, NEW y, exec[e].pc # "none", Kept(exec[e], y), Returns(e, y)
  PROVE  Keeps(e)
<1>1. Kept(exec[e], ThrowFrom(exec[e])) BY Started, KeptByThrow
<1>2. exec' = [exec EXCEPT ![e] = y] \/ exec' = [exec EXCEPT ![e] = ThrowFrom(exec[e])]
  BY DEF Returns, Throw
<1> QED BY <1>1, <1>2 DEF Keeps, IInv, TypeOK

\* So does a call that throws.
LEMMA ThrowKeeps ==
  ASSUME IInv, NEW e \in Epochs, exec[e].pc # "none", Throw(e)
  PROVE  Keeps(e)
<1>1. Kept(exec[e], ThrowFrom(exec[e])) BY Started, KeptByThrow
<1> QED BY <1>1 DEF Keeps, IInv, TypeOK, Throw

\* The database calls of a worker.
LEMMA CallsKeep ==
  ASSUME IInv, NEW e \in Epochs,
         \/ Reserve(e) \/ Seal(e) \/ RecordOpen(e) \/ Accept(e) \/ PersistTerminalPart(e)
         \/ SettleCompletes(e) \/ FailError(e) \/ FailDone(e) \/ FailCompletes(e)
         \/ FailPreparation(e) \/ PreparationFails(e) \/ CallFails(e)
  PROVE  Keeps(e)
<1>1. CASE Reserve(e)
  <2>1. exec[e].pc # "none" BY <1>1 DEF Reserve
  <2>2. Kept(exec[e], [exec[e] EXCEPT !.pc = "seal", !.gen = TRUE])
    BY <2>1, Started, KeptByWorker
  <2> QED BY <1>1, <2>1, <2>2, ReturnsKeeps DEF Reserve
<1>2. CASE Seal(e)
  <2>1. exec[e].pc # "none" BY <1>2 DEF Seal
  <2>2. Kept(exec[e], [exec[e] EXCEPT !.pc = "prepare", !.op = "prepare"])
    BY <2>1, Started, KeptByWorker
  <2> QED BY <1>2, <2>1, <2>2, ReturnsKeeps DEF Seal
<1>3. CASE RecordOpen(e)
  <2>1. exec[e].pc # "none" BY <1>3 DEF RecordOpen
  <2>2. Kept(exec[e], [exec[e] EXCEPT !.pc = "begin"])
    BY <2>1, Started, KeptByWorker
  <2> QED BY <1>3, <2>1, <2>2, ReturnsKeeps DEF RecordOpen
<1>4. CASE Accept(e)
  <2>1. exec[e].pc # "none" BY <1>4 DEF Accept
  <2>2. Kept(exec[e], [exec[e] EXCEPT !.pc = "await"])
    BY <2>1, Started, KeptByWorker
  <2> QED BY <1>4, <2>1, <2>2, ReturnsKeeps DEF Accept
<1>5. CASE SettleCompletes(e)
  <2>1. exec[e].pc # "none" BY <1>5 DEF SettleCompletes
  <2>2. Kept(exec[e], [exec[e] EXCEPT !.pc = "cleanup"])
    BY <2>1, Started, KeptByWorker
  <2> QED BY <1>5, <2>1, <2>2, ReturnsKeeps DEF SettleCompletes, Complete
<1>6. CASE FailError(e)
  <2>1. exec[e].pc # "none" BY <1>6 DEF FailError
  <2>2. Kept(exec[e], [exec[e] EXCEPT !.pc = "fdone", !.seq = 1])
    BY <2>1, Started, KeptByWorker
  <2> QED BY <1>6, <2>1, <2>2, ReturnsKeeps DEF FailError
<1>12. CASE FailDone(e)
  <2>1. exec[e].pc # "none" BY <1>12 DEF FailDone
  <2>2. Kept(exec[e], [exec[e] EXCEPT !.pc = "fcomplete", !.seq = 2])
    BY <2>1, Started, KeptByWorker
  <2> QED BY <1>12, <2>1, <2>2, ReturnsKeeps DEF FailDone
<1>7. CASE FailCompletes(e)
  <2>1. exec[e].pc # "none" BY <1>7 DEF FailCompletes
  <2>2. Kept(exec[e], [exec[e] EXCEPT !.pc = "cleanup"])
    BY <2>1, Started, KeptByWorker
  <2> QED BY <1>7, <2>1, <2>2, ReturnsKeeps DEF FailCompletes, Complete
<1>8. CASE FailPreparation(e)
  <2>1. exec[e].pc # "none" BY <1>8 DEF FailPreparation
  <2>2. Kept(exec[e], [exec[e] EXCEPT !.pc = "cleanup"])
    BY <2>1, Started, KeptByWorker
  <2> QED BY <1>8, <2>1, <2>2, ReturnsKeeps DEF FailPreparation
<1>9. CASE PersistTerminalPart(e)
  <2> DEFINE ev == IF exec[e].ev = "none" THEN "server" ELSE exec[e].ev
             y  == [exec[e] EXCEPT !.pc = "sterm", !.ev = ev, !.saved = TRUE]
  <2>1. exec[e].pc # "none" BY <1>9 DEF PersistTerminalPart
  <2>2. ev \in Origins BY <2>1, Started DEF Execution, Origins
  <2>3. Kept(exec[e], y) BY <2>1, <2>2, Started, KeptByWorker
  <2>4. Returns(e, y) BY <1>9 DEF PersistTerminalPart
  <2> QED BY <2>1, <2>3, <2>4, ReturnsKeeps
<1>10. CASE PreparationFails(e)
  BY <1>10, ThrowKeeps DEF PreparationFails
<1>11. CASE CallFails(e)
  BY <1>11, ThrowKeeps DEF CallFails
<1> QED BY <1>1, <1>2, <1>3, <1>4, <1>5, <1>6, <1>7, <1>8, <1>9, <1>10, <1>11, <1>12

\* Its waits on the adapter and its cleanup.
LEMMA StepsKeep ==
  ASSUME IInv, NEW e \in Epochs,
         PrepareEnds(e) \/ OpenEnds(e) \/ SubmitReturns(e) \/ Observed(e)
           \/ FailureClosed(e) \/ ReleaseLaunch(e)
  PROVE  Keeps(e)
<1> DEFINE x == exec[e]
<1>0. exec' = [exec EXCEPT ![e] = exec'[e]]
  BY DEF IInv, TypeOK, PrepareEnds, OpenEnds, SubmitReturns, Observed, FailureClosed, ReleaseLaunch
<1>1. x.pc # "none" /\ x \in Execution /\ HasEvent(x)
  BY Started DEF PrepareEnds, OpenEnds, SubmitReturns, Observed, FailureClosed, ReleaseLaunch
<1>2. SUFFICES Kept(x, exec'[e]) BY <1>0, <1>1 DEF Keeps
<1> DEFINE z == [x EXCEPT !.op = "none"]
           w == [z EXCEPT !.launch = TRUE]
<1>3. Kept(x, z) BY <1>1, KeptByWorker
<1>10. z \in Execution /\ z.pc # "none" /\ HasEvent(z) BY <1>3 DEF Kept
<1>11. Kept(x, ThrowFrom(z)) BY <1>3, <1>10, KeptByThrow, KeptTransitive
<1>4. CASE PrepareEnds(e)
  <2>0. Kept(z, w) BY <1>10, KeptByWorker
  <2>1. Kept(x, w) BY <1>3, <2>0, KeptTransitive
  <2>4. w \in Execution /\ w.pc # "none" /\ HasEvent(w) BY <2>1 DEF Kept
  <2>5. Kept(w, [w EXCEPT !.pc = "open", !.op = "open"]) BY <2>4, KeptByWorker
  <2>2. Kept(x, [w EXCEPT !.pc = "open", !.op = "open"]) BY <2>1, <2>5, KeptTransitive
  <2>3. exec'[e] \in {z, ThrowFrom(z), w, [w EXCEPT !.pc = "open", !.op = "open"]}
    BY <1>4 DEF PrepareEnds, IInv, TypeOK
  <2> QED BY <1>3, <1>11, <2>1, <2>2, <2>3
<1>5. CASE OpenEnds(e)
  <2>0. Kept(z, [z EXCEPT !.pc = "recopen"]) BY <1>10, KeptByWorker
  <2>1. Kept(x, [z EXCEPT !.pc = "recopen"]) BY <1>3, <2>0, KeptTransitive
  <2>2. exec'[e] \in {z, ThrowFrom(z), [z EXCEPT !.pc = "recopen"]}
    BY <1>5 DEF OpenEnds, IInv, TypeOK
  <2> QED BY <1>3, <1>11, <2>1, <2>2
<1>6. CASE SubmitReturns(e)
  <2>1. CASE \E pc \in {"accept", "await"} : exec'[e] = [x EXCEPT !.pc = pc, !.call = "over"]
    BY <1>1, <2>1, KeptByWorker
  <2>2. CASE \E c \in {"flying", "over"} : exec'[e] = [x EXCEPT !.pc = "fclose", !.call = c]
    BY <1>1, <1>6, <2>2, KeptByWorker DEF SubmitReturns
  <2> QED BY <1>6, <2>1, <2>2 DEF SubmitReturns, IInv, TypeOK
<1>7. CASE Observed(e)
  <2>1. IF x.cons = "failed" THEN exec'[e] = ThrowFrom(x)
        ELSE exec'[e] = [x EXCEPT !.pc = ToSettle(x), !.term = IF x.term = "none" THEN "lost" ELSE x.term]
    BY <1>7 DEF Observed, IInv, TypeOK
  <2>2. (IF x.term = "none" THEN "lost" ELSE x.term) \in Outcomes
    BY <1>1 DEF Execution, Outcomes
  <2>3. \A o \in Outcomes : Kept(x, [x EXCEPT !.pc = ToSettle(x), !.term = o])
    BY <1>1, KeptByWorker
  <2>4. Kept(x, ThrowFrom(x)) BY <1>1, KeptByThrow
  <2> QED BY <2>1, <2>2, <2>3, <2>4
<1>8. CASE FailureClosed(e)
  BY <1>1, <1>8, KeptByWorker DEF FailureClosed, IInv, TypeOK
<1>9. CASE ReleaseLaunch(e)
  BY <1>1, <1>9, KeptByWorker DEF ReleaseLaunch, IInv, TypeOK
<1> QED BY <1>4, <1>5, <1>6, <1>7, <1>8, <1>9

\* The steps of its reader.
LEMMA ReaderKeeps ==
  ASSUME IInv, NEW e \in Epochs, Consumer(e)
  PROVE  Keeps(e)
<1> DEFINE x == exec[e]
<1> USE DEF ConsumerFails, ConsumerReturns
<1>1. x.pc # "none" /\ x \in Execution /\ HasEvent(x)
  BY Started DEF Consumer, ConsumeAcceptance, ConsumeTerminal, ConsumeExit, ConsumerAborts,
                 ConsumerRecords, ConsumerSaves
<1>2. Kept(x, [x EXCEPT !.cons = "failed"]) BY <1>1, KeptByReader
<1>3. Kept(x, x) BY <1>1 DEF Kept
<1>4. CASE ConsumeAcceptance(e)
  <2>1. [x EXCEPT !.cons = "failed", !.term = x.term, !.saved = x.saved] = [x EXCEPT !.cons = "failed"]
    BY <1>1 DEF Execution
  <2> QED BY <1>1, <1>2, <1>3, <1>4, <2>1 DEF ConsumeAcceptance, Keeps, IInv, TypeOK
<1>5. CASE ConsumeTerminal(e)
  <2>1. x.seq \in Numbers BY <1>1 DEF Execution
  <2>2. Kept(x, [x EXCEPT !.cons = "record", !.ev = "adapter", !.num = x.seq])
    BY <1>1, <2>1, KeptByReader
  <2>3. exec' = [exec EXCEPT ![e] = [x EXCEPT !.cons = "record", !.ev = "adapter", !.num = x.seq]]
    BY <1>5 DEF ConsumeTerminal
  <2> QED BY <1>1, <2>2, <2>3 DEF Keeps, IInv, TypeOK
<1>6. CASE ConsumeExit(e)
  BY <1>1, <1>6, KeptByReader DEF ConsumeExit, Keeps, IInv, TypeOK
<1>7. CASE ConsumerAborts(e)
  BY <1>1, <1>2, <1>7 DEF ConsumerAborts, Keeps, IInv, TypeOK
<1>8. CASE ConsumerRecords(e)
  <2> DEFINE y == [x EXCEPT !.cons = "save", !.term = prov[e].out]
  <2>1. x.ev # "none" /\ prov[e].out \in Outcomes
    BY <1>1, <1>8 DEF ConsumerRecords, HasEvent, IInv, TypeOK, Session
  <2>2. Kept(x, y) BY <1>1, <2>1, KeptByReader
  <2>3. [y EXCEPT !.cons = "failed", !.term = x.term, !.saved = x.saved] = [x EXCEPT !.cons = "failed"]
    BY <1>1 DEF Execution
  <2> QED BY <1>1, <1>2, <1>8, <2>2, <2>3 DEF ConsumerRecords, Keeps, IInv, TypeOK
<1>9. CASE ConsumerSaves(e)
  <2> DEFINE y == [x EXCEPT !.cons = "done", !.saved = TRUE]
  <2>1. x.ev # "none" BY <1>1, <1>9 DEF ConsumerSaves, HasEvent
  <2>2. Kept(x, y) BY <1>1, <2>1, KeptByReader
  <2>3. [y EXCEPT !.cons = "failed", !.term = x.term, !.saved = x.saved] = [x EXCEPT !.cons = "failed"]
    BY <1>1 DEF Execution
  <2> QED BY <1>1, <1>2, <1>9, <2>2, <2>3 DEF ConsumerSaves, Keeps, IInv, TypeOK
<1> QED BY <1>4, <1>5, <1>6, <1>7, <1>8, <1>9 DEF Consumer
-----------------------------------------------------------------------------
(***************************************************************************)
(* Types.                                                                  *)
(***************************************************************************)

\* A worker that keeps its claim keeps its type.
LEMMA KeepsType ==
  ASSUME IInv, NEW e \in Epochs, Keeps(e)
  PROVE  exec' \in [Epochs -> Execution]
  BY DEF IInv, TypeOK, Keeps, Kept

\* A revocation leaves grants.
LEMMA RevokeType ==
  ASSUME TypeOK, NEW e \in Epochs
  PROVE  Revoke(e) \in [Epochs -> {"none", "live", "revoked"}]
  BY DEF TypeOK, Revoke

\* A fault is counted.
LEMMA FaultsType ==
  ASSUME TypeOK, UNCHANGED faults \/ Fault
  PROVE  faults' \in Nat
  BY DEF TypeOK, Fault

\* A stored part is one of an epoch, and an error or a `done` part.
LEMMA PartType ==
  ASSUME TypeOK, NEW t, NEW e \in Epochs, NEW o \in Kinds
  PROVE  [parts EXCEPT ![t] = @ \cup {<<e, o>>}] \in [Turns -> SUBSET (Epochs \X Kinds)]
<1>1. <<e, o>> \in Epochs \X Kinds OBVIOUS
<1> QED BY <1>1 DEF TypeOK

\* Clients and leases.
LEMMA PostingTypes ==
  ASSUME IInv, Posting \/ LeaseExpire
  PROVE  TypeOK'
<1>1. ASSUME NEW t \in Turns, PostBegin(t) PROVE TypeOK'
  <2>1. "posting" \in TurnStates BY DEF TurnStates
  <2>2. turn' \in [Turns -> TurnRow] BY <1>1, <2>1 DEF PostBegin, IInv, TypeOK, TurnRow
  <2> QED BY <1>1, <2>2 DEF PostBegin, IInv, TypeOK
<1>2. ASSUME NEW t \in Turns, NEW n \in Nodes, PostCommit(t, n) PROVE TypeOK'
  <2>0. "queued" \in TurnStates /\ chat.next \in Nat BY DEF TurnStates, IInv, TypeOK, ChatRow
  <2>1. turn' \in [Turns -> TurnRow]
    BY <1>2, <2>0 DEF PostCommit, IInv, TypeOK, TurnRow
  <2>2. chat' \in ChatRow BY <1>2 DEF PostCommit, IInv, TypeOK, ChatRow
  <2>3. node' \in [Nodes -> NodeState]
    <3>1. node \in [Nodes -> NodeState] BY DEF IInv, TypeOK
    <3>2. [node EXCEPT ![n].wake = TRUE] \in [Nodes -> NodeState] BY <3>1 DEF NodeState
    <3> QED BY <1>2, <3>1, <3>2 DEF PostCommit
  <2>4. faults' \in Nat BY <1>2 DEF PostCommit, IInv, TypeOK
  <2> QED BY <1>2, <2>1, <2>2, <2>3, <2>4 DEF PostCommit, IInv, TypeOK
<1>3. CASE SetConfiguration
  <2>1. chat' \in ChatRow BY <1>3, BoundAssumption DEF SetConfiguration, IInv, TypeOK, ChatRow
  <2> QED BY <1>3, <2>1 DEF SetConfiguration, IInv, TypeOK
<1>4. CASE LeaseExpire
  <2>1. chat' \in ChatRow BY <1>4 DEF LeaseExpire, IInv, TypeOK, ChatRow
  <2> QED BY <1>4, <2>1 DEF LeaseExpire, IInv, TypeOK
<1> QED BY <1>1, <1>2, <1>3, <1>4 DEF Posting

\* A claim stamps one turn, runs one, owns the chat and starts a worker.
LEMMA ClaimTypes ==
  ASSUME IInv, NEW n \in Nodes, NEW p \in Turns, NEW r \in Turns, ClaimTurn(n, p, r)
  PROVE  TypeOK'
<1> DEFINE e   == chat.epoch + 1
           cfg == ClaimConfiguration(p)
           trn == [turn EXCEPT ![p].cfg = cfg]
           x   == [NoExec EXCEPT !.node = n, !.turn = r, !.input = p, !.cfg = cfg,
                      !.no = turn'[p].no, !.pc = "reserve"]
<1>1. e \in Epochs /\ e \in 0..MaxEpoch
  BY BoundAssumption DEF ClaimTurn, Epochs, IInv, TypeOK, ChatRow
<1>2. cfg \in 0..MaxRev /\ cfg # 0
  BY BoundAssumption DEF ClaimConfiguration, IInv, TypeOK, ChatRow, TurnRow
<1>3. trn \in [Turns -> TurnRow] BY <1>2 DEF IInv, TypeOK, TurnRow
<1>4. turn' \in [Turns -> TurnRow]
  <2>1. turn' = [trn EXCEPT ![r].st = "running", ![r].no = @ + 1] BY DEF ClaimTurn
  <2>2. "running" \in TurnStates BY DEF TurnStates
  <2> QED BY <1>3, <2>1, <2>2 DEF TurnRow
<1>5. chat' \in ChatRow
  <2>1. node[n].boot \in 0..MaxBoot BY BoundAssumption DEF IInv, TypeOK, NodeState
  <2>2. "preparing" \in ChatPhases BY DEF ChatPhases
  <2>3. chat \in ChatRow /\ 0 \in 0..MaxEpoch BY BoundAssumption DEF IInv, TypeOK
  <2>4. chat' = [chat EXCEPT !.epoch = e, !.node = n, !.boot = node[n].boot,
                             !.lease = "held", !.phase = "preparing", !.active = 0]
    BY DEF ClaimTurn
  <2> QED BY <1>1, <2>1, <2>2, <2>3, <2>4 DEF ChatRow
<1>6. x \in Execution
  <2>1. turn'[p].no \in Nat BY <1>4 DEF TurnRow
  <2>2. {"none", "reserve"} \subseteq Pcs BY DEF Pcs, PrePcs
  <2>3. "none" \in Outcomes BY DEF Outcomes
  <2>4. 0 \in Numbers BY DEF Numbers
  <2> QED BY <1>2, <2>1, <2>2, <2>3, <2>4 DEF NoExec, Execution
<1>7. exec' \in [Epochs -> Execution] BY <1>6 DEF ClaimTurn, IInv, TypeOK
<1>8. node' \in [Nodes -> NodeState]
  <2>1. node \in [Nodes -> NodeState] BY DEF IInv, TypeOK
  <2>2. \A d \in {"run", "idle"} : [node EXCEPT ![n].drain = d] \in [Nodes -> NodeState]
    BY <2>1 DEF NodeState
  <2>3. \E d \in {"run", "idle"} : node' = [node EXCEPT ![n].drain = d] BY DEF ClaimTurn
  <2> QED BY <2>2, <2>3
<1>9. faults' \in Nat BY DEF ClaimTurn, IInv, TypeOK
<1> QED BY <1>4, <1>5, <1>7, <1>8, <1>9 DEF ClaimTurn, IInv, TypeOK

\* The drain loop of a node.
LEMMA DrainingTypes ==
  ASSUME IInv, NEW n \in Nodes, Draining(n)
  PROVE  TypeOK'
<1>1. CASE StartDrain(n) \/ ClaimNothing(n) \/ \E e \in Epochs : DrainReturns(n, e)
  <2>1. node' \in [Nodes -> NodeState]
    <3>1. node \in [Nodes -> NodeState] BY DEF IInv, TypeOK
    <3> QED BY <1>1, <3>1 DEF StartDrain, ClaimNothing, DrainReturns, NodeState
  <2>2. faults' \in Nat BY <1>1 DEF StartDrain, ClaimNothing, DrainReturns, IInv, TypeOK
  <2> QED BY <1>1, <2>1, <2>2 DEF StartDrain, ClaimNothing, DrainReturns, db, IInv, TypeOK
<1> QED BY <1>1, ClaimTypes DEF Draining
\* The rows a call of a worker writes.
LEMMA PhaseType ==
  ASSUME TypeOK, NEW ph \in ChatPhases
  PROVE  [chat EXCEPT !.phase = ph] \in ChatRow
  BY DEF TypeOK, ChatRow

\* A turn that only changes its state.
LEMMA TurnStateType ==
  ASSUME TypeOK, NEW t, NEW st \in TurnStates
  PROVE  [turn EXCEPT ![t].st = st] \in [Turns -> TurnRow]
  BY DEF TypeOK, TurnRow

\* The columns of an attempt that are written alone or in pairs.
LEMMA AttemptTypes ==
  ASSUME TypeOK, NEW e \in Epochs, NEW ph \in AttemptPhases, NEW pr \in Outcomes \cup {"not_sent"}
  PROVE  /\ [att EXCEPT ![e].phase = ph] \in [Epochs -> AttemptRow]
         /\ [att EXCEPT ![e].opened = TRUE] \in [Epochs -> AttemptRow]
         /\ [att EXCEPT ![e].phase = ph, ![e].begun = TRUE] \in [Epochs -> AttemptRow]
         /\ [att EXCEPT ![e].phase = ph, ![e].proof = pr] \in [Epochs -> AttemptRow]
<1> DEFINE a == att[e]
<1>1. att \in [Epochs -> AttemptRow] /\ a \in AttemptRow BY DEF TypeOK
<1>2. [a EXCEPT !.phase = ph] \in AttemptRow BY <1>1 DEF AttemptRow
<1>3. [a EXCEPT !.opened = TRUE] \in AttemptRow BY <1>1 DEF AttemptRow
<1>4. [a EXCEPT !.phase = ph, !.begun = TRUE] \in AttemptRow BY <1>1 DEF AttemptRow
<1>5. [a EXCEPT !.phase = ph, !.proof = pr] \in AttemptRow BY <1>1 DEF AttemptRow
<1>6. /\ [att EXCEPT ![e].phase = ph] = [att EXCEPT ![e] = [a EXCEPT !.phase = ph]]
      /\ [att EXCEPT ![e].opened = TRUE] = [att EXCEPT ![e] = [a EXCEPT !.opened = TRUE]]
      /\ [att EXCEPT ![e].phase = ph, ![e].begun = TRUE]
           = [att EXCEPT ![e] = [a EXCEPT !.phase = ph, !.begun = TRUE]]
      /\ [att EXCEPT ![e].phase = ph, ![e].proof = pr]
           = [att EXCEPT ![e] = [a EXCEPT !.phase = ph, !.proof = pr]]
  BY <1>1
<1> QED BY <1>1, <1>2, <1>3, <1>4, <1>5, <1>6

\* A recorded terminal.
LEMMA TerminalType ==
  ASSUME TypeOK, NEW e \in Epochs, NEW o \in Outcomes, RecordTerminal(e, o)
  PROVE  att' \in [Epochs -> AttemptRow]
<1> DEFINE a == att[e]
           b == [a EXCEPT !.proof = o, !.ev = exec[e].ev, !.num = exec[e].num]
<1>1. exec[e].ev \in Origins \cup {"none"} /\ exec[e].num \in Numbers BY DEF TypeOK, Execution
<1>2. att \in [Epochs -> AttemptRow] /\ a \in AttemptRow BY DEF TypeOK
<1>3. b \in AttemptRow BY <1>1, <1>2 DEF AttemptRow
<1>4. att' = [att EXCEPT ![e] = b] BY <1>2 DEF RecordTerminal
<1> QED BY <1>2, <1>3, <1>4

\* A call of a worker may use a fault.
LEMMA ReturnsFaults ==
  ASSUME IInv, NEW e, NEW y, Returns(e, y)
  PROVE  faults' \in Nat
  BY FaultsType DEF Returns, IInv

\* The steps of a worker up to its barrier.
LEMMA PreparingTypes ==
  ASSUME IInv, NEW e \in Epochs,
         \/ Reserve(e) \/ Seal(e) \/ RecordOpen(e) \/ Begin(e)
         \/ PrepareEnds(e) \/ OpenEnds(e) \/ PreparationFails(e)
  PROVE  TypeOK'
<1> USE DEF IInv
<1>1. CASE Reserve(e)
  <2>1. exec' \in [Epochs -> Execution] BY <1>1, CallsKeep, KeepsType
  <2>2. chat' \in ChatRow BY <1>1, PhaseType DEF Reserve, ChatPhases
  <2>3. binding' \in [Epochs -> Current \cup {"none", "retired"}]
    BY <1>1 DEF Reserve, RetireCurrent, TypeOK, Current
  <2>4. faults' \in Nat BY <1>1, ReturnsFaults DEF Reserve
  <2> QED BY <1>1, <2>1, <2>2, <2>3, <2>4 DEF Reserve, TypeOK
<1>2. CASE Seal(e)
  <2> DEFINE x == exec[e]
             a == [NoAttempt EXCEPT !.phase = "prepared", !.turn = x.turn, !.no = x.no, !.cfg = x.cfg]
  <2>1. exec' \in [Epochs -> Execution] BY <1>2, CallsKeep, KeepsType
  <2>2. a \in AttemptRow
    <3>1. "prepared" \in AttemptPhases /\ "none" \in Outcomes BY DEF AttemptPhases, Outcomes
    <3>2. x.turn \in Turns \cup {None} /\ x.no \in Nat /\ x.cfg \in 0..MaxRev BY DEF TypeOK, Execution
    <3>3. 0 \in Numbers BY DEF Numbers
    <3> QED BY <3>1, <3>2, <3>3 DEF NoAttempt, AttemptRow
  <2>3. att' \in [Epochs -> AttemptRow] BY <1>2, <2>2 DEF Seal, TypeOK
  <2>4. e \in 0..MaxEpoch BY BoundAssumption DEF Epochs
  <2>5. turn' \in [Turns -> TurnRow] BY <1>2, <2>4 DEF Seal, TypeOK, TurnRow
  <2>6. chat' \in ChatRow
    <3>1. "prepared" \in ChatPhases BY DEF ChatPhases
    <3> QED BY <1>2, <2>4, <3>1 DEF Seal, TypeOK, ChatRow
  <2>7. binding' \in [Epochs -> Current \cup {"none", "retired"}] BY <1>2 DEF Seal, TypeOK, Current
  <2>8. faults' \in Nat BY <1>2, ReturnsFaults DEF Seal
  <2> QED BY <1>2, <2>1, <2>3, <2>5, <2>6, <2>7, <2>8 DEF Seal, TypeOK
<1>3. CASE RecordOpen(e)
  <2>1. exec' \in [Epochs -> Execution] BY <1>3, CallsKeep, KeepsType
  <2>2. chat' \in ChatRow BY <1>3, PhaseType DEF RecordOpen, ChatPhases
  <2>3. att' \in [Epochs -> AttemptRow] BY <1>3, AttemptTypes DEF RecordOpen, AttemptPhases, Outcomes
  <2>4. faults' \in Nat BY <1>3, ReturnsFaults DEF RecordOpen
  <2> QED BY <1>3, <2>1, <2>2, <2>3, <2>4 DEF RecordOpen, TypeOK
<1>4. CASE Begin(e)
  <2>1. exec' \in [Epochs -> Execution]
    <3>1. exec[e] \in Execution /\ exec[e].pc # "none" /\ HasEvent(exec[e])
      BY <1>4, Started DEF Begin
    <3>2. {"submitting", "fclose"} \subseteq Pcs BY DEF Pcs, RunPcs
    <3>3. [exec[e] EXCEPT !.pc = "submitting", !.call = "flying", !.cons = "read"] \in Execution
      BY <3>1, <3>2 DEF Execution
    <3>4. [exec[e] EXCEPT !.pc = "fclose", !.cons = "read"] \in Execution BY <3>1, <3>2 DEF Execution
    <3>5. ThrowFrom(exec[e]) \in Execution BY <3>1, KeptByThrow DEF Kept
    <3>6. exec' = [exec EXCEPT ![e] = exec'[e]] /\ exec'[e] \in Execution
      BY <1>4, <3>3, <3>4, <3>5 DEF Begin, Returns, Throw, TypeOK
    <3> QED BY <3>6 DEF TypeOK
  <2>2. chat' \in ChatRow BY <1>4, PhaseType DEF Begin, ChatPhases
  <2>3. att' \in [Epochs -> AttemptRow] BY <1>4, AttemptTypes DEF Begin, AttemptPhases, Outcomes
  <2>4. faults' \in Nat BY <1>4, ReturnsFaults DEF Begin
  <2> QED BY <1>4, <2>1, <2>2, <2>3, <2>4 DEF Begin, TypeOK
<1>5. CASE PrepareEnds(e)
  <2>1. exec' \in [Epochs -> Execution] BY <1>5, StepsKeep, KeepsType
  <2>2. grant' \in [Epochs -> {"none", "live", "revoked"}]
    BY <1>5, RevokeType DEF PrepareEnds, TypeOK
  <2>3. faults' \in Nat BY <1>5, FaultsType DEF PrepareEnds
  <2> QED BY <1>5, <2>1, <2>2, <2>3 DEF PrepareEnds, TypeOK
<1>6. CASE OpenEnds(e)
  <2>1. exec' \in [Epochs -> Execution] BY <1>6, StepsKeep, KeepsType
  <2>2. prov' \in [Epochs -> Session] BY <1>6 DEF OpenEnds, TypeOK, Session
  <2> QED BY <1>6, <2>1, <2>2 DEF OpenEnds, db, TypeOK
<1>7. CASE PreparationFails(e)
  <2>1. exec' \in [Epochs -> Execution] BY <1>7, CallsKeep, KeepsType
  <2> QED BY <1>7, <2>1 DEF PreparationFails, db, TypeOK
<1> QED BY <1>1, <1>2, <1>3, <1>4, <1>5, <1>6, <1>7

\* The settlement of a turn by its owner.
LEMMA CompleteTypes ==
  ASSUME IInv, NEW e \in Epochs, NEW st \in TurnStates, NEW pr \in Outcomes,
         Complete(e, st, pr), Keeps(e)
  PROVE  TypeOK'
<1> USE DEF IInv
<1>1. exec' \in [Epochs -> Execution] BY KeepsType
<1>2. chat' \in ChatRow BY PhaseType DEF Complete, ChatPhases
<1>3. att' \in [Epochs -> AttemptRow] BY AttemptTypes DEF Complete, AttemptPhases
<1>4. turn' \in [Turns -> TurnRow] BY TurnStateType DEF Complete
<1>5. binding' \in [Epochs -> Current \cup {"none", "retired"}] BY DEF Complete, TypeOK
<1>6. grant' \in [Epochs -> {"none", "live", "revoked"}] BY RevokeType DEF Complete
<1>7. faults' \in Nat BY ReturnsFaults DEF Complete
<1> QED BY <1>1, <1>2, <1>3, <1>4, <1>5, <1>6, <1>7 DEF Complete, TypeOK
\* The two calls whose effect on their worker is not covered above.
LEMMA SettleRecordsExec ==
  ASSUME IInv, NEW e \in Epochs, SettleRecords(e)
  PROVE  /\ exec' \in [Epochs -> Execution] /\ exec[e].pc = "sterm"
         /\ \/ Keeps(e)
            \/ exec' = [exec EXCEPT ![e] = [exec[e] EXCEPT !.pc = "scomplete"]]
<1> DEFINE y == [exec[e] EXCEPT !.pc = "scomplete"]
<1>1. exec[e].pc = "sterm" BY DEF SettleRecords
<1>2. exec[e] \in Execution BY <1>1, Started
<1>3. "scomplete" \in Pcs BY DEF Pcs, RunPcs
<1>4. y \in Execution BY <1>2, <1>3 DEF Execution
<1>5. CASE exec' = [exec EXCEPT ![e] = y] BY <1>1, <1>4, <1>5 DEF IInv, TypeOK
<1>6. CASE Throw(e) BY <1>1, <1>6, ThrowKeeps, KeepsType
<1> QED BY <1>5, <1>6 DEF SettleRecords, Returns

\* A release is the last call of a worker, or is retried.
LEMMA ReleaseRuntimeExec ==
  ASSUME IInv, NEW e \in Epochs, ReleaseRuntime(e)
  PROVE  exec[e].pc = "release" /\ (Keeps(e) \/ exec' = exec)
<1>1. exec[e].pc = "release" BY DEF ReleaseRuntime
<1>2. Kept(exec[e], [exec[e] EXCEPT !.pc = "gone"]) BY <1>1, Started, KeptByWorker
<1> QED BY <1>1, <1>2 DEF ReleaseRuntime, Keeps, IInv, TypeOK

\* A chat without owner.
LEMMA FreedChatType ==
  ASSUME TypeOK
  PROVE  FreedChat \in ChatRow
<1>1. "idle" \in ChatPhases /\ 0 \in 0..MaxEpoch BY BoundAssumption DEF ChatPhases
<1> QED BY <1>1 DEF FreedChat, TypeOK, ChatRow

\* The steps of a worker past its barrier, and its cleanup.
LEMMA SettlingTypes ==
  ASSUME IInv, NEW e \in Epochs,
         \/ SubmitReturns(e) \/ Accept(e) \/ Observed(e) \/ FailureClosed(e)
         \/ PersistTerminalPart(e) \/ SettleRecords(e) \/ SettleCompletes(e)
         \/ FailError(e) \/ FailDone(e) \/ FailCompletes(e) \/ FailPreparation(e) \/ CallFails(e)
         \/ ReleaseLaunch(e) \/ ReleaseRuntime(e)
  PROVE  TypeOK'
<1> USE DEF IInv
<1>1. CASE SubmitReturns(e) \/ Observed(e) \/ FailureClosed(e)
  <2>1. exec' \in [Epochs -> Execution] BY <1>1, StepsKeep, KeepsType
  <2> QED BY <1>1, <2>1 DEF SubmitReturns, Observed, FailureClosed, db, TypeOK
<1>2. CASE Accept(e)
  <2>1. exec' \in [Epochs -> Execution] BY <1>2, CallsKeep, KeepsType
  <2>2. chat' \in ChatRow BY <1>2, PhaseType DEF Accept, RecordAcceptance, ChatPhases
  <2>3. att' \in [Epochs -> AttemptRow]
    BY <1>2, AttemptTypes DEF Accept, RecordAcceptance, AttemptPhases, Outcomes
  <2>4. faults' \in Nat BY <1>2, ReturnsFaults DEF Accept
  <2> QED BY <1>2, <2>1, <2>2, <2>3, <2>4 DEF Accept, RecordAcceptance, TypeOK
<1>3. CASE PersistTerminalPart(e)
  <2> DEFINE ev == IF exec[e].ev = "none" THEN "server" ELSE exec[e].ev
  <2>1. exec' \in [Epochs -> Execution] BY <1>3, CallsKeep, KeepsType
  <2>2. ev \in Kinds BY DEF Origins, Kinds, TypeOK, Execution
  <2>3. Append(e, ev) BY <1>3 DEF PersistTerminalPart
  <2>4. parts' \in [Turns -> SUBSET (Epochs \X Kinds)] BY <2>2, <2>3, PartType DEF Append
  <2>5. faults' \in Nat BY <1>3, ReturnsFaults DEF PersistTerminalPart
  <2> QED BY <1>3, <2>1, <2>4, <2>5 DEF PersistTerminalPart, TypeOK
<1>4. CASE SettleRecords(e)
  <2>1. exec' \in [Epochs -> Execution] BY <1>4, SettleRecordsExec
  <2>2. exec[e].term \in Outcomes BY DEF TypeOK, Execution
  <2>3. att' \in [Epochs -> AttemptRow] BY <1>4, <2>2, TerminalType DEF SettleRecords
  <2>4. faults' \in Nat BY <1>4, ReturnsFaults DEF SettleRecords
  <2> QED BY <1>4, <2>1, <2>3, <2>4 DEF SettleRecords, TypeOK
<1>5. CASE SettleCompletes(e)
  <2>1. exec[e].term \in Outcomes BY DEF TypeOK, Execution
  <2>2. {"completed", "error"} \subseteq TurnStates BY DEF TurnStates
  <2> QED BY <1>5, <2>1, <2>2, CallsKeep, CompleteTypes DEF SettleCompletes
<1>6. CASE FailError(e) \/ FailDone(e)
  <2>1. exec' \in [Epochs -> Execution] BY <1>6, CallsKeep, KeepsType
  <2>2. {"server", "error"} \subseteq Kinds BY DEF Kinds, Origins
  <2>3. parts' \in [Turns -> SUBSET (Epochs \X Kinds)]
    BY <1>6, <2>2, PartType DEF FailError, FailDone, Append
  <2>4. faults' \in Nat BY <1>6, ReturnsFaults DEF FailError, FailDone
  <2> QED BY <1>6, <2>1, <2>3, <2>4 DEF FailError, FailDone, TypeOK
<1>7. CASE FailCompletes(e)
  <2>1. "lost" \in Outcomes /\ "error" \in TurnStates BY DEF Outcomes, TurnStates
  <2> QED BY <1>7, <2>1, CallsKeep, CompleteTypes DEF FailCompletes
<1>8. CASE FailPreparation(e)
  <2> DEFINE s == turn[exec[e].turn].snap
  <2>1. exec' \in [Epochs -> Execution] BY <1>8, CallsKeep, KeepsType
  <2>2. chat' \in ChatRow BY <1>8, PhaseType DEF FailPreparation, ChatPhases
  <2>3. turn' \in [Turns -> TurnRow] BY <1>8, TurnStateType DEF FailPreparation, TurnStates
  <2>4. s = 0 \/ s \in Epochs
    <3>1. exec[e].turn \in Turns BY <1>8, Started DEF FailPreparation
    <3>2. s \in 0..MaxEpoch BY <3>1 DEF TypeOK, TurnRow
    <3> QED BY <3>2, BoundAssumption DEF Epochs
  <2>5. att' \in [Epochs -> AttemptRow]
    <3>1. "settled" \in AttemptPhases BY DEF AttemptPhases
    <3> QED BY <1>8, <2>4, <3>1, AttemptTypes DEF FailPreparation, TypeOK
  <2>6. binding' \in [Epochs -> Current \cup {"none", "retired"}] BY <1>8 DEF FailPreparation, TypeOK
  <2>7. grant' \in [Epochs -> {"none", "live", "revoked"}] BY <1>8, RevokeType DEF FailPreparation
  <2>8. faults' \in Nat BY <1>8, ReturnsFaults DEF FailPreparation
  <2> QED BY <1>8, <2>1, <2>2, <2>3, <2>5, <2>6, <2>7, <2>8 DEF FailPreparation, TypeOK
<1>9. CASE CallFails(e)
  <2>1. exec' \in [Epochs -> Execution] BY <1>9, CallsKeep, KeepsType
  <2>2. faults' \in Nat BY <1>9, FaultsType DEF CallFails
  <2> QED BY <1>9, <2>1, <2>2 DEF CallFails, db, TypeOK
<1>10. CASE ReleaseLaunch(e)
  <2>1. exec' \in [Epochs -> Execution] BY <1>10, StepsKeep, KeepsType
  <2>2. grant' \in [Epochs -> {"none", "live", "revoked"}]
    BY <1>10, RevokeType DEF ReleaseLaunch, TypeOK
  <2> QED BY <1>10, <2>1, <2>2 DEF ReleaseLaunch, TypeOK
<1>11. CASE ReleaseRuntime(e)
  <2>1. exec' \in [Epochs -> Execution] BY <1>11, ReleaseRuntimeExec, KeepsType DEF TypeOK
  <2>2. chat' \in ChatRow BY <1>11, FreedChatType DEF ReleaseRuntime, TypeOK
  <2>3. node' \in [Nodes -> NodeState]
    <3>1. node \in [Nodes -> NodeState] BY DEF TypeOK
    <3>2. [node EXCEPT ![exec[e].node].wake = TRUE] \in [Nodes -> NodeState] BY <3>1 DEF NodeState
    <3> QED BY <1>11, <3>1, <3>2 DEF ReleaseRuntime
  <2>4. faults' \in Nat BY <1>11, FaultsType DEF ReleaseRuntime
  <2> QED BY <1>11, <2>1, <2>2, <2>3, <2>4 DEF ReleaseRuntime, TypeOK
<1> QED BY <1>1, <1>2, <1>3, <1>4, <1>5, <1>6, <1>7, <1>8, <1>9, <1>10, <1>11

\* Grants, the reader and the provider.
LEMMA SessionTypes ==
  ASSUME IInv, NEW e \in Epochs, Mint(e) \/ Consumer(e) \/ Provider(e)
  PROVE  TypeOK'
<1> USE DEF IInv
<1>1. CASE Mint(e)
  BY <1>1 DEF Mint, TypeOK
<1>2. CASE Provider(e)
  <2>1. {"completed", "failed"} \subseteq Outcomes BY DEF Outcomes
  <2>2. exec[e].input \in Turns \cup {None} BY DEF TypeOK, Execution
  <2> DEFINE p == prov[e]
  <2>3. p \in Session BY DEF TypeOK
  <2>4. /\ [p EXCEPT !.got = exec[e].input] \in Session
        /\ [p EXCEPT !.alive = "exited"] \in Session
        /\ \A o \in {"completed", "failed"} : [p EXCEPT !.out = o] \in Session
    BY <2>1, <2>2, <2>3 DEF Session
  <2>5. CASE ProviderTakes(e)
    <3>1. prov' = [prov EXCEPT ![e] = [p EXCEPT !.got = exec[e].input]] BY <2>5 DEF ProviderTakes
    <3> QED BY <2>4, <2>5, <3>1 DEF ProviderTakes, db, TypeOK
  <2>6. CASE ProviderFinishes(e)
    <3>1. PICK o \in {"completed", "failed"} : prov' = [prov EXCEPT ![e] = [p EXCEPT !.out = o]]
      BY <2>6 DEF ProviderFinishes
    <3> QED BY <2>4, <2>6, <3>1 DEF ProviderFinishes, db, TypeOK
  <2>7. CASE ProviderExits(e)
    <3>1. prov' = [prov EXCEPT ![e] = [p EXCEPT !.alive = "exited"]] BY <2>7 DEF ProviderExits
    <3> QED BY <2>4, <2>7, <3>1 DEF ProviderExits, db, TypeOK
  <2> QED BY <1>2, <2>5, <2>6, <2>7 DEF Provider
<1>3. CASE Consumer(e)
  <2>1. exec' \in [Epochs -> Execution] BY <1>3, ReaderKeeps, KeepsType
  <2>2. CASE ConsumeTerminal(e)
    <3>1. "lost" \in Outcomes BY DEF Outcomes
    <3>2. prov' \in [Epochs -> Session] BY <2>2, <3>1 DEF ConsumeTerminal, TypeOK, Session
    <3> QED BY <2>1, <2>2, <3>2 DEF ConsumeTerminal, db, TypeOK
  <2>3. CASE ConsumeExit(e) \/ ConsumerAborts(e)
    <3>1. faults' \in Nat BY <2>3, FaultsType DEF ConsumeExit, ConsumerAborts
    <3> QED BY <2>1, <2>3, <3>1 DEF ConsumeExit, ConsumerAborts, db, TypeOK
  <2>4. CASE ConsumerRecords(e)
    <3>1. prov[e].out \in Outcomes BY DEF TypeOK, Session
    <3>2. att' \in [Epochs -> AttemptRow] BY <2>4, <3>1, TerminalType DEF ConsumerRecords, TypeOK
    <3>3. faults' \in Nat BY <2>4, FaultsType DEF ConsumerRecords, ConsumerReturns
    <3> QED BY <2>1, <2>4, <3>2, <3>3 DEF ConsumerRecords, TypeOK
  <2>5. CASE ConsumerSaves(e)
    <3>1. "adapter" \in Kinds BY DEF Kinds, Origins
    <3>2. parts' \in [Turns -> SUBSET (Epochs \X Kinds)]
      BY <2>5, <3>1, PartType DEF ConsumerSaves, Append, TypeOK
    <3>3. faults' \in Nat BY <2>5, FaultsType DEF ConsumerSaves, ConsumerReturns
    <3> QED BY <2>1, <2>5, <3>2, <3>3 DEF ConsumerSaves, TypeOK
  <2>6. CASE ConsumeAcceptance(e)
    <3>1. chat' \in ChatRow BY <2>6, PhaseType DEF ConsumeAcceptance, RecordAcceptance, ChatPhases
    <3>2. att' \in [Epochs -> AttemptRow]
      BY <2>6, AttemptTypes DEF ConsumeAcceptance, RecordAcceptance, AttemptPhases, Outcomes
    <3>3. faults' \in Nat BY <2>6, FaultsType DEF ConsumeAcceptance, ConsumerReturns
    <3> QED BY <2>1, <2>6, <3>1, <3>2, <3>3 DEF ConsumeAcceptance, RecordAcceptance, TypeOK
  <2> QED BY <1>3, <2>2, <2>3, <2>4, <2>5, <2>6 DEF Consumer
<1> QED BY <1>1, <1>2, <1>3
\* What every disposition of a recovery writes, besides the rows of the turn.
LEMMA FreedTypes ==
  ASSUME TypeOK, FreedByRecovery
  PROVE  /\ chat' \in ChatRow
         /\ binding' \in [Epochs -> Current \cup {"none", "retired"}]
         /\ grant' \in [Epochs -> {"none", "live", "revoked"}]
<1>1. chat' \in ChatRow
  <2>1. FreedChat \in ChatRow BY FreedChatType
  <2>2. chat.epoch + 1 \in 0..MaxEpoch BY BoundAssumption DEF FreedByRecovery, Epochs
  <2>3. chat' = [FreedChat EXCEPT !.epoch = chat.epoch + 1] BY DEF FreedByRecovery
  <2> QED BY <2>1, <2>2, <2>3 DEF ChatRow
<1>2. binding' \in [Epochs -> Current \cup {"none", "retired"}] BY DEF FreedByRecovery, TypeOK
<1>3. grant' \in [Epochs -> {"none", "live", "revoked"}] BY DEF FreedByRecovery, TypeOK
<1> QED BY <1>1, <1>2, <1>3

\* A turn that is queued again loses its snapshot.
LEMMA RequeueType ==
  ASSUME TypeOK, NEW t
  PROVE  [turn EXCEPT ![t].st = "queued", ![t].snap = 0] \in [Turns -> TurnRow]
<1>1. 0 \in 0..MaxEpoch /\ "queued" \in TurnStates BY BoundAssumption DEF TurnStates
<1> QED BY <1>1 DEF TypeOK, TurnRow

\* What a recovery writes to the rows of its turn.
LEMMA RecoverTypes ==
  ASSUME IInv, NEW t \in Turns, Recover(t)
  PROVE  /\ turn' \in [Turns -> TurnRow] /\ att' \in [Epochs -> AttemptRow]
         /\ parts' \in [Turns -> SUBSET (Epochs \X Kinds)]
<1> DEFINE s == turn[t].snap
<1> USE DEF IInv
<1>0. s = 0 \/ s \in Epochs
  <2>1. s \in 0..MaxEpoch BY DEF TypeOK, TurnRow
  <2> QED BY <2>1, BoundAssumption DEF Epochs
<1>1. CASE ReleaseSettled(t) BY <1>1 DEF ReleaseSettled, TypeOK
<1>2. CASE RetryPrepared(t)
  <2>1. turn' \in [Turns -> TurnRow] BY <1>2, RequeueType DEF RetryPrepared
  <2>2. "settled" \in AttemptPhases BY DEF AttemptPhases
  <2>3. att' \in [Epochs -> AttemptRow] BY <1>0, <1>2, <2>2, AttemptTypes DEF RetryPrepared, TypeOK
  <2> QED BY <1>2, <2>1, <2>3 DEF RetryPrepared, TypeOK
<1>3. CASE FinalizeTerminal(t)
  <2>1. s \in Epochs BY <1>0, <1>3 DEF FinalizeTerminal, HasTerminal
  <2>2. att[s].ev \in Origins
    <3>1. att[s].ev \in Origins \cup {"none"} BY <2>1 DEF TypeOK, AttemptRow
    <3>2. att[s].ev # "none" BY <1>3, <2>1 DEF FinalizeTerminal, HasTerminal, TerminalHasEvent
    <3> QED BY <3>1, <3>2
  <2>3. parts' \in [Turns -> SUBSET (Epochs \X Kinds)]
    BY <1>3, <2>1, <2>2, PartType DEF FinalizeTerminal, Kinds
  <2>4. turn' \in [Turns -> TurnRow]
    <3>1. {"completed", "error"} \subseteq TurnStates BY DEF TurnStates
    <3> QED BY <1>3, <3>1, TurnStateType DEF FinalizeTerminal
  <2>5. att' \in [Epochs -> AttemptRow]
    <3>1. "settled" \in AttemptPhases /\ "none" \in Outcomes BY DEF AttemptPhases, Outcomes
    <3> QED BY <1>3, <2>1, <3>1, AttemptTypes DEF FinalizeTerminal
  <2> QED BY <2>3, <2>4, <2>5
<1>4. CASE SettleUnknown(t)
  <2>1. turn' \in [Turns -> TurnRow] BY <1>4, TurnStateType DEF SettleUnknown, TurnStates
  <2>2. att' \in [Epochs -> AttemptRow]
    <3>1. "delivery_unknown" \in AttemptPhases /\ "none" \in Outcomes BY DEF AttemptPhases, Outcomes
    <3> QED BY <1>0, <1>4, <3>1, AttemptTypes DEF SettleUnknown, TypeOK
  <2> QED BY <1>4, <2>1, <2>2 DEF SettleUnknown, TypeOK
<1> QED BY <1>1, <1>2, <1>3, <1>4 DEF Recover

\* The reconciliation of a node, and its row.
LEMMA ScanTypes ==
  ASSUME IInv, NEW n \in Nodes, BootScan(n) \/ BootWake(n)
  PROVE  /\ node' \in [Nodes -> NodeState] /\ RecoveryHasRow'
         /\ UNCHANGED <<db, exec, prov, clock, faults>>
<1> USE DEF IInv
<1> DEFINE r == node[n]
<1>1. node \in [Nodes -> NodeState] /\ r \in NodeState BY DEF TypeOK
<1>2. [r EXCEPT !.rec = "wakeup"] \in NodeState BY <1>1 DEF NodeState
<1>3. \A t \in Turns : [r EXCEPT !.rec = "recover", !.row = t, !.no = turn[t].no] \in NodeState
  BY <1>1 DEF NodeState, TypeOK, TurnRow
<1>4. \A b \in BOOLEAN : [r EXCEPT !.rec = "done", !.wake = b] \in NodeState BY <1>1 DEF NodeState
<1>5. CASE BootScan(n)
  <2>1. CASE node' = [node EXCEPT ![n] = [r EXCEPT !.rec = "wakeup"]]
    BY <1>1, <1>2, <1>5, <2>1 DEF BootScan, RecoveryHasRow, NodeState
  <2>2. CASE \E t \in Turns : node' = [node EXCEPT ![n] =
                                 [r EXCEPT !.rec = "recover", !.row = t, !.no = turn[t].no]]
    <3>1. PICK t \in Turns : node' = [node EXCEPT ![n] =
                                 [r EXCEPT !.rec = "recover", !.row = t, !.no = turn[t].no]]
      BY <2>2
    <3>2. node' \in [Nodes -> NodeState] BY <1>1, <1>3, <3>1
    <3>3. RecoveryHasRow' BY <1>1, <3>1 DEF RecoveryHasRow, NodeState
    <3> QED BY <1>5, <3>2, <3>3 DEF BootScan
  <2> QED BY <1>5, <2>1, <2>2 DEF BootScan
<1>6. CASE BootWake(n)
  <2>1. PICK b \in BOOLEAN : node' = [node EXCEPT ![n] = [r EXCEPT !.rec = "done", !.wake = b]]
    <3> DEFINE b == r.wake \/ (Queued # {} /\ (chat.node \in {n, None} \/ chat.lease = "expired"))
    <3>1. b \in BOOLEAN BY <1>1 DEF NodeState
    <3> QED BY <1>6, <3>1 DEF BootWake
  <2>2. node' \in [Nodes -> NodeState] BY <1>1, <1>4, <2>1
  <2>3. RecoveryHasRow' BY <1>1, <2>1 DEF RecoveryHasRow, NodeState
  <2> QED BY <1>6, <2>2, <2>3 DEF BootWake
<1> QED BY <1>5, <1>6

\* The reconciliation of a node.
LEMMA BootTypes ==
  ASSUME IInv, NEW n \in Nodes, Boot(n)
  PROVE  TypeOK' /\ RecoveryHasRow'
<1> USE DEF IInv
<1>1. CASE BootScan(n) \/ BootWake(n)
  BY <1>1, ScanTypes DEF db, TypeOK
<1>2. CASE BootRecover(n)
  <2> DEFINE t == node[n].row
             r == node[n]
  <2>1. t \in Turns BY <1>2 DEF BootRecover, RecoveryHasRow
  <2>2. node' \in [Nodes -> NodeState] /\ RecoveryHasRow'
    <3>1. node \in [Nodes -> NodeState] /\ r \in NodeState BY DEF TypeOK
    <3>2. \A c \in {"wakeup", "done"} : [r EXCEPT !.rec = c, !.row = None, !.no = 0] \in NodeState
      BY <3>1 DEF NodeState
    <3>3. PICK c \in {"wakeup", "done"} :
            node' = [node EXCEPT ![n] = [r EXCEPT !.rec = c, !.row = None, !.no = 0]]
      BY <1>2 DEF BootRecover
    <3> QED BY <3>1, <3>2, <3>3 DEF RecoveryHasRow, NodeState
  <2>3. faults' \in Nat BY <1>2, FaultsType DEF BootRecover
  <2>4. CASE UNCHANGED db
    BY <1>2, <2>2, <2>3, <2>4 DEF BootRecover, db, TypeOK
  <2>5. CASE Recover(t)
    <3>1. FreedByRecovery BY <2>5 DEF Recover
    <3> QED BY <1>2, <2>1, <2>2, <2>3, <2>5, <3>1, RecoverTypes, FreedTypes DEF BootRecover, TypeOK
  <2> QED BY <1>2, <2>4, <2>5 DEF BootRecover, db
<1> QED BY <1>1, <1>2 DEF Boot

\* A worker that dies with its node.
Died(x) == [x EXCEPT !.pc = "gone", !.op = "none", !.call = "over", !.cons = "off"]

\* A node that dies and boots again.
LEMMA CrashTypes ==
  ASSUME IInv, NEW n \in Nodes, Crash(n)
  PROVE  TypeOK'
<1> USE DEF IInv
<1>1. exec' \in [Epochs -> Execution]
  <2>1. "gone" \in Pcs BY DEF Pcs
  <2>2. ASSUME NEW x \in Execution PROVE Died(x) \in Execution BY <2>1 DEF Died, Execution
  <2>3. exec' = [e \in Epochs |-> IF exec[e].node = n THEN Died(exec[e]) ELSE exec[e]]
    BY DEF Crash, Died
  <2> QED BY <2>2, <2>3 DEF TypeOK
<1>2. prov' \in [Epochs -> Session]
  <2>1. \A p \in Session : [p EXCEPT !.alive = "exited"] \in Session BY DEF Session
  <2> QED BY <2>1 DEF Crash, TypeOK
<1>3. node' \in [Nodes -> NodeState]
  <2> DEFINE r == [boot |-> node[n].boot + 1, drain |-> "idle", wake |-> FALSE,
                   rec |-> "scan", row |-> None, no |-> 0]
  <2>1. node[n].boot \in 1..MaxBoot BY DEF TypeOK, NodeState
  <2>2. node[n].boot < MaxBoot BY DEF Crash
  <2>3. node[n].boot + 1 \in 1..MaxBoot BY <2>1, <2>2, BoundAssumption
  <2>4. r \in NodeState BY <2>3 DEF NodeState
  <2>5. node' = [node EXCEPT ![n] = r] BY DEF Crash, TypeOK
  <2> QED BY <2>4, <2>5 DEF TypeOK
<1> QED BY <1>1, <1>2, <1>3 DEF Crash, db, TypeOK

\* Every step keeps the types.
LEMMA TypeStep ==
  ASSUME IInv, [Next]_vars
  PROVE  TypeOK'
<1>1. CASE UNCHANGED vars BY <1>1 DEF vars, IInv, TypeOK
<1>2. CASE Posting \/ LeaseExpire BY <1>2, PostingTypes
<1>3. ASSUME NEW n \in Nodes, Draining(n) \/ Boot(n) \/ Crash(n) PROVE TypeOK'
  BY <1>3, DrainingTypes, BootTypes, CrashTypes
<1>4. ASSUME NEW e \in Epochs, Worker(e) \/ Mint(e) \/ Consumer(e) \/ Provider(e) PROVE TypeOK'
  <2>1. CASE Mint(e) \/ Consumer(e) \/ Provider(e) BY <2>1, SessionTypes
  <2>2. CASE Worker(e) BY <2>2, PreparingTypes, SettlingTypes DEF Worker
  <2> QED BY <1>4, <2>1, <2>2
<1> QED BY <1>1, <1>2, <1>3, <1>4 DEF Next
=============================================================================
