----------------------------- MODULE ChatTurns -----------------------------
(***************************************************************************)
(* What a chat promises of the inputs posted to it: they are handed to      *)
(* providers in posting order, each at most once, and only an input that    *)
(* was certainly not handed over goes back to the queue.                    *)
(***************************************************************************)
EXTENDS Naturals

CONSTANT Turns

VARIABLES
  state,     \* what the user sees of each input
  ord,       \* posting order; 0 before the input is posted
  barred,    \* inputs past the point of no return
  submitted  \* inputs a provider has received

vars == <<state, ord, barred, submitted>>

Settled == {"completed", "error"}

Init ==
  /\ state = [t \in Turns |-> "absent"]
  /\ ord = [t \in Turns |-> 0]
  /\ barred = {} /\ submitted = {}

Move(t, from, to) == state[t] = from /\ state' = [state EXCEPT ![t] = to]

Post(t) ==
  /\ Move(t, "absent", "queued")
  /\ \A u \in Turns : ord[u] < ord'[t]
  /\ ord' = [ord EXCEPT ![t] = ord'[t]]
  /\ UNCHANGED <<barred, submitted>>

Start(t) ==
  /\ Move(t, "queued", "running")
  /\ UNCHANGED <<ord, barred, submitted>>

Bar(t) ==
  /\ state[t] = "running" /\ t \notin barred
  /\ barred' = barred \cup {t}
  /\ UNCHANGED <<state, ord, submitted>>

Submit(t) ==
  /\ t \in barred \ submitted
  /\ \A u \in Turns : ord[u] # 0 /\ ord[u] < ord[t] => state[u] \in Settled
  /\ submitted' = submitted \cup {t}
  /\ UNCHANGED <<state, ord, barred>>

Requeue(t) ==
  /\ t \notin barred /\ Move(t, "running", "queued")
  /\ UNCHANGED <<ord, barred, submitted>>

Settle(t) ==
  /\ \/ Move(t, "running", "error")
     \/ t \in submitted /\ Move(t, "running", "completed")
  /\ UNCHANGED <<ord, barred, submitted>>

Next == \E t \in Turns :
  Post(t) \/ Start(t) \/ Bar(t) \/ Submit(t) \/ Requeue(t) \/ Settle(t)

Spec == Init /\ [][Next]_vars
=============================================================================
