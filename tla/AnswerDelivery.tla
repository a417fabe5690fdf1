--------------------------- MODULE AnswerDelivery ---------------------------
(***************************************************************************)
(* What is promised to the member who answers a form: the answer is typed  *)
(* to the session that asked at most once, or a new session begins with    *)
(* it; it ends as delivered, spawned or cancelled and stays so; only one   *)
(* that nobody has seen is cancelled, and one that has ended is not shown. *)
(***************************************************************************)
EXTENDS Naturals

CONSTANT ForNew   \* whether the form sends its answers to a new session

VARIABLES
  state,  \* what the member sees of the answer
  shown,  \* times it was typed to the session that asked
  begun   \* a new session lives that began with it

vars == <<state, shown, begun>>

Init == state = "none" /\ shown = 0 /\ begun = FALSE

Move(from, to) == state = from /\ state' = to /\ UNCHANGED <<shown, begun>>

Submit == Move("none", "pending")

Show ==
  /\ state = "pending" /\ ~ForNew /\ shown = 0
  /\ shown' = 1 /\ UNCHANGED <<state, begun>>

Begin ==
  /\ state = "pending" /\ ForNew /\ ~begun
  /\ begun' = TRUE /\ UNCHANGED <<state, shown>>

\* The new session ends with the server; another may begin with a pending answer.
Lose == begun /\ begun' = FALSE /\ UNCHANGED <<state, shown>>

\* An answer that was lost on its way counts as delivered: nobody can tell.
Deliver == ~ForNew /\ Move("pending", "delivered")
Spawn   == begun /\ Move("pending", "spawned")
Cancel  == shown = 0 /\ ~begun /\ Move("pending", "cancelled")

Next == Submit \/ Show \/ Begin \/ Lose \/ Deliver \/ Spawn \/ Cancel

Spec == Init /\ [][Next]_vars
=============================================================================
