-------------------------- MODULE MCChatContinuity --------------------------
(***************************************************************************)
(* ChatContinuity for TLC.                                                 *)
(***************************************************************************)
EXTENDS ChatContinuity, TLC

\* Nodes differ only by name, and so do inputs.
NodeSymmetry == Permutations(Nodes)
TurnSymmetry == Permutations(Turns)

\* Bound of a run with two nodes and a change of configuration: the chat is changed only
\* after its first claim (a change before it renames the revisions), and not together
\* with reboots of both nodes.
OneReboot == Cardinality({n \in Nodes : node[n].boot > 1}) <= 1
ChangeBound == chat.cfg = 1 \/ (chat.epoch > 0 /\ OneReboot)
=============================================================================
