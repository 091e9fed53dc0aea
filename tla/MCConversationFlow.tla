------------------------- MODULE MCConversationFlow -------------------------
(* ConversationFlow on small instances: inputs and timer names are         *)
(* interchangeable.                                                        *)
EXTENDS ConversationFlow, TLC

Symmetry == Permutations(Inputs) \cup Permutations(Timers)

(* A view for Flow, without what no action reads and the invariants it      *)
(* checks say nothing of but its type: the count of tickets and the replies. *)
ButTicketsAndReplies == <<stored, tasks, running, offered, rows, tried>>
=============================================================================
