------------------------------ MODULE Dialogue ------------------------------
(***************************************************************************)
(* What the conversation promises, without tasks, keys or time: one block  *)
(* of messages is talked about at a time, first its client and then its    *)
(* priority, it becomes one ticket, and only then is it let go.            *)
(***************************************************************************)
EXTENDS Naturals

CONSTANTS Blocks,      \* the blocks of messages of one phone
          Nothing      \* no conversation; not a block

VARIABLES current,   \* the block being talked about
          step,      \* what was asked about it
          filed      \* how many tickets each block has

vars == <<current, step, filed>>

Init == current = Nothing /\ step = "client" /\ filed = [b \in Blocks |-> 0]

Open(b) == /\ current = Nothing /\ filed[b] = 0
           /\ current' = b
           /\ UNCHANGED <<step, filed>>

SettleClient == /\ current # Nothing /\ step = "client"
                /\ step' = "priority"
                /\ UNCHANGED <<current, filed>>

File == /\ current # Nothing /\ step = "priority"
        /\ filed[current] = 0
        /\ filed' = [filed EXCEPT ![current] = 1]
        /\ UNCHANGED <<current, step>>

LetGo == /\ current # Nothing
         /\ filed[current] = 1
         /\ current' = Nothing /\ step' = "client"
         /\ UNCHANGED filed

Next == (\E b \in Blocks : Open(b)) \/ SettleClient \/ File \/ LetGo

Spec == Init /\ [][Next]_vars
=============================================================================
