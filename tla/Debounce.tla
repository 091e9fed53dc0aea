------------------------------ MODULE Debounce ------------------------------
(***************************************************************************)
(* What the buffer promises, without keys, locks or time: messages wait,   *)
(* all that wait are handed over together, and a message leaves in no      *)
(* other way.                                                              *)
(***************************************************************************)
CONSTANT Messages

VARIABLES pending,     \* the open block
          delivered    \* what has reached on_close

vars == <<pending, delivered>>

Init == pending = {} /\ delivered = {}

Arrive(m) == /\ m \notin pending \cup delivered
             /\ pending' = pending \cup {m}
             /\ UNCHANGED delivered

CloseBlock == /\ pending # {}
              /\ delivered' = delivered \cup pending
              /\ pending' = {}

Next == (\E m \in Messages : Arrive(m)) \/ CloseBlock

Spec == Init /\ [][Next]_vars
=============================================================================
