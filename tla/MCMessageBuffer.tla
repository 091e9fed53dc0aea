-------------------------- MODULE MCMessageBuffer --------------------------
(* MessageBuffer on small instances: the messages and the watcher tasks    *)
(* are interchangeable.                                                    *)
EXTENDS MessageBuffer, TLC

Symmetry == Permutations(Messages) \cup Permutations(Watchers)
=============================================================================
