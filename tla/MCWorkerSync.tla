---------------------------- MODULE MCWorkerSync ----------------------------
(* WorkerSync on a small instance: two numbers, each always written the    *)
(* same way, one of them with the mobile "1".                              *)
EXTENDS WorkerSync

Stable == {<<"52", "n1">>, <<"521", "n2">>}
=============================================================================
