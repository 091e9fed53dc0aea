----------------------------- MODULE MCPipeline -----------------------------
(* Pipeline on a small instance: one payload of two messages. *)
EXTENDS Pipeline, TLC

CONSTANTS a, b

SomePayloads == {<<a, b>>}
=============================================================================
