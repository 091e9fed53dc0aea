--------------------------- MODULE MCWebhookIntake ---------------------------
(* WebhookIntake on small instances: one payload of a single message, one  *)
(* of two, and one whose second message comes from nobody on the whitelist.*)
EXTENDS WebhookIntake

CONSTANTS a, b, c, x

SomePayloads == {<<a>>, <<b, c>>, <<b, x>>}
OnePayload == {<<b, c>>}
=============================================================================
