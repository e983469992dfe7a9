-------------------------- MODULE MCWebhookOutbox --------------------------
(* Instances of WebhookOutbox for TLC. *)
EXTENDS WebhookOutbox

CONSTANTS m1, a, b, pa, pb, ha

MCMerchantOf == [e \in Events |-> m1]
MCInstanceOf == [w \in Workers |-> IF w = pb THEN b ELSE a]
=============================================================================
