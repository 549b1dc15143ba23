----------------------------- MODULE MCDelivery -----------------------------
(* Model checking of AttentionDelivery.                                           *)
EXTENDS AttentionDelivery
=============================================================================
