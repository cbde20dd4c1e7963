--------------------------- MODULE MCSubscription ---------------------------
(* Instances of Subscription for TLC. *)
EXTENDS Subscription

AllKinds == {"filter", "writer", "store"}

=============================================================================
