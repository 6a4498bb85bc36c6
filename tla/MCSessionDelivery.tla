------------------------ MODULE MCSessionDelivery ------------------------
(* Instances of SessionDelivery for TLC. *)
EXTENDS SessionDelivery

MCLeaseDelays == <<1>>

\* For runs of invariants that do not mention disturbed: no action reads it.
MCView == <<dlv, created, worker, cap, timers, linkVars, helperVars, crashVars>>
=============================================================================
