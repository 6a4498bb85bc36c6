-------------------------- MODULE DeliveryPromise --------------------------
(***************************************************************************)
(* What reliable delivery promises, without saying how: a delivery that is *)
(* made ends at most once, is reported processed only after the CLI has    *)
(* got it or its sender an answer, and the CLI gets nothing that was not   *)
(* handed over.                                                            *)
(***************************************************************************)
CONSTANT Ids

VARIABLES
  outcome,     \* of each delivery: none, open, processed or dead
  handled      \* deliveries the CLI has got, or whose sender has an answer

Init == /\ outcome = [d \in Ids |-> "none"]
        /\ handled = {}

\* The sweep of the hub gives up any number of deliveries in one transaction,
\* so a step may move several deliveries, each along one of these edges.
Moves(d) ==
  \/ outcome'[d] = outcome[d]
  \/ outcome[d] = "none" /\ outcome'[d] = "open"
  \/ outcome[d] = "open" /\ outcome'[d] = "dead"
  \/ outcome[d] = "open" /\ outcome'[d] = "processed" /\ d \in handled

Next == /\ \A d \in Ids : Moves(d)
        /\ handled \subseteq handled'
        /\ \A d \in handled' \ handled : outcome[d] # "none"

Spec == Init /\ [][Next]_<<outcome, handled>>
=============================================================================
