--------------------------- MODULE DeliveryInbox ---------------------------
(***************************************************************************)
(* The durable inbox of the session helper: class DeliveryInbox of         *)
(* tools/sessionhelper/sessionhelper/inbox.py.  It survives a restart of   *)
(* the helper.  Every operation is one SQLite transaction under a lock,    *)
(* so each is one action.                                                  *)
(***************************************************************************)
EXTENDS Naturals, Sequences, FiniteSets, DeliveryTable

CONSTANT InboxCapacity      \* busy_buffer_max, at least 1

ASSUME InboxAssumption == InboxCapacity \in Nat \ {0}

VARIABLES
  inbox,      \* state of each delivery in the inbox, "none" if it has no row
  arrival     \* the deliveries in the order of their received_at

inboxVars == <<inbox, arrival>>

InboxState == {"none", "received", "processing", "processed", "failed"}

InboxTypeOK == /\ inbox \in [Ids -> InboxState]
               /\ arrival \in Seq(Ids)

InboxInit == /\ inbox = [d \in Ids |-> "none"]
             /\ arrival = <<>>

Unfinished == {d \in Ids : inbox[d] \in {"received", "processing"}}

\* accept: a new delivery is stored unless the inbox is full; a known one is
\* left alone, except that a failed one is received again when retryFailed.
AcceptNew(d) ==
  /\ inbox[d] = "none"
  /\ Cardinality(Unfinished) < InboxCapacity
  /\ inbox' = [inbox EXCEPT ![d] = "received"]
  /\ arrival' = Append(arrival, d)

AcceptFull(d) ==
  /\ inbox[d] = "none"
  /\ Cardinality(Unfinished) >= InboxCapacity
  /\ UNCHANGED inboxVars

\* Mutant: a repeated delivery is received again although it is being processed.
AcceptAfresh(d, retryFailed) ==
  /\ inbox[d] # "none"
  /\ inbox' = [inbox EXCEPT ![d] = IF @ # "processed" THEN "received" ELSE @]
  /\ UNCHANGED arrival

AcceptAgain(d, retryFailed) ==
  /\ inbox[d] # "none"
  /\ inbox' = [inbox EXCEPT ![d] = IF @ = "failed" /\ retryFailed THEN "received" ELSE @]
  /\ UNCHANGED arrival

\* Mutant: what is stored is reported as processed.
AckStored(s) == IF s = "failed" THEN s ELSE "processed"

\* The state accept reports: "processing" is internal, the wire says delivered.
AckState(s) == IF s \in {"processed", "failed"} THEN s ELSE "delivered"

\* claim_next: the oldest received delivery.
FirstReceived(d) ==
  \E i \in DOMAIN arrival :
    /\ arrival[i] = d
    /\ inbox[d] = "received"
    /\ \A j \in 1..(i-1) : inbox[arrival[j]] # "received"

\* Mutant: claims what another loop is processing.
ClaimShared(d) ==
  /\ FirstReceived(d) \/ inbox[d] = "processing"
  /\ inbox' = [inbox EXCEPT ![d] = "processing"]
  /\ UNCHANGED arrival

ClaimNext(d) ==
  /\ FirstReceived(d)
  /\ inbox' = [inbox EXCEPT ![d] = "processing"]
  /\ UNCHANGED arrival

\* finish has no guard on the state, release has one.
Finish(d, state) ==
  /\ inbox' = [inbox EXCEPT ![d] = state]
  /\ UNCHANGED arrival

Release(d) ==
  /\ inbox' = [inbox EXCEPT ![d] = IF @ = "processing" THEN "received" ELSE @]
  /\ UNCHANGED arrival

\* _initialize, when a helper starts.
Recover ==
  /\ inbox' = [d \in Ids |-> IF inbox[d] = "processing" THEN "received" ELSE inbox[d]]
  /\ UNCHANGED arrival
=============================================================================
