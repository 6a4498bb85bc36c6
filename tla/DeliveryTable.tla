--------------------------- MODULE DeliveryTable ---------------------------
(***************************************************************************)
(* The session_delivery table of internal/store/sqlite.go, for one target  *)
(* session (every statement filters on key_id and session_name).           *)
(*                                                                         *)
(* A table is a function from the ids of the deliveries, numbered in the   *)
(* order of their created_at, to rows.  Clock readings are kept relative:  *)
(* "wait" is the number of ticks until next_attempt_at (0: it has passed)  *)
(* and "old" says that created_at is more than 30 minutes in the past.     *)
(***************************************************************************)
EXTENDS Naturals, Sequences

CONSTANTS
  MaxMsg,          \* bound: deliveries ever made for the session
  MaxAttempts,     \* sends after which a delivery is given up (12 in the code)
  LeaseDelays,     \* lease of the first, second, ... send, in ticks
  LastLease        \* lease of every later send

Ids == 1..MaxMsg
NoId == 0

ASSUME TableAssumption ==
  /\ MaxMsg \in Nat
  /\ MaxAttempts \in Nat \ {0}
  /\ LeaseDelays \in Seq(Nat \ {0})
  /\ LastLease \in Nat \ {0}

InFlight == {"sent", "delivered"}
Open     == {"queued"} \union InFlight
Terminal == {"processed", "dead"}

\* "none": no row with that id has been inserted yet.
Row == [state : {"none"} \union Open \union Terminal,
        attempts : Nat, wait : Nat, old : BOOLEAN]

NoRow == [state |-> "none", attempts |-> 0, wait |-> 0, old |-> FALSE]

\* EnqueueSessionDelivery; the unique index on the source message makes the
\* INSERT OR IGNORE of a known message a no-op.
Inserted(t, d) ==
  IF t[d].state = "none" THEN [t EXCEPT ![d] = [NoRow EXCEPT !.state = "queued"]] ELSE t

\* Mutant: what has been processed is given up as well.
SweptEnded(t) ==
  [d \in Ids |-> IF t[d].state # "none" /\ (t[d].attempts >= MaxAttempts \/ t[d].old)
                 THEN [t[d] EXCEPT !.state = "dead"]
                 ELSE t[d]]

\* The first statement of ClaimSessionDelivery: give up what was sent too
\* often or is too old.
Swept(t) ==
  [d \in Ids |-> IF t[d].state \in Open /\ (t[d].attempts >= MaxAttempts \/ t[d].old)
                 THEN [t[d] EXCEPT !.state = "dead"]
                 ELSE t[d]]

Due(t)  == {d \in Ids : t[d].state \in Open /\ t[d].wait = 0}
\* Mutant: an expired delivery still holds the slot.
HeldForever(t) == \E d \in Ids : t[d].state \in InFlight
Held(t) == \E d \in Ids : t[d].state \in InFlight /\ t[d].wait > 0
NeverSent(t) == {d \in Due(t) : t[d].state = "queued" /\ t[d].attempts = 0}

\* Mutant: newest first.
Newest(S) == {d \in S : \A e \in S : d >= e}
Oldest(S) == {d \in S : \A e \in S : d <= e}

\* What the SELECT of ClaimSessionDelivery returns: at most one row, none for
\* sql.ErrNoRows.  It runs after the sweep, inside the same transaction.
Candidates(t) ==
  LET s == Swept(t)
  IN  IF Held(s) THEN {}
      ELSE Oldest(IF NeverSent(s) # {} THEN NeverSent(s) ELSE Due(s))

Lease(n) == IF n < Len(LeaseDelays) THEN LeaseDelays[n + 1] ELSE LastLease

\* The table after ClaimSessionDelivery has claimed candidate d.  With no
\* candidate the function returns before Commit and the deferred Rollback
\* undoes the sweep too: the table is then left as it was.
Claimed(t, d) ==
  [Swept(t) EXCEPT ![d].state = "sent", ![d].attempts = @ + 1,
                   ![d].wait = Lease(t[d].attempts)]

\* UpdateSessionDelivery: no effect on a delivery that has ended.
Updated(t, d, state, wait) ==
  IF t[d].state \in Open THEN [t EXCEPT ![d].state = state, ![d].wait = wait] ELSE t

\* UpdateSessionDeliveryBusy: back to the queue, and the send does not count.
Deferred(t, d, wait) ==
  IF t[d].state \in Open
  THEN [t EXCEPT ![d].state = "queued", ![d].wait = wait,
                 ![d].attempts = IF @ > 0 THEN @ - 1 ELSE @]
  ELSE t

Dec(n) == IF n > 0 THEN n - 1 ELSE 0
Ticked(t) == [d \in Ids |-> [t[d] EXCEPT !.wait = Dec(@)]]
=============================================================================
