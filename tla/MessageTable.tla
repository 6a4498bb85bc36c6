---------------------------- MODULE MessageTable ----------------------------
(***************************************************************************)
(* The message table of internal/store/sqlite.go, for one direction (every *)
(* statement but the recovery filters on it, and that one treats both      *)
(* directions alike).  A table is a function from message ids to rows.     *)
(***************************************************************************)
EXTENDS Naturals

CONSTANTS
  Messages,       \* ids: those of Feishu, or those the hub gives its own messages
  FailLimit       \* claims after which a failed message is dead (3 in the code)

ASSUME MessageAssumption == FailLimit \in Nat \ {0}

\* "late" says that a processing message was claimed more than 5 minutes ago.
MessageRow == [status : {"none", "queued", "processing", "done", "dead"},
               attempts : Nat, late : BOOLEAN]

NoMessage == [status |-> "none", attempts |-> 0, late |-> FALSE]

\* INSERT OR IGNORE of EnqueueMessage and BatchEnqueueMessages: a message that
\* is known, whatever became of it, is not inserted again.
Enqueued(t, S) ==
  [m \in Messages |-> IF m \in S /\ t[m].status = "none"
                      THEN [NoMessage EXCEPT !.status = "queued"] ELSE t[m]]

\* ClaimNextMessage first puts back what has been processing for too long.
Claimable(t) ==
  {m \in Messages : t[m].status = "queued" \/ (t[m].status = "processing" /\ t[m].late)}

PutBack(row) == [status |-> "queued", attempts |-> row.attempts, late |-> FALSE]

Taken(t, m) ==
  [x \in Messages |->
     IF x = m THEN [status |-> "processing", attempts |-> t[m].attempts + 1, late |-> FALSE]
     ELSE IF x \in Claimable(t) THEN PutBack(t[x])
     ELSE t[x]]

\* AckMessage and FailMessage look at the id only, not at the status.
Acked(t, m) == [t EXCEPT ![m].status = "done", ![m].late = FALSE]

Failed(t, m) ==
  [t EXCEPT ![m] = [status |-> IF @.attempts >= FailLimit THEN "dead" ELSE "queued",
                    attempts |-> @.attempts, late |-> FALSE]]

\* RecoverProcessing, when the hub starts.
Recovered(t) ==
  [m \in Messages |-> IF t[m].status = "processing" THEN PutBack(t[m]) ELSE t[m]]
=============================================================================
