---------------------------- MODULE ControlTable ----------------------------
(***************************************************************************)
(* The control_task table of internal/store/sqlite.go.  A request and the  *)
(* subtasks it was decomposed into are rows <<p, 0>> and <<p, 1>>, ...     *)
(* Each operator is one statement or transaction.                          *)
(*                                                                         *)
(* "due" is the set of requests whose expire_at has passed; subtasks take  *)
(* over the expire_at of their request.  A lease is always taken for as    *)
(* long as a request has in all, so it ends only after its request is due. *)
(***************************************************************************)
EXTENDS Naturals

CONSTANTS
  Requests,       \* ids of the inbound messages
  MaxSubs,        \* bound: subtasks of one request
  MaxAttempts     \* max_attempts (3 in the code)

ASSUME ControlAssumption == MaxSubs \in Nat /\ MaxAttempts \in Nat \ {0}

Tasks  == Requests \X (0..MaxSubs)
Top(p) == <<p, 0>>

Closed == {"done", "failed", "expired"}

TaskRow ==
  [status : {"none", "queued", "ignored", "llm_pending", "awaiting_children", "aggregating",
             "awaiting_result"} \union Closed,
   attempts : Nat,
   lease : {"free", "held", "over"}]

NoTask == [status |-> "none", attempts |-> 0, lease |-> "free"]

Kids(t, p) == {x \in Tasks : x[1] = p /\ x[2] # 0 /\ t[x].status # "none"}
KidsClosed(t, p) == \A x \in Kids(t, p) : t[x].status \in Closed

\* An UPDATE that ends whatever lease there was, and the others that set one.
Set(t, x, status)  == [t EXCEPT ![x].status = status, ![x].lease = "free"]
Hold(t, x, status) == [t EXCEPT ![x].status = status, ![x].lease = "held"]

\* RetryL2ControlTask and its kin: one more attempt, and back to the status
\* "again" unless that was the last.
\* Mutant: one attempt too many.
RetriedTooOften(t, x, again) ==
  [Set(t, x, IF t[x].attempts + 1 > MaxAttempts THEN "failed" ELSE again)
     EXCEPT ![x].attempts = @ + 1]

Retried(t, x, again) ==
  [Set(t, x, IF t[x].attempts + 1 >= MaxAttempts THEN "failed" ELSE again)
     EXCEPT ![x].attempts = @ + 1]

\* Mutant: the status is not looked at.
RetriedAlways(t, x, status, again) == Retried(t, x, again)

\* WHERE status = 'llm_pending', or 'aggregating': no effect on any other row.
RetriedIf(t, x, status, again) == IF t[x].status = status THEN Retried(t, x, again) ELSE t

\* Mutant: a leased task can be claimed.
PendingLeased(t, x) == t[x].status = "llm_pending" /\ t[x].attempts < MaxAttempts

\* The WHERE of ClaimNextL2ControlTask.
Pending(t, x) ==
  t[x].status = "llm_pending" /\ t[x].attempts < MaxAttempts /\ t[x].lease # "held"

\* Mutant: a lease that has ended is not taken over.
AggregableAwaiting(t, p) ==
  t[Top(p)].status = "awaiting_children" /\ Kids(t, p) # {} /\ KidsClosed(t, p)

\* The WHERE of ClaimNextAggregateControlTask.
Aggregable(t, p) ==
  /\ \/ t[Top(p)].status = "awaiting_children"
     \/ t[Top(p)].status = "aggregating" /\ t[Top(p)].lease # "held"
  /\ Kids(t, p) # {} /\ KidsClosed(t, p)

\* The conditions of TryClaimControlParentForAggregation.
Aggregated(t, p) == t[Top(p)].status = "awaiting_children" /\ KidsClosed(t, p)

\* CreateControlSubtasks: one transaction; the INSERT of a subtask that exists
\* already fails and rolls it back.
Decomposed(t, p, n) ==
  [x \in Tasks |->
     IF x = Top(p) THEN Set(t, x, "awaiting_children")[x]
     ELSE IF x[1] = p /\ x[2] <= n THEN [NoTask EXCEPT !.status = "awaiting_result"]
     ELSE t[x]]

\* The WHERE of ReapExpiredControlTasks.
Overdue(t, due) ==
  {x \in Tasks : x[1] \in due /\ t[x].status \notin Closed \union {"none"}}

Expired(t, due) ==
  [x \in Tasks |-> IF x \in Overdue(t, due)
                   THEN [t[x] EXCEPT !.status = "expired", !.lease = "free"] ELSE t[x]]
=============================================================================
