------------------------- MODULE ControlTasks_proofs -------------------------
(***************************************************************************)
(* Orderly is an inductive invariant of ControlTasks, for any number of    *)
(* requests, subtasks, workers and restarts; with it the properties that   *)
(* the runs check on small instances.                                      *)
(***************************************************************************)
EXTENDS ControlTasks, TLAPS

USE ProcessAssumption, ControlAssumption, MessageAssumption

Table == [Tasks -> TaskRow]

\* From t to u only the row of x has changed; only that some rows were closed.
Changed(t, u, x) == u \in Table /\ \A y \in Tasks : y # x => u[y] = t[y]
Closing(t, u) == u \in Table /\ \A y \in Tasks : u[y] = t[y] \/ u[y].status \in Closed

-----------------------------------------------------------------------------
(* The tables: what the statements leave alone *)

\* Requests and their rows correspond.
LEMMA Tops ==
  /\ \A p \in Requests : Top(p) \in Tasks /\ Top(p)[1] = p /\ Top(p)[2] = 0
  /\ \A p, q \in Requests : Top(p) = Top(q) => p = q
BY DEF Top, Tasks

Statuses == {"none", "queued", "ignored", "llm_pending", "awaiting_children", "aggregating",
             "awaiting_result"} \union Closed

\* An UPDATE that ends a lease changes one row.
LEMMA SetShape ==
  ASSUME NEW t \in Table, NEW x \in Tasks, NEW s \in Statuses
  PROVE  /\ Changed(t, Set(t, x, s), x)
         /\ Set(t, x, s)[x].status = s
BY DEF Table, TaskRow, Set, Statuses, Changed

\* So does one that takes a lease.
LEMMA HoldShape ==
  ASSUME NEW t \in Table, NEW x \in Tasks, NEW s \in Statuses
  PROVE  /\ Changed(t, Hold(t, x, s), x)
         /\ Hold(t, x, s)[x].status = s /\ Hold(t, x, s)[x].lease = "held"
BY DEF Table, TaskRow, Hold, Statuses, Changed

\* A retry puts the row back to where it is claimed from, or fails it.
LEMMA RetriedShape ==
  ASSUME NEW t \in Table, NEW x \in Tasks, NEW s \in Statuses
  PROVE  /\ Changed(t, Retried(t, x, s), x)
         /\ Retried(t, x, s)[x].status \in {s, "failed"}
<1> DEFINE end == IF t[x].attempts + 1 >= MaxAttempts THEN "failed" ELSE s
<1>1. end \in Statuses /\ end \in {s, "failed"}
  BY DEF Statuses, Closed
<1>2. Set(t, x, end) \in Table /\ Set(t, x, end)[x].status = end
        /\ \A y \in Tasks : y # x => Set(t, x, end)[y] = t[y]
  BY <1>1, SetShape DEF Changed
<1>3. Retried(t, x, s) = [Set(t, x, end) EXCEPT ![x].attempts = @ + 1]
  BY DEF Retried
<1> HIDE DEF end
<1> QED BY SMTT(40), <1>1, <1>2, <1>3 DEF Table, TaskRow, Changed

\* With a WHERE on the status it leaves every other row as it is.
LEMMA RetriedIfShape ==
  ASSUME NEW t \in Table, NEW x \in Tasks, NEW s \in Statuses, NEW a \in Statuses
  PROVE  /\ Changed(t, RetriedIf(t, x, a, s), x)
         /\ t[x].status = a => RetriedIf(t, x, a, s)[x].status \in {s, "failed"}
         /\ t[x].status # a => RetriedIf(t, x, a, s)[x] = t[x]
BY RetriedShape DEF RetriedIf, Changed

\* A decomposition touches its own request and no other, and leaves it with subtasks.
LEMMA DecomposedShape ==
  ASSUME NEW t \in Table, NEW p \in Requests, NEW n \in 1..MaxSubs
  PROVE  /\ Decomposed(t, p, n) \in Table
         /\ Decomposed(t, p, n)[Top(p)].status = "awaiting_children"
         /\ \A q \in Requests \ {p} : Decomposed(t, p, n)[Top(q)] = t[Top(q)]
         /\ \A q \in Requests \ {p} : Kids(Decomposed(t, p, n), q) = Kids(t, q)
         /\ \A q \in Requests \ {p} : KidsClosed(t, q) => KidsClosed(Decomposed(t, p, n), q)
         /\ Kids(Decomposed(t, p, n), p) # {}
<1> DEFINE u == Decomposed(t, p, n)
<1>1. Set(t, Top(p), "awaiting_children") \in Table
        /\ Set(t, Top(p), "awaiting_children")[Top(p)].status = "awaiting_children"
  BY SetShape, Tops DEF Statuses, Changed
<1>2. \A x \in Tasks : u[x] = IF x = Top(p) THEN Set(t, Top(p), "awaiting_children")[Top(p)]
                              ELSE IF x[1] = p /\ x[2] <= n
                                   THEN [NoTask EXCEPT !.status = "awaiting_result"] ELSE t[x]
  BY DEF Decomposed
<1>3. [NoTask EXCEPT !.status = "awaiting_result"] \in TaskRow
  BY DEF NoTask, TaskRow
<1>4. u \in Table
  BY <1>1, <1>2, <1>3, Tops DEF Decomposed, Table
<1>5. \A q \in Requests \ {p} : u[Top(q)] = t[Top(q)]
  BY <1>2, Tops
<1>6. \A x \in Tasks : x[1] # p => u[x] = t[x]
  BY <1>2, Tops
<1>7. \A q \in Requests \ {p} : Kids(u, q) = Kids(t, q)
  BY <1>6 DEF Kids
<1>8. \A q \in Requests \ {p} : KidsClosed(t, q) => KidsClosed(u, q)
  BY <1>6, <1>7 DEF KidsClosed, Kids
<1>9. <<p, 1>> \in Tasks /\ <<p, 1>> # Top(p)
  BY DEF Tasks, Top
<1>10. u[<<p, 1>>].status = "awaiting_result"
  BY <1>2, <1>9 DEF NoTask
<1>11. <<p, 1>> \in Kids(u, p)
  BY <1>9, <1>10 DEF Kids
<1> QED BY <1>1, <1>2, <1>4, <1>5, <1>7, <1>8, <1>11, Tops

\* The reaper changes nothing of requests it does not find due.
LEMMA ExpiredShape ==
  ASSUME NEW t \in Table, NEW d \in SUBSET Requests
  PROVE  /\ Closing(t, Expired(t, d))
         /\ \A x \in Tasks : x[1] \notin d => Expired(t, d)[x] = t[x]
BY DEF Table, Expired, Overdue, TaskRow, Closed, Closing

\* A statement about one request leaves its subtasks and all others alone.
LEMMA TopChange ==
  ASSUME NEW t \in Table, NEW u, NEW p \in Requests, Changed(t, u, Top(p))
  PROVE  \A q \in Requests : /\ q # p => u[Top(q)] = t[Top(q)]
                             /\ Kids(u, q) = Kids(t, q)
                             /\ KidsClosed(u, q) <=> KidsClosed(t, q)
<1>1. /\ \A y \in Tasks : y # Top(p) => u[y] = t[y]
      /\ \A y \in Tasks : y[2] # 0 => u[y] = t[y]
  BY Tops DEF Changed
<1>2. \A q \in Requests : Kids(u, q) = Kids(t, q)
  BY <1>1 DEF Kids
<1>3. \A q \in Requests : KidsClosed(u, q) <=> KidsClosed(t, q)
  BY <1>1, <1>2 DEF KidsClosed, Kids
<1>4. \A q \in Requests : q # p => u[Top(q)] = t[Top(q)]
  BY <1>1, Tops
<1> QED BY <1>2, <1>3, <1>4

\* Subtasks that are closed, and others left alone, stay so.
LEMMA KidChange ==
  ASSUME NEW t \in Table, NEW u, Closing(t, u)
  PROVE  \A q \in Requests : /\ Kids(t, q) \subseteq Kids(u, q)
                             /\ KidsClosed(t, q) => KidsClosed(u, q)
<1>1. \A q \in Requests : Kids(t, q) \subseteq Kids(u, q)
  BY DEF Kids, Closed, Closing
<1>2. \A q \in Requests : KidsClosed(t, q) => KidsClosed(u, q)
  BY DEF KidsClosed, Kids, Closing
<1> QED BY <1>1, <1>2

-----------------------------------------------------------------------------
(* Types *)

\* The message table keeps its type.
LEMMA MessageShapes ==
  ASSUME NEW t \in [Messages -> MessageRow], NEW m \in Messages
  PROVE  /\ Enqueued(t, {m}) \in [Messages -> MessageRow]
         /\ Taken(t, m) \in [Messages -> MessageRow]
         /\ Acked(t, m) \in [Messages -> MessageRow]
         /\ Failed(t, m) \in [Messages -> MessageRow]
         /\ Recovered(t) \in [Messages -> MessageRow]
<1>1. [NoMessage EXCEPT !.status = "queued"] \in MessageRow
  BY DEF NoMessage, MessageRow
<1>2. \A x \in Messages : t[x] \in MessageRow /\ PutBack(t[x]) \in MessageRow
  BY DEF PutBack, MessageRow
<1>3. [status |-> "processing", attempts |-> t[m].attempts + 1, late |-> FALSE] \in MessageRow
  BY DEF MessageRow
<1>4. Enqueued(t, {m}) \in [Messages -> MessageRow]
  BY <1>1, <1>2 DEF Enqueued
<1>5. Taken(t, m) \in [Messages -> MessageRow]
  BY <1>2, <1>3 DEF Taken
<1>6. Acked(t, m) \in [Messages -> MessageRow]
  BY DEF Acked, MessageRow
<1>7. Failed(t, m) \in [Messages -> MessageRow]
  BY DEF Failed, MessageRow
<1>8. Recovered(t) \in [Messages -> MessageRow]
  BY <1>2 DEF Recovered
<1> QED BY <1>4, <1>5, <1>6, <1>7, <1>8

\* TypeOK holds initially.
LEMMA TypeInit == Init => TypeOK
BY DEF Init, TypeOK, MessageRow, NoMessage, TaskRow, NoTask, Worker, WorkerIdle, Process, ProcIdle

\* The worker's steps keep types.
LEMMA TypeWorker == TypeOK /\ WorkerStep => TypeOK'
<1> SUFFICES ASSUME TypeOK, WorkerStep PROVE TypeOK'
  OBVIOUS
<1> USE DEF TypeOK, AtRest, doneVars, storeVars
<1>0. /\ msgs \in [Messages -> MessageRow] /\ ctl \in Table
      /\ wk.pc # "idle" => wk.m \in Messages /\ Top(wk.m) \in Tasks
      /\ {"queued", "ignored", "llm_pending", "done"} \subseteq Statuses
  BY Tops DEF Table, Statuses, Closed
<1>00. ASSUME NEW pc \in {"idle", "list", "mark", "tell", "accept", "l1", "record", "reply", "ack"},
              Goto(pc), wk.pc # "idle"
       PROVE  wk' \in Worker /\ (wk'.pc # "idle" => wk'.m \in Messages)
  BY <1>0, <1>00 DEF Goto, Worker
<1>1. CASE Take
  <2>1. PICK m \in Messages : /\ msgs' = Taken(msgs, m)
                             /\ wk' = [pc |-> "list", m |-> m, now |-> {}, list |-> {}]
    BY <1>1 DEF Take, Claimable
  <2>2. wk' \in Worker /\ wk'.m \in Messages
    BY <2>1 DEF Worker
  <2>3. msgs' \in [Messages -> MessageRow]
    BY <1>0, <2>1, MessageShapes
  <2> QED BY <1>1, <2>2, <2>3 DEF Take
<1>2. CASE ListOverdue
  <2>1. wk' \in Worker /\ (wk'.pc # "idle" => wk'.m \in Messages)
    <3>1. CASE Overdue(ctl, due) = {}
      BY <1>00, <1>2, <3>1 DEF ListOverdue
    <3>2. CASE Overdue(ctl, due) # {}
      <4> DEFINE l == {p \in Requests : Top(p) \in Overdue(ctl, due)}
      <4>1. wk' = [pc |-> "mark", m |-> wk.m, now |-> due, list |-> l] /\ wk.pc = "list"
        BY <1>2, <3>2 DEF ListOverdue
      <4>2. l \subseteq Requests
        OBVIOUS
      <4> HIDE DEF l
      <4> QED BY <1>0, <4>1, <4>2 DEF Worker
    <3> QED BY <3>1, <3>2
  <2> QED BY <1>2, <2>1 DEF ListOverdue
<1>3. CASE MarkOverdue
  <2>1. Expired(ctl, wk.now) \in Table
    BY <1>0, ExpiredShape DEF Worker, Closing
  <2> QED BY <1>0, <1>3, <2>1 DEF MarkOverdue, Worker, Table
<1>4. CASE ReapFails
  BY <1>00, <1>4 DEF ReapFails
<1>5. CASE TellOverdue
  <2>1. wk.list \subseteq Requests
    BY DEF Worker
  <2> QED BY <1>00, <1>5, <2>1 DEF TellOverdue, Notices
<1>6. CASE Accept
  <2>1. Set(ctl, Top(wk.m), "queued") \in Table
    BY <1>0, <1>6, SetShape DEF Changed, Accept
  <2>2. wk' \in Worker /\ (wk'.pc # "idle" => wk'.m \in Messages)
    BY <1>00, <1>6 DEF Accept
  <2> QED BY <1>6, <2>1, <2>2 DEF Accept, Table
<1>7. CASE L1Ignores
  <2>1. Set(ctl, Top(wk.m), "ignored") \in Table
    BY <1>0, <1>7, SetShape DEF Changed, L1Ignores
  <2> QED BY <1>00, <1>7, <2>1 DEF L1Ignores, Table
<1>8. CASE L1Defers
  <2>1. Set(ctl, Top(wk.m), "llm_pending") \in Table
    BY <1>0, <1>8, SetShape DEF Changed, L1Defers
  <2> QED BY <1>00, <1>8, <2>1 DEF L1Defers, Table
<1>9. CASE L1Runs
  BY <1>0, <1>00, <1>9 DEF L1Runs
<1>10. CASE L1Fails
  <2>1. Retried(ctl, Top(wk.m), "queued") \in Table
    BY <1>0, <1>10, RetriedShape DEF Changed, L1Fails
  <2> QED BY <1>0, <1>00, <1>10, <2>1 DEF L1Fails, Table, Notices
<1>11. CASE Record
  <2>1. Set(ctl, Top(wk.m), "done") \in Table
    BY <1>0, <1>11, SetShape DEF Changed, Record
  <2> QED BY <1>00, <1>11, <2>1 DEF Record, Table
<1>12. CASE FailsMessage \/ LeavesMessage
  <2>1. wk' \in Worker /\ wk'.pc = "idle"
    BY <1>12 DEF FailsMessage, LeavesMessage, Worker, WorkerIdle
  <2>2. CASE FailsMessage
    BY <1>0, <2>1, <2>2, MessageShapes DEF FailsMessage
  <2>3. CASE LeavesMessage
    BY <1>0, <2>1, <2>3 DEF LeavesMessage
  <2> QED BY <1>12, <2>2, <2>3
<1>13. CASE Reply
  BY <1>0, <1>00, <1>13 DEF Reply
<1>14. CASE AckMessage
  BY <1>0, <1>14, MessageShapes DEF AckMessage, Worker, WorkerIdle
<1> QED BY <1>1, <1>2, <1>3, <1>4, <1>5, <1>6, <1>7, <1>8, <1>9, <1>10, <1>11, <1>12, <1>13,
           <1>14 DEF WorkerStep

\* So do the steps of the other processes.
LEMMA TypeProc ==
  ASSUME TypeOK, NEW w \in Procs, Claiming(w) \/ Working(w) \/ \E x \in Tasks : Result(w, x)
  PROVE  TypeOK'
<1> USE DEF TypeOK, Elsewhere
<1>0. /\ ctl \in Table /\ proc[w] \in Process
      /\ proc[w].pc # "idle" => proc[w].p \in Requests /\ Mine(w) \in Tasks
      /\ {"llm_pending", "aggregating", "awaiting_children", "done", "failed"} \subseteq Statuses
  BY Tops DEF Table, Statuses, Closed, Mine
<1>1. ASSUME NEW pc \in {"idle", "triage", "complete", "fan", "try", "aggregate", "retry",
                         "tellDone", "tellFailed"}, Step(w, pc), proc[w].pc # "idle"
      PROVE  proc' \in [Procs -> Process] /\ \A v \in Procs : proc'[v].pc # "idle" => proc'[v].p \in Requests
  BY <1>0, <1>1 DEF Step, Process
<1>2. ASSUME Rest(w)
      PROVE  proc' \in [Procs -> Process] /\ \A v \in Procs : proc'[v].pc # "idle" => proc'[v].p \in Requests
  BY <1>0, <1>2 DEF Rest, Process, ProcIdle
<1>3. ASSUME NEW x \in Tasks, Pushed(x)
      PROVE  envs' \subseteq Tasks /\ pushed' \in [Tasks -> Nat]
  BY <1>3 DEF Pushed
<1>4. CASE ClaimPending(w)
  <2> PICK p \in Requests :
        /\ ctl' = Hold(ctl, Top(p), "llm_pending")
        /\ proc' = [proc EXCEPT ![w] = [pc |-> "triage", p |-> p, n |-> 0, from |-> "triage"]]
    BY <1>4 DEF ClaimPending
  <2>1. ctl' \in Table
    BY <1>0, HoldShape, Tops DEF Changed
  <2> QED BY <1>4, <2>1 DEF ClaimPending, Table, Process
<1>5. CASE ClaimAggregate(w)
  <2> PICK p \in Requests :
        /\ ctl' = Hold(ctl, Top(p), "aggregating")
        /\ proc' = [proc EXCEPT ![w] = [pc |-> "aggregate", p |-> p, n |-> 0, from |-> "aggregate"]]
    BY <1>5 DEF ClaimAggregate
  <2>1. ctl' \in Table
    BY <1>0, HoldShape, Tops DEF Changed
  <2> QED BY <1>5, <2>1 DEF ClaimAggregate, Table, Process
<1>6. CASE Dispatch(w)
  BY <1>0, <1>1, <1>3, <1>6 DEF Dispatch
<1>7. CASE Complete(w)
  <2>1. Set(ctl, Mine(w), "done") \in Table
    BY <1>0, <1>7, SetShape DEF Changed, Complete
  <2> QED BY <1>1, <1>7, <2>1 DEF Complete, Table
<1>8. CASE Decompose(w)
  <2>1. PICK n \in 1..MaxSubs : ctl' = Decomposed(ctl, proc[w].p, n)
    BY <1>8 DEF Decompose
  <2>2. ctl' \in Table
    BY <1>0, <1>8, <2>1, DecomposedShape DEF Decompose
  <2>3. /\ proc' = [proc EXCEPT ![w].pc = "fan", ![w].n = 1] /\ proc[w].pc = "triage"
        /\ 1 \in 0..(MaxSubs + 1)
    BY <1>8 DEF Decompose
  <2>4. proc' \in [Procs -> Process] /\ \A v \in Procs : proc'[v].pc # "idle" => proc'[v].p \in Requests
    BY <1>0, <2>3 DEF Process
  <2> QED BY <1>8, <2>2, <2>4 DEF Decompose, Table
<1>9. CASE FanOut(w)
  <2> DEFINE x == <<proc[w].p, proc[w].n>>
  <2>1. x \in Tasks /\ proc[w].n \in 0..MaxSubs /\ proc[w].pc = "fan"
    BY <1>9 DEF FanOut, Kids, Tasks
  <2>2. Set(ctl, x, "failed") \in Table
    BY <1>0, <2>1, SetShape DEF Changed
  <2>3. proc' = [proc EXCEPT ![w].n = @ + 1]
    BY <1>9 DEF FanOut
  <2>4. proc' \in [Procs -> Process] /\ \A v \in Procs : proc'[v].pc # "idle" => proc'[v].p \in Requests
    BY <1>0, <2>1, <2>3 DEF Process
  <2>5. \/ Pushed(x) /\ UNCHANGED ctl
        \/ ctl' = Set(ctl, x, "failed") /\ UNCHANGED <<envs, pushed>>
        \/ UNCHANGED <<ctl, envs, pushed>>
    BY <1>9 DEF FanOut
  <2>6. envs' \subseteq Tasks /\ pushed' \in [Tasks -> Nat] /\ ctl' \in Table
    BY <1>0, <1>3, <2>1, <2>2, <2>5
  <2> QED BY <1>9, <2>4, <2>6 DEF FanOut, Table
<1>10. CASE TryAggregate(w)
  <2>1. Hold(ctl, Mine(w), "aggregating") \in Table
    BY <1>0, <1>10, HoldShape DEF Changed, TryAggregate
  <2> QED BY <1>1, <1>2, <1>10, <2>1 DEF TryAggregate, Table
<1>11. CASE RetryTriage(w)
  <2>1. RetriedIf(ctl, Mine(w), "llm_pending", "llm_pending") \in Table
    BY <1>0, <1>11, RetriedIfShape DEF Changed, RetryTriage
  <2> QED BY <1>1, <1>2, <1>11, <2>1 DEF RetryTriage, Table
<1>12. CASE RetryAggregate(w)
  <2>1. RetriedIf(ctl, Mine(w), "aggregating", "awaiting_children") \in Table
    BY <1>0, <1>12, RetriedIfShape DEF Changed, RetryAggregate
  <2> QED BY <1>1, <1>2, <1>12, <2>1 DEF RetryAggregate, Table
<1>13. CASE Tell(w)
  BY <1>0, <1>2, <1>13 DEF Tell, Notices
<1>15. CASE Drops(w)
  BY <1>0, <1>1, <1>2, <1>15 DEF Drops
<1>14. ASSUME NEW x \in Tasks, Result(w, x) PROVE TypeOK'
  <2>1. Set(ctl, x, "done") \in Table
    BY <1>0, SetShape DEF Changed
  <2>2. x[1] \in Requests
    BY DEF Tasks
  <2>3. proc' = [proc EXCEPT ![w] = [pc |-> "try", p |-> x[1], n |-> 0, from |-> "result"]]
    BY <1>14 DEF Result
  <2>4. proc' \in [Procs -> Process] /\ \A v \in Procs : proc'[v].pc # "idle" => proc'[v].p \in Requests
    BY <1>0, <2>2, <2>3 DEF Process
  <2> QED BY <1>14, <2>1, <2>4 DEF Result, Table
<1> QED BY <1>4, <1>5, <1>6, <1>7, <1>8, <1>9, <1>10, <1>11, <1>12, <1>13, <1>14,
           <1>15
        DEF Claiming, Working

\* And arrivals, time and restarts.
LEMMA TypeRest ==
  ASSUME TypeOK,
         \/ \E m \in Messages : Arrive(m) \/ MessageLate(m)
         \/ \E p \in Requests : BecomesDue(p) \/ LeaseEnds(p)
         \/ HubRestart
         \/ UNCHANGED vars
  PROVE  TypeOK'
<1> USE DEF TypeOK, doneVars, storeVars
<1>1. ASSUME NEW m \in Messages, Arrive(m) \/ MessageLate(m) PROVE TypeOK'
  <2>1. CASE Arrive(m)
    BY <2>1, MessageShapes DEF Arrive
  <2>2. CASE MessageLate(m)
    <3>1. \A row \in MessageRow : [row EXCEPT !.late = TRUE] \in MessageRow
      BY DEF MessageRow
    <3>2. msgs' = [msgs EXCEPT ![m] = [msgs[m] EXCEPT !.late = TRUE]]
      BY <2>2 DEF MessageLate
    <3>3. msgs' \in [Messages -> MessageRow]
      BY <3>1, <3>2
    <3> QED BY <2>2, <3>3 DEF MessageLate
  <2> QED BY <1>1, <2>1, <2>2
<1>2. ASSUME NEW p \in Requests, BecomesDue(p) PROVE TypeOK'
  BY <1>2 DEF BecomesDue
<1>3. ASSUME NEW p \in Requests, LeaseEnds(p) PROVE TypeOK'
  <2>0. Top(p) \in Tasks /\ ctl[Top(p)] \in TaskRow
    BY Tops
  <2>1. [ctl[Top(p)] EXCEPT !.lease = "over"] \in TaskRow
    <3>1. \A row \in TaskRow : [row EXCEPT !.lease = "over"] \in TaskRow
      BY DEF TaskRow
    <3> QED BY <2>0, <3>1
  <2>2. ctl' = [ctl EXCEPT ![Top(p)] = [ctl[Top(p)] EXCEPT !.lease = "over"]]
    BY <1>3 DEF LeaseEnds
  <2>3. ctl' \in [Tasks -> TaskRow]
    BY <2>0, <2>1, <2>2
  <2> QED BY <1>3, <2>3 DEF LeaseEnds
<1>4. CASE HubRestart
  <2>1. Recovered(msgs) \in [Messages -> MessageRow]
    BY DEF Recovered, PutBack, MessageRow
  <2> QED BY <1>4, <2>1 DEF HubRestart, Worker, WorkerIdle, Process, ProcIdle
<1>5. CASE UNCHANGED vars
  BY <1>5 DEF vars
<1> QED BY <1>1, <1>2, <1>3, <1>4, <1>5

\* Hence every step does.
LEMMA TypeStep == TypeOK /\ [Next]_vars => TypeOK'
BY TypeWorker, TypeProc, TypeRest DEF Next

\* Every variable keeps its type, whatever is interleaved.
THEOREM TypesAlways == Spec => []TypeOK
BY TypeInit, TypeStep, PTL DEF Spec
-----------------------------------------------------------------------------
(* What a step may do to the control_task table *)

TopStep(p) ==
  /\ Changed(ctl, ctl', Top(p))
  /\ ctl[Top(p)].status # "none" => ctl'[Top(p)].status # "none"
  /\ ctl'[Top(p)].status = "awaiting_children"
       => ctl[Top(p)].status \in {"awaiting_children", "aggregating"}
  /\ ctl'[Top(p)].status = "aggregating"
       => \/ ctl[Top(p)].status = "aggregating"
          \/ KidsClosed(ctl, p) /\ (Kids(ctl, p) # {} \/ ctl[Top(p)].status = "awaiting_children")

DecomposeStep ==
  \E p \in Requests : \E n \in 1..MaxSubs : Kids(ctl, p) = {} /\ ctl' = Decomposed(ctl, p, n)

TableStep == UNCHANGED ctl \/ Closing(ctl, ctl') \/ DecomposeStep \/ \E p \in Requests : TopStep(p)

\* Every step of the worker is such a step.
LEMMA WorkerTables == TypeOK /\ WorkerStep => TableStep
<1> SUFFICES ASSUME TypeOK, WorkerStep PROVE TableStep
  OBVIOUS
<1> USE DEF TableStep, storeVars
<1>0. /\ ctl \in Table
      /\ wk.pc # "idle" => wk.m \in Requests /\ Top(wk.m) \in Tasks
      /\ {"queued", "ignored", "llm_pending", "done"} \subseteq Statuses
  BY Tops DEF TypeOK, Table, Statuses, Closed
<1>1. CASE UNCHANGED ctl
  BY <1>1
<1>2. CASE MarkOverdue
  <2>1. wk.now \subseteq Requests
    BY DEF TypeOK, Worker
  <2>2. Closing(ctl, ctl')
    BY <1>0, <1>2, <2>1, ExpiredShape DEF MarkOverdue
  <2> QED BY <2>2
<1>3. ASSUME NEW s \in {"queued", "ignored", "llm_pending", "done"}, wk.pc # "idle",
             ctl' = Set(ctl, Top(wk.m), s)
      PROVE  TopStep(wk.m)
  <2>1. s \in Statuses /\ wk.m \in Requests
    BY <1>0, <1>3
  <2>2. ctl'[Top(wk.m)].status = s /\ Changed(ctl, ctl', Top(wk.m))
    BY <1>0, <1>3, <2>1, SetShape
  <2> QED BY <2>2 DEF TopStep
<1>4. CASE Accept
  BY <1>0, <1>1, <1>3, <1>4 DEF Accept
<1>5. CASE L1Ignores \/ L1Defers \/ Record
  BY <1>0, <1>3, <1>5 DEF L1Ignores, L1Defers, Record
<1>6. CASE L1Fails
  <2>1. TopStep(wk.m) /\ wk.m \in Requests
    BY <1>0, <1>6, RetriedShape DEF L1Fails, TopStep
  <2> QED BY <2>1
<1>7. CASE \/ Take \/ ListOverdue \/ ReapFails \/ TellOverdue \/ L1Runs
           \/ FailsMessage \/ LeavesMessage \/ Reply \/ AckMessage
  BY <1>7, <1>1 DEF Take, ListOverdue, ReapFails, TellOverdue, L1Runs, FailsMessage, LeavesMessage,
                    Reply, AckMessage
<1> QED BY <1>2, <1>4, <1>5, <1>6, <1>7 DEF WorkerStep

\* And of the other processes.
LEMMA ProcTables ==
  ASSUME TypeOK, NEW w \in Procs, Claiming(w) \/ Working(w) \/ \E x \in Tasks : Result(w, x)
  PROVE  TableStep
<1> USE DEF TableStep
<1>0. /\ ctl \in Table
      /\ proc[w].pc # "idle" => proc[w].p \in Requests /\ Mine(w) \in Tasks
      /\ Mine(w) = Top(proc[w].p)
      /\ {"llm_pending", "aggregating", "awaiting_children", "done", "failed"} \subseteq Statuses
  BY Tops DEF TypeOK, Table, Statuses, Closed, Mine
<1>1. CASE ClaimPending(w)
  <2>1. PICK p \in Requests : ctl' = Hold(ctl, Top(p), "llm_pending")
    BY <1>1 DEF ClaimPending
  <2>2. TopStep(p)
    BY <1>0, <2>1, HoldShape, Tops DEF TopStep
  <2> QED BY <2>2
<1>2. CASE ClaimAggregate(w)
  <2>1. PICK p \in Requests : Aggregable(ctl, p) /\ ctl' = Hold(ctl, Top(p), "aggregating")
    BY <1>2 DEF ClaimAggregate
  <2>2. TopStep(p)
    BY <1>0, <2>1, HoldShape, Tops DEF TopStep, Aggregable
  <2> QED BY <2>2
<1>3. CASE Dispatch(w) \/ Tell(w)
  BY <1>3 DEF Dispatch, Tell
<1>4. CASE Complete(w)
  <2>1. TopStep(proc[w].p) /\ proc[w].p \in Requests
    BY <1>0, <1>4, SetShape DEF Complete, TopStep
  <2> QED BY <2>1
<1>5. CASE Decompose(w)
  <2>1. DecomposeStep
    BY <1>0, <1>5 DEF Decompose, DecomposeStep
  <2> QED BY <2>1
<1>6. CASE FanOut(w)
  <2> DEFINE x == <<proc[w].p, proc[w].n>>
  <2>1. x \in Tasks
    BY <1>6 DEF FanOut, Kids
  <2>2. CASE ctl' = Set(ctl, x, "failed")
    <3>1. Changed(ctl, ctl', x) /\ ctl'[x].status = "failed"
      BY <1>0, <2>1, <2>2, SetShape
    <3>2. Closing(ctl, ctl')
      BY <3>1 DEF Closing, Changed, Closed
    <3> QED BY <3>2
  <2> QED BY <1>6, <2>2 DEF FanOut
<1>7. CASE TryAggregate(w)
  <2>1. CASE Aggregated(ctl, proc[w].p)
    <3>1. TopStep(proc[w].p) /\ proc[w].p \in Requests
      BY <1>0, <1>7, <2>1, HoldShape DEF TryAggregate, Aggregated, TopStep
    <3> QED BY <3>1
  <2> QED BY <1>7, <2>1 DEF TryAggregate
<1>8. CASE RetryTriage(w)
  <2> DEFINE u == RetriedIf(ctl, Mine(w), "llm_pending", "llm_pending")
  <2>1. /\ proc[w].p \in Requests /\ ctl' = u
        /\ Changed(ctl, u, Mine(w))
        /\ \/ ctl[Mine(w)].status = "llm_pending" /\ u[Mine(w)].status \in {"llm_pending", "failed"}
           \/ u[Mine(w)] = ctl[Mine(w)]
    BY <1>0, <1>8, RetriedIfShape DEF RetryTriage
  <2>2. CASE u[Mine(w)] = ctl[Mine(w)]
    <3>1. Closing(ctl, ctl')
      BY <2>1, <2>2 DEF Closing, Changed
    <3> QED BY <3>1
  <2>3. CASE u[Mine(w)].status \in {"llm_pending", "failed"}
    <3>1. TopStep(proc[w].p)
      BY <1>0, <2>1, <2>3 DEF TopStep
    <3> QED BY <2>1, <3>1
  <2> QED BY <2>1, <2>2, <2>3
<1>9. CASE RetryAggregate(w)
  <2> DEFINE u == RetriedIf(ctl, Mine(w), "aggregating", "awaiting_children")
  <2>1. /\ proc[w].p \in Requests /\ ctl' = u
        /\ Changed(ctl, u, Mine(w))
        /\ \/ ctl[Mine(w)].status = "aggregating" /\ u[Mine(w)].status \in {"awaiting_children", "failed"}
           \/ u[Mine(w)] = ctl[Mine(w)]
    BY <1>0, <1>9, RetriedIfShape DEF RetryAggregate
  <2>2. CASE u[Mine(w)] = ctl[Mine(w)]
    <3>1. Closing(ctl, ctl')
      BY <2>1, <2>2 DEF Closing, Changed
    <3> QED BY <3>1
  <2>3. CASE ctl[Mine(w)].status = "aggregating" /\ u[Mine(w)].status \in {"awaiting_children", "failed"}
    <3>1. TopStep(proc[w].p)
      BY <1>0, <2>1, <2>3 DEF TopStep
    <3> QED BY <2>1, <3>1
  <2> QED BY <2>1, <2>2, <2>3
<1>10. ASSUME NEW x \in Tasks, Result(w, x) PROVE TableStep
  <2>1. Changed(ctl, ctl', x) /\ ctl'[x].status = "done"
    BY <1>0, <1>10, SetShape DEF Result
  <2>2. Closing(ctl, ctl')
    BY <2>1 DEF Closing, Changed, Closed
  <2> QED BY <2>2
<1>11. CASE Drops(w) \/ Dispatch(w) \/ Tell(w)
  BY <1>11 DEF Drops, Dispatch, Tell
<1> QED BY <1>1, <1>2, <1>3, <1>4, <1>5, <1>6, <1>7, <1>8, <1>9, <1>10, <1>11
        DEF Claiming, Working

\* Hence every step of the system.
LEMMA Tables == TypeOK /\ [Next]_vars => TableStep
<1> SUFFICES ASSUME TypeOK, [Next]_vars PROVE TableStep
  OBVIOUS
<1>1. ASSUME NEW p \in Requests, LeaseEnds(p) PROVE TopStep(p)
  <2>1. /\ ctl \in Table /\ Top(p) \in Tasks /\ ctl[Top(p)].lease = "held"
        /\ ctl' = [ctl EXCEPT ![Top(p)].lease = "over"]
    BY <1>1, Tops DEF LeaseEnds, TypeOK, Table
  <2>2. ctl'[Top(p)].status = ctl[Top(p)].status /\ Changed(ctl, ctl', Top(p))
    BY <2>1 DEF Table, TaskRow, Changed
  <2> QED BY <2>2 DEF TopStep
<1>2. ASSUME \/ \E m \in Messages : Arrive(m) \/ MessageLate(m)
             \/ \E p \in Requests : BecomesDue(p)
             \/ HubRestart \/ UNCHANGED vars
      PROVE  TableStep
  BY <1>2 DEF Arrive, MessageLate, BecomesDue, HubRestart, vars, storeVars, TableStep
<1>3. ASSUME NEW p \in Requests, LeaseEnds(p) PROVE TableStep
  BY <1>1, <1>3 DEF TableStep
<1> QED BY <1>2, <1>3, WorkerTables, ProcTables DEF Next

\* A row that is there stays.
LEMMA RowsStay ==
  ASSUME TypeOK, TableStep, NEW p \in Requests, ctl[Top(p)].status # "none"
  PROVE  ctl'[Top(p)].status # "none"
<1>0. ctl \in Table /\ Top(p) \in Tasks
  BY Tops DEF TypeOK, Table
<1>1. CASE UNCHANGED ctl
  BY <1>1
<1>2. CASE Closing(ctl, ctl')
  BY <1>0, <1>2 DEF Closing, Closed
<1>3. CASE DecomposeStep
  <2> PICK q \in Requests, n \in 1..MaxSubs : ctl' = Decomposed(ctl, q, n)
    BY <1>3 DEF DecomposeStep
  <2>1. CASE p = q
    BY <1>0, <2>1, DecomposedShape
  <2>2. CASE p # q
    BY <1>0, <2>2, DecomposedShape
  <2> QED BY <2>1, <2>2
<1>4. ASSUME NEW q \in Requests, TopStep(q) PROVE ctl'[Top(p)].status # "none"
  <2>1. p # q => ctl'[Top(p)] = ctl[Top(p)]
    BY <1>0, <1>4, TopChange DEF TopStep
  <2> QED BY <1>4, <2>1 DEF TopStep
<1> QED BY <1>1, <1>2, <1>3, <1>4 DEF TableStep

\* What is aggregated has subtasks, and all of them are closed.
LEMMA ParentsKept ==
  TypeOK /\ HaveKids /\ AggregatesClosed /\ TableStep => (HaveKids /\ AggregatesClosed)'
<1> SUFFICES ASSUME TypeOK, HaveKids, AggregatesClosed, TableStep, NEW p \in Requests
             PROVE  /\ ctl'[Top(p)].status \in {"awaiting_children", "aggregating"} => Kids(ctl', p) # {}
                    /\ ctl'[Top(p)].status = "aggregating" => KidsClosed(ctl', p)
  BY DEF HaveKids, AggregatesClosed
<1>0. /\ ctl \in Table /\ Top(p) \in Tasks
      /\ ctl[Top(p)].status \in {"awaiting_children", "aggregating"} => Kids(ctl, p) # {}
      /\ ctl[Top(p)].status = "aggregating" => KidsClosed(ctl, p)
  BY Tops DEF TypeOK, Table, HaveKids, AggregatesClosed
<1>1. CASE UNCHANGED ctl
  BY <1>0, <1>1
<1>2. CASE Closing(ctl, ctl')
  <2>1. ctl'[Top(p)] = ctl[Top(p)] \/ ctl'[Top(p)].status \in Closed
    BY <1>0, <1>2 DEF Closing
  <2>2. Kids(ctl, p) \subseteq Kids(ctl', p) /\ (KidsClosed(ctl, p) => KidsClosed(ctl', p))
    BY <1>0, <1>2, KidChange
  <2> QED BY <1>0, <2>1, <2>2 DEF Closed
<1>3. CASE DecomposeStep
  <2> PICK q \in Requests, n \in 1..MaxSubs : ctl' = Decomposed(ctl, q, n)
    BY <1>3 DEF DecomposeStep
  <2>1. CASE p = q
    BY <1>0, <2>1, DecomposedShape
  <2>2. CASE p # q
    BY <1>0, <2>2, DecomposedShape
  <2> QED BY <2>1, <2>2
<1>4. ASSUME NEW q \in Requests, TopStep(q)
      PROVE  /\ ctl'[Top(p)].status \in {"awaiting_children", "aggregating"} => Kids(ctl', p) # {}
             /\ ctl'[Top(p)].status = "aggregating" => KidsClosed(ctl', p)
  <2>1. /\ p # q => ctl'[Top(p)] = ctl[Top(p)]
        /\ Kids(ctl', p) = Kids(ctl, p)
        /\ KidsClosed(ctl', p) <=> KidsClosed(ctl, p)
    BY <1>0, <1>4, TopChange DEF TopStep
  <2>2. CASE p = q
    BY <1>0, <1>4, <2>1, <2>2 DEF TopStep
  <2> QED BY <1>0, <2>1, <2>2
<1> QED BY <1>1, <1>2, <1>3, <1>4 DEF TableStep
-----------------------------------------------------------------------------
(* Executed at most once, instructed at most once per life of the hub *)

\* Goto changes the worker's pc and forgets its lists.
LEMMA GotoFacts ==
  ASSUME TypeOK, NEW pc, Goto(pc)
  PROVE  wk'.pc = pc /\ wk'.m = wk.m /\ wk'.now = {} /\ wk'.list = {}
BY DEF TypeOK, Worker, Goto

\* A command is carried out only right after its row was inserted.
LEMMA StartedKept ==
  TypeOK /\ Started /\ ExecutedOnce /\ [Next]_vars => (Started /\ ExecutedOnce)'
<1> SUFFICES ASSUME TypeOK, Started, ExecutedOnce, [Next]_vars PROVE (Started /\ ExecutedOnce)'
  OBVIOUS
<1>0. /\ TypeOK' /\ ctl \in Table /\ ran \in [Requests -> Nat]
      /\ wk.pc # "idle" => wk.m \in Requests /\ Top(wk.m) \in Tasks
      /\ \A p \in Requests : ctl[Top(p)].status # "none" => ctl'[Top(p)].status # "none"
  BY TypeStep, Tables, RowsStay, Tops DEF TypeOK, Table
<1>1. ASSUME UNCHANGED ran, wk'.pc \notin {"l1", "record"} \/ UNCHANGED wk
      PROVE  (Started /\ ExecutedOnce)'
  BY <1>0, <1>1 DEF Started, ExecutedOnce
<1>2. CASE Accept
  <2>1. /\ \/ wk'.pc \notin {"l1", "record"}
           \/ wk'.pc = "l1" /\ wk'.m = wk.m /\ ctl[Top(wk.m)].status = "none"
                /\ ctl' = Set(ctl, Top(wk.m), "queued")
        /\ UNCHANGED ran /\ wk.pc # "idle"
    BY <1>2, <1>0, GotoFacts DEF Accept, doneVars
  <2>2. CASE wk'.pc = "l1" /\ wk'.m = wk.m /\ ctl[Top(wk.m)].status = "none"
               /\ ctl' = Set(ctl, Top(wk.m), "queued")
    <3>1. ctl'[Top(wk.m)].status = "queued"
      BY <1>0, <2>1, <2>2, SetShape DEF Statuses
    <3>2. ran[wk.m] = 0
      BY <1>0, <2>1, <2>2 DEF Started
    <3> QED BY <1>0, <2>1, <2>2, <3>1, <3>2 DEF Started, ExecutedOnce
  <2> QED BY <1>1, <2>1, <2>2
<1>3. CASE L1Runs
  <2>1. /\ wk.pc = "l1" /\ wk'.pc = "record" /\ wk'.m = wk.m
        /\ UNCHANGED ctl /\ ran' = [ran EXCEPT ![wk.m] = @ + 1]
    BY <1>3 DEF L1Runs, Goto, storeVars, TypeOK, Worker
  <2>2. ran[wk.m] = 0 /\ ctl[Top(wk.m)].status # "none" /\ wk.m \in Requests
    BY <1>0, <2>1 DEF Started
  <2>3. ran'[wk.m] = 1 /\ \A p \in Requests : p # wk.m => ran'[p] = ran[p]
    BY <1>0, <2>1, <2>2
  <2> QED BY <1>0, <2>1, <2>2, <2>3 DEF Started, ExecutedOnce
<1>4. CASE \/ Take \/ ListOverdue \/ MarkOverdue \/ ReapFails \/ TellOverdue
           \/ FailsMessage \/ LeavesMessage \/ L1Ignores \/ L1Defers \/ L1Fails \/ Record \/ Reply \/ AckMessage
  <2>1. UNCHANGED ran
    BY <1>4 DEF Take, ListOverdue, MarkOverdue, ReapFails, TellOverdue, FailsMessage, LeavesMessage,
                L1Ignores, L1Defers, L1Fails, Record, Reply, AckMessage, doneVars
  <2>2. wk'.pc \notin {"l1", "record"}
    <3>1. CASE Take \/ FailsMessage \/ LeavesMessage \/ AckMessage
      BY <3>1 DEF Take, FailsMessage, LeavesMessage, AckMessage, WorkerIdle
    <3>2. CASE ReapFails \/ TellOverdue \/ L1Ignores \/ L1Defers \/ L1Fails \/ Record \/ Reply
      BY <3>2, GotoFacts DEF ReapFails, TellOverdue, L1Ignores, L1Defers, L1Fails, Record, Reply
    <3>3. CASE MarkOverdue
      BY <3>3 DEF MarkOverdue, TypeOK, Worker
    <3>4. CASE ListOverdue
      <4>1. CASE Overdue(ctl, due) = {}
        BY <3>4, <4>1, GotoFacts DEF ListOverdue
      <4>2. CASE Overdue(ctl, due) # {}
        BY <3>4, <4>2 DEF ListOverdue, TypeOK, Worker
      <4> QED BY <4>1, <4>2
    <3> QED BY <1>4, <3>1, <3>2, <3>3, <3>4
  <2> QED BY <1>1, <2>1, <2>2
<1>5. ASSUME NEW w \in Procs, Claiming(w) \/ Working(w) \/ \E x \in Tasks : Result(w, x)
      PROVE  (Started /\ ExecutedOnce)'
  <2>1. UNCHANGED <<ran, wk>>
    BY <1>5 DEF Claiming, Working, ClaimPending, ClaimAggregate, Dispatch, Complete, Decompose,
                FanOut, TryAggregate, RetryTriage, RetryAggregate, Drops, Tell, Result, Elsewhere
  <2> QED BY <1>1, <2>1
<1>6. ASSUME \/ \E m \in Messages : Arrive(m) \/ MessageLate(m)
             \/ \E p \in Requests : BecomesDue(p) \/ LeaseEnds(p)
             \/ HubRestart \/ UNCHANGED vars
      PROVE  (Started /\ ExecutedOnce)'
  <2>1. UNCHANGED ran /\ (UNCHANGED wk \/ wk' = WorkerIdle)
    BY <1>6 DEF Arrive, MessageLate, BecomesDue, LeaseEnds, HubRestart, vars, doneVars
  <2> QED BY <1>1, <2>1 DEF WorkerIdle
<1> QED BY <1>2, <1>3, <1>4, <1>5, <1>6 DEF Next, WorkerStep

\* An instruction is pushed only if the hub does not remember it, and then it does.
LEMMA RememberedKept == TypeOK /\ Remembered /\ [Next]_vars => Remembered'
<1> SUFFICES ASSUME TypeOK, Remembered, [Next]_vars PROVE Remembered'
  OBVIOUS
<1>0. pushed \in [Tasks -> Nat] /\ envs \subseteq Tasks /\ restarts \in Nat
  BY DEF TypeOK
<1>1. CASE UNCHANGED <<pushed, envs, restarts>>
  BY <1>1 DEF Remembered
<1>2. ASSUME NEW x \in Tasks, Pushed(x), UNCHANGED restarts PROVE Remembered'
  <2>1. CASE UNCHANGED <<envs, pushed>>
    BY <1>1, <1>2, <2>1
  <2>2. CASE x \notin envs /\ envs' = envs \union {x} /\ pushed' = [pushed EXCEPT ![x] = @ + 1]
    <3>1. pushed[x] <= restarts
      BY <1>0, <2>2 DEF Remembered
    <3>2. pushed'[x] = pushed[x] + 1 /\ \A y \in Tasks : y # x => pushed'[y] = pushed[y]
      BY <1>0, <2>2
    <3> QED BY <1>0, <1>2, <2>2, <3>1, <3>2 DEF Remembered
  <2> QED BY <1>2, <2>1, <2>2 DEF Pushed
<1>3. CASE HubRestart
  <2>1. envs' = {} /\ UNCHANGED pushed /\ restarts' = restarts + 1
    BY <1>3 DEF HubRestart
  <2>2. \A x \in Tasks : pushed[x] <= restarts + 1
    BY <1>0 DEF Remembered
  <2> QED BY <1>0, <2>1, <2>2 DEF Remembered
<1>4. CASE WorkerStep
  BY <1>1, <1>4 DEF WorkerStep, Take, ListOverdue, MarkOverdue, ReapFails, TellOverdue, Accept,
                   L1Ignores, L1Defers, L1Runs, L1Fails, Record, FailsMessage, LeavesMessage,
                   Reply, AckMessage, AtRest, doneVars
<1>5. ASSUME NEW w \in Procs, Claiming(w) \/ Working(w) \/ \E x \in Tasks : Result(w, x)
      PROVE  Remembered'
  <2>1. UNCHANGED restarts
    BY <1>5 DEF Claiming, Working, ClaimPending, ClaimAggregate, Dispatch, Complete, Decompose,
                FanOut, TryAggregate, RetryTriage, RetryAggregate, Drops, Tell, Result, Elsewhere
  <2>2. CASE Dispatch(w)
    <3>1. Mine(w) \in Tasks /\ Pushed(Mine(w))
      BY <2>2, Tops DEF Dispatch, Mine, TypeOK
    <3> QED BY <1>2, <2>1, <3>1
  <2>3. CASE FanOut(w)
    <3> DEFINE x == <<proc[w].p, proc[w].n>>
    <3>1. x \in Tasks /\ (Pushed(x) \/ UNCHANGED <<envs, pushed>>)
      BY <2>3 DEF FanOut, Kids
    <3> HIDE DEF x
    <3> QED BY <1>1, <1>2, <2>1, <3>1
  <2>4. CASE \/ Claiming(w) \/ Complete(w) \/ Decompose(w) \/ TryAggregate(w) \/ RetryTriage(w)
             \/ RetryAggregate(w) \/ Drops(w) \/ Tell(w) \/ \E x \in Tasks : Result(w, x)
    <3>1. UNCHANGED <<envs, pushed>>
      BY <2>4 DEF Claiming, ClaimPending, ClaimAggregate, Complete, Decompose, TryAggregate,
                  RetryTriage, RetryAggregate, Drops, Tell, Result
    <3> QED BY <1>1, <2>1, <3>1
  <2> QED BY <1>5, <2>2, <2>3, <2>4 DEF Working
<1>6. ASSUME \/ \E m \in Messages : Arrive(m) \/ MessageLate(m)
             \/ \E p \in Requests : BecomesDue(p) \/ LeaseEnds(p)
             \/ UNCHANGED vars
      PROVE  Remembered'
  BY <1>1, <1>6 DEF Arrive, MessageLate, BecomesDue, LeaseEnds, vars, doneVars
<1> QED BY <1>3, <1>4, <1>5, <1>6 DEF Next
-----------------------------------------------------------------------------
(* Who works on a request that is not due *)

\* A notice is about the end of a request.
LEMMA NoticeFacts == \A n \in Notices : n[1] \in Closed /\ n[2] \in Requests
BY DEF Notices, Closed

\* While L1 has a request that is not due nobody else has, and nothing was told.
LEMMA WorkerTop ==
  ASSUME TypeOK, Held, NEW p \in Requests, Changed(ctl, ctl', Top(p)),
         p \notin due => ctl[Top(p)].status \in {"none", "queued"},
         UNCHANGED <<due, proc>>
  PROVE  /\ ProcsHold' /\ NoEarlyOverlap'
         /\ \A n \in told : n[2] \in due \/ ctl'[Top(n[2])].status = n[1]
<1>0. /\ ctl \in Table /\ told \subseteq Notices
      /\ \A w \in Procs : proc[w].pc # "idle" => proc[w].p \in Requests
      /\ \A q \in Requests : q # p => ctl'[Top(q)] = ctl[Top(q)]
  BY TopChange DEF TypeOK, Table
<1>1. NoEarlyOverlap'
  BY DEF Held, NoEarlyOverlap, Deciding, Aggregating
<1>2. ASSUME NEW w \in Procs, proc[w].pc # "idle", proc[w].p \notin due PROVE ProcHolds(w)'
  <2>1. ProcHolds(w)
    BY <1>2 DEF Held, ProcsHold
  <2>2. CASE proc[w].p = p
    BY <2>1, <2>2, <1>2 DEF ProcHolds, Mine, Decided, Closed, Aggregating
  <2>3. CASE proc[w].p # p
    BY <1>0, <1>2, <2>1, <2>3 DEF ProcHolds, Mine, Aggregating
  <2> QED BY <2>2, <2>3
<1>3. ProcsHold'
  BY <1>2 DEF ProcsHold
<1>4. ASSUME NEW n \in told, n[2] \notin due PROVE ctl'[Top(n[2])].status = n[1]
  <2>1. n[1] \in Closed /\ n[2] \in Requests /\ ctl[Top(n[2])].status = n[1]
    BY <1>0, <1>4, NoticeFacts DEF Held, NoticeMatchesTable
  <2>2. n[2] # p
    BY <1>4, <2>1 DEF Closed
  <2> QED BY <1>0, <2>1, <2>2
<1> QED BY <1>1, <1>3, <1>4

\* The worker keeps Held.
LEMMA HeldWorker == TypeOK /\ Held /\ WorkerStep => Held'
<1> SUFFICES ASSUME TypeOK, Held, WorkerStep PROVE Held'
  OBVIOUS
<1>0. /\ ctl \in Table /\ wk.now \subseteq due /\ wk.list \subseteq due /\ due \subseteq Requests
      /\ wk.pc # "idle" => wk.m \in Requests /\ Top(wk.m) \in Tasks
      /\ UNCHANGED <<due, proc>>
      /\ {"queued", "ignored", "llm_pending", "done"} \subseteq Statuses
  <2>1. UNCHANGED <<due, proc>>
    BY DEF WorkerStep, Take, ListOverdue, MarkOverdue, ReapFails, TellOverdue, Accept, L1Ignores,
           L1Defers, L1Runs, L1Fails, Record, FailsMessage, LeavesMessage, Reply, AckMessage, AtRest
  <2> QED BY <2>1, Tops DEF TypeOK, Table, Held, ListsDue, Statuses, Closed
<1>1. ASSUME UNCHANGED <<ctl, told>>, wk'.pc \notin {"l1", "record"}, ListsDue' PROVE Held'
  BY <1>0, <1>1 DEF Held, WorkerHolds, ProcsHold, ProcHolds, Mine, NoEarlyOverlap, Deciding,
                    Aggregating, NoticeMatchesTable
<1>2. CASE Take \/ FailsMessage \/ LeavesMessage \/ Reply \/ AckMessage \/ ReapFails
  <2>1. UNCHANGED <<ctl, told>>
    BY <1>2 DEF Take, FailsMessage, LeavesMessage, Reply, AckMessage, ReapFails, doneVars, storeVars
  <2>2. wk'.pc \notin {"l1", "record"} /\ wk'.now = {} /\ wk'.list = {}
    BY <1>2, GotoFacts DEF Take, FailsMessage, LeavesMessage, Reply, AckMessage, ReapFails, WorkerIdle
  <2> QED BY <1>1, <2>1, <2>2 DEF ListsDue
<1>3. CASE ListOverdue
  <2>1. UNCHANGED <<ctl, told>>
    BY <1>3 DEF ListOverdue, doneVars, storeVars
  <2>2. CASE Overdue(ctl, due) = {}
    <3>1. wk'.pc = "accept" /\ wk'.now = {} /\ wk'.list = {}
      BY <1>3, <2>2, GotoFacts DEF ListOverdue
    <3> QED BY <1>1, <2>1, <3>1 DEF ListsDue
  <2>3. CASE Overdue(ctl, due) # {}
    <3>1. wk'.pc = "mark" /\ wk'.now = due /\ wk'.list = {p \in Requests : Top(p) \in Overdue(ctl, due)}
      BY <1>3, <2>3 DEF ListOverdue
    <3>2. wk'.list \subseteq due
      BY <3>1, Tops DEF Overdue
    <3> QED BY <1>0, <1>1, <2>1, <3>1, <3>2 DEF ListsDue
  <2> QED BY <2>2, <2>3
<1>4. CASE MarkOverdue
  <2>1. /\ ctl' = Expired(ctl, wk.now) /\ UNCHANGED told
        /\ wk'.pc = "tell" /\ wk'.now = wk.now /\ wk'.list = wk.list
    BY <1>4 DEF MarkOverdue, doneVars, TypeOK, Worker
  <2>2. \A p \in Requests : p \notin due => ctl'[Top(p)] = ctl[Top(p)]
    BY <1>0, <2>1, ExpiredShape, Tops
  <2>3. \A w \in Procs : proc[w].pc # "idle" => proc[w].p \in Requests
    BY DEF TypeOK
  <2>4. ProcsHold'
    BY <1>0, <2>2, <2>3 DEF Held, ProcsHold, ProcHolds, Mine, Aggregating
  <2>5. NoEarlyOverlap'
    BY <1>0 DEF Held, NoEarlyOverlap, Deciding, Aggregating
  <2>6. NoticeMatchesTable'
    <3>1. told \subseteq Notices
      BY DEF TypeOK
    <3> QED BY <1>0, <2>1, <2>2, <3>1, NoticeFacts DEF Held, NoticeMatchesTable
  <2> QED BY <1>0, <2>1, <2>4, <2>5, <2>6 DEF Held, ListsDue, WorkerHolds
<1>5. CASE TellOverdue
  <2>1. /\ told' = told \union ({"expired"} \X wk.list) /\ UNCHANGED ctl
        /\ wk'.pc = "accept" /\ wk'.now = {} /\ wk'.list = {}
    BY <1>5, GotoFacts DEF TellOverdue, storeVars
  <2>2. NoticeMatchesTable'
    BY <1>0, <2>1 DEF Held, NoticeMatchesTable
  <2> QED BY <1>0, <2>1, <2>2 DEF Held, ListsDue, WorkerHolds, ProcsHold, ProcHolds, Mine,
                                  NoEarlyOverlap, Deciding, Aggregating
<1>6. CASE L1Runs
  <2>1. UNCHANGED <<ctl, told>> /\ wk.pc = "l1" /\ wk'.m = wk.m /\ wk'.now = {} /\ wk'.list = {}
    BY <1>6, GotoFacts DEF L1Runs, storeVars
  <2> QED BY <1>0, <2>1 DEF Held, ListsDue, WorkerHolds, ProcsHold, ProcHolds, Mine, NoEarlyOverlap,
                            Deciding, Aggregating, NoticeMatchesTable
<1>7. CASE Accept
  <2>1. UNCHANGED told /\ wk.pc = "accept" /\ wk'.m = wk.m /\ wk'.now = {} /\ wk'.list = {}
    BY <1>7, GotoFacts DEF Accept, doneVars
  <2>2. CASE ctl[Top(wk.m)].status = "none"
    <3>1. ctl' = Set(ctl, Top(wk.m), "queued")
      BY <1>7, <2>2 DEF Accept
    <3>2. Changed(ctl, ctl', Top(wk.m)) /\ ctl'[Top(wk.m)].status = "queued" /\ wk.m \in Requests
      BY <1>0, <2>1, <3>1, SetShape
    <3>3. /\ ProcsHold' /\ NoEarlyOverlap'
          /\ \A n \in told : n[2] \in due \/ ctl'[Top(n[2])].status = n[1]
      BY <1>0, <2>2, <3>2, WorkerTop
    <3> QED BY <1>0, <2>1, <3>2, <3>3 DEF Held, ListsDue, WorkerHolds, NoticeMatchesTable
  <2>3. CASE ctl[Top(wk.m)].status # "none"
    <3>1. UNCHANGED ctl /\ wk'.pc \notin {"l1", "record"}
      BY <1>7, <2>3, GotoFacts DEF Accept
    <3> QED BY <1>1, <2>1, <3>1 DEF ListsDue
  <2> QED BY <2>2, <2>3
<1>8. ASSUME wk.pc \in {"l1", "record"}, Changed(ctl, ctl', Top(wk.m)),
             wk'.pc \notin {"l1", "record"}, wk'.now = {}, wk'.list = {},
             told' = told \/ (ctl'[Top(wk.m)].status = "failed" /\ told' = told \union {<<"failed", wk.m>>})
      PROVE  Held'
  <2>1. wk.m \in Requests /\ (wk.m \notin due => ctl[Top(wk.m)].status = "queued")
    BY <1>0, <1>8 DEF Held, WorkerHolds
  <2>2. /\ ProcsHold' /\ NoEarlyOverlap'
        /\ \A n \in told : n[2] \in due \/ ctl'[Top(n[2])].status = n[1]
    BY <1>0, <1>8, <2>1, WorkerTop
  <2>3. NoticeMatchesTable'
    BY <1>0, <1>8, <2>2 DEF NoticeMatchesTable
  <2> QED BY <1>8, <2>2, <2>3 DEF Held, ListsDue, WorkerHolds
<1>9. CASE L1Ignores \/ L1Defers \/ Record
  <2>1. /\ wk.pc \in {"l1", "record"} /\ UNCHANGED told
        /\ wk'.pc \notin {"l1", "record"} /\ wk'.now = {} /\ wk'.list = {}
    BY <1>9, GotoFacts DEF L1Ignores, L1Defers, Record, doneVars
  <2>2. Changed(ctl, ctl', Top(wk.m))
    BY <1>0, <1>9, <2>1, SetShape DEF L1Ignores, L1Defers, Record
  <2> QED BY <1>8, <2>1, <2>2
<1>10. CASE L1Fails
  <2>1. /\ wk.pc \in {"l1", "record"}
        /\ told' = told \/ (ctl'[Top(wk.m)].status = "failed" /\ told' = told \union {<<"failed", wk.m>>})
        /\ wk'.pc \notin {"l1", "record"} /\ wk'.now = {} /\ wk'.list = {}
    BY <1>10, GotoFacts DEF L1Fails
  <2>2. Changed(ctl, ctl', Top(wk.m))
    BY <1>0, <1>10, <2>1, RetriedShape DEF L1Fails
  <2> QED BY <1>8, <2>1, <2>2
<1> QED BY <1>2, <1>3, <1>4, <1>5, <1>6, <1>7, <1>9, <1>10 DEF WorkerStep

\* A step of one process about one request keeps Held if, unless the request
\* is due, it ends nothing that is ended and fits what the others hold.
LEMMA ProcTop ==
  ASSUME TypeOK, Held, NEW w \in Procs, NEW p \in Requests,
         \A q \in Requests : q # p => ctl'[Top(q)] = ctl[Top(q)],
         UNCHANGED <<due, wk, told>>,
         \A v \in Procs : v # w => proc'[v] = proc[v],
         proc'[w].pc # "idle" => proc'[w].p = p,
         p \notin due =>
           /\ ctl'[Top(p)] = ctl[Top(p)] \/ ctl[Top(p)].status \notin Closed \union {"queued"}
           /\ proc'[w].pc # "idle" => ProcHolds(w)'
           /\ \A v \in Procs : v # w /\ proc[v].pc # "idle" /\ proc[v].p = p =>
                /\ ProcHolds(v)'
                /\ ~(Deciding(v) /\ Deciding(w)') /\ ~(Aggregating(v) /\ Aggregating(w)')
  PROVE  Held'
<1>0. /\ told \subseteq Notices
      /\ wk.pc # "idle" => wk.m \in Requests
      /\ \A v \in Procs : proc[v].pc # "idle" => proc[v].p \in Requests
  BY DEF TypeOK
<1>1. ListsDue' /\ WorkerHolds'
  BY <1>0 DEF Held, ListsDue, WorkerHolds
<1>2. ASSUME NEW v \in Procs, proc'[v].pc # "idle", proc'[v].p \notin due PROVE ProcHolds(v)'
  <2>1. CASE v = w
    BY <1>2, <2>1
  <2>2. CASE v # w /\ proc[v].p = p
    BY <1>2, <2>2
  <2>3. CASE v # w /\ proc[v].p # p
    <3>1. ProcHolds(v) /\ proc'[v] = proc[v] /\ ctl'[Top(proc[v].p)] = ctl[Top(proc[v].p)]
      BY <1>0, <1>2, <2>3 DEF Held, ProcsHold
    <3> QED BY <3>1 DEF ProcHolds, Mine, Aggregating
  <2> QED BY <2>1, <2>2, <2>3
<1>3. ProcsHold'
  BY <1>2 DEF ProcsHold
<1>4. ASSUME NEW u \in Procs, NEW v \in Procs, u # v, proc'[u].p = proc'[v].p, proc'[u].p \notin due
      PROVE  (~(Deciding(u) /\ Deciding(v)) /\ ~(Aggregating(u) /\ Aggregating(v)))'
  <2>1. \A x \in Procs : (Deciding(x) \/ Aggregating(x))' => proc'[x].pc # "idle"
    BY DEF Deciding, Aggregating
  <2>2. \A x \in Procs : x # w => (Deciding(x)' <=> Deciding(x)) /\ (Aggregating(x)' <=> Aggregating(x))
    BY DEF Deciding, Aggregating
  <2>3. CASE u # w /\ v # w
    BY <1>4, <2>2, <2>3 DEF Held, NoEarlyOverlap
  <2>4. CASE u = w
    BY <1>4, <2>1, <2>2, <2>4
  <2>5. CASE v = w
    BY <1>4, <2>1, <2>2, <2>5
  <2> QED BY <2>3, <2>4, <2>5
<1>5. NoEarlyOverlap'
  BY <1>4 DEF NoEarlyOverlap
<1>6. NoticeMatchesTable'
  <2>1. \A n \in told : n[1] \in Closed /\ n[2] \in Requests
    BY <1>0, NoticeFacts
  <2> QED BY <2>1 DEF Held, NoticeMatchesTable
<1> QED BY <1>1, <1>3, <1>5, <1>6 DEF Held

\* Who decides about a request, or puts its reply together, does so alone.
LEMMA Alone ==
  ASSUME TypeOK, Held, NEW w \in Procs, NEW v \in Procs, v # w, proc[v].p = proc[w].p,
         proc[w].p \notin due, proc[v].pc # "idle"
  PROVE  /\ proc[w].pc \in {"triage", "complete"} => proc[v].pc = "try"
         /\ proc[w].pc = "aggregate" => proc[v].pc \in {"try", "fan", "retry"}
<1>1. proc[v].pc \in {"triage", "complete", "fan", "try", "aggregate", "retry", "tellDone", "tellFailed"}
  BY DEF TypeOK, Process
<1>2. /\ Mine(v) = Mine(w) /\ ProcHolds(v)
      /\ proc[w].pc # "idle" => ProcHolds(w)
      /\ ~(Deciding(v) /\ Deciding(w)) /\ ~(Aggregating(v) /\ Aggregating(w))
  BY DEF Held, ProcsHold, NoEarlyOverlap, Mine
<1> QED BY <1>1, <1>2 DEF ProcHolds, Deciding, Aggregating, Decided, Closed

\* The processes that have the request of another keep what they hold when its
\* status becomes a decided one.
LEMMA StillHolds ==
  ASSUME NEW v \in Procs, UNCHANGED <<proc[v]>>, proc[v].pc \in {"try", "fan", "retry"},
         proc[v].pc = "try" \/ ctl'[Mine(v)].status \in Decided
  PROVE  ProcHolds(v)'
BY DEF ProcHolds, Mine, Aggregating

\* The other processes keep Held.
LEMMA HeldProc ==
  ASSUME TypeOK, Held, NEW w \in Procs, Claiming(w) \/ Working(w) \/ \E x \in Tasks : Result(w, x)
  PROVE  Held'
<1> DEFINE p == proc[w].p
<1>0. /\ ctl \in Table /\ proc \in [Procs -> Process] /\ proc[w] \in Process
      /\ proc[w].pc # "idle" => p \in Requests /\ Mine(w) \in Tasks
      /\ Mine(w) = Top(p)
      /\ {"llm_pending", "aggregating", "awaiting_children", "done", "failed"} \subseteq Statuses
      /\ proc[w].pc # "idle" /\ p \notin due => ProcHolds(w)
  BY Tops DEF TypeOK, Table, Statuses, Closed, Mine, Held, ProcsHold
<1>00. UNCHANGED <<due, wk>>
  BY DEF Claiming, Working, ClaimPending, ClaimAggregate, Dispatch, Complete, Decompose,
         FanOut, TryAggregate, RetryTriage, RetryAggregate, Drops, Tell, Result, Elsewhere
<1>000. /\ \A pc : Step(w, pc) => /\ proc'[w].pc = pc /\ proc'[w].p = p
                                  /\ \A v \in Procs : v # w => proc'[v] = proc[v]
        /\ Rest(w) => proc'[w].pc = "idle" /\ \A v \in Procs : v # w => proc'[v] = proc[v]
  BY <1>0 DEF Step, Rest, ProcIdle, Process
<1> HIDE DEF p
<1>1. CASE ClaimPending(w)
  <2>1. PICK q \in Requests :
          /\ Pending(ctl, Top(q)) /\ ctl' = Hold(ctl, Top(q), "llm_pending")
          /\ proc' = [proc EXCEPT ![w] = [pc |-> "triage", p |-> q, n |-> 0, from |-> "triage"]]
    BY <1>1 DEF ClaimPending
  <2>2. /\ Changed(ctl, ctl', Top(q))
        /\ ctl'[Top(q)].status = "llm_pending" /\ ctl'[Top(q)].lease = "held"
    BY <1>0, <2>1, HoldShape, Tops
  <2>3. /\ proc'[w].pc = "triage" /\ proc'[w].p = q
        /\ \A v \in Procs : v # w => proc'[v] = proc[v]
    BY <1>0, <2>1
  <2>4. ctl[Top(q)].status = "llm_pending" /\ ctl[Top(q)].lease # "held"
    BY <2>1 DEF Pending
  <2>5. ProcHolds(w)'
    BY <2>2, <2>3 DEF ProcHolds, Mine, Aggregating
  <2>6. ASSUME NEW v \in Procs, v # w, proc[v].pc # "idle", proc[v].p = q, q \notin due
        PROVE  /\ ProcHolds(v)'
               /\ ~(Deciding(v) /\ Deciding(w)') /\ ~(Aggregating(v) /\ Aggregating(w)')
    <3>1. ProcHolds(v) /\ Mine(v) = Top(q)
      BY <2>6 DEF Held, ProcsHold, Mine
    <3>2. proc[v].pc \in {"triage", "complete", "fan", "try", "aggregate", "retry", "tellDone", "tellFailed"}
      BY <1>0, <2>6 DEF Process
    <3>3. proc[v].pc = "try"
      BY <2>4, <3>1, <3>2 DEF ProcHolds, Aggregating, Decided, Closed
    <3> QED BY <2>3, <2>6, <3>3, StillHolds DEF Deciding, Aggregating
  <2>7. \A r \in Requests : r # q => ctl'[Top(r)] = ctl[Top(r)]
    BY <1>0, <2>2, TopChange
  <2>8. UNCHANGED told
    BY <1>1 DEF ClaimPending
  <2> QED BY <1>00, <2>3, <2>4, <2>5, <2>6, <2>7, <2>8, ProcTop DEF Closed
<1>2. ASSUME NEW q \in Requests, UNCHANGED told,
             \/ ctl[Top(q)].status = "awaiting_children"
             \/ ctl[Top(q)].status = "aggregating" /\ ctl[Top(q)].lease # "held",
             ctl' = Hold(ctl, Top(q), "aggregating"),
             proc'[w].pc = "aggregate", proc'[w].p = q,
             \A v \in Procs : v # w => proc'[v] = proc[v]
      PROVE  Held'
  <2>1. /\ Changed(ctl, ctl', Top(q))
        /\ ctl'[Top(q)].status = "aggregating" /\ ctl'[Top(q)].lease = "held"
    BY <1>0, <1>2, HoldShape, Tops
  <2>2. ProcHolds(w)'
    BY <1>2, <2>1 DEF ProcHolds, Mine, Aggregating
  <2>3. ASSUME NEW v \in Procs, v # w, proc[v].pc # "idle", proc[v].p = q, q \notin due
        PROVE  /\ ProcHolds(v)'
               /\ ~(Deciding(v) /\ Deciding(w)') /\ ~(Aggregating(v) /\ Aggregating(w)')
    <3>1. ProcHolds(v) /\ Mine(v) = Top(q)
      BY <2>3 DEF Held, ProcsHold, Mine
    <3>2. proc[v].pc \in {"triage", "complete", "fan", "try", "aggregate", "retry", "tellDone", "tellFailed"}
      BY <1>0, <2>3 DEF Process
    <3>3. proc[v].pc \in {"try", "fan", "retry"}
      BY <1>2, <3>1, <3>2 DEF ProcHolds, Aggregating
    <3>4. ctl'[Mine(v)].status \in Decided
      BY <2>1, <3>1 DEF Decided
    <3> QED BY <1>2, <2>3, <3>3, <3>4, StillHolds DEF Deciding, Aggregating
  <2>4. \A r \in Requests : r # q => ctl'[Top(r)] = ctl[Top(r)]
    BY <1>0, <2>1, TopChange
  <2> QED BY <1>00, <1>2, <2>2, <2>3, <2>4, ProcTop DEF Closed
<1>3. CASE ClaimAggregate(w)
  <2>1. PICK q \in Requests :
          /\ Aggregable(ctl, q) /\ ctl' = Hold(ctl, Top(q), "aggregating")
          /\ proc' = [proc EXCEPT ![w] = [pc |-> "aggregate", p |-> q, n |-> 0, from |-> "aggregate"]]
    BY <1>3 DEF ClaimAggregate
  <2>2. /\ proc'[w].pc = "aggregate" /\ proc'[w].p = q
        /\ \A v \in Procs : v # w => proc'[v] = proc[v]
    BY <1>0, <2>1
  <2>3. UNCHANGED told
    BY <1>3 DEF ClaimAggregate
  <2> QED BY <1>2, <2>1, <2>2, <2>3 DEF Aggregable
\* w changes only what it is at.
<1>4. ASSUME UNCHANGED told, p \in Requests, \A q \in Requests : ctl'[Top(q)] = ctl[Top(q)],
             \A v \in Procs : v # w => proc'[v] = proc[v],
             proc'[w].pc # "idle" => proc'[w].p = p,
             p \notin due => /\ proc'[w].pc # "idle" => ProcHolds(w)'
                             /\ Deciding(w)' => Deciding(w)
                             /\ ~Aggregating(w)'
      PROVE  Held'
  <2>1. ASSUME NEW v \in Procs, v # w, proc[v].pc # "idle", proc[v].p = p, p \notin due
        PROVE  /\ ProcHolds(v)'
               /\ ~(Deciding(v) /\ Deciding(w)') /\ ~(Aggregating(v) /\ Aggregating(w)')
    <3>1. ProcHolds(v) /\ proc'[v] = proc[v] /\ ctl'[Mine(v)] = ctl[Mine(v)]
      BY <1>4, <2>1 DEF Held, ProcsHold, Mine
    <3>2. ProcHolds(v)'
      BY <3>1 DEF ProcHolds, Mine, Aggregating
    <3>3. ~(Deciding(v) /\ Deciding(w))
      BY <2>1 DEF Held, NoEarlyOverlap, p
    <3> QED BY <1>4, <2>1, <3>2, <3>3
  <2> QED BY <1>00, <1>4, <2>1, ProcTop
<1>5. CASE Dispatch(w)
  <2>1. /\ proc[w].pc = "triage" /\ UNCHANGED <<ctl, told>>
        /\ proc'[w].pc = "complete" /\ proc'[w].p = p
        /\ \A v \in Procs : v # w => proc'[v] = proc[v]
    BY <1>000, <1>5 DEF Dispatch
  <2>2. p \notin due => ProcHolds(w)'
    BY <1>0, <2>1 DEF ProcHolds, Mine, Aggregating, p
  <2> QED BY <1>0, <1>4, <2>1, <2>2 DEF Deciding, Aggregating
\* w ends what it has held alone: its status becomes a decided one, or it is
\* left to L2 again.
<1>6. ASSUME UNCHANGED told, proc[w].pc \in {"triage", "complete", "aggregate"}, p \in Requests,
             Changed(ctl, ctl', Top(p)),
             p \notin due => \/ ctl'[Top(p)].status \in Decided
                             \/ proc[w].pc # "aggregate" /\ ctl'[Top(p)].status = "llm_pending",
             \A v \in Procs : v # w => proc'[v] = proc[v],
             proc'[w].pc \in {"idle", "retry", "tellDone", "tellFailed"},
             proc'[w].pc # "idle" => proc'[w].p = p,
             proc'[w].pc = "retry" => ctl'[Top(p)].status \in Decided,
             proc'[w].pc = "tellDone" => ctl'[Top(p)].status = "done",
             proc'[w].pc = "tellFailed" => ctl'[Top(p)].status = "failed"
      PROVE  Held'
  <2>1. \A q \in Requests : q # p => ctl'[Top(q)] = ctl[Top(q)]
    BY <1>0, <1>6, TopChange
  <2>2. p \notin due => ctl[Top(p)].status \in {"llm_pending", "aggregating"}
    BY <1>0, <1>6 DEF ProcHolds, Aggregating
  <2>3. proc'[w].pc # "idle" => ProcHolds(w)'
    BY <1>6 DEF ProcHolds, Mine, Aggregating
  <2>4. ASSUME NEW v \in Procs, v # w, proc[v].pc # "idle", proc[v].p = p, p \notin due
        PROVE  /\ ProcHolds(v)'
               /\ ~(Deciding(v) /\ Deciding(w)') /\ ~(Aggregating(v) /\ Aggregating(w)')
    <3>1. /\ proc[w].pc \in {"triage", "complete"} => proc[v].pc = "try"
          /\ proc[w].pc = "aggregate" => proc[v].pc \in {"try", "fan", "retry"}
      BY <2>4, Alone DEF p
    <3>2. Mine(v) = Top(p) /\ proc'[v] = proc[v]
      BY <1>6, <2>4 DEF Mine
    <3>3. ProcHolds(v)'
      BY <1>6, <2>4, <3>1, <3>2, StillHolds
    <3>4. ~Deciding(w)' /\ ~Aggregating(w)'
      BY <1>6 DEF Deciding, Aggregating
    <3> QED BY <3>3, <3>4
  <2> QED BY <1>00, <1>6, <2>1, <2>2, <2>3, <2>4, ProcTop DEF Closed
<1>7. CASE Complete(w)
  <2>1. /\ proc[w].pc \in {"triage", "complete", "aggregate"} /\ UNCHANGED told
        /\ ctl' = Set(ctl, Mine(w), "done")
        /\ proc'[w].pc = "tellDone" /\ proc'[w].p = p
        /\ \A v \in Procs : v # w => proc'[v] = proc[v]
    BY <1>000, <1>7 DEF Complete
  <2>2. Changed(ctl, ctl', Top(p)) /\ ctl'[Top(p)].status = "done"
    BY <1>0, <2>1, SetShape
  <2> QED BY <1>0, <1>6, <2>1, <2>2 DEF Decided, Closed
<1>8. CASE RetryTriage(w)
  <2>1. /\ proc[w].pc \in {"triage", "complete", "retry"} /\ UNCHANGED told
        /\ ctl' = RetriedIf(ctl, Mine(w), "llm_pending", "llm_pending")
        /\ \/ ctl'[Mine(w)].status = "failed" /\ proc'[w].pc = "tellFailed" /\ proc'[w].p = p
           \/ proc'[w].pc = "idle"
        /\ \A v \in Procs : v # w => proc'[v] = proc[v]
    BY <1>000, <1>8 DEF RetryTriage
  <2>2. /\ Changed(ctl, ctl', Top(p))
        /\ ctl[Top(p)].status = "llm_pending" => ctl'[Top(p)].status \in {"llm_pending", "failed"}
        /\ ctl[Top(p)].status # "llm_pending" => ctl'[Top(p)] = ctl[Top(p)]
    BY <1>0, <2>1, RetriedIfShape
  <2>3. CASE proc[w].pc \in {"triage", "complete"}
    <3>1. p \notin due => ctl[Top(p)].status = "llm_pending"
      BY <1>0, <2>3 DEF ProcHolds
    <3> QED BY <1>0, <1>6, <2>1, <2>2, <2>3, <3>1 DEF Decided, Closed
  <2>4. CASE proc[w].pc = "retry" /\ ctl[Top(p)].status # "llm_pending"
    <3>1. \A q \in Requests : ctl'[Top(q)] = ctl[Top(q)]
      BY <1>0, <2>2, <2>4, TopChange
    <3>2. proc'[w].pc # "idle" => ProcHolds(w)'
      BY <1>0, <2>1 DEF ProcHolds, Mine, Aggregating
    <3>3. ~Deciding(w)' /\ ~Aggregating(w)'
      BY <2>1 DEF Deciding, Aggregating
    <3> QED BY <1>0, <1>4, <2>1, <2>4, <3>1, <3>2, <3>3
  <2>5. CASE proc[w].pc = "retry" /\ ctl[Top(p)].status = "llm_pending"
    <3>1. p \in due
      BY <1>0, <2>5 DEF ProcHolds, Decided, Closed
    <3>2. \A q \in Requests : q # p => ctl'[Top(q)] = ctl[Top(q)]
      BY <1>0, <2>2, <2>5, TopChange
    <3> QED BY <1>0, <1>00, <2>1, <2>5, <3>1, <3>2, ProcTop
  <2> QED BY <2>1, <2>3, <2>4, <2>5
<1>9. CASE RetryAggregate(w)
  <2>1. /\ proc[w].pc = "aggregate" /\ UNCHANGED told
        /\ ctl' = RetriedIf(ctl, Mine(w), "aggregating", "awaiting_children")
        /\ \/ ctl'[Mine(w)].status = "failed" /\ proc'[w].pc = "tellFailed" /\ proc'[w].p = p
           \/ proc'[w].pc = "retry" /\ proc'[w].p = p
           \/ proc'[w].pc = "idle"
        /\ \A v \in Procs : v # w => proc'[v] = proc[v]
    BY <1>000, <1>9 DEF RetryAggregate
  <2>2. /\ Changed(ctl, ctl', Top(p))
        /\ ctl[Top(p)].status = "aggregating" => ctl'[Top(p)].status \in {"awaiting_children", "failed"}
    BY <1>0, <2>1, RetriedIfShape
  <2>3. CASE p \in due
    <3>1. \A q \in Requests : q # p => ctl'[Top(q)] = ctl[Top(q)]
      BY <1>0, <2>1, <2>2, TopChange
    <3> QED BY <1>0, <1>00, <2>1, <2>3, <3>1, ProcTop
  <2>4. CASE p \notin due
    <3>1. ctl[Top(p)].status = "aggregating"
      BY <1>0, <2>1, <2>4 DEF ProcHolds, Aggregating
    <3> QED BY <1>0, <1>6, <2>1, <2>2, <2>4, <3>1 DEF Decided, Closed
  <2> QED BY <2>3, <2>4
<1>15. CASE Drops(w)
  <2>1. /\ UNCHANGED <<ctl, told>> /\ proc[w].pc # "idle"
        /\ \/ proc'[w].pc = "idle"
           \/ proc[w].pc \in {"aggregate", "fan"} /\ proc'[w].pc = "retry" /\ proc'[w].p = p
        /\ \A v \in Procs : v # w => proc'[v] = proc[v]
    BY <1>000, <1>15 DEF Drops
  <2>2. p \notin due /\ proc'[w].pc # "idle" => ProcHolds(w)'
    BY <1>0, <2>1 DEF ProcHolds, Mine, Aggregating, Decided, p
  <2> QED BY <1>0, <1>4, <2>1, <2>2 DEF Deciding, Aggregating
<1>10. CASE Decompose(w)
  <2>1. /\ proc[w].pc = "triage" /\ UNCHANGED told
        /\ proc' = [proc EXCEPT ![w].pc = "fan", ![w].n = 1]
    BY <1>10 DEF Decompose
  <2>2. PICK n \in 1..MaxSubs : ctl' = Decomposed(ctl, p, n)
    BY <1>10 DEF Decompose, p
  <2>3. /\ ctl'[Top(p)].status = "awaiting_children"
        /\ \A q \in Requests : q # p => ctl'[Top(q)] = ctl[Top(q)]
    BY <1>0, <2>1, <2>2, DecomposedShape
  <2>4. /\ proc'[w].pc = "fan" /\ proc'[w].p = p
        /\ \A v \in Procs : v # w => proc'[v] = proc[v]
    BY <1>0, <2>1 DEF Process, p
  <2>5. ProcHolds(w)'
    BY <2>3, <2>4 DEF ProcHolds, Mine, Aggregating, Decided
  <2>6. ASSUME NEW v \in Procs, v # w, proc[v].pc # "idle", proc[v].p = p, p \notin due
        PROVE  /\ ProcHolds(v)'
               /\ ~(Deciding(v) /\ Deciding(w)') /\ ~(Aggregating(v) /\ Aggregating(w)')
    <3>1. proc[v].pc = "try" /\ proc'[v] = proc[v]
      BY <2>1, <2>4, <2>6, Alone DEF p
    <3> QED BY <3>1, StillHolds DEF Deciding, Aggregating
  <2>7. p \notin due => ctl[Top(p)].status = "llm_pending"
    BY <1>0, <2>1 DEF ProcHolds
  <2> QED BY <1>0, <1>00, <2>1, <2>3, <2>4, <2>5, <2>6, <2>7, ProcTop DEF Closed
<1>11. CASE FanOut(w)
  <2> DEFINE x == <<proc[w].p, proc[w].n>>
  <2>1. /\ x \in Tasks /\ x[2] # 0 /\ proc[w].pc = "fan" /\ UNCHANGED told
        /\ proc' = [proc EXCEPT ![w].n = @ + 1]
        /\ ctl' = ctl \/ ctl' = Set(ctl, x, "failed")
    BY <1>11 DEF FanOut, Kids
  <2>2. \A q \in Requests : ctl'[Top(q)] = ctl[Top(q)]
    <3>1. CASE ctl' = Set(ctl, x, "failed")
      <4>1. Changed(ctl, ctl', x)
        BY <1>0, <2>1, <3>1, SetShape
      <4> QED BY <2>1, <4>1, Tops DEF Changed
    <3> QED BY <2>1, <3>1
  <2>3. /\ proc'[w].pc = "fan" /\ proc'[w].p = p
        /\ \A v \in Procs : v # w => proc'[v] = proc[v]
    BY <1>0, <2>1 DEF Process, p
  <2>4. p \notin due => ProcHolds(w)'
    BY <1>0, <2>1, <2>2, <2>3 DEF ProcHolds, Mine, Aggregating
  <2> QED BY <1>0, <1>4, <2>1, <2>2, <2>3, <2>4 DEF Deciding, Aggregating
<1>12. CASE TryAggregate(w)
  <2>1. proc[w].pc \in {"try", "fan"} /\ UNCHANGED told
    BY <1>12 DEF TryAggregate
  <2>2. CASE Aggregated(ctl, p)
    <3>1. /\ ctl' = Hold(ctl, Top(p), "aggregating") /\ ctl[Top(p)].status = "awaiting_children"
          /\ proc'[w].pc = "aggregate" /\ proc'[w].p = p
          /\ \A v \in Procs : v # w => proc'[v] = proc[v]
      BY <1>0, <1>000, <1>12, <2>2 DEF TryAggregate, Aggregated, p
    <3> QED BY <1>0, <1>2, <2>1, <3>1
  <2>3. CASE ~Aggregated(ctl, p)
    <3>1. UNCHANGED ctl /\ proc'[w].pc = "idle" /\ \A v \in Procs : v # w => proc'[v] = proc[v]
      BY <1>000, <1>12, <2>3 DEF TryAggregate, p
    <3> QED BY <1>0, <1>4, <2>1, <3>1 DEF Deciding, Aggregating
  <2> QED BY <2>2, <2>3
<1>13. CASE Tell(w)
  <2>1. /\ UNCHANGED ctl /\ proc[w].pc \in {"tellDone", "tellFailed"}
        /\ told' = told \union {<<IF proc[w].pc = "tellDone" THEN "done" ELSE "failed", p>>}
        /\ proc'[w].pc = "idle" /\ \A v \in Procs : v # w => proc'[v] = proc[v]
    BY <1>000, <1>13 DEF Tell, p
  <2>2. NoticeMatchesTable'
    BY <1>0, <1>00, <2>1 DEF Held, NoticeMatchesTable, ProcHolds
  <2>3. ProcsHold'
    BY <1>00, <2>1 DEF Held, ProcsHold, ProcHolds, Mine, Aggregating
  <2>4. NoEarlyOverlap'
    BY <1>00, <2>1 DEF Held, NoEarlyOverlap, Deciding, Aggregating
  <2> QED BY <1>00, <2>1, <2>2, <2>3, <2>4 DEF Held, ListsDue, WorkerHolds
<1>14. ASSUME NEW x \in Tasks, Result(w, x) PROVE Held'
  <2>1. /\ x[1] \in Requests /\ x[2] # 0 /\ UNCHANGED told
        /\ ctl' = Set(ctl, x, "done")
        /\ proc' = [proc EXCEPT ![w] = [pc |-> "try", p |-> x[1], n |-> 0, from |-> "result"]]
    BY <1>14 DEF Result, Tasks
  <2>2. Changed(ctl, ctl', x)
    BY <1>0, <2>1, SetShape
  <2>3. \A q \in Requests : ctl'[Top(q)] = ctl[Top(q)]
    BY <2>1, <2>2, Tops DEF Changed
  <2>4. /\ proc'[w].pc = "try" /\ proc'[w].p = x[1]
        /\ \A v \in Procs : v # w => proc'[v] = proc[v]
    BY <1>0, <2>1
  <2>5. ProcHolds(w)' /\ ~Deciding(w)' /\ ~Aggregating(w)'
    BY <2>4 DEF ProcHolds, Deciding, Aggregating
  <2>6. ASSUME NEW v \in Procs, v # w, proc[v].pc # "idle", proc[v].p = x[1], x[1] \notin due
        PROVE  ProcHolds(v)'
    BY <2>1, <2>3, <2>4, <2>6 DEF Held, ProcsHold, ProcHolds, Mine, Aggregating
  <2> QED BY <1>00, <2>1, <2>3, <2>4, <2>5, <2>6, ProcTop
<1> QED BY <1>1, <1>3, <1>5, <1>7, <1>8, <1>9, <1>10, <1>11, <1>12, <1>13, <1>14,
           <1>15
        DEF Claiming, Working

\* Messages, the clock and restarts keep Held: what becomes due is no longer
\* claimed to be in order, and after a restart nobody holds anything.
LEMMA HeldRest ==
  ASSUME TypeOK, Held,
         \/ \E m \in Messages : Arrive(m) \/ MessageLate(m)
         \/ \E p \in Requests : BecomesDue(p) \/ LeaseEnds(p)
         \/ HubRestart \/ UNCHANGED vars
  PROVE  Held'
<1>0. /\ told \subseteq Notices /\ ctl \in Table
      /\ \A w \in Procs : proc[w].pc # "idle" => proc[w].p \in Requests
      /\ wk.pc # "idle" => wk.m \in Requests
  BY DEF TypeOK, Table
<1>1. ASSUME UNCHANGED <<wk, proc, told>>, due \subseteq due',
             \A q \in Requests : q \notin due' => ctl'[Top(q)] = ctl[Top(q)]
      PROVE  Held'
  <2>1. ListsDue' /\ WorkerHolds'
    BY <1>0, <1>1 DEF Held, ListsDue, WorkerHolds
  <2>2. ProcsHold'
    BY <1>0, <1>1 DEF Held, ProcsHold, ProcHolds, Mine, Aggregating
  <2>3. NoEarlyOverlap'
    BY <1>1 DEF Held, NoEarlyOverlap, Deciding, Aggregating
  <2>4. NoticeMatchesTable'
    BY <1>0, <1>1, NoticeFacts DEF Held, NoticeMatchesTable
  <2> QED BY <2>1, <2>2, <2>3, <2>4 DEF Held
<1>2. CASE \/ \E m \in Messages : Arrive(m) \/ MessageLate(m)
           \/ \E p \in Requests : BecomesDue(p)
           \/ UNCHANGED vars
  BY <1>1, <1>2 DEF Arrive, MessageLate, BecomesDue, vars, storeVars, doneVars
<1>3. ASSUME NEW p \in Requests, LeaseEnds(p) PROVE Held'
  <2>1. /\ p \in due /\ UNCHANGED <<due, wk, proc, told>>
        /\ ctl' = [ctl EXCEPT ![Top(p)].lease = "over"]
    BY <1>3 DEF LeaseEnds, doneVars
  <2>2. \A q \in Requests : q # p => ctl'[Top(q)] = ctl[Top(q)]
    BY <1>0, <2>1, Tops DEF Table
  <2> QED BY <1>1, <2>1, <2>2
<1>4. CASE HubRestart
  <2>1. /\ UNCHANGED <<due, ctl, told>>
        /\ wk'.pc = "idle" /\ wk'.now = {} /\ wk'.list = {}
        /\ \A w \in Procs : proc'[w].pc = "idle"
    BY <1>4 DEF HubRestart, WorkerIdle, ProcIdle
  <2> QED BY <1>0, <2>1 DEF Held, ListsDue, WorkerHolds, ProcsHold, NoEarlyOverlap, Deciding,
                            Aggregating, NoticeMatchesTable
<1> QED BY <1>2, <1>3, <1>4
-----------------------------------------------------------------------------
(* The theorems *)

\* Before the first message everything is in order.
LEMMA OrderlyInit == Init => Orderly
<1> SUFFICES ASSUME Init PROVE Orderly
  OBVIOUS
<1>1. /\ TypeOK /\ told = {} /\ ran = [p \in Requests |-> 0] /\ pushed = [x \in Tasks |-> 0]
      /\ wk.pc = "idle" /\ wk.now = {} /\ wk.list = {} /\ restarts = 0
      /\ \A w \in Procs : proc[w].pc = "idle"
      /\ \A p \in Requests : ctl[Top(p)].status = "none"
  BY TypeInit, Tops DEF Init, WorkerIdle, ProcIdle, NoTask
<1>2. Started /\ ExecutedOnce /\ Remembered
  BY <1>1 DEF Started, ExecutedOnce, Remembered
<1>3. HaveKids /\ AggregatesClosed
  BY <1>1 DEF HaveKids, AggregatesClosed
<1>4. Held
  BY <1>1 DEF Held, ListsDue, WorkerHolds, ProcsHold, NoEarlyOverlap, Deciding, Aggregating,
              NoticeMatchesTable
<1> QED BY <1>1, <1>2, <1>3, <1>4 DEF Orderly

\* Every step keeps the order.
LEMMA OrderlyStep == Orderly /\ [Next]_vars => Orderly'
<1> SUFFICES ASSUME Orderly, [Next]_vars PROVE Orderly'
  OBVIOUS
<1>1. TypeOK /\ Held
  BY DEF Orderly
<1>2. TypeOK' /\ (Started /\ ExecutedOnce)' /\ Remembered'
  BY TypeStep, StartedKept, RememberedKept DEF Orderly
<1>3. (HaveKids /\ AggregatesClosed)'
  BY Tables, ParentsKept DEF Orderly
<1>4. Held'
  BY <1>1, HeldWorker, HeldProc, HeldRest DEF Next
<1> QED BY <1>2, <1>3, <1>4 DEF Orderly

\* The inductive invariant holds in every state.
THEOREM OrderlyAlways == Spec => []Orderly
BY OrderlyInit, OrderlyStep, PTL DEF Spec

\* L1 carries a command out at most once, however often its message is taken
\* again after a failure or a restart.
THEOREM ExecutedAtMostOnce == Spec => []ExecutedOnce
<1>1. Orderly => ExecutedOnce
  BY DEF Orderly
<1> QED BY <1>1, OrderlyAlways, PTL

\* An instruction is written to its session at most once in a life of the hub.
THEOREM InstructedAtMostOnce == Spec => []InstructedOncePerLife
<1>1. Orderly => InstructedOncePerLife
  <2> SUFFICES ASSUME Orderly, NEW x \in Tasks PROVE pushed[x] <= 1 + restarts
    BY DEF InstructedOncePerLife
  <2>1. pushed[x] \in Nat /\ restarts \in Nat
    BY DEF Orderly, TypeOK
  <2>2. pushed[x] <= restarts + (IF x \in envs THEN 1 ELSE 0)
    BY DEF Orderly, Remembered
  <2> QED BY <2>1, <2>2
<1> QED BY <1>1, OrderlyAlways, PTL

\* The reply of a decomposed request is put together only from subtasks that
\* are all closed.
THEOREM AggregatesAlwaysClosed == Spec => []AggregatesClosed
<1>1. Orderly => AggregatesClosed
  BY DEF Orderly
<1> QED BY <1>1, OrderlyAlways, PTL

\* Before a request is due no two goroutines decide about it or aggregate it.
THEOREM NoOverlapBeforeDue == Spec => []NoEarlyOverlap
<1>1. Orderly => NoEarlyOverlap
  BY DEF Orderly, Held
<1> QED BY <1>1, OrderlyAlways, PTL

\* Before a request is due, the notices about its end agree with its row.
THEOREM NoticesAlwaysMatch == Spec => []NoticeMatchesTable
<1>1. Orderly => NoticeMatchesTable
  BY DEF Orderly, Held
<1> QED BY <1>1, OrderlyAlways, PTL
=============================================================================
