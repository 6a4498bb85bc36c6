---------------------------- MODULE ControlTasks ----------------------------
(***************************************************************************)
(* The control plane of the hub (internal/m8/hub.go): each inbound message *)
(* becomes a control task.  The inbound worker answers it by rule (L1) or  *)
(* leaves it to the workers of L2, which ask a language model whether to   *)
(* dispatch it to a session, to ask back, or to decompose it into subtasks *)
(* whose results are aggregated.                                           *)
(*                                                                         *)
(* Processes: the inbound worker (one goroutine), the L2 workers, and the  *)
(* read loops of sessions that bring results of subtasks.  A step is one   *)
(* statement or transaction of the store, one call of the model or one     *)
(* write to a session; a restart may come between any two of them.         *)
(***************************************************************************)
EXTENDS Naturals, FiniteSets, MessageTable, ControlTable

CONSTANTS
  L2Workers, Readers,   \* processes: L2 workers, read loops of sessions
  NoRequest,            \* what an idle process works on
  Kinds,                \* of messages; "chatter" is one of a group that is no command
  MaxRestart,           \* bound: restarts of the hub
  MaxTaken,             \* bound: how often a message is taken, if it is left in processing
  StoreFaults           \* whether a write of the store may fail

Procs == L2Workers \union Readers

ASSUME ProcessAssumption ==
  /\ Requests = Messages /\ NoRequest \notin Requests /\ L2Workers \intersect Readers = {}
  /\ Kinds \subseteq {"chatter", "command", "natural"}
  /\ MaxRestart \in Nat /\ MaxTaken \in Nat /\ StoreFaults \in BOOLEAN

VARIABLES
  msgs,         \* the message table, inbound direction
  ctl,          \* the control_task table
  due,          \* requests whose expire_at has passed
  kind,         \* what a message is, as L1 sees it
  wk,           \* the inbound worker
  proc,         \* the other processes
  envs,         \* envelope ids the hub remembers, in memory
  ran,          \* how often L1 has carried out a request
  pushed,       \* how often an instruction was pushed to a session
  replied,      \* messages the worker has replied to
  told,         \* notices about tasks, handed to the outbound queue
  restarts

storeVars == <<msgs, ctl>>
doneVars  == <<envs, ran, pushed, replied, told>>
vars == <<storeVars, due, kind, wk, proc, doneVars, restarts>>

\* now: due when the reaper looked at the clock; list: requests it has found.
Worker == [pc : {"idle", "list", "mark", "tell", "accept", "l1", "record", "reply", "ack"},
           m : Messages \union {NoRequest}, now : SUBSET Requests, list : SUBSET Requests]
WorkerIdle == [pc |-> "idle", m |-> NoRequest, now |-> {}, list |-> {}]

\* p: the request; n: the subtask to be routed next; how the process came by it.
Process == [pc : {"idle", "triage", "complete", "fan", "try", "aggregate", "retry",
                  "tellDone", "tellFailed"},
            p : Requests \union {NoRequest}, n : 0..(MaxSubs + 1),
            from : {"nowhere", "triage", "aggregate", "result"}]
ProcIdle == [pc |-> "idle", p |-> NoRequest, n |-> 0, from |-> "nowhere"]

Notices == {"done", "failed", "expired"} \X Requests

TypeOK ==
  /\ msgs \in [Messages -> MessageRow] /\ ctl \in [Tasks -> TaskRow]
  /\ due \subseteq Requests /\ kind \in [Messages -> Kinds]
  /\ wk \in Worker /\ (wk.pc # "idle" => wk.m \in Messages)
  /\ proc \in [Procs -> Process] /\ \A w \in Procs : proc[w].pc # "idle" => proc[w].p \in Requests
  /\ envs \subseteq Tasks /\ ran \in [Requests -> Nat] /\ pushed \in [Tasks -> Nat]
  /\ replied \subseteq Messages /\ told \subseteq Notices
  /\ restarts \in 0..MaxRestart

Init ==
  /\ msgs = [m \in Messages |-> NoMessage] /\ ctl = [x \in Tasks |-> NoTask]
  /\ due = {} /\ kind \in [Messages -> Kinds]
  /\ wk = WorkerIdle /\ proc = [w \in Procs |-> ProcIdle]
  /\ envs = {} /\ ran = [p \in Requests |-> 0] /\ pushed = [x \in Tasks |-> 0]
  /\ replied = {} /\ told = {} /\ restarts = 0

-----------------------------------------------------------------------------
(* The inbound worker: ProcessOne, and Dispatch for the message it has taken *)

Arrive(m) ==
  /\ msgs[m].status = "none"
  /\ msgs' = Enqueued(msgs, {m})
  /\ UNCHANGED <<ctl, due, kind, wk, proc, doneVars, restarts>>

Goto(pc) == wk' = [pc |-> pc, m |-> wk.m, now |-> {}, list |-> {}]
AtRest   == UNCHANGED <<due, kind, proc, restarts>>

Take ==
  /\ wk.pc = "idle"
  /\ \E m \in Claimable(msgs) :
       /\ msgs' = Taken(msgs, m)
       /\ wk' = [pc |-> "list", m |-> m, now |-> {}, list |-> {}]
  /\ UNCHANGED <<ctl, doneVars>> /\ AtRest

\* ReapExpiredControlTasks is a SELECT and an UPDATE, not one transaction; the
\* notices then go to the requests of the SELECT (subtasks have no address).
ListOverdue ==
  /\ wk.pc = "list"
  /\ IF Overdue(ctl, due) = {}
     THEN Goto("accept")
     ELSE wk' = [pc |-> "mark", m |-> wk.m, now |-> due,
                 list |-> {p \in Requests : Top(p) \in Overdue(ctl, due)}]
  /\ UNCHANGED <<storeVars, doneVars>> /\ AtRest

\* An error of either statement is dropped: nothing is told.
ReapFails ==
  /\ StoreFaults /\ wk.pc \in {"list", "mark"}
  /\ Goto("accept")
  /\ UNCHANGED <<storeVars, doneVars>> /\ AtRest

MarkOverdue ==
  /\ wk.pc = "mark"
  /\ ctl' = Expired(ctl, wk.now)
  /\ wk' = [wk EXCEPT !.pc = "tell"]
  /\ UNCHANGED <<msgs, doneVars>> /\ AtRest

TellOverdue ==
  /\ wk.pc = "tell"
  /\ told' = told \union ({"expired"} \X wk.list)
  /\ Goto("accept")
  /\ UNCHANGED <<storeVars, envs, ran, pushed, replied>> /\ AtRest

\* Mutant: a request that is known but was not finished is carried out again.
AcceptAgain ==
  /\ wk.pc = "accept"
  /\ IF ctl[Top(wk.m)].status \in {"none", "queued"}
     THEN /\ ctl' = Set(ctl, Top(wk.m), "queued")
          /\ Goto("l1")
     ELSE /\ Goto(IF ctl[Top(wk.m)].status = "ignored" THEN "ack" ELSE "reply")
          /\ UNCHANGED ctl
  /\ UNCHANGED <<msgs, doneVars>> /\ AtRest

\* EnqueueControlTask.  A request that is known is not dispatched again: its
\* result is repeated, or its acceptance.
Accept ==
  /\ wk.pc = "accept"
  /\ IF ctl[Top(wk.m)].status = "none"
     THEN /\ ctl' = Set(ctl, Top(wk.m), "queued")
          /\ Goto("l1")
     ELSE /\ Goto(IF ctl[Top(wk.m)].status = "ignored" THEN "ack" ELSE "reply")
          /\ UNCHANGED ctl
  /\ UNCHANGED <<msgs, doneVars>> /\ AtRest

\* No explicit intent in a group, or no rule that matches: silence.
L1Ignores ==
  /\ wk.pc = "l1" /\ kind[wk.m] = "chatter"
  /\ ctl' = Set(ctl, Top(wk.m), "ignored")
  /\ Goto("ack")
  /\ UNCHANGED <<msgs, doneVars>> /\ AtRest

\* No rule matches a message of a person: left to L2.
L1Defers ==
  /\ wk.pc = "l1" /\ kind[wk.m] = "natural"
  /\ ctl' = Set(ctl, Top(wk.m), "llm_pending")
  /\ Goto("reply")
  /\ UNCHANGED <<msgs, doneVars>> /\ AtRest

\* A rule matches and is carried out: a push to a session, a command.
L1Runs ==
  /\ wk.pc = "l1" /\ kind[wk.m] = "command"
  /\ ran' = [ran EXCEPT ![wk.m] = @ + 1]
  /\ Goto("record")
  /\ UNCHANGED <<storeVars, envs, pushed, replied, told>> /\ AtRest

\* A rule fails.  The task goes back to queued, from where nobody takes it.
L1Fails ==
  /\ wk.pc = "l1" /\ kind[wk.m] # "chatter"
  /\ ctl' = Retried(ctl, Top(wk.m), "queued")
  /\ told' = IF ctl'[Top(wk.m)].status = "failed" THEN told \union {<<"failed", wk.m>>} ELSE told
  /\ Goto("reply")
  /\ UNCHANGED <<msgs, envs, ran, pushed, replied>> /\ AtRest

\* The result of a rule may be without a reply.
Record ==
  /\ wk.pc = "record"
  /\ ctl' = Set(ctl, Top(wk.m), "done")
  /\ Goto("reply") \/ Goto("ack")
  /\ UNCHANGED <<msgs, doneVars>> /\ AtRest

\* Dispatch returns an error of the store, or Feishu does not take the reply:
\* ProcessOne fails the message.
FailsMessage ==
  /\ wk.pc = "reply" \/ (StoreFaults /\ wk.pc \in {"accept", "l1", "record"})
  /\ msgs' = Failed(msgs, wk.m)
  /\ wk' = WorkerIdle
  /\ UNCHANGED <<ctl, doneVars>> /\ AtRest

Reply ==
  /\ wk.pc = "reply"
  /\ replied' = replied \union {wk.m}
  /\ Goto("ack")
  /\ UNCHANGED <<storeVars, envs, ran, pushed, told>> /\ AtRest

AckMessage ==
  /\ wk.pc = "ack"
  /\ msgs' = Acked(msgs, wk.m)
  /\ wk' = WorkerIdle
  /\ UNCHANGED <<ctl, doneVars>> /\ AtRest

\* The error of the UPDATE that acknowledges or fails a message is dropped: the
\* message stays in processing, and is taken again when that has lasted too long.
LeavesMessage ==
  /\ StoreFaults /\ wk.pc \in {"accept", "l1", "record", "reply", "ack"}
  /\ wk' = WorkerIdle
  /\ UNCHANGED <<storeVars, doneVars>> /\ AtRest

-----------------------------------------------------------------------------
(* L2: runL2Worker, processL2Task, and what a session's result starts *)

Step(w, pc) == proc' = [proc EXCEPT ![w].pc = pc]
Rest(w)     == proc' = [proc EXCEPT ![w] = ProcIdle]
Mine(w)     == Top(proc[w].p)
Elsewhere   == UNCHANGED <<msgs, due, kind, wk, ran, replied, restarts>>

ClaimPending(w) ==
  /\ w \in L2Workers /\ proc[w].pc = "idle"
  /\ \E p \in Requests :
       /\ Pending(ctl, Top(p))
       /\ ctl' = Hold(ctl, Top(p), "llm_pending")
       /\ proc' = [proc EXCEPT ![w] = [pc |-> "triage", p |-> p, n |-> 0, from |-> "triage"]]
  /\ UNCHANGED <<envs, pushed, told>> /\ Elsewhere

\* Asked when there was nothing to decide; there may be something by now.
ClaimAggregate(w) ==
  /\ w \in L2Workers /\ proc[w].pc = "idle"
  /\ \E p \in Requests :
       /\ Aggregable(ctl, p)
       /\ ctl' = Hold(ctl, Top(p), "aggregating")
       /\ proc' = [proc EXCEPT ![w] = [pc |-> "aggregate", p |-> p, n |-> 0, from |-> "aggregate"]]
  /\ UNCHANGED <<envs, pushed, told>> /\ Elsewhere

\* Mutant: the hub does not remember what it has pushed.
PushedAgain(x) ==
  /\ pushed' = [pushed EXCEPT ![x] = @ + 1]
  /\ UNCHANGED envs

\* routeL2Target succeeds: the instruction is written to a session, unless the
\* hub remembers the id of its envelope.
Pushed(x) ==
  \/ /\ x \notin envs
     /\ envs' = envs \union {x}
     /\ pushed' = [pushed EXCEPT ![x] = @ + 1]
  \/ x \in envs /\ UNCHANGED <<envs, pushed>>

\* The model names one session.
Dispatch(w) ==
  /\ proc[w].pc = "triage"
  /\ Pushed(Mine(w))
  /\ Step(w, "complete")
  /\ UNCHANGED <<ctl, told>> /\ Elsewhere

\* CompleteControlTaskL2: after a dispatch, when the model asks back, or with
\* the reply it has put together.  It does not look at the status.
Complete(w) ==
  /\ proc[w].pc \in {"triage", "complete", "aggregate"}
  /\ ctl' = Set(ctl, Mine(w), "done")
  /\ Step(w, "tellDone")
  /\ UNCHANGED <<envs, pushed, told>> /\ Elsewhere

Decompose(w) ==
  /\ proc[w].pc = "triage" /\ Kids(ctl, proc[w].p) = {}
  /\ \E n \in 1..MaxSubs : ctl' = Decomposed(ctl, proc[w].p, n)
  /\ proc' = [proc EXCEPT ![w].pc = "fan", ![w].n = 1]
  /\ UNCHANGED <<envs, pushed, told>> /\ Elsewhere

\* The subtasks are pushed one after the other; one that cannot be is closed.
FanOut(w) ==
  LET x == <<proc[w].p, proc[w].n>>
  IN  /\ proc[w].pc = "fan" /\ x \in Kids(ctl, proc[w].p)
      /\ \/ Pushed(x) /\ UNCHANGED ctl
         \/ ctl' = Set(ctl, x, "failed") /\ UNCHANGED <<envs, pushed>>
         \/ StoreFaults /\ UNCHANGED <<ctl, envs, pushed>>
      /\ proc' = [proc EXCEPT ![w].n = @ + 1]
      /\ UNCHANGED told /\ Elsewhere

\* tryAggregateParent, after the last push and after every result.
TryAggregate(w) ==
  /\ \/ proc[w].pc = "try"
     \/ proc[w].pc = "fan" /\ <<proc[w].p, proc[w].n>> \notin Kids(ctl, proc[w].p)
  /\ IF Aggregated(ctl, proc[w].p)
     THEN ctl' = Hold(ctl, Mine(w), "aggregating") /\ Step(w, "aggregate")
     ELSE Rest(w) /\ UNCHANGED ctl
  /\ UNCHANGED <<envs, pushed, told>> /\ Elsewhere

\* RetryL2ControlTask: the model fails or answers nonsense, the session is not
\* online or the subtasks exist already; the task cannot be completed; or the
\* aggregation has failed that the fan-out started.
RetryTriage(w) ==
  /\ \/ proc[w].pc \in {"triage", "retry"}
     \/ proc[w].pc = "complete" /\ StoreFaults
  /\ ctl' = RetriedIf(ctl, Mine(w), "llm_pending", "llm_pending")
  /\ IF ctl'[Mine(w)].status = "failed" THEN Step(w, "tellFailed") ELSE Rest(w)
  /\ UNCHANGED <<envs, pushed, told>> /\ Elsewhere

\* RetryAggregatingControlTask.
RetryAggregate(w) ==
  /\ proc[w].pc = "aggregate"
  /\ ctl' = RetriedIf(ctl, Mine(w), "aggregating", "awaiting_children")
  /\ IF ctl'[Mine(w)].status = "failed" THEN Step(w, "tellFailed")
     ELSE IF proc[w].from = "triage" THEN Step(w, "retry")
     ELSE Rest(w)
  /\ UNCHANGED <<envs, pushed, told>> /\ Elsewhere

\* The statement that would put a task back fails as well, or the one that would
\* claim a parent: what is held stays so until its lease ends.
Drops(w) ==
  /\ StoreFaults
  /\ \/ /\ \/ proc[w].pc \in {"triage", "complete", "try", "retry"}
           \/ proc[w].pc = "aggregate" /\ proc[w].from # "triage"
        /\ Rest(w)
     \/ /\ \/ proc[w].pc = "aggregate" /\ proc[w].from = "triage"
           \/ proc[w].pc = "fan" /\ <<proc[w].p, proc[w].n>> \notin Kids(ctl, proc[w].p)
        /\ Step(w, "retry")
  /\ UNCHANGED <<ctl, envs, pushed, told>> /\ Elsewhere

\* notifyControlTask; the id of the notice makes a repetition harmless.
Tell(w) ==
  /\ proc[w].pc \in {"tellDone", "tellFailed"}
  /\ told' = told \union {<<IF proc[w].pc = "tellDone" THEN "done" ELSE "failed", proc[w].p>>}
  /\ Rest(w)
  /\ UNCHANGED <<ctl, envs, pushed>> /\ Elsewhere

\* A session answers an instruction it got, once or again: whatever the status
\* of the subtask, it is then done (CompleteControlSubtask).
Result(w, x) ==
  /\ w \in Readers /\ proc[w].pc = "idle"
  /\ x[2] # 0 /\ pushed[x] > 0
  /\ ctl' = Set(ctl, x, "done")
  /\ proc' = [proc EXCEPT ![w] = [pc |-> "try", p |-> x[1], n |-> 0, from |-> "result"]]
  /\ UNCHANGED <<envs, pushed, told>> /\ Elsewhere

-----------------------------------------------------------------------------
(* Time and restarts *)

MessageLate(m) ==
  /\ msgs[m].status = "processing" /\ ~msgs[m].late /\ wk.m # m
  /\ msgs[m].attempts < MaxTaken
  /\ msgs' = [msgs EXCEPT ![m].late = TRUE]
  /\ UNCHANGED <<ctl, due, kind, wk, proc, doneVars, restarts>>

BecomesDue(p) ==
  /\ p \notin due /\ ctl[Top(p)].status # "none"
  /\ due' = due \union {p}
  /\ UNCHANGED <<storeVars, kind, wk, proc, doneVars, restarts>>

LeaseEnds(p) ==
  /\ p \in due /\ ctl[Top(p)].lease = "held"
  /\ ctl' = [ctl EXCEPT ![Top(p)].lease = "over"]
  /\ UNCHANGED <<msgs, due, kind, wk, proc, doneVars, restarts>>

HubRestart ==
  /\ restarts < MaxRestart /\ restarts' = restarts + 1
  /\ msgs' = Recovered(msgs)
  /\ wk' = WorkerIdle /\ proc' = [w \in Procs |-> ProcIdle] /\ envs' = {}
  /\ UNCHANGED <<ctl, due, kind, ran, pushed, replied, told>>

-----------------------------------------------------------------------------
WorkerStep ==
  \/ Take \/ ListOverdue \/ MarkOverdue \/ ReapFails \/ TellOverdue \/ Accept
  \/ L1Ignores \/ L1Defers \/ L1Runs \/ L1Fails \/ Record
  \/ FailsMessage \/ Reply \/ AckMessage \/ LeavesMessage

Working(w) ==
  \/ Dispatch(w) \/ Complete(w) \/ Decompose(w) \/ FanOut(w) \/ TryAggregate(w)
  \/ RetryTriage(w) \/ RetryAggregate(w) \/ Drops(w) \/ Tell(w)

Claiming(w) == ClaimPending(w) \/ ClaimAggregate(w)

Next ==
  \/ WorkerStep
  \/ \E w \in Procs : Claiming(w) \/ Working(w) \/ \E x \in Tasks : Result(w, x)
  \/ \E m \in Messages : Arrive(m) \/ MessageLate(m)
  \/ \E p \in Requests : BecomesDue(p) \/ LeaseEnds(p)
  \/ HubRestart

Spec == Init /\ [][Next]_vars

\* The goroutines of the hub are scheduled, calls of the model end (they have a
\* timeout) and the clock goes on.
Fairness ==
  /\ WF_vars(WorkerStep)
  /\ \A w \in L2Workers : WF_vars(Claiming(w))
  /\ \A w \in Procs : WF_vars(Working(w))
  /\ \A p \in Requests : WF_vars(BecomesDue(p)) /\ WF_vars(LeaseEnds(p))

FairSpec == Spec /\ Fairness

-----------------------------------------------------------------------------
(* Properties *)

\* However often a message is taken again (it was failed, or the hub restarted
\* before it was acknowledged), its command is carried out at most once: what
\* the INSERT OR IGNORE of EnqueueControlTask is for.
ExecutedOnce == \A p \in Requests : ran[p] <= 1

\* An instruction reaches a session once in a life of the hub, though leases
\* end and tasks are retried: the envelope id is claimed before the write.
InstructedOncePerLife == \A x \in Tasks : pushed[x] <= 1 + restarts

\* What is aggregated has subtasks and all of them are closed, whichever of
\* the L2 workers, the fan-out and the results of sessions has started it.
AggregatesClosed ==
  \A p \in Requests :
    ctl[Top(p)].status = "aggregating" => Kids(ctl, p) # {} /\ KidsClosed(ctl, p)

Deciding(w)    == proc[w].pc \in {"triage", "complete", "fan"}
Aggregating(w) == proc[w].pc = "aggregate"

\* Until a request is due no two goroutines decide about it, and no two put its
\* reply together: claims and leases keep them apart.
NoEarlyOverlap ==
  \A v, w \in Procs :
    v # w /\ proc[v].p = proc[w].p /\ proc[v].p \notin due
      => ~(Deciding(v) /\ Deciding(w)) /\ ~(Aggregating(v) /\ Aggregating(w))

\* Until a request is due, what its sender was told of its end is what the
\* table says, and goes on saying.
NoticeMatchesTable ==
  \A n \in told : n[2] \in due \/ ctl[Top(n[2])].status = n[1]

\* What keeps the five together.  A request has its row before L1 carries it
\* out, and has been carried out only if it has one.
Started ==
  /\ wk.pc \in {"l1", "record"} => ctl[Top(wk.m)].status # "none"
  /\ wk.pc = "l1" => ran[wk.m] = 0
  /\ \A p \in Requests : ctl[Top(p)].status = "none" => ran[p] = 0

Remembered == \A x \in Tasks : pushed[x] <= restarts + (IF x \in envs THEN 1 ELSE 0)

HaveKids ==
  \A p \in Requests :
    ctl[Top(p)].status \in {"awaiting_children", "aggregating"} => Kids(ctl, p) # {}

\* Only what is due is reaped, and what the worker and the processes rely on
\* while they work on a request that is not due.
ListsDue == wk.now \union wk.list \subseteq due

WorkerHolds ==
  wk.pc \in {"l1", "record"} /\ wk.m \notin due => ctl[Top(wk.m)].status = "queued"

Decided == {"awaiting_children", "aggregating"} \union Closed

ProcHolds(w) ==
  LET row == ctl[Mine(w)]
  IN  /\ proc[w].pc \in {"triage", "complete"} => row.status = "llm_pending" /\ row.lease = "held"
      /\ Aggregating(w) => row.status = "aggregating" /\ row.lease = "held"
      /\ proc[w].pc \in {"fan", "retry"} => row.status \in Decided
      /\ proc[w].pc = "tellDone" => row.status = "done"
      /\ proc[w].pc = "tellFailed" => row.status = "failed"

ProcsHold == \A w \in Procs : proc[w].pc # "idle" /\ proc[w].p \notin due => ProcHolds(w)

Held == ListsDue /\ WorkerHolds /\ ProcsHold /\ NoEarlyOverlap /\ NoticeMatchesTable

\* The inductive invariant.
Orderly ==
  /\ TypeOK /\ Started /\ ExecutedOnce /\ Remembered
  /\ HaveKids /\ AggregatesClosed /\ Held

\* No request waits for L2 for ever: it is claimed, and claimed again after a
\* crash, until it is decided or its attempts are used up.
PendingEnds ==
  \A p \in Requests : ctl[Top(p)].status = "llm_pending" ~> ctl[Top(p)].status # "llm_pending"

\* Once all its subtasks are closed a request ends, whatever fails or crashes.
AggregationEnds ==
  \A p \in Requests :
    (ctl[Top(p)].status = "awaiting_children" /\ KidsClosed(ctl, p))
      ~> ctl[Top(p)].status \in Closed

\* docs/DingWei总控路由架构规格-v0.1.md:82 and 159: whatever state a request is in,
\* once it is due the reaper ends it.  But the reaper runs only when another
\* message is dispatched.
DueEnds == \A p \in Requests : p \in due ~> ctl[Top(p)].status \in Closed

\* internal/m8/hub_test.go:5121 and the comment of Dispatch: a message of a
\* group that is no command gets no answer at all.  The reaper spares only
\* what is done, failed or expired, so the sender is told of a timeout.
SilencedStaysSilent ==
  \A p \in Requests :
    kind[p] = "chatter" => p \notin replied /\ \A s \in Closed : <<s, p>> \notin told
=============================================================================
