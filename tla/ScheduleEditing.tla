-------------------------- MODULE ScheduleEditing --------------------------
(***************************************************************************)
(* A member edits his schedule in two steps: an instruction is turned into *)
(* changes that are kept as the pending update of the member, and his      *)
(* confirmation carries them out (internal/schedule, driven by             *)
(* internal/worker without a prefix dispatcher).  The administrator makes  *)
(* pending updates too, reminders are sent all day, and the team schedule  *)
(* is rewritten after each confirmation.  An item ends on the day it       *)
(* starts.                                                                 *)
(***************************************************************************)
EXTENDS TeamSchedule, Bags, SequencesExt

CONSTANTS
  Owners,
  Managers,  \* the owners who hear of appeals and risks
  Tasks,
  Days,      \* days an item may be on
  Shifts,    \* by how many days a member postpones
  Today      \* the first day

ASSUME EditingAssumption ==
  /\ Managers \subseteq Owners
  /\ Days \subseteq Int /\ Shifts \subseteq Int
  /\ Today \in Nat
  \* messages of members, pending updates, scans, days that pass, failures
  /\ \A b \in Bounds : {b.says, b.puts, b.scans, b.days, b.faults} \subseteq Nat

VARIABLES
  rows,      \* schedule
  ids,       \* row ids given so far
  pending,   \* pending_update
  personal,  \* schedule_doc of kind "personal": the latest one
  progress,  \* the latest report on each task
  risks,     \* open risks
  export,    \* the file with the schedules of all members
  worker,    \* the confirmation in progress
  today,
  notified,  \* notification_log
  scan,      \* RunOnce of the reminders
  told,      \* the bag of reminders that were enqueued
  scans, says, faults

editVars == <<rows, ids, pending, personal, export, progress, risks, worker>>
remindVars == <<today, notified, scan, told, scans>>
vars == <<editVars, remindVars, says, faults, teamVars>>

Keys == [owner : Owners, start : Days, task : Tasks]
Row(id, k, status) == [id |-> id, key |-> k, status |-> status]
WorkerIdle == [doing |-> "idle", owner |-> CHOOSE o \in Owners : TRUE, p |-> 0, todo |-> <<>>]
ScanIdle   == [doing |-> "idle", left |-> {}, todo |-> {}, held |-> {}]

Init ==
  /\ rows = {} /\ ids = 0 /\ pending = <<>>
  /\ personal = [o \in Owners |-> {}]
  /\ export = {}
  /\ progress = [o \in Owners |-> [t \in Tasks |-> "none"]]
  /\ risks = {}
  /\ worker = WorkerIdle
  /\ today = Today /\ notified = {} /\ scan = ScanIdle /\ told = EmptyBag
  /\ scans = 0 /\ says = 0 /\ faults = 0
  /\ TeamInit

Fault == faults < bound.faults /\ faults' = faults + 1
Say   == says < bound.says /\ says' = says + 1

----------------------------------------------------------------------------
Owned(o) == {r \in rows : r.key.owner = o}
\* ListSchedules: by day, and in any order on the same day.
List(R) == {s \in [1..Cardinality(R) -> R] :
              /\ Range(s) = R
              /\ \A i, j \in DOMAIN s : i < j => s[i].key.start <= s[j].key.start}
\* UpsertSchedule: a row of the same owner, day and task keeps its id.
Upsert(R, new) ==
  LET same == {r \in R : r.key = new.key} IN
  IF same = {} THEN R \union {new}
  ELSE (R \ same) \union {[r EXCEPT !.status = new.status] : r \in same}
\* DeleteScheduleByID
DeleteByID(R, id) == {r \in R : r.id # id}

\* The statements a change is carried out with (Confirm): an update is a deletion
\* by id and an insertion.
Delete(r) == [op |-> "delete", id |-> r.id]
Insert(k) == [op |-> "insert", key |-> k]

At(k, day) == [k EXCEPT !.start = day]
Matching(o, words)   == {r \in Owned(o) : r.key.task \in words}
Since(o, anchor)     == {r \in Owned(o) : r.key.start >= anchor}

\* ComputeDiff, on the rows of the moment.
Added(keys)          == [i \in DOMAIN keys |-> Insert(keys[i])]
Removed(list)        == [i \in DOMAIN list |-> Delete(list[i])]
Updates(list, F(_))  ==
  [i \in 1..(2 * Len(list)) |->
     LET r == list[(i + 1) \div 2] IN IF i % 2 = 1 THEN Delete(r) ELSE Insert(F(r))]
Moved(list, day)     == Updates(list, LAMBDA r : At(r.key, day))
Postponed(list, n)   == Updates(list, LAMBDA r : At(r.key, r.key.start + n))
Replaced(list, keys) == Removed(list) \o Added(keys)

\* PutPending: the pending update of the owner is cancelled, in one transaction.
Put(o, kind, todo) ==
  pending' = Append([p \in DOMAIN pending |->
                       IF pending[p].owner = o /\ pending[p].status = "pending"
                       THEN [pending[p] EXCEPT !.status = "cancelled"] ELSE pending[p]],
                    [owner |-> o, kind |-> kind, todo |-> todo, due |-> FALSE,
                     status |-> "pending"])

\* Handle: an instruction that changes nothing leaves no pending update.
Instruct(o, kind, todo) ==
  /\ worker.doing = "idle" /\ Say
  /\ Len(pending) < bound.puts /\ todo # <<>>
  /\ \A i \in DOMAIN todo : todo[i].op = "insert" => todo[i].key.start \in Days
  /\ Put(o, kind, todo)
  /\ UNCHANGED <<rows, ids, personal, export, progress, risks, worker, remindVars, faults, teamVars>>

Edit(o) ==
  \/ \E k \in Keys : k.owner = o /\ Instruct(o, "add", Added(<<k>>))
  \/ \E t \in Tasks : \E list \in List(Matching(o, {t})) :
       \/ Instruct(o, "remove", Removed(list))
       \/ \E day \in Days : Instruct(o, "move", Moved(list, day))
  \/ \E anchor \in Days, n \in Shifts : \E list \in List(Since(o, anchor)) :
       Instruct(o, "postpone", Postponed(list, n))
  \/ \E items \in SUBSET {k \in Keys : k.owner = o} :
       /\ IsFiniteSet(items)
       /\ \E list \in List(Owned(o)) : Instruct(o, "replace", Replaced(list, SetToSeq(items)))

\* delegateSchedule: the administrator proposes an item.
Delegate(k) ==
  /\ Len(pending) < bound.puts
  /\ Put(k.owner, "add", Added(<<k>>))
  /\ UNCHANGED <<rows, ids, personal, export, progress, risks, worker, remindVars, says, faults,
                 teamVars>>

----------------------------------------------------------------------------
\* GetPending gives an update that is past its time up.
Live(o)  == {p \in DOMAIN pending : pending[p].owner = o /\ pending[p].status = "pending"}
Ready(o) == {p \in Live(o) : ~pending[p].due}
SetStatus(P, status) ==
  pending' = [p \in DOMAIN pending |-> IF p \in P THEN [pending[p] EXCEPT !.status = status]
                                       ELSE pending[p]]

TimePasses ==
  /\ \E p \in DOMAIN pending :
       /\ pending[p].status = "pending" /\ ~pending[p].due
       /\ pending' = [pending EXCEPT ![p].due = TRUE]
  /\ UNCHANGED <<rows, ids, personal, export, progress, risks, worker, remindVars, says, faults,
                 teamVars>>

\* Confirm: too late ...
ConfirmExpired(o) ==
  /\ worker.doing = "idle" /\ Say
  /\ Live(o) # {} /\ Ready(o) = {}
  /\ SetStatus(Live(o), "expired")
  /\ UNCHANGED <<rows, ids, personal, export, progress, risks, worker, remindVars, faults, teamVars>>
\* ... or in time,
Confirm(o) ==
  /\ worker.doing = "idle" /\ Say
  /\ \E p \in Ready(o) :
       worker' = [doing |-> "apply", owner |-> o, p |-> p, todo |-> pending[p].todo]
  /\ UNCHANGED <<rows, ids, pending, personal, export, progress, risks, remindVars, faults, teamVars>>

\* one statement after the other,
ApplyOne ==
  /\ worker.doing = "apply" /\ worker.todo # <<>>
  /\ LET s == Head(worker.todo) IN
     CASE s.op = "delete" -> rows' = DeleteByID(rows, s.id) /\ UNCHANGED ids
       [] s.op = "insert" -> rows' = Upsert(rows, Row(ids + 1, s.key, "planned")) /\ ids' = ids + 1
  /\ worker' = [worker EXCEPT !.todo = Tail(worker.todo)]
  /\ UNCHANGED <<pending, personal, export, progress, risks, remindVars, says, faults, teamVars>>

\* then the update is marked, whatever has become of it,
MarkConfirmedAnyway ==
  /\ worker.doing = "apply"
  /\ SetStatus({worker.p}, "confirmed")
  /\ worker' = [worker EXCEPT !.doing = "document"]
  /\ UNCHANGED <<rows, ids, personal, export, progress, risks, remindVars, says, faults, teamVars>>
MarkConfirmed ==
  /\ worker.doing = "apply" /\ worker.todo = <<>>
  /\ SetStatus({worker.p}, "confirmed")
  /\ worker' = [worker EXCEPT !.doing = "document"]
  /\ UNCHANGED <<rows, ids, personal, export, progress, risks, remindVars, says, faults, teamVars>>

Items(R) == {[key |-> r.key, status |-> r.status] : r \in R}
\* appendPersonalDoc: the schedule as it is now,
Document ==
  /\ worker.doing = "document"
  /\ personal' = [personal EXCEPT ![worker.owner] =
                    {i \in Items(rows) : i.key.owner = worker.owner}]
  /\ worker' = [worker EXCEPT !.doing = "coordinate"]
  /\ UNCHANGED <<rows, ids, pending, export, progress, risks, remindVars, says, faults, teamVars>>

\* and OnScheduleChanged: the export (SyncGlobalSchedule), the notices, then the
\* team schedule.
Coordinate ==
  /\ worker.doing = "coordinate"
  /\ export' = Items(rows)
  /\ Ask
  /\ worker' = [worker EXCEPT !.doing = "answer"]
  /\ UNCHANGED <<rows, ids, pending, personal, progress, risks, remindVars, says, faults>>
Reply ==
  /\ worker.doing = "answer" /\ coord.doing = "idle"
  /\ worker' = WorkerIdle
  /\ UNCHANGED <<rows, ids, pending, personal, export, progress, risks, remindVars, says, faults,
                 teamVars>>

\* A statement fails: the member is told, the message is done with, and the update
\* is still pending unless it was marked.
Failed ==
  /\ worker.doing \in {"apply", "document", "coordinate"} /\ Fault
  /\ worker' = WorkerIdle
  /\ UNCHANGED <<rows, ids, pending, personal, export, progress, risks, remindVars, says, teamVars>>

\* Cancel and handleAppeal (which tells the managers as well).
GiveUp(o) ==
  /\ worker.doing = "idle" /\ Say
  /\ Live(o) # {}
  /\ SetStatus(Live(o), IF Ready(o) = {} THEN "expired" ELSE "cancelled")
  /\ UNCHANGED <<rows, ids, personal, export, progress, risks, worker, remindVars, faults, teamVars>>

----------------------------------------------------------------------------
\* handleProgress: what is done is marked in the schedule; then the
\* export is written.
Report(o, t, what) ==
  /\ worker.doing = "idle" /\ Say
  /\ rows' = IF what = "done"
             THEN {IF r.key.owner = o /\ r.key.task = t THEN [r EXCEPT !.status = "done"] ELSE r :
                   r \in rows}
             ELSE rows
  /\ export' = Items(rows')
  /\ progress' = [progress EXCEPT ![o][t] = what]
  /\ UNCHANGED <<ids, pending, personal, risks, worker, remindVars, faults, teamVars>>

\* handleRisk: ReportRisk and ResolveRisks; an open risk is known by its text.
Risk(o, t, open) ==
  /\ worker.doing = "idle" /\ Say
  /\ LET same == {r \in risks : r.owner = o /\ r.about = t} IN
     IF open /\ same = {}
     THEN risks' = risks \union {[id |-> ids + 1, owner |-> o, about |-> t]} /\ ids' = ids + 1
     ELSE risks' = (IF open THEN risks ELSE risks \ same) /\ UNCHANGED ids
  /\ UNCHANGED <<rows, pending, personal, export, progress, worker, remindVars, faults, teamVars>>

----------------------------------------------------------------------------
\* remindMemberSchedule and broadcastRisks: what is to be told today.
Notice(kind, o, id) == [kind |-> kind, owner |-> o, id |-> id, day |-> today]
Soon(R)       == {r \in R : r.status # "done" /\ r.key.start \in {today, today + 1}}
NearlyOver(R) == {r \in R : r.status # "done" /\ r.key.start <= today + 1}
Reminders(o) ==
  LET R == {r \in rows : r.key.owner = o} IN
  {Notice("daily_task", o, r.id) : r \in Soon(R)} \union
  {Notice("deadline_warning", o, r.id) : r \in NearlyOver(R)}
RiskNotices ==
  UNION {{Notice("risk_open", o, r.id) : o \in {r.owner} \union Managers} : r \in risks}

\* RunOnce, every minute: one member after the other, then the risks.
ScanStart ==
  /\ scan.doing = "idle" /\ scans < bound.scans
  /\ scans' = scans + 1
  /\ scan' = [ScanIdle EXCEPT !.doing = "items", !.left = Owners]
  /\ UNCHANGED <<editVars, notified, told, today, says, faults, teamVars>>
ScanMember(o) ==
  /\ scan.doing = "items" /\ scan.todo = {} /\ scan.held = {}
  /\ o \in scan.left
  /\ scan' = [scan EXCEPT !.left = @ \ {o}, !.todo = Reminders(o)]
  /\ UNCHANGED <<editVars, notified, told, scans, today, says, faults, teamVars>>
ScanRisks ==
  /\ scan.doing = "items" /\ scan.todo = {} /\ scan.held = {}
  /\ scan.left = {}
  /\ scan' = [scan EXCEPT !.doing = "risks", !.todo = RiskNotices]
  /\ UNCHANGED <<editVars, notified, told, scans, today, says, faults, teamVars>>

\* RecordNotification: what is in the log is not told again.
RecordAgain(n) ==
  /\ scan.held = {} /\ n \in scan.todo
  /\ notified' = notified \union {n}
  /\ scan' = [scan EXCEPT !.todo = @ \ {n}, !.held = {n}]
  /\ UNCHANGED <<editVars, told, scans, today, says, faults, teamVars>>
RecordUnlogged(n) ==
  /\ scan.held = {} /\ n \in scan.todo
  /\ scan' = [scan EXCEPT !.todo = @ \ {n}, !.held = {n} \ notified]
  /\ UNCHANGED <<editVars, notified, told, scans, today, says, faults, teamVars>>
Record(n) ==
  /\ scan.held = {} /\ n \in scan.todo
  /\ notified' = notified \union {n}
  /\ scan' = [scan EXCEPT !.todo = @ \ {n}, !.held = {n} \ notified]
  /\ UNCHANGED <<editVars, told, scans, today, says, faults, teamVars>>
Enqueue ==
  /\ scan.held # {}
  /\ told' = told (+) SetToBag(scan.held)
  /\ scan' = [scan EXCEPT !.held = {}]
  /\ UNCHANGED <<editVars, notified, scans, today, says, faults, teamVars>>
\* The scan ends; what was recorded and not enqueued is not told that day.
EnqueueFailed ==
  /\ scan.held # {} /\ Fault
  /\ scan' = ScanIdle
  /\ UNCHANGED <<editVars, notified, told, scans, today, says, teamVars>>
ScanEnd ==
  /\ scan.doing = "risks" /\ scan.todo = {} /\ scan.held = {}
  /\ scan' = ScanIdle
  /\ UNCHANGED <<editVars, notified, told, scans, today, says, faults, teamVars>>

ScanStep ==
  \/ ScanStart
  \/ \E o \in Owners : ScanMember(o)
  \/ ScanRisks
  \/ \E n \in scan.todo : Record(n)
  \/ Enqueue
  \/ EnqueueFailed
  \/ ScanEnd

----------------------------------------------------------------------------
Midnight ==
  /\ today < Today + bound.days
  /\ today' = today + 1
  /\ UNCHANGED <<editVars, notified, scan, told, scans, says, faults, teamVars>>

\* The process stops and starts.  The message in progress is handled again, which
\* is as if it came again.
Restart ==
  /\ Fault
  /\ worker' = WorkerIdle /\ scan' = ScanIdle
  /\ TeamRestart
  /\ UNCHANGED <<rows, ids, pending, personal, export, progress, risks, notified, told, scans,
                 today, says>>

Next ==
  \/ \E o \in Owners : Edit(o) \/ Confirm(o) \/ ConfirmExpired(o) \/ GiveUp(o)
  \/ \E k \in Keys : Delegate(k)
  \/ TimePasses
  \/ ApplyOne
  \/ MarkConfirmed
  \/ Document
  \/ Coordinate
  \/ Reply
  \/ Failed
  \/ \E o \in Owners, t \in Tasks : Report(o, t, "note") \/ Report(o, t, "done")
  \/ \E o \in Owners, t \in Tasks, open \in BOOLEAN : Risk(o, t, open)
  \/ ScanStep
  \/ TeamStep /\ UNCHANGED <<editVars, remindVars, says, faults>>
  \/ Midnight
  \/ Restart

Spec == Init /\ [][Next]_vars

----------------------------------------------------------------------------
Statement == [op : {"delete"}, id : 1..ids] \union [op : {"insert"}, key : Keys]
Todo(s) == \A i \in DOMAIN s : s[i] \in Statement
TypeOK ==
  /\ rows \subseteq [id : 1..ids, key : Keys, status : {"planned", "done"}]
  /\ \A p \in DOMAIN pending :
       /\ pending[p].owner \in Owners /\ pending[p].due \in BOOLEAN /\ Todo(pending[p].todo)
       /\ pending[p].kind \in {"add", "remove", "move", "postpone", "replace"}
       /\ pending[p].status \in {"pending", "cancelled", "expired", "confirmed"}
  /\ \A o \in Owners : personal[o] \subseteq [key : Keys, status : {"planned", "done"}]
  /\ export \subseteq [key : Keys, status : {"planned", "done"}]
  /\ progress \in [Owners -> [Tasks -> {"none", "note", "done"}]]
  /\ risks \subseteq [id : 1..ids, owner : Owners, about : Tasks]
  /\ worker.doing \in {"idle", "apply", "document", "coordinate", "answer"}
  /\ worker.doing # "idle" => worker.p \in DOMAIN pending /\ Todo(worker.todo)
  /\ today \in Today..(Today + bound.days)
  /\ scan.doing \in {"idle", "items", "risks"} /\ scan.left \subseteq Owners
  /\ scan.held \subseteq notified /\ IsABag(told) /\ BagToSet(told) \subseteq notified
  /\ TeamTypeOK

\* Nobody hears of the same item or risk twice on one day, however many scans the
\* day has and wherever they are broken off (RecordNotification).
RemindedOnce == \A n \in BagToSet(told) : told[n] = 1

\* A confirmed replacement leaves exactly the items it lists, however often it had
\* to be carried out and whatever was done to the schedule since it was shown.
KeysOf(o) == {r.key : r \in Owned(o)}
Listed(p) == {pending[p].todo[i].key : i \in {j \in DOMAIN pending[p].todo :
                                              pending[p].todo[j].op = "insert"}}
Confirmed(p) == pending[p].status # "confirmed" /\ pending'[p].status = "confirmed"
ReplacedExactly ==
  [][\A p \in DOMAIN pending :
       Confirmed(p) /\ pending[p].kind = "replace" => KeysOf(pending[p].owner) = Listed(p)]_vars

\* A confirmed postponement moves every item from the anchor on: each is where the
\* preview puts it.
PostponedKept ==
  [][\A p \in DOMAIN pending :
       Confirmed(p) /\ pending[p].kind = "postpone" =>
         Listed(p) \subseteq KeysOf(pending[p].owner)]_vars
=============================================================================
