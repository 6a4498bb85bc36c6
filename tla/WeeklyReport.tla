---------------------------- MODULE WeeklyReport ----------------------------
(***************************************************************************)
(* Weekly reports (internal/scheduler, started by the cron entries of      *)
(* cmd/workpulse and by the administrator).  On Saturday each project gets *)
(* its report; on Sunday a draft that collects the reports of its sources  *)
(* is made for each aggregate project and shown to its owner, who edits,   *)
(* approves or vetoes it; on Monday what was not vetoed is published.      *)
(*                                                                         *)
(* Cron, the administrator and the worker that carries out the owner's     *)
(* commands run at the same time; each reads a report, works on its copy   *)
(* and writes all of it back.                                              *)
(***************************************************************************)
EXTENDS Integers, Sequences

CONSTANTS
  Projects,    \* numbered in the order of their ids
  Owned,       \* projects that are active and have an owner
  Aggregates,  \* projects with sources
  SourcesOf,   \* project_aggregate_source: any other projects, aggregates too
  FirstDay,    \* days are numbered from a Monday on
  MaxDay,      \* bound: the last day
  MaxRun,      \* bound: jobs the administrator starts
  MaxSay,      \* bound: commands of owners
  MaxText,     \* bound: texts the language model writes
  MaxFault     \* bound: failures and restarts

ASSUME ReportAssumption ==
  /\ Projects \subseteq Nat
  /\ Owned \subseteq Projects /\ Aggregates \subseteq Projects
  /\ SourcesOf \in [Aggregates -> SUBSET Projects]
  /\ \A p \in Aggregates : SourcesOf[p] # {} /\ p \notin SourcesOf[p]
  /\ {FirstDay, MaxDay, MaxRun, MaxSay, MaxText, MaxFault} \subseteq Nat
  /\ FirstDay > 0 /\ FirstDay <= MaxDay
  /\ Aggregates # {}

VARIABLES
  day,
  fired,    \* cron entries that have run today
  report,   \* project_weekly_report: of a project and a week
  job,      \* what cron and the administrator run
  review,   \* the worker: the owner's command in progress
  runs, said, texts, faults,
  sent      \* what went to the groups, in the order of the publications

vars == <<day, fired, report, job, review, runs, said, texts, faults, sent>>

\* ReportableWeeklyProjects and AggregateWeeklyProjects.
Singles  == Owned \ Aggregates
Reviewed == Owned \intersect Aggregates
Weeks    == 0..(MaxDay \div 7)
Runners  == {"cron", "admin"}

\* weeklyReportWindow and aggregateWeeklyReportWindow: on Monday the aggregate
\* report is still that of the week before.
WeekOf(d) == d \div 7
ReviewWeekLate(d) == d \div 7
ReviewWeek(d) == (d - 1) \div 7

\* schedulerCronPlan: Saturday 02:00, Sunday 22:00, Monday 02:00.
Entries(d) == CASE d % 7 = 5 -> {"report"}
                [] d % 7 = 6 -> {"draft"}
                [] d % 7 = 0 -> {"publish"}
                [] OTHER     -> {}

\* What the text of the model was made from, and what the owner added.
Row   == [status : {"none", "final", "draft", "approved", "vetoed", "published"},
          from : SUBSET Projects, edits : SUBSET (1..MaxSay)]
NoRow == [status |-> "none", from |-> {}, edits |-> {}]
Settled(row) == row.status \in {"vetoed", "published"}

\* doing: the step a job is at with its project.
Job == [kind : {"idle", "report", "draft", "publish"}, todo : SUBSET Projects,
        doing : {"next", "write", "show", "send", "mark"},
        p : Projects, w : Weeks, row : Row]
JobIdle == [kind |-> "idle", todo |-> {}, doing |-> "next",
            p |-> CHOOSE p \in Projects : TRUE, w |-> 0, row |-> NoRow]

Commands == {"approve", "veto", "edit"}
Review == [doing : {"idle", "look", "save", "send", "mark"}, what : Commands,
           p : Aggregates, w : Weeks, n : 0..MaxSay, row : Row]
ReviewIdle == [doing |-> "idle", what |-> "edit", p |-> CHOOSE p \in Aggregates : TRUE,
               w |-> 0, n |-> 0, row |-> NoRow]

Init ==
  /\ day = FirstDay /\ fired = {}
  /\ report = [p \in Projects |-> [w \in Weeks |-> NoRow]]
  /\ job = [r \in Runners |-> JobIdle]
  /\ review = ReviewIdle
  /\ runs = 0 /\ said = 0 /\ texts = 0 /\ faults = 0
  /\ sent = <<>>

Fault == faults < MaxFault /\ faults' = faults + 1
\* UpsertProjectWeeklyReport: the whole row, whatever is there.
Upsert(p, w, row) == report' = [report EXCEPT ![p][w] = row]

----------------------------------------------------------------------------
(* The jobs. *)

Subjects(kind) == IF kind = "report" THEN Singles ELSE Reviewed
Started(kind)  == [JobIdle EXCEPT !.kind = kind, !.todo = Subjects(kind)]

Cron(kind) ==
  /\ kind \in Entries(day) \ fired
  /\ job["cron"].kind = "idle"
  /\ fired' = fired \union {kind}
  /\ job' = [job EXCEPT !["cron"] = Started(kind)]
  /\ UNCHANGED <<day, report, review, runs, said, texts, faults, sent>>

\* aggregateDraftNow, aggregatePublishNow.
AdminRun(kind) ==
  /\ kind \in {"draft", "publish"}
  /\ runs < MaxRun /\ runs' = runs + 1
  /\ job["admin"].kind = "idle"
  /\ job' = [job EXCEPT !["admin"] = Started(kind)]
  /\ UNCHANGED <<day, fired, report, review, said, texts, faults, sent>>

\* The sources that have a report of the week in the table; a draft is made without
\* the others.
Reported(p, w) == {s \in SourcesOf[p] : report[s][w].status # "none"}
Gathered(kind, p, w) == IF kind = "report" THEN {} ELSE Reported(p, w)

\* Projects are listed by their ids.
IsNext(r, p) == p \in job[r].todo /\ \A q \in job[r].todo : p <= q

\* A publisher that sends only what was approved.
TakeNextApproved(r, p) ==
  /\ job[r].kind # "idle" /\ job[r].doing = "next"
  /\ IsNext(r, p)
  /\ LET j == job[r]
         w == IF j.kind = "report" THEN WeekOf(day) ELSE ReviewWeek(day)
         row == report[p][w]
         rest == [j EXCEPT !.todo = @ \ {p}, !.p = p, !.w = w] IN
     job' = [job EXCEPT ![r] =
       IF j.kind # "publish" \/ row.status = "none" THEN
         [rest EXCEPT !.doing = "write", !.row = [NoRow EXCEPT !.from = Gathered(j.kind, p, w)]]
       ELSE IF row.status # "approved" THEN rest
       ELSE [rest EXCEPT !.doing = "send", !.row = row]]
  /\ UNCHANGED <<day, fired, report, review, runs, said, texts, faults, sent>>

\* A publisher that does not look for a veto.
TakeNextVetoed(r, p) ==
  /\ job[r].kind # "idle" /\ job[r].doing = "next"
  /\ IsNext(r, p)
  /\ LET j == job[r]
         w == IF j.kind = "report" THEN WeekOf(day) ELSE ReviewWeek(day)
         row == report[p][w]
         rest == [j EXCEPT !.todo = @ \ {p}, !.p = p, !.w = w] IN
     job' = [job EXCEPT ![r] =
       IF j.kind # "publish" \/ row.status = "none" THEN
         [rest EXCEPT !.doing = "write", !.row = [NoRow EXCEPT !.from = Gathered(j.kind, p, w)]]
       ELSE IF row.status = "published" THEN rest
       ELSE [rest EXCEPT !.doing = "send", !.row = row]]
  /\ UNCHANGED <<day, fired, report, review, runs, said, texts, faults, sent>>

\* The next project: what is to be written is collected now; what is to be
\* published is read now, or made first if there is none.
TakeNext(r, p) ==
  /\ job[r].kind # "idle" /\ job[r].doing = "next"
  /\ IsNext(r, p)
  /\ LET j == job[r]
         w == IF j.kind = "report" THEN WeekOf(day) ELSE ReviewWeek(day)
         row == report[p][w]
         rest == [j EXCEPT !.todo = @ \ {p}, !.p = p, !.w = w] IN
     job' = [job EXCEPT ![r] =
       IF j.kind # "publish" \/ row.status = "none" THEN
         [rest EXCEPT !.doing = "write", !.row = [NoRow EXCEPT !.from = Gathered(j.kind, p, w)]]
       ELSE IF Settled(row) THEN rest
       ELSE [rest EXCEPT !.doing = "send", !.row = row]]
  /\ UNCHANGED <<day, fired, report, review, runs, said, texts, faults, sent>>

\* A new report of a single project counts; that of an aggregate is a draft.
Generated(j) == [j.row EXCEPT !.status = IF j.kind = "report" THEN "final" ELSE "draft"]

\* The model answers and the report is written, over whatever there is.
Write(r) ==
  /\ job[r].doing = "write"
  /\ texts < MaxText /\ texts' = texts + 1
  /\ LET j == job[r]
         row == Generated(j) IN
     /\ Upsert(j.p, j.w, row)
     /\ job' = [job EXCEPT ![r].row = row,
                           ![r].doing = IF j.kind = "report" THEN "next" ELSE "show"]
  /\ UNCHANGED <<day, fired, review, runs, said, faults, sent>>

\* notifyAggregateWeeklyReviewer, which is not followed further.
Show(r) ==
  /\ job[r].doing = "show"
  /\ job' = [job EXCEPT ![r].doing = IF job[r].kind = "publish" THEN "send" ELSE "next"]
  /\ UNCHANGED <<day, fired, report, review, runs, said, texts, faults, sent>>

\* publishAggregateWeeklyReport: the message is enqueued ...
Publication(by, p, w, row) == [by |-> by, p |-> p, w |-> w, row |-> row]
Send(r) ==
  /\ job[r].doing = "send"
  /\ sent' = Append(sent, Publication(r, job[r].p, job[r].w, job[r].row))
  /\ job' = [job EXCEPT ![r].doing = "mark"]
  /\ UNCHANGED <<day, fired, report, review, runs, said, texts, faults>>

\* ... then the copy is written back as published.
Mark(r) ==
  /\ job[r].doing = "mark"
  /\ Upsert(job[r].p, job[r].w, [job[r].row EXCEPT !.status = "published"])
  /\ job' = [job EXCEPT ![r].doing = "next"]
  /\ UNCHANGED <<day, fired, review, runs, said, texts, faults, sent>>

End(r) ==
  /\ job[r].kind # "idle" /\ job[r].doing = "next" /\ job[r].todo = {}
  /\ job' = [job EXCEPT ![r] = JobIdle]
  /\ UNCHANGED <<day, fired, report, review, runs, said, texts, faults, sent>>

\* Any step may fail; the projects that were to follow are not looked at.
Abort(r) ==
  /\ job[r].kind # "idle"
  /\ Fault
  /\ job' = [job EXCEPT ![r] = JobIdle]
  /\ UNCHANGED <<day, fired, report, review, runs, said, texts, sent>>

----------------------------------------------------------------------------
(* The owner's commands. *)

Say(what, p) ==
  /\ review.doing = "idle"
  /\ said < MaxSay /\ said' = said + 1
  /\ review' = [ReviewIdle EXCEPT !.doing = "look", !.what = what, !.p = p, !.n = said + 1]
  /\ UNCHANGED <<day, fired, report, job, runs, texts, faults, sent>>

\* findAggregateWeeklyReviewReport: a report that is not settled, of this week.
Look ==
  /\ review.doing = "look"
  /\ LET w == ReviewWeek(day)
         row == report[review.p][w] IN
     review' = IF row.status = "none" \/ Settled(row) THEN ReviewIdle
               ELSE [review EXCEPT !.doing = "save", !.w = w, !.row = row]
  /\ UNCHANGED <<day, fired, report, job, runs, said, texts, faults, sent>>

Decided(what, n, row) ==
  CASE what = "approve" -> [row EXCEPT !.status = "approved"]
    [] what = "veto"    -> [row EXCEPT !.status = "vetoed"]
    [] what = "edit"    -> [row EXCEPT !.status = "draft", !.edits = @ \union {n}]

\* The decision; an approval is published at once.
Save ==
  /\ review.doing = "save"
  /\ LET row == Decided(review.what, review.n, review.row) IN
     /\ Upsert(review.p, review.w, row)
     /\ review' = IF review.what = "approve" THEN [review EXCEPT !.doing = "send", !.row = row]
                  ELSE ReviewIdle
  /\ UNCHANGED <<day, fired, job, runs, said, texts, faults, sent>>

SendApproved ==
  /\ review.doing = "send"
  /\ sent' = Append(sent, Publication("owner", review.p, review.w, review.row))
  /\ review' = [review EXCEPT !.doing = "mark"]
  /\ UNCHANGED <<day, fired, report, job, runs, said, texts, faults>>

MarkApproved ==
  /\ review.doing = "mark"
  /\ Upsert(review.p, review.w, [review.row EXCEPT !.status = "published"])
  /\ review' = ReviewIdle
  /\ UNCHANGED <<day, fired, job, runs, said, texts, faults, sent>>

\* A command that fails is carried out again by the queue.
Repeat ==
  /\ review.doing \notin {"idle", "look"}
  /\ Fault
  /\ review' = [review EXCEPT !.doing = "look", !.w = 0, !.row = NoRow]
  /\ UNCHANGED <<day, fired, report, job, runs, said, texts, sent>>

----------------------------------------------------------------------------
\* The hub stops and starts: jobs are gone, an entry that was due in between is
\* not made up for, the command is recovered.
Restart ==
  /\ Fault
  /\ job' = [r \in Runners |-> JobIdle]
  /\ fired' = Entries(day)
  /\ review' = IF review.doing = "idle" THEN ReviewIdle
               ELSE [review EXCEPT !.doing = "look", !.w = 0, !.row = NoRow]
  /\ UNCHANGED <<day, report, runs, said, texts, sent>>

\* Jobs take minutes: none goes on over midnight.
Tick ==
  /\ day < MaxDay
  /\ Entries(day) \subseteq fired
  /\ \A r \in Runners : job[r].kind = "idle"
  /\ review.doing = "idle"
  /\ day' = day + 1 /\ fired' = {}
  /\ UNCHANGED <<report, job, review, runs, said, texts, faults, sent>>

JobStep(r) ==
  \/ \E p \in Projects : TakeNext(r, p)
  \/ Write(r)
  \/ Show(r)
  \/ Send(r)
  \/ Mark(r)
  \/ End(r)

ReviewStep ==
  \/ Look
  \/ Save
  \/ SendApproved
  \/ MarkApproved

Next ==
  \/ \E kind \in {"report", "draft", "publish"} : Cron(kind) \/ AdminRun(kind)
  \/ \E r \in Runners : JobStep(r) \/ Abort(r)
  \/ \E what \in Commands, p \in Reviewed : Say(what, p)
  \/ ReviewStep
  \/ Repeat
  \/ Restart
  \/ Tick

\* Cron starts what is due, jobs and the worker go on, days pass.
Spec == Init /\ [][Next]_vars
FairSpec ==
  /\ Spec
  /\ \A kind \in {"report", "draft", "publish"} : WF_vars(Cron(kind))
  /\ \A r \in Runners : WF_vars(JobStep(r))
  /\ WF_vars(ReviewStep) /\ WF_vars(Tick)

----------------------------------------------------------------------------
TypeOK ==
  /\ day \in FirstDay..MaxDay
  /\ fired \subseteq Entries(day)
  /\ report \in [Projects -> [Weeks -> Row]]
  /\ job \in [Runners -> Job]
  /\ review \in Review
  /\ runs \in 0..MaxRun /\ said \in 0..MaxSay /\ texts \in 0..MaxText /\ faults \in 0..MaxFault
  /\ sent \in Seq([by : Runners \union {"owner"}, p : Aggregates, w : Weeks, row : Row])

\* Somebody has read the report before it was settled and may still write it.
Held(p, w) ==
  \/ \E r \in Runners : /\ job[r].p = p /\ job[r].w = w
                        /\ job[r].doing \in {"write", "show", "send", "mark"}
                        /\ ~Settled(job[r].row)
  \/ review.p = p /\ review.w = w /\ review.doing \in {"save", "send", "mark"}

\* A report that was vetoed or published is not sent any more and stays as it is
\* until a new draft is made, when nobody works on a copy he read before:
\* publishers, approvals and edits all look for the settled states first.
SettledUntilRedrafted ==
  [][\A p \in Aggregates, w \in Weeks :
       Settled(report[p][w]) /\ ~Held(p, w) =>
         /\ report'[p][w] = report[p][w]
         /\ \A i \in DOMAIN sent' \ DOMAIN sent : sent'[i].p # p \/ sent'[i].w # w]_vars

\* The sources whose report is there when it is p's turn: no project without an
\* owner has one, and aggregates get theirs in the order of their ids.
Due(p) == {s \in SourcesOf[p] \intersect Owned : s \in Aggregates => s < p}

\* What Monday's run publishes was made from the reports of all the sources that are
\* due, by the order of the runs and of the projects in them, and of no others: the
\* three windows of the week agree (aggregateWeeklyReportWindow).  An edit may
\* write back a draft that has been replaced since it was read.
SourcesIncluded == faults = 0 =>
  \A i \in DOMAIN sent : sent[i].by = "cron" /\ sent[i].row.edits = {} =>
    /\ Due(sent[i].p) \subseteq sent[i].row.from
    /\ sent[i].row.from \subseteq SourcesOf[sent[i].p]

\* All the sources (docs: "把各来源项目周报汇总"): not so for one without an owner, nor
\* for an aggregate with a later id.
AllSourcesIncluded == faults = 0 =>
  \A i \in DOMAIN sent : sent[i].by = "cron" /\ sent[i].row.edits = {} =>
    sent[i].row.from = SourcesOf[sent[i].p]

\* On Monday every aggregate report is published or vetoed, if nothing fails: also
\* what nobody approved, and what is edited or drafted again while the run goes on.
DuePublished == \A p \in Reviewed, d \in FirstDay..MaxDay :
  (day = d /\ "publish" \in Entries(d) \ fired) ~>
    \/ faults > 0
    \/ report[p][ReviewWeek(d)].status = "vetoed"
    \/ \E i \in DOMAIN sent : sent[i].p = p /\ sent[i].w = ReviewWeek(d)

\* A veto is final (docs: "不要发送→ 否决、即使到点也不发").
VetoHolds ==
  [][\A i \in DOMAIN sent' \ DOMAIN sent :
       report[sent'[i].p][sent'[i].w].status # "vetoed"]_vars
=============================================================================
