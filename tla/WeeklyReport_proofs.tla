------------------------ MODULE WeeklyReport_proofs ------------------------
(***************************************************************************)
(* Proofs about WeeklyReport, for any projects, sources, days, commands    *)
(* and failures: what is settled stays so unless somebody holds an older   *)
(* copy, and what cron publishes includes every source that is due.        *)
(***************************************************************************)
EXTENDS WeeklyReport, TLAPS

USE ReportAssumption DEF Singles, Reviewed

-----------------------------------------------------------------------------
(* What a job may be at: aggregates are published and sources are not, and *)
(* the copy it is about to write, show or send is not settled.             *)
Orderly(r, j) ==
  /\ j.kind = "idle" => j = JobIdle
  /\ j.todo \subseteq Subjects(j.kind)
  /\ j.doing # "next" => j.p \in Subjects(j.kind) /\ ~Settled(j.row)
  /\ j.doing \in {"show", "send", "mark"} => j.kind # "report" /\ j.row.status # "none"
  /\ j.doing \in {"send", "mark"} => j.kind = "publish"
  /\ r = "cron" /\ j.kind = "publish" => day % 7 = 0

JobsOrderly == \A r \in Runners : Orderly(r, job[r])

\* The owner's command has a number and a project, and a copy only after it has looked.
ReviewOrderly ==
  /\ review.doing # "idle" => review.n \in 1..MaxSay /\ review.p \in Reviewed
  /\ review.doing \in {"save", "send", "mark"} => review.row.status # "none"

Sensible == TypeOK /\ JobsOrderly /\ ReviewOrderly

-----------------------------------------------------------------------------
(* The calendar *)

LEMMA Calendar ==
  ASSUME day \in FirstDay..MaxDay
  PROVE  /\ day \in Nat /\ day % 7 \in 0..6 /\ FirstDay \in Nat
         /\ WeekOf(day) \in Weeks /\ ReviewWeek(day) \in Weeks
BY DEF WeekOf, ReviewWeek, Weeks

\* Saturday, Sunday and Monday are of one review week.
LEMMA WeekEnds ==
  ASSUME day \in FirstDay..MaxDay
  PROVE  /\ day % 7 = 5 => WeekOf(day) = ReviewWeek(day)
         /\ (day + 1) % 7 = 6 => day % 7 = 5 /\ ReviewWeek(day + 1) = ReviewWeek(day)
         /\ (day + 1) % 7 = 0 => day % 7 = 6 /\ ReviewWeek(day + 1) = ReviewWeek(day)
BY DEF WeekOf, ReviewWeek

LEMMA DayEntries ==
  ASSUME day \in FirstDay..MaxDay
  PROVE  /\ "publish" \in Entries(day) => day % 7 = 0
         /\ "draft" \in Entries(day) => day % 7 = 6
         /\ "report" \in Entries(day) => day % 7 = 5
         /\ day % 7 = 6 => "draft" \in Entries(day)
         /\ day % 7 = 5 => "report" \in Entries(day)
BY Calendar DEF Entries

-----------------------------------------------------------------------------
(* Rows, jobs and reviews *)

LEMMA Rests ==
  /\ NoRow \in Row /\ JobIdle \in Job /\ ReviewIdle \in Review
  /\ JobIdle.kind = "idle" /\ JobIdle.todo = {} /\ JobIdle.doing = "next"
  /\ ReviewIdle.doing = "idle"
<1>1. NoRow \in Row
  BY DEF NoRow, Row
<1>2. (CHOOSE p \in Projects : TRUE) \in Projects
  OBVIOUS
<1>3. (CHOOSE p \in Aggregates : TRUE) \in Aggregates
  OBVIOUS
<1>4. 0 \in Weeks /\ 0 \in 0..MaxSay
  BY DEF Weeks
<1> QED BY <1>1, <1>2, <1>3, <1>4 DEF JobIdle, Job, ReviewIdle, Review, Commands

\* A step of one job that keeps its order.
LEMMA JobChanges ==
  ASSUME Sensible, NEW r \in Runners, NEW j \in Job, Orderly(r, j),
         job' = [job EXCEPT ![r] = j], UNCHANGED day
  PROVE  job' \in [Runners -> Job] /\ JobsOrderly'
<1>1. job \in [Runners -> Job]
  BY DEF Sensible, TypeOK
<1>2. \A q \in Runners : job'[q] = IF q = r THEN j ELSE job[q]
  BY <1>1
<1>3. \A q \in Runners : Orderly(q, job'[q])
  BY <1>2 DEF Sensible, JobsOrderly
<1>4. \A q \in Runners : Orderly(q, job[q])'
  BY <1>3 DEF Orderly
<1> QED BY <1>1, <1>4 DEF JobsOrderly

LEMMA JobsRest ==
  ASSUME Sensible, UNCHANGED job, UNCHANGED day
  PROVE  job' \in [Runners -> Job] /\ JobsOrderly'
<1>1. \A q \in Runners : Orderly(q, job[q])'
  BY DEF Sensible, JobsOrderly, Orderly
<1> QED BY <1>1 DEF Sensible, TypeOK, JobsOrderly

\* Writing a row changes that row and no other.
LEMMA UpsertRow ==
  ASSUME Sensible, NEW p \in Projects, NEW w \in Weeks, NEW row \in Row, Upsert(p, w, row)
  PROVE  /\ report' \in [Projects -> [Weeks -> Row]]
         /\ \A q \in Projects, v \in Weeks :
              report'[q][v] = IF q = p /\ v = w THEN row ELSE report[q][v]
<1>1. report \in [Projects -> [Weeks -> Row]]
  BY DEF Sensible, TypeOK
<1>2. report' = [report EXCEPT ![p] = [report[p] EXCEPT ![w] = row]]
  BY <1>1 DEF Upsert
<1>3. [report[p] EXCEPT ![w] = row] \in [Weeks -> Row]
  BY <1>1
<1> QED BY <1>1, <1>2, <1>3

LEMMA Numbers ==
  ASSUME Sensible
  PROVE  /\ runs \in Nat /\ said \in Nat /\ texts \in Nat /\ faults \in Nat
         /\ {FirstDay, MaxDay, MaxRun, MaxSay, MaxText, MaxFault} \subseteq Nat
BY DEF Sensible, TypeOK

\* A publication joins those that were sent.
LEMMA Sends ==
  ASSUME Sensible, NEW by \in Runners \union {"owner"}, NEW p \in Aggregates, NEW w \in Weeks,
         NEW row \in Row, sent' = Append(sent, Publication(by, p, w, row))
  PROVE  /\ sent' \in Seq([by : Runners \union {"owner"}, p : Aggregates, w : Weeks, row : Row])
         /\ DOMAIN sent' = DOMAIN sent \union {Len(sent) + 1} /\ DOMAIN sent = 1..Len(sent)
         /\ \A i \in DOMAIN sent : sent'[i] = sent[i]
         /\ sent'[Len(sent) + 1] = Publication(by, p, w, row)
<1>1. sent \in Seq([by : Runners \union {"owner"}, p : Aggregates, w : Weeks, row : Row])
  BY DEF Sensible, TypeOK
<1>2. Publication(by, p, w, row)
        \in [by : Runners \union {"owner"}, p : Aggregates, w : Weeks, row : Row]
  BY DEF Publication
<1> QED BY <1>1, <1>2

-----------------------------------------------------------------------------
(* The jobs keep their order. *)

LEMMA StartSensible ==
  ASSUME Sensible, NEW kind \in {"report", "draft", "publish"}, Cron(kind) \/ AdminRun(kind)
  PROVE  Sensible'
<1>1. Started(kind) \in Job /\ Started(kind).kind = kind /\ Started(kind).doing = "next"
      /\ Started(kind).todo = Subjects(kind)
  BY Rests DEF Started, Job, Subjects
<1>2. CASE Cron(kind)
  <2>1. kind = "publish" => day % 7 = 0
    BY <1>2, DayEntries DEF Cron, Sensible, TypeOK
  <2>2. Orderly("cron", Started(kind))
    BY <1>1, <2>1 DEF Orderly
  <2>3. job' \in [Runners -> Job] /\ JobsOrderly'
    BY <1>1, <1>2, <2>2, JobChanges DEF Cron, Runners
  <2>4. fired' \subseteq Entries(day')
    BY <1>2 DEF Cron, Sensible, TypeOK
  <2> QED BY <1>2, <2>3, <2>4 DEF Cron, Sensible, TypeOK, ReviewOrderly
<1>3. CASE AdminRun(kind)
  <2>1. Orderly("admin", Started(kind))
    BY <1>1 DEF Orderly
  <2>2. job' \in [Runners -> Job] /\ JobsOrderly'
    BY <1>1, <1>3, <2>1, JobChanges DEF AdminRun, Runners
  <2>3. runs' \in 0..MaxRun
    BY <1>3, Numbers DEF AdminRun
  <2> QED BY <1>3, <2>2, <2>3 DEF AdminRun, Sensible, TypeOK, ReviewOrderly
<1> QED BY <1>2, <1>3

LEMMA JobTyped ==
  ASSUME Sensible, NEW r \in Runners
  PROVE  job[r] \in Job /\ Orderly(r, job[r]) /\ job[r].row \in Row
         /\ job[r].p \in Projects /\ job[r].w \in Weeks
<1>1. job[r] \in Job
  BY DEF Sensible, TypeOK
<1> QED BY <1>1 DEF Sensible, JobsOrderly, Job

LEMMA TakeNextSensible ==
  ASSUME Sensible, NEW r \in Runners, NEW p \in Projects, TakeNext(r, p)
  PROVE  Sensible'
<1> DEFINE j == job[r]
           w == IF j.kind = "report" THEN WeekOf(day) ELSE ReviewWeek(day)
           row == report[p][w]
           new == [NoRow EXCEPT !.from = Gathered(j.kind, p, w)]
           rest == [j EXCEPT !.todo = @ \ {p}, !.p = p, !.w = w]
<1>1. j \in Job /\ Orderly(r, j) /\ j.kind # "idle" /\ j.doing = "next" /\ p \in j.todo
  BY JobTyped DEF TakeNext, IsNext
<1>2. p \in Subjects(j.kind) /\ w \in Weeks
  BY <1>1, Calendar DEF Orderly, Sensible, TypeOK
<1>3. row \in Row
  BY <1>2 DEF Sensible, TypeOK
<1>4. new \in Row /\ ~Settled(new)
  <2>1. Gathered(j.kind, p, w) \subseteq Projects
    BY <1>1, <1>2 DEF Gathered, Reported, Subjects
  <2> QED BY <2>1, Rests DEF NoRow, Row, Settled
<1>5. rest \in Job /\ rest.kind = j.kind /\ rest.todo \subseteq j.todo /\ rest.doing = "next"
      /\ rest.p = p
  BY <1>1, <1>2 DEF Job
<1> HIDE DEF row, new, w
<1>6. CASE j.kind # "publish" \/ row.status = "none"
  <2> DEFINE n == [rest EXCEPT !.doing = "write", !.row = new]
  <2>1. job' = [job EXCEPT ![r] = n]
    BY <1>6 DEF TakeNext, row, new, w
  <2>2. n \in Job /\ n.kind = j.kind /\ n.todo \subseteq j.todo /\ n.doing = "write"
        /\ n.p = p /\ n.row = new
    BY <1>4, <1>5 DEF Job
  <2>3. Orderly(r, n)
    BY <1>1, <1>2, <1>4, <2>2 DEF Orderly
  <2> HIDE DEF n
  <2>4. job' \in [Runners -> Job] /\ JobsOrderly'
    BY <2>1, <2>2, <2>3, JobChanges DEF TakeNext
  <2> QED BY <2>4 DEF TakeNext, Sensible, TypeOK, ReviewOrderly
<1>7. CASE ~(j.kind # "publish" \/ row.status = "none") /\ Settled(row)
  <2>1. job' = [job EXCEPT ![r] = rest]
    BY <1>7 DEF TakeNext, row, new, w
  <2>3. Orderly(r, rest)
    BY <1>1, <1>5 DEF Orderly
  <2> HIDE DEF rest
  <2>4. job' \in [Runners -> Job] /\ JobsOrderly'
    BY <1>5, <2>1, <2>3, JobChanges DEF TakeNext
  <2> QED BY <2>4 DEF TakeNext, Sensible, TypeOK, ReviewOrderly
<1>8. CASE ~(j.kind # "publish" \/ row.status = "none") /\ ~Settled(row)
  <2> DEFINE n == [rest EXCEPT !.doing = "send", !.row = row]
  <2>1. job' = [job EXCEPT ![r] = n]
    BY <1>8 DEF TakeNext, row, new, w
  <2>2. n \in Job /\ n.kind = j.kind /\ n.todo \subseteq j.todo /\ n.doing = "send"
        /\ n.p = p /\ n.row = row
    BY <1>3, <1>5 DEF Job
  <2>3. Orderly(r, n)
    BY <1>1, <1>2, <1>8, <2>2 DEF Orderly
  <2> HIDE DEF n
  <2>4. job' \in [Runners -> Job] /\ JobsOrderly'
    BY <2>1, <2>2, <2>3, JobChanges DEF TakeNext
  <2> QED BY <2>4 DEF TakeNext, Sensible, TypeOK, ReviewOrderly
<1> QED BY <1>6, <1>7, <1>8

\* What a job writes is a report of its project that is neither settled nor none.
LEMMA GeneratedRow ==
  ASSUME Sensible, NEW r \in Runners, texts < MaxText
  PROVE  Generated(job[r]) \in Row /\ ~Settled(Generated(job[r]))
         /\ Generated(job[r]).status \in {"final", "draft"}
         /\ Generated(job[r]).from = job[r].row.from
<1>1. job[r].row \in Row /\ texts + 1 \in 0..MaxText
  BY JobTyped, Numbers
<1> QED BY <1>1 DEF Generated, Row, Settled

LEMMA WriteSensible ==
  ASSUME Sensible, NEW r \in Runners, Write(r)
  PROVE  Sensible'
<1> DEFINE j == job[r]
           row == Generated(j)
           n == [j EXCEPT !.row = row, !.doing = IF j.kind = "report" THEN "next" ELSE "show"]
<1>1. j \in Job /\ Orderly(r, j) /\ j.doing = "write" /\ j.p \in Projects /\ j.w \in Weeks
  BY JobTyped DEF Write
<1>2. row \in Row /\ ~Settled(row) /\ row.status \in {"final", "draft"}
  BY GeneratedRow DEF Write
<1> HIDE DEF row
<1>3. report' \in [Projects -> [Weeks -> Row]]
  BY <1>1, <1>2, UpsertRow DEF Write, row
<1>4. n \in Job /\ n.kind = j.kind /\ n.todo = j.todo /\ n.p = j.p /\ n.row = row
      /\ n.doing = IF j.kind = "report" THEN "next" ELSE "show"
  BY <1>1, <1>2 DEF Job
<1>5. Orderly(r, n)
  BY <1>1, <1>2, <1>4, Rests DEF Orderly
<1>6. job' = [job EXCEPT ![r] = n]
  <2>1. job' = [job EXCEPT ![r].row = row,
                           ![r].doing = IF j.kind = "report" THEN "next" ELSE "show"]
    BY DEF Write, row
  <2>2. job \in [Runners -> Job]
    BY DEF Sensible, TypeOK
  <2> QED BY <2>1, <2>2
<1> HIDE DEF n
<1>7. job' \in [Runners -> Job] /\ JobsOrderly'
  BY <1>4, <1>5, <1>6, JobChanges DEF Write
<1>8. texts' \in 0..MaxText
  BY Numbers DEF Write
<1> QED BY <1>3, <1>7, <1>8 DEF Write, Sensible, TypeOK, ReviewOrderly

\* A job that goes on to another step with the same copy.
LEMMA DoingChanges ==
  ASSUME Sensible, NEW r \in Runners, job[r].kind # "idle",
         NEW d \in {"next", "send", "mark"},
         d # "next" => job[r].doing \in {"show", "send", "mark"} /\ job[r].kind = "publish",
         job' = [job EXCEPT ![r].doing = d], UNCHANGED day
  PROVE  job' \in [Runners -> Job] /\ JobsOrderly'
<1> DEFINE n == [job[r] EXCEPT !.doing = d]
<1>1. job[r] \in Job /\ Orderly(r, job[r]) /\ job \in [Runners -> Job]
  BY JobTyped DEF Sensible, TypeOK
<1>2. n \in Job /\ n.kind = job[r].kind /\ n.todo = job[r].todo /\ n.p = job[r].p
      /\ n.row = job[r].row /\ n.doing = d
  BY <1>1 DEF Job
<1>3. Orderly(r, n)
  BY <1>1, <1>2 DEF Orderly
<1>4. job' = [job EXCEPT ![r] = n]
  BY <1>1
<1> HIDE DEF n
<1> QED BY <1>2, <1>3, <1>4, JobChanges

\* A job that works on something is not idle.
LEMMA Works ==
  ASSUME Sensible, NEW r \in Runners, job[r].doing # "next"
  PROVE  job[r].kind # "idle"
BY JobTyped, Rests DEF Orderly

LEMMA ShowSensible ==
  ASSUME Sensible, NEW r \in Runners, Show(r)
  PROVE  Sensible'
<1>1. job' \in [Runners -> Job] /\ JobsOrderly'
  BY Works, DoingChanges DEF Show
<1> QED BY <1>1 DEF Show, Sensible, TypeOK, ReviewOrderly

LEMMA Subject ==
  ASSUME Sensible, NEW r \in Runners, job[r].doing \in {"show", "send", "mark"}
  PROVE  job[r].p \in Aggregates /\ job[r].p \in Reviewed /\ job[r].w \in Weeks /\ job[r].row \in Row
         /\ ~Settled(job[r].row) /\ job[r].row.status # "none"
BY JobTyped DEF Orderly, Subjects

LEMMA SendSensible ==
  ASSUME Sensible, NEW r \in Runners, Send(r)
  PROVE  Sensible'
<1>1. job' \in [Runners -> Job] /\ JobsOrderly'
  BY Works, DoingChanges, JobTyped DEF Send, Orderly
<1>2. sent' \in Seq([by : Runners \union {"owner"}, p : Aggregates, w : Weeks, row : Row])
  BY Subject, Sends DEF Send
<1> QED BY <1>1, <1>2 DEF Send, Sensible, TypeOK, ReviewOrderly

LEMMA MarkSensible ==
  ASSUME Sensible, NEW r \in Runners, Mark(r)
  PROVE  Sensible'
<1>1. job' \in [Runners -> Job] /\ JobsOrderly'
  BY Works, DoingChanges DEF Mark
<1>2. [job[r].row EXCEPT !.status = "published"] \in Row
  BY JobTyped DEF Row
<1>3. report' \in [Projects -> [Weeks -> Row]]
  BY <1>2, JobTyped, UpsertRow DEF Mark
<1> QED BY <1>1, <1>3 DEF Mark, Sensible, TypeOK, ReviewOrderly

LEMMA IdleOrderly ==
  ASSUME NEW r \in Runners
  PROVE  Orderly(r, JobIdle)
BY Rests DEF Orderly

LEMMA EndSensible ==
  ASSUME Sensible, NEW r \in Runners, End(r) \/ Abort(r)
  PROVE  Sensible'
<1>1. job' \in [Runners -> Job] /\ JobsOrderly'
  BY Rests, IdleOrderly, JobChanges DEF End, Abort
<1>2. faults' \in 0..MaxFault
  BY Numbers DEF End, Abort, Fault, Sensible, TypeOK
<1> QED BY <1>1, <1>2 DEF End, Abort, Sensible, TypeOK, ReviewOrderly

-----------------------------------------------------------------------------
(* So do the owner's commands, restarts and days. *)

LEMMA ReviewTyped ==
  ASSUME Sensible
  PROVE  review \in Review /\ review.p \in Aggregates /\ review.p \in Projects /\ review.w \in Weeks
         /\ review.row \in Row /\ review.n \in 0..MaxSay /\ review.what \in Commands
         /\ (review.doing # "idle" => review.p \in Reviewed)
BY DEF Sensible, TypeOK, Review, ReviewOrderly

\* A decision leaves a report that is there.
LEMMA DecidedRow ==
  ASSUME Sensible, review.doing = "save",
         NEW row, row = Decided(review.what, review.n, review.row)
  PROVE  /\ row \in Row
         /\ row.status \in {"approved", "vetoed", "draft"} /\ row.from = review.row.from
         /\ review.what = "approve" => row.status = "approved" /\ row.edits = review.row.edits
         /\ review.what = "veto" => Settled(row)
         /\ review.what = "edit" => row.edits # {}
<1>1. /\ review.row \in Row /\ review.n \in 1..MaxSay
      /\ review.what \in {"approve", "veto", "edit"}
  BY ReviewTyped DEF Commands, Sensible, ReviewOrderly
<1>3. CASE review.what = "approve"
  BY <1>1, <1>3 DEF Decided, Row
<1>4. CASE review.what = "veto"
  BY <1>1, <1>4 DEF Decided, Row, Settled
<1>5. CASE review.what = "edit"
  BY <1>1, <1>5 DEF Decided, Row
<1> QED BY <1>1, <1>3, <1>4, <1>5

\* Steps of the review leave the jobs alone.
LEMMA SaySensible ==
  ASSUME Sensible, NEW what \in Commands, NEW p \in Reviewed, Say(what, p)
  PROVE  Sensible'
<1>1. JobsOrderly'
  BY JobsRest DEF Say
<1>2. said + 1 \in 1..MaxSay /\ said + 1 \in 0..MaxSay
  BY Numbers DEF Say
<1>3. /\ review' \in Review /\ review'.doing = "look" /\ review'.n = said + 1 /\ review'.p = p
  BY <1>2, Rests DEF Say, Review
<1> QED BY <1>1, <1>2, <1>3 DEF Say, Sensible, TypeOK, ReviewOrderly

LEMMA LookSensible ==
  ASSUME Sensible, Look
  PROVE  Sensible'
<1> DEFINE w == ReviewWeek(day)
           row == report[review.p][w]
<1>1. JobsOrderly'
  BY JobsRest DEF Look
<1>2. review \in Review /\ review.p \in Projects /\ review.n \in 1..MaxSay /\ review.p \in Reviewed
  BY ReviewTyped DEF Look, Sensible, ReviewOrderly
<1>3. w \in Weeks
  BY Calendar DEF Sensible, TypeOK
<1>4. row \in Row
  BY <1>2, <1>3 DEF Sensible, TypeOK
<1> HIDE DEF row, w
<1>5. CASE row.status = "none" \/ Settled(row)
  BY <1>1, <1>5, Rests DEF Look, row, w, Sensible, TypeOK, ReviewOrderly
<1>6. CASE ~(row.status = "none" \/ Settled(row))
  <2>1. review' = [review EXCEPT !.doing = "save", !.w = w, !.row = row]
    BY <1>6 DEF Look, row, w
  <2>2. review' \in Review /\ review'.n = review.n /\ review'.p = review.p /\ review'.row = row
    BY <1>2, <1>3, <1>4, <2>1 DEF Review
  <2> QED BY <1>1, <1>2, <1>6, <2>2 DEF Look, Sensible, TypeOK, ReviewOrderly
<1> QED BY <1>5, <1>6

LEMMA SaveSensible ==
  ASSUME Sensible, Save
  PROVE  Sensible'
<1> DEFINE row == Decided(review.what, review.n, review.row)
<1>1. JobsOrderly'
  BY JobsRest DEF Save
<1>2. row \in Row /\ row.status # "none"
  BY DecidedRow DEF Save
<1>3. /\ review \in Review /\ review.p \in Projects /\ review.n \in 1..MaxSay
      /\ review.p \in Reviewed /\ review.w \in Weeks
  BY ReviewTyped DEF Save, Sensible, ReviewOrderly
<1> HIDE DEF row
<1>4. report' \in [Projects -> [Weeks -> Row]]
  BY <1>2, <1>3, UpsertRow DEF Save, row
<1>5. CASE review.what = "approve"
  <2>1. review' = [review EXCEPT !.doing = "send", !.row = row]
    BY <1>5 DEF Save, row
  <2>2. review' \in Review /\ review'.n = review.n /\ review'.p = review.p /\ review'.row = row
    BY <1>2, <1>3, <2>1 DEF Review
  <2> QED BY <1>1, <1>2, <1>3, <1>4, <2>2 DEF Save, Sensible, TypeOK, ReviewOrderly
<1>6. CASE review.what # "approve"
  <2>1. review' = ReviewIdle
    BY <1>6 DEF Save
  <2> QED BY <1>1, <1>4, <2>1, Rests DEF Save, Sensible, TypeOK, ReviewOrderly
<1> QED BY <1>5, <1>6

LEMMA SendApprovedSensible ==
  ASSUME Sensible, SendApproved
  PROVE  Sensible'
<1>1. JobsOrderly'
  BY JobsRest DEF SendApproved
<1>2. sent' \in Seq([by : Runners \union {"owner"}, p : Aggregates, w : Weeks, row : Row])
  BY ReviewTyped, Sends DEF SendApproved
<1>3. review' \in Review /\ review'.n = review.n /\ review'.p = review.p /\ review'.row = review.row
  BY ReviewTyped DEF SendApproved, Review
<1> QED BY <1>1, <1>2, <1>3 DEF SendApproved, Sensible, TypeOK, ReviewOrderly

LEMMA MarkApprovedSensible ==
  ASSUME Sensible, MarkApproved
  PROVE  Sensible'
<1>1. JobsOrderly'
  BY JobsRest DEF MarkApproved
<1>2. [review.row EXCEPT !.status = "published"] \in Row
  BY ReviewTyped DEF Row
<1>3. report' \in [Projects -> [Weeks -> Row]]
  BY <1>2, ReviewTyped, UpsertRow DEF MarkApproved
<1> QED BY <1>1, <1>3, Rests DEF MarkApproved, Sensible, TypeOK, ReviewOrderly

\* The command begins anew.
LEMMA AnewReview ==
  ASSUME Sensible
  PROVE  LET anew == [review EXCEPT !.doing = "look", !.w = 0, !.row = NoRow]
         IN  anew \in Review /\ anew.n = review.n /\ anew.p = review.p /\ anew.doing = "look"
<1>1. 0 \in Weeks /\ NoRow \in Row
  BY Rests DEF Weeks
<1> QED BY <1>1, ReviewTyped DEF Review

LEMMA RepeatSensible ==
  ASSUME Sensible, Repeat
  PROVE  Sensible'
<1>1. JobsOrderly'
  BY JobsRest DEF Repeat
<1>2. review' \in Review /\ review'.n = review.n /\ review'.p = review.p /\ review'.doing = "look"
  BY AnewReview DEF Repeat
<1>3. faults' \in 0..MaxFault
  BY Numbers DEF Repeat, Fault
<1> QED BY <1>1, <1>2, <1>3 DEF Repeat, Sensible, TypeOK, ReviewOrderly

LEMMA RestartSensible ==
  ASSUME Sensible, Restart
  PROVE  Sensible'
<1>1. job' \in [Runners -> Job] /\ JobsOrderly'
  <2>1. \A r \in Runners : Orderly(r, JobIdle)'
    BY Rests DEF Orderly
  <2> QED BY <2>1, Rests DEF Restart, JobsOrderly
<1>2. faults' \in 0..MaxFault
  BY Numbers DEF Restart, Fault
<1>3. fired' \subseteq Entries(day)' /\ UNCHANGED day
  BY DEF Restart, Entries
<1>4. CASE review.doing = "idle"
  BY <1>1, <1>2, <1>3, <1>4, Rests DEF Restart, Sensible, TypeOK, ReviewOrderly
<1>5. CASE review.doing # "idle"
  <2>1. review' \in Review /\ review'.n = review.n /\ review'.p = review.p /\ review'.doing = "look"
    BY <1>5, AnewReview DEF Restart
  <2> QED BY <1>1, <1>2, <1>3, <1>5, <2>1 DEF Restart, Sensible, TypeOK, ReviewOrderly
<1> QED BY <1>4, <1>5

LEMMA TickSensible ==
  ASSUME Sensible, Tick
  PROVE  Sensible'
<1>1. \A r \in Runners : job[r] = JobIdle
  BY JobTyped DEF Tick, Orderly
<1>2. JobsOrderly'
  <2>1. \A r \in Runners : Orderly(r, JobIdle)'
    BY Rests DEF Orderly
  <2> QED BY <1>1, <2>1 DEF Tick, JobsOrderly
<1>3. day' \in FirstDay..MaxDay
  BY Numbers DEF Tick, Sensible, TypeOK
<1>4. fired' \subseteq Entries(day')
  BY DEF Tick
<1> QED BY <1>2, <1>3, <1>4 DEF Tick, Sensible, TypeOK, ReviewOrderly

LEMMA InitSensible ==
  ASSUME Init
  PROVE  Sensible
<1>1. \A r \in Runners : Orderly(r, JobIdle)
  BY IdleOrderly
<1>2. day \in FirstDay..MaxDay /\ 0 \in 0..MaxRun /\ 0 \in 0..MaxSay /\ 0 \in 0..MaxText
      /\ 0 \in 0..MaxFault
  BY DEF Init
<1>3. report \in [Projects -> [Weeks -> Row]] /\ job \in [Runners -> Job] /\ review \in Review
  BY Rests DEF Init
<1>4. sent \in Seq([by : Runners \union {"owner"}, p : Aggregates, w : Weeks, row : Row])
  BY DEF Init
<1> QED BY <1>1, <1>2, <1>3, <1>4, Rests DEF Init, Sensible, TypeOK, JobsOrderly, ReviewOrderly

LEMMA StepSensible ==
  ASSUME Sensible, [Next]_vars
  PROVE  Sensible'
<1>1. CASE UNCHANGED vars
  <2>1. JobsOrderly'
    BY <1>1, JobsRest DEF vars
  <2> QED BY <1>1, <2>1 DEF vars, Sensible, TypeOK, ReviewOrderly
<1>2. ASSUME NEW r \in Runners, JobStep(r) \/ Abort(r) PROVE Sensible'
  BY <1>2, TakeNextSensible, WriteSensible, ShowSensible, SendSensible, MarkSensible, EndSensible
     DEF JobStep
<1>3. CASE ReviewStep
  BY <1>3, LookSensible, SaveSensible, SendApprovedSensible, MarkApprovedSensible DEF ReviewStep
<1> QED BY <1>1, <1>2, <1>3, StartSensible, SaySensible, RepeatSensible, RestartSensible,
          TickSensible DEF Next

-----------------------------------------------------------------------------
(* What is settled stays *)

LEMMA JobStepSettled ==
  ASSUME Sensible, NEW r \in Runners, JobStep(r) \/ Abort(r),
         NEW p \in Aggregates, NEW w \in Weeks, Settled(report[p][w]), ~Held(p, w)
  PROVE  /\ report'[p][w] = report[p][w]
         /\ \A i \in DOMAIN sent' \ DOMAIN sent : sent'[i].p # p \/ sent'[i].w # w
<1>p. p \in Projects
  OBVIOUS
<1>1. job[r].doing \in {"write", "show", "send", "mark"} => job[r].p # p \/ job[r].w # w
  BY JobTyped DEF Held, Orderly
<1>2. CASE \/ \E q \in Projects : TakeNext(r, q)
           \/ Show(r) \/ End(r) \/ Abort(r)
  BY <1>2 DEF TakeNext, Show, End, Abort
<1>3. CASE Write(r)
  <2>1. job[r].p # p \/ job[r].w # w
    BY <1>1, <1>3 DEF Write
  <2>2. \A q \in Projects, v \in Weeks :
          report'[q][v] = IF q = job[r].p /\ v = job[r].w THEN Generated(job[r]) ELSE report[q][v]
    BY <1>3, JobTyped, GeneratedRow, UpsertRow DEF Write
  <2> QED BY <1>p, <1>3, <2>1, <2>2 DEF Write
<1>4. CASE Send(r)
  <2>1. job[r].p # p \/ job[r].w # w
    BY <1>1, <1>4 DEF Send
  <2>2. /\ DOMAIN sent' = DOMAIN sent \union {Len(sent) + 1}
        /\ sent'[Len(sent) + 1] = Publication(r, job[r].p, job[r].w, job[r].row)
    BY <1>4, Subject, Sends DEF Send
  <2> QED BY <1>4, <2>1, <2>2 DEF Send, Publication
<1>5. CASE Mark(r)
  <2>1. job[r].p # p \/ job[r].w # w
    BY <1>1, <1>5 DEF Mark
  <2>2. [job[r].row EXCEPT !.status = "published"] \in Row
    BY JobTyped DEF Row
  <2>3. \A q \in Projects, v \in Weeks :
          report'[q][v] = IF q = job[r].p /\ v = job[r].w
                          THEN [job[r].row EXCEPT !.status = "published"] ELSE report[q][v]
    BY <1>5, <2>2, JobTyped, UpsertRow DEF Mark
  <2> QED BY <1>p, <1>5, <2>1, <2>3 DEF Mark
<1> QED BY <1>2, <1>3, <1>4, <1>5 DEF JobStep

LEMMA ReviewStepSettled ==
  ASSUME Sensible, ReviewStep,
         NEW p \in Aggregates, NEW w \in Weeks, Settled(report[p][w]), ~Held(p, w)
  PROVE  /\ report'[p][w] = report[p][w]
         /\ \A i \in DOMAIN sent' \ DOMAIN sent : sent'[i].p # p \/ sent'[i].w # w
<1>p. p \in Projects
  OBVIOUS
<1>1. review.doing \in {"save", "send", "mark"} => review.p # p \/ review.w # w
  BY DEF Held
<1>2. CASE Look
  BY <1>2 DEF Look
<1>3. CASE Save
  <2> DEFINE row == Decided(review.what, review.n, review.row)
  <2>1. review.p # p \/ review.w # w
    BY <1>1, <1>3 DEF Save
  <2>2. row \in Row
    BY <1>3, DecidedRow DEF Save
  <2>3. \A q \in Projects, v \in Weeks :
          report'[q][v] = IF q = review.p /\ v = review.w THEN row ELSE report[q][v]
    BY <1>3, <2>2, ReviewTyped, UpsertRow DEF Save
  <2> QED BY <1>p, <1>3, <2>1, <2>3 DEF Save
<1>4. CASE SendApproved
  <2>1. review.p # p \/ review.w # w
    BY <1>1, <1>4 DEF SendApproved
  <2>2. /\ DOMAIN sent' = DOMAIN sent \union {Len(sent) + 1}
        /\ sent'[Len(sent) + 1] = Publication("owner", review.p, review.w, review.row)
    BY <1>4, ReviewTyped, Sends DEF SendApproved
  <2> QED BY <1>4, <2>1, <2>2 DEF SendApproved, Publication
<1>5. CASE MarkApproved
  <2>1. review.p # p \/ review.w # w
    BY <1>1, <1>5 DEF MarkApproved
  <2>2. [review.row EXCEPT !.status = "published"] \in Row
    BY ReviewTyped DEF Row
  <2>3. \A q \in Projects, v \in Weeks :
          report'[q][v] = IF q = review.p /\ v = review.w
                          THEN [review.row EXCEPT !.status = "published"] ELSE report[q][v]
    BY <1>5, <2>2, ReviewTyped, UpsertRow DEF MarkApproved
  <2> QED BY <1>p, <1>5, <2>1, <2>3 DEF MarkApproved
<1> QED BY <1>2, <1>3, <1>4, <1>5 DEF ReviewStep

LEMMA StepSettled ==
  ASSUME Sensible, [Next]_vars,
         NEW p \in Aggregates, NEW w \in Weeks, Settled(report[p][w]), ~Held(p, w)
  PROVE  /\ report'[p][w] = report[p][w]
         /\ \A i \in DOMAIN sent' \ DOMAIN sent : sent'[i].p # p \/ sent'[i].w # w
<1>1. CASE UNCHANGED <<report, sent>>
  BY <1>1
<1>2. UNCHANGED <<report, sent>> \/ ReviewStep \/ \E r \in Runners : JobStep(r) \/ Abort(r)
  BY DEF Next, vars, Cron, AdminRun, Say, Repeat, Restart, Tick
<1> QED BY <1>1, <1>2, JobStepSettled, ReviewStepSettled

-----------------------------------------------------------------------------
(* What cron publishes includes every source that is due, if nothing fails. *)

Whole(p, row)    == Due(p) \subseteq row.from /\ row.from \subseteq SourcesOf[p]
Included(p, row) == row.edits # {} \/ Whole(p, row)
Fine(p, row) == Settled(row) \/ Included(p, row)

\* A job of cron has project p still before it, or is about to write its row.
Ahead(kind, p, w) ==
  /\ job["cron"].kind = kind
  /\ \/ p \in job["cron"].todo
     \/ job["cron"].doing = "write" /\ job["cron"].p = p /\ job["cron"].w = w

\* The owner has approved a copy that he read before, and is publishing it.
OwnerPublishes(p, w) ==
  review.doing \in {"send", "mark"} /\ review.p = p /\ review.w = w

\* Saturday's run writes the report of every single project ...
SaturdayReports == day % 7 = 5 /\ "report" \in fired =>
  \A s \in Singles : report[s][WeekOf(day)].status # "none" \/ Ahead("report", s, WeekOf(day))

\* ... so that they are there on Sunday and Monday, when drafts are written ...
SourcesReported == day % 7 \in {6, 0} =>
  \A s \in Singles : report[s][ReviewWeek(day)].status # "none"
FreshWrites == day % 7 \in {6, 0} =>
  \A r \in Runners : job[r].doing = "write" /\ job[r].kind # "report" =>
    Whole(job[r].p, job[r].row)

\* ... each run makes the drafts that its later projects may be made from ...
DraftsInOrder == \A r \in Runners : job[r].kind \in {"draft", "publish"} =>
  \A q \in Reviewed :
    \/ q \in job[r].todo
    \/ job[r].doing = "write" /\ job[r].p = q /\ job[r].w = ReviewWeek(day)
    \/ report[q][ReviewWeek(day)].status # "none"

\* ... Sunday's run writes every draft anew ...
SundayDrafts == day % 7 = 6 /\ "draft" \in fired =>
  \A p \in Reviewed : \/ Fine(p, report[p][ReviewWeek(day)])
                      \/ Ahead("draft", p, ReviewWeek(day))
                      \/ OwnerPublishes(p, ReviewWeek(day))

\* ... and on Monday rows and the copies that were read on Monday are all fine.
MondayReports == day % 7 = 0 =>
  \A p \in Reviewed : Fine(p, report[p][ReviewWeek(day)])
MondayReview == day % 7 = 0 /\ review.doing \in {"save", "send", "mark"} =>
  Included(review.p, review.row)
MondayCopies == job["cron"].kind = "publish" /\ job["cron"].doing \in {"show", "send"} =>
  Included(job["cron"].p, job["cron"].row)

CronIncludes == \A i \in DOMAIN sent : sent[i].by = "cron" => Included(sent[i].p, sent[i].row)

Timely ==
  /\ SaturdayReports /\ SourcesReported /\ DraftsInOrder /\ FreshWrites /\ SundayDrafts
  /\ MondayReports /\ MondayReview /\ MondayCopies /\ CronIncludes

-----------------------------------------------------------------------------
\* Reports that are written are there, and those that are not are not touched.
LEMMA RowsWritten ==
  ASSUME Sensible, NEW p \in Projects, NEW w \in Weeks, NEW row \in Row, Upsert(p, w, row),
         row.status # "none", UNCHANGED <<day, fired>>, Timely
  PROVE  /\ SourcesReported'
         /\ \A q \in Reviewed : report[q][ReviewWeek(day)].status # "none"
                                  => report'[q][ReviewWeek(day)].status # "none"
         /\ \A s \in Singles : report[s][WeekOf(day)].status # "none"
                                 => report'[s][WeekOf(day)].status # "none"
         /\ \A q \in Reviewed : Fine(q, report[q][ReviewWeek(day)]) /\ (q = p => Fine(q, row))
                                    => Fine(q, report'[q][ReviewWeek(day)])
<1>1. WeekOf(day) \in Weeks /\ ReviewWeek(day) \in Weeks
  BY Calendar DEF Sensible, TypeOK
<1>2. \A q \in Projects, v \in Weeks :
        report'[q][v] = IF q = p /\ v = w THEN row ELSE report[q][v]
  BY UpsertRow
<1>3. \A v \in Weeks, s \in Singles : report[s][v].status # "none" => report'[s][v].status # "none"
  BY <1>2
<1>4. \A s \in Singles : report[s][WeekOf(day)].status # "none"
                           => report'[s][WeekOf(day)].status # "none"
  BY <1>1, <1>3
<1>5. \A q \in Reviewed : Fine(q, report[q][ReviewWeek(day)]) /\ (q = p => Fine(q, row))
                              => Fine(q, report'[q][ReviewWeek(day)])
  BY <1>1, <1>2
<1>6. SourcesReported'
  <2>1. ReviewWeek(day)' = ReviewWeek(day)
    BY DEF ReviewWeek
  <2> QED BY <1>1, <1>3, <2>1 DEF Timely, SourcesReported
<1>7. \A q \in Reviewed : report[q][ReviewWeek(day)].status # "none"
                           => report'[q][ReviewWeek(day)].status # "none"
  BY <1>1, <1>2
<1> QED BY <1>4, <1>5, <1>6, <1>7

\* A job that goes on, ends, or rests keeps the order of the drafts.
LEMMA OrderKept ==
  ASSUME Timely, UNCHANGED day,
         \A q \in Reviewed : report[q][ReviewWeek(day)].status # "none"
                             => report'[q][ReviewWeek(day)].status # "none",
         \A r \in Runners : \/ job'[r] = job[r]
                            \/ job'[r].kind = "idle"
                            \/ /\ job[r].doing # "write"
                               /\ job'[r].kind = job[r].kind /\ job'[r].todo = job[r].todo
  PROVE  DraftsInOrder'
<1>1. ReviewWeek(day)' = ReviewWeek(day)
  BY DEF ReviewWeek
<1> QED BY <1>1 DEF Timely, DraftsInOrder

LEMMA StartTimely ==
  ASSUME Sensible, Timely, NEW kind \in {"report", "draft", "publish"},
         Cron(kind) \/ AdminRun(kind)
  PROVE  Timely'
<1>0. WeekOf(day)' = WeekOf(day) /\ ReviewWeek(day)' = ReviewWeek(day) /\ UNCHANGED day
      /\ UNCHANGED <<report, review, sent>>
  BY DEF WeekOf, ReviewWeek, Cron, AdminRun
<1>j. job \in [Runners -> Job] /\ "cron" \in Runners /\ "admin" \in Runners
  BY DEF Sensible, TypeOK, Runners
<1>s. Started(kind).kind = kind /\ Started(kind).doing = "next"
      /\ Started(kind).todo = Subjects(kind)
  BY Rests DEF Started, JobIdle
<1>1. SourcesReported' /\ MondayReports' /\ MondayReview' /\ CronIncludes'
  BY <1>0 DEF Timely, SourcesReported, MondayReports, MondayReview, CronIncludes
<1>2. CASE Cron(kind)
  <2>1. /\ job'["cron"] = Started(kind) /\ job'["admin"] = job["admin"]
        /\ job["cron"].kind = "idle" /\ job["cron"].todo = {} /\ job["cron"].doing = "next"
    BY <1>2, <1>j, JobTyped, Rests DEF Cron, Orderly
  <2>2. FreshWrites' /\ MondayCopies' /\ DraftsInOrder'
    BY <1>0, <1>s, <2>1 DEF Timely, FreshWrites, MondayCopies, DraftsInOrder, Runners, Subjects
  <2>3. SaturdayReports'
    BY <1>0, <1>2, <1>s, <2>1 DEF Timely, SaturdayReports, Ahead, Cron, Subjects
  <2>4. SundayDrafts'
    BY <1>0, <1>2, <1>s, <2>1 DEF Timely, SundayDrafts, Ahead, OwnerPublishes, Cron, Subjects
  <2> QED BY <1>1, <2>2, <2>3, <2>4 DEF Timely
<1>3. CASE AdminRun(kind)
  <2>1. job'["admin"] = Started(kind) /\ job'["cron"] = job["cron"] /\ UNCHANGED fired
    BY <1>3, <1>j DEF AdminRun
  <2>2. FreshWrites' /\ MondayCopies' /\ DraftsInOrder'
    BY <1>0, <1>s, <2>1 DEF Timely, FreshWrites, MondayCopies, DraftsInOrder, Runners, Subjects
  <2>3. SaturdayReports' /\ SundayDrafts'
    BY <1>0, <2>1 DEF Timely, SaturdayReports, SundayDrafts, Ahead, OwnerPublishes
  <2> QED BY <1>1, <2>2, <2>3 DEF Timely
<1> QED BY <1>2, <1>3

\* What a job holds after TakeNext.
LEMMA Taken ==
  ASSUME Sensible, NEW r \in Runners, NEW p \in Projects, TakeNext(r, p)
  PROVE  LET w == IF job[r].kind = "report" THEN WeekOf(day) ELSE ReviewWeek(day)
             row == report[p][w]
         IN  /\ \A q \in Runners \ {r} : job'[q] = job[q]
             /\ job'[r].kind = job[r].kind /\ job'[r].todo = job[r].todo \ {p}
             /\ job'[r].p = p /\ job'[r].w = w /\ job[r].doing = "next"
             /\ p \in Subjects(job[r].kind) /\ \A q \in job[r].todo : p <= q
             /\ \/ /\ job'[r].doing = "write"
                   /\ job'[r].row.from = Gathered(job[r].kind, p, w)
                \/ job'[r].doing = "next" /\ job[r].kind = "publish" /\ row.status # "none"
                \/ /\ job'[r].doing = "send" /\ job[r].kind = "publish"
                   /\ ~Settled(row) /\ row.status # "none" /\ job'[r].row = row
<1> DEFINE w == IF job[r].kind = "report" THEN WeekOf(day) ELSE ReviewWeek(day)
           row == report[p][w]
           new == [NoRow EXCEPT !.from = Gathered(job[r].kind, p, w)]
           rest == [job[r] EXCEPT !.todo = @ \ {p}, !.p = p, !.w = w]
           n == IF job[r].kind # "publish" \/ row.status = "none"
                  THEN [rest EXCEPT !.doing = "write", !.row = new]
                ELSE IF Settled(row) THEN rest
                ELSE [rest EXCEPT !.doing = "send", !.row = row]
<1>1. /\ job[r] \in Job /\ job \in [Runners -> Job] /\ job[r].doing = "next"
      /\ p \in Subjects(job[r].kind) /\ \A q \in job[r].todo : p <= q
  BY JobTyped DEF TakeNext, IsNext, Sensible, TypeOK, Orderly
<1>2. job' = [job EXCEPT ![r] = n]
  BY DEF TakeNext
<1>3. job'[r] = n /\ \A q \in Runners \ {r} : job'[q] = job[q]
  BY <1>1, <1>2
<1>4. new.from = Gathered(job[r].kind, p, w)
  BY DEF NoRow
<1>5. rest.kind = job[r].kind /\ rest.todo = job[r].todo \ {p} /\ rest.p = p /\ rest.w = w
      /\ rest.doing = "next" /\ DOMAIN rest = DOMAIN job[r]
      /\ DOMAIN rest = {"kind", "todo", "doing", "p", "w", "row"}
  BY <1>1 DEF Job
<1> HIDE DEF row, new, rest, w
<1>6. /\ n.kind = job[r].kind /\ n.todo = job[r].todo \ {p} /\ n.p = p /\ n.w = w
      /\ \/ n.doing = "write" /\ n.row = new
         \/ n.doing = "next" /\ job[r].kind = "publish" /\ row.status # "none"
         \/ /\ n.doing = "send" /\ job[r].kind = "publish"
            /\ ~Settled(row) /\ row.status # "none" /\ n.row = row
  BY <1>5
<1> HIDE DEF n
<1> QED BY <1>1, <1>3, <1>4, <1>6 DEF row, w

LEMMA TakeNextTimely ==
  ASSUME Sensible, Timely, NEW r \in Runners, NEW p \in Projects, TakeNext(r, p)
  PROVE  Timely'
<1> DEFINE w == IF job[r].kind = "report" THEN WeekOf(day) ELSE ReviewWeek(day)
<1>0. WeekOf(day)' = WeekOf(day) /\ ReviewWeek(day)' = ReviewWeek(day)
      /\ UNCHANGED <<day, fired, report, review, sent>>
  BY DEF WeekOf, ReviewWeek, TakeNext
<1>1. SourcesReported' /\ MondayReports' /\ MondayReview' /\ CronIncludes'
  BY <1>0 DEF Timely, SourcesReported, MondayReports, MondayReview, CronIncludes
<1>2. \A k \in {"report", "draft"}, q \in Projects, v \in Weeks :
        Ahead(k, q, v) /\ v = (IF k = "report" THEN WeekOf(day) ELSE ReviewWeek(day)) => Ahead(k, q, v)'
  BY Taken DEF Ahead, Runners
<1>3. WeekOf(day) \in Weeks /\ ReviewWeek(day) \in Weeks
  BY Calendar DEF Sensible, TypeOK
<1>4. SaturdayReports'
  BY <1>0, <1>2, <1>3 DEF Timely, SaturdayReports
<1>5. SundayDrafts'
  BY <1>0, <1>2, <1>3 DEF Timely, SundayDrafts, OwnerPublishes
<1>6. FreshWrites'
  <2>1. SUFFICES ASSUME day % 7 \in {6, 0}, NEW q \in Runners, job'[q].doing = "write",
                        job'[q].kind # "report"
                 PROVE  Whole(job'[q].p, job'[q].row)
    BY <1>0 DEF FreshWrites, Whole, Due
  <2>2. CASE q # r
    <3>1. job'[q] = job[q]
      BY <2>2, Taken
    <3> QED BY <2>1, <3>1 DEF Timely, FreshWrites, Whole
  <2>3. CASE q = r
    <3>1. p \in Reviewed /\ job[r].kind \in {"draft", "publish"} /\ job[r].doing = "next"
          /\ \A s \in job[r].todo : p <= s
      <4>1. job'[r].kind = job[r].kind /\ job[r].doing = "next" /\ p \in Subjects(job[r].kind)
            /\ \A s \in job[r].todo : p <= s
        BY Taken
      <4>2. job[r] \in Job /\ job[r].kind # "idle"
        BY JobTyped DEF TakeNext
      <4> QED BY <2>1, <2>3, <4>1, <4>2 DEF Subjects, Job
    <3>2. job'[r].row.from = Reported(p, ReviewWeek(day)) /\ job'[r].p = p
      BY <2>1, <2>3, <3>1, Taken DEF Gathered
    <3>3. ASSUME NEW s \in Due(p)
          PROVE  s \in Reported(p, ReviewWeek(day))
      <4>1. s \in SourcesOf[p] /\ s \in Owned /\ (s \in Aggregates => s < p)
        BY <3>3 DEF Due
      <4>2. CASE s \in Singles
        BY <2>1, <4>1, <4>2 DEF Reported, Timely, SourcesReported
      <4>3. CASE s \in Reviewed
        <5>1. p \in Nat /\ s \in Nat /\ s < p
          BY <3>1, <4>1, <4>3
        <5>2. s \notin job[r].todo
          BY <3>1, <5>1
        <5> QED BY <3>1, <4>1, <4>3, <5>2 DEF Reported, Timely, DraftsInOrder
      <4> QED BY <4>1, <4>2, <4>3
    <3>4. Reported(p, ReviewWeek(day)) \subseteq SourcesOf[p]
      BY DEF Reported
    <3> QED BY <2>3, <3>2, <3>3, <3>4 DEF Whole
  <2> QED BY <2>2, <2>3
<1>7. MondayCopies'
  <2>1. SUFFICES ASSUME job'["cron"].kind = "publish", job'["cron"].doing \in {"show", "send"}
                 PROVE  Included(job'["cron"].p, job'["cron"].row)
    BY DEF MondayCopies, Included, Whole
  <2>2. CASE r # "cron"
    BY <2>1, <2>2, Taken DEF Timely, MondayCopies, Runners
  <2>3. CASE r = "cron"
    <3>1. job["cron"].kind = "publish" /\ p \in Reviewed /\ job'["cron"].p = p
          /\ ~Settled(report[p][ReviewWeek(day)]) /\ job'["cron"].row = report[p][ReviewWeek(day)]
      BY <2>1, <2>3, Taken DEF Subjects
    <3>2. day % 7 = 0
      BY <2>3, <3>1, JobTyped DEF Orderly
    <3> QED BY <3>1, <3>2 DEF Timely, MondayReports, Fine
  <2> QED BY <2>2, <2>3
<1>8. DraftsInOrder'
  <2>1. SUFFICES ASSUME NEW q \in Runners, job'[q].kind \in {"draft", "publish"}, NEW s \in Reviewed
                 PROVE  \/ s \in job'[q].todo
                        \/ job'[q].doing = "write" /\ job'[q].p = s /\ job'[q].w = ReviewWeek(day)
                        \/ report[s][ReviewWeek(day)].status # "none"
    BY <1>0 DEF DraftsInOrder
  <2>2. CASE q # r
    BY <2>1, <2>2, Taken DEF Timely, DraftsInOrder
  <2>3. CASE q = r
    <3>1. job[r].kind = job'[r].kind /\ job[r].kind # "report" /\ job[r].doing = "next"
          /\ job'[r].todo = job[r].todo \ {p} /\ job'[r].p = p /\ job'[r].w = ReviewWeek(day)
      BY <2>1, <2>3, Taken
    <3>2. job'[r].doing = "write" \/ report[p][ReviewWeek(day)].status # "none"
      BY <3>1, Taken
    <3>3. s \in job[r].todo \/ report[s][ReviewWeek(day)].status # "none"
      BY <2>1, <2>3, <3>1 DEF Timely, DraftsInOrder
    <3> QED BY <2>3, <3>1, <3>2, <3>3
  <2> QED BY <2>2, <2>3
<1> QED BY <1>1, <1>4, <1>5, <1>6, <1>7, <1>8 DEF Timely

\* A job that goes on, and writes nothing.
LEMMA GoesOn ==
  ASSUME Sensible, NEW r \in Runners, NEW d \in {"next", "show", "send", "mark"},
         job' = [job EXCEPT ![r].doing = d]
  PROVE  /\ \A q \in Runners \ {r} : job'[q] = job[q]
         /\ job'[r].kind = job[r].kind /\ job'[r].todo = job[r].todo /\ job'[r].p = job[r].p
         /\ job'[r].w = job[r].w /\ job'[r].row = job[r].row /\ job'[r].doing = d
<1>1. job[r] \in Job /\ job \in [Runners -> Job]
  BY DEF Sensible, TypeOK
<1> QED BY <1>1 DEF Job

\* What a job may do without touching a row.
LEMMA WithoutRows ==
  ASSUME Sensible, Timely, UNCHANGED <<day, fired, report, review>>,
         \A r \in Runners : \/ job'[r] = job[r]
                            \/ /\ job'[r].doing # "write" /\ job[r].doing # "write"
                               /\ job'[r].kind = job[r].kind /\ job'[r].todo = job[r].todo
  PROVE  /\ SaturdayReports' /\ SourcesReported' /\ DraftsInOrder' /\ FreshWrites'
         /\ SundayDrafts' /\ MondayReports' /\ MondayReview'
<1>0. WeekOf(day)' = WeekOf(day) /\ ReviewWeek(day)' = ReviewWeek(day)
  BY DEF WeekOf, ReviewWeek
<1>1. SourcesReported' /\ MondayReports' /\ MondayReview'
  BY <1>0 DEF Timely, SourcesReported, MondayReports, MondayReview
<1>2. \A k, q, v : Ahead(k, q, v) => Ahead(k, q, v)'
  BY DEF Ahead, Runners
<1>3. SaturdayReports'
  BY <1>0, <1>2 DEF Timely, SaturdayReports
<1>4. SundayDrafts'
  BY <1>0, <1>2 DEF Timely, SundayDrafts, OwnerPublishes
<1>5. FreshWrites'
  BY DEF Timely, FreshWrites, Whole, Due
<1>6. DraftsInOrder'
  BY OrderKept
<1> QED BY <1>1, <1>3, <1>4, <1>5, <1>6

LEMMA ShowTimely ==
  ASSUME Sensible, Timely, NEW r \in Runners, Show(r)
  PROVE  Timely'
<1> DEFINE d == IF job[r].kind = "publish" THEN "send" ELSE "next"
<1>1. /\ job' = [job EXCEPT ![r].doing = d] /\ job[r].doing = "show"
      /\ UNCHANGED <<day, fired, report, review, sent>>
  BY DEF Show
<1>2. d \in {"next", "show", "send", "mark"}
  OBVIOUS
<1> HIDE DEF d
<1>3. /\ \A q \in Runners \ {r} : job'[q] = job[q]
      /\ job'[r].kind = job[r].kind /\ job'[r].todo = job[r].todo /\ job'[r].p = job[r].p
      /\ job'[r].w = job[r].w /\ job'[r].row = job[r].row /\ job'[r].doing = d
  BY <1>1, <1>2, GoesOn
<1>4. d # "write"
  BY <1>2
<1>5. /\ SaturdayReports' /\ SourcesReported' /\ DraftsInOrder' /\ FreshWrites'
      /\ SundayDrafts' /\ MondayReports' /\ MondayReview'
  BY <1>1, <1>3, <1>4, WithoutRows
<1>6. MondayCopies'
  BY <1>1, <1>3 DEF Timely, MondayCopies, Included, Whole, Runners
<1>7. CronIncludes'
  BY <1>1 DEF Timely, CronIncludes
<1> QED BY <1>5, <1>6, <1>7 DEF Timely

LEMMA SendTimely ==
  ASSUME Sensible, Timely, NEW r \in Runners, Send(r)
  PROVE  Timely'
<1>1. /\ job' = [job EXCEPT ![r].doing = "mark"] /\ job[r].doing = "send"
      /\ UNCHANGED <<day, fired, report, review>>
  BY DEF Send
<1>3. /\ \A q \in Runners \ {r} : job'[q] = job[q]
      /\ job'[r].kind = job[r].kind /\ job'[r].todo = job[r].todo /\ job'[r].p = job[r].p
      /\ job'[r].w = job[r].w /\ job'[r].row = job[r].row /\ job'[r].doing = "mark"
  BY <1>1, GoesOn
<1>5. /\ SaturdayReports' /\ SourcesReported' /\ DraftsInOrder' /\ FreshWrites'
      /\ SundayDrafts' /\ MondayReports' /\ MondayReview'
  BY <1>1, <1>3, WithoutRows
<1>6. MondayCopies'
  BY <1>1, <1>3 DEF Timely, MondayCopies, Included, Whole, Runners
<1>7. CronIncludes'
  <2>1. /\ DOMAIN sent' = DOMAIN sent \union {Len(sent) + 1} /\ DOMAIN sent = 1..Len(sent)
        /\ \A i \in DOMAIN sent : sent'[i] = sent[i]
        /\ sent'[Len(sent) + 1] = Publication(r, job[r].p, job[r].w, job[r].row)
    BY <1>1, Subject, Sends DEF Send
  <2>2. ASSUME r = "cron"
        PROVE  Included(job[r].p, job[r].row)
    <3>1. job[r].kind = "publish"
      BY <1>1, JobTyped DEF Orderly
    <3> QED BY <1>1, <2>2, <3>1 DEF Timely, MondayCopies
  <2> QED BY <2>1, <2>2 DEF Timely, CronIncludes, Publication, Included, Whole
<1> QED BY <1>5, <1>6, <1>7 DEF Timely

\* On Sunday and Monday a job writes drafts that include every source.
LEMMA WriteTimely ==
  ASSUME Sensible, Timely, NEW r \in Runners, Write(r)
  PROVE  Timely'
<1> DEFINE row == Generated(job[r])
           d == IF job[r].kind = "report" THEN "next" ELSE "show"
           n == [job[r] EXCEPT !.row = row, !.doing = d]
<1>0. WeekOf(day)' = WeekOf(day) /\ ReviewWeek(day)' = ReviewWeek(day)
      /\ UNCHANGED <<day, fired, review, sent>> /\ job[r].doing = "write"
  BY DEF WeekOf, ReviewWeek, Write
<1>1. row \in Row /\ row.status # "none" /\ row.from = job[r].row.from
  BY GeneratedRow DEF Write
<1>2. job[r] \in Job /\ job \in [Runners -> Job] /\ Orderly(r, job[r]) /\ job[r].p \in Projects
      /\ job[r].w \in Weeks
  BY JobTyped DEF Sensible, TypeOK
<1>3. Upsert(job[r].p, job[r].w, row)
  BY DEF Write
<1>4. job' = [job EXCEPT ![r] = n]
  BY <1>2 DEF Write
<1> HIDE DEF row, d
<1>5. /\ job'[r].kind = job[r].kind /\ job'[r].todo = job[r].todo /\ job'[r].p = job[r].p
      /\ job'[r].doing = d /\ job'[r].row = row
      /\ \A q \in Runners \ {r} : job'[q] = job[q]
  BY <1>2, <1>4 DEF Job
<1> HIDE DEF n
<1>6. \A q \in Projects, v \in Weeks :
        report'[q][v] = IF q = job[r].p /\ v = job[r].w THEN row ELSE report[q][v]
  <2> DEFINE p == job[r].p
             w == job[r].w
  <2>1. p \in Projects /\ w \in Weeks /\ row \in Row /\ Upsert(p, w, row)
    BY <1>1, <1>2, <1>3
  <2> HIDE DEF p, w
  <2>2. \A q \in Projects, v \in Weeks :
          report'[q][v] = IF q = p /\ v = w THEN row ELSE report[q][v]
    BY <2>1, UpsertRow
  <2> QED BY <2>2 DEF p, w
<1>7. /\ SourcesReported'
      /\ \A q \in Reviewed : report[q][ReviewWeek(day)].status # "none"
                               => report'[q][ReviewWeek(day)].status # "none"
      /\ \A s \in Singles : report[s][WeekOf(day)].status # "none"
                              => report'[s][WeekOf(day)].status # "none"
      /\ \A q \in Reviewed : Fine(q, report[q][ReviewWeek(day)]) /\ (q = job[r].p => Fine(q, row))
                                 => Fine(q, report'[q][ReviewWeek(day)])
  BY <1>0, <1>1, <1>2, <1>3, RowsWritten
<1>8. ASSUME day % 7 \in {6, 0}, NEW q \in Reviewed, q = job[r].p
      PROVE  Included(q, row)
  <2>1. job[r].kind # "report"
    BY <1>0, <1>2, <1>8 DEF Orderly, Subjects
  <2>2. Whole(q, job[r].row)
    BY <1>0, <1>8, <2>1 DEF Timely, FreshWrites
  <2> QED BY <1>1, <2>2 DEF Included, Whole
<1>w. WeekOf(day) \in Weeks /\ ReviewWeek(day) \in Weeks
  BY Calendar DEF Sensible, TypeOK
<1>10. SaturdayReports'
  <2>1. ASSUME day % 7 = 5, "report" \in fired, NEW s \in Singles
        PROVE  report'[s][WeekOf(day)].status # "none" \/ Ahead("report", s, WeekOf(day))'
    <3>1. report[s][WeekOf(day)].status # "none" \/ Ahead("report", s, WeekOf(day))
      BY <2>1 DEF Timely, SaturdayReports
    <3>2. Ahead("report", s, WeekOf(day)) =>
            Ahead("report", s, WeekOf(day))' \/ (job[r].p = s /\ job[r].w = WeekOf(day))
      BY <1>0, <1>5 DEF Ahead, Runners
    <3>3. s \in Projects
      OBVIOUS
    <3> QED BY <1>1, <1>6, <1>7, <1>w, <3>1, <3>2, <3>3
  <2> QED BY <1>0, <2>1 DEF SaturdayReports
<1>11. SundayDrafts'
  <2>1. ASSUME day % 7 = 6, "draft" \in fired, NEW q \in Reviewed
        PROVE  \/ Fine(q, report'[q][ReviewWeek(day)])
               \/ Ahead("draft", q, ReviewWeek(day))'
               \/ OwnerPublishes(q, ReviewWeek(day))'
    <3>1. \/ Fine(q, report[q][ReviewWeek(day)]) \/ Ahead("draft", q, ReviewWeek(day))
          \/ OwnerPublishes(q, ReviewWeek(day))
      BY <2>1 DEF Timely, SundayDrafts
    <3>2. q = job[r].p => Fine(q, row)
      BY <1>8, <2>1 DEF Fine
    <3>3. q = job[r].p /\ job[r].w = ReviewWeek(day) => Fine(q, report'[q][ReviewWeek(day)])
      BY <1>6, <1>w, <3>2
    <3>4. OwnerPublishes(q, ReviewWeek(day)) => OwnerPublishes(q, ReviewWeek(day))'
      BY <1>0 DEF OwnerPublishes
    <3>5. Ahead("draft", q, ReviewWeek(day)) =>
            \/ Ahead("draft", q, ReviewWeek(day))'
            \/ q = job[r].p /\ job[r].w = ReviewWeek(day)
      BY <1>0, <1>5 DEF Ahead, Runners
    <3> QED BY <1>7, <3>1, <3>2, <3>3, <3>4, <3>5
  <2>2. \A q \in Reviewed : Fine(q, report[q][ReviewWeek(day)])' = Fine(q, report'[q][ReviewWeek(day)])
    BY <1>0 DEF Fine, Included, Whole
  <2> QED BY <1>0, <2>1, <2>2 DEF SundayDrafts
<1>12. MondayReports'
  <2>1. ASSUME day % 7 = 0, NEW q \in Reviewed
        PROVE  Fine(q, report'[q][ReviewWeek(day)])
    BY <1>7, <1>8, <2>1 DEF Timely, MondayReports, Fine
  <2>2. \A q \in Reviewed : Fine(q, report[q][ReviewWeek(day)])' = Fine(q, report'[q][ReviewWeek(day)])
    BY <1>0 DEF Fine, Included, Whole
  <2> QED BY <1>0, <2>1, <2>2 DEF MondayReports
<1>13. MondayReview' /\ CronIncludes'
  BY <1>0 DEF Timely, MondayReview, CronIncludes, Included, Whole
<1>14. FreshWrites'
  <2>1. d # "write"
    BY DEF d
  <2> QED BY <1>0, <1>5, <2>1 DEF Timely, FreshWrites
<1>15. MondayCopies'
  <2>1. CASE r # "cron"
    BY <1>5, <2>1 DEF Timely, MondayCopies, Included, Whole, Runners
  <2>2. ASSUME r = "cron", job[r].kind = "publish"
        PROVE  Included(job[r].p, row)
    <3>1. day % 7 = 0 /\ job[r].p \in Reviewed
      BY <1>0, <1>2, <2>2 DEF Orderly, Subjects
    <3> QED BY <1>8, <3>1
  <2> QED BY <1>5, <2>1, <2>2 DEF MondayCopies, Included, Whole
<1>16. DraftsInOrder'
  <2>1. SUFFICES ASSUME NEW q \in Runners, job'[q].kind \in {"draft", "publish"}, NEW s \in Reviewed
                 PROVE  \/ s \in job'[q].todo
                        \/ job'[q].doing = "write" /\ job'[q].p = s /\ job'[q].w = ReviewWeek(day)
                        \/ report'[s][ReviewWeek(day)].status # "none"
    BY <1>0 DEF DraftsInOrder
  <2>2. \/ s \in job[q].todo
        \/ job[q].doing = "write" /\ job[q].p = s /\ job[q].w = ReviewWeek(day)
        \/ report[s][ReviewWeek(day)].status # "none"
    BY <1>5, <2>1 DEF Timely, DraftsInOrder
  <2>3. q = r /\ job[q].p = s /\ job[q].w = ReviewWeek(day)
          => report'[s][ReviewWeek(day)].status # "none"
    <3>1. s \in Projects
      OBVIOUS
    <3> QED BY <1>1, <1>6, <1>w, <3>1
  <2> QED BY <1>5, <1>7, <2>2, <2>3
<1> QED BY <1>7, <1>10, <1>11, <1>12, <1>13, <1>14, <1>15, <1>16 DEF Timely

\* A row of an aggregate that is written as fine.
LEMMA FineWritten ==
  ASSUME Sensible, Timely, UNCHANGED <<day, fired>>,
         NEW p \in Reviewed, NEW w \in Weeks, NEW row \in Row, Upsert(p, w, row),
         row.status # "none",
         \/ Fine(p, row)
         \/ day % 7 # 0 /\ review' = [review EXCEPT !.doing = "send", !.row = row]
            /\ review.p = p /\ review.w = w,
         \A r \in Runners : \/ job'[r] = job[r]
                            \/ /\ job'[r].doing # "write" /\ job[r].doing # "write"
                               /\ job'[r].kind = job[r].kind /\ job'[r].todo = job[r].todo,
         \A q \in Reviewed : OwnerPublishes(q, ReviewWeek(day))
           => OwnerPublishes(q, ReviewWeek(day))' \/ (q = p /\ ReviewWeek(day) = w)
  PROVE  /\ SaturdayReports' /\ SourcesReported' /\ DraftsInOrder' /\ FreshWrites'
         /\ SundayDrafts' /\ MondayReports'
<1>0. WeekOf(day)' = WeekOf(day) /\ ReviewWeek(day)' = ReviewWeek(day)
  BY DEF WeekOf, ReviewWeek
<1>w. WeekOf(day) \in Weeks /\ ReviewWeek(day) \in Weeks /\ p \in Projects
  BY Calendar DEF Sensible, TypeOK
<1>1. \A q \in Projects, v \in Weeks :
        report'[q][v] = IF q = p /\ v = w THEN row ELSE report[q][v]
  BY <1>w, UpsertRow
<1>2. /\ SourcesReported'
      /\ \A q \in Reviewed : report[q][ReviewWeek(day)].status # "none"
                               => report'[q][ReviewWeek(day)].status # "none"
      /\ \A s \in Singles : report[s][WeekOf(day)].status # "none"
                              => report'[s][WeekOf(day)].status # "none"
  BY <1>w, RowsWritten
<1>3. \A k, q, v : Ahead(k, q, v) => Ahead(k, q, v)'
  BY DEF Ahead, Runners
<1>4. SaturdayReports'
  <2>1. \A s \in Singles, v \in Weeks : Ahead("report", s, v) => Ahead("report", s, v)'
    BY <1>3
  <2> QED BY <1>0, <1>2, <1>w, <2>1 DEF Timely, SaturdayReports
<1>5. FreshWrites' /\ DraftsInOrder'
  BY <1>2, OrderKept DEF Timely, FreshWrites, Whole, Due
<1>6. \A q \in Reviewed : Fine(q, report[q][ReviewWeek(day)])' = Fine(q, report'[q][ReviewWeek(day)])
  BY <1>0 DEF Fine, Included, Whole
<1>7. SundayDrafts'
  <2>1. ASSUME day % 7 = 6, "draft" \in fired, NEW q \in Reviewed
        PROVE  \/ Fine(q, report'[q][ReviewWeek(day)])
               \/ Ahead("draft", q, ReviewWeek(day))'
               \/ OwnerPublishes(q, ReviewWeek(day))'
    <3>1. \/ Fine(q, report[q][ReviewWeek(day)]) \/ Ahead("draft", q, ReviewWeek(day))
          \/ OwnerPublishes(q, ReviewWeek(day))
      BY <2>1 DEF Timely, SundayDrafts
    <3>2. CASE ~(q = p /\ ReviewWeek(day) = w)
      <4>1. report'[q][ReviewWeek(day)] = report[q][ReviewWeek(day)]
        BY <1>1, <1>w, <3>2
      <4> QED BY <1>3, <3>1, <3>2, <4>1
    <3>3. CASE q = p /\ ReviewWeek(day) = w /\ Fine(p, row)
      BY <1>1, <1>w, <3>3
    <3>4. CASE q = p /\ ReviewWeek(day) = w /\ ~Fine(p, row)
      <4>1. review'.doing = "send" /\ review'.p = p /\ review'.w = w
        BY <3>4, ReviewTyped DEF Review
      <4> QED BY <1>0, <3>4, <4>1 DEF OwnerPublishes
    <3> QED BY <3>2, <3>3, <3>4
  <2> QED BY <1>0, <1>6, <2>1 DEF SundayDrafts
<1>8. MondayReports'
  <2>1. ASSUME day % 7 = 0, NEW q \in Reviewed
        PROVE  Fine(q, report'[q][ReviewWeek(day)])
    BY <1>1, <1>w, <2>1 DEF Timely, MondayReports
  <2> QED BY <1>0, <1>6, <2>1 DEF MondayReports
<1> QED BY <1>2, <1>4, <1>5, <1>7, <1>8

LEMMA MarkTimely ==
  ASSUME Sensible, Timely, NEW r \in Runners, Mark(r)
  PROVE  Timely'
<1> DEFINE row == [job[r].row EXCEPT !.status = "published"]
<1>1. /\ job' = [job EXCEPT ![r].doing = "next"] /\ job[r].doing = "mark"
      /\ UNCHANGED <<day, fired, review, sent>> /\ Upsert(job[r].p, job[r].w, row)
  BY DEF Mark
<1>2. row \in Row /\ row.status = "published"
  BY JobTyped DEF Row
<1>3. job[r].p \in Reviewed /\ job[r].w \in Weeks
  BY <1>1, Subject
<1>4. /\ \A q \in Runners \ {r} : job'[q] = job[q]
      /\ job'[r].kind = job[r].kind /\ job'[r].todo = job[r].todo /\ job'[r].doing = "next"
  BY <1>1, GoesOn
<1> HIDE DEF row
<1>5. Fine(job[r].p, row)
  BY <1>2 DEF Fine, Settled
<1>6. \A q, w : OwnerPublishes(q, w) => OwnerPublishes(q, w)'
  BY <1>1 DEF OwnerPublishes
<1>7. /\ SaturdayReports' /\ SourcesReported' /\ DraftsInOrder' /\ FreshWrites'
      /\ SundayDrafts' /\ MondayReports'
  BY <1>1, <1>2, <1>3, <1>4, <1>5, <1>6, FineWritten
<1>8. MondayCopies'
  BY <1>1, <1>4 DEF Timely, MondayCopies, Included, Whole, Runners
<1>9. MondayReview' /\ CronIncludes'
  BY <1>1 DEF Timely, MondayReview, CronIncludes, Included, Whole
<1> QED BY <1>7, <1>8, <1>9 DEF Timely

LEMMA EndTimely ==
  ASSUME Sensible, Timely, NEW r \in Runners, End(r)
  PROVE  Timely'
<1>0. WeekOf(day)' = WeekOf(day) /\ ReviewWeek(day)' = ReviewWeek(day)
      /\ UNCHANGED <<day, fired, report, review, sent>>
      /\ job[r].doing = "next" /\ job[r].todo = {}
  BY DEF WeekOf, ReviewWeek, End
<1>1. job \in [Runners -> Job] /\ job'[r] = JobIdle /\ \A q \in Runners \ {r} : job'[q] = job[q]
  BY DEF End, Sensible, TypeOK
<1>2. \A k, q, v : Ahead(k, q, v) => Ahead(k, q, v)'
  BY <1>0, <1>1 DEF Ahead, Runners
<1>3. SaturdayReports'
  BY <1>0, <1>2 DEF Timely, SaturdayReports
<1>4. SundayDrafts'
  BY <1>0, <1>2 DEF Timely, SundayDrafts, OwnerPublishes
<1>5. FreshWrites' /\ MondayCopies' /\ DraftsInOrder'
  BY <1>0, <1>1, Rests, OrderKept
     DEF Timely, FreshWrites, MondayCopies, Included, Whole, Runners
<1>6. SourcesReported' /\ MondayReports' /\ MondayReview' /\ CronIncludes'
  BY <1>0 DEF Timely, SourcesReported, MondayReports, MondayReview, CronIncludes
<1> QED BY <1>3, <1>4, <1>5, <1>6 DEF Timely

-----------------------------------------------------------------------------
(* The owner's commands *)

\* A step of the review that touches neither rows nor jobs.
LEMMA ReviewOnly ==
  ASSUME Timely, UNCHANGED <<day, fired, report, job>>,
         \A q, w : OwnerPublishes(q, w) => OwnerPublishes(q, w)'
  PROVE  /\ SaturdayReports' /\ SourcesReported' /\ DraftsInOrder' /\ FreshWrites' /\ SundayDrafts'
         /\ MondayReports' /\ MondayCopies'
<1>0. WeekOf(day)' = WeekOf(day) /\ ReviewWeek(day)' = ReviewWeek(day)
  BY DEF WeekOf, ReviewWeek
<1>1. SourcesReported' /\ DraftsInOrder' /\ FreshWrites' /\ MondayReports' /\ MondayCopies'
  BY <1>0 DEF Timely, SourcesReported, DraftsInOrder, FreshWrites, MondayReports, MondayCopies
<1>2. SaturdayReports'
  BY <1>0 DEF Timely, SaturdayReports, Ahead
<1>3. SundayDrafts'
  <2>1. \A q \in Reviewed : /\ Fine(q, report[q][ReviewWeek(day)])' = Fine(q, report[q][ReviewWeek(day)])
                            /\ Ahead("draft", q, ReviewWeek(day))' = Ahead("draft", q, ReviewWeek(day))
                            /\ OwnerPublishes(q, ReviewWeek(day)) => OwnerPublishes(q, ReviewWeek(day))'
    BY <1>0 DEF Fine, Included, Whole, Due, Ahead
  <2> QED BY <1>0, <2>1 DEF Timely, SundayDrafts
<1> QED BY <1>1, <1>2, <1>3

LEMMA SayTimely ==
  ASSUME Sensible, Timely, NEW what \in Commands, NEW p \in Reviewed, Say(what, p)
  PROVE  Timely'
<1>1. /\ review.doing = "idle" /\ review'.doing = "look"
      /\ UNCHANGED <<day, fired, report, job, sent>>
  BY DEF Say, ReviewIdle
<1>2. /\ SaturdayReports' /\ SourcesReported' /\ DraftsInOrder' /\ FreshWrites' /\ SundayDrafts'
      /\ MondayReports' /\ MondayCopies'
  BY <1>1, ReviewOnly DEF OwnerPublishes
<1> QED BY <1>1, <1>2 DEF Timely, MondayReview, CronIncludes

LEMMA LookTimely ==
  ASSUME Sensible, Timely, Look
  PROVE  Timely'
<1> DEFINE w == ReviewWeek(day)
           row == report[review.p][w]
<1>1. review.doing = "look" /\ UNCHANGED <<day, fired, report, job, sent>>
  BY DEF Look
<1>2. /\ SaturdayReports' /\ SourcesReported' /\ DraftsInOrder' /\ FreshWrites' /\ SundayDrafts'
      /\ MondayReports' /\ MondayCopies'
  BY <1>1, ReviewOnly DEF OwnerPublishes
<1>3. CronIncludes'
  BY <1>1 DEF Timely, CronIncludes
<1> HIDE DEF row, w
<1>4. CASE row.status = "none" \/ Settled(row)
  <2>1. review'.doing = "idle"
    BY <1>4, Rests DEF Look, row, w
  <2> QED BY <1>2, <1>3, <2>1 DEF Timely, MondayReview
<1>5. CASE ~(row.status = "none" \/ Settled(row))
  <2>1. review' = [review EXCEPT !.doing = "save", !.w = w, !.row = row]
    BY <1>5 DEF Look, row, w
  <2>2. review'.p = review.p /\ review'.row = row /\ review.p \in Reviewed
    BY <1>1, <2>1, ReviewTyped DEF Review
  <2>3. day % 7 = 0 => Included(review.p, row)
    BY <1>5, <2>2 DEF Timely, MondayReports, Fine, row, w
  <2>4. MondayReview'
    BY <1>1, <2>2, <2>3 DEF MondayReview, Included, Whole
  <2> QED BY <1>2, <1>3, <2>4 DEF Timely
<1> QED BY <1>4, <1>5

LEMMA SaveTimely ==
  ASSUME Sensible, Timely, Save
  PROVE  Timely'
<1> DEFINE row == Decided(review.what, review.n, review.row)
<1>1. /\ review.doing = "save" /\ UNCHANGED <<day, fired, job, sent>>
      /\ Upsert(review.p, review.w, row)
      /\ review' = IF review.what = "approve" THEN [review EXCEPT !.doing = "send", !.row = row]
                   ELSE ReviewIdle
  BY DEF Save
<1>2. /\ row \in Row
      /\ row.status \in {"approved", "vetoed", "draft"} /\ row.from = review.row.from
      /\ review.what = "approve" => row.status = "approved" /\ row.edits = review.row.edits
      /\ review.what = "veto" => Settled(row)
      /\ review.what = "edit" => row.edits # {}
  BY <1>1, DecidedRow
<1> HIDE DEF row
<1>3. /\ review.p \in Reviewed /\ review.w \in Weeks /\ review.what \in {"approve", "veto", "edit"}
  BY <1>1, ReviewTyped DEF Commands
<1>4. day % 7 = 0 /\ review.what = "approve" => Included(review.p, row)
  BY <1>1, <1>2 DEF Timely, MondayReview, Included, Whole
<1>5. \/ Fine(review.p, row)
      \/ day % 7 # 0 /\ review' = [review EXCEPT !.doing = "send", !.row = row]
  BY <1>1, <1>2, <1>3, <1>4 DEF Fine, Included, Whole
<1>6. \A q, w : ~OwnerPublishes(q, w)
  BY <1>1 DEF OwnerPublishes
<1>7. /\ SaturdayReports' /\ SourcesReported' /\ DraftsInOrder' /\ FreshWrites'
      /\ SundayDrafts' /\ MondayReports'
  BY <1>1, <1>2, <1>3, <1>5, <1>6, FineWritten
<1>8. MondayReview'
  <2>1. CASE review.what = "approve"
    <3>1. review'.p = review.p /\ review'.row = row
      BY <1>1, <2>1, ReviewTyped DEF Review
    <3> QED BY <1>1, <1>4, <2>1, <3>1 DEF MondayReview, Included, Whole
  <2>2. CASE review.what # "approve"
    BY <1>1, <2>2, Rests DEF MondayReview
  <2> QED BY <2>1, <2>2
<1>9. MondayCopies' /\ CronIncludes'
  BY <1>1 DEF Timely, MondayCopies, CronIncludes, Included, Whole
<1> QED BY <1>7, <1>8, <1>9 DEF Timely

LEMMA SendApprovedTimely ==
  ASSUME Sensible, Timely, SendApproved
  PROVE  Timely'
<1>1. /\ review.doing = "send" /\ review' = [review EXCEPT !.doing = "mark"]
      /\ UNCHANGED <<day, fired, report, job>>
  BY DEF SendApproved
<1>2. review'.doing = "mark" /\ review'.p = review.p /\ review'.w = review.w /\ review'.row = review.row
  BY <1>1, ReviewTyped DEF Review
<1>3. /\ SaturdayReports' /\ SourcesReported' /\ DraftsInOrder' /\ FreshWrites' /\ SundayDrafts'
      /\ MondayReports' /\ MondayCopies'
  BY <1>1, <1>2, ReviewOnly DEF OwnerPublishes
<1>4. MondayReview'
  BY <1>1, <1>2 DEF Timely, MondayReview, Included, Whole
<1>5. CronIncludes'
  <2>1. /\ DOMAIN sent' = DOMAIN sent \union {Len(sent) + 1}
        /\ \A i \in DOMAIN sent : sent'[i] = sent[i]
        /\ sent'[Len(sent) + 1] = Publication("owner", review.p, review.w, review.row)
    BY ReviewTyped, Sends DEF SendApproved
  <2> QED BY <2>1 DEF Timely, CronIncludes, Publication
<1> QED BY <1>3, <1>4, <1>5 DEF Timely

LEMMA MarkApprovedTimely ==
  ASSUME Sensible, Timely, MarkApproved
  PROVE  Timely'
<1> DEFINE row == [review.row EXCEPT !.status = "published"]
<1>1. /\ review.doing = "mark" /\ review' = ReviewIdle /\ UNCHANGED <<day, fired, job, sent>>
      /\ Upsert(review.p, review.w, row)
  BY DEF MarkApproved
<1>2. row \in Row /\ row.status = "published"
  BY ReviewTyped DEF Row
<1> HIDE DEF row
<1>3. review.p \in Reviewed /\ review.w \in Weeks
  BY <1>1, ReviewTyped
<1>4. Fine(review.p, row)
  BY <1>2 DEF Fine, Settled
<1>5. \A q, w : OwnerPublishes(q, w) => q = review.p /\ w = review.w
  BY DEF OwnerPublishes
<1>6. /\ SaturdayReports' /\ SourcesReported' /\ DraftsInOrder' /\ FreshWrites'
      /\ SundayDrafts' /\ MondayReports'
  BY <1>1, <1>2, <1>3, <1>4, <1>5, FineWritten
<1>7. MondayReview' /\ MondayCopies' /\ CronIncludes'
  BY <1>1, Rests DEF Timely, MondayReview, MondayCopies, CronIncludes, Included, Whole
<1> QED BY <1>6, <1>7 DEF Timely

-----------------------------------------------------------------------------
(* Days *)

LEMMA TickTimely ==
  ASSUME Sensible, Timely, Tick
  PROVE  Timely'
<1>1. /\ day' = day + 1 /\ fired' = {} /\ Entries(day) \subseteq fired
      /\ \A r \in Runners : job[r] = JobIdle
      /\ review.doing = "idle" /\ UNCHANGED <<report, job, review, sent>>
  BY JobTyped DEF Tick, Orderly
<1>2. day \in FirstDay..MaxDay
  BY DEF Sensible, TypeOK
<1>3. \A k, q, v : ~Ahead(k, q, v)
  BY <1>1, Rests DEF Ahead, Runners
<1>4. SaturdayReports' /\ SundayDrafts'
  BY <1>1 DEF SaturdayReports, SundayDrafts
<1>5. ReviewWeek(day)' = ReviewWeek(day + 1) /\ (day % 7)' = (day + 1) % 7
  BY <1>1 DEF ReviewWeek
<1>6. SourcesReported'
  <2>1. ASSUME (day + 1) % 7 = 6, NEW s \in Singles
        PROVE  report[s][ReviewWeek(day + 1)].status # "none"
    <3>1. day % 7 = 5 /\ ReviewWeek(day + 1) = ReviewWeek(day) /\ WeekOf(day) = ReviewWeek(day)
      BY <1>2, <2>1, WeekEnds
    <3>2. "report" \in fired
      BY <1>1, <1>2, <3>1, DayEntries
    <3> QED BY <1>3, <3>1, <3>2 DEF Timely, SaturdayReports
  <2>2. ASSUME (day + 1) % 7 = 0, NEW s \in Singles
        PROVE  report[s][ReviewWeek(day + 1)].status # "none"
    <3>1. day % 7 = 6 /\ ReviewWeek(day + 1) = ReviewWeek(day)
      BY <1>2, <2>2, WeekEnds
    <3> QED BY <3>1 DEF Timely, SourcesReported
  <2> QED BY <1>1, <1>5, <2>1, <2>2 DEF SourcesReported
<1>7. MondayReports'
  <2>1. ASSUME (day + 1) % 7 = 0, NEW p \in Reviewed
        PROVE  Fine(p, report[p][ReviewWeek(day + 1)])
    <3>1. day % 7 = 6 /\ ReviewWeek(day + 1) = ReviewWeek(day)
      BY <1>2, <2>1, WeekEnds
    <3>2. "draft" \in fired
      BY <1>1, <1>2, <3>1, DayEntries
    <3>3. ~OwnerPublishes(p, ReviewWeek(day))
      BY <1>1 DEF OwnerPublishes
    <3> QED BY <1>3, <3>1, <3>2, <3>3 DEF Timely, SundayDrafts
  <2> QED BY <1>1, <1>5, <2>1 DEF MondayReports, Fine, Included, Whole
<1>8. DraftsInOrder' /\ FreshWrites' /\ MondayReview' /\ MondayCopies' /\ CronIncludes'
  BY <1>1, Rests DEF Timely, DraftsInOrder, FreshWrites, MondayReview, MondayCopies, CronIncludes,
     Included, Whole, Runners
<1> QED BY <1>4, <1>6, <1>7, <1>8 DEF Timely

LEMMA StepTimely ==
  ASSUME Sensible, faults = 0 => Timely, [Next]_vars
  PROVE  (faults = 0 => Timely)'
<1>1. SUFFICES ASSUME faults' = 0 PROVE Timely'
  OBVIOUS
<1>2. ~Fault
  BY <1>1, Numbers DEF Fault
<1>3. faults = 0 /\ Timely
  BY <1>1, <1>2 DEF Next, vars, Cron, AdminRun, JobStep, TakeNext, Write, Show, Send, Mark, End,
     Abort, Say, ReviewStep, Look, Save, SendApproved, MarkApproved, Repeat, Restart, Tick
<1>4. CASE UNCHANGED vars
  <2>1. /\ SaturdayReports' /\ SourcesReported' /\ DraftsInOrder' /\ FreshWrites' /\ SundayDrafts'
        /\ MondayReports' /\ MondayCopies'
    BY <1>3, <1>4, ReviewOnly DEF vars, OwnerPublishes
  <2> QED BY <1>3, <1>4, <2>1 DEF vars, Timely, MondayReview, CronIncludes
<1>5. ASSUME NEW r \in Runners, JobStep(r) PROVE Timely'
  BY <1>3, <1>5, TakeNextTimely, WriteTimely, ShowTimely, SendTimely, MarkTimely, EndTimely
     DEF JobStep
<1>6. CASE ReviewStep
  BY <1>3, <1>6, LookTimely, SaveTimely, SendApprovedTimely, MarkApprovedTimely DEF ReviewStep
<1>7. ~Repeat /\ ~Restart /\ \A r \in Runners : ~Abort(r)
  BY <1>2 DEF Repeat, Restart, Abort
<1> QED BY <1>3, <1>4, <1>5, <1>6, <1>7, StartTimely, SayTimely, TickTimely DEF Next

LEMMA InitTimely ==
  ASSUME Init, FirstDay % 7 \in 1..5
  PROVE  Timely
BY Rests DEF Init, Timely, SaturdayReports, SourcesReported, DraftsInOrder, FreshWrites, SundayDrafts,
  MondayReports, MondayReview, MondayCopies, CronIncludes, Runners

-----------------------------------------------------------------------------
(* Theorems *)

\* Every variable has its type, jobs are in order, and whoever is about to write a
\* report that exists holds a copy of one.
THEOREM SensibleAlways == Spec => []Sensible
<1> QED BY InitSensible, StepSensible, PTL DEF Spec

\* Every variable keeps its type, whatever fails or is started twice.
THEOREM TypesAlways == Spec => []TypeOK
<1>1. Sensible => TypeOK
  BY DEF Sensible
<1> QED BY <1>1, SensibleAlways, PTL

\* A vetoed or published report is neither written nor sent, unless somebody
\* holds a copy from before (publishAggregateWeeklyReport looks at the status).
THEOREM SettledStays == Spec => SettledUntilRedrafted
<1>1. Sensible /\ [Next]_vars =>
        [\A p \in Aggregates, w \in Weeks :
           Settled(report[p][w]) /\ ~Held(p, w) =>
             /\ report'[p][w] = report[p][w]
             /\ \A i \in DOMAIN sent' \ DOMAIN sent : sent'[i].p # p \/ sent'[i].w # w]_vars
  BY StepSettled
<1> QED BY <1>1, SensibleAlways, PTL DEF Spec, SettledUntilRedrafted

\* If nothing fails, what cron publishes on Monday includes all sources that are due,
\* whatever projects are sources of each other and whatever the owner and the
\* administrator do meanwhile; the first week has to be whole (schedulerCronPlan,
\* ListAggregateProjectIDs, aggregateWeeklyReportWindow).
THEOREM SourcesAlwaysIncluded ==
  ASSUME FirstDay % 7 \in 1..5
  PROVE  Spec => []SourcesIncluded
<1>1. Init => (faults = 0 => Timely)
  BY InitTimely
<1>2. Sensible /\ (faults = 0 => Timely) /\ [Next]_vars => (faults = 0 => Timely)'
  BY StepTimely
<1>3. (faults = 0 => Timely) => SourcesIncluded
  BY DEF Timely, CronIncludes, Included, Whole, SourcesIncluded
<1> QED BY <1>1, <1>2, <1>3, SensibleAlways, PTL DEF Spec
=============================================================================
