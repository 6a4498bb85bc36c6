---------------------- MODULE ScheduleEditing_proofs ----------------------
(***************************************************************************)
(* Proofs about the schedules: reminders are sent once, the versions of    *)
(* the team schedule keep their types and the page is fresh.               *)
(***************************************************************************)
EXTENDS ScheduleEditing, FiniteSetTheorems, SequenceTheorems, TLAPS

----------------------------------------------------------------------------
\* Reminders.

\* What is about to be enqueued is in the log and has not been enqueued: Record
\* takes up only what it has just put into the log, and nothing leaves the log.
HeldIsNew ==
  /\ scan.held \subseteq notified
  /\ BagToSet(told) \subseteq notified
  /\ scan.held \intersect BagToSet(told) = {}

ScanShape ==
  scan = [doing |-> scan.doing, left |-> scan.left, todo |-> scan.todo, held |-> scan.held]

Reminded == ScanShape /\ HeldIsNew /\ RemindedOnce

LEMMA InitReminded == Init => Reminded
<1> SUFFICES ASSUME Init PROVE Reminded
  OBVIOUS
<1>1. scan = ScanIdle /\ BagToSet(told) = {}
  BY DEF Init, EmptyBag, SetToBag, BagToSet
<1> QED BY <1>1 DEF ScanIdle, Reminded, ScanShape, HeldIsNew, RemindedOnce

\* Enqueueing adds one copy of what was not there.
LEMMA EnqueueOnce ==
  ASSUME NEW S, S \intersect BagToSet(told) = {}, RemindedOnce
  PROVE  /\ BagToSet(told (+) SetToBag(S)) = BagToSet(told) \union S
         /\ \A n \in BagToSet(told (+) SetToBag(S)) : (told (+) SetToBag(S))[n] = 1
<1> DEFINE new == told (+) SetToBag(S)
<1>1. DOMAIN SetToBag(S) = S /\ \A n \in S : SetToBag(S)[n] = 1
  BY DEF SetToBag
<1>2. DOMAIN new = DOMAIN told \union S
  BY <1>1 DEF (+)
<1>3. \A n \in DOMAIN told : n \notin S /\ told[n] = 1
  BY DEF BagToSet, RemindedOnce
<1>4. \A n \in DOMAIN new : new[n] = 1
  BY <1>1, <1>2, <1>3 DEF (+)
<1> QED BY <1>2, <1>4 DEF BagToSet

LEMMA StepReminded == Reminded /\ [Next]_vars => Reminded'
<1> SUFFICES ASSUME Reminded, [Next]_vars PROVE Reminded'
  OBVIOUS
<1> USE DEF Reminded, ScanShape, HeldIsNew, RemindedOnce
<1>1. CASE UNCHANGED <<scan, notified, told>>
  BY <1>1 DEF BagToSet
<1>2. CASE ScanStart
  BY <1>2 DEF ScanStart, ScanIdle, BagToSet
<1>3. ASSUME NEW o \in Owners, ScanMember(o) PROVE Reminded'
  BY <1>3 DEF ScanMember, BagToSet
<1>4. CASE ScanRisks
  BY <1>4 DEF ScanRisks, BagToSet
<1>5. ASSUME NEW n \in scan.todo, Record(n) PROVE Reminded'
  BY <1>5 DEF Record, BagToSet
<1>6. CASE Enqueue
  <2>1. /\ told' = told (+) SetToBag(scan.held)
        /\ scan' = [scan EXCEPT !.held = {}]
        /\ notified' = notified
    BY <1>6 DEF Enqueue
  <2>2. /\ BagToSet(told') = BagToSet(told) \union scan.held
        /\ \A n \in BagToSet(told') : told'[n] = 1
    BY <2>1, EnqueueOnce
  <2>3. ScanShape' /\ scan'.held = {}
    BY <2>1
  <2> QED BY <2>1, <2>2, <2>3 DEF BagToSet
<1>7. CASE EnqueueFailed
  BY <1>7 DEF EnqueueFailed, ScanIdle, BagToSet
<1>8. CASE ScanEnd
  BY <1>8 DEF ScanEnd, ScanIdle, BagToSet
<1>9. CASE Restart
  BY <1>9 DEF Restart, ScanIdle, BagToSet
<1>10. CASE ScanStep
  BY <1>10, <1>2, <1>3, <1>4, <1>5, <1>6, <1>7, <1>8 DEF ScanStep
<1>11. ASSUME NEW o \in Owners, Edit(o) \/ Confirm(o) \/ ConfirmExpired(o) \/ GiveUp(o)
       PROVE UNCHANGED <<scan, notified, told>>
  BY <1>11 DEF Edit, Instruct, Confirm, ConfirmExpired, GiveUp, remindVars
<1>12. CASE TimePasses \/ ApplyOne \/ MarkConfirmed \/ Document \/ Coordinate \/ Reply \/ Failed
  <2>1. UNCHANGED <<scan, notified, told>>
    BY <1>12 DEF TimePasses, ApplyOne, MarkConfirmed, Document, Coordinate, Reply, Failed,
                 remindVars
  <2> QED BY <2>1, <1>1
<1>13. ASSUME NEW o \in Owners, NEW t \in Tasks,
              Report(o, t, "note") \/ Report(o, t, "done") \/ \E open \in BOOLEAN : Risk(o, t, open)
       PROVE UNCHANGED <<scan, notified, told>>
  BY <1>13 DEF Report, Risk, remindVars
<1>14. CASE \E k \in Keys : Delegate(k)
  BY <1>1, <1>14 DEF Delegate, remindVars
<1>15. CASE TeamStep /\ UNCHANGED <<editVars, remindVars, says, faults>>
  BY <1>1, <1>15 DEF remindVars
<1>16. CASE Midnight
  BY <1>1, <1>16 DEF Midnight
<1>17. CASE UNCHANGED vars
  BY <1>1, <1>17 DEF vars, remindVars
<1> QED BY <1>1, <1>9, <1>10, <1>11, <1>12, <1>13, <1>14, <1>15, <1>16, <1>17 DEF Next

\* Nobody hears of the same item or risk twice on a day: the log is written before
\* the reminder (RecordNotification), whatever fails between the two.
THEOREM AlwaysRemindedOnce == Spec => []RemindedOnce
<1>1. Reminded => RemindedOnce
  BY DEF Reminded
<1> QED BY <1>1, InitReminded, StepReminded, PTL DEF Spec

----------------------------------------------------------------------------
\* The team schedule and its page.

\* A page is not older than the version its signature names: the signature was
\* read first, and versions are only added.
PagesRight ==
  /\ cache.sig <= cache.shows
  /\ \A v \in Viewers : view[v].doing \in {"store", "shown"} => view[v].sig <= view[v].shows

TeamRight == TeamTypeOK /\ PagesRight

LEMMA InitTeam == Init => TeamRight
<1> SUFFICES ASSUME Init PROVE TeamRight
  OBVIOUS
<1>1. /\ bound \in Bounds /\ team = <<>> /\ coord = CoordIdle /\ paste = PasteIdle
      /\ cache = NoPage /\ view = [v \in Viewers |-> ViewIdle] /\ views = 0
  BY DEF Init, TeamInit
<1>2. bound.versions \in Nat /\ bound.views \in Nat
  BY <1>1, TeamAssumption
<1> QED
  BY <1>1, <1>2 DEF TeamRight, TeamTypeOK, PagesRight, CoordIdle, PasteIdle, NoPage, ViewIdle

\* What is appended is a version, and the length grows by one.
LEMMA AppendTypes ==
  ASSUME TeamTypeOK, NEW blocks \in SUBSET Blocks, NEW by \in {"coordinate", "paste", "rollback"},
         Append1(blocks, by)
  PROVE  team' \in Seq(Version) /\ Len(team') = Len(team) + 1 /\ Len(team') <= bound.versions
<1>1. bound.versions \in Nat /\ team \in Seq(Version) /\ Len(team) \in Nat
  BY TeamAssumption DEF TeamTypeOK
<1>2. [blocks |-> blocks, by |-> by] \in Version
  BY DEF Version
<1> QED BY <1>1, <1>2 DEF Append1

LEMMA BlocksTyped ==
  ASSUME TeamTypeOK, NEW n \in 0..Len(team) PROVE BlocksOf(n) \subseteq Blocks
<1>1. CASE n = 0
  BY <1>1 DEF BlocksOf
<1>2. CASE n # 0
  <2>1. team[n] \in Version
    BY <1>2 DEF TeamTypeOK
  <2> QED BY <1>2, <2>1 DEF BlocksOf, Version
<1> QED BY <1>1, <1>2

\* A new version leaves everything about the page as it is.
LEMMA Grown ==
  ASSUME TeamRight, UNCHANGED <<bound, pageVars>>,
         team' \in Seq(Version), Len(team') \in {Len(team), Len(team) + 1},
         Len(team') <= bound.versions,
         coord' \in [doing : {"idle", "ask", "tell"}, read : 0..Len(team')],
         paste' \in [doing : {"idle", "write"}, blocks : SUBSET Blocks]
  PROVE  TeamRight'
<1>1. bound' = bound /\ cache' = cache /\ view' = view /\ views' = views
  BY DEF pageVars
<1>2. Len(team) \in Nat /\ Len(team') \in Nat /\ Len(team) <= Len(team')
  BY DEF TeamRight, TeamTypeOK
<1>3. cache' \in [sig : 0..Len(team'), shows : 0..Len(team')]
  BY <1>1, <1>2 DEF TeamRight, TeamTypeOK
<1>4. view' \in [Viewers -> [doing : {"idle", "look", "store", "shown"}, sig : 0..Len(team'),
                             shows : 0..Len(team')]]
  BY <1>1, <1>2 DEF TeamRight, TeamTypeOK
<1>5. PagesRight'
  BY <1>1 DEF TeamRight, PagesRight
<1> QED BY <1>1, <1>3, <1>4, <1>5 DEF TeamRight, TeamTypeOK

LEMMA CoordTeam ==
  ASSUME TeamRight, Ask \/ Answered \/ AskFailed \/ TeamTold PROVE TeamRight'
<1> USE DEF TeamRight, TeamTypeOK
<1>1. CASE Ask
  <2>1. coord' = [doing |-> "ask", read |-> Len(team)] /\ UNCHANGED <<bound, pageVars, team, paste>>
    BY <1>1 DEF Ask
  <2> QED BY <2>1, Grown
<1>2. CASE Answered
  <2>1. PICK kept \in SUBSET BlocksOf(coord.read), own \in SUBSET Blocks :
          Append1(kept \union own, "coordinate")
    BY <1>2 DEF Answered
  <2>2. coord.read \in 0..Len(team) /\ BlocksOf(coord.read) \subseteq Blocks
    BY BlocksTyped
  <2>3. team' \in Seq(Version) /\ Len(team') = Len(team) + 1 /\ Len(team') <= bound.versions
    BY <2>1, <2>2, AppendTypes
  <2>4. coord' = [coord EXCEPT !.doing = "tell"] /\ UNCHANGED <<bound, pageVars, paste>>
    BY <1>2 DEF Answered
  <2>5. Len(team) \in Nat /\ coord.read \in 0..Len(team')
    BY <2>2, <2>3
  <2>6. coord' = [doing |-> "tell", read |-> coord.read]
    BY <2>4
  <2> QED BY <2>3, <2>4, <2>5, <2>6, Grown
<1>3. CASE AskFailed \/ TeamTold
  <2>1. coord' = CoordIdle /\ UNCHANGED <<bound, pageVars, team, paste>>
    BY <1>3 DEF AskFailed, TeamTold
  <2> QED BY <2>1, Grown DEF CoordIdle
<1> QED BY <1>1, <1>2, <1>3

LEMMA PasteTeam ==
  ASSUME TeamRight,
         \/ \E blocks \in SUBSET Blocks : PasteChecked(blocks)
         \/ Pasted \/ PasteFailed \/ RolledBack
  PROVE  TeamRight'
<1> USE DEF TeamRight, TeamTypeOK
<1>1. ASSUME NEW blocks \in SUBSET Blocks, PasteChecked(blocks) PROVE TeamRight'
  <2>1. /\ paste' = [doing |-> "write", blocks |-> blocks]
        /\ UNCHANGED <<bound, pageVars, team, coord>>
    BY <1>1 DEF PasteChecked
  <2> QED BY <2>1, Grown
<1>2. CASE Pasted
  <2>1. /\ Append1(paste.blocks, "paste") /\ paste' = PasteIdle
        /\ UNCHANGED <<bound, pageVars, coord>>
    BY <1>2 DEF Pasted
  <2>2. team' \in Seq(Version) /\ Len(team') = Len(team) + 1 /\ Len(team') <= bound.versions
    BY <2>1, AppendTypes
  <2>3. coord' \in [doing : {"idle", "ask", "tell"}, read : 0..Len(team')]
    BY <2>1, <2>2
  <2> QED BY <2>1, <2>2, <2>3, Grown DEF PasteIdle
<1>3. CASE PasteFailed
  <2>1. paste' = PasteIdle /\ UNCHANGED <<bound, pageVars, team, coord>>
    BY <1>3 DEF PasteFailed
  <2> QED BY <2>1, Grown DEF PasteIdle
<1>4. CASE RolledBack
  <2>1. PICK n \in DOMAIN team : Append1(team[n].blocks, "rollback")
    BY <1>4 DEF RolledBack
  <2>2. team[n] \in Version
    OBVIOUS
  <2>6. team[n].blocks \in SUBSET Blocks
    BY <2>2 DEF Version
  <2>3. team' \in Seq(Version) /\ Len(team') = Len(team) + 1 /\ Len(team') <= bound.versions
    BY <2>1, <2>6, AppendTypes
  <2>4. UNCHANGED <<bound, pageVars, coord, paste>>
    BY <1>4 DEF RolledBack
  <2>5. coord' \in [doing : {"idle", "ask", "tell"}, read : 0..Len(team')]
    BY <2>3, <2>4
  <2> QED BY <2>3, <2>4, <2>5, Grown
<1> QED BY <1>1, <1>2, <1>3, <1>4

LEMMA PageTeam ==
  ASSUME TeamRight, NEW v \in Viewers, PageStep(v) PROVE TeamRight'
<1> USE DEF TeamRight, TeamTypeOK, PagesRight
<1>1. Len(team) \in Nat /\ bound.views \in Nat
  BY TeamAssumption
<1>2. CASE Signed(v)
  <2>1. /\ view' = [view EXCEPT ![v] = [doing |-> "look", sig |-> Len(team), shows |-> 0]]
        /\ views < bound.views /\ views' = views + 1
        /\ UNCHANGED <<bound, team, coord, paste, cache>>
    BY <1>2 DEF Signed, docVars, ViewIdle
  <2>2. [doing |-> "look", sig |-> Len(team), shows |-> 0]
          \in [doing : {"idle", "look", "store", "shown"}, sig : 0..Len(team), shows : 0..Len(team)]
    BY <1>1
  <2>3. views' \in 0..bound.views
    BY <1>1, <2>1
  <2>4. TeamTypeOK'
    BY <2>1, <2>2, <2>3
  <2>5. \A u \in Viewers : view'[u].doing \in {"store", "shown"} => view'[u] = view[u]
    BY <2>1
  <2>6. PagesRight'
    BY <2>1, <2>5
  <2> QED BY <2>4, <2>6
<1>3. CASE FromCache(v)
  BY <1>1, <1>3 DEF FromCache, docVars
<1>4. CASE Rendered(v)
  <2> DEFINE new == [doing |-> "store", sig |-> view[v].sig, shows |-> Len(team)]
  <2>1. view' = [view EXCEPT ![v] = new] /\ UNCHANGED <<bound, team, coord, paste, cache, views>>
    BY <1>4 DEF Rendered, docVars
  <2>2. /\ view[v].sig \in 0..Len(team)
        /\ new \in [doing : {"idle", "look", "store", "shown"}, sig : 0..Len(team),
                    shows : 0..Len(team)]
    BY <1>1
  <2>3. new.sig <= new.shows
    BY <1>1, <2>2
  <2>4. TeamTypeOK'
    BY <2>1, <2>2
  <2>5. \A u \in Viewers : view'[u] = view[u] \/ view'[u] = new
    BY <2>1
  <2>6. PagesRight'
    BY <2>1, <2>3, <2>5
  <2> QED BY <2>4, <2>6
<1>5. CASE Stored(v)
  BY <1>1, <1>5 DEF Stored, docVars
<1>6. CASE Seen(v)
  BY <1>1, <1>6 DEF Seen, docVars, ViewIdle
<1> QED BY <1>2, <1>3, <1>4, <1>5, <1>6 DEF PageStep

LEMMA RestartTeam ==
  ASSUME TeamRight, TeamRestart PROVE TeamRight'
BY DEF TeamRight, TeamTypeOK, PagesRight, TeamRestart, CoordIdle, PasteIdle, NoPage, ViewIdle

LEMMA StepTeam == TeamRight /\ [Next]_vars => TeamRight'
<1> SUFFICES ASSUME TeamRight, [Next]_vars PROVE TeamRight'
  OBVIOUS
<1>1. CASE UNCHANGED teamVars
  BY <1>1 DEF TeamRight, TeamTypeOK, PagesRight, teamVars, docVars, pageVars
<1>2. ASSUME NEW o \in Owners, Edit(o) \/ Confirm(o) \/ ConfirmExpired(o) \/ GiveUp(o)
      PROVE UNCHANGED teamVars
  BY <1>2 DEF Edit, Instruct, Confirm, ConfirmExpired, GiveUp
<1>3. CASE TimePasses \/ ApplyOne \/ MarkConfirmed \/ Document \/ Reply \/ Failed
  <2>1. UNCHANGED teamVars
    BY <1>3 DEF TimePasses, ApplyOne, MarkConfirmed, Document, Reply, Failed
  <2> QED BY <2>1, <1>1
<1>4. CASE Coordinate
  BY <1>4, CoordTeam DEF Coordinate
<1>5. ASSUME NEW o \in Owners, NEW t \in Tasks,
             Report(o, t, "note") \/ Report(o, t, "done") \/ \E open \in BOOLEAN : Risk(o, t, open)
      PROVE UNCHANGED teamVars
  BY <1>5 DEF Report, Risk
<1>6. CASE \E k \in Keys : Delegate(k)
  BY <1>1, <1>6 DEF Delegate
<1>7. CASE ScanStep
  BY <1>1, <1>7 DEF ScanStep, ScanStart, ScanMember, ScanRisks, Record, Enqueue, EnqueueFailed,
                    ScanEnd
<1>8. CASE TeamStep
  BY <1>8, CoordTeam, PasteTeam, PageTeam DEF TeamStep
<1>9. CASE Midnight
  BY <1>1, <1>9 DEF Midnight
<1>10. CASE Restart
  BY <1>10, RestartTeam DEF Restart
<1>11. CASE UNCHANGED vars
  BY <1>1, <1>11 DEF vars
<1> QED BY <1>1, <1>2, <1>3, <1>4, <1>5, <1>6, <1>7, <1>8, <1>9, <1>10, <1>11 DEF Next

\* The versions of the team schedule, who writes them and the cached page keep
\* their types; whoever has read a version finds it again.
THEOREM TeamAlwaysTyped == Spec => []TeamTypeOK
<1>1. TeamRight => TeamTypeOK
  BY DEF TeamRight
<1> QED BY <1>1, InitTeam, StepTeam, PTL DEF Spec

\* No page is older than the version that was the latest when it was asked for,
\* whoever renders, stores and edits meanwhile.
THEOREM PageAlwaysFresh == Spec => []PageFresh
<1>1. TeamRight => PageFresh
  <2> SUFFICES ASSUME TeamRight, NEW v \in Viewers, view[v].doing = "shown"
               PROVE  view[v].shows >= view[v].sig
    BY DEF PageFresh
  <2>1. view[v].sig <= view[v].shows /\ view[v].sig \in Nat /\ view[v].shows \in Nat
    BY DEF TeamRight, TeamTypeOK, PagesRight
  <2> QED BY <2>1
<1> QED BY <1>1, InitTeam, StepTeam, PTL DEF Spec

----------------------------------------------------------------------------
\* Schedules, pending updates and the confirmation in progress.

AnyStatement == [op : {"delete"}, id : Nat] \union [op : {"insert"}, key : Keys]
RowStatus    == {"planned", "done"}
Update       == [owner : Owners, kind : {"add", "remove", "move", "postpone", "replace"},
                 todo : Seq(AnyStatement), due : BOOLEAN,
                 status : {"pending", "cancelled", "expired", "confirmed"}]

EditTypes ==
  /\ ids \in Nat /\ IsFiniteSet(rows)
  /\ rows \subseteq [id : 1..ids, key : Keys, status : RowStatus]
  /\ pending \in Seq(Update)
  /\ worker = [doing |-> worker.doing, owner |-> worker.owner, p |-> worker.p,
               todo |-> worker.todo]
  /\ worker.doing \in {"idle", "apply", "document", "coordinate", "answer"}
  /\ worker.doing # "idle" => worker.owner \in Owners /\ worker.p \in DOMAIN pending
  /\ worker.todo \in Seq(AnyStatement)

Ops(s, op)      == {x \in Range(s) : x.op = op}
DeletesFirst(s) == \A i, j \in DOMAIN s : i < j /\ s[j].op = "delete" => s[i].op = "delete"
\* Of every row the statements s still delete it, or todo puts it back.
Covers(R, o, s, todo) ==
  \A r \in R : r.key.owner = o => Delete(r) \in Range(s) \/ Insert(r.key) \in Range(todo)

\* The statements of an update for o are well formed.
Proper(o, todo) ==
  /\ todo \in Seq(AnyStatement)
  /\ \A s \in Ops(todo, "insert") : s.key.owner = o

\* An owner has one update that can be confirmed; a replacement still deletes what
\* it does not put back, since nothing else changes the rows of its owner.
Live1(u)       == u.status = "pending"
Replacing(u)   == u.kind = "replace"
PendingRight(P, R) ==
  /\ \A p \in DOMAIN P : Proper(P[p].owner, P[p].todo)
  /\ \A p, q \in DOMAIN P : Live1(P[p]) /\ Live1(P[q]) /\ P[p].owner = P[q].owner => p = q
  /\ \A p \in DOMAIN P : Live1(P[p]) /\ Replacing(P[p]) =>
       DeletesFirst(P[p].todo) /\ Covers(R, P[p].owner, P[p].todo, P[p].todo)

\* So does the rest of a replacement that is being carried out: what it has put
\* back is there, and it deletes nothing any more once it puts back.
RestRight(u, R, s) ==
  /\ DeletesFirst(s)
  /\ Covers(R, u.owner, s, u.todo)
  /\ Ops(s, "delete") # {} => Ops(u.todo, "insert") \subseteq Range(s)
  /\ \A x \in Ops(u.todo, "insert") :
       x \in Range(s) \/ \E r \in R : r.key = x.key

WorkerRight(P, R, w) ==
  w.doing = "apply" =>
    /\ \A q \in DOMAIN P : q # w.p /\ Live1(P[q]) /\ P[q].owner = P[w.p].owner => ~Replacing(P[q])
    /\ Range(w.todo) \subseteq Range(P[w.p].todo)
    /\ Replacing(P[w.p]) => RestRight(P[w.p], R, w.todo)

EditRight == EditTypes /\ PendingRight(pending, rows) /\ WorkerRight(pending, rows, worker)

LEMMA InitEdit == Init => EditRight
<1> SUFFICES ASSUME Init PROVE EditRight
  OBVIOUS
<1>1. rows = {} /\ ids = 0 /\ pending = <<>> /\ worker = WorkerIdle
  BY DEF Init
<1>2. EditTypes
  BY <1>1, FS_EmptySet DEF EditTypes, WorkerIdle
<1>3. PendingRight(pending, rows)
  BY <1>1 DEF PendingRight
<1>4. WorkerRight(pending, rows, worker)
  BY <1>1 DEF WorkerRight, WorkerIdle
<1> QED BY <1>2, <1>3, <1>4 DEF EditRight

\* Sequences, by their elements.
LEMMA SeqRange ==
  ASSUME NEW T, NEW s \in Seq(T)
  PROVE  /\ Range(s) \subseteq T /\ Len(s) \in Nat /\ DOMAIN s = 1..Len(s)
         /\ \A x \in Range(s) : \E i \in 1..Len(s) : s[i] = x
         /\ \A i \in 1..Len(s) : s[i] \in Range(s)
BY LenProperties DEF Range

LEMMA FunctionSeq ==
  ASSUME NEW T, NEW n \in Nat, NEW f, DOMAIN f = 1..n, f = [i \in DOMAIN f |-> f[i]],
         \A i \in 1..n : f[i] \in T
  PROVE  f \in Seq(T) /\ Len(f) = n
OBVIOUS

LEMMA TailRange ==
  ASSUME NEW T, NEW s \in Seq(T), s # <<>>
  PROVE  /\ Tail(s) \in Seq(T) /\ Head(s) \in Range(s)
         /\ Range(s) = {Head(s)} \union Range(Tail(s))
         /\ DeletesFirst(s) => DeletesFirst(Tail(s))
         /\ DeletesFirst(s) /\ Head(s).op # "delete" => Ops(Tail(s), "delete") = {}
<1> DEFINE h == Head(s)
           r == Tail(s)
<1>1. /\ Len(s) \in Nat /\ Len(s) # 0 /\ Len(r) = Len(s) - 1 /\ h = s[1] /\ r \in Seq(T)
      /\ \A i \in 1..Len(r) : r[i] = s[i + 1]
  OBVIOUS
<1>2. DOMAIN s = 1..Len(s) /\ DOMAIN r = 1..(Len(s) - 1) /\ 1 \in DOMAIN s
  BY <1>1, LenProperties
<1> HIDE DEF h, r
<1>3. \A N \in Nat : \A i \in 1..(N - 1) : i + 1 \in 1..N /\ 1 < i + 1
  BY SMTT(30)
<1>4. \A i \in DOMAIN r : i + 1 \in DOMAIN s /\ r[i] = s[i + 1] /\ 1 < i + 1
  BY <1>1, <1>2, <1>3
<1>5. \A i \in DOMAIN s : i # 1 => i - 1 \in DOMAIN r /\ r[i - 1] = s[i]
  <2> SUFFICES ASSUME NEW i \in DOMAIN s, i # 1 PROVE i - 1 \in DOMAIN r /\ r[i - 1] = s[i]
    OBVIOUS
  <2>1. i - 1 \in 1..(Len(s) - 1) /\ (i - 1) + 1 = i
    BY <1>1, <1>2
  <2> QED BY <1>2, <1>4, <2>1
<1>6. h \in Range(s) /\ Range(s) = {h} \union Range(r)
  <2>1. \A i \in DOMAIN s : s[i] \in {h} \union Range(r)
    BY <1>1, <1>5 DEF Range
  <2>2. \A i \in DOMAIN r : r[i] \in Range(s)
    BY <1>4 DEF Range
  <2>3. h \in Range(s)
    BY <1>1, <1>2 DEF Range
  <2> QED BY <2>1, <2>2, <2>3 DEF Range
<1>7. ASSUME DeletesFirst(s) PROVE DeletesFirst(r)
  <2> SUFFICES ASSUME NEW i \in DOMAIN r, NEW j \in DOMAIN r, i < j, r[j].op = "delete"
               PROVE  r[i].op = "delete"
    BY DEF DeletesFirst
  <2>1. i + 1 \in DOMAIN s /\ j + 1 \in DOMAIN s /\ i + 1 < j + 1
    BY <1>1, <1>2, <1>4
  <2> QED BY <1>4, <1>7, <2>1 DEF DeletesFirst
<1>8. ASSUME DeletesFirst(s), h.op # "delete" PROVE Ops(r, "delete") = {}
  <2> SUFFICES ASSUME NEW i \in DOMAIN r, r[i].op = "delete" PROVE FALSE
    BY DEF Ops, Range
  <2> QED BY <1>1, <1>2, <1>4, <1>8 DEF DeletesFirst
<1> QED BY <1>1, <1>6, <1>7, <1>8 DEF h, r

\* A list holds the rows it is made of.
LEMMA ListRows ==
  ASSUME NEW R, IsFiniteSet(R), NEW list \in List(R)
  PROVE  list \in Seq(R) /\ Range(list) = R
<1>1. Cardinality(R) \in Nat
  BY FS_CardinalityType
<1> QED BY <1>1 DEF List

\* What ComputeDiff makes of the rows of an owner.
LEMMA AddedProper ==
  ASSUME NEW o, NEW keys \in Seq(Keys), \A k \in Range(keys) : k.owner = o
  PROVE  /\ Proper(o, Added(keys)) /\ Len(Added(keys)) = Len(keys)
         /\ \A i \in DOMAIN Added(keys) : Added(keys)[i].op = "insert"
<1> DEFINE s == Added(keys)
<1>1. Len(keys) \in Nat /\ DOMAIN keys = 1..Len(keys) /\ \A i \in DOMAIN keys : keys[i] \in Keys
  BY LenProperties
<1>2. DOMAIN s = 1..Len(keys) /\ s = [i \in DOMAIN s |-> s[i]]
  BY <1>1 DEF Added
<1>3. \A i \in DOMAIN s : s[i] = Insert(keys[i]) /\ s[i] \in AnyStatement /\ s[i].op = "insert"
  BY <1>1 DEF Added, Insert, AnyStatement
<1>4. \A i \in DOMAIN s : s[i].key.owner = o
  BY <1>1, <1>3 DEF Added, Insert, Range
<1> HIDE DEF s
<1>5. s \in Seq(AnyStatement) /\ Len(s) = Len(keys)
  BY <1>1, <1>2, <1>3, FunctionSeq
<1>6. Proper(o, s)
  BY <1>4, <1>5 DEF Proper, Ops, Range
<1> QED BY <1>3, <1>5, <1>6 DEF s

LEMMA RemovedProper ==
  ASSUME EditTypes, NEW o, NEW list \in Seq(rows)
  PROVE  /\ Proper(o, Removed(list)) /\ Len(Removed(list)) = Len(list)
         /\ \A i \in DOMAIN Removed(list) : Removed(list)[i].op = "delete"
         /\ \A r \in Range(list) : Delete(r) \in Range(Removed(list))
<1> DEFINE s == Removed(list)
<1>1. Len(list) \in Nat /\ DOMAIN list = 1..Len(list) /\ \A i \in DOMAIN list : list[i] \in rows
  BY LenProperties
<1>2. DOMAIN s = 1..Len(list) /\ s = [i \in DOMAIN s |-> s[i]]
  BY <1>1 DEF Removed
<1>3. \A r \in rows : r.id \in Nat
  BY DEF EditTypes
<1>4. \A i \in DOMAIN s : s[i] = Delete(list[i]) /\ s[i] \in AnyStatement /\ s[i].op = "delete"
  BY <1>1, <1>3 DEF Removed, Delete, AnyStatement
<1>5. \A r \in Range(list) : Delete(r) \in Range(s)
  BY <1>1, <1>2, <1>4 DEF Range
<1> HIDE DEF s
<1>6. s \in Seq(AnyStatement) /\ Len(s) = Len(list)
  BY <1>1, <1>2, <1>4, FunctionSeq
<1>7. Proper(o, s)
  BY <1>4, <1>6 DEF Proper, Ops, Range
<1> QED BY <1>4, <1>5, <1>6, <1>7 DEF s

\* An update deletes a row and puts a new one of the same owner in its place.
LEMMA PairsProper ==
  ASSUME EditTypes, NEW o, NEW list \in Seq(Owned(o)), NEW n, n = 2 * Len(list),
         NEW s, DOMAIN s = 1..n, s = [i \in DOMAIN s |-> s[i]],
         \A i \in 1..n : \E r \in Range(list) : \E day :
           s[i] = IF i % 2 = 1 THEN Delete(r) ELSE Insert(At(r.key, day)),
         \A i \in 1..n : s[i].op = "insert" => s[i].key.start \in Days
  PROVE  Proper(o, s)
<1>1. Len(list) \in Nat /\ DOMAIN list = 1..Len(list) /\ \A i \in DOMAIN list : list[i] \in Owned(o)
  BY LenProperties
<1>2. n \in Nat
  BY <1>1
<1>3. \A r \in Owned(o) : r.id \in Nat /\ r.key \in Keys /\ r.key.owner = o
  BY DEF EditTypes, Owned
<1>4. \A r \in Range(list) : r \in Owned(o)
  BY <1>1 DEF Range
<1>5. ASSUME NEW i \in 1..n
      PROVE  s[i] \in AnyStatement /\ (s[i].op = "insert" => s[i].key.owner = o)
  <2>0. PICK r \in Range(list) : \E day :
          s[i] = IF i % 2 = 1 THEN Delete(r) ELSE Insert(At(r.key, day))
    OBVIOUS
  <2>1. PICK day : s[i] = IF i % 2 = 1 THEN Delete(r) ELSE Insert(At(r.key, day))
    BY <2>0
  <2>2. r.id \in Nat /\ r.key \in Keys /\ r.key.owner = o
    BY <1>3, <1>4
  <2>3. CASE i % 2 = 1
    BY <2>1, <2>2, <2>3 DEF Delete, AnyStatement
  <2>4. CASE ~(i % 2 = 1)
    <3> DEFINE k == At(r.key, day)
    <3>2. r.key \in [owner : Owners, start : Days, task : Tasks]
      BY <2>2 DEF Keys
    <3>3. /\ k.start = day /\ k.owner = o
          /\ day \in Days => k \in [owner : Owners, start : Days, task : Tasks]
      BY <2>2, <3>2 DEF At
    <3> HIDE DEF k
    <3>4. s[i] = [op |-> "insert", key |-> k]
      BY <2>1, <2>4 DEF Insert, k
    <3>5. s[i].op = "insert" /\ s[i].key = k
      BY <3>4
    <3>6. day \in Days
      BY <3>3, <3>5
    <3>7. k \in Keys
      BY <3>3, <3>6 DEF Keys
    <3> QED BY <3>3, <3>4, <3>5, <3>7 DEF AnyStatement
  <2> QED BY <2>3, <2>4
<1>6. s \in Seq(AnyStatement)
  BY <1>2, <1>5, FunctionSeq
<1> QED BY <1>5, <1>6 DEF Proper, Ops, Range

LEMMA Halves == \A n \in Nat : \A i \in 1..(2 * n) : (i + 1) \div 2 \in 1..n
BY SMTT(30)

LEMMA UpdatesProper ==
  ASSUME EditTypes, NEW o, NEW list \in Seq(Owned(o)), NEW day, NEW n,
         NEW s \in {Moved(list, day), Postponed(list, n)},
         \A i \in DOMAIN s : s[i].op = "insert" => s[i].key.start \in Days
  PROVE  Proper(o, s)
<1> DEFINE N == 2 * Len(list)
<1>1. Len(list) \in Nat /\ DOMAIN list = 1..Len(list)
  BY LenProperties
<1>2. \A i \in 1..N : list[(i + 1) \div 2] \in Range(list)
  BY <1>1, Halves DEF Range
<1>3. CASE s = Moved(list, day)
  <2>1. DOMAIN s = 1..N /\ s = [i \in DOMAIN s |-> s[i]]
    BY <1>3 DEF Moved, Updates
  <2>2. \A i \in 1..N : s[i] = IF i % 2 = 1 THEN Delete(list[(i + 1) \div 2])
                               ELSE Insert(At(list[(i + 1) \div 2].key, day))
    BY <1>3 DEF Moved, Updates
  <2> HIDE DEF N
  <2>3. \A i \in 1..N : \E r \in Range(list) : \E d :
           s[i] = IF i % 2 = 1 THEN Delete(r) ELSE Insert(At(r.key, d))
    BY <1>2, <2>2
  <2> QED BY <2>1, <2>3, PairsProper DEF N
<1>4. CASE s = Postponed(list, n)
  <2>1. DOMAIN s = 1..N /\ s = [i \in DOMAIN s |-> s[i]]
    BY <1>4 DEF Postponed, Updates
  <2>2. \A i \in 1..N : s[i] = IF i % 2 = 1 THEN Delete(list[(i + 1) \div 2])
                               ELSE Insert(At(list[(i + 1) \div 2].key,
                                              list[(i + 1) \div 2].key.start + n))
    BY <1>4 DEF Postponed, Updates
  <2> HIDE DEF N
  <2>3. \A i \in 1..N : \E r \in Range(list) : \E d :
           s[i] = IF i % 2 = 1 THEN Delete(r) ELSE Insert(At(r.key, d))
    BY <1>2, <2>2
  <2> QED BY <2>1, <2>3, PairsProper DEF N
<1> QED BY <1>3, <1>4

\* A replacement deletes every row of its owner before it puts anything back.
LEMMA ReplacedProper ==
  ASSUME EditTypes, NEW o, NEW list \in List(Owned(o)),
         NEW items \in SUBSET {k \in Keys : k.owner = o}, IsFiniteSet(items)
  PROVE  LET s == Replaced(list, SetToSeq(items)) IN
         Proper(o, s) /\ DeletesFirst(s) /\ Covers(rows, o, s, s)
<1> DEFINE keys == SetToSeq(items)
           d == Removed(list)
           a == Added(keys)
           s == Replaced(list, keys)
<1>1. Owned(o) \subseteq rows /\ IsFiniteSet(Owned(o))
  BY FS_Subset DEF EditTypes, Owned
<1>2. list \in Seq(rows) /\ Range(list) = Owned(o)
  BY <1>1, ListRows, SeqMonotonic
<1>3. keys \in Seq(Keys) /\ \A k \in Range(keys) : k.owner = o
  <2>1. Cardinality(items) \in Nat /\ \E f \in [1..Cardinality(items) -> items] : IsInjective(f)
    <3>1. Cardinality(items) \in Nat /\ ExistsBijection(1..Cardinality(items), items)
      BY FS_CardinalityType
    <3> QED BY <3>1 DEF ExistsBijection, Bijection, Injection, IsInjective
  <2>2. keys \in [1..Cardinality(items) -> items]
    BY <2>1 DEF SetToSeq
  <2>3. keys \in Seq(items) /\ Range(keys) \subseteq items
    BY <2>1, <2>2 DEF Range
  <2> QED BY <2>3, SeqMonotonic
<1> HIDE DEF keys
<1>4. /\ Proper(o, d) /\ d \in Seq(AnyStatement) /\ Len(d) \in Nat /\ DOMAIN d = 1..Len(d)
      /\ \A i \in DOMAIN d : d[i].op = "delete"
      /\ \A r \in Owned(o) : Delete(r) \in Range(d)
  BY <1>2, RemovedProper, LenProperties DEF Proper
<1>5. /\ Proper(o, a) /\ a \in Seq(AnyStatement) /\ Len(a) \in Nat /\ DOMAIN a = 1..Len(a)
      /\ \A i \in DOMAIN a : a[i].op = "insert"
  BY <1>3, AddedProper, LenProperties DEF Proper
<1>6. s = d \o a
  BY DEF Replaced
<1> HIDE DEF d, a, s
<1>7. /\ s \in Seq(AnyStatement) /\ Len(s) = Len(d) + Len(a) /\ DOMAIN s = 1..(Len(d) + Len(a))
      /\ \A i \in 1..(Len(d) + Len(a)) : s[i] = IF i <= Len(d) THEN d[i] ELSE a[i - Len(d)]
  BY <1>4, <1>5, <1>6, ConcatProperties, LenProperties
<1>8. Range(s) = Range(d) \union Range(a)
  BY <1>4, <1>5, <1>6, RangeConcatenation
<1>9. Proper(o, s)
  BY <1>4, <1>5, <1>7, <1>8 DEF Proper, Ops
<1>10. \A i \in DOMAIN s : s[i].op = "delete" <=> i <= Len(d)
  <2> SUFFICES ASSUME NEW i \in DOMAIN s PROVE s[i].op = "delete" <=> i <= Len(d)
    OBVIOUS
  <2>1. CASE i <= Len(d)
    BY <1>4, <1>7, <2>1
  <2>2. CASE ~(i <= Len(d))
    <3>1. i - Len(d) \in 1..Len(a)
      BY <1>4, <1>5, <1>7, <2>2
    <3> QED BY <1>5, <1>7, <2>2, <3>1
  <2> QED BY <2>1, <2>2
<1>11. DeletesFirst(s)
  <2> SUFFICES ASSUME NEW i \in DOMAIN s, NEW j \in DOMAIN s, i < j, s[j].op = "delete"
               PROVE  s[i].op = "delete"
    BY DEF DeletesFirst
  <2>1. i <= Len(d)
    BY <1>4, <1>5, <1>7, <1>10
  <2> QED BY <1>10, <2>1
<1>12. Covers(rows, o, s, s)
  BY <1>4, <1>8 DEF Covers, Owned
<1> QED BY <1>9, <1>11, <1>12 DEF s, keys

\* Every instruction leaves statements for its owner.
LEMMA EditProper ==
  ASSUME EditTypes, NEW o \in Owners, Edit(o)
  PROVE  \E kind \in {"add", "remove", "move", "postpone", "replace"} : \E todo :
           /\ Instruct(o, kind, todo) /\ Proper(o, todo)
           /\ kind = "replace" => DeletesFirst(todo) /\ Covers(rows, o, todo, todo)
<1>1. \A R : R \subseteq Owned(o) => IsFiniteSet(R) /\ Owned(o) \subseteq rows
  BY FS_Subset DEF EditTypes, Owned
<1>2. ASSUME NEW k \in Keys, k.owner = o, Instruct(o, "add", Added(<<k>>))
      PROVE  Proper(o, Added(<<k>>))
  <2>1. <<k>> \in Seq(Keys) /\ Range(<<k>>) = {k}
    BY DEF Range
  <2> QED BY <1>2, <2>1, AddedProper
<1>3. ASSUME NEW t \in Tasks, NEW list \in List(Matching(o, {t}))
      PROVE  list \in Seq(Owned(o)) /\ list \in Seq(rows)
  <2>1. Matching(o, {t}) \subseteq Owned(o) /\ Owned(o) \subseteq rows
    BY <1>1 DEF Matching
  <2>2. list \in Seq(Matching(o, {t}))
    BY <1>1, <2>1, ListRows
  <2> QED BY <2>1, <2>2, SeqMonotonic
<1>4. ASSUME NEW anchor \in Days, NEW list \in List(Since(o, anchor))
      PROVE  list \in Seq(Owned(o))
  <2>1. Since(o, anchor) \subseteq Owned(o)
    BY DEF Since
  <2>2. list \in Seq(Since(o, anchor))
    BY <1>1, <2>1, ListRows
  <2> QED BY <2>1, <2>2, SeqMonotonic
<1>5. \A kind, todo : Instruct(o, kind, todo) =>
        \A i \in DOMAIN todo : todo[i].op = "insert" => todo[i].key.start \in Days
  BY DEF Instruct
<1>6. CASE \E k \in Keys : k.owner = o /\ Instruct(o, "add", Added(<<k>>))
  BY <1>2, <1>6
<1>7. CASE \E t \in Tasks : \E list \in List(Matching(o, {t})) :
             Instruct(o, "remove", Removed(list))
  BY <1>3, <1>7, RemovedProper
<1>8. CASE \E t \in Tasks : \E list \in List(Matching(o, {t})) : \E day \in Days :
             Instruct(o, "move", Moved(list, day))
  <2>0. PICK t \in Tasks : \E list \in List(Matching(o, {t})) : \E day \in Days :
          Instruct(o, "move", Moved(list, day))
    BY <1>8
  <2>1. PICK list \in List(Matching(o, {t})), day \in Days : Instruct(o, "move", Moved(list, day))
    BY <2>0
  <2>2. Proper(o, Moved(list, day))
    BY <1>3, <1>5, <2>1, UpdatesProper
  <2> QED BY <2>1, <2>2
<1>9. CASE \E anchor \in Days, n \in Shifts : \E list \in List(Since(o, anchor)) :
             Instruct(o, "postpone", Postponed(list, n))
  <2>0. PICK anchor \in Days, n \in Shifts : \E list \in List(Since(o, anchor)) :
          Instruct(o, "postpone", Postponed(list, n))
    BY <1>9
  <2>1. PICK list \in List(Since(o, anchor)) : Instruct(o, "postpone", Postponed(list, n))
    BY <2>0
  <2>2. Proper(o, Postponed(list, n))
    BY <1>4, <1>5, <2>1, UpdatesProper
  <2> QED BY <2>1, <2>2
<1>10. CASE \E items \in SUBSET {k \in Keys : k.owner = o} :
              /\ IsFiniteSet(items)
              /\ \E list \in List(Owned(o)) :
                   Instruct(o, "replace", Replaced(list, SetToSeq(items)))
  BY <1>10, ReplacedProper
<1> QED BY <1>6, <1>7, <1>8, <1>9, <1>10 DEF Edit

\* A new pending update takes the place of the owner's other one.
LEMMA PutRight ==
  ASSUME EditRight, NEW o \in Owners, NEW todo, Proper(o, todo),
         NEW kind \in {"add", "remove", "move", "postpone", "replace"},
         kind = "replace" => /\ DeletesFirst(todo) /\ Covers(rows, o, todo, todo)
                             /\ worker.doing # "apply",
         Put(o, kind, todo), UNCHANGED <<rows, ids, worker>>
  PROVE  EditRight'
<1> DEFINE n == Len(pending)
           new == [owner |-> o, kind |-> kind, todo |-> todo, due |-> FALSE, status |-> "pending"]
           old == [p \in DOMAIN pending |->
                    IF pending[p].owner = o /\ pending[p].status = "pending"
                    THEN [pending[p] EXCEPT !.status = "cancelled"] ELSE pending[p]]
<1>1. /\ EditTypes /\ PendingRight(pending, rows) /\ WorkerRight(pending, rows, worker)
      /\ pending \in Seq(Update) /\ n \in Nat /\ DOMAIN pending = 1..n
      /\ \A p \in 1..n : pending[p] \in Update
  BY LenProperties DEF EditRight, EditTypes
<1>2. pending' = Append(old, new)
  BY DEF Put
<1>3. new \in Update
  BY DEF Update, Proper
<1>4. \A p \in 1..n : /\ old[p] \in Update /\ old[p].owner = pending[p].owner
                      /\ old[p].kind = pending[p].kind /\ old[p].todo = pending[p].todo
                      /\ Live1(old[p]) => Live1(pending[p]) /\ pending[p].owner # o
  <2> SUFFICES ASSUME NEW p \in 1..n
               PROVE  /\ old[p] \in Update /\ old[p].owner = pending[p].owner
                      /\ old[p].kind = pending[p].kind /\ old[p].todo = pending[p].todo
                      /\ Live1(old[p]) => Live1(pending[p]) /\ pending[p].owner # o
    OBVIOUS
  <2>1. pending[p] \in Update
    BY <1>1
  <2>2. CASE pending[p].owner = o /\ pending[p].status = "pending"
    <3>1. old[p] = [pending[p] EXCEPT !.status = "cancelled"]
      BY <1>1, <2>2
    <3> HIDE DEF old
    <3> QED BY <2>1, <3>1 DEF Update, Live1
  <2>3. CASE ~(pending[p].owner = o /\ pending[p].status = "pending")
    <3>1. old[p] = pending[p]
      BY <1>1, <2>3
    <3> HIDE DEF old
    <3> QED BY <2>1, <2>3, <3>1 DEF Live1
  <2> QED BY <2>2, <2>3
<1>5. DOMAIN old = 1..n /\ old = [p \in DOMAIN old |-> old[p]]
  BY <1>1
<1>6. new.owner = o /\ new.kind = kind /\ new.todo = todo
  OBVIOUS
<1> HIDE DEF old, new
<1>7. old \in Seq(Update) /\ Len(old) = n
  BY <1>1, <1>4, <1>5, FunctionSeq
<1>8. /\ pending' \in Seq(Update) /\ DOMAIN pending' = 1..(n + 1)
      /\ \A p \in 1..n : pending'[p] = old[p]
      /\ pending'[n + 1] = new
  BY <1>2, <1>3, <1>7, AppendProperties, LenProperties
<1> HIDE DEF n
<1>9. \A p \in DOMAIN pending' : p \in 1..n \/ p = n + 1
  BY <1>1, <1>8
<1>10. EditTypes'
  <2>1. DOMAIN pending \subseteq DOMAIN pending'
    BY <1>1, <1>8
  <2> QED BY <1>1, <1>8, <2>1 DEF EditTypes
<1>11. PendingRight(pending', rows')
  <2>1. \A p \in 1..n : /\ Proper(pending'[p].owner, pending'[p].todo)
                        /\ Live1(pending'[p]) => Live1(pending[p]) /\ pending'[p].owner # o
                        /\ pending'[p].owner = pending[p].owner
                        /\ pending'[p].todo = pending[p].todo
                        /\ Replacing(pending'[p]) => Replacing(pending[p])
    BY <1>1, <1>4, <1>8 DEF PendingRight, Replacing
  <2>2. \A p \in DOMAIN pending' : Proper(pending'[p].owner, pending'[p].todo)
    BY <1>6, <1>8, <1>9, <2>1
  <2>3. ASSUME NEW p \in DOMAIN pending', NEW q \in DOMAIN pending',
               Live1(pending'[p]), Live1(pending'[q]), pending'[p].owner = pending'[q].owner
        PROVE  p = q
    <3>1. CASE p \in 1..n /\ q \in 1..n
      BY <1>1, <2>1, <2>3, <3>1 DEF PendingRight
    <3>2. CASE p = n + 1 \/ q = n + 1
      BY <1>6, <1>8, <1>9, <2>1, <2>3, <3>2
    <3> QED BY <1>9, <3>1, <3>2
  <2>4. ASSUME NEW p \in DOMAIN pending', Live1(pending'[p]), Replacing(pending'[p])
        PROVE  /\ DeletesFirst(pending'[p].todo)
               /\ Covers(rows, pending'[p].owner, pending'[p].todo, pending'[p].todo)
    <3>1. CASE p \in 1..n
      BY <1>1, <2>1, <2>4, <3>1 DEF PendingRight
    <3>2. CASE p = n + 1
      BY <1>6, <1>8, <2>4, <3>2 DEF Replacing
    <3> QED BY <1>9, <3>1, <3>2
  <2> QED BY <2>2, <2>3, <2>4 DEF PendingRight
<1>12. WorkerRight(pending', rows', worker')
  <2> SUFFICES ASSUME worker.doing = "apply" PROVE WorkerRight(pending', rows, worker)
    BY DEF WorkerRight
  <2>1. worker.p \in 1..n /\ kind # "replace"
    BY <1>1 DEF EditTypes
  <2>2. /\ pending'[worker.p].owner = pending[worker.p].owner
        /\ pending'[worker.p].kind = pending[worker.p].kind
        /\ pending'[worker.p].todo = pending[worker.p].todo
    BY <1>4, <1>8, <2>1
  <2>3. ASSUME NEW q \in DOMAIN pending', q # worker.p, Live1(pending'[q]),
               pending'[q].owner = pending'[worker.p].owner
        PROVE  ~Replacing(pending'[q])
    <3>1. CASE q \in 1..n
      BY <1>1, <1>4, <1>8, <2>2, <2>3, <3>1 DEF WorkerRight, Replacing
    <3>2. CASE q = n + 1
      BY <1>6, <1>8, <2>1, <3>2 DEF Replacing
    <3> QED BY <1>9, <3>1, <3>2
  <2>4. RestRight(pending[worker.p], rows, worker.todo) => RestRight(pending'[worker.p], rows, worker.todo)
    BY <2>2 DEF RestRight
  <2> QED BY <1>1, <2>2, <2>3, <2>4 DEF WorkerRight, Replacing
<1> QED BY <1>10, <1>11, <1>12 DEF EditRight

\* Nothing is put or changed but for what becomes of updates.
Quieter ==
  /\ pending' \in Seq(Update) /\ DOMAIN pending' = DOMAIN pending
  /\ \A p \in DOMAIN pending :
       /\ pending'[p].owner = pending[p].owner /\ pending'[p].kind = pending[p].kind
       /\ pending'[p].todo = pending[p].todo
       /\ Live1(pending'[p]) => Live1(pending[p])
\* The rows have the keys that they had.
Kept(R, S) == \A r \in S : \E x \in R : x.id = r.id /\ x.key = r.key

LEMMA CoversKept ==
  ASSUME NEW R, NEW S, Kept(R, S), NEW o, NEW s, NEW todo, Covers(R, o, s, todo)
  PROVE  Covers(S, o, s, todo)
BY DEF Kept, Covers, Delete

LEMMA QuietRight ==
  ASSUME EditRight, EditTypes', Quieter, Kept(rows, rows'), Kept(rows', rows),
         worker' = worker \/ worker'.doing # "apply"
  PROVE  EditRight'
<1>1. EditTypes /\ PendingRight(pending, rows) /\ WorkerRight(pending, rows, worker)
  BY DEF EditRight
<1>2. PendingRight(pending', rows')
  <2>1. \A p, q \in DOMAIN pending' : Live1(pending'[p]) /\ Live1(pending'[q])
                                      /\ pending'[p].owner = pending'[q].owner => p = q
    BY <1>1 DEF PendingRight, Quieter
  <2>2. ASSUME NEW p \in DOMAIN pending', Live1(pending'[p]), Replacing(pending'[p])
        PROVE  /\ DeletesFirst(pending'[p].todo)
               /\ Covers(rows', pending'[p].owner, pending'[p].todo, pending'[p].todo)
    <3>1. /\ DeletesFirst(pending[p].todo)
          /\ Covers(rows, pending[p].owner, pending[p].todo, pending[p].todo)
      BY <1>1, <2>2 DEF PendingRight, Quieter, Replacing
    <3> QED BY <3>1, CoversKept DEF Quieter
  <2>3. \A p \in DOMAIN pending' : Proper(pending'[p].owner, pending'[p].todo)
    BY <1>1 DEF PendingRight, Quieter
  <2> QED BY <2>1, <2>2, <2>3 DEF PendingRight
<1>3. WorkerRight(pending', rows', worker')
  <2> SUFFICES ASSUME worker'.doing = "apply", worker' = worker
               PROVE  WorkerRight(pending', rows', worker)
    BY DEF WorkerRight
  <2>1. worker.p \in DOMAIN pending
    BY <1>1 DEF EditTypes
  <2>2. ASSUME Replacing(pending'[worker.p])
        PROVE  RestRight(pending'[worker.p], rows', worker.todo)
    <3> DEFINE u == pending[worker.p]
               v == pending'[worker.p]
    <3>1. RestRight(u, rows, worker.todo) /\ v.owner = u.owner /\ v.todo = u.todo
      BY <1>1, <2>1, <2>2 DEF WorkerRight, Quieter, Replacing
    <3>2. Covers(rows', u.owner, worker.todo, u.todo)
      BY <3>1, CoversKept DEF RestRight
    <3>3. \A x \in Ops(u.todo, "insert") : x \in Range(worker.todo) \/ \E r \in rows' : r.key = x.key
      BY <3>1 DEF RestRight, Kept
    <3> HIDE DEF u, v
    <3> QED BY <3>1, <3>2, <3>3 DEF RestRight, v
  <2>3. /\ \A q \in DOMAIN pending' :
             q # worker.p /\ Live1(pending'[q]) /\ pending'[q].owner = pending'[worker.p].owner
               => ~Replacing(pending'[q])
        /\ Range(worker.todo) \subseteq Range(pending'[worker.p].todo)
    BY <1>1, <2>1 DEF WorkerRight, Quieter, Replacing
  <2> QED BY <2>2, <2>3 DEF WorkerRight
<1> QED BY <1>2, <1>3 DEF EditRight

LEMMA SameQuiet ==
  ASSUME EditTypes, UNCHANGED pending PROVE Quieter
BY DEF Quieter, EditTypes

LEMMA StatusQuiet ==
  ASSUME EditTypes, NEW P, NEW status \in {"cancelled", "expired", "confirmed"},
         SetStatus(P, status)
  PROVE  Quieter
<1>1. /\ pending \in Seq(Update) /\ Len(pending) \in Nat /\ DOMAIN pending = 1..Len(pending)
      /\ \A p \in DOMAIN pending : pending[p] \in Update
  BY LenProperties DEF EditTypes
<1>2. DOMAIN pending' = DOMAIN pending /\ pending' = [p \in DOMAIN pending' |-> pending'[p]]
  BY DEF SetStatus
<1>3. ASSUME NEW p \in DOMAIN pending
      PROVE  /\ pending'[p] \in Update
             /\ pending'[p].owner = pending[p].owner /\ pending'[p].kind = pending[p].kind
             /\ pending'[p].todo = pending[p].todo
             /\ Live1(pending'[p]) => Live1(pending[p])
  <2>1. pending'[p] = [pending[p] EXCEPT !.status = status] \/ pending'[p] = pending[p]
    BY DEF SetStatus
  <2> QED BY <1>1, <2>1 DEF Update, Live1
<1>4. pending' \in Seq(Update)
  BY <1>1, <1>2, <1>3, FunctionSeq
<1> QED BY <1>2, <1>3, <1>4 DEF Quieter

LEMMA DueQuiet ==
  ASSUME EditTypes, TimePasses PROVE Quieter
<1>1. /\ pending \in Seq(Update) /\ Len(pending) \in Nat /\ DOMAIN pending = 1..Len(pending)
      /\ \A p \in DOMAIN pending : pending[p] \in Update
  BY LenProperties DEF EditTypes
<1>2. PICK p \in DOMAIN pending : pending' = [pending EXCEPT ![p].due = TRUE]
  BY DEF TimePasses
<1>3. DOMAIN pending' = DOMAIN pending /\ pending' = [q \in DOMAIN pending' |-> pending'[q]]
  BY <1>1, <1>2
<1>4. ASSUME NEW q \in DOMAIN pending
      PROVE  /\ pending'[q] \in Update
             /\ pending'[q].owner = pending[q].owner /\ pending'[q].kind = pending[q].kind
             /\ pending'[q].todo = pending[q].todo
             /\ Live1(pending'[q]) => Live1(pending[q])
  <2>1. pending'[q] = [pending[q] EXCEPT !.due = TRUE] \/ pending'[q] = pending[q]
    BY <1>1, <1>2
  <2> QED BY <1>1, <2>1 DEF Update, Live1
<1>5. pending' \in Seq(Update)
  BY <1>1, <1>3, <1>4, FunctionSeq
<1> QED BY <1>3, <1>4, <1>5 DEF Quieter

\* The rows after an insertion.
Upserted(R, new, U) ==
  /\ \A r \in U : \/ r \in R
                   \/ r = new
                   \/ \E x \in R : x.key = new.key /\ r = [x EXCEPT !.status = new.status]
  /\ \A x \in R : x.key # new.key => x \in U
  /\ \E r \in U : \/ r = new
                   \/ \E x \in R : x.key = new.key /\ r = [x EXCEPT !.status = new.status]

LEMMA UpsertRows ==
  ASSUME NEW R, IsFiniteSet(R), NEW new
  PROVE  IsFiniteSet(Upsert(R, new)) /\ Upserted(R, new, Upsert(R, new))
<1> USE DEF Upserted
<1> DEFINE same == {r \in R : r.key = new.key}
           f == [r \in same |-> [r EXCEPT !.status = new.status]]
           image == {[r EXCEPT !.status = new.status] : r \in same}
<1>1. IsFiniteSet(same) /\ IsFiniteSet(R \ same)
  BY FS_Subset
<1>2. IsFiniteSet(image)
  <2>1. f \in Surjection(same, image)
    BY DEF Surjection
  <2> QED BY <1>1, <2>1, FS_Surjection
<1>3. IsFiniteSet((R \ same) \union image) /\ IsFiniteSet(R \union {new})
  BY <1>1, <1>2, FS_Union, FS_AddElement
<1>4. CASE same = {}
  <2>1. Upsert(R, new) = R \union {new}
    BY <1>4 DEF Upsert
  <2> QED BY <1>3, <2>1
<1>5. CASE same # {}
  <2>1. Upsert(R, new) = (R \ same) \union image
    BY <1>5 DEF Upsert
  <2>2. \E r \in Upsert(R, new) : \E x \in R : x.key = new.key /\ r = [x EXCEPT !.status = new.status]
    BY <1>5, <2>1
  <2> QED BY <1>3, <2>1, <2>2
<1> QED BY <1>4, <1>5

LEMMA ConfirmRight ==
  ASSUME EditRight, NEW o \in Owners, Confirm(o) PROVE EditRight'
<1>1. EditTypes /\ PendingRight(pending, rows)
  BY DEF EditRight
<1>2. PICK p \in Ready(o) :
        worker' = [doing |-> "apply", owner |-> o, p |-> p, todo |-> pending[p].todo]
  BY DEF Confirm
<1>3. /\ UNCHANGED <<rows, ids, pending>> /\ p \in DOMAIN pending /\ Live1(pending[p])
      /\ worker'.doing = "apply" /\ worker'.p = p /\ worker'.todo = pending[p].todo
      /\ worker'.owner = o
  BY <1>2 DEF Confirm, Ready, Live, Live1
<1>4. pending[p].todo \in Seq(AnyStatement)
  <2>1. pending[p] \in Update
    BY <1>1, <1>3 DEF EditTypes
  <2> QED BY <2>1 DEF Update
<1>5. EditTypes'
  BY <1>1, <1>2, <1>3, <1>4 DEF EditTypes
<1>6. Replacing(pending[p]) => RestRight(pending[p], rows, pending[p].todo)
  BY <1>1, <1>3 DEF PendingRight, RestRight, Ops
<1>7. WorkerRight(pending, rows, worker')
  BY <1>1, <1>3, <1>6 DEF PendingRight, WorkerRight
<1> QED BY <1>1, <1>3, <1>5, <1>7 DEF EditRight

\* A deletion takes rows away, and no statement of the rest.
LEMMA DeleteRight ==
  ASSUME EditRight, worker.doing = "apply", worker.todo # <<>>, Head(worker.todo).op = "delete",
         rows' = DeleteByID(rows, Head(worker.todo).id),
         worker' = [worker EXCEPT !.todo = Tail(worker.todo)], UNCHANGED <<ids, pending>>
  PROVE  EditRight'
<1> DEFINE s == worker.todo
           h == Head(s)
           r == Tail(s)
           u == pending[worker.p]
<1>1. /\ EditTypes /\ PendingRight(pending, rows) /\ WorkerRight(pending, rows, worker)
      /\ s \in Seq(AnyStatement) /\ worker.p \in DOMAIN pending
  BY DEF EditRight, EditTypes
<1>2. /\ r \in Seq(AnyStatement) /\ h \in Range(s) /\ Range(s) = {h} \union Range(r)
      /\ DeletesFirst(s) => DeletesFirst(r)
  BY <1>1, TailRange
<1>3. /\ worker'.doing = worker.doing /\ worker'.p = worker.p /\ worker'.todo = r
      /\ worker'.owner = worker.owner
      /\ worker' = [doing |-> worker'.doing, owner |-> worker'.owner, p |-> worker'.p,
                    todo |-> worker'.todo]
  <2>1. worker = [doing |-> worker.doing, owner |-> worker.owner, p |-> worker.p,
                  todo |-> worker.todo]
    BY <1>1 DEF EditTypes
  <2> HIDE DEF s
  <2> QED BY <2>1 DEF s
<1>4. rows' = {x \in rows : x.id # h.id} /\ rows' \subseteq rows
  BY DEF DeleteByID
<1>5. EditTypes'
  <2>1. IsFiniteSet(rows')
    BY <1>1, <1>4, FS_Subset DEF EditTypes
  <2> QED BY <1>1, <1>2, <1>3, <1>4, <2>1 DEF EditTypes
<1>6. PendingRight(pending, rows')
  BY <1>1, <1>4 DEF PendingRight, Covers
<1>7. h.op = "delete"
  OBVIOUS
<1> HIDE DEF h, r, s
<1>8. ASSUME Replacing(u) PROVE RestRight(u, rows', r)
  <2>1. RestRight(u, rows, s)
    BY <1>1, <1>8 DEF WorkerRight, s
  <2>2. Ops(u.todo, "insert") \subseteq Range(r)
    <3>1. Ops(s, "delete") # {}
      BY <1>2, <1>7 DEF Ops
    <3> QED BY <1>2, <1>7, <2>1, <3>1 DEF RestRight, Ops
  <2>3. Covers(rows', u.owner, r, u.todo)
    <3> SUFFICES ASSUME NEW x \in rows', x.key.owner = u.owner
                 PROVE  Delete(x) \in Range(r) \/ Insert(x.key) \in Range(u.todo)
      BY DEF Covers
    <3>1. Delete(x) \in Range(s) \/ Insert(x.key) \in Range(u.todo)
      BY <1>4, <2>1 DEF RestRight, Covers
    <3>2. Delete(x) # h
      BY <1>4 DEF Delete
    <3> QED BY <1>2, <3>1, <3>2
  <2> QED BY <1>2, <2>1, <2>2, <2>3 DEF RestRight
<1>9. WorkerRight(pending, rows', worker')
  BY <1>1, <1>2, <1>3, <1>8 DEF WorkerRight, s
<1> QED BY <1>5, <1>6, <1>9 DEF EditRight

\* An insertion puts back what the update lists.
LEMMA InsertRight ==
  ASSUME EditRight, worker.doing = "apply", worker.todo # <<>>, Head(worker.todo).op = "insert",
         rows' = Upsert(rows, Row(ids + 1, Head(worker.todo).key, "planned")), ids' = ids + 1,
         worker' = [worker EXCEPT !.todo = Tail(worker.todo)], UNCHANGED pending
  PROVE  EditRight'
<1> DEFINE s == worker.todo
           h == Head(s)
           r == Tail(s)
           u == pending[worker.p]
           new == Row(ids + 1, h.key, "planned")
<1>1. /\ EditTypes /\ PendingRight(pending, rows) /\ WorkerRight(pending, rows, worker)
      /\ s \in Seq(AnyStatement) /\ worker.p \in DOMAIN pending /\ ids \in Nat /\ IsFiniteSet(rows)
  BY DEF EditRight, EditTypes
<1>2. /\ r \in Seq(AnyStatement) /\ h \in Range(s) /\ Range(s) = {h} \union Range(r)
      /\ DeletesFirst(s) => DeletesFirst(r)
      /\ DeletesFirst(s) => Ops(r, "delete") = {}
  BY <1>1, TailRange
<1>3. /\ worker'.doing = worker.doing /\ worker'.p = worker.p /\ worker'.todo = r
      /\ worker'.owner = worker.owner
      /\ worker' = [doing |-> worker'.doing, owner |-> worker'.owner, p |-> worker'.p,
                    todo |-> worker'.todo]
  <2>1. worker = [doing |-> worker.doing, owner |-> worker.owner, p |-> worker.p,
                  todo |-> worker.todo]
    BY <1>1 DEF EditTypes
  <2> HIDE DEF s
  <2> QED BY <2>1 DEF s
<1>4. h \in AnyStatement /\ h.op = "insert" /\ h.key \in Keys /\ h = Insert(h.key)
  <2>1. h \in AnyStatement /\ h.op = "insert"
    BY <1>1
  <2> HIDE DEF h
  <2> QED BY <2>1 DEF AnyStatement, Insert
<1>5. h \in Range(u.todo) /\ h.key.owner = u.owner
  <2>1. h \in Range(u.todo)
    BY <1>1, <1>2 DEF WorkerRight
  <2>2. h \in Ops(u.todo, "insert")
    BY <1>4, <2>1 DEF Ops
  <2> QED BY <1>1, <2>1, <2>2 DEF PendingRight, Proper
<1> HIDE DEF h, r, s
<1>6. new.key = h.key /\ new.id = ids + 1 /\ new.status = "planned"
      /\ new = [id |-> ids + 1, key |-> h.key, status |-> "planned"]
  BY DEF Row
<1>7. rows' = Upsert(rows, new)
  BY DEF h, s
<1> HIDE DEF new
<1>8. IsFiniteSet(rows') /\ Upserted(rows, new, rows')
  BY <1>1, <1>7, UpsertRows
<1>9. \A y \in rows : y \in [id : 1..ids, key : Keys, status : RowStatus]
  BY <1>1 DEF EditTypes
<1>10. \A y \in rows : LET x == [y EXCEPT !.status = new.status] IN
          x \in [id : 1..ids, key : Keys, status : RowStatus] /\ x.id = y.id /\ x.key = y.key
  BY <1>6, <1>9 DEF RowStatus
<1>11. \A x \in rows' : /\ x \in [id : 1..(ids + 1), key : Keys, status : RowStatus]
                        /\ x \in rows \/ x.key = h.key
  <2>1. 1..ids \subseteq 1..(ids + 1) /\ ids + 1 \in 1..(ids + 1)
    BY <1>1
  <2>2. \A y \in [id : 1..ids, key : Keys, status : RowStatus] :
           y \in [id : 1..(ids + 1), key : Keys, status : RowStatus]
    BY <2>1
  <2>3. new \in [id : 1..(ids + 1), key : Keys, status : RowStatus]
    BY <1>4, <1>6, <2>1 DEF RowStatus
  <2> QED BY <1>6, <1>8, <1>9, <1>10, <2>2, <2>3 DEF Upserted
<1>12. \E x \in rows' : x.key = h.key
  BY <1>6, <1>8, <1>10 DEF Upserted
<1>13. \A y \in rows : \E x \in rows' : x.key = y.key
  BY <1>6, <1>8, <1>12 DEF Upserted
<1>14. EditTypes'
  BY <1>1, <1>2, <1>3, <1>8, <1>11 DEF EditTypes
<1>15. PendingRight(pending, rows')
  <2> SUFFICES ASSUME NEW p \in DOMAIN pending, Live1(pending[p]), Replacing(pending[p])
               PROVE  Covers(rows', pending[p].owner, pending[p].todo, pending[p].todo)
    BY <1>1 DEF PendingRight
  <2> SUFFICES ASSUME NEW x \in rows', x.key.owner = pending[p].owner
               PROVE  Delete(x) \in Range(pending[p].todo) \/ Insert(x.key) \in Range(pending[p].todo)
    BY DEF Covers
  <2>1. CASE x \in rows
    BY <1>1, <2>1 DEF PendingRight, Covers
  <2>2. CASE x.key = h.key
    <3>1. p = worker.p
      BY <1>1, <1>5, <2>2 DEF WorkerRight
    <3> QED BY <1>4, <1>5, <2>2, <3>1
  <2> QED BY <1>11, <2>1, <2>2
<1>16. ASSUME Replacing(u) PROVE RestRight(u, rows', r)
  <2>1. RestRight(u, rows, s)
    BY <1>1, <1>16 DEF WorkerRight, s
  <2>2. DeletesFirst(r) /\ Ops(r, "delete") = {}
    BY <1>2, <2>1 DEF RestRight
  <2>3. Covers(rows', u.owner, r, u.todo)
    <3> SUFFICES ASSUME NEW x \in rows', x.key.owner = u.owner
                 PROVE  Delete(x) \in Range(r) \/ Insert(x.key) \in Range(u.todo)
      BY DEF Covers
    <3>1. CASE x.key = h.key
      BY <1>4, <1>5, <3>1
    <3>2. CASE x \in rows
      <4>1. Delete(x) \in Range(s) \/ Insert(x.key) \in Range(u.todo)
        BY <2>1, <3>2 DEF RestRight, Covers
      <4>2. Delete(x) # h
        BY <1>4 DEF Delete
      <4> QED BY <1>2, <4>1, <4>2
    <3> QED BY <1>11, <3>1, <3>2
  <2>4. \A x \in Ops(u.todo, "insert") : x \in Range(r) \/ \E y \in rows' : y.key = x.key
    <3> SUFFICES ASSUME NEW x \in Ops(u.todo, "insert")
                 PROVE  x \in Range(r) \/ \E y \in rows' : y.key = x.key
      OBVIOUS
    <3>1. x \in Range(s) \/ \E y \in rows : y.key = x.key
      BY <2>1 DEF RestRight
    <3> QED BY <1>2, <1>12, <1>13, <3>1
  <2> QED BY <2>2, <2>3, <2>4 DEF RestRight
<1>17. WorkerRight(pending, rows', worker')
  BY <1>1, <1>2, <1>3, <1>16 DEF WorkerRight, s
<1> QED BY <1>14, <1>15, <1>17 DEF EditRight

LEMMA ApplyRight == ASSUME EditRight, ApplyOne PROVE EditRight'
<1>1. /\ worker.doing = "apply" /\ worker.todo # <<>> /\ UNCHANGED pending
      /\ worker' = [worker EXCEPT !.todo = Tail(worker.todo)]
  BY DEF ApplyOne
<1>2. Head(worker.todo) \in AnyStatement
  BY <1>1 DEF EditRight, EditTypes
<1>3. CASE Head(worker.todo).op = "delete"
  <2>1. rows' = DeleteByID(rows, Head(worker.todo).id) /\ UNCHANGED ids
    BY <1>3 DEF ApplyOne
  <2> QED BY <1>1, <1>3, <2>1, DeleteRight
<1>4. CASE Head(worker.todo).op = "insert"
  <2>1. /\ rows' = Upsert(rows, Row(ids + 1, Head(worker.todo).key, "planned"))
        /\ ids' = ids + 1
    BY <1>4 DEF ApplyOne
  <2> QED BY <1>1, <1>4, <2>1, InsertRight
<1> QED BY <1>2, <1>3, <1>4 DEF AnyStatement

\* A report marks rows, and changes neither their ids nor their keys.
LEMMA ReportRight ==
  ASSUME EditRight, NEW o, NEW t, NEW what, Report(o, t, what) PROVE EditRight'
<1> DEFINE f == [r \in rows |->
                   IF what = "done" /\ r.key.owner = o /\ r.key.task = t
                   THEN [r EXCEPT !.status = "done"] ELSE r]
<1>1. EditTypes /\ UNCHANGED <<ids, pending, worker>>
  BY DEF EditRight, Report
<1>2. rows' = {f[r] : r \in rows}
  BY DEF Report
<1>3. DOMAIN f = rows /\ f \in [rows -> rows']
  BY <1>2
<1>4. ASSUME NEW r \in rows
      PROVE  /\ f[r].id = r.id /\ f[r].key = r.key
             /\ f[r] \in [id : 1..ids, key : Keys, status : RowStatus]
  <2>1. r \in [id : 1..ids, key : Keys, status : RowStatus]
    BY <1>1 DEF EditTypes
  <2>2. f[r] = [r EXCEPT !.status = "done"] \/ f[r] = r
    OBVIOUS
  <2> HIDE DEF f
  <2> QED BY <2>1, <2>2 DEF RowStatus
<1> HIDE DEF f
<1>5. IsFiniteSet(rows')
  <2>1. f \in Surjection(rows, rows')
    BY <1>2, <1>3 DEF Surjection
  <2> QED BY <1>1, <2>1, FS_Surjection DEF EditTypes
<1>6. EditTypes'
  BY <1>1, <1>2, <1>4, <1>5 DEF EditTypes
<1>7. Kept(rows, rows') /\ Kept(rows', rows)
  BY <1>2, <1>4 DEF Kept
<1> QED BY <1>1, <1>6, <1>7, QuietRight, SameQuiet

LEMMA StepEdit == EditRight /\ [Next]_vars => EditRight'
<1> SUFFICES ASSUME EditRight, [Next]_vars PROVE EditRight'
  OBVIOUS
<1>0. EditTypes /\ Kept(rows, rows) /\ worker.todo \in Seq(AnyStatement)
  BY DEF EditRight, EditTypes, Kept
<1>1. ASSUME Quieter, UNCHANGED <<rows, ids>>, worker' = worker \/ worker'.doing # "apply",
             worker' = [worker EXCEPT !.doing = worker'.doing] \/ worker' = WorkerIdle,
             worker'.doing = "idle" \/ worker.doing # "idle",
             worker'.doing \in {"idle", "apply", "document", "coordinate", "answer"}
      PROVE  EditRight'
  <2>1. \/ worker' = [doing |-> worker'.doing, owner |-> worker.owner, p |-> worker.p,
                      todo |-> worker.todo]
        \/ worker' = WorkerIdle
    <3>1. worker = [doing |-> worker.doing, owner |-> worker.owner, p |-> worker.p,
                    todo |-> worker.todo]
      BY <1>0 DEF EditTypes
    <3> QED BY <1>1, <3>1
  <2>2. /\ worker' = [doing |-> worker'.doing, owner |-> worker'.owner, p |-> worker'.p,
                      todo |-> worker'.todo]
        /\ worker'.todo \in {worker.todo, <<>>}
        /\ worker'.doing # "idle" => worker'.owner = worker.owner /\ worker'.p = worker.p
    BY <2>1 DEF WorkerIdle
  <2>3. <<>> \in Seq(AnyStatement)
    OBVIOUS
  <2>4. EditTypes'
    BY <1>0, <1>1, <2>2, <2>3 DEF EditTypes, Quieter
  <2> QED BY <1>0, <1>1, <2>4, QuietRight
<1>2. ASSUME UNCHANGED <<rows, ids, pending, worker>> PROVE EditRight'
  <2>1. EditTypes'
    BY <1>0, <1>2 DEF EditTypes
  <2> QED BY <1>0, <1>2, <2>1, QuietRight, SameQuiet
<1>3. ASSUME NEW o \in Owners, Edit(o) PROVE EditRight'
  <2>0. PICK kind \in {"add", "remove", "move", "postpone", "replace"} : \E todo :
          /\ Instruct(o, kind, todo) /\ Proper(o, todo)
          /\ kind = "replace" => DeletesFirst(todo) /\ Covers(rows, o, todo, todo)
    BY <1>0, <1>3, EditProper
  <2>1. PICK todo :
          /\ Instruct(o, kind, todo) /\ Proper(o, todo)
          /\ kind = "replace" => DeletesFirst(todo) /\ Covers(rows, o, todo, todo)
    BY <2>0
  <2>2. worker.doing = "idle" /\ Put(o, kind, todo) /\ UNCHANGED <<rows, ids, worker>>
    BY <2>1 DEF Instruct
  <2> QED BY <2>1, <2>2, PutRight
<1>4. ASSUME NEW k \in Keys, Delegate(k) PROVE EditRight'
  <2>1. <<k>> \in Seq(Keys) /\ Range(<<k>>) = {k} /\ k.owner \in Owners
    BY DEF Range, Keys
  <2>2. Proper(k.owner, Added(<<k>>))
    BY <2>1, AddedProper
  <2>3. Put(k.owner, "add", Added(<<k>>)) /\ UNCHANGED <<rows, ids, worker>>
    BY <1>4 DEF Delegate
  <2> QED BY <2>1, <2>2, <2>3, PutRight
<1>5. ASSUME NEW o \in Owners, ConfirmExpired(o) \/ GiveUp(o) PROVE EditRight'
  <2>1. \E status \in {"cancelled", "expired", "confirmed"} : SetStatus(Live(o), status)
    BY <1>5 DEF ConfirmExpired, GiveUp
  <2>2. UNCHANGED <<rows, ids, worker>>
    BY <1>5 DEF ConfirmExpired, GiveUp
  <2>3. Quieter
    BY <1>0, <2>1, StatusQuiet
  <2>4. EditTypes'
    BY <1>0, <2>2, <2>3 DEF EditTypes, Quieter
  <2> QED BY <1>0, <2>2, <2>3, <2>4, QuietRight
<1>6. CASE TimePasses
  <2>1. Quieter /\ UNCHANGED <<rows, ids, worker>>
    BY <1>0, <1>6, DueQuiet DEF TimePasses
  <2>2. EditTypes'
    BY <1>0, <2>1 DEF EditTypes, Quieter
  <2> QED BY <1>0, <2>1, <2>2, QuietRight
<1>7. CASE MarkConfirmed
  <2>1. /\ worker.doing = "apply" /\ SetStatus({worker.p}, "confirmed")
        /\ worker' = [worker EXCEPT !.doing = "document"] /\ UNCHANGED <<rows, ids>>
    BY <1>7 DEF MarkConfirmed
  <2>2. worker'.doing = "document" /\ Quieter
    BY <1>0, <2>1, StatusQuiet DEF EditTypes
  <2> QED BY <1>1, <2>1, <2>2
<1>8. CASE Document \/ Coordinate
  <2>1. /\ \E next \in {"coordinate", "answer"} : worker' = [worker EXCEPT !.doing = next]
        /\ worker.doing # "idle" /\ UNCHANGED <<rows, ids, pending>>
    BY <1>8 DEF Document, Coordinate
  <2>2. worker'.doing \in {"coordinate", "answer"} /\ Quieter
    BY <1>0, <2>1, SameQuiet DEF EditTypes
  <2> QED BY <1>1, <2>1, <2>2
<1>9. CASE Reply \/ Failed \/ Restart
  <2>1. worker' = WorkerIdle /\ UNCHANGED <<rows, ids, pending>>
    BY <1>9 DEF Reply, Failed, Restart
  <2> QED BY <1>0, <1>1, <2>1, SameQuiet DEF WorkerIdle
<1>10. ASSUME NEW o \in Owners, NEW t \in Tasks, NEW open \in BOOLEAN, Risk(o, t, open)
       PROVE  EditRight'
  <2>1. UNCHANGED <<rows, pending, worker>> /\ ids' \in {ids, ids + 1}
    BY <1>10 DEF Risk
  <2>2. EditTypes'
    <3>1. ids \in Nat /\ rows \subseteq [id : 1..ids, key : Keys, status : RowStatus]
      BY <1>0 DEF EditTypes
    <3>2. ids' \in Nat /\ 1..ids \subseteq 1..ids'
      BY <2>1, <3>1
    <3>3. rows \subseteq [id : 1..ids', key : Keys, status : RowStatus]
      BY <3>1, <3>2
    <3> QED BY <1>0, <2>1, <3>2, <3>3 DEF EditTypes
  <2> QED BY <1>0, <2>1, <2>2, QuietRight, SameQuiet
<1>11. CASE ScanStep \/ Midnight
  <2>1. UNCHANGED editVars
    BY <1>11 DEF ScanStep, ScanStart, ScanMember, ScanRisks, Record, Enqueue, EnqueueFailed,
                 ScanEnd, Midnight
  <2> QED BY <1>2, <2>1 DEF editVars
<1>12. CASE UNCHANGED editVars
  BY <1>2, <1>12 DEF editVars
<1> QED BY <1>3, <1>4, <1>5, <1>6, <1>7, <1>8, <1>9, <1>10, <1>11, <1>12, ApplyRight, ConfirmRight,
           ReportRight DEF Next, vars

\* A confirmed replacement leaves exactly the items it lists, however often it had
\* to be carried out, and whatever the administrator proposed, the member reported
\* and failed in between (Confirm, PutPending, MarkConfirmed).
THEOREM AlwaysReplacedExactly == Spec => ReplacedExactly
<1>1. ASSUME EditRight, [Next]_vars, NEW p \in DOMAIN pending, Confirmed(p),
             pending[p].kind = "replace"
      PROVE  KeysOf(pending[p].owner) = Listed(p)
  <2> DEFINE u == pending[p]
  <2>1. EditTypes /\ PendingRight(pending, rows) /\ WorkerRight(pending, rows, worker)
    BY <1>1 DEF EditRight
  <2>2. MarkConfirmed /\ p = worker.p
    <3>1. ~ UNCHANGED pending
      BY <1>1 DEF Confirmed
    <3>2. ASSUME NEW o, NEW kind, NEW todo, Put(o, kind, todo) PROVE FALSE
      <4>1. DOMAIN pending = 1..Len(pending) /\ Len(pending) \in Nat
        BY <2>1, LenProperties DEF EditTypes
      <4> DEFINE old == [q \in DOMAIN pending |->
                           IF pending[q].owner = o /\ pending[q].status = "pending"
                           THEN [pending[q] EXCEPT !.status = "cancelled"] ELSE pending[q]]
      <4>2. old \in Seq({old[q] : q \in 1..Len(pending)}) /\ Len(old) = Len(pending)
        <5>1. DOMAIN old = 1..Len(pending) /\ old = [q \in DOMAIN old |-> old[q]]
          BY <4>1
        <5> HIDE DEF old
        <5> QED BY <4>1, <5>1, FunctionSeq
      <4>3. old[p].status # "confirmed"
        <5>1. pending[p] \in Update
          BY <2>1 DEF EditTypes
        <5>2. old[p] = pending[p] \/ old[p] = [pending[p] EXCEPT !.status = "cancelled"]
          BY <4>1
        <5> HIDE DEF old
        <5> QED BY <1>1, <5>1, <5>2 DEF Update, Confirmed
      <4>4. \E new : pending' = Append(old, new)
        BY <3>2 DEF Put
      <4> HIDE DEF old
      <4>5. pending'[p] = old[p]
        BY <4>1, <4>2, <4>4
      <4> QED BY <1>1, <4>3, <4>5 DEF Confirmed
    <3>3. ASSUME NEW P, NEW status, SetStatus(P, status)
          PROVE  p \in P /\ status = "confirmed"
      <4>1. pending[p] \in Update
        BY <2>1 DEF EditTypes
      <4>2. pending'[p] = IF p \in P THEN [pending[p] EXCEPT !.status = status] ELSE pending[p]
        BY <3>3 DEF SetStatus
      <4> QED BY <1>1, <4>1, <4>2 DEF Update, Confirmed
    <3>4. ~TimePasses
      <4> SUFFICES ASSUME TimePasses PROVE FALSE
        OBVIOUS
      <4>1. Quieter /\ pending'[p].status = pending[p].status
        <5>1. PICK q \in DOMAIN pending : pending' = [pending EXCEPT ![q].due = TRUE]
          BY DEF TimePasses
        <5>2. pending[p] \in Update
          BY <2>1 DEF EditTypes
        <5>3. pending'[p] = [pending[p] EXCEPT !.due = TRUE] \/ pending'[p] = pending[p]
          BY <2>1, <5>1 DEF EditTypes
        <5> QED BY <2>1, <5>2, <5>3, DueQuiet DEF Update
      <4> QED BY <1>1, <4>1 DEF Confirmed
    <3>5. ASSUME NEW o \in Owners, Edit(o) PROVE FALSE
      <4>1. \E kind, todo : Instruct(o, kind, todo)
        BY <3>5 DEF Edit
      <4> QED BY <3>2, <4>1 DEF Instruct
    <3>6. ASSUME NEW k \in Keys, Delegate(k) PROVE FALSE
      BY <3>2, <3>6 DEF Delegate
    <3>7. ASSUME NEW o \in Owners, ConfirmExpired(o) \/ GiveUp(o) PROVE FALSE
      <4>1. \E status : status # "confirmed" /\ SetStatus(Live(o), status)
        BY <3>7 DEF ConfirmExpired, GiveUp
      <4> QED BY <3>3, <4>1
    <3>8. MarkConfirmed => p = worker.p
      BY <3>3 DEF MarkConfirmed
    <3>9. ASSUME NEW o \in Owners, Confirm(o) PROVE FALSE
      BY <3>1, <3>9 DEF Confirm
    <3>10. ~(ApplyOne \/ Document \/ Coordinate \/ Reply \/ Failed \/ Restart)
      BY <3>1 DEF ApplyOne, Document, Coordinate, Reply, Failed, Restart
    <3>11. ASSUME NEW o \in Owners, NEW t \in Tasks, NEW open \in BOOLEAN,
                  Report(o, t, "note") \/ Report(o, t, "done") \/ Risk(o, t, open)
           PROVE  FALSE
      BY <3>1, <3>11 DEF Report, Risk
    <3>12. ~ScanStep /\ ~Midnight
      BY <3>1 DEF ScanStep, ScanStart, ScanMember, ScanRisks, Record, Enqueue, EnqueueFailed,
                  ScanEnd, Midnight, editVars
    <3>13. ~ UNCHANGED editVars
      BY <3>1 DEF editVars
    <3> QED BY <1>1, <3>4, <3>5, <3>6, <3>7, <3>8, <3>9, <3>10, <3>11, <3>12, <3>13 DEF Next, vars
  <2>3. worker.doing = "apply" /\ worker.todo = <<>>
    BY <2>2 DEF MarkConfirmed
  <2>4. Range(worker.todo) = {}
    BY <2>3 DEF Range
  <2>5. RestRight(u, rows, worker.todo)
    BY <1>1, <2>1, <2>2, <2>3 DEF WorkerRight, Replacing
  <2>6. \A r \in rows : r.key.owner = u.owner => Insert(r.key) \in Range(u.todo)
    BY <2>4, <2>5 DEF RestRight, Covers
  <2>7. \A x \in Ops(u.todo, "insert") : /\ \E r \in rows : r.key = x.key
                                         /\ x.key.owner = u.owner
    BY <2>1, <2>4, <2>5 DEF RestRight, PendingRight, Proper
  <2>8. \A k : Insert(k).op = "insert" /\ Insert(k).key = k
    BY DEF Insert
  <2>9. Listed(p) = {x.key : x \in Ops(u.todo, "insert")}
    BY DEF Listed, Ops, Range
  <2> HIDE DEF u
  <2>10. \A k \in KeysOf(u.owner) : k \in {x.key : x \in Ops(u.todo, "insert")}
    BY <2>6, <2>8 DEF KeysOf, Owned, Ops
  <2>11. \A x \in Ops(u.todo, "insert") : x.key \in KeysOf(u.owner)
    BY <2>7 DEF KeysOf, Owned
  <2> QED BY <2>9, <2>10, <2>11 DEF u
<1>2. EditRight /\ [Next]_vars =>
        \A p \in DOMAIN pending :
          Confirmed(p) /\ pending[p].kind = "replace" => KeysOf(pending[p].owner) = Listed(p)
  BY <1>1
<1> QED BY <1>2, InitEdit, StepEdit, PTL DEF Spec, ReplacedExactly
=============================================================================
