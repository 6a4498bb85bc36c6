---------------------- MODULE KeyApplications_proofs ----------------------
(***************************************************************************)
(* What the bus and the key applications keep, for every number of         *)
(* applications, messages, failures and stops and every size of channel    *)
(* and batch.                                                              *)
(***************************************************************************)
EXTENDS KeyApplications, TLAPS

\* The sender holds a message that nobody else may take, and none while the
\* process is down.
Holding ==
  /\ sender.stage # "idle" =>
       /\ sender.m \in Messages
       /\ table[sender.m].status = "processing" /\ ~table[sender.m].late
  /\ hub = "down" => sender.stage = "idle"

\* What was sent has been recorded as done, is about to be, or is unsure.
SentRecorded == \A i \in DOMAIN sent :
  \/ sent[i].m \in unsure
  \/ table[sent[i].m].status = "done"
  \/ sender.stage = "taken" /\ sender.m = sent[i].m

\* Nobody enqueues a grant, and only an approved application has one.
GrantsApproved == \A a \in Apps :
  /\ Grant(a) \notin ToSet(chan) \union ToSet(batch)
  /\ InTable(Grant(a)) => app[a] = "approved"

\* A review that is about to write is of a pending application, and the key it
\* made last is the one whose secret is remembered.
ReviewHolds == work.step = "write" =>
  /\ work.c.a \in Apps
  /\ app[work.c.a] = "pending"
  /\ work.c.what = "approve" => made # Redacted /\ secret[Grant(work.c.a)] = made

\* The secret of an approved application stays in memory until its grant is done,
\* unless the process stops.
SecretKept == \A a \in Apps : app[a] = "approved" =>
  /\ key[a] # Redacted
  /\ \/ secret[Grant(a)] = key[a]
     \/ /\ secret[Grant(a)] = Redacted
        /\ a \in restarted \/ table[Grant(a)].status = "done"

\* What may be told about an application.
Right(a, text) ==
  IF text = Redacted THEN a \in restarted ELSE app[a] = "approved" /\ text = key[a]
SenderRight == \A a \in Apps :
  sender.stage # "idle" /\ sender.m = Grant(a) => Right(a, sender.text)

Sound ==
  /\ TypeOK /\ Holding
  /\ NothingVanishes
  /\ SentRecorded /\ SentOnceUnlessUnsure
  /\ GrantsApproved /\ ReviewHolds /\ SecretKept /\ SenderRight /\ SecretWorks

----------------------------------------------------------------------------
(* Sequences and the table. *)

LEMMA AppendSet ==
  ASSUME NEW s \in Seq(Messages), NEW m \in Messages
  PROVE  /\ Append(s, m) \in Seq(Messages)
         /\ Len(Append(s, m)) = Len(s) + 1
         /\ ToSet(Append(s, m)) = ToSet(s) \union {m}
<1>1. DOMAIN Append(s, m) = 1..(Len(s) + 1) /\ DOMAIN s = 1..Len(s) OBVIOUS
<1>2. \A i \in 1..Len(s) : Append(s, m)[i] = s[i] OBVIOUS
<1>3. Append(s, m)[Len(s) + 1] = m OBVIOUS
<1>4. Len(s) \in Nat OBVIOUS
<1>5. \A i \in 1..(Len(s) + 1) : i \in 1..Len(s) \/ i = Len(s) + 1 BY <1>4
<1>6. Len(s) + 1 \in 1..(Len(s) + 1) /\ 1..Len(s) \subseteq 1..(Len(s) + 1) BY <1>4
<1> QED BY <1>1, <1>2, <1>3, <1>5, <1>6 DEF ToSet

LEMMA TailSet ==
  ASSUME NEW s \in Seq(Messages), s # <<>>
  PROVE  /\ Tail(s) \in Seq(Messages) /\ Head(s) \in Messages
         /\ Len(Tail(s)) = Len(s) - 1 /\ Len(s) \in Nat \ {0}
         /\ ToSet(s) = ToSet(Tail(s)) \union {Head(s)}
<1>1. Len(s) \in Nat \ {0} /\ DOMAIN s = 1..Len(s) OBVIOUS
<1>2. DOMAIN Tail(s) = 1..(Len(s) - 1) OBVIOUS
<1>3. \A i \in 1..(Len(s) - 1) : Tail(s)[i] = s[i + 1] OBVIOUS
<1>4. Head(s) = s[1] OBVIOUS
<1>5. \A i \in 1..Len(s) : i = 1 \/ (i - 1 \in 1..(Len(s) - 1) /\ i = (i - 1) + 1) BY <1>1
<1>6. \A i \in 1..(Len(s) - 1) : i + 1 \in 1..Len(s) BY <1>1
<1>7. ToSet(s) \subseteq ToSet(Tail(s)) \union {Head(s)}
  <2> SUFFICES ASSUME NEW i \in 1..Len(s) PROVE s[i] \in ToSet(Tail(s)) \union {Head(s)}
    BY <1>1 DEF ToSet
  <2>1. CASE i = 1 BY <1>4, <2>1
  <2>2. CASE i - 1 \in 1..(Len(s) - 1) /\ i = (i - 1) + 1
    <3>1. Tail(s)[i - 1] = s[i] BY <1>3, <2>2
    <3>2. i - 1 \in DOMAIN Tail(s) BY <1>2, <2>2
    <3> QED BY <3>1, <3>2 DEF ToSet
  <2> QED BY <1>5, <2>1, <2>2
<1>8. \A i \in 1..(Len(s) - 1) : Tail(s)[i] \in ToSet(s)
  BY <1>1, <1>3, <1>6 DEF ToSet
<1>9. Head(s) \in ToSet(s)
  <2>1. 1 \in DOMAIN s BY <1>1
  <2> QED BY <1>4, <2>1 DEF ToSet
<1>10. ToSet(Tail(s)) \subseteq ToSet(s) BY <1>2, <1>8 DEF ToSet
<1>11. Tail(s) \in Seq(Messages) /\ Head(s) \in Messages /\ Len(Tail(s)) = Len(s) - 1 OBVIOUS
<1> QED BY <1>1, <1>7, <1>9, <1>10, <1>11

LEMMA ConcatSet ==
  ASSUME NEW s \in Seq(Messages), NEW t \in Seq(Messages)
  PROVE  ToSet(s \o t) = ToSet(s) \union ToSet(t)
<1>1. /\ DOMAIN (s \o t) = 1..(Len(s) + Len(t)) /\ DOMAIN s = 1..Len(s) /\ DOMAIN t = 1..Len(t)
      /\ Len(s) \in Nat /\ Len(t) \in Nat
  OBVIOUS
<1>2. \A i \in 1..Len(s) : (s \o t)[i] = s[i] /\ i \in 1..(Len(s) + Len(t)) BY <1>1
<1>3. \A i \in 1..Len(t) : (s \o t)[Len(s) + i] = t[i] /\ Len(s) + i \in 1..(Len(s) + Len(t))
  BY <1>1
<1>4. \A i \in 1..(Len(s) + Len(t)) :
        i \in 1..Len(s) \/ (i - Len(s) \in 1..Len(t) /\ i = Len(s) + (i - Len(s)))
  BY <1>1
<1>5. ToSet(s) \union ToSet(t) \subseteq ToSet(s \o t) BY <1>1, <1>2, <1>3 DEF ToSet
<1>6. ToSet(s \o t) \subseteq ToSet(s) \union ToSet(t) BY <1>1, <1>2, <1>3, <1>4 DEF ToSet
<1> QED BY <1>5, <1>6

LEMMA SetTyped == ASSUME NEW s \in Seq(Messages) PROVE ToSet(s) \subseteq Messages
BY DEF ToSet

LEMMA EmptySet == ToSet(<<>>) = {}
BY DEF ToSet

\* What was sent are messages with texts.
LEMMA SentTyped ==
  ASSUME TypeOK, NEW i \in DOMAIN sent PROVE sent[i].m \in Messages /\ sent[i].text \in Texts
<1> DEFINE S == [m : Messages, text : Texts]
<1>1. \A r \in S : r.m \in Messages /\ r.text \in Texts OBVIOUS
<1>2. sent \in Seq(S) BY DEF TypeOK, BusTypeOK
<1> HIDE DEF S
<1>3. sent[i] \in S BY <1>2
<1> QED BY <1>1, <1>3

LEMMA MessageIds == \A a \in Apps :
  /\ {Ask(a), Grant(a), Refuse(a)} \subseteq Messages
  /\ \A b \in Apps : Grant(a) \notin {Ask(b), Refuse(b)} /\ (Grant(a) = Grant(b) => a = b)
BY ApplicationAssumption DEF Ask, Grant, Refuse

LEMMA OthersAreMessages == Others \subseteq Messages
BY ApplicationAssumption

LEMMA NoMessageTyped == NoMessage \in MessageRow /\ NoMessage.status = "none"
BY DEF NoMessage, MessageRow

\* What is in the table is not inserted again.
LEMMA WrittenFacts ==
  ASSUME TypeOK, NEW S \in SUBSET Messages, Written(S)
  PROVE  /\ table' \in [Messages -> MessageRow]
         /\ created' \in [Messages -> 0..MaxClock]
         /\ \A m \in Messages : InTable(m) \/ m \notin S => table'[m] = table[m]
         /\ \A m \in S : table'[m].status # "none"
<1> DEFINE new == [NoMessage EXCEPT !.status = "queued"]
<1>1. new \in MessageRow /\ new.status = "queued" BY DEF NoMessage, MessageRow
<1> HIDE DEF new
<1>2. table \in [Messages -> MessageRow] /\ created \in [Messages -> 0..MaxClock]
      /\ now \in 0..MaxClock
  BY DEF TypeOK, BusTypeOK
<1>3. table' = [m \in Messages |-> IF m \in S /\ table[m].status = "none" THEN new ELSE table[m]]
  BY DEF Written, Enqueued, new
<1>4. created' \in [Messages -> 0..MaxClock] BY <1>2 DEF Written
<1> QED BY <1>1, <1>2, <1>3, <1>4 DEF InTable

\* One more failure.
LEMMA FaultTyped == ASSUME TypeOK, Fault PROVE faults' \in 0..MaxFault
BY BusAssumption, SMT DEF TypeOK, BusTypeOK, Fault

\* A batch is written or dropped as a whole.
LEMMA FlushFacts ==
  ASSUME TypeOK, NEW b \in Seq(Messages), Flush(b)
  PROVE  /\ batch' = <<>>
         /\ table' \in [Messages -> MessageRow]
         /\ created' \in [Messages -> 0..MaxClock]
         /\ faults' \in 0..MaxFault
         /\ lost' \subseteq Messages /\ lost \subseteq lost'
         /\ \A m \in Messages : InTable(m) \/ m \notin ToSet(b) => table'[m] = table[m]
         /\ ToSet(b) \subseteq lost' \union {m \in Messages : table'[m].status # "none"}
<1>1. ToSet(b) \in SUBSET Messages BY SetTyped
<1>2. CASE Written(ToSet(b)) /\ UNCHANGED <<faults, lost>>
  BY <1>1, <1>2, WrittenFacts DEF Flush, TypeOK, BusTypeOK
<1>3. CASE /\ Fault
           /\ lost' = lost \union {m \in ToSet(b) : ~InTable(m)}
           /\ UNCHANGED <<table, created>>
  BY <1>1, <1>3, FaultTyped DEF Flush, TypeOK, BusTypeOK, InTable
<1> QED BY <1>2, <1>3 DEF Flush

----------------------------------------------------------------------------
\* Most steps leave the sender, what was sent and what was approved alone.
LEMMA Frame ==
  ASSUME Sound, TypeOK', NothingVanishes', GrantsApproved', ReviewHolds',
         UNCHANGED <<sender, sent, unsure, key, restarted>>,
         hub' = "down" => hub = "down",
         \A a \in Apps : app'[a] = "approved" <=> app[a] = "approved",
         \A a \in Apps : app[a] = "approved" => secret'[Grant(a)] = secret[Grant(a)],
         \A m \in Messages : InTable(m) => table'[m] = table[m]
  PROVE  Sound'
<1> USE DEF Sound
<1>1. \A m \in Messages : table[m].status # "none" => table'[m] = table[m] BY DEF InTable
<1>2. Holding' BY <1>1 DEF Holding
<1>3. \A i \in DOMAIN sent : sent[i].m \in Messages BY SentTyped
<1>4. SentRecorded' BY <1>1, <1>3 DEF SentRecorded
<1>5. SentOnceUnlessUnsure' BY DEF SentOnceUnlessUnsure
<1>6. SecretKept'
  <2> SUFFICES ASSUME NEW a \in Apps, app[a] = "approved"
               PROVE  /\ key[a] # Redacted
                      /\ \/ secret'[Grant(a)] = key[a]
                         \/ /\ secret'[Grant(a)] = Redacted
                            /\ a \in restarted \/ table'[Grant(a)].status = "done"
    BY DEF SecretKept
  <2>1. Grant(a) \in Messages BY MessageIds
  <2>2. table[Grant(a)].status = "done" => table'[Grant(a)].status = "done" BY <1>1, <2>1
  <2> QED BY <2>2 DEF SecretKept
<1>7. \A a \in Apps, t \in Texts : Right(a, t) => Right(a, t)' BY DEF Right
<1>8. sender.text \in Texts /\ \A i \in DOMAIN sent : sent[i].text \in Texts
  BY SentTyped DEF TypeOK, BusTypeOK, Sender
<1>9. SenderRight' BY <1>7, <1>8 DEF SenderRight
<1>10. SecretWorks' BY <1>7, <1>8 DEF SecretWorks, Right
<1> QED BY <1>2, <1>4, <1>5, <1>6, <1>9, <1>10

----------------------------------------------------------------------------
(* The queue keeps it. *)

LEMMA CollectSound ==
  ASSUME Sound, Collect, UNCHANGED appVars PROVE Sound'
<1> USE DEF Sound
<1> DEFINE b == Append(batch, Head(chan))
<1>1. chan \in Seq(Messages) /\ batch \in Seq(Messages) BY DEF TypeOK, BusTypeOK
<1>2. /\ Tail(chan) \in Seq(Messages) /\ Head(chan) \in Messages
      /\ Len(Tail(chan)) = Len(chan) - 1 /\ Len(chan) \in Nat \ {0}
      /\ ToSet(chan) = ToSet(Tail(chan)) \union {Head(chan)}
  BY <1>1, TailSet DEF Collect
<1>3. b \in Seq(Messages) /\ Len(b) = Len(batch) + 1 /\ ToSet(b) = ToSet(batch) \union {Head(chan)}
  BY <1>1, <1>2, AppendSet
<1> HIDE DEF b
<1>4. chan' = Tail(chan) /\ ToSet(chan) \union ToSet(batch) = ToSet(chan') \union ToSet(b)
  BY <1>2, <1>3 DEF Collect
<1>5. \/ Flush(b)
      \/ /\ Len(b) < BatchSize /\ batch' = b
         /\ UNCHANGED <<table, created, faults, lost>>
  <2>1. Len(b) \in Nat BY <1>3
  <2> QED BY <2>1, BusAssumption DEF Collect, b
<1>6. /\ batch' \in Seq(Messages) /\ Len(batch') < BatchSize
      /\ table' \in [Messages -> MessageRow]
      /\ created' \in [Messages -> 0..MaxClock]
      /\ faults' \in 0..MaxFault
      /\ lost' \subseteq Messages /\ lost \subseteq lost'
      /\ \A m \in Messages : InTable(m) \/ m \notin ToSet(b) => table'[m] = table[m]
      /\ ToSet(b) \subseteq ToSet(batch') \union lost' \union {m \in Messages : table'[m].status # "none"}
      /\ ToSet(batch') \subseteq ToSet(b)
  <2>1. CASE Flush(b)
    <3>1. <<>> \in Seq(Messages) /\ Len(<<>>) = 0 OBVIOUS
    <3> QED BY <1>3, <2>1, <3>1, FlushFacts, EmptySet, BusAssumption
  <2>2. CASE /\ Len(b) < BatchSize /\ batch' = b
             /\ UNCHANGED <<table, created, faults, lost>>
    BY <1>3, <2>2 DEF TypeOK, BusTypeOK
  <2> QED BY <1>5, <2>1, <2>2
<1>7. Len(chan') <= QueueSize
  <2>1. Len(chan) <= QueueSize BY DEF TypeOK, BusTypeOK
  <2> QED BY <1>2, <1>4, <2>1, BusAssumption
<1>8. TypeOK'
  BY <1>2, <1>4, <1>6, <1>7 DEF Collect, TypeOK, BusTypeOK, endVars, appVars
<1>9. NothingVanishes'
  <2>1. ToSet(accepted) \subseteq ToSet(chan') \union ToSet(b) \union lost \union {m \in Messages : InTable(m)}
    BY <1>4 DEF NothingVanishes
  <2>2. {m \in Messages : InTable(m)} \subseteq {m \in Messages : InTable(m)'}
    BY <1>6 DEF InTable
  <2>3. {m \in Messages : table'[m].status # "none"} = {m \in Messages : InTable(m)'}
    BY DEF InTable
  <2>4. accepted' = accepted BY DEF Collect
  <2> QED BY <1>6, <2>1, <2>2, <2>3, <2>4 DEF NothingVanishes
<1>10. GrantsApproved'
  <2> SUFFICES ASSUME NEW a \in Apps
               PROVE  /\ Grant(a) \notin ToSet(chan') \union ToSet(batch')
                      /\ InTable(Grant(a))' => app[a] = "approved"
    BY DEF GrantsApproved, Collect, appVars
  <2>1. Grant(a) \notin ToSet(chan') \union ToSet(b) BY <1>4 DEF GrantsApproved
  <2>2. Grant(a) \in Messages BY MessageIds
  <2>3. table'[Grant(a)] = table[Grant(a)] BY <1>6, <2>1, <2>2
  <2> QED BY <1>6, <2>1, <2>3 DEF GrantsApproved, InTable
<1>11. ReviewHolds' BY DEF ReviewHolds, Collect, appVars
<1>12. UNCHANGED <<sender, sent, unsure, key, restarted, hub, app, secret>>
  BY DEF Collect, endVars, appVars
<1> QED BY <1>6, <1>8, <1>9, <1>10, <1>11, <1>12, Frame

\* The timer's and the last batch.
LEMMA FlushBatchSound ==
  ASSUME Sound, Flush(batch), writer' \in {"runs", "ended"},
         UNCHANGED <<chan, secret, now, sender, sent, hub, stops, accepted, unsure>>,
         UNCHANGED appVars
  PROVE  Sound'
<1> USE DEF Sound
<1>1. batch \in Seq(Messages) BY DEF TypeOK, BusTypeOK
<1>2. /\ batch' = <<>>
      /\ table' \in [Messages -> MessageRow]
      /\ created' \in [Messages -> 0..MaxClock]
      /\ faults' \in 0..MaxFault
      /\ lost' \subseteq Messages /\ lost \subseteq lost'
      /\ \A m \in Messages : InTable(m) \/ m \notin ToSet(batch) => table'[m] = table[m]
      /\ ToSet(batch) \subseteq lost' \union {m \in Messages : table'[m].status # "none"}
  BY <1>1, FlushFacts
<1>3. batch' \in Seq(Messages) /\ Len(batch') < BatchSize /\ ToSet(batch') = {}
  <2>1. <<>> \in Seq(Messages) /\ Len(<<>>) = 0 OBVIOUS
  <2> QED BY <1>2, <2>1, EmptySet, BusAssumption
<1>4. TypeOK' BY <1>2, <1>3 DEF TypeOK, BusTypeOK, appVars
<1>5. NothingVanishes'
  <2>1. {m \in Messages : InTable(m)} \subseteq {m \in Messages : InTable(m)'}
    BY <1>2 DEF InTable
  <2>2. {m \in Messages : table'[m].status # "none"} = {m \in Messages : InTable(m)'}
    BY DEF InTable
  <2> QED BY <1>2, <2>1, <2>2 DEF NothingVanishes
<1>6. GrantsApproved'
  <2> SUFFICES ASSUME NEW a \in Apps
               PROVE  /\ Grant(a) \notin ToSet(chan') \union ToSet(batch')
                      /\ InTable(Grant(a))' => app[a] = "approved"
    BY DEF GrantsApproved, appVars
  <2>1. Grant(a) \notin ToSet(chan) \union ToSet(batch) BY DEF GrantsApproved
  <2>2. Grant(a) \in Messages BY MessageIds
  <2>3. table'[Grant(a)] = table[Grant(a)] BY <1>2, <2>1, <2>2
  <2> QED BY <1>3, <2>1, <2>3 DEF GrantsApproved, InTable
<1>7. ReviewHolds' BY DEF ReviewHolds, appVars
<1> QED BY <1>2, <1>4, <1>5, <1>6, <1>7, Frame DEF appVars

----------------------------------------------------------------------------
(* Commands keep it. *)

\* A step that leaves the queue and the table alone.
LEMMA Quiet ==
  ASSUME Sound, TypeOK', ReviewHolds',
         UNCHANGED <<chan, batch, table, lost, accepted, sender, sent, unsure, key, restarted>>,
         hub' = "down" => hub = "down",
         \A a \in Apps : app'[a] = "approved" <=> app[a] = "approved",
         \A a \in Apps : app[a] = "approved" => secret'[Grant(a)] = secret[Grant(a)]
  PROVE  Sound'
<1>1. NothingVanishes' BY DEF Sound, NothingVanishes, InTable
<1>2. GrantsApproved' BY DEF Sound, GrantsApproved, InTable
<1> QED BY <1>1, <1>2, Frame

LEMMA IdleTyped == Idle \in Work /\ Idle.step = "idle"
BY DEF Idle, Work, Said

\* A message that is no grant joins the channel.
LEMMA EnqueueSound ==
  ASSUME Sound, NEW m \in Messages, \A a \in Apps : m # Grant(a), Enqueue(m),
         inbox' \subseteq Said, work' \in Work, said' \in 0..MaxSaid,
         work' = work \/ work'.step # "write",
         UNCHANGED <<batch, writer, secret, tableVars, sender, sent, endVars, faults, lost,
                     unsure, app, key, made, restarted>>
  PROVE  Sound'
<1> USE DEF Sound
<1>1. chan \in Seq(Messages) /\ accepted \in Seq(Messages) BY DEF TypeOK, BusTypeOK
<1>2. /\ chan' \in Seq(Messages) /\ Len(chan') = Len(chan) + 1
      /\ ToSet(chan') = ToSet(chan) \union {m}
      /\ accepted' \in Seq(Messages) /\ ToSet(accepted') = ToSet(accepted) \union {m}
  BY <1>1, AppendSet DEF Enqueue
<1>3. Len(chan') <= QueueSize
  <2>1. Len(chan) \in Nat BY <1>1
  <2> QED BY <1>2, <2>1, BusAssumption DEF Enqueue
<1>4. TypeOK' BY <1>2, <1>3 DEF TypeOK, BusTypeOK, tableVars, endVars
<1>5. NothingVanishes' BY <1>2 DEF NothingVanishes, InTable, tableVars
<1>6. GrantsApproved' BY <1>2 DEF GrantsApproved, InTable, tableVars
<1>7. ReviewHolds' BY DEF ReviewHolds
<1> QED BY <1>4, <1>5, <1>6, <1>7, Frame DEF tableVars, endVars

LEMMA ProduceSound ==
  ASSUME Sound, NEW m \in Others, Produce(m) PROVE Sound'
<1>1. m \in Messages /\ \A a \in Apps : m # Grant(a)
  BY ApplicationAssumption, OthersAreMessages
<1>2. said' \in 0..MaxSaid
  BY ApplicationAssumption, SMT DEF Produce, Sound, TypeOK
<1> QED BY <1>1, <1>2, EnqueueSound DEF Produce, Sound, TypeOK

\* The notice of an application or a rejection.
LEMMA NotifySound == ASSUME Sound, Notify PROVE Sound'
<1>1. work.a \in Apps BY DEF Notify, Sound, TypeOK, Work
<1>2. PICK m \in {Ask(work.a), Refuse(work.a)} : Enqueue(m) BY DEF Notify
<1>3. m \in Messages /\ \A a \in Apps : m # Grant(a) BY <1>1, <1>2, MessageIds
<1>4. work' = Idle /\ inbox' \subseteq Said /\ said' \in 0..MaxSaid
  BY DEF Notify, Finish, Sound, TypeOK
<1>5. Idle \in Work /\ Idle.step # "write" BY IdleTyped
<1> QED BY <1>2, <1>3, <1>4, <1>5, EnqueueSound DEF Notify

LEMMA SaySound == ASSUME Sound, NEW c \in Said, Say(c) PROVE Sound'
<1>1. said' \in 0..MaxSaid BY ApplicationAssumption, SMT DEF Say, Sound, TypeOK
<1>2. TypeOK' BY <1>1 DEF Say, Sound, TypeOK, BusTypeOK, busVars, queueVars, tableVars, endVars
<1>3. ReviewHolds' BY DEF Say, Sound, ReviewHolds, busVars, queueVars
<1> QED BY <1>2, <1>3, Quiet DEF Say, busVars, queueVars, tableVars, endVars

LEMMA BeginSound == ASSUME Sound, NEW c \in Said, Begin(c) PROVE Sound'
<1>1. work' \in Work /\ work'.step = "look" BY DEF Begin, Work
<1>2. TypeOK' BY <1>1 DEF Begin, Sound, TypeOK, BusTypeOK, busVars, queueVars, tableVars, endVars
<1>3. ReviewHolds' BY <1>1 DEF ReviewHolds
<1> QED BY <1>2, <1>3, Quiet DEF Begin, busVars, queueVars, tableVars, endVars

LEMMA RetrySound == ASSUME Sound, Retry PROVE Sound'
<1>1. faults' \in 0..MaxFault BY FaultTyped DEF Retry, Sound
<1>2. work' \in Work /\ work'.step # "write" BY IdleTyped DEF Retry
<1>3. TypeOK' BY <1>1, <1>2 DEF Retry, Sound, TypeOK, BusTypeOK, queueVars, tableVars, endVars
<1>4. ReviewHolds' BY <1>2 DEF ReviewHolds
<1> QED BY <1>3, <1>4, Quiet DEF Retry, queueVars, tableVars, endVars

LEMMA CreateSound == ASSUME Sound, NEW a \in Apps, Create(a) PROVE Sound'
<1>1. work.c \in Said BY DEF Create, Sound, TypeOK, Work
<1>2. work' \in Work /\ work'.step = "ask" BY <1>1 DEF Create, Work
<1>3. TypeOK' BY <1>2 DEF Create, Sound, TypeOK, BusTypeOK, busVars, queueVars, tableVars, endVars
<1>4. ReviewHolds' BY <1>2 DEF ReviewHolds
<1>5. \A b \in Apps : app'[b] = "approved" <=> app[b] = "approved"
  BY DEF Create, Sound, TypeOK
<1> QED BY <1>3, <1>4, <1>5, Quiet DEF Create, busVars, queueVars, tableVars, endVars

\* The command of a review names its application.
LEMMA Reviewed ==
  ASSUME TypeOK, work.step \in {"look", "write"}, work.c.what # "apply"
  PROVE  work.c \in Said /\ work.c.a \in Apps /\ work = [step |-> work.step, c |-> work.c]
BY DEF TypeOK, Work, Said

\* The key is made for an application that is pending.
LEMMA ReviewSound == ASSUME Sound, Review PROVE Sound'
<1> USE DEF Sound
<1>1. work.c \in Said /\ work.c.a \in Apps /\ work = [step |-> work.step, c |-> work.c]
  BY Reviewed DEF Review
<1>2. CASE app[work.c.a] # "pending"
  <2>1. work' \in Work /\ work'.step # "write" /\ inbox' \subseteq Said
    BY <1>2, IdleTyped DEF Review, Finish, TypeOK
  <2>2. TypeOK' BY <1>2, <2>1 DEF Review, TypeOK, BusTypeOK, tableVars, endVars
  <2>3. ReviewHolds' BY <2>1 DEF ReviewHolds
  <2> QED BY <1>2, <2>2, <2>3, Quiet DEF Review, tableVars, endVars
<1>3. CASE app[work.c.a] = "pending" /\ work.c.what = "approve"
  <2> DEFINE a == work.c.a
  <2>1. work' = [work EXCEPT !.step = "write"] /\ Remember(a) /\ UNCHANGED inbox
    BY <1>3 DEF Review
  <2>2. work' = [step |-> "write", c |-> work.c] BY <1>1, <2>1
  <2>3. work' \in Work BY <1>1, <2>2 DEF Work
  <2>4. made' \in 0..MaxSecret /\ made' = made + 1 /\ made' # Redacted /\ made' \in Texts
    BY <2>1, BusAssumption, SMT DEF Remember, TypeOK, Texts, Redacted
  <2>5. Grant(a) \in Messages /\ \A b \in Apps \ {a} : Grant(b) # Grant(a)
    BY <1>1, MessageIds
  <2>6. /\ secret' \in [Messages -> Texts] /\ secret'[Grant(a)] = made'
        /\ \A b \in Apps \ {a} : secret'[Grant(b)] = secret[Grant(b)]
    BY <2>1, <2>4, <2>5, MessageIds DEF Remember, TypeOK, BusTypeOK
  <2>7. TypeOK'
    BY <2>1, <2>3, <2>4, <2>6 DEF Review, TypeOK, BusTypeOK, tableVars, endVars
  <2>8. ReviewHolds' BY <1>1, <1>3, <2>2, <2>4, <2>6 DEF ReviewHolds, Review
  <2>9. \A b \in Apps : app[b] = "approved" => secret'[Grant(b)] = secret[Grant(b)]
    BY <1>3, <2>6
  <2> QED BY <2>7, <2>8, <2>9, Quiet DEF Review, tableVars, endVars
<1>4. CASE app[work.c.a] = "pending" /\ work.c.what # "approve"
  <2>1. work' = [work EXCEPT !.step = "write"] /\ UNCHANGED <<secret, made, inbox>>
    BY <1>4 DEF Review
  <2>2. work' = [step |-> "write", c |-> work.c] BY <1>1, <2>1
  <2>3. work' \in Work BY <1>1, <2>2 DEF Work
  <2>4. TypeOK' BY <2>1, <2>3 DEF Review, TypeOK, BusTypeOK, tableVars, endVars
  <2>5. ReviewHolds' BY <1>1, <1>4, <2>2 DEF ReviewHolds, Review
  <2> QED BY <2>1, <2>4, <2>5, Quiet DEF Review, tableVars, endVars
<1> QED BY <1>2, <1>3, <1>4

LEMMA RejectSound == ASSUME Sound, Reject PROVE Sound'
<1> USE DEF Sound
<1>1. work.c \in Said /\ work.c.a \in Apps BY Reviewed DEF Reject
<1>2. app[work.c.a] = "pending" BY DEF ReviewHolds, Reject
<1>3. work' \in Work /\ work'.step = "refuse" BY <1>1 DEF Reject, Work
<1>4. TypeOK' BY <1>1, <1>3 DEF Reject, TypeOK, BusTypeOK, busVars, queueVars, tableVars, endVars
<1>5. ReviewHolds' BY <1>3 DEF ReviewHolds
<1>6. \A b \in Apps : app'[b] = "approved" <=> app[b] = "approved"
  BY <1>1, <1>2 DEF Reject, TypeOK
<1> QED BY <1>4, <1>5, <1>6, Quiet DEF Reject, busVars, queueVars, tableVars, endVars

\* Time and signals.
LEMMA TickSound == ASSUME Sound, Tick, UNCHANGED appVars PROVE Sound'
<1>1. now' \in 0..MaxClock BY BusAssumption, SMT DEF Tick, Sound, TypeOK, BusTypeOK
<1>2. TypeOK' BY <1>1 DEF Tick, Sound, TypeOK, BusTypeOK, queueVars, endVars, appVars
<1>3. ReviewHolds' BY DEF Sound, ReviewHolds, Tick, queueVars, appVars
<1> QED BY <1>2, <1>3, Quiet DEF Tick, queueVars, endVars, appVars

LEMMA StopSound == ASSUME Sound, Stop, UNCHANGED appVars PROVE Sound'
<1>1. stops' \in 0..MaxStop BY BusAssumption, SMT DEF Stop, Sound, TypeOK, BusTypeOK
<1>2. TypeOK' BY <1>1 DEF Stop, Sound, TypeOK, BusTypeOK, queueVars, tableVars, appVars
<1>3. ReviewHolds' BY DEF Sound, ReviewHolds, Stop, queueVars, appVars
<1> QED BY <1>2, <1>3, Quiet DEF Stop, queueVars, tableVars, appVars

----------------------------------------------------------------------------
(* The sender keeps it. *)

\* A step of the sender or the table that leaves the queue and applications alone.
LEMMA TableStep ==
  ASSUME Sound, TypeOK', Holding', SentRecorded', SentOnceUnlessUnsure', SenderRight', SecretWorks',
         UNCHANGED <<chan, batch, lost, accepted, app, key, made, work, restarted>>,
         \A m \in Messages : InTable(m)' <=> InTable(m),
         \A a \in Apps : table[Grant(a)].status = "done" => table'[Grant(a)].status = "done",
         \A a \in Apps : \/ secret'[Grant(a)] = secret[Grant(a)]
                         \/ /\ secret'[Grant(a)] = Redacted /\ InTable(Grant(a))
                            /\ table'[Grant(a)].status = "done"
  PROVE  Sound'
<1> USE DEF Sound
<1>1. {m \in Messages : InTable(m)} = {m \in Messages : InTable(m)'} OBVIOUS
<1>2. NothingVanishes' BY <1>1 DEF NothingVanishes
<1>3. GrantsApproved' BY MessageIds DEF GrantsApproved
<1>4. ReviewHolds'
  <2>1. work.step = "write" => ~InTable(Grant(work.c.a)) BY DEF ReviewHolds, GrantsApproved
  <2> QED BY <2>1 DEF ReviewHolds
<1>5. SecretKept' BY DEF SecretKept
<1> QED BY <1>2, <1>3, <1>4, <1>5

LEMMA PutBackTyped ==
  ASSUME NEW r \in MessageRow PROVE PutBack(r) \in MessageRow /\ PutBack(r).status = "queued"
BY DEF MessageRow, PutBack

LEMMA ClaimSound == ASSUME Sound, Claim, UNCHANGED appVars PROVE Sound'
<1> USE DEF Sound
<1>1. PICK m \in Claimable(table) :
        /\ table' = Taken(table, m)
        /\ sender' = [stage |-> "claimed", m |-> m, text |-> secret[m]]
  BY DEF Claim
<1>2. /\ UNCHANGED <<queueVars, created, now, sent, endVars, faults, accepted, lost, unsure>>
      /\ hub = "up" /\ sender.stage = "idle"
  BY DEF Claim
<1>3. m \in Messages /\ table[m].status \in {"queued", "processing"} BY <1>1 DEF Claimable
<1>4. \A x \in Messages : table[x] \in MessageRow BY DEF TypeOK, BusTypeOK
<1>5. table'[m] = [status |-> "processing", attempts |-> table[m].attempts + 1, late |-> FALSE]
  BY <1>1, <1>3 DEF Taken
<1>6. \A x \in Messages \ {m} :
        table'[x] = table[x] \/ (table[x].status \in {"queued", "processing"} /\ table'[x] = PutBack(table[x]))
  BY <1>1, <1>3 DEF Taken, Claimable
<1>7. table'[m] \in MessageRow BY <1>3, <1>4, <1>5 DEF MessageRow
<1>8. \A x \in Messages \ {m} : table'[x] \in MessageRow BY <1>4, <1>6, PutBackTyped
<1>9. table' \in [Messages -> MessageRow]
  <2>1. table' = [x \in Messages |-> table'[x]] BY <1>1 DEF Taken
  <2> QED BY <2>1, <1>7, <1>8
<1>10. \A x \in Messages : InTable(x)' <=> InTable(x)
  <2> SUFFICES ASSUME NEW x \in Messages
               PROVE  table'[x].status # "none" <=> table[x].status # "none"
    BY DEF InTable
  <2>1. CASE x = m BY <1>3, <1>5, <2>1
  <2>2. CASE x # m BY <1>4, <1>6, <2>2, PutBackTyped
  <2> QED BY <2>1, <2>2
<1>11. \A x \in Messages : table[x].status = "done" => table'[x].status = "done"
  BY <1>3, <1>6 DEF PutBack
<1>12. secret[m] \in Texts BY <1>3 DEF TypeOK, BusTypeOK
<1>13. sender' \in Sender BY <1>1, <1>3, <1>12 DEF Sender
<1>14. TypeOK' BY <1>2, <1>9, <1>13 DEF TypeOK, BusTypeOK, queueVars, endVars, appVars
<1>15. Holding' BY <1>1, <1>2, <1>3, <1>5 DEF Holding, endVars
<1>16. \A i \in DOMAIN sent : sent[i].m \in Messages BY SentTyped
<1>17. SentRecorded' BY <1>2, <1>11, <1>16 DEF SentRecorded
<1>18. SentOnceUnlessUnsure' BY <1>2 DEF SentOnceUnlessUnsure
<1>19. SenderRight'
  <2> SUFFICES ASSUME NEW a \in Apps, m = Grant(a) PROVE Right(a, sender.text)'
    BY <1>1 DEF SenderRight
  <2>1. app[a] = "approved" /\ table[Grant(a)].status # "done" BY <1>3 DEF GrantsApproved, InTable
  <2>2. \/ secret[Grant(a)] = key[a] /\ key[a] # Redacted
        \/ secret[Grant(a)] = Redacted /\ a \in restarted
    BY <2>1 DEF SecretKept
  <2> QED BY <1>1, <1>2, <2>1, <2>2 DEF Right, queueVars, appVars
<1>20. SecretWorks' BY <1>2 DEF SecretWorks, appVars
<1> QED BY <1>2, <1>10, <1>11, <1>14, <1>15, <1>17, <1>18, <1>19, <1>20, MessageIds, TableStep
   DEF queueVars, appVars

LEMMA SendSound == ASSUME Sound, Send, UNCHANGED appVars PROVE Sound'
<1> USE DEF Sound
<1>1. sender.stage = "claimed" /\ sender \in Sender /\ sender.m \in Messages
      /\ table[sender.m].status = "processing"
  BY DEF Send, Holding, TypeOK, BusTypeOK
<1>2. PICK s \in {"taken", "refused"} :
        /\ sender' = [sender EXCEPT !.stage = s]
        /\ UNCHANGED faults \/ Fault
        /\ \/ UNCHANGED <<sent, unsure>> /\ s = "refused"
           \/ Delivered /\ s = "taken" /\ UNCHANGED unsure
           \/ Delivered /\ unsure' = unsure \union {sender.m}
  BY DEF Send, SendRefused, Breaks
<1>3. sender' \in Sender /\ sender'.stage = s /\ sender'.m = sender.m /\ sender'.text = sender.text
  BY <1>1, <1>2 DEF Sender
<1>4. UNCHANGED <<queueVars, tableVars, endVars, accepted, lost>>
      /\ unsure' \in SUBSET Messages /\ unsure \subseteq unsure'
  BY <1>1, <1>2 DEF Send, TypeOK, BusTypeOK
<1>5. faults' \in 0..MaxFault BY <1>2, FaultTyped DEF TypeOK, BusTypeOK
<1> DEFINE e == [m |-> sender.m, text |-> sender.text]
<1>6. e \in [m : Messages, text : Texts] BY <1>1 DEF Sender
<1>7. sent \in Seq([m : Messages, text : Texts]) BY DEF TypeOK, BusTypeOK
<1>8. /\ sent' \in Seq([m : Messages, text : Texts])
      /\ \A i \in DOMAIN sent' :
           \/ /\ sent'[i] = e /\ i = Len(sent) + 1
              /\ s = "taken" \/ sender.m \in unsure'
           \/ i \in DOMAIN sent /\ sent'[i] = sent[i]
  <2>1. CASE UNCHANGED sent BY <1>7, <2>1
  <2>2. CASE Delivered /\ (s = "taken" \/ sender.m \in unsure')
    <3>1. sent' = Append(sent, e) BY <2>2 DEF Delivered
    <3> DEFINE S == [m : Messages, text : Texts]
    <3>0. e \in S /\ sent \in Seq(S) BY <1>6, <1>7
    <3> HIDE DEF S, e
    <3>2. DOMAIN Append(sent, e) = 1..(Len(sent) + 1) /\ DOMAIN sent = 1..Len(sent)
          /\ Len(sent) \in Nat
      BY <3>0
    <3>3. \A i \in 1..Len(sent) : Append(sent, e)[i] = sent[i] BY <3>0, <3>2
    <3>4. Append(sent, e)[Len(sent) + 1] = e BY <3>0
    <3>5. Append(sent, e) \in Seq(S) BY <3>0
    <3>6. \A i \in 1..(Len(sent) + 1) : i \in 1..Len(sent) \/ i = Len(sent) + 1 BY <3>2
    <3>7. sent' \in Seq([m : Messages, text : Texts]) BY <3>1, <3>5 DEF S
    <3>8. DOMAIN sent' = 1..(Len(sent) + 1) BY <3>1, <3>2
    <3>9. ASSUME NEW i \in DOMAIN sent'
          PROVE  \/ /\ sent'[i] = e /\ i = Len(sent) + 1
                    /\ s = "taken" \/ sender.m \in unsure'
                 \/ i \in DOMAIN sent /\ sent'[i] = sent[i]
      BY <2>2, <3>1, <3>2, <3>3, <3>4, <3>6, <3>8
    <3> QED BY <3>7, <3>9
  <2> QED BY <1>2, <2>1, <2>2
<1>9. e.m = sender.m /\ e.text = sender.text OBVIOUS
<1> HIDE DEF e
<1>10. TypeOK' BY <1>3, <1>4, <1>5, <1>8 DEF TypeOK, BusTypeOK, queueVars, tableVars, endVars, appVars
<1>11. Holding' BY <1>1, <1>3, <1>4 DEF Holding, tableVars, endVars, Send
<1>12. \A i \in DOMAIN sent : sent[i].m \in unsure \/ table[sent[i].m].status = "done"
  BY <1>1 DEF SentRecorded
<1>13. SentRecorded' BY <1>3, <1>4, <1>8, <1>9, <1>12 DEF SentRecorded, tableVars
<1>14. SentOnceUnlessUnsure'
  <2> SUFFICES ASSUME NEW i \in DOMAIN sent', NEW j \in DOMAIN sent', sent'[i].m = sent'[j].m, i # j
               PROVE  sent'[i].m \in unsure'
    BY DEF SentOnceUnlessUnsure
  <2>1. CASE i \in DOMAIN sent /\ sent'[i] = sent[i] /\ j \in DOMAIN sent /\ sent'[j] = sent[j]
    BY <1>4, <2>1 DEF SentOnceUnlessUnsure
  <2>2. CASE sent'[i] = e /\ j \in DOMAIN sent /\ sent'[j] = sent[j]
    BY <1>1, <1>4, <1>9, <1>12, <2>2
  <2>3. CASE sent'[j] = e /\ i \in DOMAIN sent /\ sent'[i] = sent[i]
    BY <1>1, <1>4, <1>9, <1>12, <2>3
  <2> QED BY <1>8, <2>1, <2>2, <2>3
<1>15. \A a \in Apps, t \in Texts : Right(a, t) => Right(a, t)' BY DEF Right, appVars
<1>16. sender.text \in Texts BY <1>1 DEF Sender
<1>17. SenderRight' BY <1>1, <1>3, <1>15, <1>16 DEF SenderRight
<1>18. SecretWorks'
  <2> SUFFICES ASSUME NEW i \in DOMAIN sent', NEW a \in Apps, sent'[i].m = Grant(a)
               PROVE  Right(a, sent[i].text)'
    BY DEF SecretWorks, Right
  <2>1. CASE sent'[i] = e BY <1>1, <1>9, <1>15, <1>16, <2>1 DEF SenderRight
  <2>2. CASE i \in DOMAIN sent /\ sent'[i] = sent[i]
    <3>1. Right(a, sent[i].text) BY <2>2 DEF SecretWorks, Right
    <3>2. sent[i].text \in Texts BY <2>2, SentTyped
    <3> QED BY <1>15, <2>2, <3>1, <3>2
  <2> QED BY <1>8, <2>1, <2>2
<1> QED BY <1>4, <1>10, <1>11, <1>13, <1>14, <1>17, <1>18, TableStep
   DEF queueVars, tableVars, appVars, InTable

\* What the sender finds when it records: no other message is touched.
LEMMA RecordSound ==
  ASSUME Sound, UNCHANGED appVars, sender.stage \in {"taken", "refused"},
         NEW t \in [Messages -> MessageRow], NEW s \in [Messages -> Texts],
         Record(sender.m, t, s),
         \A x \in Messages \ {sender.m} : t[x] = table[x] /\ s[x] = secret[x],
         t[sender.m].status # "none",
         sender.stage = "taken" => t[sender.m].status = "done",
         s[sender.m] = secret[sender.m] \/ (s[sender.m] = Redacted /\ t[sender.m].status = "done")
  PROVE  Sound'
<1> USE DEF Sound
<1>1. sender.m \in Messages /\ table[sender.m].status = "processing" BY DEF Holding
<1>2. /\ sender' = SenderIdle /\ sender'.stage = "idle"
      /\ UNCHANGED <<chan, batch, writer, created, now, sent, endVars, accepted, lost>>
  BY DEF Record, SenderIdle
<1>3. \/ table' = t /\ secret' = s /\ UNCHANGED <<faults, unsure>>
      \/ /\ unsure' = unsure \union {sender.m}
         /\ faults' \in 0..MaxFault
         /\ UNCHANGED <<table, secret>>
  BY FaultTyped DEF Record, Breaks, TypeOK, BusTypeOK
<1>4. SenderIdle \in Sender
  <2>1. Redacted \in Texts BY BusAssumption, SMT DEF Redacted, Texts
  <2> QED BY <2>1 DEF SenderIdle, Sender
<1>5. TypeOK' BY <1>1, <1>2, <1>3, <1>4 DEF TypeOK, BusTypeOK, endVars, appVars
<1>6. Holding' BY <1>2 DEF Holding
<1>7. \A i \in DOMAIN sent : sent[i].m \in Messages BY SentTyped
<1>8. SentRecorded'
  <2> SUFFICES ASSUME NEW i \in DOMAIN sent
               PROVE  sent[i].m \in unsure' \/ table'[sent[i].m].status = "done"
    BY <1>2 DEF SentRecorded
  <2>1. CASE sent[i].m = sender.m
    <3>1. sent[i].m \in unsure \/ sender.stage = "taken" BY <1>1, <2>1 DEF SentRecorded
    <3> QED BY <1>3, <2>1, <3>1
  <2>2. CASE sent[i].m # sender.m BY <1>3, <1>7, <2>2 DEF SentRecorded
  <2> QED BY <2>1, <2>2
<1>9. SentOnceUnlessUnsure' BY <1>2, <1>3 DEF SentOnceUnlessUnsure
<1>10. SenderRight' BY <1>2 DEF SenderRight
<1>11. SecretWorks' BY <1>2 DEF SecretWorks, appVars
<1>12. \A x \in Messages : InTable(x)' <=> InTable(x) BY <1>1, <1>3 DEF InTable
<1>13. \A x \in Messages : table[x].status = "done" => table'[x].status = "done" BY <1>1, <1>3
<1>14. \A x \in Messages : \/ secret'[x] = secret[x]
                           \/ /\ secret'[x] = Redacted /\ InTable(x)
                              /\ table'[x].status = "done"
  BY <1>1, <1>3 DEF InTable
<1> QED BY <1>2, <1>5, <1>6, <1>8, <1>9, <1>10, <1>11, <1>12, <1>13, <1>14, MessageIds, TableStep
   DEF appVars

LEMMA AckSound == ASSUME Sound, Ack, UNCHANGED appVars PROVE Sound'
<1> USE DEF Sound
<1> DEFINE m == sender.m
           t == Acked(table, m)
           s == [secret EXCEPT ![m] = Redacted]
<1>1. m \in Messages /\ sender.stage = "taken" /\ Record(m, t, s) BY DEF Ack, Holding
<1>2. table \in [Messages -> MessageRow] /\ secret \in [Messages -> Texts]
  BY DEF TypeOK, BusTypeOK
<1>3. Redacted \in Texts BY BusAssumption, SMT DEF Redacted, Texts
<1>4. s \in [Messages -> Texts] /\ s[m] = Redacted /\ \A x \in Messages \ {m} : s[x] = secret[x]
  BY <1>1, <1>2, <1>3
<1> DEFINE r == [table[m] EXCEPT !.status = "done", !.late = FALSE]
<1>5. r \in MessageRow /\ r.status = "done" BY <1>1, <1>2 DEF MessageRow
<1>6. t = [table EXCEPT ![m] = r] BY <1>1, <1>2 DEF Acked
<1> HIDE DEF r
<1>7. t \in [Messages -> MessageRow] /\ t[m].status = "done" /\ \A x \in Messages \ {m} : t[x] = table[x]
  BY <1>1, <1>2, <1>5, <1>6
<1> QED BY <1>1, <1>4, <1>7, RecordSound

LEMMA FailSound == ASSUME Sound, Fail, UNCHANGED appVars PROVE Sound'
<1> USE DEF Sound
<1> DEFINE m == sender.m
           t == Failed(table, m)
<1>1. m \in Messages /\ sender.stage = "refused" /\ Record(m, t, secret) BY DEF Fail, Holding
<1>2. table \in [Messages -> MessageRow] /\ secret \in [Messages -> Texts]
  BY DEF TypeOK, BusTypeOK
<1> DEFINE r == [status |-> IF table[m].attempts >= FailLimit THEN "dead" ELSE "queued",
                 attempts |-> table[m].attempts, late |-> FALSE]
<1>3. r \in MessageRow /\ r.status # "none" BY <1>1, <1>2 DEF MessageRow
<1>4. t = [table EXCEPT ![m] = r] BY <1>1, <1>2 DEF Failed
<1> HIDE DEF r
<1>5. t \in [Messages -> MessageRow] /\ t[m].status # "none" /\ \A x \in Messages \ {m} : t[x] = table[x]
  BY <1>1, <1>2, <1>3, <1>4
<1> QED BY <1>1, <1>2, <1>5, RecordSound

LEMMA LeaseEndsSound ==
  ASSUME Sound, NEW m \in Messages, LeaseEnds(m), UNCHANGED appVars PROVE Sound'
<1> USE DEF Sound
<1>1. table \in [Messages -> MessageRow] BY DEF TypeOK, BusTypeOK
<1> DEFINE r == [table[m] EXCEPT !.late = TRUE]
<1>2. r \in MessageRow /\ r.status = table[m].status BY <1>1 DEF MessageRow
<1>3. table' = [table EXCEPT ![m] = r] BY <1>1 DEF LeaseEnds
<1> HIDE DEF r
<1>4. /\ table' \in [Messages -> MessageRow]
      /\ \A x \in Messages : table'[x].status = table[x].status
      /\ \A x \in Messages \ {m} : table'[x] = table[x]
  BY <1>1, <1>2, <1>3
<1>5. UNCHANGED <<queueVars, created, now, sender, sent, endVars, faults, accepted, lost, unsure>>
      /\ sender.m # m
  BY DEF LeaseEnds
<1>6. TypeOK' BY <1>4, <1>5 DEF TypeOK, BusTypeOK, queueVars, endVars, appVars
<1>7. Holding' BY <1>4, <1>5 DEF Holding, endVars
<1>8. SentRecorded' BY <1>4, <1>5, SentTyped DEF SentRecorded
<1>9. SentOnceUnlessUnsure' BY <1>5 DEF SentOnceUnlessUnsure
<1>10. SenderRight' BY <1>5 DEF SenderRight, Right, appVars
<1>11. SecretWorks' BY <1>5 DEF SecretWorks, appVars
<1>12. \A x \in Messages : InTable(x)' <=> InTable(x) BY <1>4 DEF InTable
<1> QED BY <1>4, <1>5, <1>6, <1>7, <1>8, <1>9, <1>10, <1>11, <1>12, MessageIds, TableStep
   DEF queueVars, appVars

----------------------------------------------------------------------------
(* The life of the process keeps it. *)

LEMMA StartSound == ASSUME Sound, Start, UNCHANGED appVars PROVE Sound'
<1> USE DEF Sound
<1>1. table \in [Messages -> MessageRow] BY DEF TypeOK, BusTypeOK
<1>2. \A x \in Messages :
        table'[x] = IF table[x].status = "processing" THEN PutBack(table[x]) ELSE table[x]
  BY DEF Start, Recovered
<1>3. table' \in [Messages -> MessageRow]
  <2>1. table' = [x \in Messages |-> table'[x]] BY DEF Start, Recovered
  <2>2. \A x \in Messages : table'[x] \in MessageRow BY <1>1, <1>2, PutBackTyped
  <2> QED BY <2>1, <2>2
<1>4. \A x \in Messages : InTable(x)' <=> InTable(x) BY <1>1, <1>2, PutBackTyped DEF InTable
<1>5. \A x \in Messages : table[x].status = "done" => table'[x].status = "done" BY <1>2
<1>6. UNCHANGED <<chan, batch, secret, created, now, sender, sent, faults, stops, accepted, lost, unsure>>
      /\ hub' = "up" /\ writer' = "runs" /\ sender.stage = "idle"
  BY DEF Start, Holding
<1>7. TypeOK' BY <1>3, <1>6 DEF TypeOK, BusTypeOK, appVars
<1>8. Holding' BY <1>6 DEF Holding
<1>9. SentRecorded' BY <1>5, <1>6, SentTyped DEF SentRecorded
<1>10. SentOnceUnlessUnsure' BY <1>6 DEF SentOnceUnlessUnsure
<1>11. SenderRight' BY <1>6 DEF SenderRight
<1>12. SecretWorks' BY <1>6 DEF SecretWorks, appVars
<1> QED BY <1>4, <1>5, <1>6, <1>7, <1>8, <1>9, <1>10, <1>11, <1>12, MessageIds, TableStep
   DEF appVars

\* What was in memory is lost or in the table; what was being sent is unsure.
LEMMA HaltSound == ASSUME Sound, Halt PROVE Sound'
<1> USE DEF Sound
<1>1. /\ chan' = <<>> /\ batch' = <<>> /\ hub' = "down"
      /\ secret' = [m \in Messages |-> Redacted]
      /\ sender' = SenderIdle /\ sender'.stage = "idle"
      /\ lost' = lost \union {m \in ToSet(chan \o batch) : ~InTable(m)}
      /\ unsure' = IF sender.stage = "taken" THEN unsure \union {sender.m} ELSE unsure
      /\ work' = Idle
      /\ restarted' = restarted \union {a \in Apps : app[a] = "approved"}
      /\ UNCHANGED <<writer, table, created, now, sent, faults, stops, accepted, app, key, made, inbox, said>>
  BY DEF Halt, Exit, tableVars, SenderIdle
<1>2. chan \in Seq(Messages) /\ batch \in Seq(Messages) BY DEF TypeOK, BusTypeOK
<1>3. ToSet(chan \o batch) = ToSet(chan) \union ToSet(batch) BY <1>2, ConcatSet
<1>4. ToSet(chan \o batch) \subseteq Messages BY <1>2, <1>3, SetTyped
<1>5. Redacted \in Texts BY BusAssumption, SMT DEF Redacted, Texts
<1>6. SenderIdle \in Sender BY <1>5 DEF SenderIdle, Sender
<1>7. <<>> \in Seq(Messages) /\ Len(<<>>) = 0 OBVIOUS
<1>8. Len(<<>>) <= QueueSize /\ Len(<<>>) < BatchSize BY <1>7, BusAssumption
<1>9. sender.stage = "taken" => sender.m \in Messages BY DEF Holding
<1>10. secret' \in [Messages -> Texts] BY <1>1, <1>5
<1>11. TypeOK'
  <2>1. BusTypeOK' BY <1>1, <1>4, <1>6, <1>7, <1>8, <1>9, <1>10 DEF TypeOK, BusTypeOK
  <2> QED BY <1>1, <2>1, IdleTyped DEF TypeOK
<1>12. Holding' BY <1>1 DEF Holding
<1>13. NothingVanishes'
  <2>1. \A m \in ToSet(chan) \union ToSet(batch) : m \in lost' \/ InTable(m)
    BY <1>1, <1>3
  <2>2. ToSet(accepted) \subseteq lost' \union {m \in Messages : InTable(m)}
    BY <1>1, <1>3, <1>4, <2>1 DEF NothingVanishes
  <2> QED BY <1>1, <2>2 DEF NothingVanishes, InTable
<1>14. SentRecorded' BY <1>1 DEF SentRecorded
<1>15. SentOnceUnlessUnsure' BY <1>1 DEF SentOnceUnlessUnsure
<1>16. GrantsApproved' BY <1>1, EmptySet DEF GrantsApproved, InTable
<1>17. ReviewHolds' BY <1>1, IdleTyped DEF ReviewHolds
<1>18. SecretKept' BY <1>1, MessageIds DEF SecretKept
<1>19. SenderRight' BY <1>1 DEF SenderRight
<1>20. SecretWorks' BY <1>1 DEF SecretWorks
<1> QED BY <1>11, <1>12, <1>13, <1>14, <1>15, <1>16, <1>17, <1>18, <1>19, <1>20

----------------------------------------------------------------------------
\* The decision, the key and the grant are one transaction: the secret that will
\* be sent is that of the key that was written.
LEMMA ApproveSound == ASSUME Sound, Approve PROVE Sound'
<1> USE DEF Sound
<1> DEFINE a == work.c.a
<1>1. work.c \in Said /\ a \in Apps BY Reviewed DEF Approve
<1>2. app[a] = "pending" /\ made # Redacted /\ secret[Grant(a)] = made
  BY DEF ReviewHolds, Approve
<1>3. /\ app' = [app EXCEPT ![a] = "approved"]
      /\ key' = [key EXCEPT ![a] = made]
      /\ Written({Grant(a)})
      /\ work' = Idle /\ inbox' = inbox \ {work.c}
      /\ UNCHANGED <<queueVars, now, sender, sent, endVars, faults, accepted, lost, unsure, made, said, restarted>>
  BY <1>2 DEF Approve, Finish
<1>4. Grant(a) \in Messages /\ \A b \in Apps \ {a} : Grant(b) # Grant(a) BY <1>1, MessageIds
<1>5. /\ table' \in [Messages -> MessageRow]
      /\ created' \in [Messages -> 0..MaxClock]
      /\ \A m \in Messages : InTable(m) \/ m # Grant(a) => table'[m] = table[m]
  <2>1. {Grant(a)} \in SUBSET Messages BY <1>4
  <2> QED BY <1>3, <2>1, WrittenFacts
<1>6. made \in Texts BY BusAssumption, SMT DEF TypeOK, Texts, Redacted
<1>7. /\ app' \in [Apps -> {"none", "pending", "approved", "rejected"}] /\ app'[a] = "approved"
      /\ key' \in [Apps -> Texts] /\ key'[a] = made
      /\ \A b \in Apps \ {a} : app'[b] = app[b] /\ key'[b] = key[b]
  BY <1>1, <1>3, <1>6 DEF TypeOK
<1>8. TypeOK' BY <1>3, <1>5, <1>7, IdleTyped DEF TypeOK, BusTypeOK, queueVars, endVars
<1>9. \A m \in Messages : table[m].status # "none" => table'[m] = table[m] BY <1>5 DEF InTable
<1>10. Holding' BY <1>3, <1>9 DEF Holding, endVars
<1>11. NothingVanishes'
  <2>1. {m \in Messages : InTable(m)} \subseteq {m \in Messages : InTable(m)'} BY <1>9 DEF InTable
  <2> QED BY <1>3, <2>1 DEF NothingVanishes, queueVars
<1>12. SentRecorded' BY <1>3, <1>9, SentTyped DEF SentRecorded
<1>13. SentOnceUnlessUnsure' BY <1>3 DEF SentOnceUnlessUnsure
<1>14. GrantsApproved'
  <2> SUFFICES ASSUME NEW b \in Apps
               PROVE  /\ Grant(b) \notin ToSet(chan) \union ToSet(batch)
                      /\ InTable(Grant(b))' => app'[b] = "approved"
    BY <1>3 DEF GrantsApproved, queueVars
  <2>1. CASE b = a BY <1>7, <2>1 DEF GrantsApproved
  <2>2. CASE b # a
    <3>1. Grant(b) \in Messages /\ Grant(b) # Grant(a) BY <1>4, <2>2, MessageIds
    <3>2. table'[Grant(b)] = table[Grant(b)] BY <1>5, <3>1
    <3> QED BY <1>7, <2>2, <3>2 DEF GrantsApproved, InTable
  <2> QED BY <2>1, <2>2
<1>15. ReviewHolds' BY <1>3, IdleTyped DEF ReviewHolds
<1>16. SecretKept'
  <2> SUFFICES ASSUME NEW b \in Apps, app'[b] = "approved"
               PROVE  /\ key'[b] # Redacted
                      /\ \/ secret[Grant(b)] = key'[b]
                         \/ /\ secret[Grant(b)] = Redacted
                            /\ b \in restarted \/ table'[Grant(b)].status = "done"
    BY <1>3 DEF SecretKept, queueVars
  <2>1. CASE b = a BY <1>2, <1>7, <2>1
  <2>2. CASE b # a
    <3>1. Grant(b) \in Messages /\ Grant(b) # Grant(a) BY <1>4, <2>2, MessageIds
    <3>2. table'[Grant(b)] = table[Grant(b)] BY <1>5, <3>1
    <3> QED BY <1>7, <2>2, <3>2 DEF SecretKept
  <2> QED BY <2>1, <2>2
<1>17. \A b \in Apps, t \in Texts : Right(b, t) => Right(b, t)'
  <2> SUFFICES ASSUME NEW b \in Apps, NEW t \in Texts, Right(b, t) PROVE Right(b, t)' OBVIOUS
  <2>1. CASE b = a BY <1>2, <1>3, <2>1 DEF Right
  <2>2. CASE b # a BY <1>3, <1>7, <2>2 DEF Right
  <2> QED BY <2>1, <2>2
<1>18. sender.text \in Texts BY DEF TypeOK, BusTypeOK, Sender
<1>19. SenderRight' BY <1>3, <1>17, <1>18 DEF SenderRight
<1>20. SecretWorks'
  <2> SUFFICES ASSUME NEW i \in DOMAIN sent, NEW b \in Apps, sent[i].m = Grant(b)
               PROVE  Right(b, sent[i].text)'
    BY <1>3 DEF SecretWorks, Right
  <2>1. Right(b, sent[i].text) BY DEF SecretWorks, Right
  <2>2. sent[i].text \in Texts /\ sent' = sent BY <1>3, SentTyped
  <2> QED BY <1>17, <2>1, <2>2 DEF Right
<1> QED BY <1>8, <1>10, <1>11, <1>12, <1>13, <1>14, <1>15, <1>16, <1>19, <1>20

----------------------------------------------------------------------------
\* The bus and the tables are empty at first.
LEMMA InitSound == Init => Sound
<1> SUFFICES ASSUME Init PROVE Sound OBVIOUS
<1> USE DEF Init, BusInit
<1>1. <<>> \in Seq(Messages) /\ Len(<<>>) = 0 OBVIOUS
<1>2. <<>> \in Seq([m : Messages, text : Texts]) /\ DOMAIN <<>> = {} OBVIOUS
<1>3. Redacted \in Texts BY BusAssumption, SMT DEF Redacted, Texts
<1>4. SenderIdle \in Sender /\ SenderIdle.stage = "idle" BY <1>3 DEF SenderIdle, Sender
<1>5. /\ 0 \in 0..MaxClock /\ 0 \in 0..MaxFault /\ 0 \in 0..MaxStop /\ 0 \in 0..MaxSecret
      /\ 0 \in 0..MaxSaid
  BY BusAssumption, ApplicationAssumption, SMT
<1>6. Len(<<>>) <= QueueSize /\ Len(<<>>) < BatchSize BY <1>1, BusAssumption
<1>7. BusTypeOK BY <1>1, <1>2, <1>3, <1>4, <1>5, <1>6, NoMessageTyped DEF BusTypeOK
<1>8. TypeOK BY <1>3, <1>5, <1>7, IdleTyped DEF TypeOK
<1>9. \A m \in Messages : table[m].status = "none" BY NoMessageTyped
<1>10. Holding BY <1>4 DEF Holding
<1>11. NothingVanishes BY EmptySet DEF NothingVanishes
<1>12. SentRecorded /\ SentOnceUnlessUnsure /\ SecretWorks
  BY <1>2 DEF SentRecorded, SentOnceUnlessUnsure, SecretWorks
<1>13. GrantsApproved BY <1>9, EmptySet, MessageIds DEF GrantsApproved, InTable
<1>14. ReviewHolds BY IdleTyped DEF ReviewHolds
<1>15. SecretKept BY DEF SecretKept
<1>16. SenderRight BY <1>4 DEF SenderRight
<1> QED BY <1>8, <1>10, <1>11, <1>12, <1>13, <1>14, <1>15, <1>16 DEF Sound

\* Nothing happens.
LEMMA StutterSound == ASSUME Sound, UNCHANGED vars PROVE Sound'
<1> USE DEF vars, busVars, appVars, queueVars, tableVars, endVars
<1>1. TypeOK' BY DEF Sound, TypeOK, BusTypeOK
<1>2. ReviewHolds' BY DEF Sound, ReviewHolds
<1> QED BY <1>1, <1>2, Quiet

\* Every step keeps the invariant.
LEMMA StepSound == Sound /\ [Next]_vars => Sound'
<1> SUFFICES ASSUME Sound, [Next]_vars PROVE Sound' OBVIOUS
<1>1. CASE UNCHANGED vars BY <1>1, StutterSound
<1>2. CASE Bus
  <2>1. CASE FlushTimer
    BY <1>2, <2>1, FlushBatchSound DEF FlushTimer, Bus, endVars, Sound, TypeOK, BusTypeOK
  <2>2. CASE Drain
    BY <1>2, <2>2, FlushBatchSound DEF Drain, Bus, endVars
  <2>3. ASSUME NEW m \in Messages, LeaseEnds(m) PROVE Sound'
    BY <1>2, <2>3, LeaseEndsSound DEF Bus
  <2> QED BY <1>2, <2>1, <2>2, <2>3, CollectSound, ClaimSound, SendSound, AckSound, FailSound,
             TickSound, StopSound, StartSound DEF Bus
<1>3. CASE Halt BY <1>3, HaltSound
<1>4. ASSUME NEW m \in Others, Produce(m) PROVE Sound' BY <1>4, ProduceSound
<1>5. ASSUME NEW c \in Said, Say(c) \/ Begin(c) PROVE Sound' BY <1>5, SaySound, BeginSound
<1>6. ASSUME NEW a \in Apps, Create(a) PROVE Sound' BY <1>6, CreateSound
<1>7. CASE Review BY <1>7, ReviewSound
<1>8. CASE Approve BY <1>8, ApproveSound
<1>9. CASE Reject BY <1>9, RejectSound
<1>10. CASE Notify BY <1>10, NotifySound
<1>11. CASE Retry BY <1>11, RetrySound
<1> QED BY <1>1, <1>2, <1>3, <1>4, <1>5, <1>6, <1>7, <1>8, <1>9, <1>10, <1>11 DEF Next

\* The invariant holds in every reachable state of the bus and the applications.
THEOREM SoundAlways == Spec => []Sound
<1>1. Init => Sound BY InitSound
<1>2. Sound /\ [Next]_vars => Sound' BY StepSound
<1> QED BY <1>1, <1>2, PTL DEF Spec

\* Every variable keeps its type; the channel and the batch keep their sizes.
THEOREM TypesAlways == Spec => []TypeOK
<1>1. Sound => TypeOK BY DEF Sound
<1> QED BY <1>1, SoundAlways, PTL

\* The writer loses nothing but with a write that failed or an exit
\* (AsyncDBQueue.run).
THEOREM NothingEverVanishes == Spec => []NothingVanishes
<1>1. Sound => NothingVanishes BY DEF Sound
<1> QED BY <1>1, SoundAlways, PTL

\* Feishu gets nothing twice whose acknowledgement was recorded (runOutboundLoop).
THEOREM SentOnceAlways == Spec => []SentOnceUnlessUnsure
<1>1. Sound => SentOnceUnlessUnsure BY DEF Sound
<1> QED BY <1>1, SoundAlways, PTL

\* The secret an applicant is sent is that of his key, however often the approval
\* was repeated or failed (approveKeyApplication).
THEOREM SecretAlwaysWorks == Spec => []SecretWorks
<1>1. Sound => SecretWorks BY DEF Sound
<1> QED BY <1>1, SoundAlways, PTL

============================================================================
