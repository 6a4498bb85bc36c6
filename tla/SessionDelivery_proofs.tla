----------------------- MODULE SessionDelivery_proofs -----------------------
(***************************************************************************)
(* Proofs about SessionDelivery, for every number of deliveries, attempts, *)
(* connections and restarts: Consistent is an inductive invariant, what it *)
(* implies, that the hub and the helper keep DeliveryPromise, and (with a  *)
(* second inductive invariant, InOrder) the order of arrival.              *)
(***************************************************************************)
EXTENDS SessionDelivery, SequenceTheorems, TLAPS

USE TableAssumption, InboxAssumption, DeliveryAssumption

-----------------------------------------------------------------------------
(* Frames in a buffer *)

\* Appending a frame adds just that frame to what is buffered.
LEMMA AppendElems ==
  ASSUME NEW S, NEW s \in Seq(S), NEW e \in S
  PROVE  Append(s, e) \in Seq(S) /\ Elems(Append(s, e)) = Elems(s) \union {e}
<1>1. Append(s, e) \in Seq(S)
  OBVIOUS
<1>2. /\ Len(Append(s, e)) = Len(s) + 1 /\ Len(s) \in Nat
      /\ \A i \in 1..Len(s) : Append(s, e)[i] = s[i]
      /\ Append(s, e)[Len(s) + 1] = e
  OBVIOUS
<1>3. DOMAIN Append(s, e) = 1..(Len(s) + 1) /\ DOMAIN s = 1..Len(s)
  BY <1>1, <1>2, LenProperties
<1>4. Elems(Append(s, e)) \subseteq Elems(s) \union {e}
  BY <1>2, <1>3 DEF Elems
<1>5. Elems(s) \union {e} \subseteq Elems(Append(s, e))
  BY <1>2, <1>3 DEF Elems
<1> QED BY <1>1, <1>4, <1>5

\* Taking the first frame adds none.
LEMMA TailElems ==
  ASSUME NEW S, NEW s \in Seq(S), s # <<>>
  PROVE  /\ Head(s) \in S /\ Tail(s) \in Seq(S)
         /\ Head(s) \in Elems(s) /\ Elems(Tail(s)) \subseteq Elems(s)
<1>1. /\ Head(s) \in S /\ Tail(s) \in Seq(S) /\ Len(Tail(s)) = Len(s) - 1
      /\ \A i \in 1..Len(Tail(s)) : Tail(s)[i] = s[i + 1]
  BY HeadTailProperties
<1>2. Len(s) \in Nat \ {0} /\ DOMAIN s = 1..Len(s) /\ DOMAIN Tail(s) = 1..(Len(s) - 1)
  BY <1>1, LenProperties, EmptySeq
<1>3. Head(s) = s[1]
  OBVIOUS
<1>4. Head(s) \in Elems(s)
  BY <1>2, <1>3 DEF Elems
<1>5. ASSUME NEW i \in 1..(Len(s) - 1) PROVE Tail(s)[i] \in Elems(s)
  <2>1. Tail(s)[i] = s[i + 1] /\ i + 1 \in DOMAIN s
    BY <1>1, <1>2
  <2> QED BY <2>1 DEF Elems
<1>6. Elems(Tail(s)) \subseteq Elems(s)
  BY <1>2, <1>5 DEF Elems
<1> QED BY <1>1, <1>4, <1>6

\* Nor does losing the last ones.
LEMMA CutElems ==
  ASSUME NEW S, NEW s \in Seq(S), NEW n \in 0..Len(s)
  PROVE  SubSeq(s, 1, n) \in Seq(S) /\ Elems(SubSeq(s, 1, n)) \subseteq Elems(s)
<1>1. Len(s) \in Nat /\ DOMAIN s = 1..Len(s) /\ \A i \in 1..n : s[i] \in S
  BY LenProperties
<1>2. /\ SubSeq(s, 1, n) \in Seq(S)
      /\ Len(SubSeq(s, 1, n)) = n
      /\ \A i \in 1..n : SubSeq(s, 1, n)[i] = s[i]
  BY <1>1, SubSeqProperties, Z3
<1>3. DOMAIN SubSeq(s, 1, n) = 1..n
  BY <1>2, LenProperties
<1> QED BY <1>1, <1>2, <1>3 DEF Elems

LEMMA EmptyElems == Elems(<<>>) = {} /\ Elems(<<Cap>>) = {Cap}
BY DEF Elems

-----------------------------------------------------------------------------
(* The delivery table *)

Table == [Ids -> Row]
Outcome(r) == IF r.state \in Open THEN "open" ELSE r.state

\* Of the deliveries in table t, table u has given up some that were open and
\* sent too often or too old, and no outcome has changed otherwise.
GivesUp(t, u) ==
  \A d \in Ids :
    \/ Outcome(u[d]) = Outcome(t[d])
    \/ /\ t[d].state \in Open /\ u[d].state = "dead"
       /\ t[d].attempts >= MaxAttempts \/ t[d].old

LEMMA RowFields ==
  ASSUME NEW r \in Row
  PROVE  /\ r.state \in {"none"} \union Open \union Terminal
         /\ r.attempts \in Nat /\ r.wait \in Nat /\ r.old \in BOOLEAN
BY DEF Row

LEMMA RowExcept ==
  ASSUME NEW r \in Row, NEW v \in {"none"} \union Open \union Terminal, NEW n \in Nat, NEW w \in Nat
  PROVE  /\ [r EXCEPT !.state = v] \in Row
         /\ [r EXCEPT !.wait = w] \in Row /\ [r EXCEPT !.wait = w].state = r.state
         /\ [r EXCEPT !.state = v, !.wait = w] \in Row
         /\ [r EXCEPT !.state = v, !.attempts = n, !.wait = w] \in Row
         /\ [r EXCEPT !.state = v, !.wait = w, !.attempts = n] \in Row
BY DEF Row

LEMMA LeaseType == ASSUME NEW n \in Nat PROVE Lease(n) \in Nat
BY DEF Lease

LEMMA SweptProps ==
  ASSUME NEW t \in Table
  PROVE  Swept(t) \in Table /\ GivesUp(t, Swept(t))
<1>1. Swept(t) \in Table
  BY RowExcept DEF Swept, Table, Terminal
<1>2. GivesUp(t, Swept(t))
  BY RowFields DEF Swept, Table, GivesUp, Outcome, Open, InFlight, Row
<1> QED BY <1>1, <1>2

\* What is claimed is a delivery that the sweep has left open.
LEMMA CandidateProps ==
  ASSUME NEW t \in Table, NEW d \in Candidates(t)
  PROVE  d \in Ids /\ Swept(t)[d].state \in Open
BY DEF Candidates, Oldest, NeverSent, Due

LEMMA ClaimedProps ==
  ASSUME NEW t \in Table, NEW d \in Candidates(t)
  PROVE  /\ Claimed(t, d) \in Table /\ GivesUp(t, Claimed(t, d))
         /\ Claimed(t, d)[d].state = "sent"
<1>1. d \in Ids /\ Swept(t)[d].state \in Open /\ Swept(t) \in Table /\ GivesUp(t, Swept(t))
  BY CandidateProps, SweptProps
<1>2. Lease(t[d].attempts) \in Nat
  BY <1>1, LeaseType, RowFields DEF Table
<1> DEFINE r == [Swept(t)[d] EXCEPT !.state = "sent", !.attempts = @ + 1,
                                    !.wait = Lease(t[d].attempts)]
<1>3. Claimed(t, d) = [Swept(t) EXCEPT ![d] = r]
  BY <1>1 DEF Claimed, Table, Row
<1>4. r \in Row
  <2> DEFINE q == Swept(t)[d]
  <2>1. q \in Row
    BY <1>1 DEF Table
  <2> HIDE DEF q
  <2>2. q.attempts + 1 \in Nat
    BY <2>1, RowFields
  <2>3. [q EXCEPT !.state = "sent", !.attempts = q.attempts + 1,
                  !.wait = Lease(t[d].attempts)] \in Row
    BY <1>2, <2>1, <2>2 DEF Row, Open, InFlight
  <2> QED BY <2>3 DEF q
<1>5. r.state = "sent"
  BY <1>1 DEF Table, Row
<1> HIDE DEF r
<1>6. Claimed(t, d) \in Table /\ Claimed(t, d)[d] = r
      /\ \A e \in Ids \ {d} : Claimed(t, d)[e] = Swept(t)[e]
  BY <1>1, <1>3, <1>4 DEF Table
<1>7. Outcome(r) = "open" /\ Outcome(t[d]) = "open"
  BY <1>1, <1>5, RowFields DEF Outcome, Open, InFlight, GivesUp, Table, Terminal
<1> QED BY <1>1, <1>5, <1>6, <1>7 DEF GivesUp

\* An update touches one delivery, and none that has ended.
LEMMA UpdatedProps ==
  ASSUME NEW t \in Table, NEW d \in Ids, NEW v \in Open \union Terminal, NEW w \in Nat
  PROVE  /\ Updated(t, d, v, w) \in Table
         /\ \A e \in Ids : \/ Outcome(Updated(t, d, v, w)[e]) = Outcome(t[e])
                           \/ e = d /\ t[d].state \in Open /\ Updated(t, d, v, w)[d].state = v
<1> DEFINE r == [t[d] EXCEPT !.state = v, !.wait = w]
<1>1. CASE t[d].state \in Open
  <2>1. Updated(t, d, v, w) = [t EXCEPT ![d] = r]
    BY <1>1 DEF Updated, Table, Row
  <2>2. r \in Row /\ r.state = v
    BY DEF Table, Row
  <2> HIDE DEF r
  <2> QED BY <1>1, <2>1, <2>2 DEF Table
<1>2. CASE t[d].state \notin Open
  BY <1>2 DEF Updated
<1> QED BY <1>1, <1>2

LEMMA DeferredProps ==
  ASSUME NEW t \in Table, NEW d \in Ids, NEW w \in Nat
  PROVE  /\ Deferred(t, d, w) \in Table
         /\ \A e \in Ids : Outcome(Deferred(t, d, w)[e]) = Outcome(t[e])
<1> DEFINE r == [t[d] EXCEPT !.state = "queued", !.wait = w,
                             !.attempts = IF @ > 0 THEN @ - 1 ELSE @]
<1>1. CASE t[d].state \in Open
  <2>1. Deferred(t, d, w) = [t EXCEPT ![d] = r]
    BY <1>1 DEF Deferred, Table, Row
  <2>2. r \in Row /\ r.state = "queued"
    <3>1. t[d] \in Row /\ (IF t[d].attempts > 0 THEN t[d].attempts - 1 ELSE t[d].attempts) \in Nat
      BY RowFields DEF Table
    <3> QED BY <3>1, RowExcept DEF Open, Row
  <2> HIDE DEF r
  <2> QED BY <1>1, <2>1, <2>2 DEF Table, Outcome, Open
<1>2. CASE t[d].state \notin Open
  BY <1>2 DEF Deferred
<1> QED BY <1>1, <1>2

\* A new delivery is open and has not been sent; nothing else changes.
LEMMA InsertedProps ==
  ASSUME NEW t \in Table, NEW d \in Ids
  PROVE  /\ Inserted(t, d) \in Table /\ Inserted(t, d)[d].state # "none"
         /\ \A e \in Ids \ {d} : Inserted(t, d)[e] = t[e]
         /\ \/ Inserted(t, d)[d] = t[d]
            \/ t[d].state = "none" /\ Inserted(t, d)[d] = [NoRow EXCEPT !.state = "queued"]
<1>1. [NoRow EXCEPT !.state = "queued"] \in Row
  BY DEF NoRow, Row, Open
<1>2. [NoRow EXCEPT !.state = "queued"].state = "queued"
  BY DEF NoRow
<1> QED BY <1>1, <1>2 DEF Inserted, Table

LEMMA TickedProps ==
  ASSUME NEW t \in Table
  PROVE  Ticked(t) \in Table /\ \A d \in Ids : Ticked(t)[d].state = t[d].state
<1>1. \A d \in Ids : t[d] \in Row /\ Dec(t[d].wait) \in Nat
  BY RowFields DEF Table, Dec
<1>2. \A d \in Ids : /\ [t[d] EXCEPT !.wait = Dec(@)] \in Row
                     /\ [t[d] EXCEPT !.wait = Dec(@)].state = t[d].state
  BY <1>1, RowExcept, RowFields
<1> QED BY <1>2 DEF Ticked, Table

-----------------------------------------------------------------------------
(* Types *)

Frames == Ack \union {Cap}

LEMMA DrainProps ==
  ASSUME TypeOK, NEW t \in Table, NEW tm \in [Conns -> SUBSET Nat], NEW c \in Conns,
         Drain(c, t, tm)
  PROVE  /\ dlv' \in Table /\ GivesUp(t, dlv')
         /\ timers' \in [Conns -> SUBSET Nat]
         /\ down' \in [Conns -> Seq(Ids)] /\ disturbed' \subseteq Ids
         /\ \A b \in Conns : \A d \in Elems(down'[b]) : d \in Elems(down[b]) \/ dlv'[d].state = "sent"
<1>1. down \in [Conns -> Seq(Ids)] /\ disturbed \subseteq Ids
  BY DEF TypeOK
<1>2. CASE dlv' = t /\ timers' = tm /\ UNCHANGED <<down, disturbed>>
  BY <1>1, <1>2 DEF GivesUp
<1>3. CASE \E d \in Candidates(t) :
             /\ dlv' = Claimed(t, d)
             /\ timers' = [tm EXCEPT ![c] = @ \union {Lease(t[d].attempts)}]
             /\ \/ down' = [down EXCEPT ![c] = Append(@, d)] /\ UNCHANGED disturbed
                \/ disturbed' = disturbed \union {d} /\ UNCHANGED down
  <2>1. PICK d \in Candidates(t) :
             /\ dlv' = Claimed(t, d)
             /\ timers' = [tm EXCEPT ![c] = @ \union {Lease(t[d].attempts)}]
             /\ \/ down' = [down EXCEPT ![c] = Append(@, d)] /\ UNCHANGED disturbed
                \/ disturbed' = disturbed \union {d} /\ UNCHANGED down
    BY <1>3
  <2>2. d \in Ids /\ Lease(t[d].attempts) \in Nat
    BY CandidateProps, LeaseType, RowFields DEF Table
  <2>3. dlv' \in Table /\ GivesUp(t, dlv') /\ dlv'[d].state = "sent"
    BY <2>1, ClaimedProps
  <2>4. Append(down[c], d) \in Seq(Ids) /\ Elems(Append(down[c], d)) = Elems(down[c]) \union {d}
    BY <1>1, <2>2, AppendElems
  <2>5. timers' \in [Conns -> SUBSET Nat]
    BY <2>1, <2>2
  <2>6. /\ down' \in [Conns -> Seq(Ids)] /\ disturbed' \subseteq Ids
        /\ \A b \in Conns : Elems(down'[b]) \subseteq Elems(down[b]) \union {d}
    BY <1>1, <2>1, <2>2, <2>4
  <2> QED BY <2>3, <2>5, <2>6
<1>4. CASE \E d \in Candidates(t) :
             /\ dlv' = Updated(Claimed(t, d), d, "queued", WriteErrorDelay)
             /\ timers' = tm /\ disturbed' = disturbed \union {d} /\ UNCHANGED down
  <2>1. PICK d \in Candidates(t) :
             /\ dlv' = Updated(Claimed(t, d), d, "queued", WriteErrorDelay)
             /\ timers' = tm /\ disturbed' = disturbed \union {d} /\ UNCHANGED down
    BY <1>4
  <2>2. d \in Ids /\ Claimed(t, d) \in Table /\ GivesUp(t, Claimed(t, d))
    BY CandidateProps, ClaimedProps
  <2>3. WriteErrorDelay \in Nat /\ "queued" \in Open
    BY DEF Open
  <2>4. dlv' \in Table /\ \A e \in Ids : Outcome(dlv'[e]) = Outcome(Claimed(t, d)[e])
    <3> DEFINE u == Claimed(t, d)
               w == Updated(u, d, "queued", WriteErrorDelay)
    <3>0. u \in Table /\ "queued" \in Open \union Terminal
      BY <2>2, <2>3
    <3> HIDE DEF u
    <3>4. /\ w \in Table
          /\ \A e \in Ids : \/ Outcome(w[e]) = Outcome(u[e])
                            \/ e = d /\ u[d].state \in Open /\ w[d].state = "queued"
      BY <2>2, <2>3, <3>0, UpdatedProps
    <3>5. dlv' = w
      BY <2>1 DEF u
    <3> HIDE DEF w
    <3>1. /\ dlv' \in Table
          /\ \A e \in Ids : \/ Outcome(dlv'[e]) = Outcome(u[e])
                            \/ u[e].state \in Open /\ dlv'[e].state = "queued"
      BY <3>4, <3>5
    <3>2. \A e \in Ids : u[e].state \in Open /\ dlv'[e].state = "queued"
                          => Outcome(dlv'[e]) = Outcome(u[e])
      BY <2>3 DEF Outcome
    <3>3. \A e \in Ids : Outcome(dlv'[e]) = Outcome(u[e])
      BY <3>1, <3>2
    <3> QED BY <3>1, <3>3 DEF u
  <2>5. \A e \in Ids : Claimed(t, d)[e].state = "dead" => dlv'[e].state = "dead"
    BY <2>2, <2>4, RowFields DEF Outcome, Table, Open, InFlight
  <2>6. GivesUp(t, dlv')
    BY <2>2, <2>4, <2>5 DEF GivesUp
  <2> QED BY <1>1, <2>1, <2>2, <2>4, <2>6
<1> QED BY <1>2, <1>3, <1>4 DEF Drain

\* A processed ack is the only one that ends a delivery.
LEMMA AfterAckProps ==
  ASSUME dlv \in Table, NEW a \in Ack
  PROVE  /\ AfterAck(a) \in Table /\ DrainDelay(a.kind) \in Nat
         /\ \A d \in Ids : \/ Outcome(AfterAck(a)[d]) = Outcome(dlv[d])
                           \/ /\ d = a.id /\ a.kind = "processed"
                              /\ dlv[d].state \in Open /\ AfterAck(a)[d].state = "processed"
<1>1. a.id \in Ids /\ a.kind \in AckKind
  BY DEF Ack
<1>2. /\ {"processed", "queued", "delivered"} \subseteq Open \union Terminal
      /\ {"queued", "delivered"} \subseteq Open
      /\ {0, BusyDelay, RetryDelay, DeliveredDelay} \subseteq Nat
  BY DEF Open, InFlight, Terminal
<1>3. /\ a.kind = "processed" => /\ AfterAck(a) = Updated(dlv, a.id, "processed", 0)
                                 /\ DrainDelay(a.kind) = 0
      /\ a.kind = "busy" => /\ AfterAck(a) = Deferred(dlv, a.id, BusyDelay)
                            /\ DrainDelay(a.kind) = BusyDelay
      /\ a.kind = "failed" => /\ AfterAck(a) = Updated(dlv, a.id, "queued", RetryDelay)
                              /\ DrainDelay(a.kind) = RetryDelay
      /\ a.kind = "delivered" => /\ AfterAck(a) = Updated(dlv, a.id, "delivered", DeliveredDelay)
                                 /\ DrainDelay(a.kind) = DeliveredDelay
  BY DEF AfterAck, DrainDelay
<1> DEFINE Ends(u, v) ==
      /\ u \in Table
      /\ \A d \in Ids : \/ Outcome(u[d]) = Outcome(dlv[d])
                        \/ d = a.id /\ dlv[d].state \in Open /\ u[d].state = v
<1>4. \A v \in Open \union Terminal : \A w \in Nat : Ends(Updated(dlv, a.id, v, w), v)
  BY SMTT(40), <1>1, UpdatedProps
<1>5. \A u, v : v \in Open /\ Ends(u, v)
                  => u \in Table /\ \A d \in Ids : Outcome(u[d]) = Outcome(dlv[d])
  BY DEF Outcome
<1>6. CASE a.kind = "processed"
  <2>1. Ends(Updated(dlv, a.id, "processed", 0), "processed")
    BY <1>2, <1>4
  <2> QED BY <1>2, <1>3, <1>6, <2>1
<1>7. CASE a.kind = "busy"
  <2>1. /\ Deferred(dlv, a.id, BusyDelay) \in Table
        /\ \A d \in Ids : Outcome(Deferred(dlv, a.id, BusyDelay)[d]) = Outcome(dlv[d])
    BY ZenonT(60), <1>1, <1>2, DeferredProps
  <2> QED BY <1>2, <1>3, <1>7, <2>1
<1>8. CASE a.kind \in {"failed", "delivered"}
  <2>1. /\ Ends(Updated(dlv, a.id, "queued", RetryDelay), "queued")
        /\ Ends(Updated(dlv, a.id, "delivered", DeliveredDelay), "delivered")
    BY <1>2, <1>4
  <2> HIDE DEF Ends
  <2> QED BY <1>2, <1>3, <1>5, <1>8, <2>1
<1> QED BY <1>1, <1>6, <1>7, <1>8 DEF AckKind

LoopStates == [pc : {"off", "poll", "got", "reply", "sorry", "raised", "done", "dead"},
               id : Ids \union {NoId}]

LEMMA LoopFacts ==
  /\ \A pc \in {"off", "poll", "got", "reply", "sorry", "raised", "done", "dead"} :
       LoopAt(pc) \in LoopStates /\ LoopAt(pc).pc = pc
  /\ \A r \in LoopStates : \A pc \in {"reply", "done"} :
       /\ [r EXCEPT !.pc = pc] \in LoopStates
       /\ [r EXCEPT !.pc = pc].pc = pc /\ [r EXCEPT !.pc = pc].id = r.id
BY DEF LoopAt, LoopStates

LEMMA WriteProps ==
  ASSUME TypeOK, NEW c \in Conns, NEW f \in Frames, Write(c, f)
  PROVE  /\ up' \in [Conns -> Seq(Frames)]
         /\ \A b \in Conns : Elems(up'[b]) \subseteq Elems(up[b]) \union {f}
<1>1. up \in [Conns -> Seq(Frames)]
  BY DEF TypeOK, Frames
<1>2. Append(up[c], f) \in Seq(Frames) /\ Elems(Append(up[c], f)) = Elems(up[c]) \union {f}
  BY <1>1, AppendElems
<1> QED BY <1>1, <1>2 DEF Write

LEMMA AckFacts ==
  ASSUME NEW kind \in AckKind, NEW d \in Ids
  PROVE  /\ AckOf(kind, d) \in Ack /\ AckOf(kind, d) \in Frames
         /\ AckOf(kind, d).kind = kind /\ AckOf(kind, d).id = d
BY DEF AckOf, Ack, Frames

LEMMA SendAckProps ==
  ASSUME TypeOK, NEW c \in Conns, NEW kind \in AckKind, loop[c].id \in Ids, SendAck(c, kind)
  PROVE  /\ up' \in [Conns -> Seq(Frames)]
         /\ \A b \in Conns : Elems(up'[b]) \subseteq Elems(up[b]) \union {AckOf(kind, loop[c].id)}
         /\ \E pc \in {"poll", "dead"} : loop' = [loop EXCEPT ![c] = LoopAt(pc)]
         /\ peer' \in Conns \union {NoConn} /\ ended' \in BOOLEAN
         /\ UNCHANGED <<hubVars, conn, current, down, recvAck, injected, doubts, answered, disturbed,
                        crashVars>>
<1>1. CASE Raises(c)
  BY <1>1 DEF SendAck, TypeOK, Frames
<1>2. CASE ~Raises(c)
  <2>1. Write(c, AckOf(kind, loop[c].id))
    BY <1>2 DEF SendAck
  <2>2. /\ up' \in [Conns -> Seq(Frames)]
        /\ \A b \in Conns : Elems(up'[b]) \subseteq Elems(up[b]) \union {AckOf(kind, loop[c].id)}
    BY <2>1, WriteProps, AckFacts
  <2> QED BY <1>2, <2>2 DEF SendAck, TypeOK
<1> QED BY <1>1, <1>2

LEMMA CutProps ==
  ASSUME TypeOK, peer \in Conns, PeerCut
  PROVE  /\ up' \in [Conns -> Seq(Frames)] /\ \A c \in Conns : Elems(up'[c]) \subseteq Elems(up[c])
         /\ down' \in [Conns -> Seq(Ids)] /\ \A c \in Conns : Elems(down'[c]) \subseteq Elems(down[c])
         /\ disturbed' \subseteq Ids
<1>1. up \in [Conns -> Seq(Frames)] /\ down \in [Conns -> Seq(Ids)] /\ disturbed \subseteq Ids
  BY DEF TypeOK, Frames
<1>2. PICK n \in 0..Len(up[peer]) : up' = [up EXCEPT ![peer] = SubSeq(@, 1, n)]
  BY DEF PeerCut
<1>3. SubSeq(up[peer], 1, n) \in Seq(Frames) /\ Elems(SubSeq(up[peer], 1, n)) \subseteq Elems(up[peer])
  BY <1>1, CutElems
<1>4. up' \in [Conns -> Seq(Frames)] /\ \A c \in Conns : Elems(up'[c]) \subseteq Elems(up[c])
  BY <1>1, <1>2, <1>3
<1>5. <<>> \in Seq(Ids) /\ Elems(<<>>) = {}
  BY EmptyElems
<1>6. down' \in [Conns -> Seq(Ids)] /\ \A c \in Conns : Elems(down'[c]) \subseteq Elems(down[c])
  BY <1>1, <1>5 DEF PeerCut
<1>7. disturbed' \subseteq Ids
  BY <1>1, LenProperties DEF PeerCut, Elems
<1> QED BY <1>4, <1>6, <1>7

\* What a step may leave behind of frames on their way: no action of the hub or
\* of the environment invents an ack.
LEMMA HubStepTypes ==
  ASSUME TypeOK, KnownToHub, HubStep
  PROVE  /\ TypeOK' /\ UNCHANGED <<helperVars, crashVars>>
         /\ \A c \in Conns : Elems(up'[c]) \subseteq Elems(up[c])
<1> USE DEF hubVars, linkVars, helperVars, inboxVars, crashVars
<1>0. /\ dlv \in Table /\ created \in 0..MaxMsg /\ timers \in [Conns -> SUBSET Nat]
      /\ current \in Conns \union {NoConn} /\ cap \subseteq Conns
      /\ up \in [Conns -> Seq(Frames)] /\ down \in [Conns -> Seq(Ids)]
  BY DEF TypeOK, Table, Frames
<1>1. CASE Route
  <2>1. current \in Conns /\ created + 1 \in Ids /\ created' \in 0..MaxMsg
    BY <1>0, <1>1 DEF Route, Ids
  <2>2. Inserted(dlv, created + 1) \in Table
    BY <1>0, <2>1, InsertedProps
  <2>3. Drain(current, Inserted(dlv, created + 1), timers)
    BY <1>1 DEF Route
  <2>4. /\ dlv' \in Table /\ timers' \in [Conns -> SUBSET Nat]
        /\ down' \in [Conns -> Seq(Ids)] /\ disturbed' \subseteq Ids
    BY <1>0, <2>1, <2>2, <2>3, DrainProps
  <2> QED BY <1>1, <2>1, <2>4 DEF Route, TypeOK, InboxTypeOK, Table
<1>2. CASE WorkerAck
  BY <1>2 DEF WorkerAck, TypeOK, InboxTypeOK
<1>3. CASE Redo
  <2>1. created \in Ids
    BY <1>0, <1>3 DEF Redo, Ids, KnownToHub
  <2>2. CASE current \in cap /\ Drain(current, Inserted(dlv, created), timers)
             /\ worker' = "routed"
    <3>1. Inserted(dlv, created) \in Table /\ current \in Conns
      BY <1>0, <2>1, <2>2, InsertedProps
    <3>2. /\ dlv' \in Table /\ timers' \in [Conns -> SUBSET Nat]
          /\ down' \in [Conns -> Seq(Ids)] /\ disturbed' \subseteq Ids
      BY <1>0, <2>2, <3>1, DrainProps
    <3> QED BY <1>3, <2>2, <3>2 DEF Redo, TypeOK, InboxTypeOK, Table
  <2>3. CASE UNCHANGED <<dlv, timers, down, disturbed>> /\ worker' = "idle"
    BY <1>3, <2>1, <2>3 DEF Redo, TypeOK, InboxTypeOK
  <2> QED BY <1>3, <2>2, <2>3 DEF Redo
<1>4. ASSUME NEW c \in Conns, TimerFires(c) PROVE TypeOK' /\ UNCHANGED <<helperVars, crashVars, up>>
  <2>1. [timers EXCEPT ![c] = @ \ {0}] \in [Conns -> SUBSET Nat]
    BY <1>0
  <2>2. /\ dlv' \in Table /\ timers' \in [Conns -> SUBSET Nat]
        /\ down' \in [Conns -> Seq(Ids)] /\ disturbed' \subseteq Ids
    BY <1>0, <1>4, <2>1, DrainProps DEF TimerFires
  <2> QED BY <1>4, <2>2 DEF TimerFires, TypeOK, InboxTypeOK, Table
<1>5. ASSUME NEW c \in Conns, up[c] # <<>>, up' = [up EXCEPT ![c] = Tail(@)]
      PROVE  /\ up' \in [Conns -> Seq(Frames)] /\ Head(up[c]) \in Frames
             /\ \A b \in Conns : Elems(up'[b]) \subseteq Elems(up[b])
  <2>1. /\ Head(up[c]) \in Frames /\ Tail(up[c]) \in Seq(Frames)
        /\ Elems(Tail(up[c])) \subseteq Elems(up[c])
    BY <1>0, <1>5, TailElems
  <2> QED BY <1>0, <1>5, <2>1
<1>6. ASSUME NEW c \in Conns, HandleCapability(c)
      PROVE  /\ TypeOK' /\ UNCHANGED <<helperVars, crashVars>>
             /\ \A b \in Conns : Elems(up'[b]) \subseteq Elems(up[b])
  <2>1. up[c] # <<>> /\ up' = [up EXCEPT ![c] = Tail(@)]
    BY <1>6 DEF HandleCapability, NextFrame
  <2>2. up' \in [Conns -> Seq(Frames)] /\ \A b \in Conns : Elems(up'[b]) \subseteq Elems(up[b])
    BY <1>5, <2>1
  <2>3. timers' \in [Conns -> SUBSET Nat] /\ cap' \subseteq Conns
    BY <1>0, <1>6 DEF HandleCapability, Armed
  <2> QED BY <1>6, <2>2, <2>3 DEF HandleCapability, TypeOK, InboxTypeOK, Frames
<1>7. ASSUME NEW c \in Conns, HandleDeliveryAck(c)
      PROVE  /\ TypeOK' /\ UNCHANGED <<helperVars, crashVars>>
             /\ \A b \in Conns : Elems(up'[b]) \subseteq Elems(up[b])
  <2>1. up[c] # <<>> /\ up' = [up EXCEPT ![c] = Tail(@)] /\ Head(up[c]) # Cap
    BY <1>7 DEF HandleDeliveryAck, NextFrame
  <2>2. /\ up' \in [Conns -> Seq(Frames)] /\ \A b \in Conns : Elems(up'[b]) \subseteq Elems(up[b])
        /\ Head(up[c]) \in Ack
    BY <1>5, <2>1 DEF Frames
  <2>3. AfterAck(Head(up[c])) \in Table /\ DrainDelay(Head(up[c]).kind) \in Nat
    BY <1>0, <2>2, AfterAckProps
  <2>4. /\ dlv' \in {dlv, AfterAck(Head(up[c]))}
        /\ timers' \in {timers, Armed(c, DrainDelay(Head(up[c]).kind))}
        /\ worker' \in {worker, "idle"}
    BY <1>7 DEF HandleDeliveryAck
  <2>5. Armed(c, DrainDelay(Head(up[c]).kind)) \in [Conns -> SUBSET Nat]
    BY <1>0, <2>3 DEF Armed
  <2>6. worker' \in {"idle", "routed", "redo"}
    BY <2>4 DEF TypeOK
  <2>7. dlv' \in Table /\ timers' \in [Conns -> SUBSET Nat]
    BY <1>0, <2>3, <2>4, <2>5
  <2> QED BY <1>7, <2>2, <2>6, <2>7 DEF HandleDeliveryAck, TypeOK, InboxTypeOK, Table, Frames
<1>8. CASE Route \/ WorkerAck \/ Redo
  BY <1>1, <1>2, <1>3, <1>8 DEF Route, WorkerAck, Redo
<1> QED BY <1>4, <1>6, <1>7, <1>8 DEF HubStep

LEMMA EnvStepTypes ==
  ASSUME TypeOK, EnvStep
  PROVE  /\ TypeOK' /\ UNCHANGED <<injected, doubts, answered, created>> /\ restarts <= restarts'
         /\ worker' # "idle" => worker # "idle"
         /\ \A c \in Conns : /\ Elems(up'[c]) \subseteq Elems(up[c]) \union {Cap}
                             /\ Elems(down'[c]) \subseteq Elems(down[c])
         /\ \A d \in Ids : dlv'[d].state = dlv[d].state
<1> USE DEF hubVars, linkVars, helperVars, inboxVars, crashVars
<1>0. /\ dlv \in Table /\ timers \in [Conns -> SUBSET Nat] /\ disturbed \subseteq Ids
      /\ current \in Conns \union {NoConn} /\ peer \in Conns \union {NoConn}
      /\ conn \in [Conns -> {"new", "open", "gone"}] /\ loop \in [Conns -> LoopStates]
      /\ up \in [Conns -> Seq(Frames)] /\ down \in [Conns -> Seq(Ids)]
      /\ restarts \in 0..MaxRestart /\ hubRestarts \in 0..MaxHubRestart
  BY DEF TypeOK, Table, Frames, LoopStates
<1>a. /\ <<>> \in Seq(Frames) /\ <<>> \in Seq(Ids) /\ <<Cap>> \in Seq(Frames)
      /\ Elems(<<>>) = {} /\ Elems(<<Cap>>) = {Cap}
  BY EmptyElems DEF Frames
<1>b. \A c \in Conns : Elems(down[c]) \subseteq Ids
  BY <1>0, LenProperties DEF Elems
<1>1. ASSUME NEW c \in Conns, Connect(c)
      PROVE  /\ TypeOK' /\ UNCHANGED <<injected, doubts, answered, created, worker, restarts, dlv, down>>
             /\ \A b \in Conns : Elems(up'[b]) \subseteq Elems(up[b]) \union {Cap}
  <2>1. up' \in [Conns -> Seq(Frames)] /\ \A b \in Conns : Elems(up'[b]) \subseteq Elems(up[b]) \union {Cap}
    BY <1>0, <1>a, <1>1 DEF Connect
  <2>2. conn' \in [Conns -> {"new", "open", "gone"}] /\ loop' \in [Conns -> LoopStates]
    BY <1>0, <1>1, LoopFacts DEF Connect
  <2> QED BY <1>1, <2>1, <2>2 DEF Connect, TypeOK, InboxTypeOK, Frames, LoopStates
<1>2. CASE HelperLoses
  <2>1. peer \in Conns /\ PeerCut
    BY <1>0, <1>2 DEF HelperLoses
  <2>2. NoAck \in Ack \union {NoAck}
    OBVIOUS
  <2>3. /\ up' \in [Conns -> Seq(Frames)] /\ \A c \in Conns : Elems(up'[c]) \subseteq Elems(up[c])
        /\ down' \in [Conns -> Seq(Ids)] /\ \A c \in Conns : Elems(down'[c]) \subseteq Elems(down[c])
        /\ disturbed' \subseteq Ids
    BY <2>1, CutProps
  <2>7. TypeOK'
    BY <1>0, <1>2, <2>2, <2>3 DEF HelperLoses, TypeOK, InboxTypeOK, Frames
  <2>8. /\ UNCHANGED <<injected, doubts, answered, created>> /\ restarts <= restarts'
        /\ worker' # "idle" => worker # "idle"
    BY <1>0, <1>2 DEF HelperLoses
  <2>9. \A d \in Ids : dlv'[d].state = dlv[d].state
    BY <1>2 DEF HelperLoses
  <2> QED BY <2>3, <2>7, <2>8, <2>9
<1>3. CASE HelperEnds
  <2>1. /\ UNCHANGED <<dlv, created, worker, cap, timers, conn, current, down, up, peer, inbox, arrival,
                       recvAck, loop, busyAcked, injected, doubts, answered, disturbed, restarts, hubRestarts>>
        /\ ended' = TRUE
    BY <1>3 DEF HelperEnds, hubVars, helperVars, inboxVars, crashVars
  <2>2. TypeOK'
    BY <2>1 DEF TypeOK, InboxTypeOK
  <2>3. restarts <= restarts'
    BY <1>0, <2>1
  <2> QED BY <2>1, <2>2, <2>3
<1>4. ASSUME NEW c \in Conns, HubLoses(c)
      PROVE  /\ TypeOK' /\ UNCHANGED <<injected, doubts, answered, created, worker, restarts, dlv>>
             /\ \A b \in Conns : /\ Elems(up'[b]) \subseteq Elems(up[b])
                                 /\ Elems(down'[b]) \subseteq Elems(down[b])
  <2>1. up' \in [Conns -> Seq(Frames)] /\ \A b \in Conns : Elems(up'[b]) \subseteq Elems(up[b])
    BY <1>0, <1>a, <1>4 DEF HubLoses
  <2>2. PICK n \in 0..Len(down[c]) :
          /\ down' = [down EXCEPT ![c] = SubSeq(@, 1, n)]
          /\ disturbed' = disturbed \union {down[c][i] : i \in (n+1)..Len(down[c])}
    BY <1>4 DEF HubLoses
  <2>3. SubSeq(down[c], 1, n) \in Seq(Ids) /\ Elems(SubSeq(down[c], 1, n)) \subseteq Elems(down[c])
    BY <1>0, CutElems
  <2>4. \A i \in (n+1)..Len(down[c]) : down[c][i] \in Ids
    BY SMTT(40), <1>0, <2>2, ElementOfSeq, LenProperties
  <2>5. /\ down' \in [Conns -> Seq(Ids)] /\ \A b \in Conns : Elems(down'[b]) \subseteq Elems(down[b])
        /\ disturbed' \subseteq Ids
    BY <1>0, <2>2, <2>3, <2>4
  <2>6. conn' \in [Conns -> {"new", "open", "gone"}] /\ current' \in Conns \union {NoConn}
    BY <1>0, <1>4 DEF HubLoses
  <2> QED BY <1>4, <2>1, <2>5, <2>6 DEF HubLoses, TypeOK, InboxTypeOK, Frames
<1>5. CASE HelperRestart
  <2>1. /\ up' \in [Conns -> Seq(Frames)] /\ \A c \in Conns : Elems(up'[c]) \subseteq Elems(up[c])
        /\ down' \in [Conns -> Seq(Ids)] /\ \A c \in Conns : Elems(down'[c]) \subseteq Elems(down[c])
        /\ disturbed' \subseteq Ids
    <3>1. CASE peer = NoConn
      BY <1>0, <1>5, <3>1 DEF HelperRestart
    <3>2. CASE peer # NoConn
      BY <1>0, <1>5, <3>2, CutProps DEF HelperRestart
    <3> QED BY <3>1, <3>2
  <2>2. inbox' \in [Ids -> InboxState] /\ UNCHANGED arrival
    BY <1>5 DEF HelperRestart, Recover, TypeOK, InboxTypeOK, InboxState
  <2>3. loop' \in [Conns -> LoopStates]
    BY <1>5, LoopFacts DEF HelperRestart
  <2>4. restarts' = restarts + 1 /\ restarts' \in 0..MaxRestart
    BY <1>0, <1>5 DEF HelperRestart
  <2>7. TypeOK'
    BY <1>0, <1>5, <2>1, <2>2, <2>3, <2>4 DEF HelperRestart, TypeOK, InboxTypeOK, Frames, LoopStates
  <2>8. /\ UNCHANGED <<injected, doubts, answered, created>> /\ restarts <= restarts'
        /\ worker' # "idle" => worker # "idle"
    BY <1>0, <1>5 DEF HelperRestart
  <2>9. \A d \in Ids : dlv'[d].state = dlv[d].state
    BY <1>5 DEF HelperRestart
  <2> QED BY <2>1, <2>7, <2>8, <2>9
<1>6. CASE HubRestart
  <2>1. /\ up' \in [Conns -> Seq(Frames)] /\ \A c \in Conns : Elems(up'[c]) \subseteq Elems(up[c])
        /\ down' \in [Conns -> Seq(Ids)] /\ \A c \in Conns : Elems(down'[c]) \subseteq Elems(down[c])
    BY <1>0, <1>a, <1>6 DEF HubRestart
  <2>2. disturbed' \subseteq Ids /\ timers' \in [Conns -> SUBSET Nat]
    BY <1>0, <1>b, <1>6 DEF HubRestart
  <2>3. conn' \in [Conns -> {"new", "open", "gone"}] /\ hubRestarts' \in 0..MaxHubRestart
    BY <1>0, <1>6 DEF HubRestart
  <2>7. TypeOK'
    BY <1>0, <1>6, <2>1, <2>2, <2>3 DEF HubRestart, TypeOK, InboxTypeOK, Frames
  <2>8. /\ UNCHANGED <<injected, doubts, answered, created>> /\ restarts <= restarts'
        /\ worker' # "idle" => worker # "idle"
    BY <1>0, <1>6 DEF HubRestart
  <2>9. \A d \in Ids : dlv'[d].state = dlv[d].state
    BY <1>6 DEF HubRestart
  <2> QED BY <2>1, <2>7, <2>8, <2>9
<1>7. CASE Tick
  <2>1. dlv' \in Table /\ \A d \in Ids : dlv'[d].state = dlv[d].state
    BY <1>0, <1>7, TickedProps DEF Tick
  <2>2. timers' \in [Conns -> SUBSET Nat]
    BY SMTT(40), <1>0, <1>7 DEF Tick, Dec
  <2>7. TypeOK'
    BY <1>0, <1>7, <2>1, <2>2 DEF Tick, TypeOK, InboxTypeOK, Table
  <2>8. /\ UNCHANGED <<injected, doubts, answered, created>> /\ restarts <= restarts'
        /\ worker' # "idle" => worker # "idle"
    BY <1>0, <1>7 DEF Tick
  <2>9. \A d \in Ids : dlv'[d].state = dlv[d].state
    BY <2>1 DEF Tick
  <2> QED BY <1>7, <2>7, <2>8, <2>9 DEF Tick
<1>8. ASSUME NEW d \in Ids, Age(d)
      PROVE  /\ TypeOK' /\ UNCHANGED <<injected, doubts, answered, created, worker, restarts, up, down>>
             /\ \A e \in Ids : dlv'[e].state = dlv[e].state
  <2>1. [dlv[d] EXCEPT !.old = TRUE] \in Row /\ [dlv[d] EXCEPT !.old = TRUE].state = dlv[d].state
    BY <1>0 DEF Table, Row
  <2>2. dlv' = [dlv EXCEPT ![d] = [dlv[d] EXCEPT !.old = TRUE]]
    BY <1>0, <1>8 DEF Age, Table, Row
  <2>3. dlv' \in Table /\ \A e \in Ids : dlv'[e].state = dlv[e].state
    BY <1>0, <2>1, <2>2 DEF Table
  <2> QED BY <1>8, <2>3 DEF Age, TypeOK, InboxTypeOK, Table
<1>9. CASE HelperLoses \/ HelperEnds \/ HelperRestart \/ HubRestart \/ Tick
  <2>1. /\ UNCHANGED <<injected, doubts, answered, created>> /\ restarts <= restarts'
        /\ worker' # "idle" => worker # "idle"
    BY <1>0, <1>9 DEF HelperLoses, HelperEnds, HelperRestart, HubRestart, Tick
  <2> QED BY <1>0, <1>2, <1>3, <1>5, <1>6, <1>7, <1>9, <2>1
<1> QED BY SMTT(40), <1>0, <1>1, <1>4, <1>8, <1>9 DEF EnvStep

\* A turn of loop c ends: the delivery it holds gets inbox state v, and at most
\* an ack of a kind in K goes out.
TurnEnds(c, v, K) ==
  /\ inbox' = [inbox EXCEPT ![loop[c].id] = v]
  /\ \E pc \in {"poll", "dead"} : loop' = [loop EXCEPT ![c] = LoopAt(pc)]
  /\ \A b \in Conns : \A a \in Elems(up'[b]) :
       a \in Elems(up[b]) \/ \E k \in K : a = AckOf(k, loop[c].id)
  /\ UNCHANGED <<arrival, hubVars, conn, current, down, recvAck, injected, doubts, answered, disturbed,
                 crashVars>>

LEMMA TurnTypes ==
  ASSUME TypeOK, NEW c \in Conns, loop[c].id \in Ids,
         NEW v \in InboxState, NEW kind \in AckKind,
         inbox' = [inbox EXCEPT ![loop[c].id] = v], UNCHANGED arrival,
         busyAcked' \subseteq Ids,
         SendAck(c, kind)
  PROVE  TypeOK' /\ TurnEnds(c, v, {kind})
<1>0. loop \in [Conns -> LoopStates] /\ inbox \in [Ids -> InboxState]
  BY DEF TypeOK, LoopStates, InboxTypeOK
<1>1. /\ up' \in [Conns -> Seq(Frames)]
      /\ \A b \in Conns : Elems(up'[b]) \subseteq Elems(up[b]) \union {AckOf(kind, loop[c].id)}
      /\ \E pc \in {"poll", "dead"} : loop' = [loop EXCEPT ![c] = LoopAt(pc)]
      /\ peer' \in Conns \union {NoConn} /\ ended' \in BOOLEAN
      /\ UNCHANGED <<hubVars, conn, current, down, recvAck, injected, doubts, answered, disturbed,
                     crashVars>>
  BY SendAckProps
<1>2. loop' \in [Conns -> LoopStates]
  BY SMTT(40), <1>0, <1>1, LoopFacts
<1>3. inbox' \in [Ids -> InboxState]
  BY <1>0
<1>4. TypeOK'
  BY <1>1, <1>2, <1>3 DEF TypeOK, InboxTypeOK, Frames, LoopStates, hubVars, crashVars
<1>5. TurnEnds(c, v, {kind})
  BY <1>1 DEF TurnEnds
<1> QED BY <1>4, <1>5

\* A turn that ends in an exception leaves the delivery failed, or received if
\* it was being processed.
LEMMA RaisedTypes ==
  ASSUME TypeOK, NEW c \in Conns, loop[c].id \in Ids, inbox[loop[c].id] = "processing",
         Failed(c) \/ PutBack(c)
  PROVE  TypeOK' /\ \E v \in {"failed", "received"} : TurnEnds(c, v, {"failed", "busy"})
<1>0. /\ loop \in [Conns -> LoopStates] /\ inbox \in [Ids -> InboxState] /\ busyAcked \subseteq Ids
      /\ {"failed", "received"} \subseteq InboxState /\ {"failed", "busy"} \subseteq AckKind
  BY DEF TypeOK, LoopStates, InboxTypeOK, InboxState, AckKind
<1>1. CASE Failed(c)
  <2>1. TypeOK' /\ TurnEnds(c, "failed", {"failed"})
    BY <1>0, <1>1, TurnTypes DEF Failed, Finish
  <2> QED BY <2>1 DEF TurnEnds
<1>2. ASSUME Release(loop[c].id), SendAck(c, "busy"), busyAcked' \subseteq Ids
      PROVE  TypeOK' /\ TurnEnds(c, "received", {"busy"})
  BY <1>0, <1>2, TurnTypes DEF Release
<1>3. CASE PutBack(c) /\ SendAck(c, "busy")
  <2>1. Release(loop[c].id) /\ busyAcked' \subseteq Ids
    BY <1>0, <1>3 DEF PutBack
  <2>2. TypeOK' /\ TurnEnds(c, "received", {"busy"})
    BY <1>2, <1>3, <2>1
  <2> QED BY <2>2 DEF TurnEnds
<1>4. CASE PutBack(c) /\ ~SendAck(c, "busy")
  <2>1. /\ Release(loop[c].id) /\ loop' = [loop EXCEPT ![c] = LoopAt("poll")]
        /\ UNCHANGED <<hubVars, linkVars, recvAck, busyAcked, injected, doubts, answered, disturbed,
                       crashVars>>
    BY <1>4 DEF PutBack
  <2>2. inbox' = [inbox EXCEPT ![loop[c].id] = "received"] /\ UNCHANGED arrival
    BY <1>0, <2>1 DEF Release
  <2>3. TurnEnds(c, "received", {"failed", "busy"})
    BY <2>1, <2>2 DEF TurnEnds, linkVars
  <2>4. inbox' \in [Ids -> InboxState] /\ loop' \in [Conns -> LoopStates]
    BY <1>0, <2>1, <2>2, LoopFacts
  <2>5. TypeOK'
    BY <2>1, <2>2, <2>4 DEF TypeOK, InboxTypeOK, LoopStates, hubVars, linkVars, crashVars
  <2> QED BY <2>3, <2>5
<1> QED BY <1>1, <1>3, <1>4

-----------------------------------------------------------------------------
(* The inductive invariant *)

\* What has been processed stays so, hence the acks on their way stay truthful.
LEMMA OldAcks ==
  ASSUME Consistent, \A e \in Ids : inbox[e] = "processed" => inbox'[e] = "processed"
  PROVE  /\ \A b \in Conns : \A a \in Elems(up[b]) :
              a.kind = "processed" => inbox'[a.id] = "processed"
         /\ recvAck.kind = "processed" => recvAck \in Ack /\ inbox'[recvAck.id] = "processed"
<1>1. ASSUME NEW b \in Conns, NEW a \in Elems(up[b]), a.kind = "processed"
      PROVE  inbox'[a.id] = "processed"
  <2>1. inbox[a.id] = "processed" /\ up[b] \in Seq(Frames)
    BY <1>1 DEF Consistent, AcksTruthful, TypeOK, Frames
  <2>2. a \in Frames
    BY <1>1, <2>1, LenProperties DEF Elems
  <2>3. a \in Ack
    BY <1>1, <2>2 DEF Frames, Cap
  <2> QED BY <2>1, <2>3 DEF Ack
<1>2. recvAck \in Ack \/ recvAck.kind # "processed"
  BY DEF Consistent, TypeOK, NoAck
<1> QED BY <1>1, <1>2 DEF Consistent, AcksTruthful, Ack

\* The end of a turn keeps the invariant: only a delivery the CLI has got, or
\* whose sender has an answer, is finished as processed.
LEMMA TurnInv ==
  ASSUME Consistent, TypeOK', NEW c \in Conns, NEW v \in {"failed", "received", "processed"},
         NEW K \in SUBSET AckKind, TurnEnds(c, v, K),
         v = "processed" => loop[c].pc = "done",
         v # "processed" => loop[c].pc \in {"got", "raised"} /\ "processed" \notin K,
         loop[c].pc \in Holding
  PROVE  Consistent'
<1> DEFINE d == loop[c].id
<1>1. /\ d \in Ids /\ inbox[d] = "processing" /\ inbox \in [Ids -> InboxState]
      /\ loop \in [Conns -> LoopStates] /\ loop' \in [Conns -> LoopStates]
  BY DEF Consistent, LoopsHold, TypeOK, InboxTypeOK, LoopStates
<1>2. PICK pc \in {"poll", "dead"} : loop' = [loop EXCEPT ![c] = LoopAt(pc)]
  BY DEF TurnEnds
<1>3. inbox' = [inbox EXCEPT ![d] = v] /\ inbox'[d] = v /\ \A e \in Ids \ {d} : inbox'[e] = inbox[e]
  BY <1>1 DEF TurnEnds
<1>4. /\ UNCHANGED <<dlv, created, worker, down, recvAck, injected, doubts, answered, restarts>>
      /\ \A b \in Conns : \A a \in Elems(up'[b]) :
           a \in Elems(up[b]) \/ \E k \in K : a = AckOf(k, d)
  BY DEF TurnEnds, hubVars, crashVars
<1>5. /\ loop'[c].pc \notin Holding
      /\ \A b \in Conns \ {c} : loop'[b] = loop[b]
  BY <1>1, <1>2, LoopFacts DEF Holding
<1> HIDE DEF d
<1>6. \A e \in Ids : inbox[e] = "processed" => inbox'[e] = "processed"
  BY <1>1, <1>3
<1>7. \A b \in Conns \ {c} : loop[b].pc \in Holding => loop[b].id # d
  BY DEF Consistent, LoopsExclusive, d
<1>8. KnownToHub'
  BY <1>1, <1>3, <1>4 DEF Consistent, KnownToHub
<1>9. AcksTruthful'
  <2>1. ASSUME NEW b \in Conns, NEW a \in Elems(up'[b]), a.kind = "processed"
        PROVE  inbox'[a.id] = "processed"
    <3>1. CASE a \in Elems(up[b])
      BY <1>6, <2>1, <3>1, OldAcks
    <3>2. CASE \E k \in K : a = AckOf(k, d)
      BY <1>1, <1>3, <2>1, <3>2, AckFacts
    <3> QED BY <1>4, <2>1, <3>1, <3>2
  <2>2. recvAck'.kind = "processed" => inbox'[recvAck'.id] = "processed"
    BY <1>4, <1>6, OldAcks
  <2> QED BY <2>1, <2>2 DEF AcksTruthful
<1>10. LoopsHold'
  BY SMTT(40), <1>3, <1>5, <1>7 DEF Consistent, LoopsHold
<1>11. LoopsExclusive'
  BY <1>5 DEF Consistent, LoopsExclusive
<1>12. HandledFirst'
  BY <1>1, <1>3, <1>4, <1>5 DEF Consistent, HandledFirst, Handled, d, Holding
<1>13. InjectionBounded'
  BY <1>1, <1>3, <1>4, <1>5 DEF Consistent, InjectionBounded, d, Holding
<1>14. ProcessedWasHandled'
  BY <1>4, <1>6 DEF Consistent, ProcessedWasHandled, Handled
<1> QED BY <1>8, <1>9, <1>10, <1>11, <1>12, <1>13, <1>14 DEF Consistent

\* The hub's part of the invariant, and what a step of the hub may do to the
\* outcome of a delivery.
TableMove(d) ==
  \/ Outcome(dlv'[d]) = Outcome(dlv[d])
  \/ dlv[d].state = "none" /\ dlv'[d].state \in Open
  \/ dlv[d].state \in Open /\ dlv'[d].state = "dead"
  \/ dlv[d].state \in Open /\ dlv'[d].state = "processed" /\ inbox[d] = "processed"

\* Making a delivery and draining: the new delivery is not given up at once.
LEMMA InsertDrain ==
  ASSUME TypeOK, NEW n \in Ids, NEW c \in Conns, Drain(c, Inserted(dlv, n), timers)
  PROVE  /\ \A d \in Ids : TableMove(d)
         /\ \A b \in Conns : \A d \in Elems(down'[b]) : d \in Elems(down[b]) \/ dlv'[d].state = "sent"
<1> DEFINE t == Inserted(dlv, n)
<1>0. dlv \in Table /\ timers \in [Conns -> SUBSET Nat]
  BY DEF TypeOK, Table
<1>1. /\ t \in Table /\ \A e \in Ids \ {n} : t[e] = dlv[e]
      /\ \/ t[n] = dlv[n]
         \/ dlv[n].state = "none" /\ t[n] = [NoRow EXCEPT !.state = "queued"]
  BY SMTT(40), <1>0, InsertedProps
<1>2. Drain(c, t, timers)
  OBVIOUS
<1> HIDE DEF t
<1>3. /\ dlv' \in Table /\ GivesUp(t, dlv')
      /\ \A b \in Conns : \A d \in Elems(down'[b]) : d \in Elems(down[b]) \/ dlv'[d].state = "sent"
  BY <1>0, <1>1, <1>2, DrainProps
<1>4. ASSUME NEW d \in Ids PROVE TableMove(d)
  <2>1. CASE t[d] = dlv[d]
    BY <1>3, <2>1 DEF GivesUp, TableMove
  <2>2. CASE dlv[d].state = "none" /\ t[d] = [NoRow EXCEPT !.state = "queued"]
    <3>1. t[d].state = "queued" /\ t[d].attempts = 0 /\ t[d].old = FALSE
      BY <2>2 DEF NoRow
    <3>2. Outcome(dlv'[d]) = Outcome(t[d]) /\ Outcome(t[d]) = "open"
      BY <1>3, <3>1 DEF GivesUp, Outcome, Open
    <3>3. dlv'[d].state \in Open
      BY <1>3, <3>2, RowFields DEF Outcome, Table, Terminal, Open, InFlight
    <3> QED BY <2>2, <3>3 DEF TableMove
  <2> QED BY <1>1, <2>1, <2>2
<1> QED BY <1>3, <1>4

LEMMA HubStepMoves ==
  ASSUME Consistent, HubStep
  PROVE  /\ \A d \in Ids : TableMove(d)
         /\ \A c \in Conns : \A d \in Elems(down'[c]) : d \in Elems(down[c]) \/ dlv'[d].state = "sent"
         /\ worker' # "idle" => created' # 0
<1> USE DEF hubVars, linkVars
<1>0. /\ TypeOK /\ dlv \in Table /\ created \in 0..MaxMsg /\ timers \in [Conns -> SUBSET Nat]
      /\ cap \subseteq Conns /\ up \in [Conns -> Seq(Frames)]
      /\ worker # "idle" => created # 0
  BY DEF Consistent, TypeOK, Table, Frames, KnownToHub
<1>1. CASE Route
  <2>1. /\ created' = created + 1 /\ created + 1 \in Ids /\ current \in Conns
        /\ Drain(current, Inserted(dlv, created + 1), timers)
    BY <1>0, <1>1 DEF Route, Ids
  <2> QED BY <1>0, <2>1, InsertDrain
<1>2. CASE WorkerAck
  BY <1>2 DEF WorkerAck, TableMove
<1>3. CASE Redo
  <2>1. created \in Ids /\ created' = created
    BY <1>0, <1>3 DEF Redo, Ids
  <2>2. CASE current \in cap /\ Drain(current, Inserted(dlv, created), timers)
    BY <1>0, <2>1, <2>2, InsertDrain DEF Ids
  <2>3. CASE UNCHANGED <<dlv, down>>
    BY <2>1, <2>3 DEF TableMove, Ids
  <2> QED BY <1>3, <2>2, <2>3 DEF Redo
<1>4. ASSUME NEW c \in Conns, TimerFires(c)
      PROVE  /\ \A d \in Ids : TableMove(d)
             /\ \A b \in Conns : \A d \in Elems(down'[b]) :
                  d \in Elems(down[b]) \/ dlv'[d].state = "sent"
             /\ worker' # "idle" => created' # 0
  <2>1. [timers EXCEPT ![c] = @ \ {0}] \in [Conns -> SUBSET Nat]
    BY <1>0
  <2>2. /\ GivesUp(dlv, dlv')
        /\ \A b \in Conns : \A d \in Elems(down'[b]) : d \in Elems(down[b]) \/ dlv'[d].state = "sent"
    BY <1>0, <1>4, <2>1, DrainProps DEF TimerFires
  <2>3. \A d \in Ids : TableMove(d)
    BY <2>2 DEF GivesUp, TableMove
  <2> QED BY <1>0, <1>4, <2>2, <2>3 DEF TimerFires
<1>5. ASSUME NEW c \in Conns, HandleCapability(c)
      PROVE  UNCHANGED <<dlv, down, worker, created>>
  BY <1>5 DEF HandleCapability
<1>6. ASSUME NEW c \in Conns, HandleDeliveryAck(c)
      PROVE  /\ \A d \in Ids : TableMove(d)
             /\ UNCHANGED <<down, created>> /\ (worker' # "idle" => worker # "idle")
  <2> DEFINE a == Head(up[c])
  <2>1. a \in Ack /\ a \in Elems(up[c])
    <3>1. up[c] # <<>> /\ a # Cap /\ up[c] \in Seq(Frames)
      BY <1>0, <1>6 DEF HandleDeliveryAck, NextFrame
    <3>2. a \in Frames /\ a \in Elems(up[c])
      BY <3>1, TailElems
    <3> QED BY <3>1, <3>2 DEF Frames
  <2>2. a.kind = "processed" => inbox[a.id] = "processed"
    BY <2>1 DEF Consistent, AcksTruthful
  <2>3. \/ UNCHANGED dlv
        \/ dlv' = AfterAck(a)
    BY <1>6 DEF HandleDeliveryAck
  <2>4. UNCHANGED <<down, created>> /\ (worker' # "idle" => worker # "idle")
    BY <1>6 DEF HandleDeliveryAck
  <2> HIDE DEF a
  <2>5. ASSUME NEW d \in Ids PROVE TableMove(d)
    BY <1>0, <2>1, <2>2, <2>3, AfterAckProps DEF TableMove
  <2> QED BY <2>4, <2>5
<1>7. CASE \E c \in Conns : HandleCapability(c)
  BY <1>0, <1>5, <1>7 DEF TableMove
<1>8. CASE \E c \in Conns : HandleDeliveryAck(c)
  <2>1. PICK c \in Conns : HandleDeliveryAck(c)
    BY <1>8
  <2>2. /\ \A d \in Ids : TableMove(d)
        /\ UNCHANGED <<down, created>> /\ (worker' # "idle" => worker # "idle")
    BY <1>6, <2>1
  <2>3. worker' # "idle" => created' # 0
    BY <1>0, <2>2
  <2> QED BY <2>2, <2>3
<1> QED BY <1>1, <1>2, <1>3, <1>4, <1>7, <1>8, <1>0 DEF HubStep, WorkerAck

LEMMA HubStepInv ==
  ASSUME Consistent, HubStep
  PROVE  Consistent'
<1>1. /\ TypeOK' /\ UNCHANGED <<helperVars, crashVars>>
      /\ \A c \in Conns : Elems(up'[c]) \subseteq Elems(up[c])
  BY HubStepTypes DEF Consistent
<1>2. UNCHANGED <<inbox, recvAck, loop, injected, doubts, answered, restarts>>
  BY <1>1 DEF helperVars, inboxVars, crashVars
<1>3. /\ \A d \in Ids : TableMove(d)
      /\ \A c \in Conns : \A d \in Elems(down'[c]) : d \in Elems(down[c]) \/ dlv'[d].state = "sent"
      /\ worker' # "idle" => created' # 0
  BY HubStepMoves
<1>4. \A d \in Ids : dlv[d].state # "none" => dlv'[d].state # "none"
  BY <1>3 DEF TableMove, Outcome, Open, InFlight, Consistent, TypeOK, Row, Terminal
<1>5. \A c \in Conns : Elems(down[c]) \subseteq Ids
  BY LenProperties DEF Consistent, TypeOK, Elems
<1>6. KnownToHub'
  BY <1>2, <1>3, <1>4, <1>5 DEF KnownToHub, Consistent
<1>7. AcksTruthful'
  BY <1>1, <1>2 DEF AcksTruthful, Consistent
<1>8. LoopsHold' /\ LoopsExclusive' /\ HandledFirst' /\ InjectionBounded'
  BY <1>2 DEF LoopsHold, LoopsExclusive, HandledFirst, InjectionBounded, Handled, Consistent
<1>9. \A d \in Ids : dlv'[d].state = "processed" => dlv[d].state = "processed" \/ inbox[d] = "processed"
  BY <1>3 DEF TableMove, Outcome, Open, InFlight
<1>10. ProcessedWasHandled'
  BY <1>2, <1>9 DEF ProcessedWasHandled, HandledFirst, Handled, Consistent
<1> QED BY <1>1, <1>6, <1>7, <1>8, <1>10 DEF Consistent

\* The helper stores a delivery frame, or recognises it, and words its ack.
LEMMA ReceiveInv ==
  ASSUME Consistent, Receive
  PROVE  Consistent'
<1> DEFINE d == Head(down[peer])
<1>0. /\ peer \in Conns /\ down \in [Conns -> Seq(Ids)] /\ inbox \in [Ids -> InboxState]
      /\ arrival \in Seq(Ids) /\ disturbed \subseteq Ids /\ down[peer] # <<>>
  BY DEF Receive, Consistent, TypeOK, InboxTypeOK
<1>1. /\ d \in Ids /\ d \in Elems(down[peer])
      /\ Tail(down[peer]) \in Seq(Ids) /\ Elems(Tail(down[peer])) \subseteq Elems(down[peer])
  BY <1>0, TailElems
<1>2. down' = [down EXCEPT ![peer] = Tail(down[peer])]
  BY <1>0 DEF Receive
<1>3. /\ UNCHANGED <<hubVars, conn, current, up, peer, ended, loop, busyAcked, injected, doubts, answered,
                     crashVars>>
      /\ \/ AcceptNew(d) /\ recvAck' = AckOf("delivered", d)
         \/ AcceptFull(d) /\ recvAck' = AckOf("failed", d)
         \/ \E r \in BOOLEAN : AcceptAgain(d, r) /\ recvAck' = AckOf(AckState(inbox'[d]), d)
      /\ disturbed' \in {disturbed, disturbed \union {d}}
  BY DEF Receive
<1> HIDE DEF d
<1>4. dlv[d].state # "none"
  BY <1>0, <1>1 DEF Consistent, KnownToHub
<1>5. /\ \E v \in InboxState : /\ inbox' = [inbox EXCEPT ![d] = v]
                               /\ inbox[d] \in {"processing", "processed"} => v = inbox[d]
                               /\ v = "processed" => inbox[d] = "processed"
                               /\ inbox[d] \in {"none", "received", "failed"} =>
                                    v \in {"none", "received", "failed"}
      /\ arrival' \in Seq(Ids)
  <2>1. CASE AcceptNew(d)
    BY <1>0, <1>1, <2>1, AppendElems DEF AcceptNew, InboxState
  <2>2. CASE AcceptFull(d)
    <3>1. inbox' = [inbox EXCEPT ![d] = inbox[d]] /\ inbox[d] \in InboxState /\ inbox[d] = "none"
      BY <1>0, <1>1, <2>2 DEF AcceptFull, inboxVars
    <3> QED BY <1>0, <2>2, <3>1 DEF AcceptFull, inboxVars
  <2>3. CASE \E r \in BOOLEAN : AcceptAgain(d, r)
    <3>1. PICK r \in BOOLEAN : AcceptAgain(d, r)
      BY <2>3
    <3> DEFINE v == IF inbox[d] = "failed" /\ r THEN "received" ELSE inbox[d]
    <3>2. inbox' = [inbox EXCEPT ![d] = v] /\ v \in InboxState /\ UNCHANGED arrival
      BY <1>0, <1>1, <3>1 DEF AcceptAgain, InboxState
    <3>3. /\ inbox[d] \in {"processing", "processed"} => v = inbox[d]
          /\ v = "processed" => inbox[d] = "processed"
          /\ inbox[d] \in {"none", "received", "failed"} => v \in {"none", "received", "failed"}
      OBVIOUS
    <3> HIDE DEF v
    <3> QED BY <1>0, <3>2, <3>3
  <2> QED BY <1>3, <2>1, <2>2, <2>3
<1>6. PICK v \in InboxState : /\ inbox' = [inbox EXCEPT ![d] = v]
                              /\ inbox[d] \in {"processing", "processed"} => v = inbox[d]
                              /\ v = "processed" => inbox[d] = "processed"
                              /\ inbox[d] \in {"none", "received", "failed"} =>
                                   v \in {"none", "received", "failed"}
  BY <1>5
<1>7. /\ inbox' \in [Ids -> InboxState] /\ inbox'[d] = v
      /\ \A e \in Ids \ {d} : inbox'[e] = inbox[e]
  BY <1>0, <1>1, <1>6
<1>8. /\ recvAck' \in Ack
      /\ recvAck'.kind = "processed" => inbox'[recvAck'.id] = "processed"
  <2>1. \E k \in AckKind : recvAck' = AckOf(k, d) /\ (k = "processed" => v = "processed")
    BY <1>3, <1>7 DEF AckKind, AckState
  <2> QED BY <1>1, <1>7, <2>1, AckFacts
<1>9. /\ down' \in [Conns -> Seq(Ids)]
      /\ \A c \in Conns : Elems(down'[c]) \subseteq Elems(down[c])
  BY <1>0, <1>1, <1>2
<1>10. TypeOK'
  <2>1. disturbed' \subseteq Ids
    BY <1>0, <1>1, <1>3
  <2> QED BY <1>3, <1>5, <1>7, <1>8, <1>9, <2>1
          DEF Consistent, TypeOK, InboxTypeOK, hubVars, crashVars
<1>11. UNCHANGED <<dlv, created, worker, up, loop, injected, doubts, answered, restarts>>
  BY <1>3 DEF hubVars, crashVars
<1>12. \A e \in Ids : inbox[e] \in {"processing", "processed"} => inbox'[e] = inbox[e]
  BY <1>6, <1>7
<1>13. KnownToHub'
  BY <1>4, <1>7, <1>9, <1>11 DEF Consistent, KnownToHub
<1>14. AcksTruthful'
  BY <1>8, <1>11, <1>12, OldAcks DEF AcksTruthful
<1>15. LoopsHold' /\ LoopsExclusive'
  BY <1>11, <1>12 DEF Consistent, LoopsHold, LoopsExclusive
<1>16. HandledFirst'
  <2>1. \A e \in Ids : inbox'[e] = "processed" => inbox[e] = "processed"
    BY <1>6, <1>7
  <2> QED BY <1>11, <2>1 DEF Consistent, HandledFirst, Handled
<1>17. InjectionBounded'
  <2>1. \A e \in Ids : inbox'[e] \in {"none", "received", "failed"} =>
                         inbox[e] \in {"none", "received", "failed"}
    BY <1>0, <1>6, <1>7 DEF InboxState
  <2> QED BY <1>11, <2>1 DEF Consistent, InjectionBounded
<1>18. ProcessedWasHandled'
  BY <1>11, <1>12 DEF Consistent, ProcessedWasHandled, Handled
<1> QED BY <1>10, <1>13, <1>14, <1>15, <1>16, <1>17, <1>18 DEF Consistent

\* How often a loop may still have the text typed before the last typing counts.
Slack(pc) == IF pc \in {"got", "sorry", "raised"} THEN 1 ELSE 0

\* A step of a loop that holds a delivery and goes on holding it: the text has
\* been typed n times more, of which k went for nothing.
Goes(c, pc, n, k) ==
  /\ loop[c].pc \in {"got", "reply", "sorry"}
  /\ loop' = [loop EXCEPT ![c].pc = pc]
  /\ UNCHANGED <<hubVars, linkVars, inboxVars, recvAck, busyAcked, disturbed, crashVars>>
  /\ injected' \in [Ids -> Nat] /\ doubts' \in [Ids -> Nat]
  /\ injected'[loop[c].id] = injected[loop[c].id] + n
  /\ doubts'[loop[c].id] = doubts[loop[c].id] + k
  /\ \A e \in Ids \ {loop[c].id} : injected'[e] = injected[e] /\ doubts'[e] = doubts[e]
  /\ n + Slack(pc) <= Slack(loop[c].pc) + k
  /\ answered' \in {answered, answered \union {loop[c].id}}
  /\ pc = "done" => n > 0 \/ loop[c].id \in answered'

LEMMA SlackFacts ==
  /\ \A pc \in {"got", "sorry", "raised"} : Slack(pc) = 1
  /\ \A pc \in {"reply", "done"} : Slack(pc) = 0
BY DEF Slack

\* The arithmetic of a step of a loop: i typings of which b went for nothing.
LEMMA SlackSum ==
  ASSUME NEW i \in Nat, NEW b \in Nat, NEW r \in Nat, NEW n \in Nat, NEW k \in Nat,
         NEW before \in {0, 1}, NEW after \in {0, 1},
         i + before <= 1 + r + b, n + after <= before + k
  PROVE  (i + n) + after <= 1 + r + (b + k)
OBVIOUS

LEMMA BoundFacts ==
  ASSUME NEW i \in Nat, NEW b \in Nat, NEW r \in Nat, NEW s \in {0, 1}
  PROVE  /\ i <= r + b => i + 1 <= 1 + r + b
         /\ i + 1 <= 1 + r + b => i <= r + b
         /\ i + s <= 1 + r + b => i <= 1 + r + b
OBVIOUS

LEMMA SumFacts == \A i, n \in Nat : i + n \in Nat
OBVIOUS

LEMMA MoveInv ==
  ASSUME Consistent, NEW c \in Conns, NEW pc \in {"reply", "sorry", "raised", "done"},
         NEW n \in Nat, NEW k \in Nat, Goes(c, pc, n, k)
  PROVE  Consistent'
<1> DEFINE d == loop[c].id
<1>0. /\ loop \in [Conns -> LoopStates] /\ injected \in [Ids -> Nat] /\ answered \subseteq Ids
      /\ doubts \in [Ids -> Nat]
      /\ restarts \in Nat
      /\ d \in Ids /\ inbox[d] = "processing"
  <2>1. /\ loop \in [Conns -> LoopStates] /\ injected \in [Ids -> Nat] /\ answered \subseteq Ids
        /\ doubts \in [Ids -> Nat]
        /\ restarts \in 0..MaxRestart
    BY DEF Consistent, TypeOK, LoopStates
  <2>2. d \in Ids /\ inbox[d] = "processing"
    BY DEF Goes, Consistent, LoopsHold, Holding
  <2>3. restarts \in Nat
    BY <2>1, DeliveryAssumption
  <2> QED BY <2>1, <2>2, <2>3
<1>1. /\ loop' \in [Conns -> LoopStates] /\ loop'[c].pc = pc /\ loop'[c].id = d
      /\ \A b \in Conns \ {c} : loop'[b] = loop[b]
  <2>1. /\ [loop[c] EXCEPT !.pc = pc] \in LoopStates
        /\ [loop[c] EXCEPT !.pc = pc].pc = pc /\ [loop[c] EXCEPT !.pc = pc].id = d
    <3>1. loop[c] \in LoopStates
      BY <1>0
    <3> QED BY <3>1 DEF LoopStates
  <2>2. loop' = [loop EXCEPT ![c] = [loop[c] EXCEPT !.pc = pc]]
    BY <1>0 DEF Goes
  <2> QED BY <1>0, <2>1, <2>2
<1> HIDE DEF d
<1>2. UNCHANGED <<dlv, created, worker, cap, timers, conn, current, down, up, peer, ended,
                  inbox, arrival, recvAck, busyAcked, disturbed, restarts, hubRestarts>>
  BY DEF Goes, hubVars, linkVars, inboxVars, crashVars
<1>3. /\ injected' \in [Ids -> Nat] /\ doubts' \in [Ids -> Nat] /\ answered' \subseteq Ids
      /\ \A e \in Ids \ {d} : injected'[e] = injected[e] /\ doubts'[e] = doubts[e]
      /\ injected'[d] = injected[d] + n /\ doubts'[d] = doubts[d] + k
      /\ answered \subseteq answered'
      /\ pc = "done" => n > 0 \/ d \in answered'
  BY <1>0 DEF Goes, d
<1>4. \A e \in Ids : Handled(e) => injected'[e] > 0 \/ e \in answered'
  <2>1. \A e \in Ids : injected[e] \in Nat /\ injected[e] <= injected'[e]
    <3>1. injected[d] \in Nat /\ injected[d] <= injected'[d]
      BY <1>0, <1>3
    <3>2. ASSUME NEW e \in Ids \ {d} PROVE injected[e] \in Nat /\ injected'[e] = injected[e]
      BY <1>0, <1>3
    <3> QED BY <3>1, <3>2
  <2> QED BY <1>3, <2>1 DEF Handled
<1>5. TypeOK'
  BY <1>1, <1>2, <1>3 DEF Consistent, TypeOK, InboxTypeOK, LoopStates
<1>6. KnownToHub' /\ AcksTruthful'
  BY <1>2 DEF Consistent, KnownToHub, AcksTruthful
<1>7. LoopsHold' /\ LoopsExclusive'
  <2>1. \A b \in Conns : loop'[b].id = loop[b].id /\ (loop'[b].pc \in Holding => loop[b].pc \in Holding)
    BY <1>1 DEF Goes, Holding, d
  <2> QED BY <1>2, <2>1 DEF Consistent, LoopsHold, LoopsExclusive
<1>8. HandledFirst'
  <2> DEFINE H(e) == injected'[e] > 0 \/ e \in answered'
  <2>1. \A e \in Ids : inbox'[e] = "processed" => H(e)
    BY <1>2, <1>4 DEF Consistent, HandledFirst
  <2>2. loop'[c].pc = "done" => H(loop'[c].id)
    <3>1. injected[d] \in Nat /\ injected'[d] = injected[d] + n
      BY <1>0, <1>3
    <3> QED BY <1>1, <1>3, <3>1
  <2>3. \A b \in Conns \ {c} : loop[b].pc = "done" => loop[b].id \in Ids /\ Handled(loop[b].id)
    BY DEF Consistent, HandledFirst, LoopsHold, Holding
  <2>4. \A b \in Conns \ {c} : loop'[b].pc = "done" => H(loop'[b].id)
    BY <1>1, <1>4, <2>3
  <2> QED BY <2>1, <2>2, <2>4 DEF HandledFirst, Handled
<1>9. InjectionBounded'
  <2>1. InjectionBounded /\ inbox' = inbox /\ restarts' = restarts
    BY <1>2 DEF Consistent
  <2>2. /\ injected[d] \in Nat /\ doubts[d] \in Nat /\ restarts \in Nat
        /\ loop[c].pc \in {"got", "reply", "sorry"}
        /\ injected[d] <= 1 + restarts + doubts[d]
        /\ loop[c].pc \in {"got", "sorry"} => injected[d] <= restarts + doubts[d]
        /\ n + Slack(pc) <= Slack(loop[c].pc) + k
    BY <1>0, <2>1 DEF InjectionBounded, Goes, d
  <2>3. /\ injected'[d] <= 1 + restarts + doubts'[d]
        /\ pc \in {"got", "sorry", "raised"} => injected'[d] <= restarts + doubts'[d]
    <3>1. injected'[d] = injected[d] + n /\ doubts'[d] = doubts[d] + k
      BY <1>3
    <3>2. Slack(pc) \in {0, 1} /\ Slack(loop[c].pc) \in {0, 1}
      BY DEF Slack
    <3>3. injected[d] + Slack(loop[c].pc) <= 1 + restarts + doubts[d]
      <4>1. CASE loop[c].pc = "reply"
        BY <2>2, <4>1, SlackFacts
      <4>2. CASE loop[c].pc \in {"got", "sorry"}
        <5>1. Slack(loop[c].pc) = 1 /\ injected[d] <= restarts + doubts[d]
          BY <2>2, <4>2, SlackFacts
        <5> QED BY <2>2, <5>1, BoundFacts
      <4> QED BY <2>2, <4>1, <4>2
    <3>4. injected'[d] + Slack(pc) <= 1 + restarts + doubts'[d]
      BY <2>2, <3>1, <3>2, <3>3, SlackSum
    <3>5. injected'[d] \in Nat /\ doubts'[d] \in Nat
      BY <1>0, <1>3
    <3>6. injected'[d] <= 1 + restarts + doubts'[d]
      BY <2>2, <3>2, <3>4, <3>5, BoundFacts
    <3>7. ASSUME pc \in {"got", "sorry", "raised"} PROVE injected'[d] <= restarts + doubts'[d]
      <4>1. Slack(pc) = 1
        BY <3>7, SlackFacts
      <4> QED BY <2>2, <3>4, <3>5, <4>1, BoundFacts
    <3> QED BY <3>6, <3>7
  <2>4. \A b \in Conns \ {c} : loop'[b].pc \in {"got", "sorry", "raised"} =>
                                loop'[b] = loop[b] /\ loop'[b].id \in Ids \ {d}
    <3>1. loop[c].pc \in Holding /\ LoopsExclusive /\ LoopsHold
      BY DEF Goes, Holding, Consistent
    <3> QED BY <1>1, <3>1 DEF LoopsExclusive, LoopsHold, Holding, d
  <2>5. ASSUME NEW b \in Conns, loop'[b].pc \in {"got", "sorry", "raised"}
        PROVE  injected'[loop'[b].id] <= restarts + doubts'[loop'[b].id]
    <3>1. CASE b = c
      BY <1>1, <2>3, <2>5, <3>1
    <3>2. CASE b # c
      BY <1>3, <2>1, <2>4, <2>5, <3>2 DEF InjectionBounded
    <3> QED BY <3>1, <3>2
  <2>6. \A e \in Ids : /\ inbox[e] \in {"none", "received", "failed"} =>
                            injected'[e] <= restarts + doubts'[e]
                       /\ injected'[e] <= 1 + restarts + doubts'[e]
    BY <1>0, <1>3, <2>1, <2>3 DEF InjectionBounded
  <2> QED BY <2>1, <2>5, <2>6 DEF InjectionBounded
<1>10. ProcessedWasHandled'
  BY <1>2, <1>4 DEF Consistent, ProcessedWasHandled, Handled
<1> QED BY <1>5, <1>6, <1>7, <1>8, <1>9, <1>10 DEF Consistent

\* A loop takes a received delivery; no loop holds one of those.
LEMMA ClaimInv ==
  ASSUME Consistent, NEW c \in Conns, LoopClaim(c)
  PROVE  Consistent'
<1>1. PICK d \in Ids : ClaimNext(d) /\ loop' = [loop EXCEPT ![c] = [pc |-> "got", id |-> d]]
  BY DEF LoopClaim
<1>2. /\ inbox[d] = "received" /\ inbox' = [inbox EXCEPT ![d] = "processing"] /\ arrival' = arrival
      /\ loop[c].pc = "poll"
  BY <1>1 DEF ClaimNext, FirstReceived, LoopClaim
<1>3. /\ inbox \in [Ids -> InboxState] /\ loop \in [Conns -> LoopStates]
      /\ injected \in [Ids -> Nat] /\ restarts \in Nat
  <2>1. restarts \in 0..MaxRestart /\ MaxRestart \in Nat
    BY DeliveryAssumption DEF Consistent, TypeOK
  <2>2. restarts \in Nat
    BY <2>1
  <2> QED BY <2>2 DEF Consistent, TypeOK, InboxTypeOK, LoopStates
<1>4. /\ inbox' \in [Ids -> InboxState] /\ inbox'[d] = "processing"
      /\ \A e \in Ids \ {d} : inbox'[e] = inbox[e]
  BY <1>2, <1>3 DEF InboxState
<1>5. /\ loop' \in [Conns -> LoopStates] /\ loop'[c] = [pc |-> "got", id |-> d]
      /\ \A b \in Conns \ {c} : loop'[b] = loop[b]
  BY <1>1, <1>3 DEF LoopStates
<1>6. UNCHANGED <<dlv, created, worker, cap, timers, conn, current, down, up, peer, ended,
                  recvAck, busyAcked, injected, doubts, answered, disturbed, restarts, hubRestarts>>
  BY DEF LoopClaim, hubVars, linkVars, crashVars
<1>7. \A b \in Conns : loop[b].pc \in Holding => loop[b].id \in Ids \ {d}
  BY <1>2 DEF Consistent, LoopsHold
<1>8. \A e \in Ids : inbox'[e] = "processed" <=> inbox[e] = "processed"
  BY <1>2, <1>4
<1>9. TypeOK'
  BY <1>2, <1>4, <1>5, <1>6 DEF Consistent, TypeOK, InboxTypeOK, LoopStates
<1>10. KnownToHub'
  <2>1. dlv[d].state # "none"
    BY <1>2 DEF Consistent, KnownToHub
  <2> QED BY <1>4, <1>6, <2>1 DEF Consistent, KnownToHub
<1>11. AcksTruthful'
  BY <1>6, <1>8, OldAcks DEF AcksTruthful
<1>12. LoopsHold'
  <2>1. loop'[c].id \in Ids /\ inbox'[loop'[c].id] = "processing"
    BY <1>4, <1>5
  <2>2. ASSUME NEW b \in Conns \ {c}, loop[b].pc \in Holding
        PROVE  loop[b].id \in Ids /\ inbox'[loop[b].id] = "processing"
    BY <1>4, <1>7, <2>2 DEF Consistent, LoopsHold
  <2> QED BY <1>5, <2>1, <2>2 DEF LoopsHold
<1>13. LoopsExclusive'
  BY <1>5, <1>7 DEF Consistent, LoopsExclusive, Holding
<1>14. HandledFirst'
  BY <1>5, <1>6, <1>8 DEF Consistent, HandledFirst, Handled
<1>15. InjectionBounded'
  <2>1. InjectionBounded /\ injected[d] <= restarts + doubts[d]
    BY <1>2 DEF InjectionBounded, Consistent
  <2>2. \A b \in Conns : loop'[b].pc \in {"got", "sorry", "raised"} =>
                          injected[loop'[b].id] <= restarts + doubts[loop'[b].id]
    BY <1>5, <2>1 DEF InjectionBounded
  <2>3. \A e \in Ids : inbox'[e] \in {"none", "received", "failed"} =>
                         inbox[e] \in {"none", "received", "failed"}
    BY <1>2, <1>4
  <2>4. \A e \in Ids : /\ inbox'[e] \in {"none", "received", "failed"} =>
                            injected[e] <= restarts + doubts[e]
                       /\ injected[e] <= 1 + restarts + doubts[e]
    BY <2>1, <2>3 DEF InjectionBounded
  <2>5. injected' = injected /\ doubts' = doubts /\ restarts' = restarts
    BY <1>6
  <2>6. \A b \in Conns : loop'[b].pc \in {"got", "sorry", "raised"} =>
                          injected'[loop'[b].id] <= restarts' + doubts'[loop'[b].id]
    BY <2>2, <2>5
  <2>7. \A e \in Ids : /\ inbox'[e] \in {"none", "received", "failed"} =>
                            injected'[e] <= restarts' + doubts'[e]
                       /\ injected'[e] <= 1 + restarts' + doubts'[e]
    BY <2>4, <2>5
  <2> QED BY <2>6, <2>7 DEF InjectionBounded
<1>16. ProcessedWasHandled'
  BY <1>6, <1>8 DEF Consistent, ProcessedWasHandled, Handled
<1> QED BY <1>9, <1>10, <1>11, <1>12, <1>13, <1>14, <1>15, <1>16 DEF Consistent

\* recv_loop sends the ack it has worded.
LEMMA SendRecvAckInv ==
  ASSUME Consistent, SendRecvAck
  PROVE  Consistent'
<1>1. /\ peer \in Conns /\ recvAck \in Ack /\ recvAck \in Frames /\ Write(peer, recvAck)
      /\ recvAck' = NoAck
  BY DEF SendRecvAck, Consistent, TypeOK, Frames
<1>2. /\ up' \in [Conns -> Seq(Frames)]
      /\ \A b \in Conns : Elems(up'[b]) \subseteq Elems(up[b]) \union {recvAck}
  BY <1>1, WriteProps DEF Consistent
<1>3. UNCHANGED <<dlv, created, worker, cap, timers, conn, current, down, peer, ended,
                  inbox, arrival, loop, busyAcked, injected, doubts, answered, disturbed, restarts,
                  hubRestarts>>
  BY DEF SendRecvAck, hubVars, inboxVars, crashVars
<1>4. TypeOK'
  BY <1>1, <1>2, <1>3 DEF Consistent, TypeOK, InboxTypeOK, Frames
<1>5. AcksTruthful'
  <2>1. ASSUME NEW b \in Conns, NEW a \in Elems(up'[b]), a.kind = "processed"
        PROVE  inbox[a.id] = "processed"
    <3>1. a \in Elems(up[b]) \/ a = recvAck
      BY <1>2, <2>1
    <3> QED BY <2>1, <3>1 DEF Consistent, AcksTruthful
  <2> QED BY <1>1, <1>3, <2>1 DEF AcksTruthful, NoAck
<1>6. KnownToHub' /\ LoopsHold' /\ LoopsExclusive' /\ HandledFirst'
  BY <1>3 DEF Consistent, KnownToHub, LoopsHold, LoopsExclusive, HandledFirst, Handled
<1>7. InjectionBounded' /\ ProcessedWasHandled'
  BY <1>3 DEF Consistent, InjectionBounded, ProcessedWasHandled, Handled
<1> QED BY <1>4, <1>5, <1>6, <1>7 DEF Consistent

LEMMA TypedFacts ==
  ASSUME TypeOK, NEW c \in Conns, loop[c].id \in Ids, NEW n \in Nat, NEW k \in Nat, Typed(c, n, k)
  PROVE  /\ injected' \in [Ids -> Nat] /\ doubts' \in [Ids -> Nat]
         /\ injected'[loop[c].id] = injected[loop[c].id] + n
         /\ doubts'[loop[c].id] = doubts[loop[c].id] + k
         /\ \A e \in Ids \ {loop[c].id} : injected'[e] = injected[e] /\ doubts'[e] = doubts[e]
<1> DEFINE d == loop[c].id
<1>1. injected \in [Ids -> Nat] /\ doubts \in [Ids -> Nat] /\ d \in Ids
  BY DEF TypeOK
<1>2. /\ injected' = [injected EXCEPT ![d] = injected[d] + n]
      /\ doubts' = [doubts EXCEPT ![d] = doubts[d] + k]
  BY DEF Typed
<1> HIDE DEF d
<1>3. injected[d] \in Nat /\ doubts[d] \in Nat
  BY <1>1
<1>4. injected[d] + n \in Nat /\ doubts[d] + k \in Nat
  BY <1>3, SumFacts
<1>5. /\ injected' \in [Ids -> Nat] /\ doubts' \in [Ids -> Nat]
      /\ injected'[d] = injected[d] + n /\ doubts'[d] = doubts[d] + k
      /\ \A e \in Ids \ {d} : injected'[e] = injected[e] /\ doubts'[e] = doubts[e]
  BY <1>1, <1>2, <1>4
<1> QED BY <1>5 DEF d

LEMMA HelperStepInv ==
  ASSUME Consistent, HelperStep
  PROVE  Consistent'
<1>0. TypeOK /\ loop \in [Conns -> LoopStates] /\ {"failed", "processed"} \subseteq InboxState
  BY DEF Consistent, TypeOK, LoopStates, InboxState
<1>1. ASSUME NEW c \in Conns, loop[c].pc \in {"got", "raised"}, Failed(c) \/ PutBack(c)
      PROVE  Consistent'
  <2>1. loop[c].pc \in Holding /\ loop[c].id \in Ids /\ inbox[loop[c].id] = "processing"
    BY <1>1 DEF Consistent, LoopsHold, Holding
  <2>2. TypeOK' /\ \E v \in {"failed", "received"} : TurnEnds(c, v, {"failed", "busy"})
    BY <1>0, <1>1, <2>1, RaisedTypes
  <2>3. PICK v \in {"failed", "received"} : TurnEnds(c, v, {"failed", "busy"})
    BY <2>2
  <2>4. /\ v \in {"failed", "received", "processed"} /\ v # "processed"
        /\ {"failed", "busy"} \in SUBSET AckKind /\ "processed" \notin {"failed", "busy"}
    BY DEF AckKind
  <2> QED BY <1>1, <2>1, <2>2, <2>3, <2>4, TurnInv
<1>2. ASSUME NEW c \in Conns, LoopFinish(c)
      PROVE  Consistent'
  <2>1. loop[c].pc = "done" /\ loop[c].pc \in Holding /\ loop[c].id \in Ids
    BY <1>2 DEF LoopFinish, Consistent, LoopsHold, Holding
  <2>2. /\ inbox' = [inbox EXCEPT ![loop[c].id] = "processed"] /\ UNCHANGED arrival
        /\ busyAcked' \subseteq Ids /\ SendAck(c, "processed")
    BY <1>0, <1>2 DEF LoopFinish, Finish, TypeOK
  <2>3. {"processed"} \in SUBSET AckKind /\ "processed" \in AckKind
    BY DEF AckKind
  <2>4. TypeOK' /\ TurnEnds(c, "processed", {"processed"})
    BY <1>0, <2>1, <2>2, <2>3, TurnTypes
  <2> QED BY <2>1, <2>3, <2>4, TurnInv
<1>3. ASSUME NEW c \in Conns, LoopInject(c)
      PROVE  Consistent'
  <2>1. PICK pc \in {"reply", "done"} : loop' = [loop EXCEPT ![c].pc = pc]
    BY <1>3 DEF LoopInject
  <2>2. PICK n \in Typings : Typed(c, n, n - 1)
    BY <1>3 DEF LoopInject
  <2>3. n \in Nat /\ n - 1 \in Nat /\ n > 0
    BY DEF Typings
  <2>4. loop[c].pc = "got" /\ loop[c].id \in Ids
    BY <1>3 DEF LoopInject, Consistent, LoopsHold, Holding
  <2>5. Goes(c, pc, n, n - 1)
    <3>1. n + Slack(pc) <= Slack(loop[c].pc) + (n - 1)
      BY <2>3, <2>4 DEF Slack
    <3>2. /\ injected' \in [Ids -> Nat] /\ doubts' \in [Ids -> Nat]
          /\ injected'[loop[c].id] = injected[loop[c].id] + n
          /\ doubts'[loop[c].id] = doubts[loop[c].id] + (n - 1)
          /\ \A e \in Ids \ {loop[c].id} : injected'[e] = injected[e] /\ doubts'[e] = doubts[e]
      BY <1>0, <2>2, <2>3, <2>4, TypedFacts
    <3> QED BY <1>3, <2>1, <2>3, <2>4, <3>1, <3>2 DEF LoopInject, Goes
  <2> QED BY <2>3, <2>5, MoveInv
<1>4. ASSUME NEW c \in Conns, LoopRaise(c)
      PROVE  Consistent'
  <2>1. PICK n \in Typings : Typed(c, n, n)
    BY <1>4 DEF LoopRaise
  <2>2. n \in Nat
    BY DEF Typings
  <2>3. loop[c].pc = "got" /\ loop[c].id \in Ids
    BY <1>4 DEF LoopRaise, Consistent, LoopsHold, Holding
  <2>4. Goes(c, "raised", n, n)
    <3>1. n + Slack("raised") <= Slack(loop[c].pc) + n
      BY <2>2, <2>3 DEF Slack
    <3>2. /\ injected' \in [Ids -> Nat] /\ doubts' \in [Ids -> Nat]
          /\ injected'[loop[c].id] = injected[loop[c].id] + n
          /\ doubts'[loop[c].id] = doubts[loop[c].id] + n
          /\ \A e \in Ids \ {loop[c].id} : injected'[e] = injected[e] /\ doubts'[e] = doubts[e]
      BY <1>0, <2>1, <2>2, <2>3, TypedFacts
    <3> QED BY <1>4, <2>2, <2>3, <3>1, <3>2 DEF LoopRaise, Goes
  <2> QED BY <2>2, <2>4, MoveInv
<1>5. ASSUME NEW c \in Conns, LoopNotReady(c)
      PROVE  Consistent'
  <2>1. loop[c].id \in Ids
    BY <1>5 DEF LoopNotReady, Consistent, LoopsHold, Holding
  <2>2. Goes(c, "sorry", 0, 0)
    <3>1. 0 + Slack("sorry") <= Slack(loop[c].pc) + 0
      BY <1>5 DEF LoopNotReady, Slack
    <3>2. /\ injected' = injected /\ doubts' = doubts
          /\ injected \in [Ids -> Nat] /\ doubts \in [Ids -> Nat]
      BY <1>0, <1>5 DEF LoopNotReady, TypeOK
    <3>3. injected[loop[c].id] + 0 = injected[loop[c].id] /\ doubts[loop[c].id] + 0 = doubts[loop[c].id]
      BY <2>1, <3>2
    <3> QED BY <1>5, <2>1, <3>1, <3>2, <3>3 DEF LoopNotReady, Goes
  <2> QED BY <2>2, MoveInv
<1>6. ASSUME NEW c \in Conns, LoopReply(c)
      PROVE  Consistent'
  <2>1. loop[c].id \in Ids /\ loop[c].pc \in {"reply", "sorry"}
    BY <1>6 DEF LoopReply, Consistent, LoopsHold, Holding
  <2>2. CASE ~Raises(c)
    <3>1. Goes(c, "done", 0, 0)
      <4>1. 0 + Slack("done") <= Slack(loop[c].pc) + 0
        BY <2>1 DEF Slack
      <4>2. /\ injected' = injected /\ doubts' = doubts
            /\ injected \in [Ids -> Nat] /\ doubts \in [Ids -> Nat]
        BY <1>0, <1>6, <2>2 DEF LoopReply, TypeOK
      <4>3. injected[loop[c].id] + 0 = injected[loop[c].id] /\ doubts[loop[c].id] + 0 = doubts[loop[c].id]
        BY <2>1, <4>2
      <4>4. loop[c].id \in answered'
        BY <1>6, <2>2 DEF LoopReply
      <4> QED BY <1>6, <2>1, <2>2, <4>1, <4>2, <4>3, <4>4 DEF LoopReply, Goes
    <3> QED BY <3>1, MoveInv
  <2>3. CASE Raises(c)
    <3> DEFINE k == IF loop[c].pc = "reply" THEN 1 ELSE 0
    <3>1. doubts' = [doubts EXCEPT ![loop[c].id] = doubts[loop[c].id] + k] /\ k \in Nat
      BY <1>6, <2>3 DEF LoopReply
    <3>2. 0 + Slack("raised") <= Slack(loop[c].pc) + k
      BY <2>1 DEF Slack
    <3> HIDE DEF k
    <3>3. Goes(c, "raised", 0, k)
      <4>1. /\ injected' = injected /\ doubts' \in [Ids -> Nat]
            /\ injected \in [Ids -> Nat] /\ doubts \in [Ids -> Nat]
            /\ doubts'[loop[c].id] = doubts[loop[c].id] + k
            /\ \A e \in Ids \ {loop[c].id} : doubts'[e] = doubts[e]
        <5>1. injected' = injected /\ injected \in [Ids -> Nat] /\ doubts \in [Ids -> Nat]
          BY <1>0, <1>6 DEF LoopReply, TypeOK
        <5>2. doubts[loop[c].id] + k \in Nat
          BY <2>1, <3>1, <5>1
        <5> QED BY <2>1, <3>1, <5>1, <5>2
      <4>2. injected[loop[c].id] + 0 = injected[loop[c].id]
        BY <2>1, <4>1
      <4> QED BY <1>6, <2>1, <2>3, <3>2, <4>1, <4>2 DEF LoopReply, Goes
    <3> QED BY <3>1, <3>3, MoveInv
  <2> QED BY <2>2, <2>3
<1>7. ASSUME NEW c \in Conns, LoopFail(c) \/ LoopRaised(c)
      PROVE  Consistent'
  BY <1>1, <1>7 DEF LoopFail, LoopRaised
<1> QED BY <1>2, <1>3, <1>4, <1>5, <1>6, <1>7, ReceiveInv, SendRecvAckInv, ClaimInv DEF HelperStep

\* What the environment may do to the helper: only a restart takes a delivery
\* out of processing, and then no loop is left that holds one.
LEMMA EnvStepHelper ==
  ASSUME TypeOK, EnvStep
  PROVE  /\ \A d \in Ids : \/ inbox'[d] = inbox[d]
                            \/ /\ inbox[d] = "processing" /\ inbox'[d] = "received"
                               /\ restarts' = restarts + 1
         /\ \A c \in Conns : loop'[c].pc \in Holding => loop'[c] = loop[c] /\ inbox' = inbox
         /\ recvAck' \in {recvAck, NoAck}
<1>0. /\ loop \in [Conns -> LoopStates] /\ inbox \in [Ids -> InboxState]
      /\ "poll" \notin Holding /\ "off" \notin Holding
  BY DEF TypeOK, InboxTypeOK, LoopStates, Holding
<1>1. CASE HelperRestart
  <2>1. \A c \in Conns : loop'[c].pc \notin Holding
    BY <1>0, <1>1, LoopFacts DEF HelperRestart
  <2> QED BY <1>0, <1>1, <2>1 DEF HelperRestart, Recover
<1>2. ASSUME NEW c \in Conns, Connect(c)
      PROVE  /\ UNCHANGED <<inbox, recvAck>>
             /\ \A b \in Conns : loop'[b].pc \in Holding => loop'[b] = loop[b]
  <2>1. UNCHANGED <<inbox, recvAck>> /\ loop' = [loop EXCEPT ![c] = LoopAt("poll")]
    BY <1>2 DEF Connect, inboxVars
  <2> QED BY <1>0, <2>1, LoopFacts
<1>3. CASE HelperLoses \/ HelperEnds \/ HubRestart \/ Tick
  BY <1>3 DEF HelperLoses, HelperEnds, HubRestart, Tick, helperVars, inboxVars
<1>4. ASSUME NEW c \in Conns, HubLoses(c)
      PROVE  UNCHANGED <<inbox, loop, recvAck>>
  BY <1>4 DEF HubLoses, helperVars, inboxVars
<1>5. ASSUME NEW d \in Ids, Age(d)
      PROVE  UNCHANGED <<inbox, loop, recvAck>>
  BY <1>5 DEF Age, helperVars, inboxVars
<1> QED BY <1>1, <1>2, <1>3, <1>4, <1>5 DEF EnvStep

LEMMA LaterLife ==
  ASSUME NEW i \in Nat, NEW b \in Nat, NEW r \in Nat, NEW q \in Nat, r <= q
  PROVE  i <= r + b => i <= q + b
OBVIOUS

LEMMA EnvStepInv ==
  ASSUME Consistent, EnvStep
  PROVE  Consistent'
<1>1. /\ TypeOK' /\ UNCHANGED <<injected, doubts, answered, created>> /\ restarts <= restarts'
      /\ worker' # "idle" => worker # "idle"
      /\ \A c \in Conns : /\ Elems(up'[c]) \subseteq Elems(up[c]) \union {Cap}
                          /\ Elems(down'[c]) \subseteq Elems(down[c])
      /\ \A d \in Ids : dlv'[d].state = dlv[d].state
  BY EnvStepTypes DEF Consistent
<1>2. /\ \A d \in Ids : \/ inbox'[d] = inbox[d]
                         \/ /\ inbox[d] = "processing" /\ inbox'[d] = "received"
                            /\ restarts' = restarts + 1
      /\ \A c \in Conns : loop'[c].pc \in Holding => loop'[c] = loop[c] /\ inbox' = inbox
      /\ recvAck' \in {recvAck, NoAck}
  BY EnvStepHelper DEF Consistent
<1>3. \A d \in Ids : inbox'[d] = "processed" <=> inbox[d] = "processed"
  BY <1>2
<1>4. \A c \in Conns : Elems(down[c]) \subseteq Ids
  BY LenProperties DEF Consistent, TypeOK, Elems
<1>5. KnownToHub'
  <2>1. \A d \in Ids : inbox'[d] # "none" => dlv'[d].state # "none"
    BY <1>1, <1>2 DEF Consistent, KnownToHub
  <2>2. \A c \in Conns : \A d \in Elems(down'[c]) : dlv'[d].state # "none"
    BY <1>1, <1>4 DEF Consistent, KnownToHub
  <2>3. worker' # "idle" => created' # 0
    BY <1>1 DEF Consistent, KnownToHub
  <2> QED BY <2>1, <2>2, <2>3 DEF KnownToHub
<1>6. AcksTruthful'
  BY <1>1, <1>2, <1>3, OldAcks DEF AcksTruthful, Cap, NoAck
<1>7. LoopsHold' /\ LoopsExclusive'
  BY <1>2 DEF Consistent, LoopsHold, LoopsExclusive
<1>8. HandledFirst'
  BY <1>1, <1>2, <1>3 DEF Consistent, HandledFirst, Handled, Holding
<1>9. InjectionBounded'
  <2>1. /\ injected \in [Ids -> Nat] /\ doubts \in [Ids -> Nat] /\ restarts \in Nat
        /\ restarts' \in Nat /\ injected' = injected /\ doubts' = doubts /\ InjectionBounded
    <3>1. /\ restarts \in 0..MaxRestart /\ restarts' \in 0..MaxRestart /\ MaxRestart \in Nat
          /\ injected \in [Ids -> Nat] /\ doubts \in [Ids -> Nat]
      BY <1>1, DeliveryAssumption DEF Consistent, TypeOK
    <3> QED BY <1>1, <3>1 DEF Consistent
  <2>2. ASSUME NEW d \in Ids
        PROVE  /\ inbox'[d] \in {"none", "received", "failed"} =>
                    injected[d] <= restarts' + doubts[d]
               /\ injected[d] <= 1 + restarts' + doubts[d]
    <3>1. /\ injected[d] \in Nat /\ doubts[d] \in Nat /\ restarts <= restarts'
          /\ injected[d] <= 1 + restarts + doubts[d]
          /\ inbox[d] \in {"none", "received", "failed"} => injected[d] <= restarts + doubts[d]
      BY <1>1, <2>1 DEF InjectionBounded
    <3>2. CASE inbox'[d] = inbox[d]
      BY <2>1, <3>1, <3>2
    <3>3. CASE inbox'[d] # inbox[d]
      BY <1>2, <2>1, <3>1, <3>3
    <3> QED BY <3>2, <3>3
  <2>3. ASSUME NEW c \in Conns, loop'[c].pc \in {"got", "sorry", "raised"}
        PROVE  injected[loop'[c].id] <= restarts' + doubts[loop'[c].id]
    <3>1. /\ loop'[c] = loop[c] /\ loop[c].id \in Ids
      BY <1>2, <2>3 DEF Consistent, LoopsHold, Holding
    <3>2. /\ injected[loop[c].id] \in Nat /\ doubts[loop[c].id] \in Nat
          /\ injected[loop[c].id] <= restarts + doubts[loop[c].id] /\ restarts <= restarts'
      BY <1>1, <2>1, <2>3, <3>1 DEF InjectionBounded
    <3> QED BY <2>1, <3>1, <3>2, LaterLife
  <2> QED BY <2>1, <2>2, <2>3 DEF InjectionBounded
<1>10. ProcessedWasHandled'
  BY <1>1, <1>3 DEF Consistent, ProcessedWasHandled, Handled
<1> QED BY <1>1, <1>5, <1>6, <1>7, <1>8, <1>9, <1>10 DEF Consistent

-----------------------------------------------------------------------------
(* Theorems *)

LEMMA InitInv ==
  ASSUME Init
  PROVE  Consistent
<1>1. /\ NoRow \in Row /\ <<>> \in Seq(Ids) /\ <<>> \in Seq(Frames) /\ Elems(<<>>) = {}
      /\ LoopAt("off") \in LoopStates /\ LoopAt("off").pc = "off" /\ NoRow.state = "none"
      /\ 0 \in 0..MaxMsg /\ 0 \in 0..MaxRestart /\ 0 \in 0..MaxHubRestart
  BY LoopFacts, EmptyElems, TableAssumption, DeliveryAssumption DEF NoRow, Row
<1>2. TypeOK
  BY <1>1 DEF Init, InboxInit, TypeOK, InboxTypeOK, InboxState, LoopStates, Frames
<1>3. KnownToHub /\ AcksTruthful /\ ProcessedWasHandled
  BY <1>1 DEF Init, InboxInit, KnownToHub, AcksTruthful, ProcessedWasHandled, NoAck
<1>4. LoopsHold /\ LoopsExclusive /\ HandledFirst /\ InjectionBounded
  BY <1>1, <1>2 DEF Init, InboxInit, LoopsHold, LoopsExclusive, HandledFirst, InjectionBounded, Holding,
                    TypeOK
<1> QED BY <1>2, <1>3, <1>4 DEF Consistent

LEMMA StutterInv ==
  ASSUME Consistent, UNCHANGED vars
  PROVE  Consistent'
<1>1. UNCHANGED <<dlv, created, worker, cap, timers, conn, current, down, up, peer, ended,
                  inbox, arrival, recvAck, loop, busyAcked, injected, doubts, answered, disturbed, restarts,
                  hubRestarts>>
  BY DEF vars, hubVars, linkVars, helperVars, crashVars
<1>2. TypeOK' /\ KnownToHub' /\ AcksTruthful' /\ ProcessedWasHandled'
  BY <1>1 DEF Consistent, TypeOK, InboxTypeOK, KnownToHub, AcksTruthful, ProcessedWasHandled, Handled
<1>3. LoopsHold' /\ LoopsExclusive' /\ HandledFirst' /\ InjectionBounded'
  BY <1>1 DEF Consistent, LoopsHold, LoopsExclusive, HandledFirst, InjectionBounded, Handled
<1> QED BY <1>2, <1>3 DEF Consistent

\* The inductive invariant: types, truthful acks, exclusive loops, and the
\* processed outcome of the hub backed by the inbox of the helper, whatever
\* breaks, restarts or arrives late (sessionDeliveryAck of hub.go, inbox.py).
THEOREM ConsistentAlways == Spec => []Consistent
<1>1. Init => Consistent
  BY InitInv
<1>2. Consistent /\ [Next]_vars => Consistent'
  BY HubStepInv, HelperStepInv, EnvStepInv, StutterInv DEF Next
<1> QED BY <1>1, <1>2, PTL DEF Spec

\* Every variable keeps its type.
THEOREM TypesAlways == Spec => []TypeOK
<1>1. Consistent => TypeOK
  BY DEF Consistent
<1> QED BY <1>1, ConsistentAlways, PTL

\* handleSessionDeliveryAck reports processed only what the helper has handled.
THEOREM ProcessedAlwaysHandled == Spec => []ProcessedWasHandled
<1>1. Consistent => ProcessedWasHandled
  BY DEF Consistent
<1> QED BY <1>1, ConsistentAlways, PTL

\* claim_next never gives one delivery to two delivery_worker_loops.
THEOREM LoopsAlwaysExclusive == Spec => []LoopsExclusive
<1>1. Consistent => LoopsExclusive
  BY DEF Consistent
<1> QED BY <1>1, ConsistentAlways, PTL

\* Whether or not the helper waits for the CLI's answer, the text of a delivery is
\* typed at most once in each life of the helper, but for the typings it did not
\* take for one: an ack that is lost, a lease that ends or a new connection never
\* has a delivery typed again (inbox.accept, claim_next, finish and release).
THEOREM InjectedAtMostOnce == Spec => []InjectedOncePerLife
<1>1. Consistent => InjectedOncePerLife
  BY DEF Consistent, InjectionBounded, InjectedOncePerLife
<1> QED BY <1>1, ConsistentAlways, PTL

\* What a step of the helper or of the environment does to what the promise
\* speaks of: nothing but handing the CLI, or its sender, a known delivery.
LEMMA HandledMoves ==
  ASSUME Consistent, HelperStep \/ EnvStep, NEW d \in Ids
  PROVE  /\ dlv'[d].state = dlv[d].state
         /\ Handled(d) => Handled(d)'
         /\ Handled(d)' /\ ~Handled(d) => dlv[d].state # "none"
<1>0. /\ injected \in [Ids -> Nat] /\ answered \subseteq Ids
  BY DEF Consistent, TypeOK
<1>1. CASE EnvStep
  <2>1. /\ UNCHANGED <<injected, answered>> /\ dlv'[d].state = dlv[d].state
    BY <1>1, EnvStepTypes DEF Consistent
  <2> QED BY <2>1 DEF Handled
<1>2. CASE HelperStep
  <2>1. \/ UNCHANGED <<injected, answered>>
        \/ \E c \in Conns :
             /\ loop[c].pc \in {"got", "reply", "sorry"}
             /\ \/ /\ \E n \in Typings : injected' = [injected EXCEPT ![loop[c].id] = @ + n]
                   /\ UNCHANGED answered
                \/ answered' = answered \union {loop[c].id} /\ UNCHANGED injected
    BY <1>2 DEF HelperStep, Receive, SendRecvAck, LoopClaim, LoopInject, LoopRaise, Typed, LoopNotReady,
                LoopReply, LoopFinish, LoopFail, LoopRaised, Failed, PutBack, SendAck
  <2>2. UNCHANGED dlv
    BY <1>2 DEF HelperStep, Receive, SendRecvAck, LoopClaim, LoopInject, LoopRaise, Typed, LoopNotReady,
                LoopReply, LoopFinish, LoopFail, LoopRaised, Failed, PutBack, SendAck, hubVars
  <2>3. CASE UNCHANGED <<injected, answered>>
    BY <2>2, <2>3 DEF Handled
  <2>4. ASSUME NEW c \in Conns, loop[c].pc \in {"got", "reply", "sorry"},
               \/ /\ \E n \in Typings : injected' = [injected EXCEPT ![loop[c].id] = @ + n]
                  /\ UNCHANGED answered
               \/ answered' = answered \union {loop[c].id} /\ UNCHANGED injected
        PROVE  /\ Handled(d) => injected'[d] > 0 \/ d \in answered'
               /\ (injected'[d] > 0 \/ d \in answered') /\ ~Handled(d) => dlv[d].state # "none"
    <3>1. loop[c].id \in Ids /\ dlv[loop[c].id].state # "none"
      BY <2>4 DEF Consistent, KnownToHub, LoopsHold, Holding
    <3>2. d = loop[c].id \/ (injected'[d] = injected[d] /\ (d \in answered' <=> d \in answered))
      BY <1>0, <2>4, <3>1
    <3>3. injected[d] > 0 => injected'[d] > 0
      BY SMTT(40), <1>0, <2>4, <3>1 DEF Typings
    <3>4. d \in answered => d \in answered'
      BY <2>4
    <3> QED BY <3>1, <3>2, <3>3, <3>4 DEF Handled
  <2> QED BY <2>1, <2>2, <2>3, <2>4 DEF Handled
<1> QED BY <1>1, <1>2

\* The hub and the helper implement the promise: a delivery ends at most once,
\* is processed only when handled, and only what was made is handled.
THEOREM PromiseKept == Spec => KeepsPromise
<1>1. Init => Promise!Init
  <2>1. ASSUME Init PROVE \A d \in Ids : dlv[d].state = "none" /\ ~Handled(d)
    BY <2>1 DEF Init, NoRow, Handled
  <2>2. "none" \notin Open
    BY DEF Open, InFlight
  <2> QED BY <2>1, <2>2 DEF Promise!Init
<1>2. Consistent /\ [Next]_vars => Promise!Next \/ UNCHANGED <<dlv, injected, answered>>
  <2> SUFFICES ASSUME Consistent, [Next]_vars
               PROVE  Promise!Next \/ UNCHANGED <<dlv, injected, answered>>
    OBVIOUS
  <2>1. CASE HubStep
    <3>1. \A d \in Ids : TableMove(d)
      BY <2>1, HubStepMoves
    <3>2. UNCHANGED <<injected, answered>>
      BY <2>1, HubStepTypes DEF Consistent, helperVars
    <3>3. \A d \in Ids : Handled(d)' <=> Handled(d)
      BY <3>2 DEF Handled
    <3>4. \A d \in Ids : inbox[d] = "processed" => Handled(d)
      BY DEF Consistent, HandledFirst
    <3>5. \A d \in Ids : Promise!Moves(d)
      BY <3>1, <3>4 DEF TableMove, Outcome, Promise!Moves, Open, InFlight
    <3> QED BY <3>3, <3>5 DEF Promise!Next
  <2>2. CASE HelperStep \/ EnvStep
    <3>1. \A d \in Ids : /\ dlv'[d].state = dlv[d].state
                         /\ Handled(d) => Handled(d)'
                         /\ Handled(d)' /\ ~Handled(d) => dlv[d].state # "none"
      BY <2>2, HandledMoves
    <3>2. \A d \in Ids : Promise!Moves(d)
      BY <3>1 DEF Promise!Moves
    <3>3. \A d \in Ids : Handled(d)' /\ ~Handled(d) =>
            (IF dlv[d].state \in Open THEN "open" ELSE dlv[d].state) # "none"
      BY <3>1 DEF Open, InFlight
    <3> QED BY <3>1, <3>2, <3>3 DEF Promise!Next
  <2>3. CASE UNCHANGED vars
    BY <2>3 DEF vars, hubVars, helperVars
  <2> QED BY <2>1, <2>2, <2>3 DEF Next
<1>3. UNCHANGED <<dlv, injected, answered>> =>
        UNCHANGED <<[d \in Ids |-> IF dlv[d].state \in Open THEN "open" ELSE dlv[d].state],
                    {d \in Ids : Handled(d)}>>
  BY DEF Handled
<1> QED BY <1>1, <1>2, <1>3, ConsistentAlways, PTL DEF Spec, KeepsPromise, Promise!Spec

-----------------------------------------------------------------------------
(* Order of arrival *)

Arrived == {d \in Ids : inbox[d] # "none"}
Line    == IF peer \in Conns THEN down[peer] ELSE <<>>

\* Given up before it was ever sent.
Never(r) == r.state = "dead" /\ r.attempts = 0

\* Of the n deliveries in table t, those in A have arrived and those in D were
\* disturbed; q is what is on its way.  What was ever sent has arrived, was
\* disturbed or is on its way, and what waits unsent has arrived once.
Accounted(t, n, A, D, q) ==
  /\ \A d \in Ids : t[d].state = "none" <=> d > n
  /\ \A d \in Ids : t[d].attempts > 0 \/ t[d].state \in InFlight => d \in A \union D \union Elems(q)
  /\ \A d \in Ids : t[d].attempts > 0 => t[d].state # "none"
  /\ \A d \in Ids : t[d].state = "queued" /\ t[d].attempts = 0 /\ t[d].wait > 0 => d \in A
  /\ \A d \in Ids : t[d].state = "processed" => d \in A
  /\ \A d \in Elems(q) : t[d].state # "none" /\ (t[d].attempts > 0 \/ d \in A)

\* Whatever is older than what is on its way travels ahead of it, has arrived,
\* was disturbed or never comes; and so for what has arrived.
Ordered(t, A, D, q) ==
  /\ \A k \in DOMAIN q : \A e \in Ids :
       e < q[k] => e \in A \union D \/ Never(t[e]) \/ \E m \in 1..(k-1) : q[m] = e
  /\ \A a \in A : \A e \in Ids : e < a => e \in A \union D \/ Never(t[e])

InLine(t, n, A, D, q) == Accounted(t, n, A, D, q) /\ Ordered(t, A, D, q)

\* Frames travel on the helper's connection only, and none once it has ended.
OnPeer == /\ ended => peer \in Conns /\ conn[peer] = "gone"
          /\ \A c \in Conns : down[c] # <<>> => c = peer /\ ~ended

\* A busy or delivered ack is of a delivery that has arrived; a failed one may
\* be of one that the full inbox refused.
AckTold(a, t, A) ==
  /\ a.kind = "failed" => t[a.id].attempts > 0 \/ a.id \in A
  /\ a.kind \in {"busy", "delivered", "processed"} => a.id \in A

AcksTold == /\ \A c \in Conns : \A a \in Elems(up[c]) : AckTold(a, dlv, Arrived)
            /\ AckTold(recvAck, dlv, Arrived)

FifoIn(s, D) == \A i, j \in DOMAIN s : i < j /\ s[i] > s[j] => s[j] \in D

InOrder ==
  /\ InLine(dlv, created, Arrived, disturbed, Line) /\ OnPeer /\ AcksTold
  /\ Elems(arrival) \subseteq Arrived /\ FifoIn(arrival, disturbed)

\* More may arrive or be disturbed; the line is as it was.
LEMMA MoreSettled ==
  ASSUME NEW t, NEW n, NEW A, NEW D, NEW q, NEW E, D \subseteq E, InLine(t, n, A, D, q)
  PROVE  InLine(t, n, A, E, q)
<1>1. A \union D \subseteq A \union E
  OBVIOUS
<1>2. Accounted(t, n, A, E, q)
  BY <1>1 DEF InLine, Accounted
<1>3. Ordered(t, A, E, q)
  BY <1>1 DEF InLine, Ordered
<1> QED BY <1>2, <1>3 DEF InLine

\* Everything on its way is lost.
LEMMA LineLost ==
  ASSUME NEW t, NEW n, NEW A, NEW D, NEW q, NEW E, D \union Elems(q) \subseteq E, InLine(t, n, A, D, q)
  PROVE  InLine(t, n, A, E, <<>>)
<1>1. /\ A \union D \subseteq A \union E /\ A \union D \union Elems(q) \subseteq A \union E
      /\ Elems(<<>>) = {} /\ DOMAIN <<>> = {}
  BY EmptyElems
<1>2. Accounted(t, n, A, E, <<>>)
  BY <1>1 DEF InLine, Accounted
<1>3. Ordered(t, A, E, <<>>)
  BY <1>1 DEF InLine, Ordered
<1> QED BY <1>2, <1>3 DEF InLine

\* The last ones on their way are lost.
LEMMA LineCut ==
  ASSUME NEW t, NEW n, NEW A, NEW D, NEW q \in Seq(Ids), NEW k \in 0..Len(q), InLine(t, n, A, D, q)
  PROVE  InLine(t, n, A, D \union {q[i] : i \in (k+1)..Len(q)}, SubSeq(q, 1, k))
<1> DEFINE r == SubSeq(q, 1, k)
           E == D \union {q[i] : i \in (k+1)..Len(q)}
<1>1. Len(q) \in Nat /\ DOMAIN q = 1..Len(q)
  BY LenProperties
<1>2. /\ r \in Seq(Ids) /\ Elems(r) \subseteq Elems(q) /\ Len(r) = k
      /\ \A i \in 1..k : r[i] = q[i]
  BY <1>1, CutElems, SubSeqProperties, Z3
<1>3. DOMAIN r = 1..k /\ D \subseteq E
  BY <1>2, LenProperties
<1>4. Elems(q) \subseteq E \union Elems(r)
  <2>1. ASSUME NEW i \in 1..Len(q) PROVE q[i] \in E \union Elems(r)
    <3>1. CASE i <= k
      <4>1. i \in 1..k
        BY <1>1, <3>1
      <4> QED BY <1>2, <1>3, <4>1 DEF Elems
    <3>2. CASE ~(i <= k)
      <4>1. i \in (k+1)..Len(q)
        BY <1>1, <3>2
      <4> QED BY <4>1
    <3> QED BY <3>1, <3>2
  <2> QED BY <1>1, <2>1 DEF Elems
<1> HIDE DEF r, E
<1>5. Accounted(t, n, A, E, r)
  BY <1>2, <1>3, <1>4 DEF InLine, Accounted
<1>6. ASSUME NEW i \in 1..k, NEW e \in Ids, e < r[i]
      PROVE  e \in A \union E \/ Never(t[e]) \/ \E m \in 1..(i-1) : r[m] = e
  <2>1. i \in DOMAIN q /\ r[i] = q[i]
    BY <1>1, <1>2
  <2>2. e \in A \union D \/ Never(t[e]) \/ \E m \in 1..(i-1) : q[m] = e
    BY <1>6, <2>1 DEF InLine, Ordered
  <2>3. \A m \in 1..(i-1) : r[m] = q[m]
    <3>1. \A m \in 1..(i-1) : m \in 1..k
      OBVIOUS
    <3> QED BY <1>2, <3>1
  <2> QED BY <1>3, <2>2, <2>3
<1>7. Ordered(t, A, E, r)
  BY <1>3, <1>6 DEF InLine, Ordered
<1> QED BY <1>5, <1>7 DEF InLine, r, E

\* The first on its way has got through: it has arrived, or was refused.
LEMMA LineRead ==
  ASSUME NEW t, NEW n, NEW A, NEW D, NEW q \in Seq(Ids), q # <<>>, InLine(t, n, A, D, q)
  PROVE  /\ InLine(t, n, A \union {Head(q)}, D, Tail(q))
         /\ InLine(t, n, A, D \union {Head(q)}, Tail(q))
         /\ \A e \in Ids : e < Head(q) => e \in A \union D \/ Never(t[e])
         /\ Head(q) \notin A => ~Never(t[Head(q)])
<1> DEFINE d == Head(q)
           r == Tail(q)
<1>1. /\ Len(q) \in Nat /\ Len(q) # 0 /\ Len(r) = Len(q) - 1 /\ d = q[1] /\ r \in Seq(Ids)
      /\ d \in Ids /\ \A i \in 1..Len(r) : r[i] = q[i + 1]
  OBVIOUS
<1>2. DOMAIN q = 1..Len(q) /\ DOMAIN r = 1..(Len(q) - 1) /\ 1 \in DOMAIN q
  BY <1>1, LenProperties
<1> HIDE DEF d, r
<1>0. \A i \in DOMAIN r : i + 1 \in DOMAIN q /\ r[i] = q[i + 1]
  <2>1. \A N \in Nat : \A i \in 1..(N - 1) : i + 1 \in 1..N
    BY SMTT(30)
  <2>2. \A i \in DOMAIN r : i + 1 \in DOMAIN q
    BY <1>1, <1>2, <2>1
  <2>3. DOMAIN r = 1..Len(r)
    BY <1>1, <1>2
  <2> QED BY <1>1, <2>2, <2>3
<1>3. Elems(q) = Elems(r) \union {d}
  <2>1. ASSUME NEW i \in DOMAIN q PROVE q[i] \in Elems(r) \union {d}
    <3>1. CASE i = 1
      BY <1>1, <3>1
    <3>2. CASE i # 1
      <4>1. i - 1 \in 1..(Len(q) - 1) /\ (i - 1) + 1 = i
        BY SMTT(30), <1>1, <1>2, <3>2
      <4>2. i - 1 \in DOMAIN r /\ r[i - 1] = q[i]
        BY SMTT(30), <1>1, <1>2, <4>1
      <4> QED BY <4>2 DEF Elems
    <3> QED BY <3>1, <3>2
  <2>2. ASSUME NEW i \in DOMAIN r PROVE r[i] \in Elems(q)
    <3>1. i + 1 \in DOMAIN q /\ r[i] = q[i + 1]
      BY <1>0
    <3> QED BY <3>1 DEF Elems
  <2>3. d \in Elems(q)
    BY <1>1, <1>2 DEF Elems
  <2> QED BY <2>1, <2>2, <2>3 DEF Elems
<1>4. \A e \in Ids : e < d => e \in A \union D \/ Never(t[e])
  <2>1. \A e \in Ids : e < q[1] => e \in A \union D \/ Never(t[e]) \/ \E m \in 1..(1-1) : q[m] = e
    BY <1>2 DEF InLine, Ordered
  <2>2. 1..(1-1) = {}
    OBVIOUS
  <2> QED BY <1>1, <2>1, <2>2
<1>5. d \notin A => ~Never(t[d])
  BY <1>3 DEF InLine, Accounted, Never
<1>6. \A k \in DOMAIN r : \A e \in Ids :
        e < r[k] => e \in A \union D \union {d} \/ Never(t[e]) \/ \E m \in 1..(k-1) : r[m] = e
  <2> SUFFICES ASSUME NEW k \in DOMAIN r, NEW e \in Ids, e < r[k],
                      e \notin A \union D \union {d}, ~Never(t[e])
               PROVE  \E m \in 1..(k-1) : r[m] = e
    OBVIOUS
  <2>1. k + 1 \in DOMAIN q /\ r[k] = q[k + 1]
    BY <1>0
  <2>2. PICK m \in 1..((k+1)-1) : q[m] = e
    BY <2>1 DEF InLine, Ordered
  <2>3. m # 1
    BY <1>1, <2>2
  <2>4. m - 1 \in 1..(k-1) /\ m - 1 \in DOMAIN r /\ r[m - 1] = q[m]
    <3>1. m - 1 \in 1..(k-1) /\ (m - 1) + 1 = m
      BY SMTT(30), <1>2, <2>2, <2>3
    <3>2. m - 1 \in 1..(Len(q) - 1)
      BY SMTT(30), <1>1, <1>2, <3>1
    <3> QED BY <1>1, <1>2, <3>1, <3>2
  <2> QED BY <2>2, <2>4
<1>7. Accounted(t, n, A \union {d}, D, r) /\ Accounted(t, n, A, D \union {d}, r)
  BY <1>3 DEF InLine, Accounted
<1>8. Ordered(t, A \union {d}, D, r)
  BY <1>4, <1>6 DEF InLine, Ordered
<1>9. Ordered(t, A, D \union {d}, r)
  BY <1>6 DEF InLine, Ordered
<1> QED BY <1>4, <1>5, <1>7, <1>8, <1>9 DEF InLine, d, r

\* A table in which deliveries have the states, the numbers of attempts and at
\* most the waits that they had.
LEMMA SameRows ==
  ASSUME NEW t, NEW n, NEW A, NEW D, NEW q, NEW u, InLine(t, n, A, D, q), Elems(q) \subseteq Ids,
         \A d \in Ids : /\ u[d].state = t[d].state /\ u[d].attempts = t[d].attempts
                        /\ u[d].wait > 0 => t[d].wait > 0
  PROVE  InLine(u, n, A, D, q)
<1>1. Accounted(u, n, A, D, q)
  BY DEF InLine, Accounted
<1>2. Ordered(u, A, D, q)
  <2>1. \A e \in Ids : Never(t[e]) <=> Never(u[e])
    BY DEF Never
  <2> QED BY SMTT(30), <2>1 DEF InLine, Ordered
<1> QED BY <1>1, <1>2 DEF InLine

\* A new delivery waits behind all others.
LEMMA LineInserted ==
  ASSUME NEW t \in Table, NEW n \in Nat, NEW A \in SUBSET Ids, NEW D, NEW q, Elems(q) \subseteq Ids,
         n + 1 \in Ids, InLine(t, n, A, D, q)
  PROVE  InLine(Inserted(t, n + 1), n + 1, A, D, q)
<1> DEFINE u == Inserted(t, n + 1)
<1>1. t[n + 1].state = "none"
  BY DEF InLine, Accounted
<1>2. /\ \A e \in Ids \ {n + 1} : u[e] = t[e]
      /\ u[n + 1].state = "queued" /\ u[n + 1].attempts = 0 /\ u[n + 1].wait = 0
  BY <1>1 DEF Inserted, NoRow, Table
<1> HIDE DEF u
<1>3. \A e \in Ids : u[e].state = "none" <=> e > n + 1
  <2>1. \A e \in Ids : e \in Nat
    BY DEF Ids
  <2> QED BY <1>2, <2>1 DEF InLine, Accounted
<1>4. n + 1 \notin Elems(q)
  BY <1>1 DEF InLine, Accounted
<1>5. /\ u[n + 1].state \notin InFlight /\ ~(u[n + 1].attempts > 0) /\ ~(u[n + 1].wait > 0)
      /\ u[n + 1].state # "processed" /\ ~Never(t[n + 1])
  BY <1>1, <1>2 DEF InFlight, Never
<1>6. Accounted(u, n + 1, A, D, q)
  BY <1>2, <1>3, <1>4, <1>5 DEF InLine, Accounted
<1>7. \A e \in Ids : Never(t[e]) => Never(u[e])
  BY <1>2, <1>5
<1>8. Ordered(u, A, D, q)
  BY <1>7 DEF InLine, Ordered
<1> QED BY <1>6, <1>8 DEF InLine, u

\* A claim touches the claimed delivery and gives others up, and no delivery is
\* claimed before an older one that was never sent and is not to wait.
LEMMA ClaimedRows ==
  ASSUME NEW t \in Table, NEW d \in Candidates(t)
  PROVE  /\ d \in Ids /\ t[d].state \in Open
         /\ Claimed(t, d)[d].state = "sent" /\ Claimed(t, d)[d].attempts = t[d].attempts + 1
         /\ \A e \in Ids \ {d} :
              /\ Claimed(t, d)[e].attempts = t[e].attempts /\ Claimed(t, d)[e].wait = t[e].wait
              /\ \/ Claimed(t, d)[e].state = t[e].state
                 \/ t[e].state \in Open /\ Claimed(t, d)[e].state = "dead"
         /\ \A e \in Ids : e < d /\ t[e].state = "queued" /\ t[e].attempts = 0
                             => t[e].wait > 0 \/ Claimed(t, d)[e].state = "dead"
<1> DEFINE s == Swept(t)
           u == Claimed(t, d)
<1>1. d \in Ids /\ s[d].state \in Open /\ s \in Table
  BY CandidateProps, SweptProps
<1>2. \A e \in Ids : /\ s[e].attempts = t[e].attempts /\ s[e].wait = t[e].wait
                     /\ \/ s[e] = t[e]
                        \/ t[e].state \in Open /\ s[e].state = "dead"
  BY DEF Swept, Table, Row
<1>3. "dead" \notin Open
  BY DEF Open, InFlight
<1>4. t[d].state \in Open /\ s[d] = t[d]
  BY <1>1, <1>2, <1>3
<1> DEFINE r == [s[d] EXCEPT !.state = "sent", !.attempts = @ + 1, !.wait = Lease(t[d].attempts)]
<1>5. u = [s EXCEPT ![d] = r]
  BY <1>1 DEF Claimed, Table, Row
<1>6. r.state = "sent" /\ r.attempts = t[d].attempts + 1
  <2>1. s[d] \in Row /\ s[d].attempts = t[d].attempts
    BY <1>1, <1>2 DEF Table
  <2> QED BY <2>1 DEF Row
<1> HIDE DEF r
<1>7. u[d] = r /\ \A e \in Ids \ {d} : u[e] = s[e]
  BY <1>1, <1>5 DEF Table
<1> HIDE DEF u
<1>8. ASSUME NEW e \in Ids, e < d, t[e].state = "queued", t[e].attempts = 0, ~(t[e].wait > 0)
      PROVE  u[e].state = "dead"
  <2>1. SUFFICES ASSUME s[e].state # "dead" PROVE FALSE
    <3>1. e # d
      BY <1>1, <1>8 DEF Ids
    <3> QED BY <1>7, <2>1, <3>1
  <2>2. s[e] = t[e] /\ t[e].wait = 0
    <3>1. t[e].wait \in Nat
      BY RowFields DEF Table
    <3> QED BY <1>2, <1>8, <2>1, <3>1
  <2>3. e \in NeverSent(s)
    BY <1>8, <2>2 DEF NeverSent, Due, Open
  <2>4. d <= e
    <3> HIDE DEF s
    <3>1. d \in Oldest(NeverSent(s))
      BY <2>3 DEF Candidates, s
    <3> QED BY <2>3, <3>1 DEF Oldest
  <2> QED BY <1>1, <1>8, <2>4 DEF Ids
<1> QED BY <1>1, <1>2, <1>4, <1>6, <1>7, <1>8 DEF u

\* The claimed delivery joins the line at its end, or counts as disturbed.
LEMMA LineClaimed ==
  ASSUME NEW t \in Table, NEW n \in Nat, NEW A, NEW D, NEW q \in Seq(Ids), NEW d \in Candidates(t),
         InLine(t, n, A, D, q)
  PROVE  /\ InLine(Claimed(t, d), n, A, D, Append(q, d))
         /\ InLine(Claimed(t, d), n, A, D \union {d}, q)
<1> DEFINE u == Claimed(t, d)
           r == Append(q, d)
<1>1. /\ d \in Ids /\ t[d].state \in Open
      /\ u[d].state = "sent" /\ u[d].attempts = t[d].attempts + 1
      /\ \A e \in Ids \ {d} : /\ u[e].attempts = t[e].attempts /\ u[e].wait = t[e].wait
                              /\ u[e].state = t[e].state \/ (t[e].state \in Open /\ u[e].state = "dead")
      /\ \A e \in Ids : e < d /\ t[e].state = "queued" /\ t[e].attempts = 0
                          => t[e].wait > 0 \/ u[e].state = "dead"
  BY ClaimedRows
<1> HIDE DEF u
<1>2. /\ r \in Seq(Ids) /\ Elems(r) = Elems(q) \union {d} /\ Len(q) \in Nat
      /\ DOMAIN q = 1..Len(q) /\ DOMAIN r = 1..(Len(q) + 1)
      /\ r[Len(q) + 1] = d /\ \A i \in 1..Len(q) : r[i] = q[i]
  BY <1>1, AppendElems, LenProperties
<1> HIDE DEF r
<1>3. \A e \in Ids : t[e].attempts \in Nat /\ t[e].state \in {"none"} \union Open \union Terminal
  BY RowFields DEF Table
<1>4. /\ "none" \notin Open /\ "dead" \notin Open /\ "processed" \notin Open
      /\ "dead" \notin InFlight /\ "queued" \notin InFlight /\ "none" \notin InFlight
      /\ Open = {"queued"} \union InFlight
  BY DEF Open, InFlight
<1>0. \A k \in Nat : ~(k > 0) => k = 0
  OBVIOUS
<1>5. u[d].attempts > 0
  <2>1. t[d].attempts \in Nat
    BY <1>1, <1>3
  <2>2. \A k \in Nat : k + 1 > 0
    OBVIOUS
  <2> QED BY <1>1, <2>1, <2>2
<1>6. ~(d > n)
  BY <1>1, <1>4 DEF InLine, Accounted
<1>7. \A e \in Ids : Never(t[e]) => Never(u[e])
  BY <1>1, <1>4 DEF Never
<1>8. \A e \in Ids : u[e].state = "none" <=> e > n
  BY <1>1, <1>4, <1>6 DEF InLine, Accounted
<1>9. \A e \in Ids : e # d /\ (u[e].attempts > 0 \/ u[e].state \in InFlight)
                       => e \in A \union D \union Elems(q)
  BY <1>1, <1>4 DEF InLine, Accounted
<1>10. \A e \in Ids : u[e].state = "queued" /\ u[e].attempts = 0 /\ u[e].wait > 0 => e \in A
  BY <1>1, <1>4 DEF InLine, Accounted
<1>11. \A e \in Ids : u[e].state = "processed" => e \in A
  BY <1>1, <1>4 DEF InLine, Accounted
<1>12. \A e \in Elems(q) : u[e].state # "none" /\ (u[e].attempts > 0 \/ e \in A)
  <2>1. Elems(q) \subseteq Ids
    BY <1>2 DEF Elems
  <2> QED BY <1>1, <1>4, <1>5, <2>1 DEF InLine, Accounted
<1>13. \A e \in Ids : u[e].attempts > 0 => u[e].state # "none"
  BY <1>1, <1>4 DEF InLine, Accounted
<1>14. Accounted(u, n, A, D, r)
  BY <1>1, <1>2, <1>5, <1>8, <1>9, <1>10, <1>11, <1>12, <1>13 DEF Accounted
<1>15. Accounted(u, n, A, D \union {d}, q)
  BY <1>8, <1>9, <1>10, <1>11, <1>12, <1>13 DEF Accounted
<1>16. Ordered(u, A, D \union {d}, q)
  BY <1>7 DEF InLine, Ordered
<1>17. ASSUME NEW e \in Ids, e < d
       PROVE  e \in A \union D \/ Never(u[e]) \/ \E m \in 1..Len(q) : q[m] = e
  <2>1. e \in Elems(q) => \E m \in 1..Len(q) : q[m] = e
    BY <1>2 DEF Elems
  <2>2. ~(e > n) /\ e # d
    BY <1>1, <1>6, <1>17 DEF Ids
  <2>3. CASE t[e].attempts > 0 \/ t[e].state \in InFlight \/ t[e].state = "processed"
    BY <2>1, <2>3 DEF InLine, Accounted
  <2>4. CASE t[e].state = "dead" /\ ~(t[e].attempts > 0)
    <3>1. t[e].attempts = 0
      BY <1>0, <1>3, <2>4
    <3> QED BY <1>7, <2>4, <3>1 DEF Never
  <2>5. CASE t[e].state = "queued" /\ ~(t[e].attempts > 0)
    <3>1. t[e].attempts = 0
      BY <1>0, <1>3, <2>5
    <3>2. CASE t[e].wait > 0
      BY <2>5, <3>1, <3>2 DEF InLine, Accounted
    <3>3. CASE u[e].state = "dead"
      BY <1>1, <2>2, <3>1, <3>3 DEF Never
    <3> QED BY <1>1, <1>17, <2>5, <3>1, <3>2, <3>3
  <2>6. t[e].state # "none"
    BY <2>2 DEF InLine, Accounted
  <2> QED BY <1>3, <1>4, <2>3, <2>4, <2>5, <2>6 DEF Terminal
<1>18. ASSUME NEW k \in DOMAIN r, NEW e \in Ids, e < r[k]
       PROVE  e \in A \union D \/ Never(u[e]) \/ \E m \in 1..(k-1) : r[m] = e
  <2>1. CASE k \in 1..Len(q)
    <3>1. e \in A \union D \/ Never(t[e]) \/ \E m \in 1..(k-1) : q[m] = e
      BY <1>2, <1>18, <2>1 DEF InLine, Ordered
    <3>2. \A m \in 1..(k-1) : r[m] = q[m]
      BY <1>2, <2>1
    <3> QED BY <1>7, <3>1, <3>2
  <2>2. CASE k = Len(q) + 1
    <3>1. e \in A \union D \/ Never(u[e]) \/ \E m \in 1..Len(q) : q[m] = e
      BY <1>2, <1>17, <1>18, <2>2
    <3>2. \A m \in 1..Len(q) : m \in 1..(k-1) /\ r[m] = q[m]
      BY <1>2, <2>2
    <3> QED BY <3>1, <3>2
  <2> QED BY <1>2, <1>18, <2>1, <2>2
<1>19. Ordered(u, A, D, r)
  BY <1>7, <1>18 DEF InLine, Ordered
<1> QED BY <1>14, <1>15, <1>16, <1>19 DEF InLine, u, r

\* What had been sent in table t counts as sent in u, or has arrived.
KeepsSent(t, u, A) == \A d \in Ids : t[d].attempts > 0 => u[d].attempts > 0 \/ d \in A

\* An ack ends, delays or requeues a delivery that has been sent or arrived.
LEMMA LineUpdated ==
  ASSUME NEW t \in Table, NEW n, NEW A, NEW D, NEW q, Elems(q) \subseteq Ids, InLine(t, n, A, D, q),
         NEW d \in Ids, NEW v \in {"queued", "delivered", "processed"}, NEW w \in Nat,
         d \in A \/ (v = "queued" /\ t[d].attempts > 0)
  PROVE  InLine(Updated(t, d, v, w), n, A, D, q) /\ KeepsSent(t, Updated(t, d, v, w), A)
<1> DEFINE u == Updated(t, d, v, w)
<1>1. CASE t[d].state \in Open
  <2>1. /\ u[d].state = v /\ u[d].attempts = t[d].attempts /\ u[d].wait = w
        /\ \A e \in Ids \ {d} : u[e] = t[e]
    BY <1>1 DEF Updated, Table, Row
  <2>2. t[d].state # "none" /\ t[d].state # "dead" /\ v # "none" /\ v # "dead"
    BY <1>1 DEF Open, InFlight
  <2> HIDE DEF u
  <2>3. Accounted(u, n, A, D, q)
    <3>1. \A e \in Ids : u[e].state = "none" <=> e > n
      BY <2>1, <2>2 DEF InLine, Accounted
    <3>2. u[d].attempts > 0 \/ u[d].state \in InFlight => d \in A \union D \union Elems(q)
      BY <2>1 DEF InLine, Accounted, InFlight
    <3>3. \A e \in Ids : u[e].attempts > 0 \/ u[e].state \in InFlight
                           => e \in A \union D \union Elems(q)
      BY <2>1, <3>2 DEF InLine, Accounted
    <3>4. \A e \in Ids : u[e].state = "queued" /\ u[e].attempts = 0 /\ u[e].wait > 0 => e \in A
      BY <2>1 DEF InLine, Accounted
    <3>5. \A e \in Ids : u[e].state = "processed" => e \in A
      BY <2>1 DEF InLine, Accounted
    <3>6. \A e \in Elems(q) : u[e].state # "none" /\ (u[e].attempts > 0 \/ e \in A)
      BY <2>1, <2>2 DEF InLine, Accounted
    <3>7. \A e \in Ids : u[e].attempts > 0 => u[e].state # "none"
      BY <2>1, <2>2 DEF InLine, Accounted
    <3> QED BY <3>1, <3>3, <3>4, <3>5, <3>6, <3>7 DEF Accounted
  <2>4. \A e \in Ids : Never(t[e]) => Never(u[e])
    BY <2>1, <2>2 DEF Never
  <2>5. Ordered(u, A, D, q)
    BY <2>4 DEF InLine, Ordered
  <2> QED BY <2>1, <2>3, <2>5 DEF InLine, KeepsSent, u
<1>2. CASE t[d].state \notin Open
  BY <1>2 DEF Updated, KeepsSent
<1> QED BY <1>1, <1>2

LEMMA LineDeferred ==
  ASSUME NEW t \in Table, NEW n, NEW A, NEW D, NEW q, Elems(q) \subseteq Ids, InLine(t, n, A, D, q),
         NEW d \in Ids, NEW w \in Nat, d \in A
  PROVE  InLine(Deferred(t, d, w), n, A, D, q) /\ KeepsSent(t, Deferred(t, d, w), A)
<1> DEFINE u == Deferred(t, d, w)
<1>1. CASE t[d].state \in Open
  <2>1. u[d].state = "queued" /\ \A e \in Ids \ {d} : u[e] = t[e]
    BY <1>1 DEF Deferred, Table, Row
  <2>2. t[d].state # "none" /\ t[d].state # "dead"
    BY <1>1 DEF Open, InFlight
  <2> HIDE DEF u
  <2>3. Accounted(u, n, A, D, q)
    BY <2>1, <2>2 DEF InLine, Accounted
  <2>4. \A e \in Ids : Never(t[e]) => Never(u[e])
    BY <2>1, <2>2 DEF Never
  <2>5. Ordered(u, A, D, q)
    BY <2>4 DEF InLine, Ordered
  <2> QED BY <2>1, <2>3, <2>5 DEF InLine, KeepsSent, u
<1>2. CASE t[d].state \notin Open
  BY <1>2 DEF Deferred, KeepsSent
<1> QED BY <1>1, <1>2

LEMMA LineAcked ==
  ASSUME dlv \in Table, NEW n, NEW A, NEW D, NEW q, Elems(q) \subseteq Ids, InLine(dlv, n, A, D, q),
         NEW a \in Ack, AckTold(a, dlv, A)
  PROVE  InLine(AfterAck(a), n, A, D, q) /\ KeepsSent(dlv, AfterAck(a), A)
<1>1. a.id \in Ids /\ a.kind \in AckKind /\ {BusyDelay, RetryDelay, DeliveredDelay, 0} \subseteq Nat
  BY DeliveryAssumption DEF Ack
<1>2. CASE a.kind = "processed"
  <2>1. AfterAck(a) = Updated(dlv, a.id, "processed", 0) /\ a.id \in A
    BY <1>2 DEF AfterAck, AckTold
  <2> QED BY <1>1, <2>1, LineUpdated
<1>3. CASE a.kind = "busy"
  <2>1. AfterAck(a) = Deferred(dlv, a.id, BusyDelay) /\ a.id \in A
    BY <1>3 DEF AfterAck, AckTold
  <2> QED BY <1>1, <2>1, LineDeferred
<1>4. CASE a.kind = "failed"
  <2>1. /\ AfterAck(a) = Updated(dlv, a.id, "queued", RetryDelay)
        /\ a.id \in A \/ dlv[a.id].attempts > 0
    BY <1>4 DEF AfterAck, AckTold
  <2> QED BY <1>1, <2>1, LineUpdated
<1>5. CASE a.kind = "delivered"
  <2>1. AfterAck(a) = Updated(dlv, a.id, "delivered", DeliveredDelay) /\ a.id \in A
    BY <1>5 DEF AfterAck, AckTold
  <2> QED BY <1>1, <2>1, LineUpdated
<1> QED BY <1>1, <1>2, <1>3, <1>4, <1>5 DEF AckKind

\* Acks stay true.
LEMMA ToldStays ==
  ASSUME NEW t, NEW u, NEW A, NEW B, A \subseteq B, KeepsSent(t, u, B), NEW a \in Frames \union {NoAck},
         AckTold(a, t, A)
  PROVE  AckTold(a, u, B)
<1>1. CASE a \in Ack
  BY <1>1 DEF AckTold, KeepsSent, Ack
<1>2. CASE a = Cap \/ a = NoAck
  BY <1>2 DEF AckTold, Cap, NoAck
<1> QED BY <1>1, <1>2 DEF Frames

\* Arrived, disturbed and the line make up the invariant; acks stay true.
LEMMA OrderFrom ==
  ASSUME Consistent, Consistent', InOrder,
         InLine(dlv', created', Arrived', disturbed', Line'), OnPeer',
         KeepsSent(dlv, dlv', Arrived'), Arrived \subseteq Arrived', disturbed \subseteq disturbed',
         arrival' = arrival, recvAck' \in {recvAck, NoAck},
         \A b \in Conns : \A a \in Elems(up'[b]) :
           \/ a \in Elems(up[b]) \/ a = Cap \/ a = recvAck
           \/ AckTold(a, dlv', Arrived')
  PROVE  InOrder'
<1>1. /\ up \in [Conns -> Seq(Frames)] /\ recvAck \in Ack \union {NoAck}
  BY DEF Consistent, TypeOK, Frames
<1>2. \A b \in Conns : Elems(up[b]) \subseteq Frames
  BY <1>1, LenProperties DEF Elems
<1>3. AckTold(Cap, dlv', Arrived') /\ AckTold(NoAck, dlv', Arrived')
  BY DEF AckTold, Cap, NoAck
<1>4. AckTold(recvAck, dlv', Arrived')
  <2>1. recvAck \in Frames \union {NoAck} /\ AckTold(recvAck, dlv, Arrived)
    BY <1>1 DEF InOrder, AcksTold, Frames
  <2> QED BY <2>1, ToldStays
<1>5. ASSUME NEW b \in Conns, NEW a \in Elems(up[b]) PROVE AckTold(a, dlv', Arrived')
  <2>1. a \in Frames \union {NoAck} /\ AckTold(a, dlv, Arrived)
    BY <1>2, <1>5 DEF InOrder, AcksTold
  <2> QED BY <2>1, ToldStays
<1>6. AcksTold'
  BY <1>3, <1>4, <1>5 DEF AcksTold
<1>7. Elems(arrival') \subseteq Arrived' /\ FifoIn(arrival', disturbed')
  BY DEF InOrder, FifoIn
<1> QED BY <1>6, <1>7 DEF InOrder

LEMMA LineType ==
  ASSUME TypeOK
  PROVE  /\ Line \in Seq(Ids) /\ Elems(Line) \subseteq Ids /\ Arrived \subseteq Ids
         /\ NoConn \notin Conns
         /\ peer \in Conns \/ peer = NoConn
<1>1. Line \in Seq(Ids)
  BY EmptyElems DEF TypeOK, Line
<1>2. Elems(Line) \subseteq Ids
  BY <1>1, LenProperties DEF Elems
<1> QED BY <1>1, <1>2 DEF Arrived, NoConn, Conns, TypeOK

\* A drain sends what is next to come, or what it sends is lost.
LEMMA DrainOrder ==
  ASSUME TypeOK, NEW t \in Table, NEW n \in Nat, NEW tm, NEW c \in Conns,
         InLine(t, n, Arrived, disturbed, Line), OnPeer, Drain(c, t, tm),
         UNCHANGED <<conn, peer, ended>>
  PROVE  /\ InLine(dlv', n, Arrived, disturbed', Line') /\ OnPeer'
         /\ KeepsSent(t, dlv', Arrived) /\ disturbed \subseteq disturbed'
<1>0. Line \in Seq(Ids) /\ Elems(Line) \subseteq Ids /\ down \in [Conns -> Seq(Ids)]
  BY LineType DEF TypeOK
<1>1. CASE dlv' = t /\ UNCHANGED <<down, disturbed>>
  <2>1. Line' = Line /\ OnPeer'
    BY <1>1 DEF Line, OnPeer
  <2> QED BY <1>1, <2>1 DEF KeepsSent
<1>2. ASSUME NEW d \in Candidates(t)
      PROVE  /\ d \in Ids /\ Claimed(t, d) \in Table /\ Claimed(t, d)[d].attempts > 0
             /\ KeepsSent(t, Claimed(t, d), Arrived)
             /\ InLine(Claimed(t, d), n, Arrived, disturbed, Append(Line, d))
             /\ InLine(Claimed(t, d), n, Arrived, disturbed \union {d}, Line)
  <2> DEFINE u == Claimed(t, d)
  <2>1. /\ d \in Ids /\ u[d].attempts = t[d].attempts + 1
        /\ \A e \in Ids \ {d} : u[e].attempts = t[e].attempts
    BY ClaimedRows
  <2>2. t[d].attempts \in Nat /\ u \in Table
    BY <2>1, RowFields, ClaimedProps DEF Table
  <2>3. /\ InLine(u, n, Arrived, disturbed, Append(Line, d))
        /\ InLine(u, n, Arrived, disturbed \union {d}, Line)
    BY <1>0, LineClaimed
  <2> HIDE DEF u
  <2>4. u[d].attempts > 0
    BY <2>1, <2>2
  <2>5. KeepsSent(t, u, Arrived)
    BY <2>1, <2>4 DEF KeepsSent
  <2> QED BY <2>1, <2>2, <2>3, <2>4, <2>5 DEF u
<1>3. ASSUME NEW d \in Candidates(t), dlv' = Claimed(t, d), conn[c] = "open", peer = c,
             down' = [down EXCEPT ![c] = Append(@, d)], UNCHANGED disturbed
      PROVE  /\ InLine(dlv', n, Arrived, disturbed', Line') /\ OnPeer'
             /\ KeepsSent(t, dlv', Arrived) /\ disturbed \subseteq disturbed'
  <2>1. Line = down[c] /\ Line' = Append(Line, d)
    BY <1>0, <1>3 DEF Line
  <2>2. OnPeer'
    BY <1>0, <1>3 DEF OnPeer
  <2> QED BY <1>2, <1>3, <2>1, <2>2
<1>4. ASSUME NEW d \in Candidates(t), dlv' = Claimed(t, d),
             disturbed' = disturbed \union {d}, UNCHANGED down
      PROVE  /\ InLine(dlv', n, Arrived, disturbed', Line') /\ OnPeer'
             /\ KeepsSent(t, dlv', Arrived) /\ disturbed \subseteq disturbed'
  <2>1. Line' = Line /\ OnPeer'
    BY <1>4 DEF Line, OnPeer
  <2> QED BY <1>2, <1>4, <2>1
<1>5. ASSUME NEW d \in Candidates(t), dlv' = Updated(Claimed(t, d), d, "queued", WriteErrorDelay),
             disturbed' = disturbed \union {d}, UNCHANGED down
      PROVE  /\ InLine(dlv', n, Arrived, disturbed', Line') /\ OnPeer'
             /\ KeepsSent(t, dlv', Arrived) /\ disturbed \subseteq disturbed'
  <2>1. Line' = Line /\ OnPeer'
    BY <1>5 DEF Line, OnPeer
  <2> DEFINE u == Claimed(t, d)
  <2>2. /\ d \in Ids /\ u \in Table /\ u[d].attempts > 0 /\ KeepsSent(t, u, Arrived)
        /\ InLine(u, n, Arrived, disturbed \union {d}, Line)
        /\ WriteErrorDelay \in Nat
    BY <1>2, DeliveryAssumption
  <2> HIDE DEF u
  <2>3. /\ InLine(Updated(u, d, "queued", WriteErrorDelay), n, Arrived, disturbed \union {d}, Line)
        /\ KeepsSent(u, Updated(u, d, "queued", WriteErrorDelay), Arrived)
    BY <1>0, <2>2, LineUpdated
  <2>4. KeepsSent(t, Updated(u, d, "queued", WriteErrorDelay), Arrived)
    BY <2>2, <2>3 DEF KeepsSent
  <2> QED BY <1>5, <2>1, <2>3, <2>4 DEF u
<1> QED BY <1>1, <1>3, <1>4, <1>5 DEF Drain

\* Nothing is arrived or delivered elsewhere by a step of the hub: it makes a
\* delivery behind the others, sends the next one, or takes an ack.
LEMMA HubStepOrder ==
  ASSUME Consistent, Consistent', InOrder, HubStep
  PROVE  InOrder'
<1> USE DEF hubVars, linkVars, helperVars, inboxVars, crashVars
<1>0. /\ TypeOK /\ UNCHANGED <<inbox, arrival, recvAck>> /\ Arrived' = Arrived
      /\ \A b \in Conns : Elems(up'[b]) \subseteq Elems(up[b])
  <2>1. /\ TypeOK /\ UNCHANGED helperVars
        /\ \A b \in Conns : Elems(up'[b]) \subseteq Elems(up[b])
    BY HubStepTypes DEF Consistent
  <2> QED BY <2>1 DEF Arrived
<1>1. /\ dlv \in Table /\ created \in Nat /\ created \in 0..MaxMsg /\ Arrived \in SUBSET Ids
      /\ current \in Conns \union {NoConn} /\ cap \subseteq Conns
      /\ Line \in Seq(Ids) /\ Elems(Line) \subseteq Ids
      /\ InLine(dlv, created, Arrived, disturbed, Line) /\ OnPeer /\ AcksTold
  <2>1. created \in 0..MaxMsg
    BY <1>0 DEF TypeOK
  <2>2. /\ dlv \in Table /\ current \in Conns \union {NoConn} /\ cap \subseteq Conns
        /\ InLine(dlv, created, Arrived, disturbed, Line) /\ OnPeer /\ AcksTold
    BY <1>0 DEF TypeOK, Table, InOrder
  <2> QED BY <1>0, <2>1, <2>2, LineType
<1>2. ASSUME InLine(dlv', created', Arrived, disturbed', Line'), OnPeer',
             KeepsSent(dlv, dlv', Arrived), disturbed \subseteq disturbed'
      PROVE  InOrder'
  BY <1>0, <1>2, OrderFrom
<1>3. ASSUME UNCHANGED <<dlv, created, disturbed, down, peer, ended, conn>>
      PROVE  InOrder'
  BY <1>1, <1>2, <1>3 DEF Line, OnPeer, KeepsSent
<1>4. CASE Route
  <2> DEFINE t == Inserted(dlv, created + 1)
  <2>1. /\ created + 1 \in Ids /\ current \in Conns /\ created' = created + 1
        /\ Drain(current, t, timers) /\ UNCHANGED <<conn, peer, ended>>
    BY <1>1, <1>4 DEF Route, Ids
  <2>2. t \in Table /\ InLine(t, created + 1, Arrived, disturbed, Line) /\ created + 1 \in Nat
    <3>1. t \in Table /\ created + 1 \in Nat
      BY SMTT(30), <1>1, <2>1, InsertedProps
    <3>2. InLine(t, created + 1, Arrived, disturbed, Line)
      BY <1>1, <2>1, LineInserted
    <3> QED BY <3>1, <3>2
  <2>3. KeepsSent(dlv, t, Arrived)
    <3>1. \A e \in Ids \ {created + 1} : t[e] = dlv[e]
      BY SMTT(30), <1>1, <2>1, InsertedProps
    <3>2. dlv[created + 1].state = "none" /\ ~(created + 1 \in Elems(Line))
      BY <1>1, <2>1 DEF InLine, Accounted
    <3> QED BY <1>1, <2>1, <3>1, <3>2 DEF KeepsSent, InLine, Accounted
  <2> HIDE DEF t
  <2>4. /\ InLine(dlv', created + 1, Arrived, disturbed', Line') /\ OnPeer'
        /\ KeepsSent(t, dlv', Arrived) /\ disturbed \subseteq disturbed'
    BY <1>0, <1>1, <2>1, <2>2, DrainOrder
  <2>5. KeepsSent(dlv, dlv', Arrived)
    BY <2>3, <2>4 DEF KeepsSent
  <2> QED BY <1>2, <2>1, <2>4, <2>5
<1>5. CASE WorkerAck
  BY <1>3, <1>5 DEF WorkerAck
<1>6. CASE Redo
  <2>1. CASE current \in cap
    <3>1. /\ created \in Ids /\ current \in Conns /\ created' = created
          /\ Drain(current, Inserted(dlv, created), timers) /\ UNCHANGED <<conn, peer, ended>>
      BY <1>1, <1>6, <2>1 DEF Redo, Ids, Consistent, KnownToHub
    <3>2. Inserted(dlv, created) = dlv
      <4>1. ~(created > created)
        BY <1>1
      <4>2. dlv[created].state # "none"
        BY <1>1, <3>1, <4>1 DEF InLine, Accounted
      <4> QED BY <4>2 DEF Inserted
    <3> QED BY <1>0, <1>1, <1>2, <3>1, <3>2, DrainOrder
  <2>2. CASE current \notin cap
    BY <1>3, <1>6, <2>2 DEF Redo
  <2> QED BY <2>1, <2>2
<1>7. ASSUME NEW c \in Conns, TimerFires(c)
      PROVE  InOrder'
  <2>1. Drain(c, dlv, [timers EXCEPT ![c] = @ \ {0}]) /\ UNCHANGED <<created, conn, peer, ended>>
    BY <1>7 DEF TimerFires
  <2> QED BY <1>0, <1>1, <1>2, <2>1, DrainOrder
<1>8. ASSUME NEW c \in Conns, HandleCapability(c)
      PROVE  InOrder'
  BY <1>3, <1>8 DEF HandleCapability
<1>9. ASSUME NEW c \in Conns, HandleDeliveryAck(c)
      PROVE  InOrder'
  <2> DEFINE a == Head(up[c])
  <2>1. /\ UNCHANGED <<created, disturbed, down, peer, ended, conn>>
        /\ dlv' = dlv \/ dlv' = AfterAck(a)
        /\ up[c] # <<>> /\ a # Cap
    BY <1>9 DEF HandleDeliveryAck, NextFrame
  <2>2. a \in Ack /\ a \in Elems(up[c])
    <3>1. up[c] \in Seq(Frames)
      BY <1>0 DEF TypeOK, Frames
    <3>2. a \in Frames /\ a \in Elems(up[c])
      BY <2>1, <3>1, TailElems
    <3> QED BY <2>1, <3>2 DEF Frames
  <2>3. AckTold(a, dlv, Arrived)
    BY <1>1, <2>2 DEF AcksTold
  <2> HIDE DEF a
  <2>4. Line' = Line /\ OnPeer'
    BY <1>1, <2>1 DEF Line, OnPeer
  <2>5. CASE dlv' = dlv
    BY <1>3, <2>1, <2>5
  <2>6. CASE dlv' = AfterAck(a)
    <3>1. InLine(dlv', created, Arrived, disturbed, Line) /\ KeepsSent(dlv, dlv', Arrived)
      BY <1>1, <2>2, <2>3, <2>6, LineAcked
    <3> QED BY <1>2, <2>1, <2>4, <3>1
  <2> QED BY <2>1, <2>5, <2>6
<1> QED BY <1>4, <1>5, <1>6, <1>7, <1>8, <1>9 DEF HubStep

\* When a connection breaks, what was on its way counts as disturbed.
LEMMA EnvStepOrder ==
  ASSUME Consistent, Consistent', InOrder, EnvStep
  PROVE  InOrder'
<1> USE DEF hubVars, linkVars, helperVars, inboxVars, crashVars
<1>0. /\ TypeOK /\ recvAck' \in {recvAck, NoAck} /\ arrival' = arrival /\ created' = created
      /\ Arrived' = Arrived
      /\ \A b \in Conns : Elems(up'[b]) \subseteq Elems(up[b]) \union {Cap}
  <2>1. /\ TypeOK /\ recvAck' \in {recvAck, NoAck} /\ created' = created
        /\ \A d \in Ids : inbox'[d] = inbox[d] \/ (inbox[d] = "processing" /\ inbox'[d] = "received")
        /\ \A b \in Conns : Elems(up'[b]) \subseteq Elems(up[b]) \union {Cap}
    BY EnvStepHelper, EnvStepTypes DEF Consistent
  <2>2. arrival' = arrival
    BY DEF EnvStep, HelperLoses, HelperEnds, HelperRestart, HubRestart, Tick, Connect, HubLoses,
           Age, Recover
  <2> QED BY <2>1, <2>2 DEF Arrived
<1>1. /\ dlv \in Table /\ down \in [Conns -> Seq(Ids)] /\ conn \in [Conns -> {"new", "open", "gone"}]
      /\ Line \in Seq(Ids) /\ Elems(Line) \subseteq Ids
      /\ peer \in Conns \/ peer = NoConn
      /\ NoConn \notin Conns
      /\ InLine(dlv, created, Arrived, disturbed, Line) /\ OnPeer
  BY <1>0, LineType DEF TypeOK, Table, InOrder
<1>2. ASSUME InLine(dlv', created, Arrived, disturbed', Line'), OnPeer',
             KeepsSent(dlv, dlv', Arrived), disturbed \subseteq disturbed'
      PROVE  InOrder'
  BY <1>0, <1>2, OrderFrom
<1>3. ASSUME dlv' = dlv, InLine(dlv, created, Arrived, disturbed', Line'), OnPeer',
             disturbed \subseteq disturbed'
      PROVE  InOrder'
  BY <1>2, <1>3 DEF KeepsSent
<1>4. ASSUME NEW c \in Conns, Connect(c)
      PROVE  InOrder'
  <2>1. /\ peer = NoConn /\ peer' = c /\ conn[c] = "new"
        /\ UNCHANGED <<dlv, down, ended, disturbed>>
    BY <1>4 DEF Connect
  <2>2. \A b \in Conns : down[b] = <<>>
    BY <1>1, <2>1 DEF OnPeer
  <2>3. ~ended
    BY <1>1, <2>1 DEF OnPeer
  <2>4. Line = <<>> /\ Line' = <<>>
    BY <1>1, <2>1, <2>2 DEF Line
  <2>5. OnPeer'
    BY <2>1, <2>2, <2>3 DEF OnPeer
  <2> QED BY <1>1, <1>3, <2>1, <2>4, <2>5
<1>5. ASSUME peer' = NoConn, ended' = FALSE, peer \in Conns, PeerCut, dlv' = dlv
      PROVE  InOrder'
  <2>1. /\ Line = down[peer] /\ Line' = <<>> /\ disturbed' = disturbed \union Elems(Line)
        /\ down' = [down EXCEPT ![peer] = <<>>]
    BY <1>1, <1>5 DEF Line, PeerCut
  <2>2. \A b \in Conns : down'[b] = <<>>
    BY <1>1, <2>1 DEF OnPeer
  <2>3. OnPeer'
    BY <1>5, <2>2 DEF OnPeer
  <2>4. InLine(dlv, created, Arrived, disturbed', <<>>)
    BY <1>1, <2>1, LineLost
  <2> QED BY <1>3, <1>5, <2>1, <2>3, <2>4
<1>6. CASE HelperLoses
  BY <1>1, <1>5, <1>6 DEF HelperLoses
<1>7. CASE HelperEnds
  <2>1. /\ peer \in Conns /\ conn[peer] = "gone" /\ down[peer] = <<>> /\ ended' = TRUE
        /\ UNCHANGED <<dlv, conn, down, peer, disturbed>>
    BY <1>1, <1>7 DEF HelperEnds
  <2>2. OnPeer' /\ Line' = Line
    BY <1>1, <2>1 DEF OnPeer, Line
  <2> QED BY <1>1, <1>3, <2>1, <2>2
<1>8. ASSUME NEW c \in Conns, HubLoses(c)
      PROVE  InOrder'
  <2>1. /\ conn[c] = "open" /\ conn' = [conn EXCEPT ![c] = "gone"]
        /\ UNCHANGED <<dlv, peer, ended>>
    BY <1>8 DEF HubLoses
  <2>2. PICK n \in 0..Len(down[c]) :
           /\ down' = [down EXCEPT ![c] = SubSeq(@, 1, n)]
           /\ disturbed' = disturbed \union {down[c][i] : i \in (n+1)..Len(down[c])}
    BY <1>8 DEF HubLoses
  <2>3. /\ down'[c] = SubSeq(down[c], 1, n) /\ \A b \in Conns \ {c} : down'[b] = down[b]
    BY <1>1, <2>2
  <2>4. down[c] = <<>> => down'[c] = <<>>
    <3> SUFFICES ASSUME down[c] = <<>> PROVE down'[c] = <<>>
      OBVIOUS
    <3>1. n = 0
      BY <2>2
    <3> QED BY <2>3, <3>1
  <2>5. OnPeer'
    <3>1. ended => peer \in Conns /\ conn'[peer] = "gone"
      BY <1>1, <2>1 DEF OnPeer
    <3>2. ASSUME NEW b \in Conns, down'[b] # <<>> PROVE b = peer /\ ~ended
      <4>1. down[b] # <<>>
        BY <2>3, <2>4, <3>2
      <4> QED BY <1>1, <4>1 DEF OnPeer
    <3> QED BY <2>1, <3>1, <3>2 DEF OnPeer
  <2>6. CASE peer = c
    <3>1. Line = down[c] /\ Line' = SubSeq(Line, 1, n) /\ n \in 0..Len(Line)
      BY <2>1, <2>2, <2>3, <2>6 DEF Line
    <3>2. disturbed' = disturbed \union {Line[i] : i \in (n+1)..Len(Line)}
      BY <2>2, <3>1
    <3>3. InLine(dlv, created, Arrived, disturbed', Line')
      BY <1>1, <3>1, <3>2, LineCut
    <3> QED BY <1>3, <2>1, <2>5, <3>2, <3>3
  <2>7. CASE peer # c
    <3>1. Line' = Line
      BY <2>1, <2>3, <2>7 DEF Line
    <3>2. disturbed \subseteq disturbed'
      BY <2>2
    <3> QED BY <1>1, <1>3, <2>1, <2>5, <3>1, <3>2, MoreSettled
  <2> QED BY <2>6, <2>7
<1>9. CASE HelperRestart
  <2>1. peer' = NoConn /\ ended' = FALSE /\ dlv' = dlv
    BY <1>9 DEF HelperRestart
  <2>2. CASE peer = NoConn
    <3>1. UNCHANGED <<down, disturbed>>
      BY <1>9, <2>2 DEF HelperRestart
    <3>2. OnPeer' /\ Line' = Line
      BY <1>1, <2>1, <2>2, <3>1 DEF OnPeer, Line
    <3> QED BY <1>1, <1>3, <2>1, <3>1, <3>2
  <2>3. CASE peer # NoConn
    <3>1. PeerCut /\ peer \in Conns
      BY <1>1, <1>9, <2>3 DEF HelperRestart
    <3> QED BY <1>5, <2>1, <3>1
  <2> QED BY <2>2, <2>3
<1>10. CASE HubRestart
  <2>1. /\ UNCHANGED <<dlv, peer, ended>> /\ down' = [c \in Conns |-> <<>>]
        /\ conn' = [c \in Conns |-> IF conn[c] = "open" THEN "gone" ELSE conn[c]]
        /\ disturbed' = disturbed \union UNION {Elems(down[c]) : c \in Conns}
    BY <1>10 DEF HubRestart
  <2>2. Line' = <<>>
    BY <2>1 DEF Line
  <2>3. disturbed \union Elems(Line) \subseteq disturbed'
    BY <2>1, EmptyElems DEF Line
  <2>4. InLine(dlv, created, Arrived, disturbed', <<>>)
    BY <1>1, <2>3, LineLost
  <2>5. OnPeer'
    BY <1>1, <2>1 DEF OnPeer
  <2> QED BY <1>3, <2>1, <2>2, <2>3, <2>4, <2>5
<1>11. ASSUME UNCHANGED <<conn, down, peer, ended, disturbed>>,
              \A d \in Ids : /\ dlv'[d].state = dlv[d].state /\ dlv'[d].attempts = dlv[d].attempts
                             /\ dlv'[d].wait > 0 => dlv[d].wait > 0
       PROVE  InOrder'
  <2>1. OnPeer' /\ Line' = Line
    BY <1>1, <1>11 DEF OnPeer, Line
  <2>2. InLine(dlv', created, Arrived, disturbed, Line)
    BY <1>1, <1>11, SameRows
  <2>3. KeepsSent(dlv, dlv', Arrived)
    BY <1>11 DEF KeepsSent
  <2> QED BY <1>2, <1>11, <2>1, <2>2, <2>3
<1>12. CASE Tick
  <2>1. dlv' = Ticked(dlv) /\ UNCHANGED <<conn, down, peer, ended, disturbed>>
    BY <1>12 DEF Tick
  <2>2. ASSUME NEW d \in Ids
        PROVE  /\ dlv'[d].state = dlv[d].state /\ dlv'[d].attempts = dlv[d].attempts
               /\ dlv'[d].wait > 0 => dlv[d].wait > 0
    <3>1. dlv[d] \in Row /\ dlv'[d] = [dlv[d] EXCEPT !.wait = Dec(@)]
      BY <1>1, <2>1 DEF Ticked, Table
    <3>2. /\ dlv'[d].state = dlv[d].state /\ dlv'[d].attempts = dlv[d].attempts
          /\ dlv'[d].wait = Dec(dlv[d].wait) /\ dlv[d].wait \in Nat
      BY <3>1 DEF Row
    <3> QED BY <3>2 DEF Dec
  <2> QED BY <1>11, <2>1, <2>2
<1>13. ASSUME NEW d \in Ids, Age(d)
       PROVE  InOrder'
  <2>1. dlv' = [dlv EXCEPT ![d].old = TRUE] /\ UNCHANGED <<conn, down, peer, ended, disturbed>>
    BY <1>13 DEF Age
  <2>2. ASSUME NEW e \in Ids
        PROVE  /\ dlv'[e].state = dlv[e].state /\ dlv'[e].attempts = dlv[e].attempts
               /\ dlv'[e].wait > 0 => dlv[e].wait > 0
    BY <1>1, <2>1 DEF Table, Row
  <2> QED BY <1>11, <2>1, <2>2
<1> QED BY <1>4, <1>6, <1>7, <1>8, <1>9, <1>10, <1>12, <1>13 DEF EnvStep

\* A delivery frame is the next of the line: what came in before it and is
\* younger had overtaken it while it was disturbed.
LEMMA ReceiveOrder ==
  ASSUME Consistent, Consistent', InOrder, Receive
  PROVE  InOrder'
<1> USE DEF hubVars, inboxVars, crashVars
<1> DEFINE d == Head(Line)
<1>0. /\ TypeOK /\ peer \in Conns /\ down \in [Conns -> Seq(Ids)] /\ arrival \in Seq(Ids)
      /\ inbox \in [Ids -> InboxState] /\ Line = down[peer] /\ Line \in Seq(Ids) /\ Line # <<>>
      /\ InLine(dlv, created, Arrived, disturbed, Line) /\ OnPeer /\ AcksTold
      /\ Elems(arrival) \subseteq Arrived /\ FifoIn(arrival, disturbed)
      /\ up \in [Conns -> Seq(Frames)]
  BY DEF Receive, Consistent, TypeOK, InboxTypeOK, InOrder, Line, Frames
<1>1. d \in Ids /\ d \in Elems(Line) /\ Tail(Line) \in Seq(Ids)
  BY <1>0, TailElems
<1>2. /\ UNCHANGED <<dlv, created, conn, peer, ended, up>>
      /\ down' = [down EXCEPT ![peer] = Tail(Line)]
      /\ \/ AcceptNew(d) /\ recvAck' = AckOf("delivered", d) /\ UNCHANGED disturbed
         \/ AcceptFull(d) /\ recvAck' = AckOf("failed", d) /\ disturbed' = disturbed \union {d}
         \/ /\ \E r \in BOOLEAN : AcceptAgain(d, r)
            /\ recvAck' = AckOf(AckState(inbox'[d]), d) /\ UNCHANGED disturbed
  BY <1>0 DEF Receive
<1>3. /\ InLine(dlv, created, Arrived \union {d}, disturbed, Tail(Line))
      /\ InLine(dlv, created, Arrived, disturbed \union {d}, Tail(Line))
      /\ d \notin Arrived => ~Never(dlv[d])
      /\ d \notin Arrived => dlv[d].attempts > 0
  <2>1. /\ InLine(dlv, created, Arrived \union {d}, disturbed, Tail(Line))
        /\ InLine(dlv, created, Arrived, disturbed \union {d}, Tail(Line))
        /\ d \notin Arrived => ~Never(dlv[d])
    BY <1>0, LineRead
  <2>2. d \notin Arrived => dlv[d].attempts > 0
    BY <1>0, <1>1 DEF InLine, Accounted
  <2> QED BY <2>1, <2>2
<1>4. \A a \in Arrived : d < a => d \in Arrived \union disturbed \/ Never(dlv[d])
  BY <1>0, <1>1 DEF InLine, Ordered
<1> HIDE DEF d
<1>5. Line' = Tail(Line)
  BY <1>0, <1>2 DEF Line
<1>6. OnPeer'
  <2>1. ~ended
    BY <1>0 DEF OnPeer
  <2>2. \A b \in Conns : down'[b] # <<>> => b = peer
    BY <1>0, <1>2 DEF OnPeer
  <2> QED BY <1>2, <2>1, <2>2 DEF OnPeer
<1>7. ASSUME Arrived \subseteq Arrived', AckTold(recvAck', dlv, Arrived')
      PROVE  AcksTold'
  <2>1. KeepsSent(dlv, dlv, Arrived')
    BY DEF KeepsSent
  <2>2. ASSUME NEW b \in Conns, NEW a \in Elems(up[b]) PROVE AckTold(a, dlv, Arrived')
    <3>1. a \in Frames \union {NoAck} /\ AckTold(a, dlv, Arrived)
      BY <1>0, <2>2, LenProperties DEF AcksTold, Elems
    <3> QED BY <1>7, <2>1, <3>1, ToldStays
  <2> QED BY <1>2, <1>7, <2>2 DEF AcksTold
<1>8. /\ \A k \in AckKind : AckOf(k, d).kind = k /\ AckOf(k, d).id = d
      /\ {"delivered", "failed", AckState(inbox'[d])} \subseteq AckKind
  BY DEF AckOf, AckState, AckKind
<1>9. CASE AcceptNew(d) /\ recvAck' = AckOf("delivered", d) /\ UNCHANGED disturbed
  <2>1. Arrived' = Arrived \union {d} /\ d \notin Arrived
    BY <1>0, <1>1, <1>9 DEF AcceptNew, Arrived
  <2>2. AckTold(recvAck', dlv, Arrived')
    BY <1>8, <1>9, <2>1 DEF AckTold
  <2>3. /\ arrival' = Append(arrival, d) /\ Elems(arrival') = Elems(arrival) \union {d}
        /\ Len(arrival) \in Nat /\ DOMAIN arrival = 1..Len(arrival)
        /\ DOMAIN arrival' = 1..(Len(arrival) + 1)
        /\ arrival'[Len(arrival) + 1] = d
        /\ \A i \in 1..Len(arrival) : arrival'[i] = arrival[i]
    BY <1>0, <1>1, <1>9, AppendElems, LenProperties DEF AcceptNew
  <2>4. FifoIn(arrival', disturbed')
    <3> SUFFICES ASSUME NEW i \in DOMAIN arrival', NEW j \in DOMAIN arrival', i < j,
                        arrival'[i] > arrival'[j]
                 PROVE  arrival'[j] \in disturbed
      BY <1>9 DEF FifoIn
    <3>1. i \in DOMAIN arrival /\ arrival'[i] = arrival[i]
      BY <2>3
    <3>2. CASE j \in DOMAIN arrival
      <4>1. arrival'[j] = arrival[j]
        BY <2>3, <3>2
      <4> QED BY <1>0, <3>1, <3>2, <4>1 DEF FifoIn
    <3>3. CASE j = Len(arrival) + 1
      <4>1. arrival[i] \in Arrived /\ arrival[i] \in Ids
        BY <1>0, <3>1 DEF Elems
      <4>2. d < arrival[i] /\ arrival'[j] = d
        BY <1>1, <2>3, <3>1, <3>3, <4>1 DEF Ids
      <4> QED BY <1>3, <1>4, <2>1, <4>1, <4>2
    <3> QED BY <2>3, <3>2, <3>3
  <2>5. Elems(arrival') \subseteq Arrived'
    BY <1>0, <2>1, <2>3
  <2> QED BY <1>2, <1>3, <1>5, <1>6, <1>7, <1>9, <2>1, <2>2, <2>4, <2>5 DEF InOrder
<1>10. CASE AcceptFull(d) /\ recvAck' = AckOf("failed", d) /\ disturbed' = disturbed \union {d}
  <2>1. Arrived' = Arrived /\ d \notin Arrived /\ arrival' = arrival
    BY <1>10 DEF AcceptFull, Arrived
  <2>2. AckTold(recvAck', dlv, Arrived')
    BY <1>3, <1>8, <1>10, <2>1 DEF AckTold
  <2>3. FifoIn(arrival', disturbed')
    BY <1>0, <1>10, <2>1 DEF FifoIn
  <2> QED BY <1>0, <1>2, <1>3, <1>5, <1>6, <1>7, <1>10, <2>1, <2>2, <2>3 DEF InOrder
<1>11. CASE /\ \E r \in BOOLEAN : AcceptAgain(d, r)
            /\ recvAck' = AckOf(AckState(inbox'[d]), d) /\ UNCHANGED disturbed
  <2>1. Arrived' = Arrived /\ d \in Arrived /\ arrival' = arrival
    BY <1>0, <1>1, <1>11 DEF AcceptAgain, Arrived
  <2>2. AckTold(recvAck', dlv, Arrived')
    BY <1>8, <1>11, <2>1 DEF AckTold
  <2>3. InLine(dlv, created, Arrived, disturbed, Tail(Line))
    <3>1. Arrived \union {d} = Arrived
      BY <2>1
    <3> QED BY <1>3, <3>1
  <2> QED BY <1>0, <1>2, <1>5, <1>6, <1>7, <1>11, <2>1, <2>2, <2>3 DEF InOrder
<1> QED BY <1>2, <1>9, <1>10, <1>11

\* An ack sent on a connection, or the break that comes of it, loses no delivery:
\* the helper finds its own connection broken only after recv_loop has ended.
LEMMA SendAckOrder ==
  ASSUME TypeOK, OnPeer, NEW c \in Conns, NEW kind, SendAck(c, kind)
  PROVE  OnPeer' /\ Line' = Line
<1>0. NoConn \notin Conns /\ UNCHANGED <<conn, down>>
  BY LineType DEF SendAck
<1>1. CASE UNCHANGED <<peer, ended>>
  BY <1>0, <1>1 DEF OnPeer, Line
<1>2. CASE Raises(c) /\ peer = c
  <2>1. ended /\ peer' = NoConn /\ ended' = FALSE
    BY <1>2 DEF Raises, SendAck
  <2>2. \A b \in Conns : down[b] = <<>>
    BY <2>1 DEF OnPeer
  <2>3. Line = <<>> /\ Line' = <<>>
    BY <1>0, <2>1, <2>2 DEF Line
  <2> QED BY <1>0, <2>1, <2>2, <2>3 DEF OnPeer
<1>3. CASE Raises(c) /\ peer # c
  <2>1. UNCHANGED <<peer, ended>>
    BY <1>3 DEF SendAck, TypeOK
  <2> QED BY <1>1, <2>1
<1> QED BY <1>1, <1>2, <1>3 DEF SendAck

\* Of the helper's other steps only acks reach the hub, of what has arrived.
LEMMA HelperStepOrder ==
  ASSUME Consistent, Consistent', InOrder, HelperStep
  PROVE  InOrder'
<1>0. /\ TypeOK /\ inbox \in [Ids -> InboxState] /\ loop \in [Conns -> LoopStates]
      /\ {"failed", "processed", "received"} \subseteq InboxState
      /\ InLine(dlv, created, Arrived, disturbed, Line) /\ OnPeer
  BY DEF Consistent, TypeOK, InboxTypeOK, LoopStates, InboxState, InOrder
<1>1. ASSUME UNCHANGED <<dlv, created, disturbed, arrival>>, Arrived' = Arrived,
             Line' = Line, OnPeer', recvAck' \in {recvAck, NoAck},
             \A b \in Conns : \A a \in Elems(up'[b]) :
               a \in Elems(up[b]) \/ a = recvAck \/ AckTold(a, dlv', Arrived')
      PROVE  InOrder'
  <2>1. KeepsSent(dlv, dlv', Arrived')
    BY <1>1 DEF KeepsSent
  <2> QED BY <1>0, <1>1, <2>1, OrderFrom
<1>2. ASSUME NEW c \in Conns, NEW v \in {"failed", "received", "processed"}, NEW K \in SUBSET AckKind,
             TurnEnds(c, v, K), OnPeer', Line' = Line,
             loop[c].id \in Ids, inbox[loop[c].id] = "processing"
      PROVE  InOrder'
  <2>1. UNCHANGED <<dlv, created, disturbed, arrival, recvAck>>
    BY <1>2 DEF TurnEnds, hubVars
  <2>2. Arrived' = Arrived /\ loop[c].id \in Arrived
    BY <1>0, <1>2 DEF TurnEnds, Arrived
  <2>3. ASSUME NEW b \in Conns, NEW a \in Elems(up'[b])
        PROVE  a \in Elems(up[b]) \/ AckTold(a, dlv', Arrived')
    <3>1. a \in Elems(up[b]) \/ \E k \in K : a = AckOf(k, loop[c].id)
      BY <1>2, <2>3 DEF TurnEnds
    <3>2. ASSUME NEW k \in K, a = AckOf(k, loop[c].id) PROVE a.id \in Arrived'
      BY <2>2, <3>2 DEF AckOf
    <3> QED BY <3>1, <3>2 DEF AckTold
  <2> QED BY <1>1, <1>2, <2>1, <2>2, <2>3
<1>3. ASSUME NEW c \in Conns, loop[c].pc \in {"got", "raised"}, Failed(c) \/ PutBack(c)
      PROVE  InOrder'
  <2>1. loop[c].id \in Ids /\ inbox[loop[c].id] = "processing"
    BY <1>3 DEF Consistent, LoopsHold, Holding
  <2>2. PICK v \in {"failed", "received"} : TurnEnds(c, v, {"failed", "busy"})
    BY <1>0, <1>3, <2>1, RaisedTypes
  <2>3. OnPeer' /\ Line' = Line
    <3>1. CASE \E kind \in AckKind : SendAck(c, kind)
      BY <1>0, <3>1, SendAckOrder
    <3>2. CASE UNCHANGED linkVars
      BY <1>0, <3>2 DEF linkVars, OnPeer, Line
    <3> QED BY <1>3, <3>1, <3>2 DEF Failed, PutBack, AckKind
  <2>4. {"failed", "busy"} \in SUBSET AckKind /\ v \in {"failed", "received", "processed"}
    BY DEF AckKind
  <2> QED BY <1>2, <2>1, <2>2, <2>3, <2>4
<1>4. ASSUME NEW c \in Conns, LoopFinish(c)
      PROVE  InOrder'
  <2>1. loop[c].id \in Ids /\ inbox[loop[c].id] = "processing"
    BY <1>4 DEF LoopFinish, Consistent, LoopsHold, Holding
  <2>2. /\ inbox' = [inbox EXCEPT ![loop[c].id] = "processed"] /\ UNCHANGED arrival
        /\ busyAcked' \subseteq Ids /\ SendAck(c, "processed")
    BY <1>0, <1>4 DEF LoopFinish, Finish, TypeOK
  <2>3. {"processed"} \in SUBSET AckKind /\ "processed" \in AckKind
    BY DEF AckKind
  <2>4. TurnEnds(c, "processed", {"processed"})
    BY <1>0, <2>1, <2>2, <2>3, TurnTypes
  <2> QED BY <1>0, <1>2, <2>1, <2>2, <2>3, <2>4, SendAckOrder
<1>5. ASSUME UNCHANGED <<hubVars, linkVars, disturbed, arrival, recvAck>>, Arrived' = Arrived
      PROVE  InOrder'
  <2>1. /\ UNCHANGED <<dlv, created, disturbed, arrival, recvAck, up>>
        /\ Line' = Line /\ OnPeer'
    BY <1>0, <1>5 DEF hubVars, linkVars, OnPeer, Line
  <2> QED BY <1>1, <1>5, <2>1
<1>6. ASSUME NEW c \in Conns, LoopInject(c) \/ LoopRaise(c) \/ LoopNotReady(c)
      PROVE  InOrder'
  BY <1>5, <1>6 DEF LoopInject, LoopRaise, LoopNotReady, inboxVars, Arrived
<1>7. ASSUME NEW c \in Conns, LoopReply(c)
      PROVE  InOrder'
  BY <1>5, <1>7 DEF LoopReply, inboxVars, Arrived
<1>8. ASSUME NEW c \in Conns, LoopFail(c) \/ LoopRaised(c)
      PROVE  InOrder'
  BY <1>3, <1>8 DEF LoopFail, LoopRaised
<1>9. ASSUME NEW c \in Conns, LoopClaim(c)
      PROVE  InOrder'
  <2>1. PICK d \in Ids : ClaimNext(d)
    BY <1>9 DEF LoopClaim
  <2>2. Arrived' = Arrived /\ arrival' = arrival
    BY <1>0, <2>1 DEF ClaimNext, FirstReceived, Arrived
  <2> QED BY <1>5, <1>9, <2>2 DEF LoopClaim
<1>10. CASE SendRecvAck
  <2>1. /\ peer \in Conns /\ recvAck \in Frames /\ Write(peer, recvAck) /\ recvAck' = NoAck
        /\ UNCHANGED <<dlv, created, disturbed, inbox, arrival, conn, down, peer, ended>>
    BY <1>0, <1>10 DEF SendRecvAck, TypeOK, Frames, hubVars, inboxVars
  <2>2. \A b \in Conns : Elems(up'[b]) \subseteq Elems(up[b]) \union {recvAck}
    BY <1>0, <2>1, WriteProps
  <2>3. Line' = Line /\ OnPeer' /\ Arrived' = Arrived
    BY <1>0, <2>1 DEF Line, OnPeer, Arrived
  <2> QED BY <1>1, <2>1, <2>2, <2>3
<1> QED BY <1>4, <1>6, <1>7, <1>8, <1>9, <1>10, ReceiveOrder DEF HelperStep

LEMMA InitOrder == Init => InOrder
<1> SUFFICES ASSUME Init PROVE InOrder
  OBVIOUS
<1>1. /\ \A d \in Ids : /\ dlv[d].state = "none" /\ dlv[d].attempts = 0 /\ d > created
                        /\ inbox[d] = "none"
      /\ peer = NoConn /\ ~ended /\ arrival = <<>> /\ recvAck = NoAck /\ created = 0
      /\ \A c \in Conns : down[c] = <<>> /\ up[c] = <<>>
  BY DEF Init, NoRow, InboxInit, Ids
<1>2. Arrived = {} /\ Line = <<>> /\ Elems(<<>>) = {} /\ DOMAIN <<>> = {}
  BY <1>1, EmptyElems DEF Arrived, Line
<1>3. Accounted(dlv, created, Arrived, disturbed, Line)
  BY <1>1, <1>2 DEF Accounted, InFlight
<1>4. Ordered(dlv, Arrived, disturbed, Line)
  BY <1>2 DEF Ordered
<1>5. OnPeer /\ AcksTold
  BY <1>1, <1>2 DEF OnPeer, AcksTold, AckTold, NoAck
<1>6. Elems(arrival) \subseteq Arrived /\ FifoIn(arrival, disturbed)
  BY <1>1, <1>2 DEF FifoIn
<1> QED BY <1>3, <1>4, <1>5, <1>6 DEF InOrder, InLine

LEMMA StutterOrder == InOrder /\ UNCHANGED vars => InOrder'
BY DEF vars, hubVars, linkVars, helperVars, inboxVars, InOrder, Arrived, Line, OnPeer, AcksTold

\* Deliveries enter the helper's inbox in the order the messages came in, unless
\* a push of the one overtaken had failed, been lost or been refused:
\* ClaimSessionDelivery sends the oldest due delivery that was never sent, and
\* nothing but an ack of what has arrived, or a lost push, delays one of those.
THEOREM FifoAlways == Spec => []FifoUnlessDisturbed
<1>1. Init => InOrder
  BY InitOrder
<1>2. Consistent /\ Consistent' /\ InOrder /\ [Next]_vars => InOrder'
  BY HubStepOrder, HelperStepOrder, EnvStepOrder, StutterOrder DEF Next
<1>3. InOrder => FifoUnlessDisturbed
  BY DEF InOrder, FifoIn, FifoUnlessDisturbed
<1> QED BY <1>1, <1>2, <1>3, ConsistentAlways, PTL DEF Spec
=============================================================================
