-------------------------- MODULE ViewTurns_proofs --------------------------
(***************************************************************************)
(* What entries on pages and texts for the CLI keep, for every number of   *)
(* pages, requests, commands, interrupters, repetitions and restarts.      *)
(***************************************************************************)
EXTENDS ViewTurns, FiniteSetTheorems, TLAPS

----------------------------------------------------------------------------
(* The pages and the hub. *)

\* A call that is on its way has a request, one that is routed an outcome, and
\* so has each entry of the table.
CallsHaveRequests ==
  /\ \A c \in Calls :
       /\ call[c].pc \in {"entered", "reserved", "routed", "replied"} => call[c].req \in Requests
       /\ call[c].pc \in {"routed", "replied"} => call[c].status # "none"
  /\ \A r \in Requests : reply[r] # NoReply => reply[r].status # "none"

\* A command names the page of its message, and what the table says of it is so.
CommandsNamePages == \A m \in Orders :
  /\ \A a \in asks : a.order = m => a.page = try[m].page
  /\ order[m].status # "none" => try[m].page \in Pages
  /\ "ok" \in {order[m].status, try[m].status} => try[m].page \in opened

UnlockedWereOpened == \A p \in Pages : page[p].state = "unlocked" => p \in opened

\* A success that a call or the table holds was one.
SuccessWasHanded ==
  /\ \A c \in Calls : call[c].pc \in {"routed", "replied"} /\ call[c].status = "ok"
                        => handed[call[c].req] > 0
  /\ \A r \in Requests : reply[r].status = "ok" \/ r \in told => handed[r] > 0

\* Each write to the session, done or about to be done, has its reservation.
Writers(r) == {c \in Calls : call[c].pc = "reserved" /\ call[c].req = r}
Reservations(r) == forgotten[r] + (IF reply[r] = NoReply THEN 0 ELSE 1)
WritesReserved == \A r \in Requests : handed[r] + Cardinality(Writers(r)) <= Reservations(r)

ViewSound == /\ ViewTypeOK /\ CallsHaveRequests /\ CommandsNamePages /\ UnlockedWereOpened
             /\ SuccessWasHanded /\ WritesReserved

LEMMA ViewSoundInit == ViewInit => ViewSound
<1> SUFFICES ASSUME ViewInit PROVE ViewSound OBVIOUS
<1>1. ViewTypeOK
  BY PagesAssumption DEF ViewInit, ViewTypeOK, PageState, NoOrder, NewCall, NoReply, Said, Places
<1>2. CallsHaveRequests BY DEF ViewInit, CallsHaveRequests, NewCall
<1>3. CommandsNamePages BY DEF ViewInit, CommandsNamePages, NoOrder
<1>4. UnlockedWereOpened BY DEF ViewInit, UnlockedWereOpened
<1>5. SuccessWasHanded BY DEF ViewInit, SuccessWasHanded, NewCall, NoReply
<1>6. WritesReserved
  <2> SUFFICES ASSUME NEW r \in Requests
               PROVE  handed[r] + Cardinality(Writers(r)) <= Reservations(r)
    BY DEF WritesReserved
  <2>1. Writers(r) = {} BY DEF ViewInit, Writers, NewCall
  <2> QED BY <2>1, FS_EmptySet DEF ViewInit, Reservations, NoReply
<1> QED BY <1>1, <1>2, <1>3, <1>4, <1>5, <1>6 DEF ViewSound

LEMMA InputsKept ==
  ASSUME CallsHaveRequests, SuccessWasHanded, WritesReserved, UNCHANGED inputVars
  PROVE  CallsHaveRequests' /\ SuccessWasHanded' /\ WritesReserved'
<1>1. CallsHaveRequests' BY DEF CallsHaveRequests, inputVars
<1>2. SuccessWasHanded' BY DEF SuccessWasHanded, inputVars
<1>3. WritesReserved'
  <2>1. \A r \in Requests : Writers(r)' = Writers(r) BY DEF Writers, inputVars
  <2>2. \A r \in Requests : Reservations(r)' = Reservations(r) BY DEF Reservations, inputVars
  <2> QED BY <2>1, <2>2 DEF WritesReserved, inputVars
<1> QED BY <1>1, <1>2, <1>3

\* The steps of the page store and of the commands that unlock pages.
PageStep ==
  \/ \E p \in Pages : CreatePage(p) \/ Resume(p) \/ Disconnect(p)
  \/ \E gone, over \in SUBSET Pages : Sweep(gone, over)
  \/ \E m \in Orders : (\E p \in Pages : AskUnlock(m, p)) \/ AskFailed(m)
  \/ \E a \in asks : Unlock(a) \/ UnlockKnown(a)

LEMMA TryTyped ==
  ASSUME ViewTypeOK, NEW a \in asks, NEW status \in Said, Answers(a, status)
  PROVE  try' \in [Orders -> [page : Pages \cup {NoPage}, stamp : Nat,
                             status : Said \cup {"asked", "failed"}]]
<1> DEFINE T == [page : Pages \cup {NoPage}, stamp : Nat, status : Said \cup {"asked", "failed"}]
<1>1. a.order \in Orders /\ try \in [Orders -> T] BY DEF ViewTypeOK
<1>2. \E s \in Said \cup {"asked", "failed"} : try' = [try EXCEPT ![a.order].status = s]
  BY <1>1 DEF Answers
<1>3. \A x \in T, s \in Said \cup {"asked", "failed"} : [x EXCEPT !.status = s] \in T OBVIOUS
<1>4. \E x \in T : try' = [try EXCEPT ![a.order] = x] BY <1>1, <1>2, <1>3
<1> QED BY <1>1, <1>4

LEMMA PageStepSound == ASSUME ViewSound, PageStep PROVE ViewSound'
<1> USE DEF ViewSound
<1>0. UNCHANGED inputVars /\ UNCHANGED hubStops
  BY DEF PageStep, CreatePage, Resume, Disconnect, Sweep, AskUnlock, AskFailed, Unlock, UnlockKnown
<1>1. CallsHaveRequests' /\ SuccessWasHanded' /\ WritesReserved' BY <1>0, InputsKept
<1>2. /\ call' \in [Calls -> [pc : Places, page : Pages \cup {NoPage}, req : Requests \cup {NoRequest},
                             status : Said]]
      /\ reply' \in [Requests -> [page : Pages \cup {NoPage}, status : Said \cup {"reserved"}]]
      /\ {handed', forgotten'} \subseteq [Requests -> Nat] /\ told' \subseteq Requests
      /\ line' \in Seq(Requests) /\ hubStops' \in Nat
  BY <1>0 DEF ViewTypeOK, inputVars
<1> DEFINE StoreTyped ==
      /\ page' \in [Pages -> [state : PageState, away : BOOLEAN]]
      /\ order' \in [Orders -> [stamp : Nat, status : Said]]
      /\ try' \in [Orders -> [page : Pages \cup {NoPage}, stamp : Nat,
                              status : Said \cup {"asked", "failed"}]]
      /\ asks' \subseteq [order : Orders, page : Pages, stamp : Nat] /\ opened' \subseteq Pages
<1> SUFFICES StoreTyped /\ CommandsNamePages' /\ UnlockedWereOpened'
  BY <1>1, <1>2 DEF ViewTypeOK
<1> DEFINE PageRecord == [state : PageState, away : BOOLEAN]
<1>a. /\ {"locked", "unlocked", "expired", "revoked"} \subseteq PageState
      /\ page \in [Pages -> PageRecord]
  BY DEF ViewTypeOK, PageState
<1>b. \A x \in PageRecord : /\ x.state \in PageState /\ x.away \in BOOLEAN
                            /\ \A e \in PageState : [x EXCEPT !.state = e] \in PageRecord
                            /\ \A e \in PageState : [x EXCEPT !.state = e].state = e
                            /\ \A b \in BOOLEAN : [x EXCEPT !.away = b] \in PageRecord
                            /\ \A b \in BOOLEAN : [x EXCEPT !.away = b].state = x.state
  OBVIOUS
<1> HIDE DEF PageRecord
<1>3. ASSUME NEW p \in Pages, CreatePage(p) \/ Resume(p) \/ Disconnect(p)
      PROVE  StoreTyped /\ CommandsNamePages' /\ UnlockedWereOpened'
  <2>1. \E x \in PageRecord : /\ page' = [page EXCEPT ![p] = x]
                              /\ x.state \in {page[p].state, "locked"}
    <3>1. CASE CreatePage(p)
      <4>1. page' = [page EXCEPT ![p] = [page[p] EXCEPT !.state = "locked"]] BY <3>1 DEF CreatePage
      <4> QED BY <4>1, <1>a, <1>b
    <3>2. CASE Resume(p)
      <4>1. page' = [page EXCEPT ![p] = [page[p] EXCEPT !.away = FALSE]] BY <3>2 DEF Resume
      <4> QED BY <4>1, <1>a, <1>b
    <3>3. CASE Disconnect(p)
      <4>1. page' = [page EXCEPT ![p] = [page[p] EXCEPT !.away = TRUE]] BY <3>3 DEF Disconnect
      <4> QED BY <4>1, <1>a, <1>b
    <3> QED BY <1>3, <3>1, <3>2, <3>3
  <2>2. UNCHANGED <<order, try, asks, opened>> BY <1>3 DEF CreatePage, Resume, Disconnect
  <2>3. page' \in [Pages -> PageRecord] BY <2>1, <1>a
  <2>4. StoreTyped BY <2>2, <2>3 DEF ViewTypeOK, PageRecord
  <2>5. CommandsNamePages' BY <2>2 DEF CommandsNamePages
  <2>6. UnlockedWereOpened' BY <2>1, <2>2, <1>a DEF UnlockedWereOpened
  <2> QED BY <2>4, <2>5, <2>6
<1>4. ASSUME NEW gone \in SUBSET Pages, NEW over \in SUBSET Pages, Sweep(gone, over)
      PROVE  StoreTyped /\ CommandsNamePages' /\ UnlockedWereOpened'
  <2>1. DOMAIN page' = Pages /\ page' = [q \in Pages |-> page'[q]] BY <1>4 DEF Sweep
  <2>2. \A q \in Pages :
          \/ page'[q] = page[q]
          \/ \E e \in {"expired", "revoked"} : page'[q] = [page[q] EXCEPT !.state = e]
    BY <1>4 DEF Sweep
  <2>3. \A q \in Pages : /\ page'[q] \in PageRecord
                         /\ page'[q].state = "unlocked" => page[q].state = "unlocked"
    <3> SUFFICES ASSUME NEW q \in Pages
                 PROVE  /\ page'[q] \in PageRecord
                        /\ page'[q].state = "unlocked" => page[q].state = "unlocked"
      OBVIOUS
    <3>1. page[q] \in PageRecord BY <1>a
    <3>2. ASSUME NEW e \in {"expired", "revoked"}, page'[q] = [page[q] EXCEPT !.state = e]
          PROVE  page'[q] \in PageRecord /\ page'[q].state = e /\ e # "unlocked"
      BY <3>1, <3>2, <1>a, <1>b
    <3> QED BY <2>2, <3>1, <3>2
  <2>4. UNCHANGED <<order, try, asks, opened>> BY <1>4 DEF Sweep
  <2>5. page' \in [Pages -> PageRecord] BY <2>1, <2>3
  <2>6. StoreTyped BY <2>4, <2>5 DEF ViewTypeOK, PageRecord
  <2>7. CommandsNamePages' BY <2>4 DEF CommandsNamePages
  <2>8. UnlockedWereOpened' BY <2>3, <2>4 DEF UnlockedWereOpened
  <2> QED BY <2>6, <2>7, <2>8
<1>5. ASSUME NEW m \in Orders, NEW p \in Pages, AskUnlock(m, p)
      PROVE  StoreTyped /\ CommandsNamePages' /\ UnlockedWereOpened'
  <2>1. StoreTyped BY <1>5 DEF AskUnlock, ViewTypeOK
  <2>2. CommandsNamePages'
    <3>1. try[m].page # NoPage => try[m].page = p BY <1>5 DEF AskUnlock
    <3>2. \A n \in Orders : /\ n # m => try'[n] = try[n]
                            /\ try'[m].page = p /\ try'[m].status = "asked"
      BY <1>5 DEF AskUnlock, ViewTypeOK
    <3>3. \A a \in asks : a.page \in Pages BY DEF ViewTypeOK
    <3>4. \A a \in asks' : a \in asks \/ (a.order = m /\ a.page = p) BY <1>5 DEF AskUnlock
    <3>5. order' = order /\ opened' = opened BY <1>5 DEF AskUnlock
    <3>6. order[m].status = "ok" => try[m].page = p
      BY <3>1, PagesAssumption DEF CommandsNamePages
    <3>7. \A a \in asks : a.order = m => a.page = p
      BY <3>1, <3>3, PagesAssumption DEF CommandsNamePages
    <3> QED BY <3>1, <3>2, <3>4, <3>5, <3>6, <3>7 DEF CommandsNamePages
  <2>3. UnlockedWereOpened' BY <1>5 DEF AskUnlock, UnlockedWereOpened
  <2> QED BY <2>1, <2>2, <2>3
<1>6. ASSUME NEW m \in Orders, AskFailed(m)
      PROVE  StoreTyped /\ CommandsNamePages' /\ UnlockedWereOpened'
  <2>1. StoreTyped BY <1>6 DEF AskFailed, ViewTypeOK
  <2>2. CommandsNamePages' BY <1>6 DEF AskFailed, CommandsNamePages, ViewTypeOK
  <2>3. UnlockedWereOpened' BY <1>6 DEF AskFailed, UnlockedWereOpened
  <2> QED BY <2>1, <2>2, <2>3
<1>7. ASSUME NEW a \in asks, Unlock(a)
      PROVE  StoreTyped /\ CommandsNamePages' /\ UnlockedWereOpened'
  <2> DEFINE m == a.order
  <2>1. m \in Orders /\ a.page \in Pages /\ a.stamp \in Nat BY DEF ViewTypeOK
  <2>2. NewStatus(a.page) \in Said \ {"none"} BY DEF NewStatus, Said
  <2>3. StoreTyped
    <3>1. /\ page' = [page EXCEPT ![a.page] = IF @.state = "locked"
                         THEN [state |-> "unlocked", away |-> FALSE] ELSE @]
          /\ opened' = IF page[a.page].state = "locked" THEN opened \cup {a.page} ELSE opened
          /\ order' = [order EXCEPT ![m] = [stamp |-> a.stamp, status |-> NewStatus(a.page)]]
          /\ asks' = asks \ {a}
      BY <1>7 DEF Unlock
    <3>2. page' \in [Pages -> PageRecord]
      <4>1. [state |-> "unlocked", away |-> FALSE] \in PageRecord BY <1>a DEF PageRecord
      <4> QED BY <3>1, <4>1, <1>a
    <3>3. order' \in [Orders -> [stamp : Nat, status : Said]] BY <3>1, <2>1, <2>2 DEF ViewTypeOK
    <3>4. try' \in [Orders -> [page : Pages \cup {NoPage}, stamp : Nat,
                              status : Said \cup {"asked", "failed"}]]
      BY <1>7, <2>1, <2>2, TryTyped DEF Unlock, ViewTypeOK
    <3> QED BY <2>1, <3>1, <3>2, <3>3, <3>4 DEF ViewTypeOK, PageRecord
  <2>4. /\ page[a.page].state = "locked" => a.page \in opened'
        /\ opened \subseteq opened' /\ asks' \subseteq asks
    BY <1>7 DEF Unlock
  <2>5. NewStatus(a.page) = "ok" => a.page \in opened'
    BY <2>1, <2>4 DEF NewStatus, UnlockedWereOpened
  <2>6. try[m].page = a.page BY <2>1 DEF CommandsNamePages
  <2>7. \A n \in Orders : try'[n].page = try[n].page
    BY <1>7, <2>1 DEF Unlock, Answers, ViewTypeOK
  <2>8. \A n \in Orders : try'[n].status = "ok" =>
          try[n].status = "ok" \/ (n = m /\ NewStatus(a.page) = "ok")
    BY <1>7, <2>1 DEF Unlock, Answers, ViewTypeOK
  <2>9. \A n \in Orders : /\ n # m => order'[n] = order[n]
                          /\ order'[m].status = NewStatus(a.page)
    BY <1>7, <2>1 DEF Unlock, ViewTypeOK
  <2>10. CommandsNamePages'
    BY <2>1, <2>4, <2>5, <2>6, <2>7, <2>8, <2>9 DEF CommandsNamePages
  <2>11. UnlockedWereOpened'
    BY <1>7, <2>1, <2>4 DEF Unlock, UnlockedWereOpened, ViewTypeOK
  <2> QED BY <2>3, <2>10, <2>11
<1>8. ASSUME NEW a \in asks, UnlockKnown(a)
      PROVE  StoreTyped /\ CommandsNamePages' /\ UnlockedWereOpened'
  <2> DEFINE m == a.order
  <2>1. m \in Orders /\ a.page \in Pages /\ a.stamp \in Nat BY DEF ViewTypeOK
  <2>2. OldStatus(a) \in Said /\ (OldStatus(a) = "ok" => order[m].status = "ok")
    BY <2>1 DEF OldStatus, Said, ViewTypeOK
  <2>3. StoreTyped
    <3>1. try' \in [Orders -> [page : Pages \cup {NoPage}, stamp : Nat,
                              status : Said \cup {"asked", "failed"}]]
      BY <1>8, <2>1, <2>2, TryTyped DEF UnlockKnown, ViewTypeOK
    <3> QED BY <1>8, <3>1 DEF UnlockKnown, ViewTypeOK
  <2>4. \A n \in Orders : try'[n].page = try[n].page
    BY <1>8, <2>1 DEF UnlockKnown, Answers, ViewTypeOK
  <2>5. \A n \in Orders : try'[n].status = "ok" =>
          try[n].status = "ok" \/ (n = m /\ OldStatus(a) = "ok")
    BY <1>8, <2>1 DEF UnlockKnown, Answers, ViewTypeOK
  <2>6. asks' \subseteq asks /\ order' = order /\ opened' = opened BY <1>8 DEF UnlockKnown
  <2>7. CommandsNamePages' BY <2>1, <2>2, <2>4, <2>5, <2>6 DEF CommandsNamePages
  <2>8. UnlockedWereOpened' BY <1>8 DEF UnlockKnown, UnlockedWereOpened
  <2> QED BY <2>3, <2>7, <2>8
<1> QED BY <1>3, <1>4, <1>5, <1>6, <1>7, <1>8 DEF PageStep

\* The steps of entries.
InputStep ==
  \/ \E c \in Calls : \/ \E p \in Pages : Refuse(c, p) \/ \E r \in Requests : Authorize(c, p, r)
                      \/ Reserve(c) \/ Duplicate(c) \/ Route(c) \/ RouteFails(c) \/ Complete(c)
                      \/ Tell(c) \/ AnswerLost(c)
  \/ \E r \in Requests : Forget(r)
  \/ HubRestart \/ LineLost

CallRecord == [pc : Places, page : Pages \cup {NoPage}, req : Requests \cup {NoRequest}, status : Said]
ReplyRecord == [page : Pages \cup {NoPage}, status : Said \cup {"reserved"}]

\* Who writes depends on the calls that are reserved.
LEMMA WritersFinite == ASSUME NEW r \in Requests
                       PROVE  IsFiniteSet(Writers(r)) /\ Cardinality(Writers(r)) \in Nat
  BY PagesAssumption, FS_Subset, FS_CardinalityType DEF Writers

LEMMA CallMoves ==
  ASSUME ViewTypeOK, NEW c \in Calls, NEW x \in CallRecord, call' = [call EXCEPT ![c] = x]
  PROVE  /\ call' \in [Calls -> CallRecord]
         /\ \A r \in Requests :
              /\ ~(x.pc = "reserved" /\ x.req = r) => Writers(r)' = Writers(r) \ {c}
              /\ (x.pc = "reserved" /\ x.req = r) => Writers(r)' = Writers(r) \cup {c}
         /\ \A d \in Calls : call'[d] = IF d = c THEN x ELSE call[d]
<1>1. call \in [Calls -> CallRecord] BY DEF ViewTypeOK, CallRecord
<1>2. \A d \in Calls : call'[d] = IF d = c THEN x ELSE call[d] BY <1>1
<1> QED BY <1>1, <1>2 DEF Writers

LEMMA CallFields ==
  ASSUME NEW x \in CallRecord
  PROVE  /\ x.pc \in Places /\ x.page \in Pages \cup {NoPage}
         /\ x.req \in Requests \cup {NoRequest} /\ x.status \in Said
         /\ \A k \in Places : /\ [x EXCEPT !.pc = k] \in CallRecord
                             /\ [x EXCEPT !.pc = k].pc = k
                             /\ [x EXCEPT !.pc = k].req = x.req
                             /\ [x EXCEPT !.pc = k].status = x.status
         /\ \A k \in Places, e \in Said : /\ [x EXCEPT !.pc = k, !.status = e] \in CallRecord
                                        /\ [x EXCEPT !.pc = k, !.status = e].pc = k
                                        /\ [x EXCEPT !.pc = k, !.status = e].req = x.req
                                        /\ [x EXCEPT !.pc = k, !.status = e].status = e
BY DEF CallRecord

\* A call that is not writing, and will not be, moves: what is written and
\* reserved may only grow on the side of the reservations.
LEMMA QuietMove ==
  ASSUME ViewTypeOK, WritesReserved, NEW c \in Calls, NEW x \in CallRecord,
         call' = [call EXCEPT ![c] = x], x.pc # "reserved", handed' = handed,
         \A r \in Requests : Reservations(r)' >= Reservations(r),
         \A r \in Requests : Reservations(r)' \in Nat /\ Reservations(r) \in Nat
  PROVE  WritesReserved'
<1> SUFFICES ASSUME NEW r \in Requests
             PROVE  handed'[r] + Cardinality(Writers(r)') <= Reservations(r)'
  BY DEF WritesReserved
<1>1. Writers(r)' = Writers(r) \ {c} BY CallMoves
<1>2. /\ IsFiniteSet(Writers(r)) /\ Cardinality(Writers(r)) \in Nat
      /\ Cardinality(Writers(r) \ {c}) \in Nat
      /\ Cardinality(Writers(r) \ {c}) <= Cardinality(Writers(r))
  BY WritersFinite, FS_RemoveElement, FS_CardinalityType, FS_Subset
<1>3. handed[r] \in Nat BY DEF ViewTypeOK
<1>4. handed[r] + Cardinality(Writers(r)) <= Reservations(r) BY DEF WritesReserved
<1>5. handed'[r] = handed[r] OBVIOUS
<1> QED BY <1>1, <1>2, <1>3, <1>4, <1>5

LEMMA ReservationsNat == ASSUME ViewTypeOK, NEW r \in Requests PROVE Reservations(r) \in Nat
  BY DEF ViewTypeOK, Reservations

\* The store does not change but for pages that lose their grant.
LEMMA StoreKept ==
  ASSUME CommandsNamePages, UnlockedWereOpened, UNCHANGED <<order, try, asks, opened>>,
         \A p \in Pages : page'[p].state = "unlocked" => page[p].state = "unlocked"
  PROVE  CommandsNamePages' /\ UnlockedWereOpened'
  BY DEF CommandsNamePages, UnlockedWereOpened

LEMMA EntryMoves ==
  ASSUME ViewSound, NEW c \in Calls, NEW x \in CallRecord, call' = [call EXCEPT ![c] = x],
         x.pc \in {"ended", "entered"}, x.pc = "entered" => x.req \in Requests,
         NEW p \in Pages, NEW y \in [state : PageState, away : BOOLEAN],
         page' = [page EXCEPT ![p] = y], y.state = "unlocked" => page[p].state = "unlocked",
         UNCHANGED <<order, try, asks, opened, reply, handed, told, forgotten, line, hubStops>>
  PROVE  ViewSound'
<1> USE DEF ViewSound
<1>1. /\ call' \in [Calls -> CallRecord]
      /\ \A d \in Calls : call'[d] = IF d = c THEN x ELSE call[d]
  BY CallMoves
<1>2. page' \in [Pages -> [state : PageState, away : BOOLEAN]] BY DEF ViewTypeOK
<1>3. ViewTypeOK' BY <1>1, <1>2 DEF ViewTypeOK, CallRecord
<1>4. CallsHaveRequests' BY <1>1 DEF CallsHaveRequests
<1>5. CommandsNamePages' /\ UnlockedWereOpened'
  <2>1. \A q \in Pages : page'[q].state = "unlocked" => page[q].state = "unlocked"
    BY DEF ViewTypeOK
  <2> QED BY <2>1, StoreKept
<1>6. SuccessWasHanded' BY <1>1 DEF SuccessWasHanded
<1>7. WritesReserved'
  <2>1. \A r \in Requests : Reservations(r)' = Reservations(r) BY DEF Reservations
  <2>2. \A r \in Requests : Reservations(r) \in Nat /\ Reservations(r)' >= Reservations(r)
    BY <2>1, ReservationsNat
  <2>3. handed' = handed /\ x.pc # "reserved" OBVIOUS
  <2> QED BY <2>1, <2>2, <2>3, QuietMove
<1> QED BY <1>3, <1>4, <1>5, <1>6, <1>7

LEMMA EntrySound ==
  ASSUME ViewSound, NEW c \in Calls, NEW p \in Pages,
         Refuse(c, p) \/ \E r \in Requests : Authorize(c, p, r)
  PROVE  ViewSound'
<1> DEFINE PageRecord == [state : PageState, away : BOOLEAN]
<1>1. call \in [Calls -> CallRecord] /\ page[p] \in PageRecord
  BY DEF ViewSound, ViewTypeOK, CallRecord
<1>2. CASE Refuse(c, p)
  <2> DEFINE x == [call[c] EXCEPT !.pc = "ended"]
             y == IF page[p].state = "unlocked" THEN [page[p] EXCEPT !.state = "expired"] ELSE page[p]
  <2>1. call[c] \in CallRecord /\ "ended" \in Places BY <1>1 DEF Places
  <2>2. x \in CallRecord /\ x.pc = "ended" BY <2>1, CallFields
  <2>3. y \in PageRecord /\ (y.state = "unlocked" => page[p].state = "unlocked")
    BY <1>1 DEF PageState
  <2>4. /\ call' = [call EXCEPT ![c] = x] /\ page' = [page EXCEPT ![p] = y]
        /\ UNCHANGED <<order, try, asks, opened, reply, handed, told, forgotten, line, hubStops>>
    BY <1>2, <1>1 DEF Refuse, ViewSound, ViewTypeOK
  <2> HIDE DEF x, y
  <2> QED BY <2>2, <2>3, <2>4, EntryMoves
<1>3. ASSUME NEW r \in Requests, Authorize(c, p, r) PROVE ViewSound'
  <2> DEFINE x == [pc |-> "entered", page |-> p, req |-> r, status |-> "none"]
             y == [page[p] EXCEPT !.away = FALSE]
  <2>1. x \in CallRecord /\ x.pc = "entered" /\ x.req = r BY DEF CallRecord, Places, Said
  <2>2. y \in PageRecord /\ y.state = page[p].state BY <1>1
  <2>3. /\ call' = [call EXCEPT ![c] = x] /\ page' = [page EXCEPT ![p] = y]
        /\ UNCHANGED <<order, try, asks, opened, reply, handed, told, forgotten, line, hubStops>>
    BY <1>3 DEF Authorize
  <2> HIDE DEF x, y
  <2> QED BY <2>1, <2>2, <2>3, EntryMoves
<1> QED BY <1>2, <1>3

\* A call moves on, quietly: the table may get the outcome it has.
LEMMA CallEnds ==
  ASSUME ViewSound, UNCHANGED pageVars, NEW c \in Calls, NEW x \in CallRecord,
         call' = [call EXCEPT ![c] = x],
         x.pc \in {"routed", "replied", "ended"}, x.req = call[c].req,
         x.pc # "ended" => x.req \in Requests /\ x.status # "none",
         x.pc # "ended" /\ x.status = "ok" => handed[x.req] > 0,
         reply' \in [Requests -> ReplyRecord],
         \A r \in Requests : \/ reply'[r] = reply[r]
                             \/ /\ reply'[r] # NoReply /\ reply'[r].status # "none"
                                /\ reply'[r].status = "ok" => handed[r] > 0,
         told' \subseteq Requests, \A r \in told' : r \in told \/ handed[r] > 0,
         UNCHANGED <<handed, forgotten, line, hubStops>>
  PROVE  ViewSound'
<1> USE DEF ViewSound
<1>1. /\ call' \in [Calls -> CallRecord]
      /\ \A d \in Calls : call'[d] = IF d = c THEN x ELSE call[d]
  BY CallMoves
<1>2. ViewTypeOK' BY <1>1 DEF ViewTypeOK, CallRecord, ReplyRecord, pageVars
<1>3. CallsHaveRequests' BY <1>1 DEF CallsHaveRequests
<1>4. CommandsNamePages' /\ UnlockedWereOpened' BY StoreKept DEF pageVars
<1>5. SuccessWasHanded' BY <1>1 DEF SuccessWasHanded
<1>6. WritesReserved'
  <2>1. \A r \in Requests : Reservations(r) \in Nat /\ forgotten[r] \in Nat
    BY ReservationsNat DEF ViewTypeOK
  <2>2. \A r \in Requests : Reservations(r)' >= Reservations(r) /\ Reservations(r)' \in Nat
    BY <2>1 DEF Reservations
  <2>3. handed' = handed /\ x.pc # "reserved" OBVIOUS
  <2> QED BY <2>1, <2>2, <2>3, QuietMove
<1> QED BY <1>2, <1>3, <1>4, <1>5, <1>6

LEMMA ReserveSound == ASSUME ViewSound, NEW c \in Calls, Reserve(c) PROVE ViewSound'
<1> USE DEF ViewSound
<1> DEFINE x == [call[c] EXCEPT !.pc = "reserved"]
           q == call[c].req
<1>1. call[c] \in CallRecord /\ q \in Requests /\ call[c].pc = "entered"
  BY DEF Reserve, ViewTypeOK, CallRecord, CallsHaveRequests
<1>2. x \in CallRecord /\ x.pc = "reserved" /\ x.req = q
  <2>1. "reserved" \in Places BY DEF Places
  <2> QED BY <1>1, <2>1, CallFields
<1>3. /\ call' = [call EXCEPT ![c] = x] /\ reply[q] = NoReply
      /\ reply' = [reply EXCEPT ![q] = Reserved(c, "reserved")]
      /\ UNCHANGED pageVars /\ UNCHANGED <<handed, told, forgotten, line, hubStops>>
  BY DEF Reserve
<1>4. Reserved(c, "reserved") \in ReplyRecord /\ Reserved(c, "reserved").status = "reserved"
  BY <1>1, CallFields DEF Reserved, ReplyRecord
<1>5. Reserved(c, "reserved") # NoReply BY DEF Reserved, NoReply
<1> HIDE DEF x
<1>6. /\ call' \in [Calls -> CallRecord]
      /\ \A d \in Calls : call'[d] = IF d = c THEN x ELSE call[d]
  BY <1>2, <1>3, CallMoves
<1>w. \A r \in Requests : IF r = q THEN Writers(r)' = Writers(r) \cup {c}
                           ELSE Writers(r)' = Writers(r) \ {c}
  <2>1. \A r \in Requests :
          /\ ~(x.pc = "reserved" /\ x.req = r) => Writers(r)' = Writers(r) \ {c}
          /\ (x.pc = "reserved" /\ x.req = r) => Writers(r)' = Writers(r) \cup {c}
    BY <1>2, <1>3, CallMoves
  <2> QED BY <2>1, <1>2
<1>7. ViewTypeOK' BY <1>1, <1>3, <1>4, <1>6 DEF ViewTypeOK, CallRecord, ReplyRecord, pageVars
<1>8. CallsHaveRequests'
  <2>1. \A r \in Requests : reply'[r] = reply[r] \/ reply'[r].status = "reserved"
    BY <1>1, <1>3, <1>4 DEF ViewTypeOK
  <2> QED BY <2>1, <1>1, <1>2, <1>6 DEF CallsHaveRequests
<1>9. CommandsNamePages' /\ UnlockedWereOpened' BY <1>3, StoreKept DEF pageVars
<1>10. SuccessWasHanded'
  BY <1>1, <1>2, <1>3, <1>4, <1>6 DEF SuccessWasHanded, ViewTypeOK
<1>11. WritesReserved'
  <2> SUFFICES ASSUME NEW r \in Requests
               PROVE  handed'[r] + Cardinality(Writers(r)') <= Reservations(r)'
    BY DEF WritesReserved
  <2>1. /\ handed[r] + Cardinality(Writers(r)) <= Reservations(r)
        /\ handed[r] \in Nat /\ forgotten[r] \in Nat
    BY DEF WritesReserved, ViewTypeOK
  <2>2. c \notin Writers(r) BY <1>1 DEF Writers
  <2>3. IsFiniteSet(Writers(r)) /\ Cardinality(Writers(r)) \in Nat BY WritersFinite
  <2>4. CASE r = q
    <3>1. Cardinality(Writers(r)') = Cardinality(Writers(r)) + 1
      <4>1. Writers(r)' = Writers(r) \cup {c} BY <1>w, <2>4
      <4>2. Cardinality(Writers(r) \cup {c}) = Cardinality(Writers(r)) + 1
        BY <2>2, <2>3, FS_AddElement
      <4> QED BY <4>1, <4>2, <2>4
    <3>2. Reservations(r)' = Reservations(r) + 1
      BY <1>1, <1>3, <1>5, <2>1, <2>4 DEF Reservations, ViewTypeOK
    <3>3. Reservations(r) \in Nat BY ReservationsNat
    <3> QED BY <1>3, <2>1, <2>3, <3>1, <3>2, <3>3
  <2>5. CASE r # q
    <3>1. Writers(r)' = Writers(r) BY <1>w, <2>2, <2>5
    <3>2. Reservations(r)' = Reservations(r) BY <1>1, <1>3, <2>5 DEF Reservations, ViewTypeOK
    <3> QED BY <1>3, <2>1, <3>1, <3>2
  <2> QED BY <2>4, <2>5
<1> QED BY <1>7, <1>8, <1>9, <1>10, <1>11

LEMMA RouteSound == ASSUME ViewSound, NEW c \in Calls, Route(c) PROVE ViewSound'
<1> USE DEF ViewSound
<1> DEFINE x == [call[c] EXCEPT !.pc = "routed", !.status = "ok"]
           q == call[c].req
<1>1. call[c] \in CallRecord /\ q \in Requests /\ call[c].pc = "reserved"
  BY DEF Route, ViewTypeOK, CallRecord, CallsHaveRequests
<1>2. x \in CallRecord /\ x.pc = "routed" /\ x.req = q /\ x.status = "ok"
  BY <1>1, CallFields DEF Places, Said
<1>3. /\ call' = [call EXCEPT ![c] = x]
      /\ handed' = [handed EXCEPT ![q] = handed[q] + 1] /\ line' = Append(line, q)
      /\ UNCHANGED pageVars /\ UNCHANGED <<reply, told, forgotten, hubStops>>
  BY DEF Route
<1> HIDE DEF x
<1>4. /\ call' \in [Calls -> CallRecord]
      /\ \A d \in Calls : call'[d] = IF d = c THEN x ELSE call[d]
      /\ \A r \in Requests : Writers(r)' = Writers(r) \ {c}
  BY <1>2, <1>3, CallMoves
<1>5. \A r \in Requests : /\ handed'[r] = IF r = q THEN handed[r] + 1 ELSE handed[r]
                          /\ handed[r] \in Nat /\ forgotten[r] \in Nat
  BY <1>1, <1>3 DEF ViewTypeOK
<1>6. handed' \in [Requests -> Nat] BY <1>1, <1>3, <1>5 DEF ViewTypeOK
<1>7. ViewTypeOK'
  <2>1. line' \in Seq(Requests) BY <1>1, <1>3 DEF ViewTypeOK
  <2> QED BY <2>1, <1>3, <1>4, <1>6 DEF ViewTypeOK, CallRecord, pageVars
<1>8. CallsHaveRequests' BY <1>1, <1>2, <1>3, <1>4 DEF CallsHaveRequests
<1>9. CommandsNamePages' /\ UnlockedWereOpened' BY <1>3, StoreKept DEF pageVars
<1>10. SuccessWasHanded'
  <2>1. \A r \in Requests : handed[r] > 0 => handed'[r] > 0 BY <1>5
  <2>2. handed'[q] > 0 BY <1>1, <1>5
  <2>3. \A d \in Calls : call[d].pc \in {"routed", "replied"} => call[d].req \in Requests
    BY DEF CallsHaveRequests
  <2> QED BY <2>1, <2>2, <2>3, <1>2, <1>3, <1>4 DEF SuccessWasHanded
<1>11. WritesReserved'
  <2> SUFFICES ASSUME NEW r \in Requests
               PROVE  handed'[r] + Cardinality(Writers(r)') <= Reservations(r)'
    BY DEF WritesReserved
  <2>1. handed[r] + Cardinality(Writers(r)) <= Reservations(r) BY DEF WritesReserved
  <2>2. Reservations(r)' = Reservations(r) BY <1>3 DEF Reservations
  <2>3. IsFiniteSet(Writers(r)) /\ Cardinality(Writers(r)) \in Nat BY WritersFinite
  <2>4. CASE r = q
    <3>1. c \in Writers(r) BY <1>1, <2>4 DEF Writers
    <3>2. Cardinality(Writers(r) \ {c}) = Cardinality(Writers(r)) - 1
      BY <3>1, <2>3, FS_RemoveElement
    <3>3. Writers(r)' = Writers(r) \ {c} /\ handed'[r] = handed[r] + 1 /\ handed[r] \in Nat
      BY <1>4, <1>5, <2>4
    <3>4. Reservations(r) \in Nat BY ReservationsNat
    <3>5. Cardinality(Writers(r)') = Cardinality(Writers(r)) - 1 BY <3>2, <3>3
    <3> QED BY <2>1, <2>2, <2>3, <3>3, <3>4, <3>5
  <2>5. CASE r # q
    <3>1. c \notin Writers(r) BY <2>5 DEF Writers
    <3>2. Writers(r)' = Writers(r) BY <1>4, <3>1
    <3> QED BY <1>5, <2>1, <2>2, <2>5, <3>2
  <2> QED BY <2>4, <2>5
<1> QED BY <1>7, <1>8, <1>9, <1>10, <1>11

LEMMA QuietStepSound ==
  ASSUME ViewSound, NEW c \in Calls,
         \/ RouteFails(c) \/ Complete(c) \/ Duplicate(c) \/ Tell(c) \/ AnswerLost(c)
  PROVE  ViewSound'
<1> DEFINE q == call[c].req
<1>0. /\ call[c] \in CallRecord
      /\ call[c].pc \in {"entered", "reserved", "routed", "replied"}
      /\ q \in Requests
      /\ call[c].pc \in {"routed", "replied"} => call[c].status # "none"
      /\ call[c].pc \in {"routed", "replied"} /\ call[c].status = "ok" => handed[q] > 0
      /\ \A r \in Requests : reply[r].status = "ok" => handed[r] > 0
      /\ \A r \in Requests : reply[r] # NoReply => reply[r].status # "none"
      /\ reply \in [Requests -> ReplyRecord] /\ told \subseteq Requests
  BY DEF RouteFails, Complete, Duplicate, Tell, AnswerLost, ViewSound, ViewTypeOK, CallRecord,
         CallsHaveRequests, SuccessWasHanded, ReplyRecord
<1>a. call[c] \in CallRecord BY <1>0
<1>b. "routed" \in Places /\ "missing" \in Said BY DEF Places, Said
<1>c. "replied" \in Places BY DEF Places
<1>d. "ended" \in Places BY DEF Places
<1>1. CASE RouteFails(c)
  <2> DEFINE x == [call[c] EXCEPT !.pc = "routed", !.status = "missing"]
  <2>1. /\ x \in CallRecord
        /\ x.pc = "routed" /\ x.req = q /\ x.status = "missing"
    BY <1>a, <1>b DEF CallRecord
  <2>2. /\ call' = [call EXCEPT ![c] = x]
        /\ UNCHANGED pageVars /\ UNCHANGED <<reply, handed, told, forgotten, line, hubStops>>
    BY <1>1 DEF RouteFails
  <2> HIDE DEF x
  <2> QED BY <2>1, <2>2, <1>0, CallEnds
<1>2. CASE Complete(c)
  <2> DEFINE x == [call[c] EXCEPT !.pc = "replied"]
             y == Reserved(c, call[c].status)
  <2>1. x \in CallRecord /\ x.pc = "replied" /\ x.req = q /\ x.status = call[c].status
    BY <1>a, <1>c, CallFields
  <2>2. /\ call' = [call EXCEPT ![c] = x] /\ reply' = [reply EXCEPT ![q] = y]
        /\ UNCHANGED pageVars /\ UNCHANGED <<handed, told, forgotten, line, hubStops>>
        /\ call[c].pc = "routed"
    BY <1>2 DEF Complete
  <2>3. y \in ReplyRecord /\ y.status = call[c].status
    BY <1>0, CallFields DEF Reserved, ReplyRecord
  <2>4. y # NoReply BY <1>0, <2>2, <2>3 DEF NoReply
  <2> HIDE DEF x, y
  <2>5. reply' \in [Requests -> ReplyRecord] BY <1>0, <2>2, <2>3
  <2>6. \A r \in Requests : \/ reply'[r] = reply[r]
                            \/ /\ reply'[r] # NoReply /\ reply'[r].status # "none"
                               /\ reply'[r].status = "ok" => handed[r] > 0
    BY <1>0, <2>2, <2>3, <2>4
  <2> QED BY <2>1, <2>2, <2>5, <2>6, <1>0, CallEnds
<1>3. CASE Duplicate(c)
  <2> DEFINE e == KnownStatus(c, reply[q])
             x == [call[c] EXCEPT !.pc = "replied", !.status = e]
  <2>1. reply[q] \in ReplyRecord /\ reply[q] # NoReply BY <1>0, <1>3 DEF Duplicate
  <2>2. e \in Said \ {"none"} /\ (e = "ok" => handed[q] > 0)
    <3>1. CASE reply[q] = Reserved(c, reply[q].status) /\ reply[q].status # "reserved"
      <4>1. e = reply[q].status /\ e \in Said BY <3>1, <2>1 DEF KnownStatus, ReplyRecord
      <4>2. e # "none" BY <4>1, <2>1, <1>0
      <4> QED BY <4>1, <4>2, <1>0
    <3>2. CASE ~(reply[q] = Reserved(c, reply[q].status) /\ reply[q].status # "reserved")
      BY <3>2 DEF KnownStatus, Said
    <3> QED BY <3>1, <3>2
  <2>3. x \in CallRecord /\ x.pc = "replied" /\ x.req = q /\ x.status = e
    <3>1. e \in Said BY <2>2
    <3> HIDE DEF e
    <3> QED BY <1>a, <1>c, <3>1 DEF CallRecord
  <2>4. /\ call' = [call EXCEPT ![c] = x]
        /\ UNCHANGED pageVars /\ UNCHANGED <<reply, handed, told, forgotten, line, hubStops>>
    BY <1>3 DEF Duplicate
  <2> HIDE DEF x, e
  <2> QED BY <2>2, <2>3, <2>4, <1>0, CallEnds
<1>4. CASE Tell(c) \/ AnswerLost(c)
  <2> DEFINE x == [call[c] EXCEPT !.pc = "ended"]
  <2>1. x \in CallRecord /\ x.pc = "ended" /\ x.req = q
    BY <1>a, <1>d, CallFields
  <2>2. /\ call' = [call EXCEPT ![c] = x]
        /\ UNCHANGED pageVars /\ UNCHANGED <<reply, handed, forgotten, line, hubStops>>
        /\ call[c].pc = "replied"
        /\ told' = told \/ (call[c].status = "ok" /\ told' = told \cup {q})
    BY <1>4 DEF Tell, AnswerLost
  <2>3. told' \subseteq Requests /\ \A r \in told' : r \in told \/ handed[r] > 0
    BY <1>0, <2>2
  <2> HIDE DEF x
  <2> QED BY <2>1, <2>2, <2>3, <1>0, CallEnds
<1> QED BY <1>1, <1>2, <1>3, <1>4

\* What the hub forgets it may be asked again: the count allows for it.
LEMMA ForgetSound == ASSUME ViewSound, NEW q \in Requests, Forget(q) PROVE ViewSound'
<1> USE DEF ViewSound
<1>1. /\ reply' = [reply EXCEPT ![q] = NoReply] /\ reply[q] # NoReply
      /\ forgotten' = [forgotten EXCEPT ![q] = forgotten[q] + 1]
      /\ UNCHANGED pageVars /\ UNCHANGED <<call, handed, told, line, hubStops>>
  BY DEF Forget
<1>2. \A r \in Requests : reply'[r] = reply[r] \/ reply'[r] = NoReply
  BY <1>1 DEF ViewTypeOK
<1>3. NoReply.status = "none" BY DEF NoReply
<1>4. ViewTypeOK'
  <2>1. forgotten[q] + 1 \in Nat BY DEF ViewTypeOK
  <2>2. forgotten' \in [Requests -> Nat] BY <1>1, <2>1 DEF ViewTypeOK
  <2>3. reply' \in [Requests -> ReplyRecord]
    <3>1. NoReply \in ReplyRecord BY DEF NoReply, ReplyRecord, Said
    <3> QED BY <1>1, <3>1 DEF ViewTypeOK, ReplyRecord
  <2> QED BY <1>1, <2>2, <2>3 DEF ViewTypeOK, ReplyRecord, pageVars
<1>5. CallsHaveRequests' BY <1>1, <1>2 DEF CallsHaveRequests
<1>6. CommandsNamePages' /\ UnlockedWereOpened' BY <1>1, StoreKept DEF pageVars
<1>7. SuccessWasHanded' BY <1>1, <1>2, <1>3 DEF SuccessWasHanded
<1>8. WritesReserved'
  <2> SUFFICES ASSUME NEW r \in Requests
               PROVE  handed'[r] + Cardinality(Writers(r)') <= Reservations(r)'
    BY DEF WritesReserved
  <2>1. Writers(r)' = Writers(r) BY <1>1 DEF Writers
  <2>2. Reservations(r)' = Reservations(r) BY <1>1 DEF Reservations, ViewTypeOK
  <2> QED BY <1>1, <2>1, <2>2 DEF WritesReserved
<1> QED BY <1>4, <1>5, <1>6, <1>7, <1>8

LEMMA HubRestartSound == ASSUME ViewSound, HubRestart PROVE ViewSound'
<1> USE DEF ViewSound
<1>1. /\ reply' = [r \in Requests |-> NoReply]
      /\ forgotten' = [r \in Requests |-> forgotten[r] + (IF reply[r] = NoReply THEN 0 ELSE 1)]
      /\ hubStops' = hubStops + 1
      /\ UNCHANGED <<page, order, asks, opened, handed, told, line>>
  BY DEF HubRestart
<1>2. /\ call' \in [Calls -> CallRecord]
      /\ \A d \in Calls : \/ call'[d] = call[d] /\ call[d].pc \notin InHub
                          \/ call'[d].pc = "ended"
  <2>1. call \in [Calls -> CallRecord] BY DEF ViewTypeOK, CallRecord
  <2>2. "ended" \in Places BY DEF Places
  <2>3. call' = [d \in Calls |-> IF call[d].pc \in InHub THEN [call[d] EXCEPT !.pc = "ended"]
                                ELSE call[d]]
    BY DEF HubRestart
  <2>4. \A d \in Calls : /\ [call[d] EXCEPT !.pc = "ended"] \in CallRecord
                         /\ [call[d] EXCEPT !.pc = "ended"].pc = "ended"
    BY <2>1, <2>2 DEF CallRecord
  <2> QED BY <2>1, <2>3, <2>4
<1>3. /\ try' \in [Orders -> [page : Pages \cup {NoPage}, stamp : Nat,
                              status : Said \cup {"asked", "failed"}]]
      /\ \A m \in Orders : /\ try'[m].page = try[m].page
                           /\ try'[m].status = "ok" => try[m].status = "ok"
  BY DEF HubRestart, ViewTypeOK
<1>4. NoReply \in ReplyRecord /\ NoReply.status = "none" BY DEF NoReply, ReplyRecord, Said
<1>5. ViewTypeOK'
  <2>1. forgotten' \in [Requests -> Nat] BY <1>1 DEF ViewTypeOK
  <2>2. reply' \in [Requests -> ReplyRecord] BY <1>1, <1>4
  <2>3. hubStops' \in Nat BY <1>1 DEF ViewTypeOK
  <2> QED BY <1>1, <1>2, <1>3, <2>1, <2>2, <2>3 DEF ViewTypeOK, CallRecord, ReplyRecord
<1>6. CallsHaveRequests' BY <1>1, <1>2 DEF CallsHaveRequests
<1>7. CommandsNamePages' BY <1>1, <1>3 DEF CommandsNamePages
<1>8. UnlockedWereOpened' BY <1>1 DEF UnlockedWereOpened
<1>9. SuccessWasHanded' BY <1>1, <1>2, <1>4 DEF SuccessWasHanded
<1>10. WritesReserved'
  <2> SUFFICES ASSUME NEW r \in Requests
               PROVE  handed'[r] + Cardinality(Writers(r)') <= Reservations(r)'
    BY DEF WritesReserved
  <2>1. Writers(r)' = {} BY <1>2 DEF Writers, InHub
  <2>2. Reservations(r)' = Reservations(r) BY <1>1 DEF Reservations, ViewTypeOK
  <2>3. Cardinality(Writers(r)) \in Nat BY WritersFinite
  <2>4. handed[r] + Cardinality(Writers(r)) <= Reservations(r) /\ handed[r] \in Nat
    BY DEF WritesReserved, ViewTypeOK
  <2>5. Cardinality(Writers(r)') = 0 BY <2>1, FS_EmptySet
  <2> QED BY <1>1, <2>2, <2>3, <2>4, <2>5, ReservationsNat
<1> QED BY <1>5, <1>6, <1>7, <1>8, <1>9, <1>10

\* The entries on the line do not matter to the pages and the hub.
LEMMA LineMoves ==
  ASSUME ViewSound, line' \in Seq(Requests),
         UNCHANGED <<pageVars, call, reply, handed, told, forgotten, hubStops>>
  PROVE  ViewSound'
<1> USE DEF ViewSound
<1>1. ViewTypeOK' BY DEF ViewTypeOK, pageVars
<1>2. CallsHaveRequests' BY DEF CallsHaveRequests
<1>3. CommandsNamePages' /\ UnlockedWereOpened' BY StoreKept DEF pageVars
<1>4. SuccessWasHanded' BY DEF SuccessWasHanded
<1>5. WritesReserved'
  <2>1. \A r \in Requests : Writers(r)' = Writers(r) BY DEF Writers
  <2>2. \A r \in Requests : Reservations(r)' = Reservations(r) BY DEF Reservations
  <2> QED BY <2>1, <2>2 DEF WritesReserved
<1> QED BY <1>1, <1>2, <1>3, <1>4, <1>5

LEMMA ViewStepSound == ASSUME ViewSound, ViewStep PROVE ViewSound'
<1>1. CASE PageStep BY <1>1, PageStepSound
<1>2. CASE InputStep
  <2>1. ASSUME NEW c \in Calls, NEW p \in Pages,
               Refuse(c, p) \/ \E r \in Requests : Authorize(c, p, r)
        PROVE  ViewSound'
    BY <2>1, EntrySound
  <2>2. ASSUME NEW c \in Calls, Reserve(c) PROVE ViewSound' BY <2>2, ReserveSound
  <2>3. ASSUME NEW c \in Calls, Route(c) PROVE ViewSound' BY <2>3, RouteSound
  <2>4. ASSUME NEW c \in Calls,
               RouteFails(c) \/ Complete(c) \/ Duplicate(c) \/ Tell(c) \/ AnswerLost(c)
        PROVE  ViewSound'
    BY <2>4, QuietStepSound
  <2>5. ASSUME NEW r \in Requests, Forget(r) PROVE ViewSound' BY <2>5, ForgetSound
  <2>6. CASE HubRestart BY <2>6, HubRestartSound
  <2>7. CASE LineLost
    <3>1. line' \in Seq(Requests) BY <2>7 DEF LineLost
    <3> QED BY <3>1, <2>7, LineMoves DEF LineLost
  <2> QED BY <1>2, <2>1, <2>2, <2>3, <2>4, <2>5, <2>6, <2>7 DEF InputStep
<1>3. PageStep \/ InputStep BY DEF ViewStep, PageStep, InputStep
<1> QED BY <1>1, <1>2, <1>3

\* The other steps leave the pages and the hub alone; the helper reads the line.
LEMMA OtherStepSound ==
  ASSUME ViewSound, [Next]_vars,
         ~(ViewStep /\ UNCHANGED <<queueVars, driverVars, workVars, sumVars>>)
  PROVE  ViewSound'
<1>1. CASE UNCHANGED viewVars
  BY <1>1, LineMoves DEF ViewSound, ViewTypeOK, viewVars, inputVars
<1>2. CASE LineRead \/ Restart
  <2>1. line' \in Seq(Requests)
    <3>1. line \in Seq(Requests) BY DEF ViewSound, ViewTypeOK
    <3>2. CASE LineRead BY <3>1, <3>2 DEF LineRead
    <3>3. CASE Restart BY <3>3 DEF Restart
    <3> QED BY <1>2, <3>2, <3>3
  <2> QED BY <1>2, <2>1, LineMoves DEF LineRead, Restart
<1>3. UNCHANGED viewVars \/ LineRead \/ Restart
  BY DEF Next, vars, Offer, Worker, TimerEnds, StartFails, InterruptStep, Cli, Dies, WorkerStart,
         Deliver, TurnBegins, Send, Accepted, Admitted, Ends, PollEarly, PollLate, WaitEnds,
         NotAccepted, PollStalls, TimesOut, Interrupt, CtrlC, Checks, Signals, Confirms, GivesUp
<1> QED BY <1>1, <1>2, <1>3

LEMMA ViewAlwaysSound == Spec => []ViewSound
<1>1. Init => ViewSound BY ViewSoundInit DEF Init
<1>2. ViewSound /\ [Next]_vars => ViewSound'
  BY ViewStepSound, OtherStepSound
<1> QED BY <1>1, <1>2, PTL DEF Spec

\* An entry is written to its session once for each time that the hub could not
\* know of it (reserveViewV2Request, completeViewV2Request), whatever is entered
\* again, at the same time or after a restart.
THEOREM HandedAtMostOnce == Spec => []HandedOnce
<1>1. ViewSound => HandedOnce
  <2> SUFFICES ASSUME ViewSound, NEW r \in Requests PROVE handed[r] <= 1 + forgotten[r]
    BY DEF HandedOnce
  <2>1. handed[r] + Cardinality(Writers(r)) <= Reservations(r)
    BY DEF ViewSound, WritesReserved
  <2>2. handed[r] \in Nat /\ forgotten[r] \in Nat BY DEF ViewSound, ViewTypeOK
  <2>3. Cardinality(Writers(r)) \in Nat BY WritersFinite
  <2>4. Reservations(r) = forgotten[r] \/ Reservations(r) = forgotten[r] + 1
    BY <2>2 DEF Reservations
  <2> QED BY <2>1, <2>2, <2>3, <2>4
<1> QED BY <1>1, ViewAlwaysSound, PTL

\* No page is told that a text has arrived, and no member that a page is open,
\* unless it was so (HandleInternalViewV2Input, unlock of the page store).
THEOREM AnswersAlwaysHonest == Spec => []HonestAnswers
<1>1. ViewSound => HonestAnswers
  <2> SUFFICES ASSUME ViewSound PROVE HonestAnswers OBVIOUS
  <2>1. \A r \in told : handed[r] > 0 BY DEF ViewSound, ViewTypeOK, SuccessWasHanded
  <2>2. \A m \in Orders : try[m].status = "ok" => try[m].page \in opened
    BY DEF ViewSound, CommandsNamePages
  <2> QED BY <2>1, <2>2 DEF HonestAnswers
<1> QED BY <1>1, ViewAlwaysSound, PTL

----------------------------------------------------------------------------
(* The queue and the driver. *)

Receipts == [state : LedgerState, turn : Nat]
FeedTypes ==
  /\ pending \in Seq(Commands) /\ current \in Commands \cup {NoCommand}
  /\ command \in [Commands -> Waits \cup Outcome \cup {"none"}]
  /\ ledger \in [Commands -> Receipts] /\ turns \in Nat
  /\ active \in [id : Commands \cup {NoCommand}, turn : Nat]
  /\ fed \in [Commands -> Nat] /\ refused \in [Commands -> Nat]
  /\ work \in [pc : Steps, receipt : Receipts]

\* What waits is queued and waits once; what is current or active is past that.
Taken == {"admitting", "admitted"} \cup Outcome
LineSound ==
  /\ \A i \in 1..Len(pending) : command[pending[i]] = "queued"
  /\ \A i, j \in 1..Len(pending) : pending[i] = pending[j] => i = j
  /\ current # NoCommand => command[current] \in Taken
  /\ active.id # NoCommand => command[active.id] \in Taken

\* The worker has a command, which is not the active one before it is sent, and
\* which the ledger does not know when it is about to be.
WorkSound ==
  /\ work.pc # "idle" => current \in Commands
  /\ work.pc \in {"deliver", "wait"} => active.id # current
  /\ work.pc = "wait" => ~Known(current)

\* Each text that was sent or is about to be is in the ledger, or was refused.
Due(d) == IF work.pc = "send" /\ current = d THEN 1 ELSE 0
Noted(d) == refused[d] + (IF Known(d) THEN 1 ELSE 0)
FeedsNoted == \A d \in Commands : fed[d] + Due(d) <= Noted(d)

TurnsSound == FeedTypes /\ LineSound /\ WorkSound /\ FeedsNoted

feedVars == <<pending, current, command, ledger, turns, active, fed, refused, work>>

LEMMA TurnsSoundInit == Init => TurnsSound
<1> SUFFICES ASSUME Init PROVE TurnsSound OBVIOUS
<1> USE QueueAssumption DEF Init, QueueInit, QueueEmpty, DriverInit, WorkIdle, NoReceipt, NoTurn
<1>1. FeedTypes BY DEF FeedTypes, Receipts, LedgerState, Steps
<1>2. LineSound BY DEF LineSound
<1>3. WorkSound BY DEF WorkSound
<1>4. FeedsNoted BY DEF FeedsNoted, Due, Noted, Known
<1> QED BY <1>1, <1>2, <1>3, <1>4 DEF TurnsSound

LEMMA FeedKept == ASSUME TurnsSound, UNCHANGED feedVars PROVE TurnsSound'
<1> USE DEF feedVars, TurnsSound
<1>1. FeedTypes' BY DEF FeedTypes
<1>2. LineSound' BY DEF LineSound
<1>3. WorkSound' BY DEF WorkSound, Known
<1>4. FeedsNoted' BY DEF FeedsNoted, Due, Noted, Known
<1> QED BY <1>1, <1>2, <1>3, <1>4

LEMMA EnqueueSound ==
  ASSUME TurnsSound, NEW d \in Commands, Enqueue(d),
         UNCHANGED <<ledger, turns, active, fed, refused, work>>
  PROVE  TurnsSound'
<1> USE DEF TurnsSound
<1>1. /\ command[d] = "none" /\ command' = [command EXCEPT ![d] = "queued"]
      /\ pending' = Append(pending, d) /\ current' = current
  BY DEF Enqueue
<1>2. FeedTypes' BY <1>1 DEF FeedTypes, Waits
<1>3. \A c \in Commands : command'[c] = IF c = d THEN "queued" ELSE command[c]
  BY <1>1 DEF FeedTypes
<1>4. "none" \notin Taken BY DEF Taken, Outcome
<1>5. LineSound'
  <2>1. /\ Len(pending') = Len(pending) + 1 /\ Len(pending) \in Nat
        /\ \A i \in 1..Len(pending') : pending'[i] = IF i <= Len(pending) THEN pending[i] ELSE d
        /\ \A i \in 1..Len(pending) : pending[i] \in Commands
    BY <1>1 DEF FeedTypes
  <2>2. \A i \in 1..Len(pending) : command[pending[i]] = "queued" /\ pending[i] # d
    BY <1>1 DEF LineSound
  <2>3. \A i \in 1..Len(pending') : command'[pending'[i]] = "queued"
    BY <1>3, <2>1, <2>2
  <2>4. \A i, j \in 1..Len(pending') : pending'[i] = pending'[j] => i = j
    BY <2>1, <2>2 DEF LineSound
  <2>5. current' # NoCommand => command'[current'] \in Taken
    BY <1>1, <1>3, <1>4 DEF LineSound, FeedTypes
  <2>6. active'.id # NoCommand => command'[active'.id] \in Taken
    BY <1>1, <1>3, <1>4 DEF LineSound, FeedTypes
  <2> QED BY <2>3, <2>4, <2>5, <2>6 DEF LineSound
<1>6. WorkSound' BY <1>1 DEF WorkSound, Known
<1>7. FeedsNoted' BY <1>1 DEF FeedsNoted, Due, Noted, Known
<1> QED BY <1>2, <1>5, <1>6, <1>7

\* _admit_from_receipt and finish change the command that is current.
LEMMA CurrentMoves ==
  ASSUME TurnsSound, current \in Commands, NEW state \in Taken,
         command' = [command EXCEPT ![current] = state], pending' = pending
  PROVE  /\ command' \in [Commands -> Waits \cup Outcome \cup {"none"}]
         /\ \A i \in 1..Len(pending) : command'[pending[i]] = "queued"
         /\ command'[current] \in Taken
         /\ active.id # NoCommand => command'[active.id] \in Taken
<1> USE DEF TurnsSound
<1>1. Taken \subseteq Waits \cup Outcome \cup {"none"} /\ "queued" \notin Taken
  BY DEF Taken, Waits, Outcome
<1>2. command' \in [Commands -> Waits \cup Outcome \cup {"none"}] BY <1>1 DEF FeedTypes
<1>3. \A c \in Commands : command'[c] = IF c = current THEN state ELSE command[c]
  BY DEF FeedTypes
<1>4. command[current] \in Taken BY QueueAssumption DEF LineSound
<1>5. \A i \in 1..Len(pending) : pending[i] \in Commands /\ pending[i] # current
  BY <1>1, <1>4 DEF LineSound, FeedTypes
<1> QED BY <1>2, <1>3, <1>5 DEF LineSound, FeedTypes

LEMMA FinishSound ==
  ASSUME TurnsSound, current \in Commands, NEW outcome \in Outcome, Finish(current, outcome),
         work' = WorkIdle, UNCHANGED <<ledger, turns, active, fed, refused>>
  PROVE  TurnsSound'
<1> USE DEF TurnsSound
<1>1. /\ command' = [command EXCEPT ![current] = outcome] /\ current' = NoCommand
      /\ pending' = pending /\ outcome \in Taken
  BY DEF Finish, Taken
<1>2. FeedTypes'
  BY <1>1, CurrentMoves DEF FeedTypes, WorkIdle, NoReceipt, Steps, Receipts, LedgerState
<1>3. LineSound' BY <1>1, CurrentMoves DEF LineSound
<1>4. work'.pc = "idle" BY DEF WorkIdle
<1>5. WorkSound' BY <1>4 DEF WorkSound
<1>6. FeedsNoted'
  <2>1. \A d \in Commands : Due(d)' = 0 /\ Noted(d)' = Noted(d)
    BY <1>4 DEF Due, Noted, Known
  <2>2. \A d \in Commands : Due(d) \in {0, 1} BY DEF Due
  <2>3. \A d \in Commands : fed[d] \in Nat /\ Noted(d) \in Nat /\ fed'[d] = fed[d]
    BY DEF FeedTypes, Noted
  <2> QED BY <2>1, <2>2, <2>3 DEF FeedsNoted
<1> QED BY <1>2, <1>3, <1>5, <1>6

LEMMA AdmittedSound == ASSUME TurnsSound, Admitted PROVE TurnsSound'
<1> USE DEF TurnsSound
<1>1. /\ command' = [command EXCEPT ![current] = "admitted"] /\ work.pc = "settle"
      /\ UNCHANGED <<pending, current, ledger, turns, active, fed, refused, work>>
  BY DEF Admitted, Admits, Admit, driverVars, workVars
<1>2. current \in Commands /\ "admitted" \in Taken BY <1>1 DEF WorkSound, Taken
<1>3. FeedTypes' BY <1>1, <1>2, CurrentMoves DEF FeedTypes
<1>4. LineSound' BY <1>1, <1>2, CurrentMoves DEF LineSound
<1>5. WorkSound' BY <1>1 DEF WorkSound, Known
<1>6. FeedsNoted' BY <1>1 DEF FeedsNoted, Due, Noted, Known
<1> QED BY <1>3, <1>4, <1>5, <1>6

LEMMA WorkerStartSound == ASSUME TurnsSound, WorkerStart PROVE TurnsSound'
<1> USE DEF TurnsSound
<1> DEFINE h == Head(pending)
<1>1. /\ pending # <<>> /\ current' = h /\ pending' = Tail(pending)
      /\ command' = [command EXCEPT ![h] = "admitting"]
      /\ work' = [work EXCEPT !.pc = "deliver"] /\ work.pc = "idle"
      /\ UNCHANGED <<ledger, turns, active, fed, refused>>
  BY DEF WorkerStart, StartNext, Goes, driverVars
<1>2. /\ Len(pending) \in Nat \ {0} /\ h = pending[1] /\ h \in Commands
      /\ Len(pending') = Len(pending) - 1 /\ pending' \in Seq(Commands)
      /\ \A i \in 1..Len(pending') : pending'[i] = pending[i + 1]
      /\ \A i \in 1..Len(pending) : pending[i] \in Commands
  BY <1>1 DEF FeedTypes
<1>3. command[h] = "queued" BY <1>2 DEF LineSound
<1>4. \A c \in Commands : command'[c] = IF c = h THEN "admitting" ELSE command[c]
  BY <1>1 DEF FeedTypes
<1>5. "admitting" \in Taken /\ "queued" \notin Taken BY DEF Taken, Outcome
<1>6. FeedTypes'
  <2>1. command' \in [Commands -> Waits \cup Outcome \cup {"none"}]
    BY <1>1 DEF FeedTypes, Waits
  <2>2. work' \in [pc : Steps, receipt : Receipts] BY <1>1 DEF FeedTypes, Steps
  <2> QED BY <1>1, <1>2, <2>1, <2>2 DEF FeedTypes
<1>7. LineSound'
  <2>1. \A i \in 1..Len(pending') :
          /\ i + 1 \in 1..Len(pending) /\ 1 \in 1..Len(pending) /\ i + 1 # 1
    BY <1>2
  <2>2. \A i \in 1..Len(pending') : pending'[i] # h /\ pending'[i] \in Commands
    BY <1>2, <2>1 DEF LineSound
  <2>3. \A i \in 1..Len(pending') : command'[pending'[i]] = "queued"
    BY <1>2, <1>4, <2>1, <2>2 DEF LineSound
  <2>4. \A i, j \in 1..Len(pending') : pending'[i] = pending'[j] => i = j
    <3> SUFFICES ASSUME NEW i \in 1..Len(pending'), NEW j \in 1..Len(pending'),
                        pending'[i] = pending'[j]
                 PROVE  i = j
      OBVIOUS
    <3>1. i + 1 = j + 1 BY <1>2, <2>1 DEF LineSound
    <3> QED BY <3>1, <1>2
  <2>5. command'[current'] \in Taken BY <1>1, <1>2, <1>4, <1>5
  <2>6. active'.id # NoCommand => command'[active'.id] \in Taken
    BY <1>1, <1>4, <1>5 DEF LineSound, FeedTypes
  <2> QED BY <2>3, <2>4, <2>5, <2>6 DEF LineSound
<1>8. work'.pc = "deliver" BY <1>1 DEF FeedTypes
<1>9. WorkSound'
  <2>1. active.id # h BY <1>2, <1>3, <1>5, QueueAssumption DEF LineSound
  <2> QED BY <1>1, <1>2, <1>8, <2>1 DEF WorkSound
<1>10. FeedsNoted'
  <2>1. \A d \in Commands : Due(d)' = 0 /\ Noted(d)' = Noted(d) /\ Due(d) = 0
    BY <1>1, <1>8 DEF Due, Noted, Known
  <2> QED BY <1>1, <2>1 DEF FeedsNoted
<1> QED BY <1>6, <1>7, <1>9, <1>10

LEMMA WorkGoes ==
  ASSUME FeedTypes, NEW pc \in Steps, Goes(pc)
  PROVE  work' \in [pc : Steps, receipt : Receipts] /\ work'.pc = pc
BY DEF FeedTypes, Goes

LEMMA WorkHolds ==
  ASSUME NEW state \in LedgerState, NEW turn \in Nat, Holds(state, turn)
  PROVE  work' \in [pc : Steps, receipt : Receipts] /\ work'.pc = "settle"
BY DEF Holds, Steps, Receipts

\* The worker goes on without sending or booking anything.
LEMMA WorkMoves ==
  ASSUME TurnsSound, work.pc # "idle", work' \in [pc : Steps, receipt : Receipts],
         work'.pc \in {"wait", "ack", "settle", "look"},
         work'.pc = "wait" => work.pc = "deliver" /\ ~Known(current),
         UNCHANGED <<pending, current, command, ledger, turns, active, fed, refused>>
  PROVE  TurnsSound'
<1> USE DEF TurnsSound
<1>1. FeedTypes' BY DEF FeedTypes
<1>2. LineSound' BY DEF LineSound
<1>3. WorkSound' BY DEF WorkSound, Known
<1>4. FeedsNoted'
  <2>1. \A d \in Commands : Due(d)' = 0 /\ Noted(d)' = Noted(d) /\ Due(d) \in {0, 1}
    BY DEF Due, Noted, Known
  <2>2. \A d \in Commands : fed[d] \in Nat /\ Noted(d) \in Nat BY DEF FeedTypes, Noted
  <2> QED BY <2>1, <2>2 DEF FeedsNoted
<1> QED BY <1>1, <1>2, <1>3, <1>4

LEMMA DeliverSound == ASSUME TurnsSound, Deliver PROVE TurnsSound'
<1>1. /\ work.pc = "deliver" /\ current \in Commands /\ FeedTypes
      /\ UNCHANGED <<pending, current, command, ledger, turns, active, fed, refused>>
  BY DEF Deliver, TurnsSound, WorkSound, queueVars
<1>2. CASE Known(current)
  <2>1. ledger[current].state \in LedgerState /\ ledger[current].turn \in Nat
    BY <1>1 DEF FeedTypes, Receipts
  <2>2. Holds(ledger[current].state, ledger[current].turn) BY <1>2 DEF Deliver
  <2> QED BY <1>1, <2>1, <2>2, WorkHolds, WorkMoves
<1>3. CASE ~Known(current)
  <2>1. Goes("wait") /\ "wait" \in Steps BY <1>3 DEF Deliver, Steps
  <2>2. work' \in [pc : Steps, receipt : Receipts] /\ work'.pc = "wait"
    BY <1>1, <2>1, WorkGoes
  <2> QED BY <1>1, <1>3, <2>2, WorkMoves
<1> QED BY <1>2, <1>3

LEMMA BeginSound ==
  ASSUME TurnsSound, work.pc = "wait", Begin(current), Goes("send"), UNCHANGED queueVars
  PROVE  TurnsSound'
<1> USE DEF TurnsSound
<1>1. /\ turns' = turns + 1 /\ active' = [id |-> current, turn |-> turns + 1]
      /\ ledger' = [ledger EXCEPT ![current] = [state |-> "processing", turn |-> turns + 1]]
      /\ UNCHANGED <<pending, current, command, fed, refused>>
  BY DEF Begin, queueVars
<1>2. current \in Commands /\ ~Known(current) BY DEF WorkSound
<1>3. work' \in [pc : Steps, receipt : Receipts] /\ work'.pc = "send"
  BY WorkGoes DEF Steps
<1>4. FeedTypes'
  <2>1. turns + 1 \in Nat BY DEF FeedTypes
  <2>2. [state |-> "processing", turn |-> turns + 1] \in Receipts
    BY <2>1 DEF Receipts, LedgerState
  <2> QED BY <1>1, <1>2, <1>3, <2>1, <2>2 DEF FeedTypes
<1>5. LineSound' BY <1>1, <1>2, QueueAssumption DEF LineSound
<1>6. WorkSound' BY <1>1, <1>2, <1>3 DEF WorkSound
<1>7. FeedsNoted'
  <2>1. \A d \in Commands : d # current => Due(d)' = 0 /\ Noted(d)' = Noted(d) /\ Due(d) = 0
    BY <1>1, <1>3 DEF Due, Noted, Known, FeedTypes
  <2>2. Due(current) = 0 /\ Noted(current) = refused[current] /\ refused[current] \in Nat
    BY <1>2 DEF Due, Noted, FeedTypes
  <2>3. ledger'[current].state = "processing" BY <1>1, <1>2 DEF FeedTypes
  <2>4. \A d \in Commands : d = current => Due(d)' = 1 /\ Noted(d)' = refused[d] + 1
    BY <1>1, <1>3, <2>3 DEF Due, Noted, Known
  <2>5. \A d \in Commands : fed[d] \in Nat /\ fed'[d] = fed[d] BY <1>1 DEF FeedTypes
  <2> QED BY <2>1, <2>2, <2>4, <2>5 DEF FeedsNoted
<1> QED BY <1>4, <1>5, <1>6, <1>7

LEMMA SentSound ==
  ASSUME TurnsSound, work.pc = "send", Sent(current), Goes("ack"), UNCHANGED queueVars
  PROVE  TurnsSound'
<1> USE DEF TurnsSound
<1>1. /\ fed' = [fed EXCEPT ![current] = fed[current] + 1]
      /\ UNCHANGED <<pending, current, command, ledger, turns, active, refused>>
  BY DEF Sent, queueVars
<1>2. current \in Commands BY DEF WorkSound
<1>3. work' \in [pc : Steps, receipt : Receipts] /\ work'.pc = "ack" BY WorkGoes DEF Steps
<1>4. \A d \in Commands : /\ fed[d] \in Nat
                          /\ fed'[d] = IF d = current THEN fed[d] + 1 ELSE fed[d]
  BY <1>1 DEF FeedTypes
<1>5. FeedTypes'
  <2>1. fed' \in [Commands -> Nat] BY <1>1, <1>2, <1>4 DEF FeedTypes
  <2> QED BY <1>1, <1>3, <2>1 DEF FeedTypes
<1>6. LineSound' BY <1>1 DEF LineSound
<1>7. WorkSound' BY <1>1, <1>2, <1>3 DEF WorkSound
<1>8. FeedsNoted'
  <2>1. \A d \in Commands : /\ Due(d)' = 0 /\ Noted(d)' = Noted(d)
                            /\ Due(d) = IF d = current THEN 1 ELSE 0
    BY <1>1, <1>3 DEF Due, Noted, Known
  <2>2. \A d \in Commands : Noted(d) \in Nat BY DEF Noted, FeedTypes
  <2> QED BY <1>4, <2>1, <2>2 DEF FeedsNoted
<1> QED BY <1>5, <1>6, <1>7, <1>8

\* update_state of a delivery, which is not the current one while that waits.
LEMMA BookSound ==
  ASSUME TurnsSound, NEW d, NEW state \in LedgerState \ {"none"},
         Book(d, state) \/ UNCHANGED <<ledger, refused>>, work.pc = "wait" => d # current,
         \/ work' = work
         \/ /\ work.pc # "idle" /\ work' \in [pc : Steps, receipt : Receipts]
            /\ work'.pc \in {"ack", "settle", "look"},
         UNCHANGED <<pending, current, command, turns, active, fed>>
  PROVE  TurnsSound'
<1> USE DEF TurnsSound
<1>0. ASSUME Book(d, state)
      PROVE  /\ ledger' \in [Commands -> Receipts] /\ refused' \in [Commands -> Nat]
             /\ \A c \in Commands :
                  \/ ledger'[c].state = ledger[c].state /\ refused'[c] = refused[c]
                  \/ /\ c = d /\ ledger'[c].state = state
                     /\ refused'[c] = IF state = "failed" THEN refused[c] + 1 ELSE refused[c]
  <2>1. /\ ledger \in [Commands -> Receipts] /\ refused \in [Commands -> Nat]
        /\ ledger' = [ledger EXCEPT ![d] = [ledger[d] EXCEPT !.state = state]]
        /\ refused' = [refused EXCEPT ![d] = IF state = "failed" THEN refused[d] + 1 ELSE refused[d]]
    BY <1>0 DEF Book, FeedTypes
  <2>2. \A x \in Receipts : /\ [x EXCEPT !.state = state] \in Receipts
                            /\ [x EXCEPT !.state = state].state = state
    BY DEF Receipts
  <2>3. CASE d \in Commands
    <3>1. [ledger[d] EXCEPT !.state = state] \in Receipts BY <2>1, <2>2, <2>3
    <3>2. ledger' \in [Commands -> Receipts] BY <2>1, <2>3, <3>1
    <3>3. refused' \in [Commands -> Nat] BY <2>1, <2>3
    <3> QED BY <2>1, <2>2, <2>3, <3>2, <3>3
  <2>4. CASE d \notin Commands
    <3>1. ledger' = ledger BY <2>1, <2>4
    <3>2. refused' = refused BY <2>1, <2>4
    <3> QED BY <2>1, <3>1, <3>2
  <2> QED BY <2>3, <2>4
<1>1. \A c \in Commands : c # d => ledger'[c].state = ledger[c].state
  BY <1>0
<1>2. ledger' \in [Commands -> Receipts] BY <1>0 DEF FeedTypes
<1>3. /\ refused' \in [Commands -> Nat]
      /\ \A c \in Commands : refused[c] \in Nat /\ refused'[c] \in Nat /\ refused'[c] >= refused[c]
  <2>1. refused' \in [Commands -> Nat] BY <1>0 DEF FeedTypes
  <2>2. \A c \in Commands : refused[c] \in Nat /\ refused'[c] \in Nat BY <2>1 DEF FeedTypes
  <2>3. \A c \in Commands : refused'[c] = refused[c] \/ refused'[c] = refused[c] + 1 BY <1>0
  <2> QED BY <2>1, <2>2, <2>3
<1>4. \A c \in Commands : Known(c) /\ ~Known(c)' => refused'[c] = refused[c] + 1
  BY <1>0 DEF Known
<1>5. FeedTypes' BY <1>2, <1>3 DEF FeedTypes
<1>6. LineSound' BY DEF LineSound
<1>7. WorkSound'
  <2>1. work'.pc = "wait" => ~Known(current)'
    <3> SUFFICES ASSUME work'.pc = "wait" PROVE ~Known(current)' OBVIOUS
    <3>1. work.pc = "wait" /\ current \in Commands /\ ~Known(current) BY DEF WorkSound
    <3> QED BY <1>1, <3>1 DEF Known
  <2> QED BY <2>1 DEF WorkSound
<1>8. FeedsNoted'
  <2>1. \A c \in Commands : Due(c)' <= Due(c) /\ Due(c) \in {0, 1} /\ Due(c)' \in {0, 1}
    BY DEF Due
  <2>2. \A c \in Commands : Noted(c)' >= Noted(c) /\ Noted(c)' \in Nat /\ Noted(c) \in Nat
    BY <1>3, <1>4 DEF Noted
  <2>3. \A c \in Commands : fed[c] \in Nat BY DEF FeedTypes
  <2> QED BY <2>1, <2>2, <2>3 DEF FeedsNoted
<1> QED BY <1>5, <1>6, <1>7, <1>8

LEMMA SendSound == ASSUME TurnsSound, Send PROVE TurnsSound'
<1>1. work.pc = "send" /\ UNCHANGED queueVars BY DEF Send
<1>2. CASE Sent(current) /\ Goes("ack") BY <1>1, <1>2, SentSound
<1>3. CASE SendFailed(current) /\ Holds("failed", 0)
  <2>1. "failed" \in LedgerState \ {"none"} /\ 0 \in Nat BY DEF LedgerState
  <2>2. work' \in [pc : Steps, receipt : Receipts] /\ work'.pc = "settle"
    BY <1>3, <2>1, WorkHolds
  <2> QED BY <1>1, <1>3, <2>1, <2>2, BookSound DEF SendFailed, queueVars
<1> QED BY <1>2, <1>3 DEF Send

LEMMA AckSound == ASSUME TurnsSound, Accepted \/ NotAccepted PROVE TurnsSound'
<1>1. active.turn \in Nat BY DEF TurnsSound, FeedTypes
<1>2. PICK state \in {"accepted", "processing"} :
        Book(current, state) /\ Holds(state, active.turn)
  BY DEF Accepted, NotAccepted, AckSeen, AckMissed
<1>3. state \in LedgerState \ {"none"} BY DEF LedgerState
<1>4. work' \in [pc : Steps, receipt : Receipts] /\ work'.pc = "settle"
  BY <1>1, <1>2, <1>3, WorkHolds
<1>5. work.pc = "ack" /\ UNCHANGED <<pending, current, command, turns, active, fed>>
  BY DEF Accepted, NotAccepted, AckSeen, AckMissed, queueVars
<1> QED BY <1>2, <1>3, <1>4, <1>5, BookSound

\* What a poll finds is held, and put into the ledger or not.
LEMMA PolledSound ==
  ASSUME TurnsSound, NEW state \in LedgerState \ {"none"}, Polled(current, state),
         Holds(state, 0), work.pc \in {"settle", "look"}, UNCHANGED queueVars
  PROVE  TurnsSound'
<1>1. work' \in [pc : Steps, receipt : Receipts] /\ work'.pc = "settle" BY WorkHolds
<1>2. /\ Book(current, state) \/ UNCHANGED <<ledger, refused>>
      /\ UNCHANGED <<pending, current, command, turns, active, fed>>
  BY DEF Polled, queueVars
<1> QED BY <1>1, <1>2, BookSound

LEMMA PollSound == ASSUME TurnsSound, PollEarly \/ PollLate \/ PollStalls PROVE TurnsSound'
<1>1. CASE PollEarly
  <2>1. work.pc = "settle" /\ UNCHANGED queueVars /\ current \in Commands
    BY <1>1 DEF PollEarly, Unsettled, Settles, TurnsSound, WorkSound
  <2>2. CASE EarlyReceipt(current) = "none"
    <3>1. Goes("look") /\ UNCHANGED driverVars /\ "look" \in Steps
      BY <1>1, <2>2 DEF PollEarly, Steps
    <3>2. work' \in [pc : Steps, receipt : Receipts] /\ work'.pc = "look"
      BY <3>1, WorkGoes DEF TurnsSound
    <3> QED BY <2>1, <3>1, <3>2, WorkMoves DEF driverVars, queueVars
  <2>3. CASE EarlyReceipt(current) # "none"
    <3>1. EarlyReceipt(current) \in LedgerState \ {"none"}
      BY <2>1, <2>3 DEF EarlyReceipt, LedgerState, TurnsSound, FeedTypes, Receipts
    <3>2. Holds(EarlyReceipt(current), 0) /\ Polled(current, EarlyReceipt(current))
      BY <1>1, <2>3 DEF PollEarly
    <3> QED BY <2>1, <3>1, <3>2, PolledSound
  <2> QED BY <2>2, <2>3
<1>2. CASE PollLate
  <2>1. LateReceipt \in LedgerState \ {"none"} BY DEF LateReceipt, LedgerState
  <2> QED BY <1>2, <2>1, PolledSound DEF PollLate
<1>3. CASE PollStalls
  <2>1. "failed" \in LedgerState \ {"none"} BY DEF LedgerState
  <2> QED BY <1>3, <2>1, PolledSound DEF PollStalls
<1> QED BY <1>1, <1>2, <1>3

LEMMA HandleFrameSound ==
  ASSUME TurnsSound, HandleFrame, UNCHANGED queueVars, UNCHANGED workVars PROVE TurnsSound'
<1> DEFINE state == IF Head(stdout).kind = "ok" THEN "done" ELSE "failed"
<1>1. state \in LedgerState \ {"none"} BY DEF LedgerState
<1>2. /\ Book(active.id, state) \/ UNCHANGED <<ledger, refused>>
      /\ work' = work /\ UNCHANGED <<pending, current, command, turns, active, fed>>
  BY DEF HandleFrame, queueVars, workVars
<1>3. work.pc = "wait" => active.id # current BY DEF TurnsSound, WorkSound
<1> HIDE DEF state
<1> QED BY <1>1, <1>2, <1>3, BookSound

\* The helper restarts: nothing is queued or active, and the ledger stays.
LEMMA RestartSound == ASSUME TurnsSound, Restart PROVE TurnsSound'
<1> USE DEF TurnsSound
<1>1. /\ pending' = <<>> /\ current' = NoCommand /\ command' = [d \in Commands |-> "none"]
      /\ active' = NoTurn /\ work' = WorkIdle /\ UNCHANGED <<ledger, turns, fed, refused>>
  BY DEF Restart, QueueLost, DriverLost
<1>2. FeedTypes'
  BY <1>1 DEF FeedTypes, NoTurn, WorkIdle, NoReceipt, Steps, Receipts, LedgerState
<1>3. LineSound' BY <1>1 DEF LineSound, NoTurn
<1>4. WorkSound' BY <1>1 DEF WorkSound, WorkIdle
<1>5. FeedsNoted'
  <2>1. \A d \in Commands : Due(d)' = 0 /\ Noted(d)' = Noted(d) /\ Due(d) \in {0, 1}
    BY <1>1 DEF Due, Noted, Known, WorkIdle
  <2>2. \A d \in Commands : fed[d] \in Nat /\ Noted(d) \in Nat BY DEF FeedTypes, Noted
  <2> QED BY <1>1, <2>1, <2>2 DEF FeedsNoted
<1> QED BY <1>2, <1>3, <1>4, <1>5

LEMMA EndSound == ASSUME TurnsSound, StartFails \/ Ends \/ TimesOut PROVE TurnsSound'
<1>1. work.pc # "idle" /\ work' = WorkIdle /\ UNCHANGED <<ledger, turns, active, fed, refused>>
  BY DEF StartFails, Ends, TimesOut, Overdue, Unsettled, Settles, driverVars
<1>2. PICK outcome \in Outcome : Finish(current, outcome)
  BY DEF StartFails, Ends, TimesOut, Outcome
<1> QED BY <1>1, <1>2, FinishSound DEF TurnsSound, WorkSound

LEMMA TurnStepSound == ASSUME TurnsSound, [Next]_vars PROVE TurnsSound'
<1>1. ASSUME NEW d \in Deliveries, Offer(d) PROVE TurnsSound'
  BY <1>1, TurnsAssumption, EnqueueSound DEF Offer, driverVars, workVars
<1>2. CASE LineRead
  <2>1. UNCHANGED <<ledger, turns, active, fed, refused, work>>
    BY <1>2 DEF LineRead, driverVars, workVars
  <2>2. ASSUME NEW d \in LineIds, Enqueue(d) PROVE TurnsSound'
    BY <2>1, <2>2, TurnsAssumption, EnqueueSound
  <2>3. UNCHANGED queueVars => TurnsSound' BY <2>1, FeedKept DEF feedVars, queueVars
  <2> QED BY <1>2, <2>2, <2>3 DEF LineRead
<1>3. CASE Worker
  <2>1. CASE TurnBegins BY <2>1, BeginSound DEF TurnBegins
  <2> QED BY <1>3, <2>1, WorkerStartSound, DeliverSound, SendSound, AckSound, AdmittedSound,
             EndSound, PollSound DEF Worker
<1>4. CASE TimerEnds \/ StartFails
  <2>1. CASE WaitEnds BY <2>1, BeginSound DEF WaitEnds
  <2> QED BY <1>4, <2>1, AckSound, PollSound, EndSound DEF TimerEnds
<1>5. CASE HandleFrame /\ UNCHANGED <<viewVars, queueVars, workVars, sumVars>>
  BY <1>5, HandleFrameSound
<1>6. CASE Restart BY <1>6, RestartSound
<1>7. CASE \/ ViewStep /\ UNCHANGED <<queueVars, driverVars, workVars, sumVars>>
           \/ \E i \in Interrupters : InterruptStep(i)
           \/ Cli /\ UNCHANGED <<viewVars, queueVars, workVars, sumVars>>
           \/ Dies \/ UNCHANGED vars
  <2>1. UNCHANGED feedVars
    BY <1>7 DEF feedVars, queueVars, driverVars, workVars, vars, InterruptStep, Interrupt, CtrlC,
                Checks, Signals, Signal, Confirms, GivesUp, Cli, CliReads, CliAnswers, CliStops,
                CliIgnores, Dies, CliDies, CliSticks
  <2> QED BY <2>1, FeedKept
<1> QED BY <1>1, <1>2, <1>3, <1>4, <1>5, <1>6, <1>7 DEF Next

\* A text is sent once, and once more for each time that the ledger has put it
\* down as failed (deliver, _DeliveryStore), wherever the helper was stopped.
THEOREM SubmittedAtMostOnce == Spec => []SubmittedOnce
<1>1. Init => TurnsSound BY TurnsSoundInit
<1>2. TurnsSound /\ [Next]_vars => TurnsSound' BY TurnStepSound
<1>3. TurnsSound => SubmittedOnce
  <2> SUFFICES ASSUME TurnsSound, NEW d \in Commands PROVE fed[d] <= 1 + refused[d]
    BY DEF SubmittedOnce
  <2>1. fed[d] + Due(d) <= Noted(d) BY DEF TurnsSound, FeedsNoted
  <2>2. fed[d] \in Nat /\ refused[d] \in Nat /\ Due(d) \in {0, 1}
    BY DEF TurnsSound, FeedTypes, Due
  <2>3. Noted(d) <= refused[d] + 1 /\ Noted(d) \in Nat BY <2>2 DEF Noted
  <2> QED BY <2>1, <2>2, <2>3
<1> QED BY <1>1, <1>2, <1>3, PTL DEF Spec

----------------------------------------------------------------------------
(* What is completed has ended. *)

\* Frames of some kinds: at most one of them, none, and all of one turn.
AtMostOne(s, kinds) ==
  \A i, j \in 1..Len(s) : s[i].kind \in kinds /\ s[j].kind \in kinds => i = j
HasNone(s, kinds)    == \A i \in 1..Len(s) : s[i].kind \notin kinds
AllOf(s, kinds, t)   == \A i \in 1..Len(s) : s[i].kind \in kinds => s[i].turn = t
AllIn(s, kinds, T)   == \A i \in 1..Len(s) : s[i].kind \in kinds => s[i].turn \in T

Texts   == {"text"}
Results == {"ok", "stopped"}
Over    == answered \cup stopped

PipeTypes ==
  /\ stdin \in Seq(Frame) /\ stdout \in Seq(Reply)
  /\ cli \in [alive : BOOLEAN, reads : Seq(Nat), stuck : BOOLEAN]
  /\ marks \in [accepted : SUBSET Nat, terminal : SUBSET Nat, interrupted : SUBSET Nat]
  /\ turnOf \in [Commands -> Nat]

\* The ledger, the active turn, the receipt and the command agree on the turn.
ActiveAgrees ==
  /\ active.id = NoCommand <=> active.turn = 0
  /\ active.id # NoCommand => ledger[active.id].turn = active.turn
  /\ active.turn <= turns /\ \A t \in marks.terminal : t <= turns
  /\ \A d \in Commands : ledger[d].state # "none" => ledger[d].turn # 0

ReceiptAgrees ==
  /\ current # NoCommand => command[current] \in {"admitting", "admitted"}
  /\ work.pc \in {"deliver", "wait", "send", "ack"} => command[current] = "admitting"
  /\ work.pc \in {"send", "ack", "look"} => active.id = current
  /\ work.pc = "look" => command[current] = "admitted"
  /\ work.pc = "settle" => work.receipt.state # "none"
  /\ work.pc \in {"settle", "look"} => ledger[current].state # "none"
  /\ work.pc = "settle" /\ command[current] = "admitting" =>
       \/ work.receipt.state = "failed"
       \/ work.receipt.turn # 0 /\ work.receipt.turn = ledger[current].turn
  /\ current # NoCommand /\ command[current] = "admitted" =>
       turnOf[current] = ledger[current].turn

\* One text at most is to be answered, that of the active turn: it is on its way
\* to the process, or read, or its result is on its way back.
NothingDue == HasNone(stdin, Texts) /\ cli.reads = <<>> /\ HasNone(stdout, Results)
OneDue ==
  /\ AtMostOne(stdin, Texts) /\ AtMostOne(stdout, Results)
  /\ cli.reads \in {<<>>, <<active.turn>>}
  /\ AllOf(stdin, Texts, active.turn) /\ AllOf(stdout, Results, active.turn)
  /\ HasNone(stdin, Texts) \/ (cli.reads = <<>> /\ HasNone(stdout, Results))
  /\ cli.reads = <<>> \/ HasNone(stdout, Results)
  /\ NothingDue \/ (active.turn # 0 /\ active.turn \notin marks.terminal)
  /\ work.pc = "send" => NothingDue /\ active.turn \notin marks.terminal

\* What is said to have ended has ended.
EndsTrue ==
  /\ AllIn(stdout, Results, Over)
  /\ marks.terminal \subseteq Over
  /\ \A d \in Commands : ledger[d].state = "done" => ledger[d].turn \in Over
  /\ work.pc = "settle" /\ work.receipt.state = "done" => ledger[current].turn \in Over
  /\ \A d \in Commands : command[d] = "completed" => turnOf[d] \in Over

EndedSound == PipeTypes /\ ActiveAgrees /\ ReceiptAgrees /\ (~overrun => OneDue /\ EndsTrue)

LEMMA TailFrames ==
  ASSUME NEW S, NEW s \in Seq(S), s # <<>>, NEW K, NEW t, NEW T
  PROVE  /\ Tail(s) \in Seq(S) /\ Head(s) \in S
         /\ AtMostOne(s, K) => AtMostOne(Tail(s), K)
         /\ HasNone(s, K) => HasNone(Tail(s), K) /\ Head(s).kind \notin K
         /\ AllOf(s, K, t) => AllOf(Tail(s), K, t) /\ (Head(s).kind \in K => Head(s).turn = t)
         /\ AllIn(s, K, T) => AllIn(Tail(s), K, T) /\ (Head(s).kind \in K => Head(s).turn \in T)
         /\ AtMostOne(s, K) /\ Head(s).kind \in K => HasNone(Tail(s), K)
<1>1. /\ Len(s) \in Nat /\ Len(s) # 0 /\ Len(Tail(s)) = Len(s) - 1 /\ Head(s) = s[1] /\ Tail(s) \in Seq(S)
      /\ Head(s) \in S /\ \A i \in 1..Len(Tail(s)) : Tail(s)[i] = s[i + 1]
  OBVIOUS
<1>2. /\ 1 \in 1..Len(s)
      /\ \A i \in 1..Len(Tail(s)) : i + 1 \in 1..Len(s) /\ i + 1 # 1
      /\ \A i, j \in 1..Len(Tail(s)) : i + 1 = j + 1 => i = j
  BY <1>1
<1>3. AtMostOne(s, K) => AtMostOne(Tail(s), K) BY <1>1, <1>2 DEF AtMostOne
<1>4. HasNone(s, K) => HasNone(Tail(s), K) /\ Head(s).kind \notin K
  BY <1>1, <1>2 DEF HasNone
<1>5. AllOf(s, K, t) => AllOf(Tail(s), K, t) /\ (Head(s).kind \in K => Head(s).turn = t)
  BY <1>1, <1>2 DEF AllOf
<1>6. AllIn(s, K, T) => AllIn(Tail(s), K, T) /\ (Head(s).kind \in K => Head(s).turn \in T)
  BY <1>1, <1>2 DEF AllIn
<1>7. AtMostOne(s, K) /\ Head(s).kind \in K => HasNone(Tail(s), K)
  BY <1>1, <1>2 DEF AtMostOne, HasNone
<1> QED BY <1>1, <1>3, <1>4, <1>5, <1>6, <1>7

LEMMA AppendFrames ==
  ASSUME NEW S, NEW s \in Seq(S), NEW x \in S, NEW K, NEW t, NEW T
  PROVE  /\ Append(s, x) \in Seq(S)
         /\ AtMostOne(s, K) /\ x.kind \notin K => AtMostOne(Append(s, x), K)
         /\ HasNone(s, K) /\ x.kind \notin K => HasNone(Append(s, x), K)
         /\ AllOf(s, K, t) /\ (x.kind \in K => x.turn = t) => AllOf(Append(s, x), K, t)
         /\ AllIn(s, K, T) /\ (x.kind \in K => x.turn \in T) => AllIn(Append(s, x), K, T)
         /\ HasNone(s, K) => AtMostOne(Append(s, x), K)
<1> DEFINE a == Append(s, x)
<1>1. /\ Len(s) \in Nat /\ Len(a) = Len(s) + 1 /\ a \in Seq(S)
      /\ \A i \in 1..Len(a) : a[i] = IF i = Len(s) + 1 THEN x ELSE s[i]
  OBVIOUS
<1>2. \A i \in 1..Len(a) : i # Len(s) + 1 => i \in 1..Len(s) BY <1>1
<1> HIDE DEF a
<1>3. AtMostOne(s, K) /\ x.kind \notin K => AtMostOne(a, K) BY <1>1, <1>2 DEF AtMostOne
<1>4. HasNone(s, K) /\ x.kind \notin K => HasNone(a, K) BY <1>1, <1>2 DEF HasNone
<1>5. AllOf(s, K, t) /\ (x.kind \in K => x.turn = t) => AllOf(a, K, t)
  BY <1>1, <1>2 DEF AllOf
<1>6. AllIn(s, K, T) /\ (x.kind \in K => x.turn \in T) => AllIn(a, K, T)
  BY <1>1, <1>2 DEF AllIn
<1>7. HasNone(s, K) => AtMostOne(a, K) BY <1>1, <1>2 DEF AtMostOne, HasNone
<1> QED BY <1>1, <1>3, <1>4, <1>5, <1>6, <1>7 DEF a

\* What has no frames of a kind has no frame of another turn.
LEMMA NoneFrames ==
  ASSUME NEW s, NEW K, NEW t, HasNone(s, K) PROVE AtMostOne(s, K) /\ AllOf(s, K, t)
BY DEF AtMostOne, HasNone, AllOf

LEMMA EmptyFrames == ASSUME NEW K, NEW T PROVE HasNone(<<>>, K) /\ AllIn(<<>>, K, T)
BY DEF HasNone, AllIn

LEMMA EndedInit == Init => EndedSound
<1> SUFFICES ASSUME Init PROVE EndedSound OBVIOUS
<1> USE QueueAssumption DEF Init, QueueInit, QueueEmpty, DriverInit, WorkIdle, NoReceipt, NoTurn,
        CliDead, NoMarks
<1>1. PipeTypes BY DEF PipeTypes
<1>2. ActiveAgrees BY DEF ActiveAgrees
<1>3. ReceiptAgrees BY DEF ReceiptAgrees
<1>4. OneDue
  <2>1. HasNone(stdin, Texts) /\ HasNone(stdout, Results) BY EmptyFrames
  <2> QED BY <2>1, NoneFrames DEF OneDue, NothingDue
<1>5. EndsTrue BY EmptyFrames DEF EndsTrue
<1> QED BY <1>1, <1>2, <1>3, <1>4, <1>5 DEF EndedSound

endVars == <<current, command, turnOf, ledger, turns, active, marks, stdin, stdout, cli, answered,
             stopped, overrun, work>>
pipeVars == <<marks, stdin, stdout, cli, answered, stopped, overrun>>

LEMMA EndedKept == ASSUME EndedSound, UNCHANGED endVars PROVE EndedSound'
<1> USE DEF endVars
<1>1. PipeTypes' BY DEF EndedSound, PipeTypes
<1>2. ActiveAgrees' BY DEF EndedSound, ActiveAgrees
<1>3. ReceiptAgrees' BY DEF EndedSound, ReceiptAgrees
<1>4. OneDue => OneDue' BY DEF OneDue, NothingDue
<1>5. EndsTrue => EndsTrue' BY DEF EndsTrue, Over
<1> QED BY <1>1, <1>2, <1>3, <1>4, <1>5 DEF EndedSound

\* While the pipes and the active turn stay, so does what is due.
LEMMA DueKept ==
  ASSUME OneDue, UNCHANGED <<pipeVars, active>>, work'.pc = "send" => work.pc = "send"
  PROVE  OneDue'
BY DEF OneDue, NothingDue, pipeVars

----------------------------------------------------------------------------
\* Steps of the queue.

LEMMA EnqueueEnded ==
  ASSUME TurnsSound, EndedSound, NEW d \in Commands, Enqueue(d), UNCHANGED <<driverVars, work>>
  PROVE  EndedSound'
<1>1. /\ command[d] = "none" /\ command' = [command EXCEPT ![d] = "queued"]
      /\ UNCHANGED <<current, turnOf, ledger, turns, active, pipeVars, work>>
  BY DEF Enqueue, driverVars, pipeVars
<1>2. \A c \in Commands : command'[c] = IF c = d THEN "queued" ELSE command[c]
  BY <1>1 DEF TurnsSound, FeedTypes
<1>3. current # NoCommand => current \in Commands /\ command'[current] = command[current]
  BY <1>1, <1>2 DEF TurnsSound, FeedTypes, EndedSound, ReceiptAgrees
<1>4. work.pc # "idle" => current # NoCommand
  BY QueueAssumption DEF TurnsSound, WorkSound
<1>5. PipeTypes' BY <1>1 DEF EndedSound, PipeTypes, pipeVars
<1>6. ActiveAgrees' BY <1>1 DEF EndedSound, ActiveAgrees, pipeVars
<1>7. ReceiptAgrees' BY <1>1, <1>3, <1>4 DEF EndedSound, ReceiptAgrees
<1>8. OneDue => OneDue' BY <1>1, DueKept
<1>9. EndsTrue => EndsTrue' BY <1>1, <1>2 DEF EndsTrue, Over, pipeVars
<1> QED BY <1>1, <1>5, <1>6, <1>7, <1>8, <1>9 DEF EndedSound, pipeVars

LEMMA WorkerStartEnded == ASSUME TurnsSound, EndedSound, WorkerStart PROVE EndedSound'
<1> DEFINE h == Head(pending)
<1>1. /\ pending # <<>> /\ current' = h /\ command' = [command EXCEPT ![h] = "admitting"]
      /\ work' = [work EXCEPT !.pc = "deliver"]
      /\ UNCHANGED <<turnOf, ledger, turns, active, pipeVars>>
  BY DEF WorkerStart, StartNext, Goes, driverVars, pipeVars
<1>2. h \in Commands /\ command[h] = "queued"
  <2>1. 1 \in 1..Len(pending) /\ h = pending[1] /\ h \in Commands
    BY <1>1 DEF TurnsSound, FeedTypes
  <2> QED BY <2>1 DEF TurnsSound, LineSound
<1>3. /\ \A c \in Commands : command'[c] = IF c = h THEN "admitting" ELSE command[c]
      /\ work'.pc = "deliver"
  BY <1>1 DEF TurnsSound, FeedTypes
<1>4. PipeTypes' BY <1>1 DEF EndedSound, PipeTypes, pipeVars
<1>5. ActiveAgrees' BY <1>1 DEF EndedSound, ActiveAgrees, pipeVars
<1>6. ReceiptAgrees' BY <1>1, <1>2, <1>3 DEF ReceiptAgrees
<1>7. OneDue => OneDue' BY <1>1, <1>3, DueKept
<1>8. EndsTrue => EndsTrue' BY <1>1, <1>2, <1>3 DEF EndsTrue, Over, pipeVars
<1> QED BY <1>1, <1>4, <1>5, <1>6, <1>7, <1>8 DEF EndedSound, pipeVars

LEMMA AdmittedEnded == ASSUME TurnsSound, EndedSound, Admitted PROVE EndedSound'
<1>1. /\ work.pc = "settle" /\ command[current] = "admitting"
      /\ work.receipt.state \in {"accepted", "processing", "done"} /\ work.receipt.turn # 0
      /\ command' = [command EXCEPT ![current] = "admitted"]
      /\ turnOf' = [turnOf EXCEPT ![current] = work.receipt.turn]
      /\ UNCHANGED <<current, ledger, turns, active, pipeVars, work>>
  BY DEF Admitted, Admits, Admit, driverVars, workVars, pipeVars
<1>2. current \in Commands /\ work.receipt.turn \in Nat
  BY <1>1 DEF TurnsSound, WorkSound, FeedTypes, Receipts
<1>3. work.receipt.turn = ledger[current].turn
  BY <1>1 DEF EndedSound, ReceiptAgrees
<1>4. \A c \in Commands : /\ command'[c] = IF c = current THEN "admitted" ELSE command[c]
                          /\ turnOf'[c] = IF c = current THEN ledger[c].turn ELSE turnOf[c]
  BY <1>1, <1>3 DEF TurnsSound, FeedTypes, EndedSound, PipeTypes
<1>5. PipeTypes' BY <1>1, <1>2 DEF EndedSound, PipeTypes, pipeVars
<1>6. ActiveAgrees' BY <1>1 DEF EndedSound, ActiveAgrees, pipeVars
<1>7. ReceiptAgrees' BY <1>1, <1>2, <1>4 DEF EndedSound, ReceiptAgrees
<1>8. OneDue => OneDue' BY <1>1, DueKept
<1>9. EndsTrue => EndsTrue' BY <1>1, <1>4 DEF EndsTrue, Over, pipeVars
<1> QED BY <1>1, <1>5, <1>6, <1>7, <1>8, <1>9 DEF EndedSound, pipeVars

\* A command ends; as completed, if its receipt says so.
LEMMA FinishEnded ==
  ASSUME TurnsSound, EndedSound, NEW outcome \in Outcome, work.pc # "idle",
         Finish(current, outcome), work' = WorkIdle, UNCHANGED driverVars,
         outcome = "completed" => /\ work.pc = "settle" /\ work.receipt.state = "done"
                                  /\ command[current] = "admitted"
  PROVE  EndedSound'
<1>1. /\ command' = [command EXCEPT ![current] = outcome] /\ current' = NoCommand
      /\ work'.pc = "idle" /\ UNCHANGED <<turnOf, ledger, turns, active, pipeVars>>
  BY DEF Finish, WorkIdle, driverVars, pipeVars
<1>2. current \in Commands /\ current # NoCommand
  BY QueueAssumption DEF TurnsSound, WorkSound
<1>3. \A c \in Commands : command'[c] = IF c = current THEN outcome ELSE command[c]
  BY <1>1 DEF TurnsSound, FeedTypes
<1>4. PipeTypes' BY <1>1 DEF EndedSound, PipeTypes, pipeVars
<1>5. ActiveAgrees' BY <1>1 DEF EndedSound, ActiveAgrees, pipeVars
<1>6. ReceiptAgrees' BY <1>1 DEF ReceiptAgrees
<1>7. OneDue => OneDue' BY <1>1, DueKept
<1>8. ASSUME EndsTrue PROVE EndsTrue'
  <2>1. outcome = "completed" => turnOf[current] \in Over
    BY <1>2, <1>8 DEF EndsTrue, EndedSound, ReceiptAgrees
  <2> QED BY <1>1, <1>3, <1>8, <2>1 DEF EndsTrue, Over, pipeVars
<1> QED BY <1>1, <1>4, <1>5, <1>6, <1>7, <1>8 DEF EndedSound, pipeVars

LEMMA EndEnded ==
  ASSUME TurnsSound, EndedSound, StartFails \/ Ends \/ TimesOut PROVE EndedSound'
<1>1. CASE StartFails
  BY <1>1, FinishEnded DEF StartFails, Outcome
<1>2. CASE TimesOut
  BY <1>2, FinishEnded DEF TimesOut, Overdue, Unsettled, Settles, Outcome
<1>3. CASE Ends
  <2> DEFINE outcome == IF work.receipt.state = "done" THEN "completed"
                        ELSE IF <<current, turnOf[current]>> \in confirmed THEN "interrupted"
                        ELSE "failed"
  <2>1. /\ work.pc = "settle" /\ ~Admits /\ Finish(current, outcome) /\ work' = WorkIdle
        /\ UNCHANGED driverVars
    BY <1>3 DEF Ends, Settles
  <2>2. outcome \in Outcome /\ (outcome = "completed" => work.receipt.state = "done")
    BY DEF Outcome
  <2>3. work.receipt.state = "done" => command[current] = "admitted"
    BY <2>1, QueueAssumption DEF Admits, EndedSound, ReceiptAgrees, TurnsSound, WorkSound
  <2> HIDE DEF outcome
  <2> QED BY <2>1, <2>2, <2>3, FinishEnded
<1> QED BY <1>1, <1>2, <1>3

----------------------------------------------------------------------------
\* Steps of the worker.

LEMMA DeliverEnded == ASSUME TurnsSound, EndedSound, Deliver PROVE EndedSound'
<1>1. /\ work.pc = "deliver" /\ current \in Commands /\ Started
      /\ UNCHANGED <<current, command, turnOf, ledger, turns, active, marks, stdin, stdout,
                     answered, stopped, overrun>>
  BY DEF Deliver, TurnsSound, WorkSound, queueVars
<1>2. cli' \in [alive : BOOLEAN, reads : Seq(Nat), stuck : BOOLEAN] /\ cli'.reads \in {<<>>, cli.reads}
  <2>1. cli \in [alive : BOOLEAN, reads : Seq(Nat), stuck : BOOLEAN] BY DEF EndedSound, PipeTypes
  <2>2. CASE cli.alive BY <1>1, <2>1, <2>2 DEF Started
  <2>3. CASE ~cli.alive
    <3>1. cli' = [alive |-> TRUE, reads |-> <<>>, stuck |-> FALSE] BY <1>1, <2>3 DEF Started, CliDead
    <3> QED BY <3>1
  <2> QED BY <2>2, <2>3
<1>3. command[current] = "admitting" BY <1>1 DEF EndedSound, ReceiptAgrees
<1>4. \/ work'.pc = "wait"
      \/ /\ work' = [pc |-> "settle", receipt |-> [state |-> ledger[current].state,
                                                   turn |-> ledger[current].turn]]
         /\ Known(current)
  <2>1. CASE Known(current) BY <2>1 DEF Deliver, Holds
  <2>2. CASE ~Known(current)
    BY <2>2, WorkGoes DEF Deliver, TurnsSound, Steps
  <2> QED BY <2>1, <2>2
<1>5. PipeTypes' BY <1>1, <1>2 DEF EndedSound, PipeTypes
<1>6. ActiveAgrees' BY <1>1 DEF EndedSound, ActiveAgrees
<1>7. ReceiptAgrees'
  <2>1. Known(current) => ledger[current].state # "none" /\ ledger[current].turn # 0
    BY <1>1 DEF Known, EndedSound, ActiveAgrees
  <2> QED BY <1>1, <1>3, <1>4, <2>1 DEF ReceiptAgrees
<1>8. OneDue => OneDue' BY <1>1, <1>2, <1>4 DEF OneDue, NothingDue
<1>9. EndsTrue => EndsTrue' BY <1>1, <1>4 DEF EndsTrue, Over
<1> QED BY <1>1, <1>5, <1>6, <1>7, <1>8, <1>9 DEF EndedSound

\* A new turn: nothing of the one before it is due, or it is overrun.
LEMMA BeginEnded ==
  ASSUME TurnsSound, EndedSound, work.pc = "wait", Begin(current), Goes("send"),
         UNCHANGED queueVars
  PROVE  EndedSound'
<1>1. /\ turns' = turns + 1 /\ active' = [id |-> current, turn |-> turns + 1]
      /\ ledger' = [ledger EXCEPT ![current] = [state |-> "processing", turn |-> turns + 1]]
      /\ overrun' = (overrun \/ (PrevOpen(current) /\ Awaited))
      /\ UNCHANGED <<current, command, turnOf, marks, stdin, stdout, cli, answered, stopped>>
  BY DEF Begin, queueVars
<1>2. /\ current \in Commands /\ current # NoCommand /\ active.id # current /\ turns \in Nat
      /\ command[current] = "admitting"
  BY QueueAssumption DEF TurnsSound, WorkSound, FeedTypes, EndedSound, ReceiptAgrees
<1>3. work'.pc = "send" BY WorkGoes DEF TurnsSound, Steps
<1>4. \A d \in Commands : ledger'[d] = IF d = current
                                         THEN [state |-> "processing", turn |-> turns + 1]
                                         ELSE ledger[d]
  BY <1>1 DEF TurnsSound, FeedTypes
<1>5. active'.turn \notin marks.terminal /\ active'.turn # 0
  BY <1>1, <1>2 DEF EndedSound, ActiveAgrees
<1>6. PipeTypes' BY <1>1 DEF EndedSound, PipeTypes
<1>7. ActiveAgrees'
  <2>1. \A t \in marks.terminal : t <= turns + 1
    BY <1>2 DEF EndedSound, ActiveAgrees, PipeTypes
  <2> QED BY <1>1, <1>2, <1>4, <2>1 DEF EndedSound, ActiveAgrees
<1>8. ReceiptAgrees' BY <1>1, <1>2, <1>3 DEF ReceiptAgrees
<1>9. ASSUME ~overrun' PROVE OneDue' /\ EndsTrue'
  <2>1. OneDue /\ EndsTrue /\ ~(PrevOpen(current) /\ Awaited) BY <1>1, <1>9 DEF EndedSound
  <2>2. NothingDue
    <3>1. CASE ~PrevOpen(current) BY <1>2, <2>1, <3>1 DEF PrevOpen, OneDue
    <3>2. CASE ~Awaited BY <3>2, EmptyFrames DEF Awaited, NothingDue
    <3> QED BY <2>1, <3>1, <3>2
  <2>3. NothingDue' BY <1>1, <2>2 DEF NothingDue
  <2>4. OneDue' BY <1>1, <1>5, <2>3, NoneFrames DEF OneDue, NothingDue
  <2>5. EndsTrue' BY <1>1, <1>3, <1>4, <2>1 DEF EndsTrue, Over
  <2> QED BY <2>4, <2>5
<1> QED BY <1>6, <1>7, <1>8, <1>9 DEF EndedSound

LEMMA SentEnded ==
  ASSUME TurnsSound, EndedSound, work.pc = "send", Sent(current), Goes("ack"),
         UNCHANGED queueVars
  PROVE  EndedSound'
<1> DEFINE x == [kind |-> "text", turn |-> active.turn]
<1>1. /\ stdin' = Append(stdin, x) /\ stdin \in Seq(Frame) /\ active.turn \in Nat
      /\ UNCHANGED <<current, command, turnOf, ledger, turns, active, marks, stdout, cli,
                     answered, stopped, overrun>>
  BY DEF Sent, queueVars, EndedSound, PipeTypes, TurnsSound, FeedTypes
<1>2. x \in Frame /\ x.kind \in Texts /\ x.turn = active.turn BY <1>1 DEF Frame, Texts
<1>3. work'.pc = "ack" BY WorkGoes DEF TurnsSound, Steps
<1>4. active.id = current /\ active.turn # 0 /\ command[current] = "admitting"
  BY QueueAssumption DEF EndedSound, ReceiptAgrees, ActiveAgrees, TurnsSound, WorkSound
<1> HIDE DEF x
<1>5. /\ Append(stdin, x) \in Seq(Frame)
      /\ HasNone(stdin, Texts) => AtMostOne(Append(stdin, x), Texts)
      /\ AllOf(stdin, Texts, active.turn) => AllOf(Append(stdin, x), Texts, active.turn)
  BY <1>1, <1>2, AppendFrames
<1>6. PipeTypes' BY <1>1, <1>5 DEF EndedSound, PipeTypes
<1>7. ActiveAgrees' BY <1>1 DEF EndedSound, ActiveAgrees
<1>8. ReceiptAgrees' BY <1>1, <1>3, <1>4 DEF EndedSound, ReceiptAgrees
<1>9. OneDue => OneDue' BY <1>1, <1>3, <1>4, <1>5 DEF OneDue, NothingDue
<1>10. EndsTrue => EndsTrue' BY <1>1, <1>3 DEF EndsTrue, Over
<1> QED BY <1>1, <1>6, <1>7, <1>8, <1>9, <1>10 DEF EndedSound

\* update_state keeps the turn.
LEMMA BookKeepsTurns ==
  ASSUME FeedTypes, NEW d, NEW state, Book(d, state)
  PROVE  \A c \in Commands : /\ ledger'[c].turn = ledger[c].turn
                             /\ ledger'[c].state = IF c = d THEN state ELSE ledger[c].state
<1>1. ledger' = [ledger EXCEPT ![d] = [ledger[d] EXCEPT !.state = state]]
  BY DEF Book
<1>2. \A x \in Receipts : /\ [x EXCEPT !.state = state].turn = x.turn
                          /\ [x EXCEPT !.state = state].state = state
  BY DEF Receipts
<1>3. \A c \in Commands : ledger[c] \in Receipts BY DEF FeedTypes
<1>4. \A c \in Commands : ledger'[c] = IF c = d THEN [ledger[c] EXCEPT !.state = state]
                                       ELSE ledger[c]
  BY <1>1 DEF FeedTypes
<1> QED BY <1>2, <1>3, <1>4

\* The worker holds a receipt, and the ledger has it or stays as it is.
LEMMA HeldEnded ==
  ASSUME TurnsSound, EndedSound, work.pc # "idle",
         NEW state \in LedgerState \ {"none"}, NEW turn \in Nat, Holds(state, turn),
         \/ Book(current, state) /\ active.id = current
         \/ UNCHANGED ledger /\ work.pc \in {"settle", "look"},
         command[current] = "admitting" => state = "failed" \/ (turn # 0 /\ turn = ledger[current].turn),
         EndsTrue /\ state = "done" => ledger[current].turn \in Over,
         UNCHANGED <<current, command, turnOf, turns, active, pipeVars>>
  PROVE  EndedSound'
<1>1. work'.pc = "settle" /\ work'.receipt.state = state /\ work'.receipt.turn = turn
  BY DEF Holds
<1>2. current \in Commands BY DEF TurnsSound, WorkSound
<1>3. \A c \in Commands : /\ ledger'[c].turn = ledger[c].turn
                          /\ ledger'[c].state = ledger[c].state \/ (c = current /\ ledger'[c].state = state)
  BY BookKeepsTurns DEF TurnsSound
<1>4. Book(current, state) => ledger[current].turn # 0 \/ active.id # current
  BY <1>2, QueueAssumption DEF EndedSound, ActiveAgrees
<1>5. active.id # NoCommand => active.id \in Commands BY DEF TurnsSound, FeedTypes
<1>6. PipeTypes' BY DEF EndedSound, PipeTypes, pipeVars
<1>7. ActiveAgrees'
  <2>1. \A d \in Commands : ledger'[d].state # "none" => ledger'[d].turn # 0
    BY <1>3, <1>4 DEF EndedSound, ActiveAgrees
  <2> QED BY <1>3, <1>5, <2>1 DEF EndedSound, ActiveAgrees, pipeVars
<1>8. ReceiptAgrees'
  <2>1. ledger'[current].state # "none"
    BY <1>2, BookKeepsTurns DEF EndedSound, ReceiptAgrees, TurnsSound
  <2> QED BY <1>1, <1>2, <1>3, <2>1 DEF EndedSound, ReceiptAgrees
<1>9. OneDue => OneDue' BY <1>1, DueKept
<1>10. EndsTrue => EndsTrue' BY <1>1, <1>2, <1>3 DEF EndsTrue, Over, pipeVars
<1> QED BY <1>6, <1>7, <1>8, <1>9, <1>10 DEF EndedSound, pipeVars

LEMMA SendEnded == ASSUME TurnsSound, EndedSound, Send PROVE EndedSound'
<1>1. work.pc = "send" /\ UNCHANGED queueVars BY DEF Send
<1>2. CASE Sent(current) /\ Goes("ack") BY <1>1, <1>2, SentEnded
<1>3. CASE SendFailed(current) /\ Holds("failed", 0)
  <2>1. "failed" \in LedgerState \ {"none"} /\ 0 \in Nat BY DEF LedgerState
  <2>2. active.id = current BY <1>1 DEF EndedSound, ReceiptAgrees
  <2>3. Book(current, "failed") /\ UNCHANGED <<current, command, turnOf, turns, active, pipeVars>>
    BY <1>1, <1>3 DEF SendFailed, queueVars, pipeVars
  <2> QED BY <1>1, <1>3, <2>1, <2>2, <2>3, HeldEnded
<1> QED BY <1>2, <1>3 DEF Send

LEMMA AckEnded == ASSUME TurnsSound, EndedSound, Accepted \/ NotAccepted PROVE EndedSound'
<1>1. PICK state \in {"accepted", "processing"} :
        Book(current, state) /\ Holds(state, active.turn)
  BY DEF Accepted, NotAccepted, AckSeen, AckMissed
<1>2. /\ work.pc = "ack" /\ UNCHANGED <<current, command, turnOf, turns, active, pipeVars>>
  BY DEF Accepted, NotAccepted, AckSeen, AckMissed, queueVars, pipeVars
<1>3. state \in LedgerState \ {"none"} /\ active.turn \in Nat
  BY DEF LedgerState, TurnsSound, FeedTypes
<1>4. current \in Commands /\ active.id = current
  BY <1>2 DEF TurnsSound, WorkSound, EndedSound, ReceiptAgrees
<1>5. active.turn # 0 /\ active.turn = ledger[current].turn
  BY <1>4, QueueAssumption DEF EndedSound, ActiveAgrees
<1> QED BY <1>1, <1>2, <1>3, <1>4, <1>5, HeldEnded

LEMMA PollEnded ==
  ASSUME TurnsSound, EndedSound, PollEarly \/ PollLate \/ PollStalls PROVE EndedSound'
<1>1. /\ UNCHANGED queueVars /\ work.pc \in {"settle", "look"}
  BY DEF PollEarly, PollLate, PollStalls, Unsettled, Settles
<1>2. current \in Commands /\ current # NoCommand
  BY <1>1, QueueAssumption DEF TurnsSound, WorkSound
<1>3. command[current] = "admitted"
  <2>1. CASE work.pc = "look" BY <2>1 DEF EndedSound, ReceiptAgrees
  <2>2. CASE work.pc = "settle" /\ Unsettled
    <3>1. work.receipt.state \in LedgerState BY DEF TurnsSound, FeedTypes, Receipts
    <3> QED BY <1>2, <2>2, <3>1 DEF Unsettled, Settles, Admits, LedgerState, EndedSound,
                                     ReceiptAgrees
  <2> QED BY <1>1, <2>1, <2>2 DEF PollEarly, PollLate, PollStalls
<1>4. ASSUME NEW state \in LedgerState \ {"none"}, Polled(current, state), Holds(state, 0),
             EndsTrue /\ state = "done" => ledger[current].turn \in Over
      PROVE  EndedSound'
  <2>1. /\ (Book(current, state) /\ active.id = current) \/ (UNCHANGED ledger /\ work.pc \in {"settle", "look"})
        /\ UNCHANGED <<current, command, turnOf, turns, active, pipeVars>>
    BY <1>1, <1>4 DEF Polled, Mine, queueVars, pipeVars
  <2> QED BY <1>1, <1>3, <1>4, <2>1, HeldEnded
<1>5. CASE PollEarly
  <2>1. CASE EarlyReceipt(current) = "none"
    <3>1. UNCHANGED driverVars /\ work.pc = "settle" /\ Goes("look")
      BY <1>5, <2>1 DEF PollEarly, Unsettled, Settles
    <3>2. work'.pc = "look" BY <3>1, WorkGoes DEF TurnsSound, Steps
    <3>3. ledger[current].state # "none" BY <3>1 DEF EndedSound, ReceiptAgrees
    <3>4. active.id = current BY <2>1, <3>3 DEF EarlyReceipt, Mine
    <3>5. /\ UNCHANGED <<current, command, turnOf, turns, active, pipeVars>>
          /\ UNCHANGED ledger
      BY <1>1, <3>1 DEF queueVars, driverVars, pipeVars
    <3>6. PipeTypes' /\ ActiveAgrees'
      BY <3>5 DEF EndedSound, PipeTypes, ActiveAgrees, pipeVars
    <3>7. ReceiptAgrees' BY <1>2, <1>3, <3>2, <3>3, <3>4, <3>5 DEF EndedSound, ReceiptAgrees
    <3>8. OneDue => OneDue' BY <3>2, <3>5, DueKept
    <3>9. EndsTrue => EndsTrue' BY <3>2, <3>5 DEF EndsTrue, Over, pipeVars
    <3> QED BY <3>5, <3>6, <3>7, <3>8, <3>9 DEF EndedSound, pipeVars
  <2>2. CASE EarlyReceipt(current) # "none"
    <3>1. EarlyReceipt(current) \in LedgerState \ {"none"}
      BY <1>2, <2>2 DEF EarlyReceipt, LedgerState, TurnsSound, FeedTypes, Receipts
    <3>2. EarlyReceipt(current) = "done" => ledger[current].state = "done"
      BY DEF EarlyReceipt
    <3>3. EndsTrue /\ EarlyReceipt(current) = "done" => ledger[current].turn \in Over
      BY <1>2, <3>2 DEF EndsTrue
    <3>4. Polled(current, EarlyReceipt(current)) /\ Holds(EarlyReceipt(current), 0)
      BY <1>5, <2>2 DEF PollEarly
    <3> QED BY <1>4, <3>1, <3>3, <3>4
  <2> QED BY <2>1, <2>2
<1>6. CASE PollLate
  <2>1. LateReceipt \in LedgerState \ {"none"} BY DEF LateReceipt, LedgerState
  <2>2. LateReceipt = "done" => active.turn \in marks.terminal BY DEF LateReceipt
  <2>3. active.id = current BY <1>6 DEF PollLate, EndedSound, ReceiptAgrees
  <2>4. ledger[current].turn = active.turn BY <1>2, <2>3 DEF EndedSound, ActiveAgrees
  <2>5. EndsTrue /\ LateReceipt = "done" => ledger[current].turn \in Over
    BY <2>2, <2>4 DEF EndsTrue
  <2> QED BY <1>4, <1>6, <2>1, <2>5 DEF PollLate
<1>7. CASE PollStalls
  <2>1. "failed" \in LedgerState \ {"none"} BY DEF LedgerState
  <2> QED BY <1>4, <1>7, <2>1 DEF PollStalls
<1> QED BY <1>5, <1>6, <1>7

----------------------------------------------------------------------------
\* Steps of the process and the thread that reads its frames.

\* What the queue and the worker say does not depend on the pipes.
LEMMA WorkKept ==
  ASSUME EndedSound, UNCHANGED <<current, command, turnOf, ledger, turns, active, work>>
  PROVE  ReceiptAgrees' /\ (UNCHANGED marks => ActiveAgrees')
BY DEF EndedSound, ReceiptAgrees, ActiveAgrees

\* More may be over.
LEMMA EndsTrueKept ==
  ASSUME EndsTrue, Over \subseteq Over', AllIn(stdout', Results, Over'),
         UNCHANGED <<current, command, turnOf, ledger, marks, work>>
  PROVE  EndsTrue'
BY DEF EndsTrue

LEMMA MoreIsOver ==
  ASSUME NEW s, NEW T, NEW U, T \subseteq U, AllIn(s, Results, T) PROVE AllIn(s, Results, U)
BY DEF AllIn

LEMMA SignalEnded ==
  ASSUME TurnsSound, EndedSound, NEW t \in Nat, Signal(t), UNCHANGED <<queueVars, work>>
  PROVE  EndedSound'
<1> DEFINE x == [kind |-> "interrupt", turn |-> t]
<1>1. /\ stdin' = Append(stdin, x) /\ stdin \in Seq(Frame)
      /\ UNCHANGED <<current, command, turnOf, ledger, turns, active, marks, stdout, cli,
                     answered, stopped, overrun, work>>
  BY DEF Signal, queueVars, EndedSound, PipeTypes
<1>2. x \in Frame /\ x.kind \notin Texts BY DEF Frame, Texts
<1> HIDE DEF x
<1>3. /\ Append(stdin, x) \in Seq(Frame)
      /\ AtMostOne(stdin, Texts) => AtMostOne(stdin', Texts)
      /\ HasNone(stdin, Texts) => HasNone(stdin', Texts)
      /\ AllOf(stdin, Texts, active.turn) => AllOf(stdin', Texts, active.turn)
  BY <1>1, <1>2, AppendFrames
<1>4. PipeTypes' BY <1>1, <1>3 DEF EndedSound, PipeTypes
<1>5. OneDue => OneDue' BY <1>1, <1>3 DEF OneDue, NothingDue
<1>6. EndsTrue => EndsTrue' BY <1>1 DEF EndsTrue, Over
<1> QED BY <1>1, <1>4, <1>5, <1>6, WorkKept DEF EndedSound

LEMMA CliReadsEnded ==
  ASSUME TurnsSound, EndedSound, CliReads, UNCHANGED <<queueVars, work>> PROVE EndedSound'
<1> DEFINE x == [kind |-> "ack", turn |-> Head(stdin).turn]
<1>1. /\ stdin # <<>> /\ Head(stdin).kind \in Texts
      /\ stdin' = Tail(stdin) /\ stdout' = Append(stdout, x)
      /\ cli' = [cli EXCEPT !.reads = Append(cli.reads, Head(stdin).turn)]
      /\ UNCHANGED <<current, command, turnOf, ledger, turns, active, marks, answered, stopped,
                     overrun, work>>
  BY DEF CliReads, queueVars, Texts
<1>2. /\ stdin \in Seq(Frame) /\ stdout \in Seq(Reply)
      /\ cli \in [alive : BOOLEAN, reads : Seq(Nat), stuck : BOOLEAN]
  BY DEF EndedSound, PipeTypes
<1>3. /\ stdin' \in Seq(Frame) /\ Head(stdin) \in Frame
      /\ AllOf(stdin, Texts, active.turn) => Head(stdin).turn = active.turn
      /\ AtMostOne(stdin, Texts) => HasNone(stdin', Texts)
      /\ ~HasNone(stdin, Texts)
  BY <1>1, <1>2, TailFrames
<1>4. Head(stdin).turn \in Nat /\ x \in Reply /\ x.kind \notin Results
  BY <1>3 DEF Frame, Reply, Results
<1> HIDE DEF x
<1>5. /\ stdout' \in Seq(Reply)
      /\ AtMostOne(stdout, Results) => AtMostOne(stdout', Results)
      /\ HasNone(stdout, Results) => HasNone(stdout', Results)
      /\ AllOf(stdout, Results, active.turn) => AllOf(stdout', Results, active.turn)
      /\ AllIn(stdout, Results, Over) => AllIn(stdout', Results, Over)
  BY <1>1, <1>2, <1>4, AppendFrames
<1>6. PipeTypes'
  <2>1. Append(cli.reads, Head(stdin).turn) \in Seq(Nat) BY <1>2, <1>4
  <2>2. cli' \in [alive : BOOLEAN, reads : Seq(Nat), stuck : BOOLEAN] BY <1>1, <1>2, <2>1
  <2> QED BY <1>1, <1>3, <1>5, <2>2 DEF EndedSound, PipeTypes
<1>7. ASSUME OneDue PROVE OneDue'
  <2>1. cli.reads = <<>> /\ HasNone(stdout, Results) /\ ~NothingDue
    BY <1>3, <1>7 DEF OneDue, NothingDue
  <2>2. cli'.reads = <<active.turn>>
    BY <1>1, <1>2, <1>3, <1>7, <2>1 DEF OneDue
  <2>3. AtMostOne(stdin', Texts) /\ AllOf(stdin', Texts, active.turn) /\ HasNone(stdin', Texts)
    BY <1>3, <1>7, NoneFrames DEF OneDue
  <2> QED BY <1>1, <1>5, <1>7, <2>1, <2>2, <2>3 DEF OneDue
<1>8. EndsTrue => EndsTrue'
  <2>1. Over' = Over BY <1>1 DEF Over
  <2> QED BY <1>1, <1>5, <2>1, EndsTrueKept DEF EndsTrue
<1> QED BY <1>1, <1>6, <1>7, <1>8, WorkKept DEF EndedSound

\* A text that was read is answered or stopped: its result is on its way.
LEMMA ResultEnded ==
  ASSUME TurnsSound, EndedSound, UNCHANGED <<queueVars, work>>,
         cli.reads # <<>>, cli' = [cli EXCEPT !.reads = Tail(cli.reads)],
         NEW kind \in Results,
         stdout' = Append(stdout, [kind |-> kind, turn |-> Head(cli.reads)]),
         Over' = Over \cup {Head(cli.reads)},
         \/ stdin' = stdin
         \/ stdin # <<>> /\ stdin' = Tail(stdin),
         UNCHANGED <<ledger, turns, active, marks, overrun>>
  PROVE  EndedSound'
<1> DEFINE t == Head(cli.reads)
           x == [kind |-> kind, turn |-> t]
<1>1. /\ UNCHANGED <<current, command, turnOf>> /\ stdin \in Seq(Frame) /\ stdout \in Seq(Reply)
      /\ cli \in [alive : BOOLEAN, reads : Seq(Nat), stuck : BOOLEAN]
  BY DEF queueVars, EndedSound, PipeTypes
<1>2. t \in Nat /\ cli'.reads = Tail(cli.reads) /\ cli' \in [alive : BOOLEAN, reads : Seq(Nat), stuck : BOOLEAN]
  <2>1. cli.reads \in Seq(Nat) BY <1>1
  <2>2. t \in Nat /\ Tail(cli.reads) \in Seq(Nat) BY <2>1
  <2> QED BY <1>1, <2>2
<1>3. x \in Reply /\ x.kind \in Results /\ x.turn = t BY <1>2 DEF Reply, Results
<1>4. /\ stdin' \in Seq(Frame)
      /\ HasNone(stdin, Texts) => HasNone(stdin', Texts)
  <2>1. CASE stdin' = stdin BY <1>1, <2>1
  <2>2. CASE stdin # <<>> /\ stdin' = Tail(stdin) BY <1>1, <2>2, TailFrames
  <2> QED BY <2>1, <2>2
<1> HIDE DEF x
<1>5. stdout' = Append(stdout, x) BY DEF x
<1>6. /\ stdout' \in Seq(Reply)
      /\ HasNone(stdout, Results) => AtMostOne(stdout', Results)
      /\ t = active.turn /\ AllOf(stdout, Results, active.turn)
           => AllOf(stdout', Results, active.turn)
      /\ AllIn(stdout, Results, Over') => AllIn(stdout', Results, Over')
  <2> DEFINE U == Over \cup {t}
  <2> HIDE DEF U
  <2>1. /\ Append(stdout, x) \in Seq(Reply)
        /\ HasNone(stdout, Results) => AtMostOne(Append(stdout, x), Results)
        /\ t = active.turn /\ AllOf(stdout, Results, active.turn)
             => AllOf(Append(stdout, x), Results, active.turn)
        /\ t \in U /\ AllIn(stdout, Results, U) => AllIn(Append(stdout, x), Results, U)
    BY <1>1, <1>3, AppendFrames
  <2>2. Over' = U /\ t \in U BY DEF U
  <2> QED BY <1>5, <2>1, <2>2
<1>7. PipeTypes' BY <1>1, <1>2, <1>4, <1>6 DEF EndedSound, PipeTypes
<1>8. ASSUME OneDue PROVE OneDue'
  <2>1. cli.reads = <<active.turn>> BY <1>8 DEF OneDue
  <2>2. t = active.turn /\ cli'.reads = <<>> BY <1>2, <2>1
  <2>3. HasNone(stdin, Texts) /\ HasNone(stdout, Results) /\ ~NothingDue
    BY <1>8 DEF OneDue, NothingDue
  <2>4. AtMostOne(stdin', Texts) /\ AllOf(stdin', Texts, active.turn) /\ HasNone(stdin', Texts)
    BY <1>4, <2>3, NoneFrames
  <2> QED BY <1>6, <1>8, <2>2, <2>3, <2>4 DEF OneDue
<1>9. ASSUME EndsTrue PROVE EndsTrue'
  <2>1. AllIn(stdout, Results, Over') BY <1>9, MoreIsOver DEF EndsTrue
  <2> QED BY <1>1, <1>6, <1>9, <2>1, EndsTrueKept
<1> QED BY <1>1, <1>7, <1>8, <1>9, WorkKept DEF EndedSound

LEMMA CliIgnoresEnded ==
  ASSUME TurnsSound, EndedSound, CliIgnores, UNCHANGED <<queueVars, work>> PROVE EndedSound'
<1>1. /\ stdin # <<>> /\ stdin' = Tail(stdin)
      /\ UNCHANGED <<current, command, turnOf, ledger, turns, active, marks, stdout, cli,
                     answered, stopped, overrun, work>>
  BY DEF CliIgnores, queueVars
<1>2. stdin \in Seq(Frame) BY DEF EndedSound, PipeTypes
<1>3. /\ stdin' \in Seq(Frame)
      /\ AtMostOne(stdin, Texts) => AtMostOne(stdin', Texts)
      /\ HasNone(stdin, Texts) => HasNone(stdin', Texts)
      /\ AllOf(stdin, Texts, active.turn) => AllOf(stdin', Texts, active.turn)
  BY <1>1, <1>2, TailFrames
<1>4. PipeTypes' BY <1>1, <1>3 DEF EndedSound, PipeTypes
<1>5. OneDue => OneDue' BY <1>1, <1>3 DEF OneDue, NothingDue
<1>6. EndsTrue => EndsTrue' BY <1>1 DEF EndsTrue, Over
<1> QED BY <1>1, <1>4, <1>5, <1>6, WorkKept DEF EndedSound

LEMMA CliDiesEnded ==
  ASSUME TurnsSound, EndedSound, CliDies, UNCHANGED <<queueVars, work>> PROVE EndedSound'
<1>1. /\ stdin' = <<>> /\ cli' = [alive |-> FALSE, reads |-> <<>>, stuck |-> FALSE]
      /\ UNCHANGED <<current, command, turnOf, ledger, turns, active, marks, stdout,
                     answered, stopped, overrun, work>>
  BY DEF CliDies, CliDead, queueVars
<1>2. PipeTypes' BY <1>1 DEF EndedSound, PipeTypes
<1>3. /\ HasNone(<<>>, Texts) /\ AtMostOne(<<>>, Texts) /\ AllOf(<<>>, Texts, active.turn)
  BY EmptyFrames, NoneFrames
<1>4. OneDue => OneDue' BY <1>1, <1>3 DEF OneDue, NothingDue
<1>5. EndsTrue => EndsTrue' BY <1>1 DEF EndsTrue, Over
<1> QED BY <1>1, <1>2, <1>4, <1>5, WorkKept DEF EndedSound

LEMMA CliSticksEnded ==
  ASSUME TurnsSound, EndedSound, CliSticks, UNCHANGED <<queueVars, work>> PROVE EndedSound'
<1>1. /\ cli' = [cli EXCEPT !.stuck = TRUE]
      /\ UNCHANGED <<current, command, turnOf, ledger, turns, active, marks, stdin, stdout,
                     answered, stopped, overrun, work>>
  BY DEF CliSticks, queueVars
<1>2. cli \in [alive : BOOLEAN, reads : Seq(Nat), stuck : BOOLEAN] BY DEF EndedSound, PipeTypes
<1>3. cli' \in [alive : BOOLEAN, reads : Seq(Nat), stuck : BOOLEAN] /\ cli'.reads = cli.reads
  BY <1>1, <1>2
<1>4. PipeTypes' BY <1>1, <1>3 DEF EndedSound, PipeTypes
<1>5. OneDue => OneDue' BY <1>1, <1>3 DEF OneDue, NothingDue
<1>6. EndsTrue => EndsTrue' BY <1>1 DEF EndsTrue, Over
<1> QED BY <1>1, <1>4, <1>5, <1>6, WorkKept DEF EndedSound

LEMMA CliEnded ==
  ASSUME TurnsSound, EndedSound, Cli, UNCHANGED <<queueVars, work>> PROVE EndedSound'
<1>1. CASE CliAnswers
  <2>1. "ok" \in Results BY DEF Results
  <2>2. Over' = Over \cup {Head(cli.reads)} BY <1>1 DEF CliAnswers, Over
  <2>3. /\ cli.reads # <<>> /\ cli' = [cli EXCEPT !.reads = Tail(cli.reads)]
        /\ stdout' = Append(stdout, [kind |-> "ok", turn |-> Head(cli.reads)])
        /\ stdin' = stdin /\ UNCHANGED <<ledger, turns, active, marks, overrun>>
    BY <1>1 DEF CliAnswers
  <2> QED BY <2>1, <2>2, <2>3, ResultEnded
<1>2. CASE CliStops
  <2>1. "stopped" \in Results BY DEF Results
  <2>2. Over' = Over \cup {Head(cli.reads)} BY <1>2 DEF CliStops, Over
  <2>3. /\ cli.reads # <<>> /\ cli' = [cli EXCEPT !.reads = Tail(cli.reads)]
        /\ stdout' = Append(stdout, [kind |-> "stopped", turn |-> Head(cli.reads)])
        /\ stdin # <<>> /\ stdin' = Tail(stdin) /\ UNCHANGED <<ledger, turns, active, marks, overrun>>
    BY <1>2 DEF CliStops
  <2> QED BY <2>1, <2>2, <2>3, ResultEnded
<1> QED BY <1>1, <1>2, CliReadsEnded, CliIgnoresEnded DEF Cli

\* A result ends the active turn, to which it belongs unless there was an overrun.
LEMMA HandleFrameEnded ==
  ASSUME TurnsSound, EndedSound, HandleFrame, UNCHANGED <<queueVars, work>> PROVE EndedSound'
<1> DEFINE h == Head(stdout)
           state == IF h.kind = "ok" THEN "done" ELSE "failed"
<1>1. /\ stdout # <<>> /\ stdout' = Tail(stdout) /\ marks' = Frames(h)
      /\ UNCHANGED <<current, command, turnOf, turns, active, stdin, cli, answered, stopped,
                     overrun, work>>
  BY DEF HandleFrame, queueVars
<1>2. /\ stdout \in Seq(Reply) /\ active.turn \in Nat
      /\ marks \in [accepted : SUBSET Nat, terminal : SUBSET Nat, interrupted : SUBSET Nat]
  BY DEF EndedSound, PipeTypes, TurnsSound, FeedTypes
<1>3. /\ stdout' \in Seq(Reply) /\ h \in Reply
      /\ AtMostOne(stdout, Results) => AtMostOne(stdout', Results)
      /\ HasNone(stdout, Results) => HasNone(stdout', Results) /\ h.kind \notin Results
      /\ AllOf(stdout, Results, active.turn) =>
           AllOf(stdout', Results, active.turn) /\ (h.kind \in Results => h.turn = active.turn)
      /\ AllIn(stdout, Results, Over) =>
           AllIn(stdout', Results, Over) /\ (h.kind \in Results => h.turn \in Over)
      /\ AtMostOne(stdout, Results) /\ h.kind \in Results => HasNone(stdout', Results)
  BY <1>1, <1>2, TailFrames
<1>4. h.kind \in Results <=> h.kind # "ack" BY <1>3 DEF Reply, Results
<1>5. Over' = Over BY <1>1 DEF Over
<1>6. /\ marks' \in [accepted : SUBSET Nat, terminal : SUBSET Nat, interrupted : SUBSET Nat]
      /\ marks'.terminal = IF active.turn # 0 /\ h.kind # "ack"
                             THEN marks.terminal \cup {active.turn} ELSE marks.terminal
  BY <1>1, <1>2 DEF Frames
<1>7. state \in {"done", "failed"} OBVIOUS
<1>8. IF active.turn = 0 \/ h.kind = "ack" THEN UNCHANGED ledger ELSE Book(active.id, state)
  BY DEF HandleFrame
<1> HIDE DEF h, state
<1>9. active.turn # 0 => active.id \in Commands /\ ledger[active.id].turn = active.turn
  BY DEF EndedSound, ActiveAgrees, TurnsSound, FeedTypes
<1>10. \A c \in Commands :
         /\ ledger'[c].turn = ledger[c].turn
         /\ \/ ledger'[c].state = ledger[c].state
            \/ /\ c = active.id /\ active.turn # 0 /\ h.kind # "ack"
               /\ ledger'[c].state \in {"done", "failed"}
  BY <1>7, <1>8, BookKeepsTurns DEF TurnsSound
<1>11. PipeTypes' BY <1>1, <1>3, <1>6 DEF EndedSound, PipeTypes
<1>12. ActiveAgrees'
  <2>1. \A d \in Commands : ledger'[d].state # "none" => ledger'[d].turn # 0
    BY <1>9, <1>10 DEF EndedSound, ActiveAgrees
  <2>2. active.id # NoCommand => active.id \in Commands BY DEF TurnsSound, FeedTypes
  <2>3. \A t \in marks'.terminal : t <= turns BY <1>6 DEF EndedSound, ActiveAgrees
  <2> QED BY <1>1, <1>10, <2>1, <2>2, <2>3 DEF EndedSound, ActiveAgrees
<1>13. ReceiptAgrees'
  <2>1. current # NoCommand => current \in Commands BY DEF TurnsSound, FeedTypes
  <2>2. work.pc # "idle" => current \in Commands BY DEF TurnsSound, WorkSound
  <2>3. work.pc \in {"settle", "look"} => ledger'[current].state # "none"
    BY <1>10, <2>2 DEF EndedSound, ReceiptAgrees
  <2> QED BY <1>1, <1>10, <2>1, <2>2, <2>3 DEF EndedSound, ReceiptAgrees
<1>14. ASSUME OneDue, EndsTrue PROVE OneDue' /\ EndsTrue'
  <2>1. ASSUME h.kind = "ack" PROVE OneDue'
    <3>1. marks'.terminal = marks.terminal BY <1>6, <2>1
    <3> QED BY <1>1, <1>3, <1>14, <3>1 DEF OneDue, NothingDue
  <2>2. ASSUME h.kind # "ack" PROVE OneDue'
    <3>1. ~HasNone(stdout, Results) /\ ~NothingDue BY <1>3, <1>4, <2>2 DEF NothingDue
    <3>2. /\ HasNone(stdout', Results) /\ HasNone(stdin', Texts) /\ cli'.reads = <<>>
          /\ work'.pc # "send"
      BY <1>1, <1>3, <1>4, <1>14, <2>2, <3>1 DEF OneDue
    <3>3. NothingDue' BY <3>2 DEF NothingDue
    <3> QED BY <3>2, <3>3, NoneFrames DEF OneDue
  <2>3. h.kind # "ack" => active.turn \in Over
    BY <1>3, <1>4, <1>14 DEF OneDue, EndsTrue
  <2>4. marks'.terminal \subseteq Over BY <1>6, <1>14, <2>3 DEF EndsTrue
  <2>5. \A d \in Commands : ledger'[d].state = "done" => ledger'[d].turn \in Over
    BY <1>9, <1>10, <1>14, <2>3 DEF EndsTrue
  <2>6. work.pc = "settle" => current \in Commands BY DEF TurnsSound, WorkSound
  <2>7. EndsTrue' BY <1>1, <1>3, <1>5, <1>10, <1>14, <2>4, <2>5, <2>6 DEF EndsTrue
  <2> QED BY <2>1, <2>2, <2>7
<1> QED BY <1>1, <1>11, <1>12, <1>13, <1>14 DEF EndedSound

\* The helper restarts: nothing is due, and the ledger stays as it is.
LEMMA RestartEnded == ASSUME TurnsSound, EndedSound, Restart PROVE EndedSound'
<1>1. /\ current' = NoCommand /\ command' = [d \in Commands |-> "none"]
      /\ turnOf' = [d \in Commands |-> 0] /\ active' = NoTurn /\ work' = WorkIdle
      /\ marks' = NoMarks /\ stdin' = <<>> /\ stdout' = <<>> /\ cli' = CliDead
      /\ UNCHANGED <<ledger, turns, answered, stopped, overrun>>
  BY DEF Restart, QueueLost, DriverLost
<1>2. turns \in Nat BY DEF TurnsSound, FeedTypes
<1> USE <1>1 DEF NoTurn, WorkIdle, NoReceipt, NoMarks, CliDead
<1>3. PipeTypes' BY DEF PipeTypes
<1>4. ActiveAgrees' BY <1>2 DEF EndedSound, ActiveAgrees
<1>5. ReceiptAgrees' BY DEF ReceiptAgrees
<1>6. OneDue'
  <2>1. HasNone(stdin', Texts) /\ HasNone(stdout', Results) BY EmptyFrames
  <2> QED BY <2>1, NoneFrames DEF OneDue, NothingDue
<1>7. EndsTrue => EndsTrue' BY EmptyFrames DEF EndsTrue, Over
<1> QED BY <1>3, <1>4, <1>5, <1>6, <1>7 DEF EndedSound

----------------------------------------------------------------------------

IntrTyped == intr \in [Interrupters -> [pc : {"idle", "asked", "checked", "sent"},
                                        id : Commands \cup {NoCommand}, turn : Nat, user : BOOLEAN]]

LEMMA IntrStepTyped == ASSUME TurnsSound, EndedSound, IntrTyped, [Next]_vars PROVE IntrTyped'
<1>1. /\ turnOf \in [Commands -> Nat] /\ current \in Commands \cup {NoCommand}
      /\ active.id \in Commands \cup {NoCommand} /\ active.turn \in Nat
  BY DEF EndedSound, PipeTypes, TurnsSound, FeedTypes
<1>2. CASE TimesOut
  <2>1. current \in Commands
    BY <1>2 DEF TimesOut, Overdue, Unsettled, Settles, TurnsSound, WorkSound
  <2>2. turnOf[current] \in Nat BY <1>1, <2>1
  <2>3. ASSUME NEW i \in Interrupters,
               intr' = [intr EXCEPT ![i] = [pc |-> "asked", id |-> current,
                                            turn |-> turnOf[current], user |-> FALSE]]
        PROVE  IntrTyped'
    BY <2>1, <2>2, <2>3 DEF IntrTyped
  <2>4. intr' = intr => IntrTyped' BY DEF IntrTyped
  <2> QED BY <1>2, <2>3, <2>4 DEF TimesOut
<1>3. ASSUME NEW i \in Interrupters, Interrupt(i) PROVE IntrTyped'
  BY <1>1, <1>3 DEF Interrupt, IntrTyped
<1>4. ASSUME NEW i \in Interrupters, CtrlC(i) PROVE IntrTyped'
  BY <1>1, <1>4 DEF CtrlC, IntrTyped
<1>5. IntrIdle \in [pc : {"idle", "asked", "checked", "sent"},
                    id : Commands \cup {NoCommand}, turn : Nat, user : BOOLEAN]
  BY DEF IntrIdle
<1>6. ASSUME NEW i \in Interrupters, Checks(i) PROVE IntrTyped'
  BY <1>5, <1>6 DEF Checks, IntrTyped
<1>7. ASSUME NEW i \in Interrupters, Signals(i) \/ Confirms(i) \/ GivesUp(i) PROVE IntrTyped'
  BY <1>5, <1>7 DEF Signals, Confirms, GivesUp, IntrTyped
<1>8. CASE Restart BY <1>5, <1>8 DEF Restart, IntrTyped
<1>9. CASE \/ ViewStep /\ UNCHANGED <<queueVars, driverVars, workVars, sumVars>>
           \/ (\E d \in Deliveries : Offer(d)) \/ LineRead
           \/ Worker \/ WaitEnds \/ NotAccepted \/ PollStalls \/ StartFails
           \/ HandleFrame /\ UNCHANGED <<viewVars, queueVars, workVars, sumVars>>
           \/ Cli /\ UNCHANGED <<viewVars, queueVars, workVars, sumVars>>
           \/ Dies \/ UNCHANGED vars
  <2>1. UNCHANGED intr
    BY <1>9 DEF workVars, vars, Offer, LineRead, Worker, WorkerStart, Deliver, TurnBegins, Send,
                Accepted, Admitted, Ends, PollEarly, PollLate, WaitEnds, NotAccepted, PollStalls,
                StartFails, Dies
  <2> QED BY <2>1 DEF IntrTyped
<1> QED BY <1>2, <1>3, <1>4, <1>6, <1>7, <1>8, <1>9 DEF Next, TimerEnds, InterruptStep

LEMMA EndedStepSound == ASSUME TurnsSound, EndedSound, IntrTyped, [Next]_vars PROVE EndedSound'
<1>1. ASSUME NEW d \in Deliveries, Offer(d) PROVE EndedSound'
  BY <1>1, TurnsAssumption, EnqueueEnded DEF Offer, workVars
<1>2. CASE LineRead
  <2>1. UNCHANGED driverVars /\ UNCHANGED work BY <1>2 DEF LineRead, workVars
  <2>2. ASSUME NEW d \in LineIds, Enqueue(d) PROVE EndedSound'
    BY <2>1, <2>2, TurnsAssumption, EnqueueEnded
  <2>3. UNCHANGED queueVars => EndedSound'
    BY <2>1, EndedKept DEF endVars, queueVars, driverVars
  <2> QED BY <1>2, <2>2, <2>3 DEF LineRead
<1>3. CASE Worker
  <2>1. CASE TurnBegins BY <2>1, BeginEnded DEF TurnBegins
  <2> QED BY <1>3, <2>1, WorkerStartEnded, DeliverEnded, SendEnded, AckEnded, AdmittedEnded,
             EndEnded, PollEnded DEF Worker
<1>4. CASE TimerEnds \/ StartFails
  <2>1. CASE WaitEnds BY <2>1, BeginEnded DEF WaitEnds
  <2> QED BY <1>4, <2>1, AckEnded, PollEnded, EndEnded DEF TimerEnds
<1>5. CASE HandleFrame /\ UNCHANGED <<viewVars, queueVars, workVars, sumVars>>
  BY <1>5, HandleFrameEnded DEF workVars
<1>6. CASE Cli /\ UNCHANGED <<viewVars, queueVars, workVars, sumVars>>
  BY <1>6, CliEnded DEF workVars
<1>7. CASE Dies BY <1>7, CliDiesEnded, CliSticksEnded DEF Dies, workVars
<1>8. CASE Restart BY <1>8, RestartEnded
<1>9. ASSUME NEW i \in Interrupters, Signals(i) PROVE EndedSound'
  <2>1. intr[i].turn \in Nat BY DEF IntrTyped
  <2> QED BY <1>9, <2>1, SignalEnded DEF Signals
<1>10. CASE \/ ViewStep /\ UNCHANGED <<queueVars, driverVars, workVars, sumVars>>
            \/ \E i \in Interrupters : InterruptStep(i) /\ ~Signals(i)
            \/ UNCHANGED vars
  <2>1. UNCHANGED endVars
    BY <1>10 DEF endVars, queueVars, driverVars, workVars, vars, InterruptStep, Interrupt, CtrlC,
                 Checks, Confirms, GivesUp
  <2> QED BY <2>1, EndedKept
<1> QED BY <1>1, <1>2, <1>3, <1>4, <1>5, <1>6, <1>7, <1>8, <1>9, <1>10 DEF Next

\* Without an overrun, a command that is said to be completed has had its own
\* turn ended by the process (_handle_frame, poll_receipt, _settle_command).
THEOREM CompletedAlwaysEnded == Spec => []CompletedHasEnded
<1>1. Init => TurnsSound /\ EndedSound /\ IntrTyped
  BY TurnsSoundInit, EndedInit DEF Init, IntrTyped, IntrIdle
<1>2. TurnsSound /\ EndedSound /\ IntrTyped /\ [Next]_vars
        => (TurnsSound /\ EndedSound /\ IntrTyped)'
  BY TurnStepSound, EndedStepSound, IntrStepTyped
<1>3. EndedSound => CompletedHasEnded
  BY DEF EndedSound, EndsTrue, Over, CompletedHasEnded
<1> QED BY <1>1, <1>2, <1>3, PTL DEF Spec
=============================================================================
