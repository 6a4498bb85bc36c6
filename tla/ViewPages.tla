------------------------------ MODULE ViewPages ------------------------------
(***************************************************************************)
(* Pages of the view service that are unlocked one by one, and what is     *)
(* entered on them: view-service/view_page_store.py and view_service.py,   *)
(* and their two interfaces with the hub, internal/m8/view_unlock_v2.go    *)
(* and view_input_v2.go.  The pages are on the disk of the view service;   *)
(* the requests the hub has seen are in its memory.  An entry passes three *)
(* places, the page store, the table of requests and the connection of the *)
(* session, one after the other.                                           *)
(***************************************************************************)
EXTENDS Naturals, Sequences, FiniteSets

CONSTANTS
  Pages, NoPage, NoRequest,
  Requests,   \* request_id of an entry; it is repeated when an answer is lost
  Calls,      \* POST /input, one after the other or at one time
  Orders,     \* MessageID of an #unlock message
  Bounds      \* bounds: each behaviour has one of them, and the requests whose text is blank

ASSUME PagesAssumption ==
  /\ NoPage \notin Pages /\ NoRequest \notin Requests /\ IsFiniteSet(Calls)
  /\ \A b \in Bounds : b.blank \subseteq Requests /\ {b.tries, b.forgets, b.hubRestarts} \subseteq Nat

VARIABLES
  bound,     \* how much of everything may happen
  page,      \* state of each page, and whether it is marked as disconnected
  order,     \* view_control_commands: stamp and status of each unlock
  try,       \* UnlockViewPage: the page, the last stamp, what the member is told
  asks,      \* commands on their way to the view service
  opened,    \* pages that were ever unlocked
  call,      \* each POST /input: where it is, its page, request and status
  reply,     \* viewV2Requests: page and status of each request
  handed,    \* how often each request was written to the session
  told,      \* requests whose page was told that they arrived
  forgotten, \* how often the hub has forgotten a request
  line,      \* requests on their way to the helper
  hubStops   \* restarts of the hub

pageVars  == <<page, order, try, asks, opened>>
inputVars == <<call, reply, handed, told, forgotten, line>>
viewVars  == <<bound, pageVars, inputVars, hubStops>>

PageState == {"none", "locked", "unlocked", "expired", "revoked"}
NoOrder == [stamp |-> 0, status |-> "none"]
NoReply == [page |-> NoPage, status |-> "none"]
NewCall == [pc |-> "new", page |-> NoPage, req |-> NoRequest, status |-> "none"]

Said == {"none", "ok", "missing", "conflict"}
Places == {"new", "entered", "reserved", "routed", "replied", "ended"}

ViewTypeOK ==
  /\ page \in [Pages -> [state : PageState, away : BOOLEAN]]
  /\ order \in [Orders -> [stamp : Nat, status : Said]]
  /\ try \in [Orders -> [page : Pages \cup {NoPage}, stamp : Nat, status : Said \cup {"asked", "failed"}]]
  /\ asks \subseteq [order : Orders, page : Pages, stamp : Nat] /\ opened \subseteq Pages
  /\ call \in [Calls -> [pc : Places, page : Pages \cup {NoPage}, req : Requests \cup {NoRequest},
                         status : Said]]
  /\ reply \in [Requests -> [page : Pages \cup {NoPage}, status : Said \cup {"reserved"}]]
  /\ {handed, forgotten} \subseteq [Requests -> Nat] /\ told \subseteq Requests
  /\ line \in Seq(Requests) /\ hubStops \in Nat

ViewInit ==
  /\ bound \in Bounds
  /\ page = [p \in Pages |-> [state |-> "none", away |-> FALSE]]
  /\ order = [m \in Orders |-> NoOrder]
  /\ try = [m \in Orders |-> [page |-> NoPage, stamp |-> 0, status |-> "none"]]
  /\ asks = {} /\ opened = {}
  /\ call = [c \in Calls |-> NewCall]
  /\ reply = [r \in Requests |-> NoReply] /\ handed = [r \in Requests |-> 0]
  /\ told = {} /\ forgotten = [r \in Requests |-> 0]
  /\ line = <<>> /\ hubStops = 0

----------------------------------------------------------------------------
\* The page store.

CreatePage(p) ==
  /\ page[p].state = "none" /\ bound.tries > 0
  /\ page' = [page EXCEPT ![p].state = "locked"]
  /\ UNCHANGED <<bound, order, try, asks, opened, inputVars, hubStops>>

\* resume_page
Resume(p) ==
  /\ page[p].state # "none"
  /\ page' = [page EXCEPT ![p].away = FALSE]
  /\ UNCHANGED <<bound, order, try, asks, opened, inputVars, hubStops>>

\* mark_disconnected
Disconnect(p) ==
  /\ page[p].state # "none"
  /\ page' = [page EXCEPT ![p].away = TRUE]
  /\ UNCHANGED <<bound, order, try, asks, opened, inputVars, hubStops>>

\* sweep: locked pages and disconnected ones whose time is over, and grants
\* whose time is over.
Sweep(gone, over) ==
  /\ page' = [p \in Pages |->
       IF page[p].state = "locked" /\ p \in gone THEN [page[p] EXCEPT !.state = "expired"]
       ELSE IF page[p].state # "unlocked" THEN page[p]
       ELSE IF page[p].away /\ p \in gone THEN [page[p] EXCEPT !.state = "revoked"]
       ELSE IF p \in over THEN [page[p] EXCEPT !.state = "expired"] ELSE page[p]]
  /\ UNCHANGED <<bound, order, try, asks, opened, inputVars, hubStops>>

----------------------------------------------------------------------------
\* #unlock.  The payload of a command names the time at which it was made, so
\* that each attempt has a stamp of its own.

\* UnlockViewPage, for a message that is handled, perhaps once more.
AskUnlock(m, p) ==
  /\ try[m].stamp < bound.tries /\ (try[m].page \in {p, NoPage})
  /\ try' = [try EXCEPT ![m] = [page |-> p, stamp |-> @.stamp + 1, status |-> "asked"]]
  /\ asks' = asks \cup {[order |-> m, page |-> p, stamp |-> try[m].stamp + 1]}
  /\ UNCHANGED <<bound, page, order, opened, inputVars, hubStops>>

\* unlock: the status of a new command is kept and answered; a known one is
\* answered from the table, if its payload is the same.
NewStatus(p) == IF page[p].state = "none" THEN "missing"
                ELSE IF page[p].state \in {"locked", "unlocked"} THEN "ok" ELSE "conflict"

OldStatus(a) == IF order[a.order].stamp = a.stamp THEN order[a.order].status ELSE "conflict"

Answers(a, status) ==
  try' = [try EXCEPT ![a.order].status = IF @ = "asked" /\ try[a.order].stamp = a.stamp
                                           THEN status ELSE @]

Unlock(a) ==
  /\ order[a.order].status = "none"
  /\ order' = [order EXCEPT ![a.order] = [stamp |-> a.stamp, status |-> NewStatus(a.page)]]
  /\ page' = [page EXCEPT ![a.page] = IF @.state = "locked"
                                        THEN [state |-> "unlocked", away |-> FALSE] ELSE @]
  /\ opened' = IF page[a.page].state = "locked" THEN opened \cup {a.page} ELSE opened
  /\ Answers(a, NewStatus(a.page)) /\ asks' = asks \ {a}
  /\ UNCHANGED <<bound, inputVars, hubStops>>

UnlockKnown(a) ==
  /\ order[a.order].status # "none"
  /\ Answers(a, OldStatus(a)) /\ asks' = asks \ {a}
  /\ UNCHANGED <<bound, page, order, opened, inputVars, hubStops>>

\* The request is lost, or has no answer in three seconds.
AskFailed(m) ==
  /\ try[m].status = "asked"
  /\ try' = [try EXCEPT ![m].status = "failed"]
  /\ asks' \in {asks, {a \in asks : a.order # m}}
  /\ UNCHANGED <<bound, page, order, opened, inputVars, hubStops>>

----------------------------------------------------------------------------
\* POST /input

\* authorize_page: the grant of a page whose time is over ends here.
Authorize(c, p, r) ==
  /\ call[c].pc = "new" /\ page[p].state = "unlocked"
  /\ call' = [call EXCEPT ![c] = [pc |-> "entered", page |-> p, req |-> r, status |-> "none"]]
  /\ page' = [page EXCEPT ![p].away = FALSE]
  /\ UNCHANGED <<bound, order, try, asks, opened, reply, handed, told, forgotten, line, hubStops>>

Refuse(c, p) ==
  /\ call[c].pc = "new" /\ page[p].state # "none"
  /\ call' = [call EXCEPT ![c].pc = "ended"]
  /\ page' = [page EXCEPT ![p].state = IF @ = "unlocked" THEN "expired" ELSE @]
  /\ UNCHANGED <<bound, order, try, asks, opened, reply, handed, told, forgotten, line, hubStops>>

\* reserveViewV2Request
Reserved(c, status) == [page |-> call[c].page, status |-> status]

\* Mutant: a request is known only when it has its answer.
ReserveUnrecorded(c) ==
  /\ call[c].pc = "entered" /\ reply[call[c].req] = NoReply
  /\ call' = [call EXCEPT ![c].pc = "reserved"]
  /\ UNCHANGED <<bound, pageVars, reply, handed, told, forgotten, line, hubStops>>

Reserve(c) ==
  /\ call[c].pc = "entered" /\ reply[call[c].req] = NoReply
  /\ reply' = [reply EXCEPT ![call[c].req] = Reserved(c, "reserved")]
  /\ call' = [call EXCEPT ![c].pc = "reserved"]
  /\ UNCHANGED <<bound, pageVars, handed, told, forgotten, line, hubStops>>

\* Mutant: a request that is known was a success.
KnownOk(c, r) == IF r = Reserved(c, r.status) THEN "ok" ELSE "conflict"

\* A request that is known, of the same page: its status, and a conflict while
\* it has none.
KnownStatus(c, r) == IF r = Reserved(c, r.status) /\ r.status # "reserved"
                       THEN r.status ELSE "conflict"

Duplicate(c) ==
  /\ call[c].pc = "entered" /\ reply[call[c].req] # NoReply
  /\ call' = [call EXCEPT ![c].pc = "replied", ![c].status = KnownStatus(c, reply[call[c].req])]
  /\ UNCHANGED <<bound, pageVars, reply, handed, told, forgotten, line, hubStops>>

\* routeViewServiceInput; the session is offline or the write fails.
Route(c) ==
  /\ call[c].pc = "reserved"
  /\ line' = Append(line, call[c].req)
  /\ handed' = [handed EXCEPT ![call[c].req] = @ + 1]
  /\ call' = [call EXCEPT ![c].pc = "routed", ![c].status = "ok"]
  /\ UNCHANGED <<bound, pageVars, reply, told, forgotten, hubStops>>

RouteFails(c) ==
  /\ call[c].pc = "reserved"
  /\ call' = [call EXCEPT ![c].pc = "routed", ![c].status = "missing"]
  /\ UNCHANGED <<bound, pageVars, reply, handed, told, forgotten, line, hubStops>>

\* completeViewV2Request
Complete(c) ==
  /\ call[c].pc = "routed"
  /\ reply' = [reply EXCEPT ![call[c].req] = Reserved(c, call[c].status)]
  /\ call' = [call EXCEPT ![c].pc = "replied"]
  /\ UNCHANGED <<bound, pageVars, handed, told, forgotten, line, hubStops>>

\* The view service tells the page what the hub has said; if it was a success,
\* record_successful_write prolongs the grant of a page that still has one.
Tell(c) ==
  /\ call[c].pc = "replied"
  /\ told' = IF call[c].status = "ok" THEN told \cup {call[c].req} ELSE told
  /\ call' = [call EXCEPT ![c].pc = "ended"]
  /\ UNCHANGED <<bound, pageVars, reply, handed, forgotten, line, hubStops>>

\* Its answer is lost, or the view service has not waited for it: the page is
\* told nothing, and enters the text again.
AnswerLost(c) ==
  /\ call[c].pc = "replied"
  /\ call' = [call EXCEPT ![c].pc = "ended"]
  /\ UNCHANGED <<bound, pageVars, reply, handed, told, forgotten, line, hubStops>>

----------------------------------------------------------------------------
\* An entry of the table is swept after five minutes, or dropped when it is full.
Forget(r) ==
  /\ reply[r] # NoReply /\ forgotten[r] < bound.forgets
  /\ reply' = [reply EXCEPT ![r] = NoReply]
  /\ forgotten' = [forgotten EXCEPT ![r] = @ + 1]
  /\ UNCHANGED <<bound, pageVars, call, handed, told, line, hubStops>>

\* The hub restarts: its table is empty, and what it was doing has no answer.
InHub == {"entered", "reserved", "routed"}

HubRestart ==
  /\ hubStops < bound.hubRestarts
  /\ hubStops' = hubStops + 1
  /\ reply' = [r \in Requests |-> NoReply]
  /\ forgotten' = [r \in Requests |-> forgotten[r] + (IF reply[r] = NoReply THEN 0 ELSE 1)]
  /\ call' = [c \in Calls |-> IF call[c].pc \in InHub THEN [call[c] EXCEPT !.pc = "ended"]
                              ELSE call[c]]
  /\ try' = [m \in Orders |-> IF try[m].status = "asked" THEN [try[m] EXCEPT !.status = "failed"]
                              ELSE try[m]]
  /\ UNCHANGED <<bound, page, order, asks, opened, handed, told, line>>

\* The connection of the session is lost with what is on it.
LineLost ==
  /\ line # <<>> /\ line' = <<>>
  /\ UNCHANGED <<bound, pageVars, call, reply, handed, told, forgotten, hubStops>>

ViewStep ==
  \/ \E p \in Pages : CreatePage(p) \/ Resume(p) \/ Disconnect(p)
  \/ \E gone, over \in SUBSET Pages : Sweep(gone, over)
  \/ \E m \in Orders : (\E p \in Pages : AskUnlock(m, p)) \/ AskFailed(m)
  \/ \E a \in asks : Unlock(a) \/ UnlockKnown(a)
  \/ \E c \in Calls : \/ \E p \in Pages : Refuse(c, p) \/ \E r \in Requests : Authorize(c, p, r)
                      \/ Reserve(c) \/ Duplicate(c) \/ Route(c) \/ RouteFails(c) \/ Complete(c)
                      \/ Tell(c) \/ AnswerLost(c)
  \/ \E r \in Requests : Forget(r)
  \/ HubRestart \/ LineLost

----------------------------------------------------------------------------

\* An entry is written to its session once, however often and however closely
\* its request is repeated (reserveViewV2Request), except that the hub may have
\* forgotten it, after five minutes or a restart.
HandedOnce == \A r \in Requests : handed[r] <= 1 + forgotten[r]

\* Nobody is told of a success that was not one: an entry that the page is told
\* of has reached the connection of its session, an unlock that the member is
\* told of has unlocked that page, also when the answer comes from a table.
HonestAnswers ==
  /\ \A r \in told : handed[r] > 0
  /\ \A m \in Orders : try[m].status = "ok" => try[m].page \in opened

\* An unlock that the member is told has failed on a page that has ended has not
\* been carried out (docs/view-service-page-unlock-architecture-spec.md:220).
RetriedUnlockAgrees ==
  \A m \in Orders : try[m].status = "conflict" => order[m].status = "conflict"
=============================================================================
