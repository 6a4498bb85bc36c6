-------------------------- MODULE SessionDelivery --------------------------
(***************************************************************************)
(* Reliable delivery of Feishu messages to one AI session.                 *)
(*                                                                         *)
(* The hub (internal/m8/hub.go) records each message in session_delivery   *)
(* and pushes one row at a time over the session's WebSocket; the helper   *)
(* (tools/sessionhelper/sessionhelper/app.py) stores it in its inbox,      *)
(* injects it into the CLI and answers with delivery_ack frames.  Modelled *)
(* together: the worker that routes inbound messages, the drains of the    *)
(* hub and the timers that start them, connections that break on either    *)
(* side and are replaced, the delivery loops the helper leaves behind on   *)
(* every reconnect, and restarts of both processes.                        *)
(*                                                                         *)
(* Atomicity: the claim of a drain and its write are one step, and so are  *)
(* an inbox update of a delivery loop and the ack that follows it; what a  *)
(* crash between the two would leave behind is what losing the frame of    *)
(* the second leaves behind.                                               *)
(***************************************************************************)
EXTENDS Naturals, Sequences, FiniteSets, DeliveryTable, DeliveryInbox

CONSTANTS
  MaxConn,         \* bound: connections the helper ever makes
  LinkCap,         \* frames a connection buffers in one direction
  BusyDelay,       \* ticks until a deferred delivery is tried again (15s)
  RetryDelay,      \* ... a failed one (2s)
  WriteErrorDelay, \* ... one whose frame could not be written (5s)
  DeliveredDelay,  \* ... one that is in the inbox, not yet processed (2m)
  MaxInject,       \* bound: injections of one delivery
  MaxRestart,      \* bound: restarts of the helper
  MaxHubRestart,   \* bound: restarts of the hub
  Ageing,          \* whether deliveries may become 30 minutes old
  CliFaults,       \* whether the CLI may be busy, not ready or refuse an injection
  Replies,         \* whether the helper waits for the CLI's answer and sends it
                   \* itself: the default, off with SH_ASYNC_REPLY=1
  CleanClose,      \* whether the helper may see the hub's close frame
  StableFrom       \* connections numbered from here on never break

Conns  == 1..MaxConn
NoConn == 0

ASSUME DeliveryAssumption ==
  /\ MaxConn \in Nat /\ LinkCap \in Nat \ {0}
  /\ {BusyDelay, RetryDelay, WriteErrorDelay, DeliveredDelay} \subseteq Nat \ {0}
  /\ {MaxInject, MaxRestart, MaxHubRestart} \subseteq Nat
  /\ {Ageing, CliFaults, Replies, CleanClose} \subseteq BOOLEAN /\ StableFrom \in Nat

VARIABLES
  \* hub, durable
  dlv,          \* the session_delivery table
  created,      \* deliveries made so far
  \* hub, in memory
  worker,       \* the inbound worker: idle, routed (not yet acked) or redo
  conn,         \* hub's end of each connection: new, open or gone
  current,      \* the registered connection, sessionClients[key][session]
  cap,          \* connections that announced delivery_ack_v1
  timers,       \* for each connection the ticks left of the drains armed on it
  \* network
  down, up,     \* frames on their way to the helper, to the hub
  \* helper, in memory
  peer,         \* the connection the helper uses
  ended,        \* its recv_loop has ended without an error
  recvAck,      \* ack recv_loop has computed and not yet sent
  loop,         \* delivery_worker_loop of each connection: [pc, id]
  busyAcked,    \* deliveries already reported busy, delivery_busy_acked
  \* history
  injected,     \* how often the text of each delivery was typed into the CLI
  doubts,       \* ... and that was not taken for the end of it: no turn of the
                \* user appeared, or the helper's turn ended in an exception
  answered,     \* deliveries whose sender the helper has answered
  disturbed,    \* deliveries a push of which failed, was lost or refused
  restarts, hubRestarts

hubVars    == <<dlv, created, worker, cap, timers>>
linkVars   == <<conn, current, down, up, peer, ended>>
helperVars == <<inbox, arrival, recvAck, loop, busyAcked, injected, doubts, answered>>
crashVars  == <<restarts, hubRestarts>>
vars == <<hubVars, linkVars, helperVars, disturbed, crashVars>>

AckKind == {"delivered", "processed", "failed", "busy"}
Ack   == [kind : AckKind, id : Ids]
Cap   == [kind |-> "cap", id |-> NoId]
NoAck == [kind |-> "none", id |-> NoId]
AckOf(kind, d) == [kind |-> kind, id |-> d]

LoopAt(pc) == [pc |-> pc, id |-> NoId]

TypeOK ==
  /\ dlv \in [Ids -> Row] /\ created \in 0..MaxMsg
  /\ worker \in {"idle", "routed", "redo"}
  /\ conn \in [Conns -> {"new", "open", "gone"}]
  /\ current \in Conns \union {NoConn} /\ peer \in Conns \union {NoConn}
  /\ cap \subseteq Conns /\ timers \in [Conns -> SUBSET Nat]
  /\ down \in [Conns -> Seq(Ids)] /\ up \in [Conns -> Seq(Ack \union {Cap})]
  /\ InboxTypeOK /\ recvAck \in Ack \union {NoAck}
  /\ loop \in [Conns -> [pc : {"off", "poll", "got", "reply", "sorry", "raised",
                                "done", "dead"},
                         id : Ids \union {NoId}]]
  /\ injected \in [Ids -> Nat] /\ doubts \in [Ids -> Nat]
  /\ answered \subseteq Ids /\ disturbed \subseteq Ids
  /\ ended \in BOOLEAN /\ busyAcked \subseteq Ids
  /\ restarts \in 0..MaxRestart /\ hubRestarts \in 0..MaxHubRestart

Init ==
  /\ dlv = [d \in Ids |-> NoRow] /\ created = 0 /\ worker = "idle"
  /\ conn = [c \in Conns |-> "new"] /\ current = NoConn /\ peer = NoConn
  /\ cap = {} /\ timers = [c \in Conns |-> {}]
  /\ down = [c \in Conns |-> <<>>] /\ up = [c \in Conns |-> <<>>]
  /\ InboxInit /\ recvAck = NoAck /\ loop = [c \in Conns |-> LoopAt("off")]
  /\ injected = [d \in Ids |-> 0] /\ doubts = [d \in Ids |-> 0] /\ answered = {}
  /\ disturbed = {} /\ ended = FALSE /\ busyAcked = {} /\ restarts = 0 /\ hubRestarts = 0

Elems(s) == {s[i] : i \in DOMAIN s}
Armed(c, n) == [timers EXCEPT ![c] = @ \union {n}]

-----------------------------------------------------------------------------
(* Hub: routing and draining *)

\* drainSessionDeliveries on connection c, with table t and timers tm so far:
\* claim one delivery and write it.  The write succeeds while the hub believes
\* the connection open, whether or not the helper is still there, and arms the
\* next drain for the end of the lease; on a write error the delivery goes back
\* to the queue and no drain is armed.  With nothing to claim none is either.
Drain(c, t, tm) ==
  \/ /\ c \notin cap \/ Candidates(t) = {}
     /\ dlv' = t /\ timers' = tm
     /\ UNCHANGED <<down, disturbed>>
  \/ \E d \in Candidates(t) :
       /\ c \in cap /\ conn[c] = "open"
       /\ dlv' = Claimed(t, d)
       /\ timers' = [tm EXCEPT ![c] = @ \union {Lease(t[d].attempts)}]
       /\ \/ /\ peer = c /\ Len(down[c]) < LinkCap
             /\ down' = [down EXCEPT ![c] = Append(@, d)]
             /\ UNCHANGED disturbed
          \/ /\ peer # c
             /\ disturbed' = disturbed \union {d}
             /\ UNCHANGED down
  \/ \E d \in Candidates(t) :
       /\ c \in cap /\ conn[c] # "open"
       /\ dlv' = Updated(Claimed(t, d), d, "queued", WriteErrorDelay)
       /\ timers' = tm
       /\ disturbed' = disturbed \union {d}
       /\ UNCHANGED down

\* routeToSession for a message that is routed for the first time.  When the
\* session is offline the worker answers the sender and makes no delivery.
Route ==
  /\ worker = "idle" /\ created < MaxMsg
  /\ current \in cap
  /\ created' = created + 1
  /\ Drain(current, Inserted(dlv, created + 1), timers)
  /\ worker' = "routed"
  /\ UNCHANGED <<cap, conn, current, up, peer, ended, helperVars, crashVars>>

\* Processor.ProcessOne acknowledges the inbound message.
WorkerAck ==
  /\ worker = "routed"
  /\ worker' = "idle"
  /\ UNCHANGED <<dlv, created, cap, timers, linkVars, helperVars, disturbed, crashVars>>

\* After a restart RecoverProcessing hands the worker the unacknowledged
\* message again: it is drained, or pushed on the direct path (not modelled)
\* when the session has not announced the capability, or the sender is
\* told that the session is offline.
Redo ==
  /\ worker = "redo"
  /\ \/ /\ current \in cap
        /\ Drain(current, Inserted(dlv, created), timers)
        /\ worker' = "routed"
     \/ /\ current \notin cap
        /\ worker' = "idle"
        /\ UNCHANGED <<dlv, timers, down, disturbed>>
  /\ UNCHANGED <<created, cap, conn, current, up, peer, ended, helperVars, crashVars>>

\* A drain armed by scheduleSessionDeliveryDrain (or started with go).  The
\* timer belongs to the connection, alive or not.
TimerFires(c) ==
  /\ 0 \in timers[c]
  /\ Drain(c, dlv, [timers EXCEPT ![c] = @ \ {0}])
  /\ UNCHANGED <<created, worker, cap, conn, current, up, peer, ended, helperVars,
                 crashVars>>

-----------------------------------------------------------------------------
(* Hub: frames of the helper *)

NextFrame(c) == conn[c] = "open" /\ up[c] # <<>>

HandleCapability(c) ==
  /\ NextFrame(c) /\ Head(up[c]) = Cap
  /\ up' = [up EXCEPT ![c] = Tail(@)]
  /\ cap' = cap \union {c}
  /\ timers' = Armed(c, 0)
  /\ UNCHANGED <<dlv, created, worker, conn, current, down, peer, ended,
                 helperVars, disturbed, crashVars>>

\* handleSessionDeliveryAck: the table after ack a, and the delay of the drain
\* it arms.  Nothing happens for a dead delivery.
AfterAck(a) ==
  CASE a.kind = "processed" -> Updated(dlv, a.id, "processed", 0)
    [] a.kind = "busy"      -> Deferred(dlv, a.id, BusyDelay)
    [] a.kind = "failed"    -> Updated(dlv, a.id, "queued", RetryDelay)
    [] a.kind = "delivered" -> Updated(dlv, a.id, "delivered", DeliveredDelay)

\* Mutant: the drain after a busy or failed ack comes at once.
DrainTooEarly(kind) == IF kind = "delivered" THEN DeliveredDelay ELSE 0

DrainDelay(kind) ==
  CASE kind = "processed" -> 0
    [] kind = "busy"      -> BusyDelay
    [] kind = "failed"    -> RetryDelay
    [] kind = "delivered" -> DeliveredDelay

HandleDeliveryAck(c) ==
  LET a == Head(up[c])
      ignored == \/ dlv[a.id].state = "dead"
                 \/ a.kind = "delivered" /\ dlv[a.id].state = "processed"
  IN  /\ NextFrame(c) /\ a # Cap
      /\ up' = [up EXCEPT ![c] = Tail(@)]
      /\ IF ignored
         THEN UNCHANGED <<dlv, timers, worker>>
         ELSE /\ dlv' = AfterAck(a)
              /\ timers' = Armed(c, DrainDelay(a.kind))
              /\ worker' = IF a.kind = "processed" /\ a.id = created THEN "idle" ELSE worker
      /\ UNCHANGED <<created, cap, conn, current, down, peer, ended, helperVars,
                     disturbed, crashVars>>

-----------------------------------------------------------------------------
(* Connections and time *)

\* A connection is used once; the helper opens one when it has none, announces
\* the capability and starts a delivery loop.  The hub registers it and closes
\* the connection it replaces.
Connect(c) ==
  /\ peer = NoConn /\ conn[c] = "new" /\ \A b \in Conns : b < c => conn[b] # "new"
  /\ conn' = [b \in Conns |-> IF b = c THEN "open" ELSE IF b = current THEN "gone" ELSE conn[b]]
  /\ current' = c /\ peer' = c
  /\ up' = [b \in Conns |-> IF b = c THEN <<Cap>> ELSE IF b = current THEN <<>> ELSE up[b]]
  /\ loop' = [loop EXCEPT ![c] = LoopAt("poll")]
  /\ UNCHANGED <<hubVars, down, ended, inboxVars, recvAck, busyAcked, injected, doubts, answered,
                 disturbed, crashVars>>

\* What a break of the helper's end leaves of connection peer: frames not yet
\* received are lost, and so may be the last ones the helper sent.
PeerCut ==
  /\ \E n \in 0..Len(up[peer]) : up' = [up EXCEPT ![peer] = SubSeq(@, 1, n)]
  /\ down' = [down EXCEPT ![peer] = <<>>]
  /\ disturbed' = disturbed \union Elems(down[peer])

\* _run_once raises: the helper's end breaks, or it finds the hub's end gone.
\* Its delivery loop lives on: asyncio.gather does not cancel the other
\* coroutines when one of them raises.
HelperLoses ==
  /\ peer # NoConn /\ (peer < StableFrom \/ conn[peer] # "open")
  /\ peer' = NoConn /\ ended' = FALSE /\ recvAck' = NoAck
  /\ PeerCut
  /\ UNCHANGED <<hubVars, conn, current, inboxVars, loop, busyAcked, injected, doubts, answered,
                 crashVars>>

\* The helper reads the hub's close frame ("idle timeout", "keepalive failed"
\* or "bye", all with a code the library takes for a normal end): recv_loop
\* returns, and gather goes on waiting for the other coroutines.
HelperEnds ==
  /\ CleanClose /\ peer # NoConn /\ conn[peer] = "gone" /\ ~ended
  /\ down[peer] = <<>> /\ recvAck = NoAck
  /\ ended' = TRUE
  /\ UNCHANGED <<hubVars, conn, current, down, up, peer, helperVars, disturbed, crashVars>>

\* The hub's read loop ends (read error, idle timeout or failed keepalive) and
\* its deferred cleanup unregisters the connection if it is still the current.
\* Of the frames on their way the last ones may be lost.
HubLoses(c) ==
  /\ conn[c] = "open" /\ (c < StableFrom \/ peer # c)
  /\ conn' = [conn EXCEPT ![c] = "gone"]
  /\ current' = IF current = c THEN NoConn ELSE current
  /\ up' = [up EXCEPT ![c] = <<>>]
  /\ \E n \in 0..Len(down[c]) :
       /\ down' = [down EXCEPT ![c] = SubSeq(@, 1, n)]
       /\ disturbed' = disturbed \union {down[c][i] : i \in (n+1)..Len(down[c])}
  /\ UNCHANGED <<hubVars, peer, ended, helperVars, crashVars>>

\* The helper process restarts; only its inbox survives.
HelperRestart ==
  /\ restarts < MaxRestart /\ restarts' = restarts + 1
  /\ Recover
  /\ peer' = NoConn /\ ended' = FALSE /\ recvAck' = NoAck
  /\ loop' = [c \in Conns |-> LoopAt("off")] /\ busyAcked' = {}
  /\ IF peer = NoConn THEN UNCHANGED <<down, up, disturbed>> ELSE PeerCut
  /\ UNCHANGED <<hubVars, conn, current, injected, doubts, answered, hubRestarts>>

\* The hub restarts: connections, timers and drains are gone, the tables stay.
HubRestart ==
  /\ hubRestarts < MaxHubRestart /\ hubRestarts' = hubRestarts + 1
  /\ worker' = IF worker = "idle" THEN "idle" ELSE "redo"
  /\ conn' = [c \in Conns |-> IF conn[c] = "open" THEN "gone" ELSE conn[c]]
  /\ current' = NoConn /\ cap' = {}
  /\ timers' = [c \in Conns |-> {}]
  /\ up' = [c \in Conns |-> <<>>] /\ down' = [c \in Conns |-> <<>>]
  /\ disturbed' = disturbed \union UNION {Elems(down[c]) : c \in Conns}
  /\ UNCHANGED <<dlv, created, peer, ended, helperVars, restarts>>

\* One tick of the clock, taken only when some deadline is ahead.
Tick ==
  /\ \/ \E d \in Ids : dlv[d].wait > 0
     \/ \E c \in Conns : \E n \in timers[c] : n > 0
  /\ dlv' = Ticked(dlv)
  /\ timers' = [c \in Conns |-> {Dec(n) : n \in timers[c]}]
  /\ UNCHANGED <<created, worker, cap, linkVars, helperVars, disturbed, crashVars>>

\* A delivery that has not ended becomes 30 minutes old.
Age(d) ==
  /\ Ageing /\ dlv[d].state \in Open /\ ~dlv[d].old
  /\ dlv' = [dlv EXCEPT ![d].old = TRUE]
  /\ UNCHANGED <<created, worker, cap, timers, linkVars, helperVars, disturbed,
                 crashVars>>

-----------------------------------------------------------------------------
(* Helper *)

\* recv_loop hands a delivery frame to accept_delivery, which stores it and
\* computes the ack; it sends the ack in a later step.
Receive ==
  /\ peer # NoConn /\ down[peer] # <<>> /\ recvAck = NoAck
  /\ LET d == Head(down[peer])
     IN  \/ /\ AcceptNew(d)
            /\ recvAck' = AckOf("delivered", d) /\ UNCHANGED disturbed
         \/ /\ AcceptFull(d)
            /\ recvAck' = AckOf("failed", d) /\ disturbed' = disturbed \union {d}
         \/ /\ \E retryFailed \in BOOLEAN : AcceptAgain(d, retryFailed)
            /\ recvAck' = AckOf(AckState(inbox'[d]), d) /\ UNCHANGED disturbed
  /\ down' = [down EXCEPT ![peer] = Tail(@)]
  /\ UNCHANGED <<hubVars, conn, current, up, peer, ended, loop, busyAcked, injected, doubts,
                 answered, crashVars>>

\* The helper writes a frame; nobody reads it when the hub's end is gone.
Write(c, frame) ==
  /\ Len(up[c]) < LinkCap
  /\ up' = [up EXCEPT ![c] = IF conn[c] = "open" THEN Append(@, frame) ELSE @]

SendRecvAck ==
  /\ peer # NoConn /\ recvAck # NoAck
  /\ Write(peer, recvAck)
  /\ recvAck' = NoAck
  /\ UNCHANGED <<hubVars, conn, current, down, peer, ended, inboxVars, loop, busyAcked, injected,
                 doubts, answered, disturbed, crashVars>>

LoopClaim(c) ==
  /\ loop[c].pc = "poll"
  /\ \E d \in Ids : ClaimNext(d) /\ loop' = [loop EXCEPT ![c] = [pc |-> "got", id |-> d]]
  /\ UNCHANGED <<hubVars, linkVars, recvAck, busyAcked, injected, doubts, answered, disturbed,
                 crashVars>>

\* How often one adapter.handle types the text: when it waits for the answer
\* and no turn of the user appears in the transcript, up to three times.
Typings == 1..(IF Replies THEN 3 ELSE 1)

\* The text of c's delivery has been typed n times, of which k went for nothing.
Typed(c, n, k) ==
  /\ injected[loop[c].id] + n <= MaxInject
  /\ injected' = [injected EXCEPT ![loop[c].id] = @ + n]
  /\ doubts' = [doubts EXCEPT ![loop[c].id] = @ + k]

\* adapter.handle returns: the CLI has the text, and there may be an answer.
LoopInject(c) ==
  /\ loop[c].pc = "got"
  /\ \E n \in Typings : Typed(c, n, n - 1)
  /\ \E pc \in IF Replies THEN {"reply", "done"} ELSE {"done"} :
       loop' = [loop EXCEPT ![c].pc = pc]
  /\ UNCHANGED <<hubVars, linkVars, inboxVars, recvAck, busyAcked, answered, disturbed, crashVars>>

\* adapter.handle raises after it has typed: the Enter that submits the text
\* runs into its timeout, or reading the answer fails.
LoopRaise(c) ==
  /\ CliFaults /\ loop[c].pc = "got"
  /\ \E n \in Typings : Typed(c, n, n)
  /\ loop' = [loop EXCEPT ![c].pc = "raised"]
  /\ UNCHANGED <<hubVars, linkVars, inboxVars, recvAck, busyAcked, answered, disturbed, crashVars>>

\* adapter.handle returns, but all it has done is to word the answer that the
\* CLI is not ready (not_ready_message).
LoopNotReady(c) ==
  /\ CliFaults /\ loop[c].pc = "got"
  /\ loop' = [loop EXCEPT ![c].pc = "sorry"]
  /\ UNCHANGED <<hubVars, linkVars, inboxVars, recvAck, busyAcked, injected, doubts, answered,
                 disturbed, crashVars>>

\* ws.send raises on a connection that is lost or has ended.
Raises(c) == peer # c \/ ended

\* The ack at the end of a turn of the loop.  When ws.send raises, the loop
\* dies of it, and so does the connection if it is still the helper's.
SendAck(c, kind) ==
  /\ IF Raises(c)
     THEN /\ loop' = [loop EXCEPT ![c] = LoopAt("dead")]
          /\ peer' = (IF peer = c THEN NoConn ELSE peer)
          /\ ended' = (ended /\ peer # c)
          /\ UNCHANGED up
     ELSE /\ Write(c, AckOf(kind, loop[c].id))
          /\ loop' = [loop EXCEPT ![c] = LoopAt("poll")]
          /\ UNCHANGED <<peer, ended>>
  /\ UNCHANGED <<hubVars, conn, current, down, recvAck, injected, doubts, answered, disturbed,
                 crashVars>>

LoopFinish(c) ==
  /\ loop[c].pc = "done"
  /\ Finish(loop[c].id, "processed")
  /\ busyAcked' = busyAcked \ {loop[c].id}
  /\ SendAck(c, "processed")

\* A turn that ends in an exception while the CLI is idle ...
Failed(c) ==
  /\ Finish(loop[c].id, "failed")
  /\ busyAcked' = busyAcked \ {loop[c].id}
  /\ SendAck(c, "failed")

\* ... or with the CLI busy, or the queue of the adapter full: the delivery is
\* released.  A busy ack goes out each time in the last case and once per
\* delivery in the other.
PutBack(c) ==
  /\ Release(loop[c].id)
  /\ \/ /\ loop[c].id \notin busyAcked
        /\ busyAcked' = busyAcked \union {loop[c].id}
        /\ SendAck(c, "busy")
     \/ /\ loop[c].id \in busyAcked
        /\ loop' = [loop EXCEPT ![c] = LoopAt("poll")]
        /\ UNCHANGED <<hubVars, linkVars, recvAck, busyAcked, injected, doubts, answered, disturbed,
                       crashVars>>
     \/ UNCHANGED busyAcked /\ SendAck(c, "busy")

\* adapter.handle raises before it has typed; or the CLI is found busy.
LoopFail(c) == CliFaults /\ loop[c].pc = "got" /\ (Failed(c) \/ PutBack(c))

\* An exception after the text was typed, or that of sending the answer, ends
\* the turn in the same way.
LoopRaised(c) == loop[c].pc = "raised" /\ (Failed(c) \/ PutBack(c))

\* process_inbound_message sends the answer.  When that raises, the delivery is
\* treated like one that could not be injected.
LoopReply(c) ==
  /\ loop[c].pc \in {"reply", "sorry"}
  /\ \/ /\ ~Raises(c)
        /\ answered' = answered \union {loop[c].id}
        /\ loop' = [loop EXCEPT ![c].pc = "done"]
        /\ UNCHANGED doubts
     \/ /\ Raises(c)
        /\ loop' = [loop EXCEPT ![c].pc = "raised"]
        /\ doubts' = [doubts EXCEPT ![loop[c].id] = @ + (IF loop[c].pc = "reply" THEN 1 ELSE 0)]
        /\ UNCHANGED answered
  /\ UNCHANGED <<hubVars, linkVars, inboxVars, recvAck, busyAcked, injected, disturbed, crashVars>>

-----------------------------------------------------------------------------
HubStep ==
  \/ Route \/ WorkerAck \/ Redo
  \/ \E c \in Conns : TimerFires(c) \/ HandleCapability(c) \/ HandleDeliveryAck(c)

HelperStep ==
  \/ Receive \/ SendRecvAck
  \/ \E c \in Conns : LoopClaim(c) \/ LoopInject(c) \/ LoopRaise(c) \/ LoopNotReady(c)
                       \/ LoopReply(c) \/ LoopFinish(c) \/ LoopFail(c) \/ LoopRaised(c)

EnvStep ==
  \/ HelperLoses \/ HelperEnds \/ HelperRestart \/ HubRestart \/ Tick
  \/ \E c \in Conns : Connect(c) \/ HubLoses(c)
  \/ \E d \in Ids : Age(d)

Next == HubStep \/ HelperStep \/ EnvStep
Spec == Init /\ [][Next]_vars

-----------------------------------------------------------------------------
(* Properties *)

Handled(d) == injected[d] > 0 \/ d \in answered
Holding == {"got", "reply", "sorry", "raised", "done"}

\* The hub marks a delivery processed only after the CLI has got the text, or
\* its sender an answer of the helper, and the helper's inbox has recorded it:
\* no ack of one connection, late or repeated, is ever taken for the outcome of
\* another delivery.
ProcessedWasHandled ==
  \A d \in Ids : dlv[d].state = "processed" => inbox[d] = "processed" /\ Handled(d)

\* However often the hub sends a delivery, and however many delivery loops old
\* connections have left running, its text is typed again only after a restart
\* between injection and finish, or when the helper itself did not take the last
\* typing for one (doubts): never because the hub sent it again.
InjectedOncePerLife == \A d \in Ids : injected[d] <= 1 + restarts + doubts[d]

\* Deliveries enter the inbox in the order the messages came in, unless a push
\* of the one overtaken had failed, been lost or been refused.
FifoUnlessDisturbed ==
  \A i, j \in DOMAIN arrival : i < j /\ arrival[i] > arrival[j] => arrival[j] \in disturbed

\* The inductive core of the first two properties: every processed ack on its
\* way speaks the truth, a delivery held by a loop is in state processing, and
\* what may still be injected has not been, but for typings in doubt, in this life
\* of the helper.
AcksTruthful ==
  /\ \A c \in Conns : \A a \in Elems(up[c]) : a.kind = "processed" => inbox[a.id] = "processed"
  /\ recvAck.kind = "processed" => inbox[recvAck.id] = "processed"

LoopsHold ==
  \A c \in Conns : loop[c].pc \in Holding => loop[c].id \in Ids /\ inbox[loop[c].id] = "processing"

HandledFirst ==
  /\ \A d \in Ids : inbox[d] = "processed" => Handled(d)
  /\ \A c \in Conns : loop[c].pc = "done" => Handled(loop[c].id)

InjectionBounded ==
  /\ \A d \in Ids :
       /\ inbox[d] \in {"none", "received", "failed"} => injected[d] <= restarts + doubts[d]
       /\ injected[d] <= 1 + restarts + doubts[d]
  /\ \A c \in Conns : loop[c].pc \in {"got", "sorry", "raised"}
                        => injected[loop[c].id] <= restarts + doubts[loop[c].id]

\* Two delivery loops (the helper keeps those of connections it has lost) never
\* hold the same delivery.
LoopsExclusive ==
  \A b, c \in Conns : b # c /\ loop[b].pc \in Holding /\ loop[c].pc \in Holding
                        => loop[b].id # loop[c].id

\* What is under way to the helper, or has got there, is in the table.
KnownToHub ==
  /\ worker # "idle" => created # 0
  /\ \A c \in Conns : \A d \in Elems(down[c]) : dlv[d].state # "none"
  /\ \A d \in Ids : inbox[d] # "none" => dlv[d].state # "none"

Consistent == /\ TypeOK /\ KnownToHub
              /\ AcksTruthful /\ LoopsHold /\ LoopsExclusive /\ HandledFirst
              /\ InjectionBounded
              /\ ProcessedWasHandled

\* The hub and the helper together keep the promise of DeliveryPromise.
Promise == INSTANCE DeliveryPromise WITH
  outcome <- [d \in Ids |-> IF dlv[d].state \in Open THEN "open" ELSE dlv[d].state],
  handled <- {d \in Ids : Handled(d)}

KeepsPromise == Promise!Spec

\* What runs by itself in the hub: goroutines, timers, the clock.  It notices a
\* connection whose other end is gone by its pings, after 75 seconds.
HubFairness ==
  /\ WF_vars(WorkerAck \/ Redo) /\ WF_vars(Tick)
  /\ \A c \in Conns : /\ WF_vars(TimerFires(c))
                      /\ WF_vars(HandleCapability(c) \/ HandleDeliveryAck(c))
                      /\ WF_vars(HubLoses(c) /\ peer # c)

\* And in the helper: the reconnect loop and recv_loop.  Its pings find a lost
\* connection after 20 seconds; nothing does when recv_loop has ended.
HelperFairness ==
  /\ WF_vars(Receive \/ SendRecvAck)
  /\ \A c \in Conns : WF_vars(Connect(c))
  /\ WF_vars(peer # NoConn /\ ~ended /\ conn[peer] = "gone" /\ (HelperLoses \/ HelperEnds))

\* The delivery loops, too, while the CLI is idle again and again.
CliFairness ==
  \A c \in Conns : /\ WF_vars(LoopClaim(c) \/ LoopReply(c) \/ LoopFinish(c) \/ LoopRaised(c))
                   /\ SF_vars(LoopInject(c))

\* Nothing is assumed of the CLI here: it may hang in the middle of a delivery.
HangSpec == Spec /\ HubFairness /\ HelperFairness
FairSpec == HangSpec /\ CliFairness

\* Every delivery is eventually processed, given up, or has used up its sends
\* or its 30 minutes: while the connection holds, the timers never run dry.
EndsOrExhausted ==
  \A d \in Ids : dlv[d].state \in Open
                  ~> (dlv[d].state \in Terminal \/ dlv[d].attempts >= MaxAttempts \/ dlv[d].old)

\* "Marked dead after 30 minutes": a delivery that has become that old is
\* eventually marked dead, or processed after all.
ExpiredEnds ==
  \A d \in Ids : dlv[d].state \in Open /\ dlv[d].old ~> dlv[d].state \in Terminal

\* "one stuck delivery cannot starve the whole session": a delivery that was
\* never sent is eventually sent.
NeverStarved ==
  \A d \in Ids : (dlv[d].state = "queued" /\ dlv[d].attempts = 0)
                  ~> (dlv[d].attempts > 0 \/ dlv[d].state \in Terminal)

\* The same of a session whose first connection breaks: whatever was in flight
\* then, a delivery still gets to the helper of the connection that replaced it.
ReachesHelper ==
  \A d \in Ids : dlv[d].state \in Open
                  ~> (inbox[d] # "none" \/ dlv[d].state \in Terminal \/ dlv[d].attempts >= MaxAttempts)

\* "sessionHelper reconnects by itself": the helper does not stay on a connection
\* that the hub has ended.
HelperReconnects == \A c \in Conns : peer = c /\ conn[c] = "gone" ~> peer # c
=============================================================================
