----------------------------- MODULE MessageBus -----------------------------
(***************************************************************************)
(* The outbound half of the message bus: AsyncDBQueue (internal/bus), the  *)
(* loop that sends to Feishu and the life of the process (cmd/workpulse).  *)
(*                                                                         *)
(* Enqueue puts a message into a channel; one goroutine collects batches   *)
(* and writes each in a transaction; the sender claims the oldest message  *)
(* of the table, sends it and records what became of it.  The table is     *)
(* redacted: what is secret in a message stays in memory and replaces the  *)
(* text when the message is claimed.                                       *)
(*                                                                         *)
(* The inbound queue is the same code; its consumer is in ControlTasks.    *)
(* Who enqueues is left to the modules that use this one.                  *)
(***************************************************************************)
EXTENDS Naturals, Sequences, SequencesExt, MessageTable

CONSTANTS
  IdRank,      \* the order of message ids, which are random
  QueueSize,   \* what the channel holds (50000)
  BatchSize,   \* messages that make a full batch (200)
  MaxSecret,   \* bound: secrets, which are numbered
  MaxClock,    \* bound: seconds in which messages are written
  MaxFault,    \* bound: failures of the store and of Feishu
  MaxStop      \* bound: stops of the process

ASSUME BusAssumption ==
  /\ IdRank \in [Messages -> Nat]
  /\ \A m, n \in Messages : IdRank[m] = IdRank[n] => m = n
  /\ {QueueSize, BatchSize, MaxSecret, MaxClock, MaxFault, MaxStop} \subseteq Nat
  /\ QueueSize > 0 /\ BatchSize > 0

NoneSent == <<>>   \* the message of a sender that has none
Redacted == 0        \* the text of a message without its secret

VARIABLES
  chan,     \* q.ch
  batch,    \* what the writer has collected
  writer,   \* the writer goroutine
  secret,   \* q.sensitive, Redacted for no entry
  table,    \* the message table, outbound direction
  created,  \* created_at of its rows, in seconds
  now,
  sender,   \* the outbound loop
  sent,     \* what Feishu has taken, in order
  hub,      \* the process
  faults,
  stops,
  accepted, \* history: what was accepted, in order
  lost,     \* history: messages that were dropped from memory
  unsure    \* history: messages that may have been sent without being recorded so

queueVars == <<chan, batch, writer, secret>>
tableVars == <<table, created, now>>
endVars   == <<hub, stops>>
busVars   == <<queueVars, tableVars, sender, sent, endVars, faults, accepted, lost, unsure>>

Texts  == Redacted..MaxSecret
Sender == [stage : {"idle", "claimed", "taken", "refused"},
           m : Messages \union {NoneSent}, text : Texts]
SenderIdle == [stage |-> "idle", m |-> NoneSent, text |-> Redacted]

InTable(m) == table[m].status # "none"
Fault == faults < MaxFault /\ faults' = faults + 1

BusInit ==
  /\ chan = <<>> /\ batch = <<>> /\ writer = "runs"
  /\ secret = [m \in Messages |-> Redacted]
  /\ table = [m \in Messages |-> NoMessage]
  /\ created = [m \in Messages |-> 0]
  /\ now = 0
  /\ sender = SenderIdle
  /\ sent = <<>>
  /\ hub = "up"
  /\ faults = 0 /\ stops = 0
  /\ accepted = <<>> /\ lost = {} /\ unsure = {}

----------------------------------------------------------------------------
(* The queue. *)

\* Enqueue: returns once the channel has room.  Requests are still served while
\* the process stops.
Enqueue(m) ==
  /\ hub # "down"
  /\ Len(chan) < QueueSize
  /\ chan' = Append(chan, m)
  /\ accepted' = Append(accepted, m)

\* BatchEnqueueMessages: one transaction, known ids are ignored, created_at is
\* the second in which it runs.
Written(S) ==
  /\ table' = Enqueued(table, S)
  /\ created' = [m \in Messages |-> IF m \in S /\ ~InTable(m) THEN now ELSE created[m]]

Flush(b) ==
  /\ batch' = <<>>
  /\ \/ /\ Written(ToSet(b))
        /\ UNCHANGED <<faults, lost>>
     \/ /\ b # <<>>
        /\ Fault
        /\ lost' = lost \union {m \in ToSet(b) : ~InTable(m)}
        /\ UNCHANGED <<table, created>>

\* A batch that may grow one too long.
CollectLate ==
  /\ hub # "down" /\ writer = "runs"
  /\ chan # <<>>
  /\ chan' = Tail(chan)
  /\ LET b == Append(batch, Head(chan)) IN
     IF Len(b) > BatchSize THEN Flush(b)
     ELSE /\ batch' = b
          /\ UNCHANGED <<table, created, faults, lost>>
  /\ UNCHANGED <<writer, secret, now, sender, sent, endVars, accepted, unsure>>

\* The writer takes a message from the channel and writes when the batch is full.
Collect ==
  /\ hub # "down" /\ writer = "runs"
  /\ chan # <<>>
  /\ chan' = Tail(chan)
  /\ LET b == Append(batch, Head(chan)) IN
     IF Len(b) >= BatchSize THEN Flush(b)
     ELSE /\ batch' = b
          /\ UNCHANGED <<table, created, faults, lost>>
  /\ UNCHANGED <<writer, secret, now, sender, sent, endVars, accepted, unsure>>

\* The timer of an unfinished batch (20 ms).
FlushTimer ==
  /\ hub # "down" /\ writer = "runs"
  /\ batch # <<>>
  /\ Flush(batch)
  /\ UNCHANGED <<chan, writer, secret, now, sender, sent, endVars, accepted, unsure>>

\* A writer that ends without writing its batch.
DrainUnwritten ==
  /\ hub = "stopping" /\ writer = "runs"
  /\ chan = <<>>
  /\ batch' = <<>>
  /\ writer' = "ended"
  /\ UNCHANGED <<chan, secret, tableVars, sender, sent, endVars, faults, accepted, lost, unsure>>

\* The writer notices the cancelled context when the channel is empty, writes
\* what it has and ends.  (It empties the channel first, as Collect does.)
Drain ==
  /\ hub = "stopping" /\ writer = "runs"
  /\ chan = <<>>
  /\ Flush(batch)
  /\ writer' = "ended"
  /\ UNCHANGED <<chan, secret, now, sender, sent, endVars, accepted, unsure>>

----------------------------------------------------------------------------
(* The outbound loop: one message at a time. *)

\* ClaimNextMessage: the oldest, of one second the one with the smallest id.
Oldest(m, S) == \A n \in S :
  \/ created[m] < created[n]
  \/ created[m] = created[n] /\ IdRank[m] <= IdRank[n]

Claim ==
  /\ hub = "up" /\ sender.stage = "idle"
  /\ \E m \in Claimable(table) :
     /\ Oldest(m, Claimable(table))
     /\ table' = Taken(table, m)
     /\ sender' = [stage |-> "claimed", m |-> m, text |-> secret[m]]
  /\ UNCHANGED <<queueVars, created, now, sent, endVars, faults, accepted, lost, unsure>>

\* A call fails; once the process stops, its context is cancelled.
Breaks ==
  \/ hub = "stopping" /\ UNCHANGED faults
  \/ hub = "up" /\ Fault

SendRefused ==
  /\ Breaks
  /\ sender' = [sender EXCEPT !.stage = "refused"]
  /\ UNCHANGED <<sent, unsure>>

Delivered == sent' = Append(sent, [m |-> sender.m, text |-> sender.text])

\* gateway.Send: Feishu takes the message, or an error is returned: the message was
\* refused, or it was taken and its answer did not arrive or has no message_id.
Send ==
  /\ hub # "down" /\ sender.stage = "claimed"
  /\ \/ /\ Delivered
        /\ sender' = [sender EXCEPT !.stage = "taken"]
        /\ UNCHANGED <<faults, unsure>>
     \/ SendRefused
     \/ /\ Breaks
        /\ Delivered
        /\ sender' = [sender EXCEPT !.stage = "refused"]
        /\ unsure' = unsure \union {sender.m}
  /\ UNCHANGED <<queueVars, tableVars, endVars, accepted, lost>>

\* Ack or Fail, whose own failure is ignored.
Record(m, t, s) ==
  /\ sender' = SenderIdle
  /\ \/ /\ hub = "up"
        /\ table' = t
        /\ secret' = s
        /\ UNCHANGED <<faults, unsure>>
     \/ /\ Breaks
        /\ unsure' = unsure \union {m}
        /\ UNCHANGED <<table, secret>>
  /\ UNCHANGED <<chan, batch, writer, created, now, sent, endVars, accepted, lost>>

\* A loop that records a failure for what was sent.
AckFails ==
  /\ sender.stage = "taken"
  /\ Record(sender.m, Failed(table, sender.m), secret)

\* Only an acknowledged message is forgotten.
Ack ==
  /\ sender.stage = "taken"
  /\ Record(sender.m, Acked(table, sender.m), [secret EXCEPT ![sender.m] = Redacted])

Fail ==
  /\ sender.stage = "refused"
  /\ Record(sender.m, Failed(table, sender.m), secret)

\* A message that is left in processing for 5 minutes may be claimed again.
LeaseEnds(m) ==
  /\ hub = "up"
  /\ table[m].status = "processing" /\ ~table[m].late
  /\ sender.m # m
  /\ table' = [table EXCEPT ![m].late = TRUE]
  /\ UNCHANGED <<queueVars, created, now, sender, sent, endVars, faults, accepted, lost, unsure>>

----------------------------------------------------------------------------
(* The process. *)

Tick ==
  /\ hub # "down" /\ now < MaxClock
  /\ now' = now + 1
  /\ UNCHANGED <<queueVars, table, created, sender, sent, endVars, faults, accepted, lost, unsure>>

\* A signal: run cancels the context and waits for the servers, for nothing else.
Stop ==
  /\ hub = "up" /\ stops < MaxStop
  /\ hub' = "stopping"
  /\ stops' = stops + 1
  /\ UNCHANGED <<queueVars, tableVars, sender, sent, faults, accepted, lost, unsure>>

\* run returns: what is in memory is gone.  A process that is killed is one whose
\* exit follows at once.
Exit ==
  /\ hub = "stopping"
  /\ hub' = "down"
  /\ lost' = lost \union {m \in ToSet(chan \o batch) : ~InTable(m)}
  /\ unsure' = IF sender.stage = "taken" THEN unsure \union {sender.m} ELSE unsure
  /\ chan' = <<>> /\ batch' = <<>>
  /\ secret' = [m \in Messages |-> Redacted]
  /\ sender' = SenderIdle
  /\ UNCHANGED <<writer, tableVars, sent, faults, stops, accepted>>

\* run: RecoverProcessing, then the goroutines.
Start ==
  /\ hub = "down"
  /\ hub' = "up"
  /\ table' = Recovered(table)
  /\ writer' = "runs"
  /\ UNCHANGED <<chan, batch, secret, created, now, sender, sent, faults, stops, accepted, lost, unsure>>

----------------------------------------------------------------------------
(* What the bus keeps. *)

BusTypeOK ==
  /\ chan \in Seq(Messages) /\ Len(chan) <= QueueSize
  /\ batch \in Seq(Messages) /\ Len(batch) < BatchSize
  /\ writer \in {"runs", "ended"}
  /\ secret \in [Messages -> Texts]
  /\ table \in [Messages -> MessageRow]
  /\ created \in [Messages -> 0..MaxClock]
  /\ now \in 0..MaxClock
  /\ sender \in Sender
  /\ sent \in Seq([m : Messages, text : Texts])
  /\ hub \in {"up", "stopping", "down"}
  /\ faults \in 0..MaxFault /\ stops \in 0..MaxStop
  /\ accepted \in Seq(Messages)
  /\ lost \subseteq Messages /\ unsure \subseteq Messages

\* What was accepted is waiting, in the table, or was dropped by a write that
\* failed or an exit: the writer loses nothing between its channel, its batch and
\* the table, nor when it ends (AsyncDBQueue.run).
NothingVanishes ==
  ToSet(accepted) \subseteq
    ToSet(chan) \union ToSet(batch) \union lost \union {m \in Messages : InTable(m)}

\* Feishu gets a message twice only if the loop was told an error although it was
\* taken, or its outcome could not be recorded (runOutboundLoop fails what it has
\* an error for, ignores the errors of Ack and Fail, and run does not wait for it).
SentOnceUnlessUnsure == \A i, j \in DOMAIN sent :
  sent[i].m = sent[j].m /\ i # j => sent[i].m \in unsure

FirstSent(i) == \A j \in 1..(i - 1) : sent[j].m # sent[i].m

FirstAt(m) == CHOOSE i \in DOMAIN accepted :
  accepted[i] = m /\ \A j \in 1..(i - 1) : accepted[j] # m
\* The queue sends what was accepted first first (bus.go: "同主体内 FIFO 保序"):
\* not so for two messages of one second.
SentInOrder == \A i, j \in DOMAIN sent :
  i < j /\ FirstSent(i) /\ FirstSent(j) => FirstAt(sent[i].m) < FirstAt(sent[j].m)

\* The goroutines run, leases end, and the service manager starts a process that
\* has ended.
BusFairness ==
  /\ WF_busVars(Collect) /\ WF_busVars(FlushTimer) /\ WF_busVars(Drain)
  /\ WF_busVars(Claim) /\ WF_busVars(Send) /\ WF_busVars(Ack) /\ WF_busVars(Fail)
  /\ \A m \in Messages : WF_busVars(LeaseEnds(m))
  /\ WF_busVars(Exit) /\ WF_busVars(Start)
=============================================================================
