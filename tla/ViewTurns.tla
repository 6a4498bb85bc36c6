------------------------------ MODULE ViewTurns ------------------------------
(***************************************************************************)
(* From an entry on a page, or a message for a session, to a turn of its   *)
(* CLI: DriverAdapter of tools/sessionhelper/sessionhelper/                *)
(* driver_adapter.py with its queue (CommandQueue) and driver              *)
(* (ClaudeDriver), behind the pages and the hub (ViewPages).  One worker   *)
(* takes the commands one after the other and waits until each has ended;  *)
(* users interrupt it, results are late or missing, the process and the    *)
(* helper stop.                                                            *)
(***************************************************************************)
EXTENDS ViewPages, ClaudeDriver

CONSTANTS
  Deliveries,    \* messages for the session, from the helper's inbox
  LineIds,       \* delivery ids for lines that are entered
  Interrupters   \* threads in interrupt_delivery

ASSUME TurnsAssumption == Deliveries \cup LineIds \subseteq Commands

VARIABLES
  work,      \* the worker: where it is, and the receipt it has
  intr,      \* interrupters: where each is, its turn, whether a user waits for it
  confirmed, \* _interrupt_confirmed
  used,      \* delivery ids that lines have got
  stops,     \* restarts of the helper
  deaths,    \* times that a process has ended or got stuck
  cuts       \* interrupts so far

workVars == <<work, intr, confirmed>>
sumVars  == <<used, stops, deaths, cuts>>
vars == <<viewVars, queueVars, driverVars, workVars, sumVars>>

NoReceipt == [state |-> "none", turn |-> 0]
WorkIdle  == [pc |-> "idle", receipt |-> NoReceipt]
IntrIdle  == [pc |-> "idle", id |-> NoCommand, turn |-> 0, user |-> FALSE]

Steps == {"idle", "deliver", "wait", "send", "ack", "settle", "look"}

TypeOK ==
  /\ ViewTypeOK /\ QueueTypeOK /\ DriverTypeOK
  /\ work \in [pc : Steps, receipt : [state : LedgerState, turn : Nat]]
  /\ intr \in [Interrupters -> [pc : {"idle", "asked", "checked", "sent"},
                               id : Commands \cup {NoCommand}, turn : Nat, user : BOOLEAN]]
  /\ confirmed \subseteq Commands \X Nat
  /\ used \subseteq LineIds /\ {stops, deaths, cuts} \subseteq Nat

Init == /\ ViewInit /\ QueueInit /\ DriverInit
        /\ work = WorkIdle /\ intr = [i \in Interrupters |-> IntrIdle] /\ confirmed = {}
        /\ used = {} /\ stops = 0 /\ deaths = 0 /\ cuts = 0

----------------------------------------------------------------------------
\* Commands come in.

\* handle, for a message that the helper may have taken from its inbox before.
Offer(d) ==
  /\ d \in bound.offers
  /\ Enqueue(d)
  /\ UNCHANGED <<viewVars, driverVars, workVars, sumVars>>

\* handle_terminal_input, write_terminal_input: a line is enqueued with an id of
\* its own, unless it is blank or the queue full.
LineRead ==
  /\ line # <<>> /\ line' = Tail(line)
  /\ IF Head(line) \in bound.blank \/ Depth >= QueueCapacity
       THEN UNCHANGED <<queueVars, used>>
       ELSE \E d \in LineIds \ used : Enqueue(d) /\ used' = used \cup {d}
  /\ UNCHANGED <<bound, pageVars, call, reply, handed, told, forgotten, hubStops, driverVars,
                 workVars, stops, deaths, cuts>>

----------------------------------------------------------------------------
\* _command_worker, _deliver_command, _settle_command

Goes(pc) == work' = [work EXCEPT !.pc = pc]
Holds(state, turn) == work' = [pc |-> "settle", receipt |-> [state |-> state, turn |-> turn]]

WorkerStart ==
  /\ work.pc = "idle" /\ StartNext
  /\ Goes("deliver")
  /\ UNCHANGED <<viewVars, driverVars, intr, confirmed, sumVars>>

\* deliver looks into the ledger.
Deliver ==
  /\ work.pc = "deliver" /\ Started
  /\ IF Known(current) THEN Holds(ledger[current].state, ledger[current].turn) ELSE Goes("wait")
  /\ UNCHANGED <<viewVars, queueVars, ledger, turns, active, marks, stdin, stdout, fed, refused,
                 answered, stopped, overrun, misfired, intr, confirmed, sumVars>>

\* No process can be started.
StartFails ==
  /\ work.pc = "deliver" /\ ~cli.alive
  /\ Finish(current, "failed") /\ work' = WorkIdle
  /\ UNCHANGED <<viewVars, driverVars, intr, confirmed, sumVars>>

\* It waits for the turn before, for PREV_TURN_WAIT at most.
TurnBegins ==
  /\ work.pc = "wait" /\ ~PrevOpen(current) /\ Begin(current)
  /\ Goes("send")
  /\ UNCHANGED <<viewVars, queueVars, intr, confirmed, sumVars>>

WaitEnds ==
  /\ work.pc = "wait" /\ PrevOpen(current) /\ Begin(current)
  /\ Goes("send")
  /\ UNCHANGED <<viewVars, queueVars, intr, confirmed, sumVars>>

Send ==
  /\ work.pc = "send"
  /\ \/ Sent(current) /\ Goes("ack")
     \/ SendFailed(current) /\ Holds("failed", 0)
  /\ UNCHANGED <<viewVars, queueVars, intr, confirmed, sumVars>>

\* It waits for the acknowledgement, for TURN_ACCEPT_TIMEOUT at most.
Accepted ==
  /\ work.pc = "ack" /\ AckSeen(current) /\ Holds("accepted", active.turn)
  /\ UNCHANGED <<viewVars, queueVars, intr, confirmed, sumVars>>

NotAccepted ==
  /\ work.pc = "ack" /\ AckMissed(current) /\ Holds("processing", active.turn)
  /\ UNCHANGED <<viewVars, queueVars, intr, confirmed, sumVars>>

\* _admit_from_receipt
Admits == /\ work.pc = "settle" /\ command[current] = "admitting"
          /\ work.receipt.state \in {"accepted", "processing", "done"} /\ work.receipt.turn # 0

Admitted ==
  /\ Admits /\ Admit(current, work.receipt.turn)
  /\ UNCHANGED <<viewVars, driverVars, workVars, sumVars>>

Settles == work.pc = "settle" /\ ~Admits

\* The receipt is final.
Ends ==
  /\ Settles /\ work.receipt.state \in {"done", "failed"}
  /\ Finish(current, IF work.receipt.state = "done" THEN "completed"
                     ELSE IF <<current, turnOf[current]>> \in confirmed THEN "interrupted"
                     ELSE "failed")
  /\ confirmed' = confirmed \ {<<current, turnOf[current]>>}
  /\ work' = WorkIdle
  /\ UNCHANGED <<viewVars, driverVars, intr, sumVars>>

Unsettled == Settles /\ work.receipt.state \notin {"done", "failed"}

PollEarly ==
  /\ Unsettled
  /\ IF EarlyReceipt(current) = "none"
       THEN Goes("look") /\ UNCHANGED driverVars
       ELSE Holds(EarlyReceipt(current), 0) /\ Polled(current, EarlyReceipt(current))
  /\ UNCHANGED <<viewVars, queueVars, intr, confirmed, sumVars>>

PollLate ==
  /\ work.pc = "look"
  /\ Polled(current, LateReceipt) /\ Holds(LateReceipt, 0)
  /\ UNCHANGED <<viewVars, queueVars, intr, confirmed, sumVars>>

PollStalls ==
  /\ work.pc = "look" /\ LateReceipt = "processing"
  /\ Polled(current, "failed") /\ Holds("failed", 0)
  /\ UNCHANGED <<viewVars, queueVars, intr, confirmed, sumVars>>

\* Mutant: only the active turn can be overdue.
OverdueMine == Unsettled /\ command[current] = "admitted" /\ Mine(current)

Overdue == Unsettled /\ command[current] = "admitted"

\* The turn has shown no progress for _terminal_timeout; an interrupt is tried.
TimesOut ==
  /\ Overdue
  /\ Finish(current, "failed") /\ work' = WorkIdle
  /\ \/ \E i \in Interrupters :
          /\ intr[i].pc = "idle"
          /\ intr' = [intr EXCEPT ![i] = [pc |-> "asked", id |-> current,
                                          turn |-> turnOf[current], user |-> FALSE]]
     \/ (\A i \in Interrupters : intr[i].pc # "idle") /\ UNCHANGED intr
  /\ UNCHANGED <<viewVars, driverVars, confirmed, sumVars>>

----------------------------------------------------------------------------
\* Interrupts.

\* interrupt_current, for the turn that is current.
Interrupt(i) ==
  /\ intr[i].pc = "idle" /\ cuts < bound.cuts
  /\ current # NoCommand /\ turnOf[current] # 0
  /\ intr' = [intr EXCEPT ![i] = [pc |-> "asked", id |-> current, turn |-> turnOf[current],
                                  user |-> TRUE]]
  /\ cuts' = cuts + 1
  /\ UNCHANGED <<viewVars, queueVars, driverVars, work, confirmed, used, stops, deaths>>

\* Ctrl-C: interrupt, for the turn that is active.
CtrlC(i) ==
  /\ intr[i].pc = "idle" /\ cuts < bound.cuts
  /\ active.turn # 0
  /\ intr' = [intr EXCEPT ![i] = [pc |-> "asked", id |-> active.id, turn |-> active.turn,
                                  user |-> FALSE]]
  /\ cuts' = cuts + 1
  /\ UNCHANGED <<viewVars, queueVars, driverVars, work, confirmed, used, stops, deaths>>

\* interrupt_delivery compares it with the active turn,
Checks(i) ==
  /\ intr[i].pc = "asked"
  /\ intr' = [intr EXCEPT ![i] = IF active = [id |-> @.id, turn |-> @.turn]
                                   THEN [@ EXCEPT !.pc = "checked"] ELSE IntrIdle]
  /\ UNCHANGED <<viewVars, queueVars, driverVars, work, confirmed, sumVars>>

\* writes the interrupt, when it has let go of the lock,
Signals(i) ==
  /\ intr[i].pc = "checked" /\ Signal(intr[i].turn)
  /\ intr' = [intr EXCEPT ![i].pc = "sent"]
  /\ UNCHANGED <<viewVars, queueVars, work, confirmed, sumVars>>

\* and waits until it sees that the turn was interrupted.
Confirms(i) ==
  /\ intr[i].pc = "sent" /\ intr[i].turn \in marks.interrupted
  /\ confirmed' = IF intr[i].user THEN confirmed \cup {<<intr[i].id, intr[i].turn>>} ELSE confirmed
  /\ intr' = [intr EXCEPT ![i] = IntrIdle]
  /\ UNCHANGED <<viewVars, queueVars, driverVars, work, sumVars>>

GivesUp(i) ==
  /\ \/ intr[i].pc = "sent" /\ intr[i].turn \notin marks.interrupted
     \/ intr[i].pc = "checked" /\ ~cli.alive
  /\ intr' = [intr EXCEPT ![i] = IntrIdle]
  /\ UNCHANGED <<viewVars, queueVars, driverVars, work, confirmed, sumVars>>

----------------------------------------------------------------------------
Dies ==
  /\ deaths < bound.deaths /\ deaths' = deaths + 1
  /\ CliDies \/ CliSticks
  /\ UNCHANGED <<viewVars, queueVars, workVars, used, stops, cuts>>

\* The helper restarts: only the ledger is left.
Restart ==
  /\ stops < bound.restarts /\ stops' = stops + 1
  /\ QueueLost /\ DriverLost
  /\ work' = WorkIdle /\ intr' = [i \in Interrupters |-> IntrIdle] /\ confirmed' = {}
  /\ line' = <<>>
  /\ UNCHANGED <<bound, pageVars, call, reply, handed, told, forgotten, hubStops, used, deaths, cuts>>

Worker == \/ WorkerStart \/ Deliver \/ TurnBegins \/ Send \/ Accepted \/ Admitted \/ Ends
          \/ PollEarly \/ PollLate
TimerEnds == WaitEnds \/ NotAccepted \/ PollStalls \/ TimesOut
Cli == CliReads \/ CliAnswers \/ CliStops \/ CliIgnores
InterruptStep(i) == Interrupt(i) \/ CtrlC(i) \/ Checks(i) \/ Signals(i) \/ Confirms(i) \/ GivesUp(i)

Next ==
  \/ ViewStep /\ UNCHANGED <<queueVars, driverVars, workVars, sumVars>>
  \/ \E d \in Deliveries : Offer(d)
  \/ LineRead
  \/ Worker \/ TimerEnds \/ StartFails
  \/ \E i \in Interrupters : InterruptStep(i)
  \/ HandleFrame /\ UNCHANGED <<viewVars, queueVars, workVars, sumVars>>
  \/ Cli /\ UNCHANGED <<viewVars, queueVars, workVars, sumVars>>
  \/ Dies \/ Restart

Spec == Init /\ [][Next]_vars

\* The worker and the reader of the driver are threads that run, and their waits
\* are limited, but for that on the pipe.  The process need not read or answer.
FairSpec == /\ Spec /\ WF_vars(Worker) /\ WF_vars(TimerEnds)
            /\ WF_vars(HandleFrame /\ UNCHANGED <<viewVars, queueVars, workVars, sumVars>>)

----------------------------------------------------------------------------

\* A command that has ended as completed has had its own turn ended by the
\* process, unless a text was ever sent while an answer was still to come: frames
\* do not say which text they belong to, and from then on each may be taken for
\* the next one's (deliver, _handle_frame).
CompletedHasEnded ==
  ~overrun => \A d \in Commands : command[d] = "completed" => turnOf[d] \in answered \cup stopped

\* A text is sent to the process once, whatever is offered again after a restart
\* of the helper at any moment (_DeliveryStore), and once more for each time that
\* the ledger has put it down as failed.
SubmittedOnce == \A d \in Commands : fed[d] <= 1 + refused[d]

\* The worker writes to a pipe that takes nothing, as long as the process lives.
Blocked == work.pc = "send" /\ cli.stuck

\* Whatever waits in the queue leaves it, also when the process is silent or the
\* ledger names a turn of an earlier life that nobody will answer, unless the worker
\* is blocked; when the process has ended it goes on.
QueueDrains == \A d \in Commands : command[d] \in Waits ~> command[d] \notin Waits \/ Blocked

\* An interrupt stops no turn but the one it was asked for
\* (docs/view-unified-queue-interrupt-spec.md:477).
InterruptHitsItsTurn == ~misfired

\* A command that was interrupted has not ended as completed
\* (docs/view-unified-queue-interrupt-spec.md:263).
StoppedNotCompleted ==
  ~overrun => \A d \in Commands : command[d] = "completed" => turnOf[d] \notin stopped

\* No request makes a second turn because the hub has restarted between the lost
\* answer and its repetition (internal/m8/view_input_v2.go:125).
NoSecondTurn == Cardinality(used) <= Cardinality(Requests)
=============================================================================
