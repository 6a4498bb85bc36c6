---------------------------- MODULE ClaudeDriver ----------------------------
(***************************************************************************)
(* The driver of a claude process: ClaudeProtocolDriver of                 *)
(* tools/sessionhelper/sessionhelper/claudeDriver.py, and the process as   *)
(* the driver sees it.  Texts go down a pipe and frames come back that do  *)
(* not say which text they answer: the driver takes them for frames of the *)
(* active turn.  A ledger on disk knows each delivery it has sent.         *)
(***************************************************************************)
EXTENDS CommandQueue

VARIABLES
  ledger,   \* state and turn of each delivery, on disk
  turns,    \* turn ids given so far
  active,   \* the delivery and turn that frames are counted for
  marks,    \* the turns that are accepted, terminal, interrupted
  stdin,    \* frames to the process
  stdout,   \* frames from the process
  cli,      \* whether it lives, the texts it has read and not answered, and whether it
            \* is stuck: its pipe is full and it does not read any more
  fed,      \* how often each text was sent to a process
  refused,  \* how often each delivery was put down as failed
  answered, \* turns the process has answered to the end
  stopped,  \* turns it has stopped
  overrun,  \* a text was sent although the one before it was still to be answered
  misfired  \* an interrupt stopped a turn it was not meant for

driverVars == <<ledger, turns, active, marks, stdin, stdout, cli, fed, refused, answered, stopped,
                overrun, misfired>>

LedgerState == {"none", "processing", "accepted", "done", "failed"}
NoTurn  == [id |-> NoCommand, turn |-> 0]
NoMarks == [accepted |-> {}, terminal |-> {}, interrupted |-> {}]
CliDead == [alive |-> FALSE, reads |-> <<>>, stuck |-> FALSE]

Frame == [kind : {"text", "interrupt"}, turn : Nat]
Reply == [kind : {"ack", "ok", "stopped"}, turn : Nat]

DriverTypeOK ==
  /\ ledger \in [Commands -> [state : LedgerState, turn : Nat]]
  /\ turns \in Nat /\ active \in [id : Commands \cup {NoCommand}, turn : Nat]
  /\ marks \in [accepted : SUBSET Nat, terminal : SUBSET Nat, interrupted : SUBSET Nat]
  /\ stdin \in Seq(Frame) /\ stdout \in Seq(Reply)
  /\ cli \in [alive : BOOLEAN, reads : Seq(Nat), stuck : BOOLEAN]
  /\ {fed, refused} \subseteq [Commands -> Nat] /\ answered \cup stopped \subseteq Nat
  /\ {overrun, misfired} \subseteq BOOLEAN

DriverInit ==
  /\ ledger = [d \in Commands |-> [state |-> "none", turn |-> 0]]
  /\ turns = 0 /\ active = NoTurn /\ marks = NoMarks
  /\ stdin = <<>> /\ stdout = <<>> /\ cli = CliDead
  /\ fed = [d \in Commands |-> 0] /\ refused = [d \in Commands |-> 0]
  /\ answered = {} /\ stopped = {} /\ overrun = FALSE /\ misfired = FALSE

\* update_state
Book(d, state) ==
  /\ ledger' = [ledger EXCEPT ![d].state = state]
  /\ refused' = [refused EXCEPT ![d] = IF state = "failed" THEN @ + 1 ELSE @]

----------------------------------------------------------------------------
\* deliver, for the one worker of the queue.

\* health, start: a process that has ended is replaced.
Started == cli' = IF cli.alive THEN cli ELSE [CliDead EXCEPT !.alive = TRUE]

\* Mutant: what has not come to its end is sent again.
KnownDone(d) == ledger[d].state = "done"

\* What was sent and has not failed is not sent again.
Known(d) == ledger[d].state \notin {"none", "failed"}

\* Mutant: the turn before it is not waited for.
PrevForgotten(d) == FALSE

\* The turn before this one has had no result.
PrevOpen(d) == /\ active.turn # 0 /\ active.id # d
               /\ active.turn \notin marks.terminal

\* Something of it may still come.
Awaited == stdin # <<>> \/ cli.reads # <<>> \/ stdout # <<>>

Begin(d) ==
  /\ turns' = turns + 1
  /\ active' = [id |-> d, turn |-> turns + 1]
  /\ ledger' = [ledger EXCEPT ![d] = [state |-> "processing", turn |-> turns + 1]]
  /\ overrun' = (overrun \/ (PrevOpen(d) /\ Awaited))
  /\ UNCHANGED <<marks, stdin, stdout, cli, fed, refused, answered, stopped, misfired>>

\* The write and the flush return when the pipe takes the text, and nothing ends
\* them before: the driver's locks are held until then.
Takes == cli.alive /\ ~cli.stuck

Sent(d) ==
  /\ Takes
  /\ stdin' = Append(stdin, [kind |-> "text", turn |-> active.turn])
  /\ fed' = [fed EXCEPT ![d] = @ + 1]
  /\ UNCHANGED <<ledger, turns, active, marks, stdout, cli, refused, answered, stopped, overrun, misfired>>

SendFailed(d) ==
  /\ ~cli.alive
  /\ Book(d, "failed")
  /\ UNCHANGED <<turns, active, marks, stdin, stdout, cli, fed, answered, stopped, overrun, misfired>>

AckSeen(d) ==
  /\ active.turn \in marks.accepted
  /\ Book(d, "accepted")
  /\ UNCHANGED <<turns, active, marks, stdin, stdout, cli, fed, answered, stopped, overrun, misfired>>

AckMissed(d) ==
  /\ active.turn \notin marks.accepted
  /\ Book(d, "processing")
  /\ UNCHANGED <<turns, active, marks, stdin, stdout, cli, fed, answered, stopped, overrun, misfired>>

----------------------------------------------------------------------------
\* poll_receipt

Mine(d) == active.id = d

Polled(d, state) ==
  /\ IF Mine(d) /\ ledger[d].state # "failed" /\ state # "processing"
       THEN Book(d, state) ELSE UNCHANGED <<ledger, refused>>
  /\ UNCHANGED <<turns, active, marks, stdin, stdout, cli, fed, answered, stopped, overrun, misfired>>

\* First it looks whether the delivery has failed, is not the active one, or
\* was interrupted,
EarlyReceipt(d) ==
  IF ledger[d].state = "failed" \/ ~Mine(d) THEN ledger[d].state
  ELSE IF active.turn \in marks.interrupted THEN "failed" ELSE "none"

\* and then whether its turn has ended, or is not answered STALL_TIMEOUT after
\* the text was sent.
LateReceipt == IF active.turn \in marks.terminal THEN "done" ELSE "processing"

----------------------------------------------------------------------------
\* interrupt_delivery writes what it has checked before.

Signal(t) ==
  /\ Takes
  /\ stdin' = Append(stdin, [kind |-> "interrupt", turn |-> t])
  /\ UNCHANGED <<ledger, turns, active, marks, stdout, cli, fed, refused, answered, stopped, overrun, misfired>>

----------------------------------------------------------------------------
\* _handle_frame: every frame is taken for one of the active turn.

Frames(reply) ==
  LET t == active.turn IN
  IF t = 0 THEN marks
  ELSE IF reply.kind = "ack" THEN [marks EXCEPT !.accepted = @ \cup {t}]
  ELSE IF reply.kind = "ok" THEN [marks EXCEPT !.terminal = @ \cup {t}]
  ELSE [marks EXCEPT !.terminal = @ \cup {t}, !.interrupted = @ \cup {t}]

HandleFrame ==
  /\ stdout # <<>>
  /\ stdout' = Tail(stdout)
  /\ marks' = Frames(Head(stdout))
  /\ IF active.turn = 0 \/ Head(stdout).kind = "ack" THEN UNCHANGED <<ledger, refused>>
     ELSE Book(active.id, IF Head(stdout).kind = "ok" THEN "done" ELSE "failed")
  /\ UNCHANGED <<turns, active, stdin, cli, fed, answered, stopped, overrun, misfired>>

----------------------------------------------------------------------------
\* The process.  It answers the texts in the order in which it has read them.

CliReads ==
  /\ Takes /\ stdin # <<>> /\ Head(stdin).kind = "text"
  /\ stdin' = Tail(stdin)
  /\ cli' = [cli EXCEPT !.reads = Append(@, Head(stdin).turn)]
  /\ stdout' = Append(stdout, [kind |-> "ack", turn |-> Head(stdin).turn])
  /\ UNCHANGED <<ledger, turns, active, marks, fed, refused, answered, stopped, overrun, misfired>>

CliAnswers ==
  /\ cli.alive /\ cli.reads # <<>>
  /\ stdout' = Append(stdout, [kind |-> "ok", turn |-> Head(cli.reads)])
  /\ cli' = [cli EXCEPT !.reads = Tail(@)]
  /\ answered' = answered \cup {Head(cli.reads)}
  /\ UNCHANGED <<ledger, turns, active, marks, stdin, fed, refused, stopped, overrun, misfired>>

\* It stops the text it is at, whichever that is.
CliStops ==
  /\ Takes /\ stdin # <<>> /\ Head(stdin).kind = "interrupt" /\ cli.reads # <<>>
  /\ stdin' = Tail(stdin)
  /\ stdout' = Append(stdout, [kind |-> "stopped", turn |-> Head(cli.reads)])
  /\ cli' = [cli EXCEPT !.reads = Tail(@)]
  /\ stopped' = stopped \cup {Head(cli.reads)}
  /\ misfired' = (misfired \/ Head(cli.reads) # Head(stdin).turn)
  /\ UNCHANGED <<ledger, turns, active, marks, fed, refused, answered, overrun>>

CliIgnores ==
  /\ Takes /\ stdin # <<>> /\ Head(stdin).kind = "interrupt" /\ cli.reads = <<>>
  /\ stdin' = Tail(stdin)
  /\ UNCHANGED <<ledger, turns, active, marks, stdout, cli, fed, refused, answered, stopped, overrun, misfired>>

\* It reads no more; what it has read it may still answer.
CliSticks ==
  /\ Takes
  /\ cli' = [cli EXCEPT !.stuck = TRUE]
  /\ UNCHANGED <<ledger, turns, active, marks, stdin, stdout, fed, refused, answered, stopped, overrun, misfired>>

\* It ends; what it had written is still read.
CliDies ==
  /\ cli.alive
  /\ cli' = CliDead /\ stdin' = <<>>
  /\ UNCHANGED <<ledger, turns, active, marks, stdout, fed, refused, answered, stopped, overrun, misfired>>

\* The helper stops, and the process with it: the ledger stays.
DriverLost ==
  /\ active' = NoTurn /\ marks' = NoMarks /\ stdin' = <<>> /\ stdout' = <<>> /\ cli' = CliDead
  /\ UNCHANGED <<ledger, turns, fed, refused, answered, stopped, overrun, misfired>>

=============================================================================
