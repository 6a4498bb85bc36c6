---------------------------- MODULE CommandQueue ----------------------------
(***************************************************************************)
(* The queue of a session in driver mode: UnifiedCommandQueue of           *)
(* tools/sessionhelper/sessionhelper/unified_queue.py.  Commands of users, *)
(* agents and Feishu wait in one line; one of them is current.  It is kept *)
(* in memory and each operation holds its lock, so each is one action.     *)
(***************************************************************************)
EXTENDS Naturals, Sequences

CONSTANTS
  Commands,       \* delivery ids
  NoCommand,      \* no command is current
  QueueCapacity   \* busy_buffer_max, at least 1

ASSUME QueueAssumption == NoCommand \notin Commands /\ QueueCapacity \in Nat \ {0}

VARIABLES
  pending,  \* the line
  current,  \* the command that has left it and has not ended
  command,  \* state of each command, "none" if it was never enqueued in this life
  turnOf    \* turn_id of each command, 0 while it has none

queueVars == <<pending, current, command, turnOf>>

Waits   == {"queued", "admitting", "admitted"}
Outcome == {"completed", "interrupted", "failed"}

QueueTypeOK == /\ pending \in Seq(Commands) /\ current \in Commands \cup {NoCommand}
               /\ command \in [Commands -> Waits \cup Outcome \cup {"none"}]
               /\ turnOf \in [Commands -> Nat]

QueueEmpty == /\ pending = <<>> /\ current = NoCommand
              /\ command = [d \in Commands |-> "none"] /\ turnOf = [d \in Commands |-> 0]
QueueInit  == QueueEmpty

Depth == Len(pending) + (IF current = NoCommand THEN 0 ELSE 1)

\* enqueue: a known command is left as it is and a full queue rejects.
Enqueue(d) ==
  /\ command[d] = "none" /\ Depth < QueueCapacity
  /\ pending' = Append(pending, d)
  /\ command' = [command EXCEPT ![d] = "queued"]
  /\ UNCHANGED <<current, turnOf>>

\* start_next
StartNext ==
  /\ current = NoCommand /\ pending # <<>>
  /\ current' = Head(pending) /\ pending' = Tail(pending)
  /\ command' = [command EXCEPT ![Head(pending)] = "admitting"]
  /\ UNCHANGED turnOf

\* admit
Admit(d, t) ==
  /\ current = d /\ t # 0
  /\ command' = [command EXCEPT ![d] = "admitted"]
  /\ turnOf' = [turnOf EXCEPT ![d] = t]
  /\ UNCHANGED <<pending, current>>

\* finish
Finish(d, outcome) ==
  /\ current = d
  /\ command' = [command EXCEPT ![d] = outcome]
  /\ current' = NoCommand
  /\ UNCHANGED <<pending, turnOf>>

\* The helper stops: the queue is gone.
QueueLost == /\ pending' = <<>> /\ current' = NoCommand
             /\ command' = [d \in Commands |-> "none"] /\ turnOf' = [d \in Commands |-> 0]

=============================================================================
