----------------------------- MODULE FeishuSync -----------------------------
(***************************************************************************)
(* The output of a session sent on to Feishu: "#sync name" shows a person  *)
(* what the session printed last and then everything it prints, gathered   *)
(* for a second, until "#unsync name" or the end of the connection         *)
(* (internal/m8/hub.go, terminal.go).                                      *)
(*                                                                         *)
(* The outputs of a session are numbered.  A listener is a bot and the     *)
(* person it talks to; a feed is a session and a listener of it.           *)
(***************************************************************************)
EXTENDS Directory, SequencesExt

CONSTANT Keep  \* how many outputs are kept for the next listener
ASSUME KeepAssumption == Keep \in Nat \ {0}

Listeners == Bots \X OpenIds
Feeds     == bound.slots \X Listeners

VARIABLES
  printed,  \* the number of outputs of each session
  recent,   \* recentTerminal
  syncs,    \* syncTargets
  buffers,  \* syncBuffers
  handing,  \* the output a session's reader has, and the listeners it read
  sending,  \* messages on the way to the outbound queue
  shown,    \* what each listener of a session was sent
  feeds     \* feeds that began with nothing on its way and have had no
            \* command since, with the first output they are to show

syncVars == <<printed, recent, syncs, buffers, handing, sending, shown, feeds>>
SyncInit ==
  /\ printed = [s \in bound.slots |-> 0] /\ recent = [s \in bound.slots |-> <<>>] /\ syncs = [s \in bound.slots |-> {}]
  /\ buffers = [f \in Feeds |-> <<>>] /\ handing = [s \in bound.slots |-> [item |-> 0, to |-> {}]]
  /\ sending = {} /\ shown = [f \in Feeds |-> <<>>] /\ feeds = <<>>

Copies(i, q) == Cardinality({n \in DOMAIN q : q[n] = i})
OnTheWay(f) == {w \in sending : w.feed = f}
Quiet(f) == buffers[f] = <<>> /\ OnTheWay(f) = {} /\ f[2] \notin handing[f[1]].to
----------------------------------------------------------------------------
\* appendTerminalSyncItemLocked
Kept(q) == IF Len(q) > Keep THEN Tail(q) ELSE q
\* handleTerminalOutputEnvelope: an output that is blank without its controls
\* is not kept.
Output(s) ==
  /\ s \in online /\ handing[s].to = {} /\ printed[s] < bound.outputs
  /\ printed' = [printed EXCEPT ![s] = @ + 1]
  /\ recent' = [recent EXCEPT ![s] = Kept(Append(@, printed'[s]))]
  /\ handing' = [handing EXCEPT ![s] = [item |-> printed'[s], to |-> syncs[s]]]
  /\ UNCHANGED <<syncs, buffers, sending, shown, feeds>>
\* queueFeishuSyncItem, after the lock was released
Hand(s, l) ==
  /\ l \in handing[s].to
  /\ handing' = [handing EXCEPT ![s].to = @ \ {l}]
  /\ buffers' = [buffers EXCEPT ![<<s, l>>] = Append(@, handing[s].item)]
  /\ UNCHANGED <<printed, recent, syncs, sending, shown, feeds>>
\* Mutants: the buffer is not taken away; the listener is not looked up.
FlushKept(f) ==
  /\ buffers[f] # <<>>
  /\ sending' = IF f[2] \in syncs[f[1]] THEN sending \cup {[feed |-> f, items |-> buffers[f]]} ELSE sending
  /\ UNCHANGED <<printed, recent, syncs, buffers, handing, shown, feeds>>
FlushAnyway(f) ==
  /\ buffers[f] # <<>> /\ buffers' = [buffers EXCEPT ![f] = <<>>]
  /\ sending' = sending \cup {[feed |-> f, items |-> buffers[f]]}
  /\ UNCHANGED <<printed, recent, syncs, handing, shown, feeds>>
\* flushFeishuSyncBuffer under the lock
Flush(f) ==
  /\ buffers[f] # <<>>
  /\ buffers' = [buffers EXCEPT ![f] = <<>>]
  /\ sending' = IF f[2] \in syncs[f[1]] THEN sending \cup {[feed |-> f, items |-> buffers[f]]} ELSE sending
  /\ UNCHANGED <<printed, recent, syncs, handing, shown, feeds>>
\* sendFeishuSyncItem: one message, or the next of a snapshot
Show(w) ==
  /\ w \in sending /\ sending' = sending \ {w}
  /\ shown' = [shown EXCEPT ![w.feed] = @ \o w.items]
  /\ UNCHANGED <<printed, recent, syncs, buffers, handing, feeds>>

\* addFeishuSyncTargetAndSnapshot: one step under the lock
AddTarget(s, l) ==
  LET f == <<s, l>> IN
  /\ syncs' = [syncs EXCEPT ![s] = @ \cup {l}]
  /\ sending' = IF recent[s] = <<>> THEN sending ELSE sending \cup {[feed |-> f, items |-> recent[s]]}
  /\ feeds' = IF Quiet(f) /\ l \notin syncs[s]
              THEN Upserted(feeds, f, [from |-> printed[s] - Len(recent[s]) + 1, before |-> Len(shown[f])])
              ELSE [g \in DOMAIN feeds \ {f} |-> feeds[g]]
  /\ UNCHANGED <<printed, recent, buffers, handing, shown>>
\* removeFeishuSyncTarget
RemoveTarget(s, l) ==
  /\ syncs' = [syncs EXCEPT ![s] = @ \ {l}]
  /\ buffers' = [buffers EXCEPT ![<<s, l>>] = <<>>]
  /\ feeds' = [g \in DOMAIN feeds \ {<<s, l>>} |-> feeds[g]]
  /\ UNCHANGED <<printed, recent, handing, sending, shown>>
\* Mutant: the listeners of the connection stay.
CloseSyncKept(s) ==
  /\ recent' = [recent EXCEPT ![s] = <<>>]
  /\ buffers' = [f \in Feeds |-> IF f[1] = s THEN <<>> ELSE buffers[f]]
  /\ feeds' = [g \in {f \in DOMAIN feeds : f[1] # s} |-> feeds[g]]
  /\ UNCHANGED <<printed, syncs, handing, sending, shown>>
\* closeFeishuSyncLocked
CloseSync(s) ==
  /\ recent' = [recent EXCEPT ![s] = <<>>] /\ syncs' = [syncs EXCEPT ![s] = {}]
  /\ buffers' = [f \in Feeds |-> IF f[1] = s THEN <<>> ELSE buffers[f]]
  /\ feeds' = [g \in {f \in DOMAIN feeds : f[1] # s} |-> feeds[g]]
  /\ UNCHANGED <<printed, handing, sending, shown>>
SyncCrash ==
  /\ recent' = [s \in bound.slots |-> <<>>] /\ syncs' = [s \in bound.slots |-> {}]
  /\ buffers' = [f \in Feeds |-> <<>>] /\ handing' = [s \in bound.slots |-> [item |-> 0, to |-> {}]]
  /\ sending' = {} /\ feeds' = <<>>
  /\ UNCHANGED <<printed, shown>>

SyncNext ==
  \/ \E s \in bound.slots : Output(s) \/ \E l \in Listeners : Hand(s, l)
  \/ \E f \in Feeds : Flush(f)
  \/ \E w \in sending : Show(w)
----------------------------------------------------------------------------
\* While one #sync is in force its listener is sent every output once, from
\* the oldest that was kept on: no output falls between the snapshot and what
\* is gathered afterwards, and none is in both.
SyncedOnce ==
  \A f \in DOMAIN feeds :
    LET sent == SubSeq(shown[f], feeds[f].before + 1, Len(shown[f]))
        way(i) == Copies(i, sent) + Copies(i, buffers[f])
                  + Cardinality({w \in OnTheWay(f) : i \in Range(w.items)})
                  + (IF f[2] \in handing[f[1]].to /\ handing[f[1]].item = i THEN 1 ELSE 0)
    IN \A i \in feeds[f].from..printed[f[1]] : way(i) = 1

\* After an #unsync, or the end of the connection, nothing more is sent on:
\* what was gathered, or is handed over late, is dropped.
SyncStops ==
  [][\A f \in Feeds : f[2] \notin syncs[f[1]] /\ f[2] \notin syncs'[f[1]]
       => {w \in sending' : w.feed = f} \subseteq sending]_syncVars
=============================================================================
