----------------------------- MODULE WriteRight -----------------------------
(***************************************************************************)
(* What the input lock of the web terminals promises, without saying how:  *)
(* a session has at most one page that may write; the right to write comes *)
(* with an unlock, moves between pages only while that unlock is in force, *)
(* and is gone after a lock, whatever pages and cookies still remember.    *)
(***************************************************************************)
EXTENDS Naturals

CONSTANTS Sessions, Viewers

None == 0

VARIABLES
  right,     \* of each session: the unlock in force (a number), or None
  holder     \* the viewer that may write, or None

Init == /\ right = [s \in Sessions |-> None]
        /\ holder = [s \in Sessions |-> None]

Unlocks(s) == /\ right'[s] > right[s] /\ \A t \in Sessions : right'[s] > right[t]
              /\ holder'[s] \in Viewers

Moves(s)   == right'[s] = right[s] /\ right[s] # None /\ holder'[s] \in Viewers

Rests(s)   == right'[s] = right[s] /\ holder'[s] \in {holder[s], None}

Locks(s)   == right'[s] = None /\ holder'[s] = None

Next == \A s \in Sessions : Unlocks(s) \/ Moves(s) \/ Rests(s) \/ Locks(s)

Spec == Init /\ [][Next]_<<right, holder>>
=============================================================================
