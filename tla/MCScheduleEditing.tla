-------------------------- MODULE MCScheduleEditing -------------------------
EXTENDS ScheduleEditing
Bound(m, p, r, d, v, w, f) ==
  [says |-> m, puts |-> p, scans |-> r, days |-> d, versions |-> v, views |-> w, faults |-> f]
\* Edits and failures; reminders of a schedule that is edited; versions of the
\* team schedule and its page.
MCBounds == {Bound(4, 2, 0, 0, 0, 0, 1), Bound(2, 1, 2, 1, 0, 0, 1), Bound(0, 0, 0, 0, 2, 3, 0),
             Bound(2, 1, 0, 0, 3, 0, 0)}
\* A schedule, one postponement, and their confirmations.
MCPostpone == {Bound(4, 2, 0, 0, 0, 0, 0)}
=============================================================================
