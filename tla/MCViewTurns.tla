---------------------------- MODULE MCViewTurns ----------------------------
EXTENDS ViewTurns
CONSTANTS d1, d2, r1
Bound(o, b, t, f, h, r, d, k) ==
  [offers |-> o, blank |-> b, tries |-> t, forgets |-> f, hubRestarts |-> h,
   restarts |-> r, deaths |-> d, cuts |-> k]
\* No behaviour has messages and a line that is enqueued: they share an id.
MCCommands == {d1, d2}
MCLineIds  == {d2}
\* Pages and an entry that may be blank; messages and everything that can happen
\* to their turns.
MCBounds == {Bound({}, {}, 1, 0, 0, 0, 0, 0), Bound({}, {r1}, 2, 1, 0, 0, 0, 0),
             Bound({}, {r1}, 1, 0, 1, 0, 0, 0), Bound({d1}, {}, 0, 0, 0, 1, 1, 1),
             Bound({d1, d2}, {}, 0, 0, 0, 0, 0, 1), Bound({d1, d2}, {}, 0, 0, 0, 0, 2, 0)}
\* An entry that is repeated after a restart of the hub, and not blank.
MCAgain   == {Bound({}, {}, 1, 0, 1, 0, 0, 0)}
=============================================================================
