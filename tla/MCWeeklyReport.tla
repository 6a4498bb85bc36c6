--------------------------- MODULE MCWeeklyReport ---------------------------
EXTENDS WeeklyReport, TLC
\* 1 is a single project, 4 has no owner; 2 and 3 are aggregates and sources of each
\* other.
MCSourcesOf == 2 :> {1, 3} @@ 3 :> {1, 2, 4}
=============================================================================
