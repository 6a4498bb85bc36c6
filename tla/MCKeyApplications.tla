-------------------------- MODULE MCKeyApplications --------------------------
EXTENDS KeyApplications
CONSTANTS a1, a2, o1, o2
\* The ids of other messages are random; the second sorts before the first.
MCMessages == Others \union UNION {{Ask(a), Grant(a), Refuse(a)} : a \in Apps}
Kind(m) == IF m \in Others THEN 0 ELSE IF m[1] = "apply-key-review" THEN 1
           ELSE IF m[1] = "apply-key-grant" THEN 2 ELSE 3
MCIdRank == [m \in MCMessages |->
  IF m = o1 THEN 9 ELSE IF m = o2 THEN 0
  ELSE 2 * Kind(m) + (IF m[2] = a1 THEN 0 ELSE 1)]
=============================================================================
