--------------------------- MODULE Sessions_proofs ---------------------------
(***************************************************************************)
(* What the hub keeps of its sessions.  First the lock on their input: for *)
(* every number of sessions, pages, codes, unlocks and ticks, the page     *)
(* that may write is a viewer with the token of the unlock in force, it    *)
(* loses the right when it is idle, and TerminalInput implements           *)
(* WriteRight.  Then their registry: for every number of keys, devices,    *)
(* connections and restarts, the map names only connections that are       *)
(* served under that slot, and a connection that is being accepted has an  *)
(* endpoint that is active or overtaken.                                   *)
(***************************************************************************)
EXTENDS SessionRegistry, TerminalInput, TLAPS

-----------------------------------------------------------------------------
(* The input lock *)

\* What the browsers' cookies rest on: the token that a cookie must match is the
\* unlock in force, so that a lock makes every cookie worthless.
CookieOfUnlock ==
  \A s \in Sessions : terminal[s].cookie = unlocked[s] /\ unlocked[s] <= grants

Locked == TypeOK /\ OneUnlock /\ CookieOfUnlock

USE TerminalAssumption

-----------------------------------------------------------------------------
(* Sweeps *)

\* A sweep removes viewers, and the right to write with the writer.
LEMMA SweepKeeps ==
  ASSUME Locked, NEW s \in Sessions, NEW gone \in SUBSET ViewersOf(s)
  PROVE  /\ Without(gone) \in [Viewers -> Viewer \union {Absent}]
         /\ WriterSwept(s, gone) \in [Sessions -> Terminal]
         /\ \A t \in Sessions : WriterSwept(s, gone)[t].cookie = terminal[t].cookie
         /\ \A t \in Sessions : WriterSwept(s, gone)[t].page \in {terminal[t].page, None}
         /\ \A t \in Sessions : WriterSwept(s, gone)[t].page # None =>
              /\ WriterSwept(s, gone)[t] = terminal[t]
              /\ terminal[t].page \in ViewersOf(t) \ gone
<1>1. Without(gone) \in [Viewers -> Viewer \union {Absent}]
  BY DEF Without, Locked, TypeOK
<1>2. terminal \in [Sessions -> Terminal] /\ viewer \in [Viewers -> Viewer \union {Absent}]
  BY DEF Locked, TypeOK
<1>3. CASE terminal[s].page \in gone
  <2>1. WriterSwept(s, gone) = [terminal EXCEPT ![s].page = None, ![s].token = None, ![s].until = 0]
    BY <1>3 DEF WriterSwept
  <2>2. None \in 0..MaxGrant /\ 0 \in 0..MaxClock + TokenTTL
    BY DEF None
  <2>a. DEFINE r == [terminal[s] EXCEPT !.page = None, !.token = None, !.until = 0]
  <2>b. WriterSwept(s, gone) = [terminal EXCEPT ![s] = r]
    BY <1>2, <2>1
  <2>c. r \in Terminal
    BY <1>2, <2>2 DEF Terminal
  <2>3. WriterSwept(s, gone) \in [Sessions -> Terminal]
    BY <1>2, <2>b, <2>c
  <2>4. \A t \in Sessions \ {s} : terminal[t].page \notin gone \/ terminal[t].page = None
    BY DEF Locked, OneUnlock, ViewersOf
  <2> QED BY <1>1, <1>2, <2>1, <2>3, <2>4 DEF Terminal, Locked, OneUnlock
<1>4. CASE terminal[s].page \notin gone
  <2>1. WriterSwept(s, gone) = terminal
    BY <1>4 DEF WriterSwept
  <2>2. \A t \in Sessions \ {s} : terminal[t].page # None => terminal[t].page \notin gone
    BY DEF Locked, OneUnlock, ViewersOf
  <2> QED BY <1>1, <1>2, <1>4, <2>1, <2>2 DEF Locked, OneUnlock
<1> QED BY <1>3, <1>4

-----------------------------------------------------------------------------
(* What a step does to the right to write *)

\* The four ways in which WriteRight lets the right of a session change.
RightMoves(s) ==
  \/ unlocked'[s] = unlocked[s] /\ terminal'[s].page \in {terminal[s].page, None}
  \/ unlocked'[s] = unlocked[s] /\ unlocked[s] # None /\ terminal'[s].page \in Viewers
  \/ unlocked'[s] = None /\ terminal'[s].page = None
  \/ /\ unlocked'[s] > unlocked[s] /\ \A t \in Sessions : unlocked'[s] > unlocked[t]
     /\ terminal'[s].page \in Viewers

LEMMA MovesRefine ==
  ASSUME \A s \in Sessions : RightMoves(s)
  PROVE  Rights!Next
<1> DEFINE holder == [s \in Sessions |-> terminal[s].page]
<1>1. ASSUME NEW s \in Sessions
      PROVE  Rights!Unlocks(s) \/ Rights!Moves(s) \/ Rights!Rests(s) \/ Rights!Locks(s)
  BY <1>1 DEF RightMoves, Rights!Unlocks, Rights!Moves, Rights!Rests, Rights!Locks,
              Rights!None, None
<1> QED BY <1>1 DEF Rights!Next

\* A step that touches neither the writers nor the unlocks, and lets the writers
\* stay viewers of their sessions, keeps the lock.
LEMMA WritersStay ==
  ASSUME Locked, TypeOK', terminal' = terminal, unlocked' = unlocked, grants' = grants,
         \A s \in Sessions : terminal[s].page # None => terminal[s].page \in ViewersOf(s)'
  PROVE  Locked' /\ \A s \in Sessions : RightMoves(s)
BY DEF Locked, OneUnlock, CookieOfUnlock, RightMoves

\* A viewer keeps its session when its record is changed.
LEMMA ViewerStays ==
  ASSUME Locked, NEW v \in Viewers, Present(v), NEW r, r # Absent, r.session = viewer[v].session,
         viewer' = [viewer EXCEPT ![v] = r]
  PROVE  \A s \in Sessions : ViewersOf(s)' = ViewersOf(s)
BY DEF Locked, TypeOK, Present, ViewersOf

\* One that is there has the record of a viewer.
LEMMA IsViewer ==
  ASSUME Locked, NEW s \in Sessions, NEW v \in ViewersOf(s)
  PROVE  v \in Viewers /\ Present(v) /\ viewer[v] \in Viewer /\ viewer[v].session = s
BY DEF Locked, TypeOK, Present, ViewersOf

-----------------------------------------------------------------------------
(* Sessions and pages *)

LEMMA SessionConnectsStep ==
  ASSUME Locked, NEW s \in Sessions, SessionConnects(s)
  PROVE  Locked' /\ \A t \in Sessions : RightMoves(t)
<1>1. TypeOK'
  BY DEF SessionConnects, Locked, TypeOK
<1>2. \A t \in Sessions : ViewersOf(t)' = ViewersOf(t)
  BY DEF SessionConnects, ViewersOf, Present
<1> QED BY <1>1, <1>2, WritersStay DEF SessionConnects, Locked, OneUnlock

LEMMA SessionEndsStep ==
  ASSUME Locked, NEW s \in Sessions, SessionEnds(s)
  PROVE  Locked' /\ \A t \in Sessions : RightMoves(t)
<1>1. Fresh \in Terminal /\ None \in 0..MaxGrant
  BY DEF Fresh, Terminal, None
<1>2. TypeOK'
  BY <1>1 DEF SessionEnds, Locked, TypeOK
<1>3. \A t \in Sessions \ {s} : ViewersOf(t) \subseteq ViewersOf(t)'
  BY DEF SessionEnds, ViewersOf, Present, Locked, TypeOK
<1>4. /\ terminal'[s] = Fresh /\ unlocked'[s] = None
      /\ \A t \in Sessions \ {s} : terminal'[t] = terminal[t] /\ unlocked'[t] = unlocked[t]
      /\ grants' = grants
  BY DEF SessionEnds, Locked, TypeOK
<1>5. OneUnlock'
  BY <1>3, <1>4 DEF Locked, OneUnlock, Fresh
<1>6. CookieOfUnlock'
  BY <1>4 DEF Locked, CookieOfUnlock, Fresh, None, TypeOK
<1>7. \A t \in Sessions : RightMoves(t)
  BY <1>4 DEF RightMoves, Fresh
<1> QED BY <1>2, <1>5, <1>6, <1>7 DEF Locked

\* Whoever sweeps and then adds or takes over a viewer keeps the lock.
LEMMA SweptStep ==
  ASSUME Locked, TypeOK', NEW s \in Sessions, NEW gone \in SUBSET ViewersOf(s),
         terminal' = WriterSwept(s, gone), unlocked' = unlocked, grants' = grants,
         \A t \in Sessions : ViewersOf(t) \ gone \subseteq ViewersOf(t)'
  PROVE  Locked' /\ \A t \in Sessions : RightMoves(t)
<1>1. /\ \A t \in Sessions : terminal'[t].cookie = terminal[t].cookie
      /\ \A t \in Sessions : terminal'[t].page \in {terminal[t].page, None}
      /\ \A t \in Sessions : terminal'[t].page # None =>
           terminal'[t] = terminal[t] /\ terminal[t].page \in ViewersOf(t) \ gone
  BY SweepKeeps
<1>2. OneUnlock'
  BY <1>1 DEF Locked, OneUnlock
<1>3. CookieOfUnlock'
  BY <1>1 DEF Locked, CookieOfUnlock
<1>4. \A t \in Sessions : RightMoves(t)
  BY <1>1 DEF RightMoves
<1> QED BY <1>2, <1>3, <1>4 DEF Locked

\* A new viewer gets a free place and leaves the others as they are.
LEMMA RegisteredKeeps ==
  ASSUME NEW table \in [Viewers -> Viewer \union {Absent}], NEW r,
         \A c \in Codes : [r EXCEPT !.code = c] \in Viewer,
         NEW new \in RegisteredViewer(table, r)
  PROVE  /\ new \in [Viewers -> Viewer \union {Absent}]
         /\ \A v \in Viewers : table[v] # Absent => new[v] = table[v]
<1>1. PICK v \in {w \in Viewers : table[w] = Absent}, c \in FreeCodes(table) :
        new = [table EXCEPT ![v] = [r EXCEPT !.code = c]]
  BY DEF RegisteredViewer
<1>2. c \in Codes
  BY DEF FreeCodes
<1>3. [r EXCEPT !.code = c] \in Viewer
  BY <1>2
<1> QED BY <1>1, <1>3

LEMMA OpenPageStep ==
  ASSUME Locked, NEW s \in Sessions, NEW p \in PageKinds, OpenPage(s, p)
  PROVE  Locked' /\ \A t \in Sessions : RightMoves(t)
<1> DEFINE gone == Disconnected(s)
           left == Without(gone)
<1>1. gone \in SUBSET ViewersOf(s)
  BY DEF Disconnected
<1>2. left \in [Viewers -> Viewer \union {Absent}] /\ WriterSwept(s, gone) \in [Sessions -> Terminal]
  BY <1>1, SweepKeeps
<1>3. PICK c \in {None, jar[s]} :
        LET record  == [session |-> s, page |-> p, code |-> AnyCode, conn |-> TRUE,
                        mark |-> 0, cookie |-> c]
            earlier == {v \in ViewersOf(s) \ gone :
                          p \in PageIds /\ viewer[v].page = p /\ ~viewer[v].conn}
        IN  /\ viewer' \in IF earlier # {}
                           THEN {[left EXCEPT ![v] = [record EXCEPT !.code = viewer[v].code]] :
                                   v \in earlier}
                           ELSE RegisteredViewer(left, record)
            /\ terminal' = WriterSwept(s, gone)
  BY DEF OpenPage
<1> DEFINE record  == [session |-> s, page |-> p, code |-> AnyCode, conn |-> TRUE,
                       mark |-> 0, cookie |-> c]
           earlier == {v \in ViewersOf(s) \ gone :
                         p \in PageIds /\ viewer[v].page = p /\ ~viewer[v].conn}
<1>4. c \in 0..MaxGrant /\ 0 \in Time
  BY DEF Locked, TypeOK, None, Time
<1>5. \A d \in Codes : [record EXCEPT !.code = d] \in Viewer
  BY <1>4 DEF Viewer
<1>6. \A t \in Sessions : \A v \in ViewersOf(t) \ gone : left[v] = viewer[v] /\ left[v] # Absent
  BY DEF Without, ViewersOf, Present
<1>7. /\ viewer' \in [Viewers -> Viewer \union {Absent}]
      /\ \A t \in Sessions : ViewersOf(t) \ gone \subseteq ViewersOf(t)'
  <2>1. CASE earlier # {}
    <3>1. PICK v \in earlier : viewer' = [left EXCEPT ![v] = [record EXCEPT !.code = viewer[v].code]]
      BY <1>3, <2>1
    <3>2. v \in Viewers /\ viewer[v] \in Viewer /\ viewer[v].session = s
      BY IsViewer
    <3>3. viewer[v].code \in Codes
      BY <3>2 DEF Viewer
    <3> DEFINE r == [record EXCEPT !.code = viewer[v].code]
    <3>4. r \in Viewer /\ r.session = s
      BY <1>5, <3>3
    <3>5. r # Absent
      BY <3>4, <1>6, IsViewer DEF Viewer, Absent
    <3>6. viewer' = [left EXCEPT ![v] = r]
      BY <3>1
    <3> HIDE DEF r
    <3>7. viewer' \in [Viewers -> Viewer \union {Absent}]
      BY <3>4, <3>6, <1>2
    <3> QED BY <3>2, <3>4, <3>5, <3>6, <3>7, <1>2, <1>6 DEF ViewersOf, Present
  <2>2. CASE earlier = {}
    <3>1. viewer' \in RegisteredViewer(left, record)
      BY <1>3, <2>2
    <3> HIDE DEF record
    <3>2. /\ viewer' \in [Viewers -> Viewer \union {Absent}]
          /\ \A v \in Viewers : left[v] # Absent => viewer'[v] = left[v]
      BY <1>2, <1>5, <3>1, RegisteredKeeps
    <3> QED BY <3>2, <1>6 DEF ViewersOf, Present
  <2> QED BY <2>1, <2>2
<1>8. TypeOK'
  BY <1>2, <1>3, <1>7 DEF OpenPage, Locked, TypeOK
<1> QED BY <1>1, <1>3, <1>7, <1>8, SweptStep DEF OpenPage

LEMMA RegisterProxyStep ==
  ASSUME Locked, NEW s \in Sessions, RegisterProxy(s)
  PROVE  Locked' /\ \A t \in Sessions : RightMoves(t)
<1> DEFINE gone == Stale(s)
           left == Without(gone)
           record == [session |-> s, page |-> Proxy, code |-> AnyCode, conn |-> FALSE,
                      mark |-> now, cookie |-> None]
<1>1. gone \in SUBSET ViewersOf(s)
  BY DEF Stale
<1>2. left \in [Viewers -> Viewer \union {Absent}] /\ WriterSwept(s, gone) \in [Sessions -> Terminal]
  BY <1>1, SweepKeeps
<1>3. viewer' \in RegisteredViewer(left, record) /\ terminal' = WriterSwept(s, gone)
  BY DEF RegisterProxy
<1>4. \A d \in Codes : [record EXCEPT !.code = d] \in Viewer
  <2>1. now \in Time /\ None \in 0..MaxGrant /\ Proxy \in PageKinds
    BY DEF Locked, TypeOK, None, PageKinds
  <2> QED BY <2>1 DEF Viewer
<1>5. /\ viewer' \in [Viewers -> Viewer \union {Absent}]
      /\ \A v \in Viewers : left[v] # Absent => viewer'[v] = left[v]
  <2> HIDE DEF record
  <2> QED BY <1>2, <1>3, <1>4, RegisteredKeeps
<1>6. \A t \in Sessions : \A v \in ViewersOf(t) \ gone : left[v] = viewer[v] /\ left[v] # Absent
  BY DEF Without, ViewersOf, Present
<1>7. \A t \in Sessions : ViewersOf(t) \ gone \subseteq ViewersOf(t)'
  BY <1>5, <1>6 DEF ViewersOf, Present
<1>8. TypeOK'
  BY <1>2, <1>3, <1>5 DEF RegisterProxy, Locked, TypeOK
<1> QED BY <1>1, <1>3, <1>7, <1>8, SweptStep DEF RegisterProxy

\* The page is let in only with the token of the unlock in force.
LEMMA RestoreFromCookieStep ==
  ASSUME Locked, NEW s \in Sessions, NEW v \in Viewers, RestoreFromCookie(s, v)
  PROVE  Locked' /\ \A t \in Sessions : RightMoves(t)
<1> DEFINE r == [viewer[v] EXCEPT !.cookie = None]
           q == [terminal[s] EXCEPT !.page = v, !.token = viewer[v].cookie, !.until = now + TokenTTL]
<1>1. v \in ViewersOf(s) /\ viewer[v].cookie # None /\ unlocked' = unlocked /\ grants' = grants
  BY DEF RestoreFromCookie
<1>2. Present(v) /\ viewer[v] \in Viewer /\ viewer[v].session = s
  BY <1>1, IsViewer
<1>3. r \in Viewer /\ r.session = viewer[v].session
  BY <1>2 DEF Viewer, None
<1>4. r # Absent
  BY <1>2 DEF Viewer, Absent, Present
<1>5. viewer' = [viewer EXCEPT ![v] = r]
  BY DEF RestoreFromCookie, Locked, TypeOK
<1>6. viewer' \in [Viewers -> Viewer \union {Absent}]
  BY <1>3, <1>5 DEF Locked, TypeOK
<1>7. \A t \in Sessions : ViewersOf(t)' = ViewersOf(t)
  <2> HIDE DEF r
  <2> QED BY <1>2, <1>3, <1>4, <1>5, ViewerStays
<1>8. CASE terminal' = terminal
  <2>1. TypeOK'
    BY <1>6, <1>8 DEF RestoreFromCookie, Locked, TypeOK
  <2> QED BY <1>1, <1>7, <1>8, <2>1, WritersStay DEF Locked, OneUnlock
<1>9. CASE viewer[v].cookie = terminal[s].cookie /\ terminal' = [terminal EXCEPT ![s] = q]
  <2>1. now + TokenTTL \in 0..MaxClock + TokenTTL /\ viewer[v].cookie \in 0..MaxGrant
    BY <1>2 DEF Locked, TypeOK, Time, Viewer
  <2>2. q \in Terminal /\ q.page = v /\ q.token = viewer[v].cookie /\ q.cookie = terminal[s].cookie
    BY <2>1 DEF Locked, TypeOK, Terminal
  <2>3. /\ terminal' \in [Sessions -> Terminal] /\ terminal'[s] = q
        /\ \A t \in Sessions \ {s} : terminal'[t] = terminal[t]
    <3> HIDE DEF q
    <3> QED BY <1>9, <2>2 DEF Locked, TypeOK
  <2>4. TypeOK'
    BY <1>6, <2>3 DEF RestoreFromCookie, Locked, TypeOK
  <2>5. OneUnlock'
    BY <1>1, <1>7, <1>9, <2>2, <2>3 DEF Locked, OneUnlock
  <2>6. CookieOfUnlock'
    BY <1>1, <2>2, <2>3 DEF Locked, CookieOfUnlock
  <2>7. unlocked[s] # None
    BY <1>1, <1>9 DEF Locked, CookieOfUnlock
  <2>8. \A t \in Sessions : RightMoves(t)
    BY <1>1, <2>2, <2>3, <2>7 DEF RightMoves
  <2> QED BY <2>4, <2>5, <2>6, <2>8 DEF Locked
<1>10. \/ terminal' = terminal
       \/ viewer[v].cookie = terminal[s].cookie /\ terminal' = [terminal EXCEPT ![s] = q]
  BY DEF RestoreFromCookie, Locked, TypeOK
<1> QED BY <1>8, <1>9, <1>10

LEMMA ClosePageStep ==
  ASSUME Locked, NEW s \in Sessions, NEW v \in Viewers, ClosePage(s, v)
  PROVE  Locked' /\ \A t \in Sessions : RightMoves(t)
<1>1. v \in ViewersOf(s) /\ unlocked' = unlocked /\ grants' = grants
  BY DEF ClosePage
<1>2. Present(v) /\ viewer[v] \in Viewer /\ viewer[v].session = s
  BY <1>1, IsViewer
<1>3. CASE viewer[v].page \in PageIds
  <2> DEFINE r == [viewer[v] EXCEPT !.conn = FALSE, !.mark = now]
  <2>1. r \in Viewer /\ r.session = viewer[v].session
    BY <1>2 DEF Viewer, Locked, TypeOK
  <2>2. r # Absent
    BY <1>2 DEF Viewer, Absent, Present
  <2>3. viewer' = [viewer EXCEPT ![v] = r] /\ terminal' = terminal
    BY <1>3 DEF ClosePage, Locked, TypeOK
  <2> HIDE DEF r
  <2>4. TypeOK'
    BY <2>1, <2>3 DEF ClosePage, Locked, TypeOK
  <2>5. \A t \in Sessions : ViewersOf(t)' = ViewersOf(t)
    BY <1>2, <2>1, <2>2, <2>3, ViewerStays
  <2> QED BY <1>1, <2>3, <2>4, <2>5, WritersStay DEF Locked, OneUnlock
<1>4. CASE viewer[v].page \notin PageIds
  <2> DEFINE q == [terminal[s] EXCEPT !.page = None, !.until = 0]
  <2>1. viewer' = Without({v}) /\ viewer' \in [Viewers -> Viewer \union {Absent}]
    BY <1>4 DEF ClosePage, Without, Locked, TypeOK
  <2>2. \A t \in Sessions : ViewersOf(t) \ {v} \subseteq ViewersOf(t)'
    BY <2>1 DEF Without, ViewersOf, Present
  <2>a. terminal[s] \in Terminal /\ 0 \in 0..MaxClock + TokenTTL
    BY DEF Locked, TypeOK
  <2>3. q \in Terminal /\ q.page = None /\ q.cookie = terminal[s].cookie
    BY <2>a DEF Terminal
  <2>4. terminal' = IF terminal[s].page = v THEN [terminal EXCEPT ![s] = q] ELSE terminal
    BY <1>4 DEF ClosePage, Locked, TypeOK
  <2> HIDE DEF q
  <2>5. TypeOK'
    BY <2>1, <2>3, <2>4 DEF ClosePage, Locked, TypeOK
  <2>6. /\ \A t \in Sessions : terminal'[t].cookie = terminal[t].cookie
        /\ \A t \in Sessions : terminal'[t].page # None =>
             terminal'[t] = terminal[t] /\ terminal[t].page # v
        /\ \A t \in Sessions : terminal'[t].page \in {terminal[t].page, None}
    <3>1. \A t \in Sessions \ {s} : terminal[t].page # None => terminal[t].page # v
      BY <1>2 DEF Locked, OneUnlock, ViewersOf
    <3>2. terminal \in [Sessions -> Terminal] /\ v # None
      BY DEF Locked, TypeOK, Viewers, None
    <3> QED BY <2>3, <2>4, <3>1, <3>2
  <2>7. OneUnlock'
    BY <2>2, <2>6 DEF Locked, OneUnlock
  <2>8. CookieOfUnlock'
    BY <1>1, <2>6 DEF Locked, CookieOfUnlock
  <2>9. \A t \in Sessions : RightMoves(t)
    BY <1>1, <2>6 DEF RightMoves
  <2> QED BY <2>5, <2>7, <2>8, <2>9 DEF Locked
<1> QED BY <1>3, <1>4

LEMMA PollProxyStep ==
  ASSUME Locked, NEW s \in Sessions, NEW v \in Viewers, PollProxy(s, v)
  PROVE  Locked' /\ \A t \in Sessions : RightMoves(t)
<1> DEFINE r == [viewer[v] EXCEPT !.mark = now]
<1>1. Present(v) /\ viewer[v] \in Viewer
  BY IsViewer DEF PollProxy
<1>2. r \in Viewer /\ r.session = viewer[v].session
  BY <1>1 DEF Viewer, Locked, TypeOK
<1>3. r # Absent
  BY <1>1 DEF Viewer, Absent, Present
<1>4. viewer' = [viewer EXCEPT ![v] = r]
  BY DEF PollProxy
<1> HIDE DEF r
<1>5. TypeOK'
  BY <1>2, <1>4 DEF PollProxy, Locked, TypeOK
<1>6. \A t \in Sessions : ViewersOf(t)' = ViewersOf(t)
  BY <1>1, <1>2, <1>3, <1>4, ViewerStays
<1> QED BY <1>5, <1>6, WritersStay DEF PollProxy, Locked, OneUnlock

LEMMA SaveCookieStep ==
  ASSUME Locked, NEW s \in Sessions, SaveCookie(s)
  PROVE  Locked' /\ \A t \in Sessions : RightMoves(t)
<1>1. terminal[s].cookie \in 0..MaxGrant
  BY DEF Locked, TypeOK, Terminal
<1>2. TypeOK'
  BY <1>1 DEF SaveCookie, Locked, TypeOK
<1>3. \A t \in Sessions : ViewersOf(t)' = ViewersOf(t)
  BY DEF SaveCookie, ViewersOf, Present
<1> QED BY <1>2, <1>3, WritersStay DEF SaveCookie, Locked, OneUnlock

-----------------------------------------------------------------------------
(* Writing and commands *)

\* A step that leaves the pages and cookies of the writers alone.
LEMMA PagesStay ==
  ASSUME Locked, TypeOK', unlocked' = unlocked, grants' = grants,
         \A t \in Sessions : /\ ViewersOf(t)' = ViewersOf(t)
                             /\ terminal'[t].page = terminal[t].page
                             /\ terminal'[t].token = terminal[t].token
                             /\ terminal'[t].cookie = terminal[t].cookie
  PROVE  Locked' /\ \A t \in Sessions : RightMoves(t)
BY DEF Locked, OneUnlock, CookieOfUnlock, RightMoves

LEMMA InputStep ==
  ASSUME Locked, NEW s \in Sessions, NEW v \in Viewers, Input(s, v)
  PROVE  Locked' /\ \A t \in Sessions : RightMoves(t)
<1> DEFINE r == [viewer[v] EXCEPT !.mark = now]
           q == [terminal[s] EXCEPT
                   !.until = now + TokenTTL,
                   !.cookieUntil = IF terminal[s].cookie = terminal[s].token
                                   THEN now + TokenTTL ELSE terminal[s].cookieUntil]
<1>1. Present(v) /\ viewer[v] \in Viewer
  BY IsViewer DEF Input
<1>2. r \in Viewer /\ r.session = viewer[v].session
  BY <1>1 DEF Viewer, Locked, TypeOK
<1>3. r # Absent
  BY <1>1 DEF Viewer, Absent, Present
<1>4. terminal[s] \in Terminal /\ now + TokenTTL \in 0..MaxClock + TokenTTL
  BY DEF Locked, TypeOK, Time
<1>5. /\ q \in Terminal /\ q.page = terminal[s].page
      /\ q.token = terminal[s].token /\ q.cookie = terminal[s].cookie
  BY <1>4 DEF Terminal
<1>6. terminal' = [terminal EXCEPT ![s] = q]
  BY DEF Input, Locked, TypeOK
<1>7. viewer' = viewer \/ viewer' = [viewer EXCEPT ![v] = r]
  BY DEF Input
<1> HIDE DEF r, q
<1>8. TypeOK'
  <2>1. /\ touched' = [touched EXCEPT ![s] = now]
        /\ UNCHANGED <<now, online, jar, grants, command, unlocked>>
    BY DEF Input
  <2>2. terminal' \in [Sessions -> Terminal] /\ viewer' \in [Viewers -> Viewer \union {Absent}]
    BY <1>2, <1>5, <1>6, <1>7 DEF Locked, TypeOK
  <2> QED BY <2>1, <2>2 DEF Locked, TypeOK
<1>9. \A t \in Sessions : ViewersOf(t)' = ViewersOf(t)
  <2>1. CASE viewer' = viewer
    BY <2>1 DEF ViewersOf, Present
  <2>2. CASE viewer' = [viewer EXCEPT ![v] = r]
    BY <1>1, <1>2, <1>3, <2>2, ViewerStays
  <2> QED BY <1>7, <2>1, <2>2
<1>10. \A t \in Sessions : /\ terminal'[t].page = terminal[t].page
                           /\ terminal'[t].token = terminal[t].token
                           /\ terminal'[t].cookie = terminal[t].cookie
  BY <1>5, <1>6 DEF Locked, TypeOK
<1> QED BY <1>8, <1>9, <1>10, PagesStay DEF Input

LEMMA InterruptStep ==
  ASSUME Locked, NEW s \in Sessions, NEW v \in Viewers, Interrupt(s, v)
  PROVE  Locked' /\ \A t \in Sessions : RightMoves(t)
<1> DEFINE q == [terminal[s] EXCEPT !.until = now + TokenTTL]
<1>1. terminal[s] \in Terminal /\ now + TokenTTL \in 0..MaxClock + TokenTTL
  BY DEF Locked, TypeOK, Time
<1>2. /\ q \in Terminal /\ q.page = terminal[s].page
      /\ q.token = terminal[s].token /\ q.cookie = terminal[s].cookie
  BY <1>1 DEF Terminal
<1>3. terminal' = [terminal EXCEPT ![s] = q]
  BY DEF Interrupt
<1> HIDE DEF q
<1>4. TypeOK'
  BY <1>2, <1>3 DEF Interrupt, Locked, TypeOK
<1>5. \A t \in Sessions : ViewersOf(t)' = ViewersOf(t)
  BY DEF Interrupt, ViewersOf, Present
<1>6. \A t \in Sessions : /\ terminal'[t].page = terminal[t].page
                          /\ terminal'[t].token = terminal[t].token
                          /\ terminal'[t].cookie = terminal[t].cookie
  BY <1>2, <1>3 DEF Locked, TypeOK
<1> QED BY <1>4, <1>5, <1>6, PagesStay DEF Interrupt

\* Steps that only look something up, and the clock.
LEMMA LookUpStep ==
  ASSUME Locked, TypeOK', UNCHANGED <<viewer, terminal, grants, unlocked>>
  PROVE  Locked' /\ \A t \in Sessions : RightMoves(t)
<1>1. \A t \in Sessions : ViewersOf(t)' = ViewersOf(t)
  BY DEF ViewersOf, Present
<1> QED BY <1>1, PagesStay

\* A command that carries a code was given by somebody who knows one.
LEMMA CommandTypes ==
  ASSUME Locked
  PROVE  /\ NoCommand \in Command \union {NoCommand} /\ NoCommand.kind = "none"
         /\ command.kind \in {"unlock", "lock"} =>
              command.session \in Sessions /\ command.code \in Codes
         /\ command.kind = "lockAll" => command.sessions \subseteq Sessions
BY DEF Locked, TypeOK, Command, NoCommand

LEMMA LookUpCodeStep ==
  ASSUME Locked, NEW kind \in {"unlock", "lock"}, NEW c \in Codes, LookUpCode(kind, c)
  PROVE  Locked' /\ \A t \in Sessions : RightMoves(t)
<1>1. PICK v \in Viewers :
        /\ Present(v)
        /\ command' = [kind |-> kind, session |-> viewer[v].session,
                       code |-> IF kind = "unlock" THEN c ELSE AnyCode]
  BY DEF LookUpCode
<1>2. viewer[v] \in Viewer /\ viewer[v].session \in Sessions
  BY <1>1 DEF Locked, TypeOK, Present, Viewer
<1>3. AnyCode \in Codes
  <2>1. \E d \in Codes : TRUE
    OBVIOUS
  <2> QED BY <2>1, Zenon DEF AnyCode
<1>4. command' \in Command
  BY <1>1, <1>2, <1>3 DEF Command
<1>5. TypeOK'
  BY <1>4 DEF LookUpCode, Locked, TypeOK
<1> QED BY <1>5, LookUpStep DEF LookUpCode

LEMMA NameSessionStep ==
  ASSUME Locked, NEW kind \in {"unlock", "lock"}, NEW s \in Sessions, NEW c \in Codes,
         NameSession(kind, s, c)
  PROVE  Locked' /\ \A t \in Sessions : RightMoves(t)
<1>1. command' \in Command
  BY DEF NameSession, Command
<1>2. TypeOK'
  BY <1>1 DEF NameSession, Locked, TypeOK
<1> QED BY <1>2, LookUpStep DEF NameSession

LEMMA LookUpAllStep ==
  ASSUME Locked, LookUpAll
  PROVE  Locked' /\ \A t \in Sessions : RightMoves(t)
<1>1. command' \in Command
  BY DEF LookUpAll, Command
<1>2. TypeOK'
  BY <1>1 DEF LookUpAll, Locked, TypeOK
<1> QED BY <1>2, LookUpStep DEF LookUpAll

LEMMA TickStep ==
  ASSUME Locked, Tick
  PROVE  Locked' /\ \A t \in Sessions : RightMoves(t)
<1>1. TypeOK'
  BY DEF Tick, Locked, TypeOK, Time
<1> QED BY <1>1, LookUpStep DEF Tick

\* An unlock is newer than every unlock before it.
LEMMA GrantStep ==
  ASSUME Locked, Grant
  PROVE  Locked' /\ \A t \in Sessions : RightMoves(t)
<1> DEFINE s == command.session
           S == {v \in ViewersOf(s) : viewer[v].code = command.code}
<1>1. s \in Sessions /\ command' \in Command \union {NoCommand}
  BY CommandTypes DEF Grant
<1>2. \A t \in Sessions : ViewersOf(t)' = ViewersOf(t)
  BY DEF Grant, ViewersOf, Present
<1>3. CASE UNCHANGED <<terminal, grants, unlocked, touched>>
  <2>1. TypeOK'
    BY <1>1, <1>3 DEF Grant, Locked, TypeOK
  <2> QED BY <1>3, <2>1, LookUpStep DEF Grant
<1>4. ASSUME NEW v \in S, grants < MaxGrant, grants' = grants + 1,
             terminal' = [terminal EXCEPT ![s] =
               [page |-> v, token |-> grants + 1, until |-> now + TokenTTL,
                cookie |-> grants + 1, cookieUntil |-> now + TokenTTL]],
             unlocked' = [unlocked EXCEPT ![s] = grants + 1],
             touched' = [touched EXCEPT ![s] = now]
      PROVE  Locked' /\ \A t \in Sessions : RightMoves(t)
  <2> DEFINE q == [page |-> v, token |-> grants + 1, until |-> now + TokenTTL,
                   cookie |-> grants + 1, cookieUntil |-> now + TokenTTL]
  <2>1. /\ grants + 1 \in 0..MaxGrant /\ grants \in Nat
        /\ now \in Time /\ now + TokenTTL \in 0..MaxClock + TokenTTL
    BY <1>4 DEF Locked, TypeOK, Time
  <2>2. v \in Viewers /\ v # None
    BY DEF ViewersOf, Viewers, None
  <2>3. /\ q \in Terminal /\ q.page = v /\ q.token = grants + 1 /\ q.cookie = grants + 1
    BY <2>1, <2>2 DEF Terminal
  <2> HIDE DEF q
  <2>4. /\ terminal' \in [Sessions -> Terminal] /\ terminal'[s] = q
        /\ \A t \in Sessions \ {s} : terminal'[t] = terminal[t]
    BY <1>1, <1>4, <2>3 DEF Locked, TypeOK, q
  <2>5. /\ unlocked' \in [Sessions -> 0..MaxGrant] /\ unlocked'[s] = grants + 1
        /\ \A t \in Sessions \ {s} : unlocked'[t] = unlocked[t]
    BY <1>1, <1>4, <2>1 DEF Locked, TypeOK
  <2>6. TypeOK'
    BY <1>1, <1>4, <2>1, <2>4, <2>5 DEF Grant, Locked, TypeOK
  <2>7. OneUnlock'
    BY <1>2, <2>1, <2>2, <2>3, <2>4 DEF Locked, OneUnlock, None
  <2>8. \A t \in Sessions : unlocked[t] \in Nat /\ unlocked[t] <= grants
    BY DEF Locked, TypeOK, CookieOfUnlock
  <2>9. CookieOfUnlock'
    BY <1>4, <2>1, <2>3, <2>4, <2>5, <2>8 DEF Locked, CookieOfUnlock
  <2>10. \A t \in Sessions : RightMoves(t)
    BY <1>1, <2>1, <2>2, <2>3, <2>4, <2>5, <2>8 DEF RightMoves
  <2> QED BY <2>6, <2>7, <2>9, <2>10 DEF Locked
<1> QED BY <1>3, <1>4 DEF Grant

LEMMA LockStep ==
  ASSUME Locked, Lock
  PROVE  Locked' /\ \A t \in Sessions : RightMoves(t)
<1> DEFINE s == command.session
<1>1. s \in Sessions /\ command' \in Command \union {NoCommand}
  BY CommandTypes DEF Lock
<1>2. Fresh \in Terminal /\ None \in 0..MaxGrant
  BY DEF Fresh, Terminal, None
<1>3. TypeOK'
  BY <1>1, <1>2 DEF Lock, Locked, TypeOK
<1>4. /\ terminal'[s] = Fresh /\ unlocked'[s] = None /\ grants' = grants
      /\ \A t \in Sessions \ {s} : terminal'[t] = terminal[t] /\ unlocked'[t] = unlocked[t]
  BY <1>1 DEF Lock, Locked, TypeOK
<1>5. \A t \in Sessions : ViewersOf(t)' = ViewersOf(t)
  BY DEF Lock, ViewersOf, Present
<1>6. OneUnlock'
  BY <1>4, <1>5 DEF Locked, OneUnlock, Fresh
<1>7. CookieOfUnlock'
  BY <1>4 DEF Locked, CookieOfUnlock, Fresh, None, TypeOK
<1>8. \A t \in Sessions : RightMoves(t)
  BY <1>4 DEF RightMoves, Fresh
<1> QED BY <1>3, <1>6, <1>7, <1>8 DEF Locked

LEMMA LockAllStep ==
  ASSUME Locked, LockAll
  PROVE  Locked' /\ \A t \in Sessions : RightMoves(t)
<1> DEFINE S == {s \in command.sessions : terminal[s].page # None}
<1>1. command' \in Command \union {NoCommand}
  BY CommandTypes DEF LockAll
<1>2. Fresh \in Terminal /\ None \in 0..MaxGrant
  BY DEF Fresh, Terminal, None
<1>3. /\ \A t \in Sessions : \/ terminal'[t] = Fresh /\ unlocked'[t] = None
                             \/ terminal'[t] = terminal[t] /\ unlocked'[t] = unlocked[t]
      /\ grants' = grants
  BY DEF LockAll
<1>4. TypeOK'
  BY <1>1, <1>2, <1>3 DEF LockAll, Locked, TypeOK
<1>5. \A t \in Sessions : ViewersOf(t)' = ViewersOf(t)
  BY DEF LockAll, ViewersOf, Present
<1>6. OneUnlock'
  BY <1>3, <1>5 DEF Locked, OneUnlock, Fresh
<1>7. CookieOfUnlock'
  BY <1>3 DEF Locked, CookieOfUnlock, Fresh, None, TypeOK
<1>8. \A t \in Sessions : RightMoves(t)
  BY <1>3 DEF RightMoves, Fresh
<1> QED BY <1>4, <1>6, <1>7, <1>8 DEF Locked

-----------------------------------------------------------------------------
(* Theorems *)

LEMMA LockedInitially ==
  ASSUME Init
  PROVE  Locked /\ Rights!Init
<1>1. /\ Fresh \in Terminal /\ None \in 0..MaxGrant
      /\ \A s \in Sessions : terminal[s] = Fresh /\ unlocked[s] = None
  BY DEF Init, Fresh, Terminal, None
<1>2. TypeOK
  BY <1>1 DEF Init, TypeOK, Time, None
<1>3. OneUnlock /\ CookieOfUnlock
  BY <1>1, <1>2 DEF Init, OneUnlock, CookieOfUnlock, Fresh, None
<1>4. Rights!Init
  BY <1>1, <1>2 DEF Init, TypeOK, Rights!Init, Rights!None, None, Fresh
<1> QED BY <1>2, <1>3, <1>4 DEF Locked

LEMMA LockedKept ==
  ASSUME Locked, Next
  PROVE  Locked' /\ Rights!Next
<1>1. Locked' /\ \A t \in Sessions : RightMoves(t)
  <2>1. CASE \E s \in Sessions : SessionConnects(s) \/ SessionEnds(s) \/ RegisterProxy(s) \/ SaveCookie(s)
    BY <2>1, SessionConnectsStep, SessionEndsStep, RegisterProxyStep, SaveCookieStep
  <2>2. CASE \E s \in Sessions, p \in PageKinds : OpenPage(s, p)
    BY <2>2, OpenPageStep
  <2>3. CASE \E s \in Sessions, v \in Viewers :
               \/ RestoreFromCookie(s, v) \/ ClosePage(s, v) \/ PollProxy(s, v)
               \/ Input(s, v) \/ Interrupt(s, v)
    BY <2>3, RestoreFromCookieStep, ClosePageStep, PollProxyStep, InputStep, InterruptStep
  <2>4. CASE \E kind \in {"unlock", "lock"}, c \in Codes :
               LookUpCode(kind, c) \/ \E s \in Sessions : NameSession(kind, s, c)
    BY <2>4, LookUpCodeStep, NameSessionStep
  <2>5. CASE Grant \/ Lock \/ LookUpAll \/ LockAll \/ Tick
    BY <2>5, GrantStep, LockStep, LookUpAllStep, LockAllStep, TickStep
  <2> QED BY <2>1, <2>2, <2>3, <2>4, <2>5 DEF Next
<1> QED BY <1>1, MovesRefine

LEMMA LockedStutters ==
  ASSUME Locked, UNCHANGED vars
  PROVE  Locked' /\ UNCHANGED <<unlocked, [s \in Sessions |-> terminal[s].page]>>
BY DEF Locked, TypeOK, OneUnlock, CookieOfUnlock, ViewersOf, Present, vars

\* In every state the variables have their types, the page that may write is a
\* viewer of the session with the token of its cookie, and that token is the
\* unlock in force.
THEOREM LockedAlways == Spec => []Locked
<1>1. Locked /\ [Next]_vars => Locked'
  BY LockedKept, LockedStutters
<1> QED BY <1>1, LockedInitially, PTL DEF Spec

\* Every variable keeps its type.
THEOREM TypesAlways == Spec => []TypeOK
<1>1. Locked => TypeOK
  BY DEF Locked
<1> QED BY <1>1, LockedAlways, PTL

\* One page writes, a viewer of the session, and its right and the cookie are of
\* the same unlock (grantTerminalInput, restoreTerminalInputFromCookie, sweeps).
THEOREM OneUnlockAlways == Spec => []OneUnlock
<1>1. Locked => OneUnlock
  BY DEF Locked
<1> QED BY <1>1, LockedAlways, PTL

\* The lock does what WriteRight promises: the right comes with an unlock, moves
\* only while it is in force, and is gone after a lock.
THEOREM RightKept == Spec => KeepsRight
<1>1. Locked /\ [Next]_vars => [Rights!Next]_<<unlocked, [s \in Sessions |-> terminal[s].page]>>
  BY LockedKept, LockedStutters
<1> QED BY <1>1, LockedInitially, LockedAlways, PTL DEF Spec, KeepsRight, Rights!Spec

-----------------------------------------------------------------------------
(* Eight hours without interaction *)

\* No deadline lies further ahead than the last interaction allows.
InTime == \A s \in Sessions :
  /\ touched[s] <= now
  /\ terminal[s].until <= touched[s] + TokenTTL
  /\ terminal[s].cookieUntil <= touched[s] + TokenTTL

\* The right of session s is prolonged only in time.
ProlongedInTime(s) ==
  terminal'[s].until \notin {terminal[s].until, 0} /\ unlocked'[s] = unlocked[s]
    => now <= touched[s] + TokenTTL

\* What a step may do to the deadlines of session s: nothing but let them lapse,
\* or set them anew.
Lapses(s) ==
  /\ touched'[s] = touched[s]
  /\ terminal'[s].until \in {terminal[s].until, 0}
  /\ terminal'[s].cookieUntil \in {terminal[s].cookieUntil, 0}
Renews(s) ==
  /\ touched'[s] = now
  /\ terminal'[s].until = now + TokenTTL
  /\ terminal'[s].cookieUntil \in {terminal[s].cookieUntil, now + TokenTTL}
  /\ unlocked'[s] = unlocked[s] => now <= touched[s] + TokenTTL

\* Deadlines as numbers.
LEMMA Numbers ==
  ASSUME Locked, NEW s \in Sessions
  PROVE  /\ now \in Nat /\ touched[s] \in Nat /\ TokenTTL \in Nat
         /\ terminal[s].until \in Nat /\ terminal[s].cookieUntil \in Nat
<1>1. terminal[s] \in Terminal /\ touched[s] \in Time /\ now \in Time
  BY DEF Locked, TypeOK
<1>2. Time \subseteq Nat /\ 0..MaxClock + TokenTTL \subseteq Nat
  BY DEF Time
<1> QED BY <1>1, <1>2 DEF Terminal

LEMMA InTimeKept ==
  ASSUME Locked, InTime, now' \in {now, now + 1},
         \A s \in Sessions : Lapses(s) \/ Renews(s)
  PROVE  InTime' /\ \A s \in Sessions : ProlongedInTime(s)
<1> SUFFICES ASSUME NEW s \in Sessions
             PROVE  /\ touched'[s] <= now'
                    /\ terminal'[s].until <= touched'[s] + TokenTTL
                    /\ terminal'[s].cookieUntil <= touched'[s] + TokenTTL
                    /\ ProlongedInTime(s)
  BY DEF InTime
<1>1. /\ now \in Nat /\ touched[s] \in Nat /\ TokenTTL \in Nat
      /\ terminal[s].until \in Nat /\ terminal[s].cookieUntil \in Nat
  BY Numbers
<1>2. /\ touched[s] <= now
      /\ terminal[s].until <= touched[s] + TokenTTL
      /\ terminal[s].cookieUntil <= touched[s] + TokenTTL
  BY DEF InTime
<1>3. CASE Lapses(s)
  BY <1>1, <1>2, <1>3 DEF Lapses, ProlongedInTime
<1>4. CASE Renews(s)
  BY <1>1, <1>2, <1>4 DEF Renews, ProlongedInTime
<1> QED BY <1>3, <1>4

\* A sweep takes the right of a writer that it removes.
LEMMA SweepLapses ==
  ASSUME Locked, NEW s \in Sessions, NEW gone, terminal' = WriterSwept(s, gone),
         UNCHANGED touched
  PROVE  \A t \in Sessions : Lapses(t)
<1>1. terminal \in [Sessions -> Terminal]
  BY DEF Locked, TypeOK
<1> QED BY <1>1 DEF WriterSwept, Lapses, Terminal

LEMMA RestoreRenews ==
  ASSUME Locked, InTime, NEW s \in Sessions, NEW v \in Viewers, RestoreFromCookie(s, v)
  PROVE  \A t \in Sessions : Lapses(t) \/ Renews(t)
<1>1. terminal \in [Sessions -> Terminal] /\ touched \in [Sessions -> Time]
  BY DEF Locked, TypeOK
<1>2. CASE viewer[v].cookie = terminal[s].cookie /\ now <= terminal[s].cookieUntil
  <2>1. /\ terminal' = [terminal EXCEPT ![s].page = v, ![s].token = viewer[v].cookie,
                                        ![s].until = now + TokenTTL]
        /\ touched' = [touched EXCEPT ![s] = now]
    BY <1>2 DEF RestoreFromCookie
  <2>2. terminal[s].cookieUntil <= touched[s] + TokenTTL
    BY DEF InTime
  <2>3. now <= touched[s] + TokenTTL
    BY <1>2, <2>2, Numbers
  <2>4. Renews(s)
    BY <1>1, <2>1, <2>3 DEF Renews, Terminal
  <2>5. \A t \in Sessions \ {s} : Lapses(t)
    BY <1>1, <2>1 DEF Lapses
  <2> QED BY <2>4, <2>5
<1>3. CASE ~(viewer[v].cookie = terminal[s].cookie /\ now <= terminal[s].cookieUntil)
  BY <1>3 DEF RestoreFromCookie, Lapses
<1> QED BY <1>2, <1>3

LEMMA WritingRenews ==
  ASSUME Locked, InTime, NEW s \in Sessions, NEW v \in Viewers, Input(s, v) \/ Interrupt(s, v)
  PROVE  \A t \in Sessions : Lapses(t) \/ Renews(t)
<1>1. terminal \in [Sessions -> Terminal] /\ touched \in [Sessions -> Time]
  BY DEF Locked, TypeOK
<1>2. touched' = [touched EXCEPT ![s] = now] /\ now <= terminal[s].until
  BY DEF Input, Interrupt, MayWrite
<1>3. terminal[s].until <= touched[s] + TokenTTL
  BY DEF InTime
<1>4. now <= touched[s] + TokenTTL
  BY <1>2, <1>3, Numbers
<1>5. CASE Input(s, v)
  <2>1. terminal' = [terminal EXCEPT
          ![s].until = now + TokenTTL,
          ![s].cookieUntil = IF terminal[s].cookie = terminal[s].token THEN now + TokenTTL ELSE @]
    BY <1>5 DEF Input
  <2>2. Renews(s)
    BY <1>1, <1>2, <1>4, <2>1 DEF Renews, Terminal
  <2>3. \A t \in Sessions \ {s} : Lapses(t)
    BY <1>1, <1>2, <2>1 DEF Lapses
  <2> QED BY <2>2, <2>3
<1>6. CASE Interrupt(s, v)
  <2>1. terminal' = [terminal EXCEPT ![s].until = now + TokenTTL]
    BY <1>6 DEF Interrupt
  <2>2. Renews(s)
    BY <1>1, <1>2, <1>4, <2>1 DEF Renews, Terminal
  <2>3. \A t \in Sessions \ {s} : Lapses(t)
    BY <1>1, <1>2, <2>1 DEF Lapses
  <2> QED BY <2>2, <2>3
<1> QED BY <1>5, <1>6

LEMMA GrantRenews ==
  ASSUME Locked, Grant
  PROVE  \A t \in Sessions : Lapses(t) \/ Renews(t)
<1> DEFINE s == command.session
           S == {v \in ViewersOf(s) : viewer[v].code = command.code}
<1>1. terminal \in [Sessions -> Terminal] /\ touched \in [Sessions -> Time]
      /\ unlocked \in [Sessions -> 0..MaxGrant] /\ grants \in Nat
  BY DEF Locked, TypeOK
<1>2. s \in Sessions
  BY DEF Grant, Locked, TypeOK, Command, NoCommand
<1>3. CASE UNCHANGED <<terminal, grants, unlocked, touched>>
  BY <1>3 DEF Lapses
<1>4. ASSUME NEW v \in S,
             terminal' = [terminal EXCEPT ![s] =
               [page |-> v, token |-> grants + 1, until |-> now + TokenTTL,
                cookie |-> grants + 1, cookieUntil |-> now + TokenTTL]],
             unlocked' = [unlocked EXCEPT ![s] = grants + 1],
             touched' = [touched EXCEPT ![s] = now]
      PROVE  \A t \in Sessions : Lapses(t) \/ Renews(t)
  <2>1. unlocked[s] <= grants /\ unlocked[s] \in Nat
    BY <1>1, <1>2 DEF Locked, CookieOfUnlock
  <2>2. unlocked'[s] # unlocked[s]
    BY <1>1, <1>2, <1>4, <2>1
  <2>3. Renews(s)
    BY <1>1, <1>2, <1>4, <2>2 DEF Renews
  <2>4. \A t \in Sessions \ {s} : Lapses(t)
    BY <1>1, <1>2, <1>4 DEF Lapses
  <2> QED BY <2>3, <2>4
<1> QED BY <1>3, <1>4 DEF Grant

\* Commands that lock, pages that close and sessions that end reset deadlines.
LEMMA ResetLapses ==
  ASSUME Locked, UNCHANGED touched,
         \A t \in Sessions : terminal'[t] \in {terminal[t], Fresh}
  PROVE  \A t \in Sessions : Lapses(t)
BY DEF Lapses, Fresh

LEMMA EveryStepInTime ==
  ASSUME Locked, InTime, Next
  PROVE  InTime' /\ \A s \in Sessions : ProlongedInTime(s)
<1>t. terminal \in [Sessions -> Terminal]
  BY DEF Locked, TypeOK
<1>1. CASE UNCHANGED <<now, terminal, touched>>
  <2>1. \A s \in Sessions : Lapses(s)
    BY <1>1 DEF Lapses
  <2> QED BY <1>1, <2>1, InTimeKept
<1>2. ASSUME NEW s \in Sessions, NEW gone, terminal' = WriterSwept(s, gone), UNCHANGED <<now, touched>>
      PROVE  InTime' /\ \A t \in Sessions : ProlongedInTime(t)
  BY <1>2, SweepLapses, InTimeKept
<1>3. CASE UNCHANGED <<now, touched>> /\ \A t \in Sessions : terminal'[t] \in {terminal[t], Fresh}
  BY <1>3, ResetLapses, InTimeKept
<1>4. CASE \E s \in Sessions : SessionConnects(s) \/ SaveCookie(s)
  BY <1>1, <1>4 DEF SessionConnects, SaveCookie
<1>5. CASE \E s \in Sessions : SessionEnds(s)
  BY <1>3, <1>5, <1>t DEF SessionEnds
<1>6. CASE \E s \in Sessions : RegisterProxy(s)
  BY <1>2, <1>6 DEF RegisterProxy
<1>7. CASE \E s \in Sessions, p \in PageKinds : OpenPage(s, p)
  BY <1>2, <1>7 DEF OpenPage
<1>8. CASE \E s \in Sessions, v \in Viewers : RestoreFromCookie(s, v)
  <2>1. now' = now
    BY <1>8 DEF RestoreFromCookie
  <2>2. \A t \in Sessions : Lapses(t) \/ Renews(t)
    BY <1>8, RestoreRenews
  <2> QED BY <2>1, <2>2, InTimeKept
<1>9. CASE \E s \in Sessions, v \in Viewers : ClosePage(s, v)
  <2>1. PICK s \in Sessions, v \in Viewers : ClosePage(s, v)
    BY <1>9
  <2>2. UNCHANGED <<now, touched>>
    BY <2>1 DEF ClosePage
  <2>3. terminal' = terminal \/ terminal' = [terminal EXCEPT ![s].page = None, ![s].until = 0]
    BY <2>1 DEF ClosePage
  <2>4. \A t \in Sessions : Lapses(t)
    BY <1>t, <2>2, <2>3 DEF Lapses, Terminal
  <2> QED BY <2>2, <2>4, InTimeKept
<1>10. CASE \E s \in Sessions, v \in Viewers : PollProxy(s, v)
  BY <1>1, <1>10 DEF PollProxy
<1>11. CASE \E s \in Sessions, v \in Viewers : Input(s, v) \/ Interrupt(s, v)
  <2>1. now' = now
    BY <1>11 DEF Input, Interrupt
  <2> QED BY <1>11, <2>1, WritingRenews, InTimeKept
<1>12. CASE \E kind \in {"unlock", "lock"}, c \in Codes :
              LookUpCode(kind, c) \/ \E s \in Sessions : NameSession(kind, s, c)
  BY <1>1, <1>12 DEF LookUpCode, NameSession
<1>13. CASE Grant
  BY <1>13, GrantRenews, InTimeKept DEF Grant
<1>14. CASE Lock
  BY <1>3, <1>14, <1>t DEF Lock
<1>15. CASE LookUpAll
  BY <1>1, <1>15 DEF LookUpAll
<1>16. CASE LockAll
  BY <1>3, <1>16, <1>t DEF LockAll
<1>17. CASE Tick
  <2>1. \A s \in Sessions : Lapses(s)
    BY <1>17 DEF Tick, Lapses
  <2> QED BY <1>17, <2>1, InTimeKept DEF Tick
<1> QED BY <1>4, <1>5, <1>6, <1>7, <1>8, <1>9, <1>10, <1>11, <1>12, <1>13, <1>14, <1>15,
          <1>16, <1>17 DEF Next

\* Nobody gets or prolongs the right in a session that nobody has unlocked,
\* written to or come back to for eight hours, though input, interrupts and
\* reloads prolong different deadlines (routeTerminalInput).
THEOREM IdleAlwaysLocks == Spec => IdleLocks
<1>1. Init => InTime
  BY DEF Init, InTime, Fresh
<1>2. Locked /\ InTime /\ [Next]_vars => InTime'
  BY EveryStepInTime DEF InTime, vars
<1>3. Locked /\ InTime /\ [Next]_vars =>
        [\A s \in Sessions :
           terminal'[s].until \notin {terminal[s].until, 0} /\ unlocked'[s] = unlocked[s]
             => now <= touched[s] + TokenTTL]_vars
  BY EveryStepInTime DEF ProlongedInTime
<1> QED BY <1>1, <1>2, <1>3, LockedAlways, PTL DEF Spec, IdleLocks

-----------------------------------------------------------------------------
(* The registry *)

USE DEF Conns, NoConn, NoDevice, Base, Names, Slots, Devices

\* The map names connections that are served, each under its own slot.
MapServes == \A s \in Slots : clients[s] # NoConn =>
  At(clients[s], "serving") /\ Slot(clients[s]) = s

\* A connection that is being accepted has saved its endpoint.
SavedFirst == \A c \in Conns : At(c, "accepting") => Slot(c) \in active \union overtaken

Reachable == RegistryTypeOK /\ MapServes /\ SavedFirst /\ ServedIsReachable /\ NamesUnique(active)

----------------------------------------------------------------------------
\* The record of a handler that does not run is a handler's.
LEMMA IdleTyped == ASSUME NEW s \in Stages PROVE Idle(s) \in Conn
<1>1. (CHOOSE k \in Keys : TRUE) \in Keys
  <2>1. \E k \in Keys : TRUE BY RegistryAssumption
  <2> QED BY <2>1
<1>2. 0 \in 0..(MaxTry - 1) /\ 1 \in 1..(MaxConn + MaxTry) BY RegistryAssumption, SMT
<1> QED BY <1>1, <1>2 DEF Idle, Conn

\* The slot of a connection is a slot.
LEMMA SlotTyped == ASSUME RegistryTypeOK, NEW c \in Conns PROVE Slot(c) \in Slots
<1>1. conn[c] \in Conn BY DEF RegistryTypeOK
<1> QED BY <1>1 DEF Conn, Slot

\* What a connection is sent, and the broadcasts that are under way, are typed.
LEMMA NothingTyped == Nothing \in Told /\ Late \in Told /\ <<>> \in Seq(Cast)
BY DEF Nothing, Late, Told

LEMMA UnderWayTyped == ASSUME NEW bs \in Seq(Cast) PROVE UnderWay(bs) \in Seq(Cast)
<1>1. CASE \A i \in DOMAIN bs : Ended(bs[i]) BY <1>1, NothingTyped DEF UnderWay
<1>2. CASE ~(\A i \in DOMAIN bs : Ended(bs[i]))
  <2>1. bs # <<>> BY <1>2
  <2>2. Tail(bs) \in Seq(Cast) BY <2>1
  <2> QED BY <1>2, <2>2 DEF UnderWay
<1> QED BY <1>1, <1>2

LEMMA ClosedTyped ==
  ASSUME RegistryTypeOK, NEW c, Closed(c)
  PROVE  told' \in [Conns -> Told] /\ casts' \in Seq(Cast)
<1> DEFINE less == [i \in DOMAIN casts |-> [casts[i] EXCEPT !.to = @ \ {c}]]
<1>1. casts \in Seq(Cast) BY DEF RegistryTypeOK
<1>2. \A i \in DOMAIN casts : casts[i] \in Cast BY <1>1
<1>3. \A i \in DOMAIN casts : [casts[i] EXCEPT !.to = @ \ {c}] \in Cast BY <1>2 DEF Cast
<1>4. less \in [1..Len(casts) -> Cast] /\ Len(casts) \in Nat BY <1>1, <1>3
<1>5. less \in Seq(Cast) BY <1>4
<1>6. casts' \in Seq(Cast) BY <1>5, UnderWayTyped DEF Closed
<1> QED BY <1>6, NothingTyped DEF Closed, RegistryTypeOK

----------------------------------------------------------------------------
\* Every variable has its type at the start.
LEMMA InitReachable == RegistryInit => Reachable
<1> SUFFICES ASSUME RegistryInit PROVE Reachable OBVIOUS
<1>1. Idle("new") \in Conn BY IdleTyped DEF Stages
<1>2. \A c \in Conns : conn[c].stage = "new" BY DEF RegistryInit, Idle
<1>3. 0 \in 0..MaxRestart /\ 0 \in 0..MaxFault BY RegistryAssumption, SMT
<1>4. Registered = {} BY DEF RegistryInit, Registered
<1>5. RegistryTypeOK BY <1>1, <1>3, <1>4, NothingTyped DEF RegistryTypeOK, RegistryInit
<1>6. MapServes BY DEF RegistryInit, MapServes
<1>7. SavedFirst BY <1>2 DEF SavedFirst, At
<1>8. ServedIsReachable BY <1>2, <1>4 DEF ServedIsReachable, At
<1>9. NamesUnique(active) BY DEF RegistryInit, NamesUnique
<1> QED BY <1>5, <1>6, <1>7, <1>8, <1>9 DEF Reachable

----------------------------------------------------------------------------
(* The handshake keeps it. *)

\* What an action that rewrites one handler leaves alone.
LEMMA OthersKept ==
  ASSUME RegistryTypeOK, NEW c \in Conns, NEW r \in Conn, conn' = [conn EXCEPT ![c] = r]
  PROVE  /\ conn' \in [Conns -> Conn]
         /\ conn'[c] = r
         /\ \A b \in Conns \ {c} : conn'[b] = conn[b]
BY DEF RegistryTypeOK

\* A handler that ends, or begins, without having been served.
LEMMA UnservedKept ==
  ASSUME Reachable, NEW c \in Conns, NEW r \in Conn, conn' = [conn EXCEPT ![c] = r],
         ~At(c, "serving"), r.stage \notin {"serving", "accepting"},
         faults' \in 0..MaxFault,
         UNCHANGED <<clients, active, timer, casts, told, restarts, overtaken>>
  PROVE  Reachable'
<1> USE DEF Reachable
<1>1. /\ conn' \in [Conns -> Conn]
      /\ conn'[c] = r
      /\ \A b \in Conns \ {c} : conn'[b] = conn[b]
  BY OthersKept
<1>2. \A s \in Slots : clients[s] # NoConn => clients[s] \in Conns \ {c}
  BY DEF RegistryTypeOK, MapServes, At
<1>3. Registered' = Registered BY DEF Registered
<1>4. RegistryTypeOK' BY <1>1, <1>2, <1>3 DEF RegistryTypeOK, Registered, Slot
<1>5. MapServes' BY <1>1, <1>2 DEF MapServes, At, Slot
<1>6. SavedFirst' BY <1>1 DEF SavedFirst, At, Slot
<1>7. ServedIsReachable' BY <1>1, <1>3 DEF ServedIsReachable, At, Slot
<1>8. NamesUnique(active)' BY DEF NamesUnique
<1> QED BY <1>4, <1>5, <1>6, <1>7, <1>8

LEMMA ArriveReachable ==
  ASSUME Reachable, NEW c \in Conns, NEW h \in Helpers, Arrive(c, h[1], h[2])
  PROVE  Reachable'
<1>1. ~At(c, "serving") BY DEF Arrive, At
<1>2. faults' \in 0..MaxFault
  BY DEF Arrive, Reachable, RegistryTypeOK
<1>3. CASE conn' = [conn EXCEPT ![c] = Idle("gone")]
  <2>1. Idle("gone") \in Conn BY IdleTyped DEF Stages
  <2>2. Idle("gone").stage = "gone" BY DEF Idle
  <2> QED BY <1>1, <1>2, <1>3, <2>1, <2>2, UnservedKept DEF Arrive
<1>4. ASSUME NEW n \in Names,
             conn' = [conn EXCEPT ![c] =
               [Idle("saving") EXCEPT !.key = h[1], !.device = h[2], !.name = n]]
      PROVE  Reachable'
  <2> DEFINE r == [Idle("saving") EXCEPT !.key = h[1], !.device = h[2], !.name = n]
  <2>1. Idle("saving") \in Conn BY IdleTyped DEF Stages
  <2>2. h[1] \in Keys /\ h[2] \in Devices BY RegistryAssumption
  <2>3. r \in Conn BY <2>1, <2>2 DEF Conn
  <2>4. r.stage = "saving" BY DEF Idle
  <2> HIDE DEF r
  <2>5. conn' = [conn EXCEPT ![c] = r] BY <1>4 DEF r
  <2> QED BY <1>1, <1>2, <2>3, <2>4, <2>5, UnservedKept DEF Arrive
<1> QED BY <1>3, <1>4 DEF Arrive

\* Nobody else's endpoint has the name when it is saved.
LEMMA SaveEndpointReachable ==
  ASSUME Reachable, NEW c \in Conns, SaveEndpoint(c) PROVE Reachable'
<1> USE DEF Reachable
<1> DEFINE r == [conn[c] EXCEPT !.stage = "accepting"]
<1>1. conn' = [conn EXCEPT ![c] = r] BY DEF SaveEndpoint, Go
<1>2. conn[c] \in Conn BY DEF RegistryTypeOK
<1>3. r \in Conn BY <1>2 DEF Conn, Stages
<1>4. r.stage = "accepting" /\ r.key = conn[c].key /\ r.name = conn[c].name
  BY <1>2 DEF Conn
<1> HIDE DEF r
<1>5. /\ conn' \in [Conns -> Conn]
      /\ conn'[c] = r
      /\ \A b \in Conns \ {c} : conn'[b] = conn[b]
  BY <1>1, <1>3, OthersKept
<1>6. Slot(c) \in Slots BY SlotTyped
<1>7. \A b \in Conns : Slot(b)' = Slot(b) BY <1>4, <1>5 DEF Slot
<1>8. \A s \in Slots : clients[s] # NoConn => clients[s] \in Conns \ {c}
  BY DEF RegistryTypeOK, MapServes, At, SaveEndpoint
<1>9. Registered' = Registered BY DEF Registered, SaveEndpoint
<1>10. active \union overtaken \subseteq active' \union overtaken' BY DEF SaveEndpoint
<1>11. RegistryTypeOK'
  BY <1>5, <1>6, <1>7, <1>8, <1>9 DEF RegistryTypeOK, SaveEndpoint, Registered
<1>12. MapServes' BY <1>5, <1>7, <1>8 DEF MapServes, At, SaveEndpoint
<1>13. SavedFirst'
  BY <1>5, <1>7, <1>10 DEF SavedFirst, At, SaveEndpoint
<1>14. ServedIsReachable'
  BY <1>4, <1>5, <1>7, <1>9, <1>10 DEF ServedIsReachable, At, SaveEndpoint
<1>15. NamesUnique(active)'
  <2> SUFFICES ASSUME NEW s \in active', NEW t \in active', s[2] = t[2] PROVE s = t
    BY DEF NamesUnique
  <2>1. s \in Slots /\ t \in Slots BY <1>6 DEF SaveEndpoint, RegistryTypeOK
  <2>2. CASE s = Slot(c)
    BY <2>1, <2>2, <1>6 DEF SaveEndpoint, Taken
  <2>3. CASE t = Slot(c)
    BY <2>1, <2>3, <1>6 DEF SaveEndpoint, Taken
  <2>4. CASE s \in active /\ t \in active BY <2>4 DEF NamesUnique
  <2> QED BY <2>2, <2>3, <2>4 DEF SaveEndpoint
<1> QED BY <1>11, <1>12, <1>13, <1>14, <1>15

LEMMA EndTyped ==
  ASSUME Reachable, NEW c \in Conns, End(c)
  PROVE  /\ conn' = [conn EXCEPT ![c] = Idle("gone")]
         /\ Idle("gone") \in Conn /\ Idle("gone").stage = "gone"
<1>1. Idle("gone") \in Conn BY IdleTyped DEF Stages
<1> QED BY <1>1 DEF End, Idle, Reachable, RegistryTypeOK

LEMMA RetryNameReachable ==
  ASSUME Reachable, NEW c \in Conns, RetryName(c) PROVE Reachable'
<1>1. ~At(c, "serving") BY DEF RetryName, At
<1>2. faults' \in 0..MaxFault BY DEF RetryName, Reachable, RegistryTypeOK
<1>3. CASE conn[c].attempt + 1 = MaxTry
  BY <1>1, <1>2, <1>3, EndTyped, UnservedKept DEF RetryName
<1>4. CASE conn[c].attempt + 1 # MaxTry
  <2> DEFINE r == [conn[c] EXCEPT !.attempt = @ + 1, !.name = conn[c].attempt + 2]
  <2>1. conn[c] \in Conn BY DEF Reachable, RegistryTypeOK
  <2>2. conn[c].attempt \in 0..(MaxTry - 1) BY <2>1 DEF Conn
  <2>3. conn[c].attempt + 1 \in 0..(MaxTry - 1) /\ conn[c].attempt + 2 \in Names
    BY <1>4, <2>2, RegistryAssumption, SMT
  <2>4. r \in Conn BY <2>1, <2>3 DEF Conn
  <2>5. r.stage = "saving" BY <2>1 DEF RetryName, At, Conn
  <2>6. conn' = [conn EXCEPT ![c] = r] BY <1>4, <2>1 DEF RetryName, Conn, Reachable, RegistryTypeOK
  <2> HIDE DEF r
  <2> QED BY <1>1, <1>2, <2>4, <2>5, <2>6, UnservedKept DEF RetryName
<1> QED BY <1>3, <1>4

LEMMA AcceptFailsReachable ==
  ASSUME Reachable, NEW c \in Conns, AcceptFails(c) PROVE Reachable'
<1>1. ~At(c, "serving") BY DEF AcceptFails, At
<1>2. faults' \in 0..MaxFault
  BY RegistryAssumption, SMT DEF AcceptFails, Fail, Reachable, RegistryTypeOK
<1> QED BY <1>1, <1>2, EndTyped, UnservedKept DEF AcceptFails

\* The connection that is registered takes the place of the one that was, which
\* is closed.
LEMMA RegisterReachable ==
  ASSUME Reachable, NEW c \in Conns, Register(c) PROVE Reachable'
<1> USE DEF Reachable
<1>1. ~At(c, "serving") BY DEF Register, RegisterAs, At
<1>2. faults' \in 0..MaxFault BY DEF Register, RegisterAs, RegistryTypeOK
<1>3. CASE HeldByOther(c)
  BY <1>1, <1>2, <1>3, EndTyped, UnservedKept DEF Register, RegisterAs
<1>4. CASE ~HeldByOther(c)
  <2> DEFINE old == clients[Slot(c)]
             r   == [conn[c] EXCEPT !.stage = "serving", !.open = TRUE]
  <2>1. /\ clients' = [clients EXCEPT ![Slot(c)] = c]
        /\ timer' = TRUE
        /\ Closed(old)
        /\ conn' = [b \in Conns |-> IF b = c THEN r
                                    ELSE IF b = old THEN [conn[b] EXCEPT !.open = FALSE]
                                    ELSE conn[b]]
        /\ UNCHANGED <<active, restarts, faults, overtaken>>
    BY <1>4 DEF Register, RegisterAs
  <2>2. \A b \in Conns : conn[b] \in Conn BY DEF RegistryTypeOK
  <2>3. r \in Conn /\ r.stage = "serving" /\ r.key = conn[c].key /\ r.name = conn[c].name
    BY <2>2 DEF Conn, Stages
  <2> HIDE DEF r
  <2>4. conn' \in [Conns -> Conn] BY <2>1, <2>2, <2>3 DEF Conn
  <2>5. \A b \in Conns : Slot(b)' = Slot(b) BY <2>1, <2>2, <2>3 DEF Slot, Conn
  <2>6. At(c, "serving")' BY <2>1, <2>3 DEF At
  <2>7. \A b \in Conns \ {c} : conn'[b].stage = conn[b].stage BY <2>1, <2>2 DEF Conn
  <2>8. \A b \in Conns \ {c} : conn'[b].open => conn[b].open /\ b # old
    BY <2>1, <2>2 DEF Conn
  <2>9. Slot(c) \in Slots BY SlotTyped
  <2>10. clients' \in [Slots -> Conns \union {NoConn}] BY <2>1, <2>9 DEF RegistryTypeOK
  <2>11. \A s \in Slots \ {Slot(c)} : clients'[s] = clients[s] BY <2>1 DEF RegistryTypeOK
  <2>12. clients'[Slot(c)] = c BY <2>1, <2>9 DEF RegistryTypeOK
  <2>14. MapServes'
    <3> SUFFICES ASSUME NEW s \in Slots, clients'[s] # NoConn
                 PROVE  At(clients[s], "serving")' /\ Slot(clients[s])' = s
      BY DEF MapServes
    <3>1. CASE s = Slot(c) BY <3>1, <2>5, <2>6, <2>12
    <3>2. CASE s # Slot(c)
      <4>1. clients'[s] = clients[s] /\ clients[s] \in Conns BY <3>2, <2>11 DEF RegistryTypeOK
      <4>2. At(clients[s], "serving") /\ Slot(clients[s]) = s
        BY <4>1 DEF MapServes
      <4> QED BY <4>1, <4>2, <2>5, <2>7, <1>1 DEF At
    <3> QED BY <3>1, <3>2
  <2>15. Registered' \subseteq Registered \union {Slot(c)}
    BY <2>11 DEF Registered
  <2>16. RegistryTypeOK'
    <3>1. \A s \in Registered' : Slot(clients[s])' = s BY <2>14 DEF MapServes, Registered
    <3>2. told' \in [Conns -> Told] /\ casts' \in Seq(Cast) BY <2>1, ClosedTyped
    <3> QED BY <2>1, <2>4, <2>10, <3>1, <3>2 DEF RegistryTypeOK
  <2>17. Slot(c) \in active \union overtaken
    BY DEF SavedFirst, Register, RegisterAs
  <2>18. SavedFirst'
    BY <2>1, <2>5, <2>7, <2>17 DEF SavedFirst, At
  <2>19. ASSUME NEW b \in Conns, At(b, "serving")', conn'[b].open
         PROVE  clients'[Slot(b)'] = b
    <3>1. CASE b = c BY <3>1, <2>5, <2>12
    <3>2. CASE b # c
      <4>1. At(b, "serving") /\ conn[b].open /\ b # old
        BY <3>2, <2>19, <2>7, <2>8 DEF At
      <4>2. clients[Slot(b)] = b BY <4>1 DEF ServedIsReachable
      <4>3. Slot(b) \in Slots /\ Slot(b) # Slot(c) BY <4>1, <4>2, SlotTyped
      <4> QED BY <4>2, <4>3, <2>5, <2>11
    <3> QED BY <3>1, <3>2
  <2>20. ServedIsReachable'
    BY <2>1, <2>15, <2>17, <2>19 DEF ServedIsReachable
  <2>21. NamesUnique(active)' BY <2>1 DEF NamesUnique
  <2> QED BY <2>14, <2>16, <2>18, <2>20, <2>21
<1> QED BY <1>3, <1>4

----------------------------------------------------------------------------
(* The end of a connection keeps it. *)

LEMMA BreakReachable ==
  ASSUME Reachable, NEW c \in Conns, Break(c) PROVE Reachable'
<1> USE DEF Reachable
<1> DEFINE r == [conn[c] EXCEPT !.open = FALSE]
<1>1. conn' = [conn EXCEPT ![c] = r] BY DEF Break
<1>2. conn[c] \in Conn BY DEF RegistryTypeOK
<1>3. r \in Conn /\ r.stage = "serving" /\ ~r.open
      /\ r.key = conn[c].key /\ r.name = conn[c].name
  BY <1>2 DEF Conn, Break, At
<1> HIDE DEF r
<1>4. /\ conn' \in [Conns -> Conn]
      /\ conn'[c] = r
      /\ \A b \in Conns \ {c} : conn'[b] = conn[b]
  BY <1>1, <1>3, OthersKept
<1>5. \A b \in Conns : Slot(b)' = Slot(b) /\ conn'[b].stage = conn[b].stage
                       /\ (conn'[b].open => conn[b].open)
  BY <1>3, <1>4 DEF Slot, Break, At
<1>6. clients' = clients /\ active' = active /\ overtaken' = overtaken BY DEF Break
<1>7. Registered' = Registered BY <1>6 DEF Registered
<1>8. MapServes' BY <1>5, <1>6 DEF MapServes, At, RegistryTypeOK
<1>9. RegistryTypeOK'
  <2>1. \A s \in Registered' : Slot(clients[s])' = s BY <1>8 DEF MapServes, Registered
  <2>2. told' \in [Conns -> Told] /\ casts' \in Seq(Cast) BY ClosedTyped DEF Break
  <2> QED BY <1>4, <2>1, <2>2 DEF RegistryTypeOK, Break
<1>10. SavedFirst' BY <1>5, <1>6 DEF SavedFirst, At
<1>11. ServedIsReachable' BY <1>5, <1>6, <1>7 DEF ServedIsReachable, At
<1>12. NamesUnique(active)' BY <1>6 DEF NamesUnique
<1> QED BY <1>8, <1>9, <1>10, <1>11, <1>12

\* Only the connection that is still registered is removed.
LEMMA CleanUpReachable ==
  ASSUME Reachable, NEW c \in Conns, CleanUp(c) PROVE Reachable'
<1> USE DEF Reachable
<1>1. PICK r \in Conn : /\ conn' = [conn EXCEPT ![c] = r]
                        /\ r.stage \in {"leaving", "gone"}
  <2>1. CASE Current(c)
    <3> DEFINE r == [conn[c] EXCEPT !.stage = "leaving"]
    <3>1. conn' = [conn EXCEPT ![c] = r] BY <2>1 DEF CleanUp, Go
    <3>2. conn[c] \in Conn BY DEF RegistryTypeOK
    <3>3. r \in Conn /\ r.stage = "leaving" BY <3>2 DEF Conn, Stages
    <3> HIDE DEF r
    <3> QED BY <3>1, <3>3
  <2>2. CASE ~Current(c)
    <3>1. End(c) BY <2>2 DEF CleanUp
    <3> QED BY <3>1, EndTyped
  <2> QED BY <2>1, <2>2
<1>2. /\ conn' \in [Conns -> Conn]
      /\ conn'[c] = r
      /\ \A b \in Conns \ {c} : conn'[b] = conn[b]
  BY <1>1, OthersKept
<1>3. Slot(c) \in Slots BY SlotTyped
<1>4. /\ clients' \in [Slots -> Conns \union {NoConn}]
      /\ \A s \in Slots : clients'[s] \in {clients[s], NoConn}
      /\ \A s \in Slots : clients[s] # c => clients'[s] = clients[s]
      /\ \A s \in Slots : clients'[s] # c
  <2>1. clients \in [Slots -> Conns \union {NoConn}] BY DEF RegistryTypeOK
  <2>2. c # NoConn BY SMT
  <2>3. \A s \in Slots : clients[s] = c => s = Slot(c) BY <2>2 DEF MapServes
  <2>4. CASE clients[Slot(c)] = c
    <3>1. clients' = [clients EXCEPT ![Slot(c)] = NoConn] BY <2>4 DEF CleanUp, Current
    <3> QED BY <1>3, <2>1, <2>2, <2>3, <2>4, <3>1
  <2>5. CASE clients[Slot(c)] # c
    <3>1. clients' = clients BY <2>5 DEF CleanUp, Current
    <3> QED BY <2>1, <2>3, <2>5, <3>1
  <2> QED BY <2>4, <2>5
<1>5. UNCHANGED <<active, timer, casts, told, restarts, faults, overtaken>> BY DEF CleanUp
<1>6. Registered' \subseteq Registered BY <1>4 DEF Registered
<1>7. MapServes'
  <2> SUFFICES ASSUME NEW s \in Slots, clients'[s] # NoConn
               PROVE  At(clients[s], "serving")' /\ Slot(clients[s])' = s
    BY DEF MapServes
  <2>1. clients'[s] = clients[s] /\ clients[s] \in Conns \ {c}
    BY <1>4 DEF RegistryTypeOK
  <2>2. At(clients[s], "serving") /\ Slot(clients[s]) = s BY <2>1 DEF MapServes
  <2> QED BY <1>2, <2>1, <2>2 DEF At, Slot
<1>8. RegistryTypeOK'
  <2>1. \A s \in Registered' : Slot(clients[s])' = s BY <1>7 DEF MapServes, Registered
  <2> QED BY <1>1, <1>2, <1>4, <1>5, <2>1 DEF RegistryTypeOK
<1>9. SavedFirst' BY <1>1, <1>2, <1>5 DEF SavedFirst, At, Slot
<1>10. ASSUME NEW b \in Conns, At(b, "serving")', conn'[b].open
       PROVE  clients'[Slot(b)'] = b
  <2>1. b # c BY <1>1, <1>2, <1>10 DEF At
  <2>2. At(b, "serving") /\ conn[b].open /\ Slot(b)' = Slot(b)
    BY <1>2, <1>10, <2>1 DEF At, Slot
  <2>3. clients[Slot(b)] = b BY <2>2 DEF ServedIsReachable
  <2>4. Slot(b) \in Slots BY SlotTyped
  <2> QED BY <1>4, <2>1, <2>2, <2>3, <2>4
<1>11. ServedIsReachable' BY <1>5, <1>6, <1>10 DEF ServedIsReachable
<1>12. NamesUnique(active)' BY <1>5 DEF NamesUnique
<1> QED BY <1>7, <1>8, <1>9, <1>11, <1>12

\* What a late handler marks inactive is overtaken when it is in use again.
LEMMA LeaveReachable ==
  ASSUME Reachable, NEW c \in Conns, Leave(c) PROVE Reachable'
<1> USE DEF Reachable
<1>1. /\ conn' = [conn EXCEPT ![c] = Idle("gone")]
      /\ Idle("gone") \in Conn /\ Idle("gone").stage = "gone"
  BY EndTyped DEF Leave
<1>2. /\ conn' \in [Conns -> Conn]
      /\ conn'[c] = Idle("gone")
      /\ \A b \in Conns \ {c} : conn'[b] = conn[b]
  BY <1>1, OthersKept
<1>3. Slot(c) \in Slots BY SlotTyped
<1>4. /\ active' \subseteq active
      /\ overtaken' \subseteq Slots
      /\ faults' \in 0..MaxFault
  <2>1. CASE UNCHANGED faults BY <1>3, <2>1 DEF Leave, RegistryTypeOK, Fail
  <2>2. CASE Fail /\ UNCHANGED <<active, overtaken>>
    BY <2>2, RegistryAssumption, SMT DEF Fail, RegistryTypeOK
  <2> QED BY <1>3, <2>1, <2>2 DEF Leave
<1>5. ASSUME NEW d \in Conns \ {c}, conn[d].stage \in {"accepting", "serving"},
             Slot(d) \in active \union overtaken
      PROVE  Slot(d) \in active' \union overtaken'
  BY <1>5 DEF Leave, Successor
<1>6. UNCHANGED <<clients, casts, told, restarts>> /\ timer' = TRUE BY DEF Leave
<1>7. \A s \in Slots : clients[s] # NoConn => clients[s] \in Conns \ {c}
  BY DEF RegistryTypeOK, MapServes, At, Leave
<1>8. Registered' = Registered BY <1>6 DEF Registered
<1>9. MapServes' BY <1>2, <1>6, <1>7 DEF MapServes, At, Slot
<1>10. RegistryTypeOK'
  <2>1. \A s \in Registered' : Slot(clients[s])' = s BY <1>9 DEF MapServes, Registered
  <2> QED BY <1>1, <1>2, <1>4, <1>6, <2>1 DEF RegistryTypeOK
<1>11. SavedFirst' BY <1>1, <1>2, <1>5 DEF SavedFirst, At, Slot
<1>12. Registered' \subseteq active' \union overtaken'
  <2> SUFFICES ASSUME NEW s \in Registered PROVE s \in active' \union overtaken'
    BY <1>8
  <2>1. s \in Slots /\ clients[s] \in Conns \ {c} BY <1>7 DEF Registered
  <2>2. At(clients[s], "serving") /\ Slot(clients[s]) = s BY <2>1 DEF MapServes
  <2>3. s \in active \union overtaken BY DEF ServedIsReachable
  <2> QED BY <1>5, <2>1, <2>2, <2>3 DEF At
<1>13. ServedIsReachable'
  BY <1>1, <1>2, <1>6, <1>12 DEF ServedIsReachable, At, Slot
<1>14. NamesUnique(active)' BY <1>4 DEF NamesUnique
<1> QED BY <1>9, <1>10, <1>11, <1>13, <1>14

----------------------------------------------------------------------------
(* The directory and the restart keep it. *)

\* Handlers, map and table stay as they are.
LEMMA RestKept ==
  ASSUME Reachable, UNCHANGED <<conn, clients, active, overtaken, restarts>>,
         timer' \in BOOLEAN, casts' \in Seq(Cast), told' \in [Conns -> Told],
         faults' \in 0..MaxFault
  PROVE  Reachable'
<1> USE DEF Reachable
<1>1. Registered' = Registered BY DEF Registered
<1>2. RegistryTypeOK' BY <1>1 DEF RegistryTypeOK, Slot
<1>3. MapServes' BY DEF MapServes, At, Slot
<1>4. SavedFirst' BY DEF SavedFirst, At, Slot
<1>5. ServedIsReachable' BY <1>1 DEF ServedIsReachable, At, Slot
<1>6. NamesUnique(active)' BY DEF NamesUnique
<1> QED BY <1>2, <1>3, <1>4, <1>5, <1>6

LEMMA FailTyped == ASSUME RegistryTypeOK, Fail PROVE faults' \in 0..MaxFault
BY RegistryAssumption, SMT DEF Fail, RegistryTypeOK

LEMMA BegunTyped ==
  ASSUME RegistryTypeOK, NEW list \in SUBSET Slots, NEW to \in SUBSET Conns, Begun(list, to)
  PROVE  casts' \in Seq(Cast)
<1> DEFINE b == [list |-> list, to |-> to]
<1>1. b \in Cast BY DEF Cast
<1>2. casts \in Seq(Cast) BY DEF RegistryTypeOK
<1> HIDE DEF b
<1>3. Append(casts, b) \in Seq(Cast) BY <1>1, <1>2
<1>4. casts' = UnderWay(Append(casts, b)) BY DEF Begun, b
<1> QED BY <1>3, <1>4, UnderWayTyped

LEMMA FireReachable == ASSUME Reachable, Fire PROVE Reachable'
<1>1. Registered \in SUBSET Slots /\ Connected \in SUBSET Conns
  BY DEF Registered, Connected
<1>2. casts' \in Seq(Cast) BY <1>1, BegunTyped DEF Fire, Reachable
<1> QED BY <1>2, RestKept DEF Fire, Reachable, RegistryTypeOK

LEMMA FireFailsReachable == ASSUME Reachable, FireFails PROVE Reachable'
<1>1. casts' \in Seq(Cast) BY BegunTyped DEF FireFails, Reachable
<1>2. faults' \in 0..MaxFault BY FailTyped DEF FireFails, Reachable
<1>3. told' \in [Conns -> Told] BY NothingTyped DEF FireFails, Reachable, RegistryTypeOK
<1> QED BY <1>1, <1>2, <1>3, RestKept DEF FireFails

LEMMA CastTyped == ASSUME RegistryTypeOK, NEW i \in DOMAIN casts PROVE casts[i] \in Cast
<1>1. casts \in Seq(Cast) BY DEF RegistryTypeOK
<1> QED BY <1>1

LEMMA ThroughTyped ==
  ASSUME RegistryTypeOK, NEW i \in DOMAIN casts, NEW c \in Conns, Through(i, c)
  PROVE  casts' \in Seq(Cast)
<1> DEFINE b    == [casts[i] EXCEPT !.to = @ \ {c}]
           less == [casts EXCEPT ![i].to = @ \ {c}]
<1>1. casts \in Seq(Cast) /\ casts[i] \in Cast BY CastTyped DEF RegistryTypeOK
<1>2. b \in Cast BY <1>1 DEF Cast
<1>3. less = [casts EXCEPT ![i] = b] BY <1>1
<1> HIDE DEF b
<1>4. [casts EXCEPT ![i] = b] \in Seq(Cast) BY <1>1, <1>2
<1>5. casts' = UnderWay(less) BY DEF Through
<1> QED BY <1>3, <1>4, <1>5, UnderWayTyped

LEMMA TellReachable ==
  ASSUME Reachable, NEW i \in DOMAIN casts, NEW c \in Conns, Tell(i, c) PROVE Reachable'
<1>1. casts' \in Seq(Cast) BY ThroughTyped DEF Tell, Reachable
<1>2. casts[i].list \subseteq Slots BY CastTyped DEF Reachable, Cast
<1>3. [list |-> casts[i].list, late |-> FALSE] \in Told BY <1>2 DEF Told
<1>4. told' \in [Conns -> Told] BY <1>3, NothingTyped DEF Tell, Reachable, RegistryTypeOK
<1> QED BY <1>1, <1>4, RestKept DEF Tell, Through, Reachable, RegistryTypeOK

LEMMA GiveUpReachable ==
  ASSUME Reachable, NEW i \in DOMAIN casts, NEW c \in Conns, GiveUp(i, c) PROVE Reachable'
<1>1. casts' \in Seq(Cast) BY ThroughTyped DEF GiveUp, Reachable
<1>2. faults' \in 0..MaxFault BY FailTyped DEF GiveUp, Reachable
<1>3. told' \in [Conns -> Told] BY NothingTyped DEF GiveUp, Reachable, RegistryTypeOK
<1> QED BY <1>1, <1>2, <1>3, RestKept DEF GiveUp, Through, Reachable, RegistryTypeOK

LEMMA RestartReachable == ASSUME Reachable, Restart PROVE Reachable'
<1> USE DEF Reachable
<1>1. Idle("gone") \in Conn BY IdleTyped DEF Stages
<1>2. conn' \in [Conns -> Conn] BY <1>1 DEF Restart, RegistryTypeOK
<1>3. \A c \in Conns : conn'[c].stage \in {"new", "gone"} BY DEF Restart, Idle, At
<1>4. Registered' = {} BY DEF Restart, Registered
<1>5. restarts' \in 0..MaxRestart BY RegistryAssumption, SMT DEF Restart, RegistryTypeOK
<1>6. RegistryTypeOK' BY <1>2, <1>4, <1>5, NothingTyped DEF Restart, RegistryTypeOK
<1>7. MapServes' BY DEF Restart, MapServes
<1>8. SavedFirst' BY <1>3 DEF SavedFirst, At
<1>9. ServedIsReachable' BY <1>3, <1>4 DEF ServedIsReachable, At
<1>10. NamesUnique(active)' BY DEF Restart, NamesUnique
<1> QED BY <1>6, <1>7, <1>8, <1>9, <1>10

----------------------------------------------------------------------------
\* Every step keeps the invariant.
LEMMA StepReachable == Reachable /\ [RegistryNext]_registryVars => Reachable'
<1> SUFFICES ASSUME Reachable, [RegistryNext]_registryVars PROVE Reachable' OBVIOUS
<1>1. CASE UNCHANGED registryVars
  BY <1>1, RestKept DEF registryVars, Reachable, RegistryTypeOK
<1>2. ASSUME NEW c \in Conns, NEW h \in Helpers, Arrive(c, h[1], h[2]) PROVE Reachable'
  BY <1>2, ArriveReachable
<1>3. ASSUME NEW c \in Conns, Break(c) PROVE Reachable'
  BY <1>3, BreakReachable
<1>4. ASSUME NEW c \in Conns, Handle(c) PROVE Reachable'
  BY <1>4, SaveEndpointReachable, RetryNameReachable, AcceptFailsReachable,
     RegisterReachable, CleanUpReachable, LeaveReachable DEF Handle
<1>5. CASE Fire \/ FireFails BY <1>5, FireReachable, FireFailsReachable
<1>6. ASSUME NEW i \in DOMAIN casts, NEW c \in Conns, Tell(i, c) \/ GiveUp(i, c)
      PROVE  Reachable'
  BY <1>6, TellReachable, GiveUpReachable
<1>7. CASE Restart BY <1>7, RestartReachable
<1> QED BY <1>1, <1>2, <1>3, <1>4, <1>5, <1>6, <1>7 DEF RegistryNext

\* The invariant holds in every reachable state (HandleSessionWS as a whole).
THEOREM ReachableAlways == RegistrySpec => []Reachable
<1>1. RegistryInit => Reachable BY InitReachable
<1>2. Reachable /\ [RegistryNext]_registryVars => Reachable' BY StepReachable
<1> QED BY <1>1, <1>2, PTL DEF RegistrySpec

\* Every variable keeps its type, and whoever is in the map of connections is
\* there under his own slot (h.sessionClients).
THEOREM RegistryTypesAlways == RegistrySpec => []RegistryTypeOK
<1>1. Reachable => RegistryTypeOK BY DEF Reachable
<1> QED BY <1>1, ReachableAlways, PTL

\* Who is served is registered, and who is registered is active in the table,
\* whatever late handlers clean up (the deferred function of HandleSessionWS).
THEOREM ServedAlwaysReachable == RegistrySpec => []ServedIsReachable
<1>1. Reachable => ServedIsReachable BY DEF Reachable
<1> QED BY <1>1, ReachableAlways, PTL

\* No two sessions of the owner are reachable under one name, but for endpoints
\* marked inactive late (registerSessionEndpoint and the unique index).
THEOREM NamesAlwaysUnique == RegistrySpec => []NamesUniqueUnlessOvertaken
<1>1. Reachable => NamesUniqueUnlessOvertaken
  BY DEF Reachable, ServedIsReachable, NamesUniqueUnlessOvertaken, NamesUnique
<1> QED BY <1>1, ReachableAlways, PTL

\* Only a registration puts another connection into the map, and it looks at the
\* device of the one that is there under the same mutex.
LEMMA StepKeepsDevice ==
  ASSUME RegistryTypeOK, [RegistryNext]_registryVars, NEW s \in Slots,
         clients[s] # NoConn, clients'[s] \notin {NoConn, clients[s]}
  PROVE  ~OtherDevice(clients[s], conn'[clients'[s]].device)
<1>1. CASE \E c \in Conns : Register(c)
  <2>1. PICK c \in Conns : Register(c) BY <1>1
  <2>2. ~HeldByOther(c) /\ clients' = [clients EXCEPT ![Slot(c)] = c]
    BY <2>1 DEF Register, RegisterAs
  <2>3. s = Slot(c) /\ clients'[s] = c BY <2>2 DEF RegistryTypeOK
  <2>4. conn[c] \in Conn BY DEF RegistryTypeOK
  <2>5. conn'[c] = [conn[c] EXCEPT !.stage = "serving", !.open = TRUE]
    BY <2>1, <2>2 DEF Register, RegisterAs
  <2>6. conn'[c].device = conn[c].device BY <2>4, <2>5 DEF Conn
  <2> QED BY <2>2, <2>3, <2>6 DEF HeldByOther
<1>2. CASE \E c \in Conns : CleanUp(c)
  <2>1. PICK c \in Conns : CleanUp(c) BY <1>2
  <2>2. clients' = clients \/ clients' = [clients EXCEPT ![Slot(c)] = NoConn]
    BY <2>1 DEF CleanUp
  <2>3. clients'[s] \in {NoConn, clients[s]} BY <2>2 DEF RegistryTypeOK
  <2> QED BY <2>3
<1>3. CASE Restart
  BY <1>3 DEF Restart
<1>4. CASE UNCHANGED clients
  BY <1>4
<1>5. (\E c \in Conns : Register(c)) \/ (\E c \in Conns : CleanUp(c)) \/ Restart
      \/ UNCHANGED clients
  BY DEF RegistryNext, registryVars, Handle, Arrive, Break, SaveEndpoint, RetryName, AcceptFails,
         Leave, Fire, FireFails, Tell, GiveUp, Through
<1> QED BY <1>1, <1>2, <1>3, <1>4, <1>5

\* A session held by one device is never taken over by another while it is held,
\* whatever two handshakes read before (the device check under the mutex).
THEOREM DeviceKept == RegistrySpec => DeviceKeeps
<1> DEFINE Kept == \A s \in Slots :
      clients[s] # NoConn /\ clients'[s] \notin {NoConn, clients[s]} =>
        ~OtherDevice(clients[s], conn'[clients'[s]].device)
<1>1. RegistryTypeOK /\ [RegistryNext]_registryVars => [Kept]_registryVars BY StepKeepsDevice
<1>2. RegistrySpec => [][Kept]_registryVars BY <1>1, RegistryTypesAlways, PTL DEF RegistrySpec
<1> QED BY <1>2 DEF DeviceKeeps
=============================================================================
