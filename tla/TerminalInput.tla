--------------------------- MODULE TerminalInput ---------------------------
(***************************************************************************)
(* Who may type into a session (internal/m8/terminal.go).                  *)
(*                                                                         *)
(* Web pages watch a session; each is a viewer with a code of four digits. *)
(* The owner unlocks one of them with a message that names its code, and   *)
(* locks pages again.  The right to write is a token with a deadline; a    *)
(* browser keeps the token as a cookie, with which a page that is loaded   *)
(* again takes the right back.  A page whose connection breaks keeps its   *)
(* viewer for a while; the proxy pages of the view service have no         *)
(* connection at all.                                                      *)
(*                                                                         *)
(* Each critical section of the hub's mutex is one action.  Commands are   *)
(* those of one owner whom all the sessions belong to.  What a page is     *)
(* told (granted, revoked) changes nothing in the hub, and a page that     *)
(* writes presents the token it was told: neither is modelled.             *)
(***************************************************************************)
EXTENDS Naturals, FiniteSets

CONSTANTS
  Sessions,
  PageIds,     \* pages of a browser that has kept a page id
  Codes,       \* the codes pages are given, 10^4 in the code
  MaxViewer,   \* bound: viewers ever registered
  MaxGrant,    \* bound: unlocks
  MaxClock,    \* bound: time
  TokenTTL,    \* how long the right lasts without interaction (8 hours)
  Grace        \* how long a page that lost its connection keeps its viewer (5 minutes)

ASSUME TerminalAssumption ==
  /\ {MaxViewer, MaxGrant, MaxClock, TokenTTL, Grace} \subseteq Nat

None    == 0
Viewers == 1..MaxViewer
\* Pages without a page id, and the pages of the view service.
Plain == "plain"
Proxy == "proxy"
PageKinds == PageIds \union {Plain, Proxy}

VARIABLES
  now,        \* the clock
  online,     \* sessions whose helper is connected
  viewer,     \* st.viewers of all terminals
  terminal,   \* the writer of each session's terminal
  jar,        \* of each session: the cookie the browser holds
  grants,     \* tokens made so far; they number the tokens
  command,    \* the command that has looked up its code and not yet acted
  unlocked,   \* history: of each session, the unlock that no lock has followed
  touched     \* history: of each session, the last time a page wrote or was let in

vars == <<now, online, viewer, terminal, jar, grants, command, unlocked, touched>>

Time == 0..MaxClock

\* session: the terminal the viewer belongs to; mark: when the connection broke
\* (disconnectedAt), for a proxy when it was last seen; cookie: what the request
\* that opened the page carried, until it was looked at.
Viewer == [session : Sessions, page : PageKinds, code : Codes, conn : BOOLEAN,
           mark : Time, cookie : 0..MaxGrant]
Absent == [page |-> "absent"]

Terminal == [page : Viewers \union {None}, token : 0..MaxGrant, until : 0..MaxClock + TokenTTL,
             cookie : 0..MaxGrant, cookieUntil : 0..MaxClock + TokenTTL]
Fresh == [page |-> None, token |-> None, until |-> 0, cookie |-> None, cookieUntil |-> 0]

Command == [kind : {"unlock", "lock"}, session : Sessions, code : Codes]
             \union [kind : {"lockAll"}, sessions : SUBSET Sessions]
NoCommand == [kind |-> "none"]

TypeOK ==
  /\ now \in Time /\ online \subseteq Sessions
  /\ viewer \in [Viewers -> Viewer \union {Absent}]
  /\ terminal \in [Sessions -> Terminal]
  /\ {jar, unlocked} \subseteq [Sessions -> 0..MaxGrant] /\ grants \in 0..MaxGrant
  /\ command \in Command \union {NoCommand}
  /\ touched \in [Sessions -> Time]

Init ==
  /\ now = 0 /\ online = {} /\ grants = 0 /\ command = NoCommand
  /\ viewer = [v \in Viewers |-> Absent]
  /\ terminal = [s \in Sessions |-> Fresh]
  /\ jar = [s \in Sessions |-> None] /\ unlocked = jar /\ touched = [s \in Sessions |-> 0]

Present(v) == viewer[v] # Absent
ViewersOf(s) == {v \in Viewers : Present(v) /\ viewer[v].session = s}

-----------------------------------------------------------------------------
(* Sessions come and go; the terminal goes with its session. *)

SessionConnects(s) ==
  /\ s \notin online
  /\ online' = online \union {s}
  /\ UNCHANGED <<now, viewer, terminal, jar, grants, command, unlocked, touched>>

\* The deferred cleanup of HandleSessionWS: closeTerminalLocked.
SessionEnds(s) ==
  /\ s \in online
  /\ online' = online \ {s}
  /\ viewer' = [v \in Viewers |-> IF v \in ViewersOf(s) THEN Absent ELSE viewer[v]]
  /\ terminal' = [terminal EXCEPT ![s] = Fresh]
  /\ unlocked' = [unlocked EXCEPT ![s] = None]
  /\ UNCHANGED <<now, jar, grants, command, touched>>

-----------------------------------------------------------------------------
(* Pages *)

\* sweepDisconnectedViewersLocked and sweepStaleViewViewersLocked.
Disconnected(s) ==
  {v \in ViewersOf(s) : viewer[v].page \in PageIds /\ ~viewer[v].conn /\ now > viewer[v].mark + Grace}

Stale(s) == {v \in ViewersOf(s) : viewer[v].page = Proxy /\ now > viewer[v].mark + TokenTTL}

Without(gone) == [v \in Viewers |-> IF v \in gone THEN Absent ELSE viewer[v]]

WriterSwept(s, gone) ==
  IF terminal[s].page \in gone
  THEN [terminal EXCEPT ![s].page = None, ![s].token = None, ![s].until = 0]
  ELSE terminal

\* uniqueTerminalCodeLocked: 64 draws, then any; with 10^4 codes and a few pages
\* it finds one that no viewer of any terminal has.
FreeCodes(table) == Codes \ {table[v].code : v \in {w \in Viewers : table[w] # Absent}}

\* A new viewer.  Ids are random; those of viewers that are gone are used again
\* here, which OneUnlock allows.
RegisteredViewer(table, record) ==
  {[table EXCEPT ![v] = [record EXCEPT !.code = c]] :
     v \in {w \in Viewers : table[w] = Absent}, c \in FreeCodes(table)}

AnyCode == CHOOSE c \in Codes : TRUE

\* A page of a browser connects.  One whose id is that of a viewer that lost its
\* connection takes the viewer over, with its code and its right to write; one
\* that reconnects before the hub has noticed the loss is a new viewer.
OpenPage(s, p) ==
  /\ s \in online /\ p # Proxy
  /\ \E c \in {None, jar[s]} :
       LET gone    == Disconnected(s)
           left    == Without(gone)
           record  == [session |-> s, page |-> p, code |-> AnyCode, conn |-> TRUE,
                       mark |-> 0, cookie |-> c]
           earlier == {v \in ViewersOf(s) \ gone :
                         p \in PageIds /\ viewer[v].page = p /\ ~viewer[v].conn}
       IN  /\ viewer' \in IF earlier # {}
                          THEN {[left EXCEPT ![v] = [record EXCEPT !.code = viewer[v].code]] :
                                  v \in earlier}
                          ELSE RegisteredViewer(left, record)
           /\ terminal' = WriterSwept(s, gone)
  /\ UNCHANGED <<now, online, jar, grants, command, unlocked, touched>>

\* Mutant: the deadline of the cookie is not looked at.
RestoreLate(s, v) ==
  /\ v \in ViewersOf(s) /\ viewer[v].cookie # None
  /\ viewer' = [viewer EXCEPT ![v].cookie = None]
  /\ IF viewer[v].cookie = terminal[s].cookie
     THEN /\ terminal' = [terminal EXCEPT ![s].page = v, ![s].token = viewer[v].cookie,
                                          ![s].until = now + TokenTTL]
          /\ touched' = [touched EXCEPT ![s] = now]
     ELSE UNCHANGED <<terminal, touched>>
  /\ UNCHANGED <<now, online, jar, grants, command, unlocked>>

\* Mutant: any token will do while the session has one.
RestoreAny(s, v) ==
  /\ v \in ViewersOf(s) /\ viewer[v].cookie # None
  /\ viewer' = [viewer EXCEPT ![v].cookie = None]
  /\ IF terminal[s].cookie # None /\ now <= terminal[s].cookieUntil
     THEN /\ terminal' = [terminal EXCEPT ![s].page = v, ![s].token = viewer[v].cookie,
                                          ![s].until = now + TokenTTL]
          /\ touched' = [touched EXCEPT ![s] = now]
     ELSE UNCHANGED <<terminal, touched>>
  /\ UNCHANGED <<now, online, jar, grants, command, unlocked>>

\* restoreTerminalInputFromCookie, after the page has been registered.
RestoreFromCookie(s, v) ==
  /\ v \in ViewersOf(s) /\ viewer[v].cookie # None
  /\ viewer' = [viewer EXCEPT ![v].cookie = None]
  /\ IF viewer[v].cookie = terminal[s].cookie /\ now <= terminal[s].cookieUntil
     THEN /\ terminal' = [terminal EXCEPT ![s].page = v, ![s].token = viewer[v].cookie,
                                          ![s].until = now + TokenTTL]
          /\ touched' = [touched EXCEPT ![s] = now]
     ELSE UNCHANGED <<terminal, touched>>
  /\ UNCHANGED <<now, online, jar, grants, command, unlocked>>

\* The connection of a page ends; the handler has looked at its cookie by then.
ClosePage(s, v) ==
  /\ v \in ViewersOf(s) /\ viewer[v].conn /\ viewer[v].cookie = None
  /\ IF viewer[v].page \in PageIds
     THEN /\ viewer' = [viewer EXCEPT ![v].conn = FALSE, ![v].mark = now]
          /\ UNCHANGED terminal
     ELSE /\ viewer' = Without({v})
          /\ terminal' = IF terminal[s].page = v
                         THEN [terminal EXCEPT ![s].page = None, ![s].until = 0]
                         ELSE terminal
  /\ UNCHANGED <<now, online, jar, grants, command, unlocked, touched>>

\* registerViewViewer: the view service opens a page.
RegisterProxy(s) ==
  /\ s \in online
  /\ viewer' \in RegisteredViewer(Without(Stale(s)),
                            [session |-> s, page |-> Proxy, code |-> AnyCode, conn |-> FALSE,
                             mark |-> now, cookie |-> None])
  /\ terminal' = WriterSwept(s, Stale(s))
  /\ UNCHANGED <<now, online, jar, grants, command, unlocked, touched>>

\* viewWriteState: the view service asks for its page, which keeps the viewer alive.
PollProxy(s, v) ==
  /\ s \in online /\ v \in ViewersOf(s) /\ viewer[v].page = Proxy
  /\ viewer' = [viewer EXCEPT ![v].mark = now]
  /\ UNCHANGED <<now, online, terminal, jar, grants, command, unlocked, touched>>

\* HandleTerminalViewCookie: the page has the browser keep the token it was told.
SaveCookie(s) ==
  /\ s \in online /\ terminal[s].cookie # None /\ now <= terminal[s].cookieUntil
  /\ jar' = [jar EXCEPT ![s] = terminal[s].cookie]
  /\ UNCHANGED <<now, online, viewer, terminal, grants, command, unlocked, touched>>

-----------------------------------------------------------------------------
(* Writing *)

MayWrite(s, v) ==
  /\ terminal[s].page = v /\ terminal[s].token # None /\ now <= terminal[s].until

\* routeTerminalInput: what is written prolongs the right, and the cookie if it
\* is of the same unlock.  The input of a proxy also counts as a sign of life.
Input(s, v) ==
  /\ s \in online /\ v \in ViewersOf(s) /\ MayWrite(s, v)
  /\ viewer[v].conn \/ viewer[v].page = Proxy
  /\ terminal' = [terminal EXCEPT
       ![s].until = now + TokenTTL,
       ![s].cookieUntil = IF terminal[s].cookie = terminal[s].token THEN now + TokenTTL ELSE @]
  /\ viewer' = IF viewer[v].page = Proxy THEN [viewer EXCEPT ![v].mark = now] ELSE viewer
  /\ touched' = [touched EXCEPT ![s] = now]
  /\ UNCHANGED <<now, online, jar, grants, command, unlocked>>

\* HandleInternalViewInterrupt: prolongs the right and not the cookie.
Interrupt(s, v) ==
  /\ s \in online /\ v \in ViewersOf(s) /\ viewer[v].page = Proxy
  /\ MayWrite(s, v) /\ now < terminal[s].until
  /\ terminal' = [terminal EXCEPT ![s].until = now + TokenTTL]
  /\ touched' = [touched EXCEPT ![s] = now]
  /\ UNCHANGED <<now, online, viewer, jar, grants, command, unlocked>>

-----------------------------------------------------------------------------
(* The owner's commands *)

\* "#unlock code" and "#lock code": findTerminalViewerByCode; a code that two
\* viewers have is refused.
LookUpCode(kind, c) ==
  /\ command = NoCommand
  /\ \E v \in Viewers :
       /\ Present(v) /\ viewer[v].code = c
       /\ \A w \in Viewers : Present(w) /\ viewer[w].code = c => w = v
       /\ command' = [kind |-> kind, session |-> viewer[v].session,
                      code |-> IF kind = "unlock" THEN c ELSE AnyCode]
  /\ UNCHANGED <<now, online, viewer, terminal, jar, grants, unlocked, touched>>

\* The commands that name the session: lookupKeyIDForTerminalSession.
NameSession(kind, s, c) ==
  /\ command = NoCommand /\ s \in online /\ (kind = "lock" => c = AnyCode)
  /\ command' = [kind |-> kind, session |-> s, code |-> c]
  /\ UNCHANGED <<now, online, viewer, terminal, jar, grants, unlocked, touched>>

\* grantTerminalInput: no viewer has the code any more, or one gets the right.
Grant ==
  /\ command.kind = "unlock" /\ command' = NoCommand
  /\ LET s == command.session
         S == {v \in ViewersOf(s) : viewer[v].code = command.code}
     IN  \/ /\ S = {} /\ UNCHANGED <<terminal, grants, unlocked, touched>>
         \/ \E v \in S :
              /\ grants < MaxGrant /\ grants' = grants + 1
              /\ terminal' = [terminal EXCEPT ![s] =
                   [page |-> v, token |-> grants + 1, until |-> now + TokenTTL,
                    cookie |-> grants + 1, cookieUntil |-> now + TokenTTL]]
              /\ unlocked' = [unlocked EXCEPT ![s] = grants + 1]
              /\ touched' = [touched EXCEPT ![s] = now]
  /\ UNCHANGED <<now, online, viewer, jar>>

\* Mutant: the cookie outlives the lock.
LockPageOnly ==
  /\ command.kind = "lock" /\ command' = NoCommand
  /\ terminal' = [terminal EXCEPT ![command.session].page = None,
                                ![command.session].token = None]
  /\ unlocked' = [unlocked EXCEPT ![command.session] = None]
  /\ UNCHANGED <<now, online, viewer, jar, grants, touched>>

\* revokeTerminalInput
Lock ==
  /\ command.kind = "lock" /\ command' = NoCommand
  /\ terminal' = [terminal EXCEPT ![command.session] = Fresh]
  /\ unlocked' = [unlocked EXCEPT ![command.session] = None]
  /\ UNCHANGED <<now, online, viewer, jar, grants, touched>>

\* "#lock": revokeTerminalWritersForAccount notes the sessions that have pages ...
LookUpAll ==
  /\ command = NoCommand
  /\ command' = [kind |-> "lockAll", sessions |-> {s \in Sessions : ViewersOf(s) # {}}]
  /\ UNCHANGED <<now, online, viewer, terminal, jar, grants, unlocked, touched>>

\* ... and, when it has looked up their owners, revokes those that have a writer.
\* One whose writer is gone is not counted as locked, and keeps its cookie.
LockAll ==
  /\ command.kind = "lockAll" /\ command' = NoCommand
  /\ LET S == {s \in command.sessions : terminal[s].page # None}
     IN  /\ terminal' = [s \in Sessions |-> IF s \in S THEN Fresh ELSE terminal[s]]
         /\ unlocked' = [s \in Sessions |-> IF s \in S THEN None ELSE unlocked[s]]
  /\ UNCHANGED <<now, online, viewer, jar, grants, touched>>

Tick ==
  /\ now < MaxClock /\ now' = now + 1
  /\ UNCHANGED <<online, viewer, terminal, jar, grants, command, unlocked, touched>>

-----------------------------------------------------------------------------
Next ==
  \/ \E s \in Sessions : SessionConnects(s) \/ SessionEnds(s) \/ RegisterProxy(s) \/ SaveCookie(s)
  \/ \E s \in Sessions, p \in PageKinds : OpenPage(s, p)
  \/ \E s \in Sessions, v \in Viewers :
       \/ RestoreFromCookie(s, v) \/ ClosePage(s, v) \/ PollProxy(s, v)
       \/ Input(s, v) \/ Interrupt(s, v)
  \/ \E kind \in {"unlock", "lock"}, c \in Codes :
       LookUpCode(kind, c) \/ \E s \in Sessions : NameSession(kind, s, c)
  \/ Grant \/ Lock \/ LookUpAll \/ LockAll \/ Tick

Spec == Init /\ [][Next]_vars

-----------------------------------------------------------------------------
(* Properties *)

\* The page that may write is a viewer of the session's terminal, through sweeps,
\* lost connections, reloads and restarts of the session, and its right and the
\* cookie are of the same unlock: a cookie never brings an earlier one back.
OneUnlock ==
  \A s \in Sessions : terminal[s].page # None =>
    /\ terminal[s].page \in ViewersOf(s)
    /\ terminal[s].token # None /\ terminal[s].token = terminal[s].cookie

\* "Taken back after 8 hours without interaction": the right is prolonged, or
\* taken over with a cookie, only in a session that was unlocked, written to or
\* let a page in at most 8 hours before.
IdleLocks ==
  [][\A s \in Sessions :
       terminal'[s].until \notin {terminal[s].until, 0} /\ unlocked'[s] = unlocked[s]
         => now <= touched[s] + TokenTTL]_vars

\* The right to write follows the unlocks and locks as WriteRight says.
Rights == INSTANCE WriteRight WITH
  right  <- unlocked,
  holder <- [s \in Sessions |-> terminal[s].page]

KeepsRight == Rights!Spec
=============================================================================
