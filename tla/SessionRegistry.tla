------------------------- MODULE SessionRegistry -------------------------
(***************************************************************************)
(* How helper sessions join and leave the hub (HandleSessionWS and what it *)
(* calls in internal/m8/hub.go, session_endpoint in internal/store).       *)
(*                                                                         *)
(* Each connection runs a handler of its own.  It is checked against the   *)
(* device that holds the session, gets a name from the table of endpoints, *)
(* is accepted, replaces the connection that was registered for the same   *)
(* key and name, and arms the broadcast of the online directory; when it   *)
(* breaks, the handler removes it and marks the endpoint inactive.  The    *)
(* hub's mutex protects the map of connections; the table is written       *)
(* outside it, so that the steps of two handlers interleave.               *)
(*                                                                         *)
(* All keys belong to one owner and ask for the same name, the case where  *)
(* names must be told apart.  Reads of the database succeed.  What only the *)
(* display uses (conn_seq, tool, version, times) is left out.              *)
(***************************************************************************)
EXTENDS Naturals, Sequences

CONSTANTS
  Keys,        \* API keys of the owner
  Helpers,     \* who may connect: pairs of a key and a device, NoDevice if none is reported
  MaxConn,     \* bound: connections ever made
  MaxTry,      \* how many names are tried for a connection (100)
  MaxRestart,  \* bound: restarts of the hub
  MaxCast,     \* bound: broadcasts of the directory under way at a time
  MaxFault     \* bound: times that a step fails (accepting a connection, marking an
               \* endpoint, reading the directory, writing it to a connection)

ASSUME RegistryAssumption ==
  /\ {MaxConn, MaxTry, MaxRestart, MaxCast, MaxFault} \subseteq Nat
  /\ MaxTry > 0 /\ MaxCast > 0
  /\ Keys # {}
  /\ \A h \in Helpers : h[1] \in Keys

Conns    == 1..MaxConn
NoConn   == 0
NoDevice == "none"
\* The requested name and its suffixed forms: n is suffixedSessionName(base, n).
Base  == 1
Names == 1..(MaxConn + MaxTry)
Slots == Keys \X Names
Devices == {h[2] : h \in Helpers}

VARIABLES
  conn,      \* the handlers
  clients,   \* h.sessionClients
  active,    \* slots whose row in session_endpoint is active
  timer,     \* h.onlineTimers[owner] is set
  casts,     \* broadcasts under way, by the order of their snapshots
  told,      \* what each open connection was sent last
  restarts,
  faults,
  overtaken  \* history: slots marked inactive by a handler that was late

registryVars == <<conn, clients, active, timer, casts, told, restarts, faults, overtaken>>

Stages == {"new", "saving", "accepting", "serving", "leaving", "gone"}
Conn == [stage : Stages, key : Keys, device : Devices \union {NoDevice},
         name : Names, attempt : 0..(MaxTry - 1), open : BOOLEAN]
\* The snapshot a broadcast has taken: the sessions, and the connections that it
\* has yet to write to.
Cast == [list : SUBSET Slots, to : SUBSET Conns]
\* The directory a connection was sent last, but for one that came after a newer
\* one, or in place of one that was lost: it is late.
Told == [list : SUBSET Slots, late : BOOLEAN]
Nothing == [list |-> {}, late |-> FALSE]
Late    == [list |-> {}, late |-> TRUE]

\* The record of a handler that does not run; what it was is forgotten.
Idle(s) == [stage |-> s, key |-> CHOOSE k \in Keys : TRUE, device |-> NoDevice,
            name |-> Base, attempt |-> 0, open |-> FALSE]

Slot(c)  == <<conn[c].key, conn[c].name>>
At(c, s) == conn[c].stage = s
Go(c, s) == conn' = [conn EXCEPT ![c].stage = s]
End(c)   == conn' = [conn EXCEPT ![c] = Idle("gone")]

Registered == {s \in Slots : clients[s] # NoConn}
Connected  == {c \in Conns : conn[c].open /\ clients[Slot(c)] = c}

\* Both helpers report a device and it is not the same one.
OtherDevice(c, d) ==
  /\ c # NoConn
  /\ NoDevice \notin {conn[c].device, d}
  /\ conn[c].device # d

RegistryInit ==
  /\ conn = [c \in Conns |-> Idle("new")]
  /\ clients = [s \in Slots |-> NoConn]
  /\ active = {}
  /\ timer = FALSE
  /\ casts = <<>>
  /\ told = [c \in Conns |-> Nothing]
  /\ restarts = 0
  /\ faults = 0
  /\ overtaken = {}

\* A broadcast is forgotten when it has ended and so have all older ones.
Ended(b) == b.to = {}
UnderWay(bs) ==
  IF \A i \in DOMAIN bs : Ended(bs[i]) THEN <<>>
  ELSE IF Ended(bs[1]) THEN Tail(bs)
  ELSE bs

\* A connection is closed: what is written to it is lost.
Closed(c) ==
  /\ told' = [b \in Conns |-> IF b = c THEN Nothing ELSE told[b]]
  /\ casts' = UnderWay([i \in DOMAIN casts |-> [casts[i] EXCEPT !.to = @ \ {c}]])

----------------------------------------------------------------------------
(* The handshake. *)

\* nextSessionNameForOwner: the requested name if this key's endpoint of that
\* name is active or nobody's is, else the first suffixed name not in use.
Used == {s[2] : s \in active}
NextName(k, n) ==
  IF <<k, Base>> \in active \/ Base \notin Used THEN n = Base
  ELSE n \notin Used /\ \A m \in Names : m < n => m \in Used

\* A helper connects.  Whoever reports a device is refused while another device
\* holds the session under the name it asks for; else a name is chosen.  (This
\* check is made again below: nothing rests on what happens between the two.)
\* Connections are numbered as they come.
Arrive(c, k, d) ==
  /\ At(c, "new")
  /\ \A b \in Conns : b < c => ~At(b, "new")
  /\ IF OtherDevice(clients[<<k, Base>>], d)
     THEN conn' = [conn EXCEPT ![c] = Idle("gone")]
     ELSE \E n \in Names :
       /\ NextName(k, n)
       /\ conn' = [conn EXCEPT ![c] =
            [Idle("saving") EXCEPT !.key = k, !.device = d, !.name = n]]
  /\ UNCHANGED <<clients, active, timer, casts, told, restarts, faults, overtaken>>

\* A table without the unique index.
TakenNever(s) == FALSE

\* ux_session_endpoint_owner_active_name: one active endpoint of a name.
Taken(s) == \E k \in Keys \ {s[1]} : <<k, s[2]>> \in active

SaveEndpoint(c) ==
  /\ At(c, "saving")
  /\ ~Taken(Slot(c))
  /\ active' = active \union {Slot(c)}
  /\ overtaken' = overtaken \ {Slot(c)}
  /\ Go(c, "accepting")
  /\ UNCHANGED <<clients, timer, casts, told, restarts, faults>>

\* A retry that asks for the name it was refused.
RetryUncounted(c) ==
  /\ At(c, "saving")
  /\ Taken(Slot(c))
  /\ conn' = [conn EXCEPT ![c].name = conn[c].attempt]
  /\ UNCHANGED <<clients, active, timer, casts, told, restarts, faults, overtaken>>

\* The n-th retry takes the suffix n + 1, whatever names are in use; after MaxTry
\* tries the connection is refused.
RetryName(c) ==
  /\ At(c, "saving")
  /\ Taken(Slot(c))
  /\ IF conn[c].attempt + 1 = MaxTry
     THEN End(c)
     ELSE conn' = [conn EXCEPT ![c].attempt = @ + 1, ![c].name = conn[c].attempt + 2]
  /\ UNCHANGED <<clients, active, timer, casts, told, restarts, faults, overtaken>>

\* The upgrade or the increment of conn_seq fails: the handler just returns.
Fail == faults < MaxFault /\ faults' = faults + 1

AcceptFails(c) ==
  /\ At(c, "accepting")
  /\ Fail
  /\ End(c)
  /\ UNCHANGED <<clients, active, timer, casts, told, restarts, overtaken>>

\* Registration without the second device check.
HeldByNobody(c) == FALSE

\* The connection is accepted.  The second device check and the registration are
\* under the mutex; after them the timer of the directory is started again.
HeldByOther(c) == OtherDevice(clients[Slot(c)], conn[c].device)

RegisterAs(c, refused, armed) ==
  LET old == clients[Slot(c)] IN
  /\ At(c, "accepting")
  /\ IF refused
     THEN /\ End(c)
          /\ UNCHANGED <<clients, timer, casts, told>>
     ELSE /\ clients' = [clients EXCEPT ![Slot(c)] = c]
          /\ timer' = armed
          /\ Closed(old)
          /\ conn' = [b \in Conns |->
               IF b = c THEN [conn[c] EXCEPT !.stage = "serving", !.open = TRUE]
               ELSE IF b = old THEN [conn[b] EXCEPT !.open = FALSE]
               ELSE conn[b]]
  /\ UNCHANGED <<active, restarts, faults, overtaken>>

\* Registration that arms no broadcast.
RegisterSilent(c) == RegisterAs(c, HeldByOther(c), timer)

Register(c) == RegisterAs(c, HeldByOther(c), TRUE)

----------------------------------------------------------------------------
(* The end of a connection. *)

\* The helper goes away, or the watchdogs of silence and of pings close it.
Break(c) ==
  /\ At(c, "serving")
  /\ conn[c].open
  /\ conn' = [conn EXCEPT ![c].open = FALSE]
  /\ Closed(c)
  /\ UNCHANGED <<clients, active, timer, restarts, faults, overtaken>>

\* Cleanup that does not ask whether the connection is still the registered one.
CurrentAlways(c) == TRUE

\* The deferred function, up to where it releases the mutex: only the connection
\* that is still registered is removed.
Current(c) == clients[Slot(c)] = c

CleanUp(c) ==
  /\ At(c, "serving")
  /\ ~conn[c].open
  /\ IF Current(c)
     THEN /\ clients' = [clients EXCEPT ![Slot(c)] = NoConn]
          /\ Go(c, "leaving")
     ELSE /\ UNCHANGED clients
          /\ End(c)
  /\ UNCHANGED <<active, timer, casts, told, restarts, faults, overtaken>>

\* And the rest of it.  By then a newer handler may have saved the same endpoint.
Successor(c) == \E d \in Conns \ {c} :
  /\ Slot(d) = Slot(c)
  /\ conn[d].stage \in {"accepting", "serving"}

Leave(c) ==
  /\ At(c, "leaving")
  /\ \/ /\ active' = active \ {Slot(c)}
        /\ overtaken' = IF Successor(c) THEN overtaken \union {Slot(c)} ELSE overtaken
        /\ UNCHANGED faults
     \/ /\ Fail
        /\ UNCHANGED <<active, overtaken>>
  /\ timer' = TRUE
  /\ End(c)
  /\ UNCHANGED <<clients, casts, told, restarts>>

----------------------------------------------------------------------------
(* The online directory. *)

Begun(list, to) == casts' = UnderWay(Append(casts, [list |-> list, to |-> to]))

\* The timer fires: a goroutine of its own clears it, reads the database and takes
\* a snapshot of the registered connections, whether or not an older broadcast
\* has ended.  (A timer that is armed meanwhile fires later and takes its own.)
Fire ==
  /\ timer
  /\ Len(casts) < MaxCast
  /\ timer' = FALSE
  /\ Begun(Registered, Connected)
  /\ UNCHANGED <<conn, clients, active, told, restarts, faults, overtaken>>

\* A read of the database fails: nobody gets this list.
FireFails ==
  /\ timer
  /\ Len(casts) < MaxCast
  /\ Fail
  /\ timer' = FALSE
  /\ Begun({}, {})
  /\ told' = [c \in Conns |-> IF c \in Connected THEN Late ELSE told[c]]
  /\ UNCHANGED <<conn, clients, active, restarts, overtaken>>

\* One of the broadcast's goroutines is through with its connection.
Through(i, c) ==
  /\ c \in casts[i].to
  /\ casts' = UnderWay([casts EXCEPT ![i].to = @ \ {c}])
  /\ UNCHANGED <<conn, clients, active, timer, restarts, overtaken>>

Newer(i) == {j \in DOMAIN casts : j > i}

\* It writes the list.  The goroutines of two broadcasts meet at the mutex of the
\* connection, in any order: the list is late if the connection is through with a
\* newer one.
Tell(i, c) ==
  /\ Through(i, c)
  /\ told' = [told EXCEPT ![c] =
       IF \E j \in Newer(i) : c \notin casts[j].to THEN Late
       ELSE [list |-> casts[i].list, late |-> FALSE]]
  /\ UNCHANGED faults

\* It gives up after five seconds behind another writer, and the error is dropped:
\* what the connection has is late, unless there is a newer broadcast.
GiveUp(i, c) ==
  /\ Through(i, c)
  /\ Fail
  /\ told' = IF Newer(i) = {} THEN [told EXCEPT ![c] = Late] ELSE told

----------------------------------------------------------------------------
\* The hub stops and starts again: connections, map and timers are lost, the
\* table is not.
Restart ==
  /\ restarts < MaxRestart
  /\ restarts' = restarts + 1
  /\ conn' = [c \in Conns |-> IF At(c, "new") THEN conn[c] ELSE Idle("gone")]
  /\ told' = [c \in Conns |-> Nothing]
  /\ clients' = [s \in Slots |-> NoConn]
  /\ timer' = FALSE
  /\ casts' = <<>>
  /\ overtaken' = {}
  /\ UNCHANGED <<active, faults>>

Handle(c) ==
  \/ SaveEndpoint(c)
  \/ RetryName(c)
  \/ AcceptFails(c)
  \/ Register(c)
  \/ CleanUp(c)
  \/ Leave(c)

RegistryNext ==
  \/ \E c \in Conns : \/ \E h \in Helpers : Arrive(c, h[1], h[2])
                      \/ Break(c)
                      \/ Handle(c)
  \/ Fire \/ FireFails
  \/ \E i \in DOMAIN casts, c \in Conns : Tell(i, c) \/ GiveUp(i, c)
  \/ Restart

RegistrySpec == RegistryInit /\ [][RegistryNext]_registryVars

\* Handlers run, timers fire and goroutines write.
Fairness ==
  /\ \A c \in Conns : WF_registryVars(Handle(c))
  /\ WF_registryVars(Fire)
  /\ WF_registryVars(\E i \in DOMAIN casts, c \in Conns : Tell(i, c))

FairSpec == RegistrySpec /\ Fairness

----------------------------------------------------------------------------
(* What the registry keeps. *)

\* Every variable keeps its type; a slot is held by a connection that has it.
RegistryTypeOK ==
  /\ conn \in [Conns -> Conn]
  /\ clients \in [Slots -> Conns \union {NoConn}]
  /\ \A s \in Registered : Slot(clients[s]) = s
  /\ active \subseteq Slots
  /\ overtaken \subseteq Slots
  /\ timer \in BOOLEAN
  /\ casts \in Seq(Cast)
  /\ told \in [Conns -> Told]
  /\ restarts \in 0..MaxRestart
  /\ faults \in 0..MaxFault

\* A connection that is served and has not been closed is the registered one, so
\* that what is sent to the session reaches it: the late cleanup of a connection
\* that was replaced must not remove its successor (HandleSessionWS, `current`).
\* Who is registered is active in the table, from which names are given and
\* owners list their sessions; but for the endpoints that a late handler marked
\* inactive after their next handshake had saved them (hub.go:933).
ServedIsReachable ==
  /\ \A c \in Conns : At(c, "serving") /\ conn[c].open => clients[Slot(c)] = c
  /\ Registered \subseteq active \union overtaken

\* Two sessions of one owner are never reachable under one name, with the same
\* exception: registerSessionEndpoint and the unique index together.
NamesUnique(S) == \A s, t \in S : s[2] = t[2] => s = t
NamesUniqueUnlessOvertaken ==
  /\ NamesUnique(active)
  /\ NamesUnique(Registered \ overtaken)

\* A session held by one device is not taken over by another while it is held,
\* whatever the two handshakes read before (the two device checks).
DeviceKeeps == [][\A s \in Slots :
  clients[s] # NoConn /\ clients'[s] \notin {NoConn, clients[s]} =>
     ~OtherDevice(clients[s], conn'[clients'[s]].device)]_registryVars

\* When nobody comes and goes any more, every connected session has been told the
\* sessions that are connected (scheduleOnlineBroadcast after each change), unless
\* an older list reached it after a newer one, or the newest not at all.
DirectoryCurrent ==
  <>[](\A s \in Registered :
         LET t == told[clients[s]] IN t.late \/ t.list = Registered)

\* Without the exception: an older broadcast may be told last, and stay.
DirectoryInOrder == <>[](\A s \in Registered : told[clients[s]].list = Registered)

\* The table does not keep a session online that nobody serves: docs (product
\* specification, session_endpoint) say that a disconnect sets active to false.
FalseOnline(s) ==
  /\ s \in active
  /\ \A c \in Conns : Slot(c) = s => conn[c].stage \in {"new", "gone"}
FalseOnlineEnds == \A s \in Slots : FalseOnline(s) ~> ~FalseOnline(s)

=============================================================================
