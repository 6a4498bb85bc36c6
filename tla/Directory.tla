------------------------------ MODULE Directory ------------------------------
(***************************************************************************)
(* Who owns a session: members, the accounts an API key is bound to, the   *)
(* owner a chat is bound to, the endpoints in the database and the         *)
(* connections in the hub's memory (internal/m8/hub.go), with the          *)
(* operations of the administrator that change them (internal/admin).      *)
(*                                                                         *)
(* An account "bot:personal:ou" or "bot:group:oc" is a pair of a bot and   *)
(* the id of a person or a group.  A session name is a sequence: <<n>> for *)
(* a bare one, <<owner, short, tail>> for a full one, <<owner, short>> for *)
(* the form a person may write.                                            *)
(***************************************************************************)
EXTENDS Integers, Sequences, FiniteSets

CONSTANTS
  Owners, OpenIds, Groups, Bots,
  Keys,      \* API keys, by number: the order of their ids
  Names,     \* names sessions register under
  Rank,      \* the place of a name in alphabetical order
  OwnerSeq,  \* owner keys in the order allocateUniqueOwnerKey tries them
  Nobody,    \* no owner, no person, no session
  Several,   \* more than one session
  Bounds     \* the instances that are checked: what the administrator entered
             \* before the hub started, which sessions there are, which and
             \* how many edits, how many connections and crashes

Chats    == Bots \X (OpenIds \cup Groups)
Accounts == Chats \cup Owners
Row      == [active : BOOLEAN, open : OpenIds \cup {Nobody}, quiet : BOOLEAN]
ChatRow  == [active : BOOLEAN, owner : Owners \cup {Nobody}]
Slots    == Keys \X Names

ASSUME DirectoryAssumption ==
  /\ Keys \subseteq Nat
  /\ Rank \in [Names -> Nat] /\ \A n, m \in Names : Rank[n] = Rank[m] => n = m
  /\ OwnerSeq \in Seq(Owners) \ {<<>>}
  /\ Nobody \notin Owners \cup OpenIds \cup Groups \cup Bots
  /\ \A b \in Bounds : /\ b.members \in [DOMAIN b.members -> Row] /\ DOMAIN b.members \subseteq Owners
                       /\ b.owners \in [DOMAIN b.owners -> ChatRow] /\ DOMAIN b.owners \subseteq Chats
                       /\ b.accounts \in [Keys -> SUBSET Accounts]
                       /\ b.slots \subseteq Slots /\ {b.edits, b.joins, b.crashes} \subseteq Nat

VARIABLES
  bound,     \* the instance
  members,   \* member, by owner key
  owners,    \* bound_owner of chat_entity, with its active flag
  accounts,  \* api_key_account
  live,      \* keys that are not revoked
  endpoints, \* session_endpoint
  online,    \* sessionClients
  cache,     \* keyAccounts: the accounts of the keys with a connection
  joining,   \* connections that have read the accounts of their key
  leaving,   \* connections that are gone from online, not yet from the database
  saving,    \* members being saved, under the owner key they were given
  edits, joins, crashes

people == <<members, owners, accounts, live, saving, edits>>
conns  == <<endpoints, online, cache, joining, leaving, joins, crashes>>
dirVars == <<bound, people, conns>>

DirInit ==
  /\ bound \in Bounds
  /\ members = bound.members /\ owners = bound.owners /\ accounts = bound.accounts
  /\ live = Keys /\ saving = {} /\ edits = 0
  /\ endpoints = <<>> /\ online = {} /\ cache = [k \in Keys |-> {}]
  /\ joining = {} /\ leaving = {} /\ joins = 0 /\ crashes = 0

Edit(kind) == kind \in bound.work /\ edits < bound.edits /\ edits' = edits + 1
\* A table with a row written under its key, in place of any that was there
Upserted(t, k, row) == [x \in DOMAIN t \cup {k} |-> IF x = k THEN row ELSE t[x]]
Sole(S) == IF Cardinality(S) = 1 THEN CHOOSE x \in S : TRUE ELSE Nobody
----------------------------------------------------------------------------
\* accountBelongsToMember
Belongs(a, o) ==
  a = o \/ (members[o].open # Nobody /\ a \in Chats /\ a[2] = members[o].open)
\* ListMembers
Active == {o \in DOMAIN members : members[o].active}

\* GetChatEntity, row by row
BoundTo(a) ==
  IF a \in DOMAIN owners /\ owners[a].active THEN owners[a].owner ELSE Nobody
\* ownerKeyFromBoundAccounts
OwnerFromBound(A) == Sole({BoundTo(a) : a \in A} \ {Nobody})
\* ownerKeyForKeyWithMembersAndAccounts
OwnerFromMembers(A) == Sole({o \in Active : \E a \in A : Belongs(a, o)})
\* ownerKeyForKey, with the accounts in the database
OwnerOfKey(k) ==
  LET b == OwnerFromBound(accounts[k])
  IN IF b # Nobody THEN b ELSE OwnerFromMembers(accounts[k])

\* boundOwnersByAccount: the same, from one reading of the whole table
BoundOwners ==
  [a \in {c \in DOMAIN owners : owners[c].active /\ owners[c].owner # Nobody} |-> owners[a].owner]
\* Mutant: members before bound owners.
OwnerOfAccountsMembersFirst(A) ==
  LET m == OwnerFromMembers(A)
  IN IF m # Nobody THEN m ELSE Sole({BoundOwners[a] : a \in A \cap DOMAIN BoundOwners})
\* ownerKeyForAccounts and ownerKeyFromBoundAccountsCached
OwnerOfAccounts(A) ==
  LET b == Sole({BoundOwners[a] : a \in A \cap DOMAIN BoundOwners})
  IN IF b # Nobody THEN b ELSE OwnerFromMembers(A)

\* The accounts onlineDirectory uses: those in memory, unless there are none.
Snapshot(k) == IF cache[k] # {} THEN cache[k] ELSE accounts[k]
NoDirectory(s) == s \in DOMAIN endpoints /\ (endpoints[s].admin \/ endpoints[s].reported)
\* onlineDirectory
Listed(o) ==
  IF o \notin Active THEN {}
  ELSE {s \in online : OwnerOfAccounts(Snapshot(s[1])) = o /\ ~NoDirectory(s)}
\* onlineOwners: whose directory is broadcast
ListedOwners == {OwnerOfKey(s[1]) : s \in online} \ {Nobody}

\* shortSessionName
Short(n) == IF Len(n) = 3 THEN <<n[2]>> ELSE n
\* ownerSessionAliasMatch
AliasMatch(o, n, asked) == asked = Short(n) \/ (Len(n) = 3 /\ n[1] = o /\ asked = <<n[1], n[2]>>)
OnlineOf(o) == {s \in online : OwnerOfKey(s[1]) = o}

\* The slot that comes first in the order of names, and then of keys.
ByName(S) == CHOOSE s \in S : \A t \in S : Rank[s[2]] < Rank[t[2]] \/ (s[2] = t[2] /\ s[1] <= t[1])
\* The slot that comes first in the order of ListSessionEndpoints.
ByKey(S) == CHOOSE s \in S : \A t \in S : s[1] < t[1] \/ (s[1] = t[1] /\ Rank[s[2]] <= Rank[t[2]])
\* The one sequence of all the slots of S in that order
InOrder(S) ==
  {q \in [1..Cardinality(S) -> S] : \A i, j \in DOMAIN q : i < j => q[i] # q[j] /\ ByKey({q[i], q[j]}) = q[i]}

\* resolveOwnerSessionByShort: the slot; Nobody or Several
ByShort(o, asked, hint) ==
  LET mine    == OnlineOf(o)
      hits    == {s \in mine : s[2] = asked \/ (s[1] = hint /\ AliasMatch(o, s[2], asked))}
      aliases == {s \in mine : AliasMatch(o, s[2], asked)}
  IN IF o = Nobody THEN Nobody
     ELSE IF hits # {} THEN ByName(hits)
     ELSE IF aliases = {} THEN Nobody
     ELSE IF Cardinality(aliases) = 1 THEN CHOOSE s \in aliases : TRUE
     ELSE Several
\* resolveOwnerSessionKey: any of the keys that have the name, the hinted one first
OwnerSessionKeys(o, n, hint) ==
  LET keys == {k \in Keys : <<k, n>> \in online /\ OwnerOfKey(k) = o}
  IN IF o = Nobody THEN {} ELSE IF hint \in keys THEN {hint} ELSE keys
\* lookupKeyIDForSession, with the accounts in memory
KeysInMemory(a, n) == {k \in Keys : <<k, n>> \in online /\ a \in cache[k]}

EndpointsUp == {s \in DOMAIN endpoints : endpoints[s].active}
\* onlineSessionsForAccount
SessionsOf(a) == {s \in EndpointsUp : a \in accounts[s[1]]}
\* onlineSessionsForOwner
SessionsOfOwner(o) ==
  IF o \notin Active THEN {}
  ELSE {s \in EndpointsUp \cap online : endpoints[s].owner = o \/ \E a \in accounts[s[1]] : Belongs(a, o)}
\* resolveMemberSession: the slot, or Nobody when there is none, several or an
\* isolated one
MemberSession(o, n) ==
  LET all     == {s \in EndpointsUp : (n = Nobody \/ s[2] = n) /\ \E a \in accounts[s[1]] : Belongs(a, o)}
      visible == {s \in all : ~NoDirectory(s)}
  IN IF all = {} THEN Nobody
     ELSE IF n # Nobody THEN IF ByKey(all) \in visible THEN ByKey(all) ELSE Nobody
     ELSE IF Cardinality(visible) = 1 THEN CHOOSE s \in visible : TRUE
     ELSE Nobody
\* l2SessionKey, for a task of owner o: the endpoint knows its owner
L2Sessions(o, n) ==
  {s \in EndpointsUp \cap online : endpoints[s].owner = o /\ s[2] = n /\ ~NoDirectory(s)}
----------------------------------------------------------------------------
(* The administrator *)

\* allocateUniqueOwnerKey: the first owner key that is free or that of the person.
Allocated(open) ==
  LET fits(o) == o \notin DOMAIN members \/ members[o].open = open
      ok      == {i \in DOMAIN OwnerSeq : fits(OwnerSeq[i])}
  IN IF ok = {} THEN OwnerSeq[1] ELSE OwnerSeq[CHOOSE i \in ok : \A j \in ok : i <= j]
SaveMember(open) ==
  /\ Edit("member")
  /\ saving' = saving \cup {[owner |-> Allocated(open), open |-> open]}
  /\ UNCHANGED <<bound, members, owners, accounts, live, conns>>
\* UpsertMember: the form has no field for dm_optout.
Upsert(w) ==
  /\ w \in saving /\ saving' = saving \ {w}
  /\ members' = Upserted(members, w.owner, [active |-> TRUE, open |-> w.open, quiet |-> FALSE])
  /\ UNCHANGED <<bound, owners, accounts, live, edits, conns>>
DeleteMember(o) ==
  /\ Edit("member") /\ o \in DOMAIN members
  /\ members' = [members EXCEPT ![o].active = FALSE]
  /\ UNCHANGED <<bound, owners, accounts, live, saving, conns>>

\* manageAPIKey: the accounts in the hub's memory stay as they are.
Bind(k, a) ==
  /\ Edit("bind") /\ a \notin accounts[k]
  /\ accounts' = [accounts EXCEPT ![k] = @ \cup {a}]
  /\ UNCHANGED <<bound, members, owners, live, saving, conns>>
Revoke(k) ==
  /\ Edit("bind") /\ k \in live /\ live' = live \ {k}
  /\ UNCHANGED <<bound, members, owners, accounts, saving, conns>>
\* SetSessionNoDirectory, from the page of sessions
Isolate(s, on) ==
  /\ Edit("isolate") /\ s \in bound.slots
  /\ endpoints' =
       IF s \in DOMAIN endpoints THEN [endpoints EXCEPT ![s].admin = on]
       ELSE Upserted(endpoints, s, [active |-> FALSE, owner |-> Nobody, admin |-> on, reported |-> FALSE, mirror |-> Nobody])
  /\ UNCHANGED <<bound, members, owners, accounts, live, saving, online, cache, joining, leaving, joins, crashes>>
----------------------------------------------------------------------------
(* Connections *)

\* The handshake resolves the key and its accounts, and then its owner.
Join(s) ==
  /\ s \in bound.slots /\ joins < bound.joins /\ joins' = joins + 1
  /\ s[1] \in live /\ accounts[s[1]] # {} /\ s \notin online /\ \A j \in joining : j.slot # s
  /\ joining' = joining \cup {[slot |-> s, accounts |-> accounts[s[1]], owner |-> OwnerOfKey(s[1])]}
  /\ UNCHANGED <<bound, people, endpoints, online, cache, leaving, crashes>>
\* UpsertSessionEndpoint, then the registration under the lock
Register(j, reported) ==
  LET old == IF j.slot \in DOMAIN endpoints THEN endpoints[j.slot]
             ELSE [active |-> TRUE, owner |-> Nobody, admin |-> FALSE, reported |-> FALSE, mirror |-> Nobody]
  IN /\ j \in joining /\ reported => "isolate" \in bound.work
     /\ joining' = joining \ {j}
     /\ endpoints' = Upserted(endpoints, j.slot, [old EXCEPT !.active = TRUE, !.reported = reported,
                                                             !.owner = IF j.owner = Nobody THEN @ ELSE j.owner])
     /\ online' = online \cup {j.slot}
     /\ cache' = [cache EXCEPT ![j.slot[1]] = j.accounts]
     /\ UNCHANGED <<bound, people, leaving, joins, crashes>>
Leave(s) ==
  /\ s \in online /\ online' = online \ {s}
  /\ cache' = IF \E t \in online' : t[1] = s[1] THEN cache ELSE [cache EXCEPT ![s[1]] = {}]
  /\ leaving' = leaving \cup {s}
  /\ UNCHANGED <<bound, people, endpoints, joining, joins, crashes>>
\* The endpoint is written after the lock is released.
CleanUp(s) ==
  /\ s \in leaving /\ leaving' = leaving \ {s}
  /\ endpoints' = [endpoints EXCEPT ![s].active = FALSE]
  /\ UNCHANGED <<bound, people, online, cache, joining, joins, crashes>>
\* Nothing resets the endpoints when the hub starts.
Crash ==
  /\ crashes < bound.crashes /\ crashes' = crashes + 1
  /\ online' = {} /\ cache' = [k \in Keys |-> {}] /\ joining' = {} /\ leaving' = {}
  /\ saving' = {}
  /\ UNCHANGED <<bound, members, owners, accounts, live, edits, endpoints, joins>>
=============================================================================
