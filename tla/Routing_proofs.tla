--------------------------- MODULE Routing_proofs ---------------------------
(***************************************************************************)
(* Routing for every number of members, keys, sessions, messages, rules    *)
(* and edits: what is written to one owner reaches no other, answers       *)
(* return to the chat they came from, the directory shows what routing     *)
(* takes, each output of a session is shown once, and nothing is sent on   *)
(* after the end of a synchronisation.                                     *)
(***************************************************************************)
EXTENDS Routing, FiniteSetTheorems, SequenceTheorems, TLAPS

-----------------------------------------------------------------------------
(* Least elements: what the CHOOSEs of the directory choose *)

LEMMA LeastNat ==
  ASSUME NEW S \in SUBSET Nat, S # {}
  PROVE  \E n \in S : \A m \in S : n <= m
<1> DEFINE R == OpToRel(<, Nat)
<1>1. IsWellFoundedOn(R, Nat) BY NatLessThanWellFounded
<1>2. \E n \in S : \A m \in S : ~ (<<m, n>> \in R)
  <2> HIDE DEF R
  <2> QED BY <1>1, WFMin
<1>3. \A m, n \in Nat : m < n => <<m, n>> \in R BY DEF OpToRel
<1> HIDE DEF R
<1>4. PICK n \in S : \A m \in S : ~ (<<m, n>> \in R) BY <1>2
<1>5. ASSUME NEW m \in S PROVE n <= m
  <2>1. n \in Nat /\ m \in Nat OBVIOUS
  <2>2. ~(m < n) BY <1>3, <1>4, <2>1
  <2> QED BY <2>1, <2>2
<1> QED BY <1>5

\* The first of several numbers is one of them.
LEMMA MinIn ==
  ASSUME NEW S \in SUBSET Nat, S # {}
  PROVE  Min(S) \in S /\ \A m \in S : Min(S) <= m
BY LeastNat DEF Min

\* The slot that a name is resolved to is one of those that have the name.
LEMMA ByNameIn ==
  ASSUME NEW S \in SUBSET Slots, S # {}
  PROVE  ByName(S) \in S
<1> DEFINE Ranks == {Rank[s[2]] : s \in S}
           Firsts(n) == {s[1] : s \in {t \in S : Rank[t[2]] = n}}
<1>1. \A s \in S : s[1] \in Nat /\ s[2] \in Names /\ Rank[s[2]] \in Nat
  BY DirectoryAssumption DEF Slots
<1>2. PICK n \in Ranks : \A m \in Ranks : n <= m
  <2>1. Ranks \in SUBSET Nat /\ Ranks # {} BY <1>1
  <2> HIDE DEF Ranks
  <2> QED BY <2>1, LeastNat
<1>3. PICK k \in Firsts(n) : \A l \in Firsts(n) : k <= l
  <2>1. Firsts(n) \in SUBSET Nat /\ Firsts(n) # {} BY <1>1
  <2> HIDE DEF Firsts
  <2> QED BY <2>1, LeastNat
<1>4. PICK s \in S : Rank[s[2]] = n /\ s[1] = k BY <1>3
<1>5. ASSUME NEW t \in S
      PROVE  Rank[s[2]] < Rank[t[2]] \/ (s[2] = t[2] /\ s[1] <= t[1])
  <2>1. n <= Rank[t[2]] BY <1>2
  <2>2. CASE n = Rank[t[2]]
    <3>1. s[2] = t[2] BY <1>1, <1>4, <2>2, DirectoryAssumption
    <3>2. k <= t[1] BY <1>3, <2>2
    <3> QED BY <3>1, <3>2, <1>4
  <2>3. CASE n # Rank[t[2]] BY <1>1, <1>4, <2>1, <2>3
  <2> QED BY <2>2, <2>3
<1> QED BY <1>5 DEF ByName

\* A member or key is named by its only entry.
LEMMA SoleIn ==
  ASSUME NEW S, Sole(S) # Nobody
  PROVE  Sole(S) \in S
<1>1. Cardinality(S) = 1 BY DEF Sole
<1>2. S # {} BY <1>1, FS_EmptySet
<1> QED BY <1>1, <1>2 DEF Sole

-----------------------------------------------------------------------------
(* The directory *)

\* Asking for the bound owners one by one, or reading them all at once, gives
\* the same owner.
LEMMA OwnersAgree ==
  ASSUME NEW k
  PROVE  OwnerOfAccounts(accounts[k]) = OwnerOfKey(k)
<1>1. {BoundOwners[a] : a \in accounts[k] \cap DOMAIN BoundOwners}
        = {BoundTo(a) : a \in accounts[k]} \ {Nobody}
  BY DEF BoundOwners, BoundTo
<1> QED BY <1>1 DEF OwnerOfAccounts, OwnerOfKey, OwnerFromBound

\* DirectoryAgrees: the directory of an owner, made from the accounts in
\* memory, shows the sessions that routing takes to be the owner's.
THEOREM DirectoryAlwaysAgrees == Spec => []DirectoryAgrees
<1>1. DirectoryAgrees
  <2> SUFFICES ASSUME NEW s \in online, Snapshot(s[1]) = accounts[s[1]], NEW o \in Owners
               PROVE  s \in Listed(o) <=>
                        (OwnerOfKey(s[1]) = o /\ o \in ListedOwners \cap Active /\ ~NoDirectory(s))
    BY DEF DirectoryAgrees
  <2>1. OwnerOfAccounts(Snapshot(s[1])) = OwnerOfKey(s[1]) BY OwnersAgree
  <2>2. o # Nobody BY DirectoryAssumption
  <2>3. s \in Listed(o) <=> o \in Active /\ OwnerOfKey(s[1]) = o /\ ~NoDirectory(s)
    BY <2>1 DEF Listed
  <2>4. OwnerOfKey(s[1]) = o => o \in ListedOwners BY <2>2 DEF ListedOwners
  <2> QED BY <2>3, <2>4
<1> QED BY <1>1, PTL

-----------------------------------------------------------------------------
(* The tables and the connections *)

\* What routing rests on: the tables hold rows of their kinds, there are
\* finitely many connections, each with an endpoint, and the accounts in memory,
\* or with a connection that is being accepted, are among those of the key.
DirectorySound ==
  /\ bound \in Bounds
  /\ members \in [DOMAIN members -> Row] /\ DOMAIN members \subseteq Owners
  /\ owners \in [DOMAIN owners -> ChatRow] /\ DOMAIN owners \subseteq Chats
  /\ live \subseteq Keys
  /\ accounts \in [Keys -> SUBSET Accounts] /\ cache \in [Keys -> SUBSET Accounts]
  /\ \A k \in Keys : cache[k] \subseteq accounts[k]
  /\ online \subseteq bound.slots \cap DOMAIN endpoints /\ IsFiniteSet(online)
  /\ \A s \in online : cache[s[1]] # {}
  /\ leaving \subseteq DOMAIN endpoints
  /\ \A w \in saving : w.owner \in Owners /\ w.open \in OpenIds
  /\ \A j \in joining : /\ j.slot \in bound.slots
                        /\ j.accounts # {} /\ j.accounts \subseteq accounts[j.slot[1]]

LEMMA BoundSlots ==
  ASSUME bound \in Bounds
  PROVE  /\ bound.slots \subseteq Slots
         /\ \A s \in bound.slots : s[1] \in Keys /\ s[2] \in Names /\ s = <<s[1], s[2]>>
BY DirectoryAssumption DEF Slots

LEMMA DirectoryStarts == DirInit => DirectorySound
<1> SUFFICES ASSUME DirInit PROVE DirectorySound OBVIOUS
<1>1. IsFiniteSet(online) BY FS_EmptySet DEF DirInit
<1>2. /\ bound \in Bounds
      /\ members \in [DOMAIN members -> Row] /\ DOMAIN members \subseteq Owners
      /\ owners \in [DOMAIN owners -> ChatRow] /\ DOMAIN owners \subseteq Chats
      /\ live \subseteq Keys
      /\ accounts \in [Keys -> SUBSET Accounts]
  BY DirectoryAssumption DEF DirInit
<1>3. cache = [k \in Keys |-> {}] /\ online = {} /\ leaving = {} /\ saving = {} /\ joining = {}
  BY DEF DirInit
<1> QED BY <1>1, <1>2, <1>3 DEF DirectorySound

\* The forms of the administrator.
LEMMA AllocatedIn == \A open : Allocated(open) \in Owners
<1> SUFFICES ASSUME NEW open PROVE Allocated(open) \in Owners OBVIOUS
<1> DEFINE fits(o) == o \notin DOMAIN members \/ members[o].open = open
           ok      == {i \in DOMAIN OwnerSeq : fits(OwnerSeq[i])}
<1>1. OwnerSeq \in Seq(Owners) /\ Len(OwnerSeq) \in Nat \ {0} /\ DOMAIN OwnerSeq = 1..Len(OwnerSeq)
  BY DirectoryAssumption
<1>2. ASSUME ok # {} PROVE \E i \in ok : \A j \in ok : i <= j
  <2>1. ok \in SUBSET Nat BY <1>1
  <2> HIDE DEF ok
  <2> QED BY <2>1, <1>2, LeastNat
<1>3. ASSUME ok # {} PROVE (CHOOSE i \in ok : \A j \in ok : i <= j) \in DOMAIN OwnerSeq BY <1>2, <1>3
<1>4. Allocated(open) = IF ok = {} THEN OwnerSeq[1]
                        ELSE OwnerSeq[CHOOSE i \in ok : \A j \in ok : i <= j]
  BY DEF Allocated
<1> HIDE DEF ok
<1>5. 1 \in DOMAIN OwnerSeq BY <1>1
<1>6. \A i \in DOMAIN OwnerSeq : OwnerSeq[i] \in Owners BY <1>1
<1> QED BY <1>3, <1>4, <1>5, <1>6

\* A message, or a form about a member, changes only the tables of people.
LEMMA SaveMemberSound ==
  ASSUME DirectorySound, NEW open \in OpenIds, SaveMember(open)
  PROVE  DirectorySound'
BY AllocatedIn DEF DirectorySound, SaveMember, conns

LEMMA UpsertSound ==
  ASSUME DirectorySound, NEW w \in saving, Upsert(w)
  PROVE  DirectorySound'
<1> DEFINE row == [active |-> TRUE, open |-> w.open, quiet |-> FALSE]
<1>1. members' = Upserted(members, w.owner, row) BY DEF Upsert
<1>2. w.owner \in Owners /\ w.open \in OpenIds BY DEF DirectorySound
<1>3. row \in Row BY <1>2 DEF Row
<1>4. members \in [DOMAIN members -> Row] BY DEF DirectorySound
<1> HIDE DEF row
<1>5. DOMAIN members' = DOMAIN members \cup {w.owner} /\ members' \in [DOMAIN members' -> Row]
  <2>1. /\ DOMAIN members' = DOMAIN members \cup {w.owner}
        /\ members' = [o \in DOMAIN members \cup {w.owner} |-> IF o = w.owner THEN row ELSE members[o]]
    BY <1>1 DEF Upserted
  <2>2. \A o \in DOMAIN members' : members'[o] \in Row BY <1>3, <1>4, <2>1
  <2> QED BY <2>1, <2>2
<1>6. DOMAIN members' \subseteq Owners BY <1>2, <1>5 DEF DirectorySound
<1>7. saving' \subseteq saving /\ UNCHANGED <<bound, owners, accounts, live, conns>> BY DEF Upsert
<1> QED BY <1>5, <1>6, <1>7 DEF DirectorySound, conns

LEMMA DeleteMemberSound ==
  ASSUME DirectorySound, NEW o \in Owners, DeleteMember(o)
  PROVE  DirectorySound'
<1>1. \A r \in Row : [r EXCEPT !.active = FALSE] \in Row BY DEF Row
<1>2. /\ members' = [members EXCEPT ![o] = [members[o] EXCEPT !.active = FALSE]]
      /\ o \in DOMAIN members
  BY DEF DeleteMember
<1>3. members' \in [DOMAIN members -> Row] BY <1>1, <1>2 DEF DirectorySound
<1> QED BY <1>3 DEF DirectorySound, DeleteMember, conns

LEMMA BindSound ==
  ASSUME DirectorySound, NEW k \in Keys, NEW a \in Accounts, Bind(k, a)
  PROVE  DirectorySound'
<1>1. accounts' \in [Keys -> SUBSET Accounts] BY DEF DirectorySound, Bind
<1>2. \A l \in Keys : accounts[l] \subseteq accounts'[l] BY DEF DirectorySound, Bind
<1>3. \A s \in bound.slots : s[1] \in Keys BY BoundSlots DEF DirectorySound
<1>4. UNCHANGED <<bound, members, owners, live, saving, conns>> BY DEF Bind
<1> QED BY <1>1, <1>2, <1>3, <1>4 DEF DirectorySound, conns

LEMMA RevokeSound ==
  ASSUME DirectorySound, NEW k \in Keys, Revoke(k)
  PROVE  DirectorySound'
BY DEF DirectorySound, Revoke, conns

LEMMA IsolateSound ==
  ASSUME DirectorySound, NEW s \in bound.slots, NEW on \in BOOLEAN, Isolate(s, on)
  PROVE  DirectorySound'
<1>1. DOMAIN endpoints \subseteq DOMAIN endpoints' BY DEF Isolate, Upserted
<1>2. UNCHANGED <<bound, members, owners, accounts, live, saving, online, cache, joining, leaving>>
  BY DEF Isolate
<1> QED BY <1>1, <1>2 DEF DirectorySound

\* Connections.
LEMMA JoinSound ==
  ASSUME DirectorySound, NEW s \in bound.slots, Join(s)
  PROVE  DirectorySound'
<1>1. \E o : joining' = joining \cup {[slot |-> s, accounts |-> accounts[s[1]], owner |-> o]}
  BY DEF Join
<1>2. accounts[s[1]] # {} /\ UNCHANGED <<bound, people, endpoints, online, cache, leaving>> BY DEF Join
<1>3. \A j \in joining' : j \in joining \/ (j.slot = s /\ j.accounts = accounts[s[1]]) BY <1>1
<1>4. \A j \in joining' : /\ j.slot \in bound.slots
                          /\ j.accounts # {} /\ j.accounts \subseteq accounts[j.slot[1]]
  BY <1>2, <1>3 DEF DirectorySound
<1> QED BY <1>2, <1>4 DEF DirectorySound, people

LEMMA RegisterSound ==
  ASSUME DirectorySound, NEW j \in joining, NEW r \in BOOLEAN, Register(j, r)
  PROVE  DirectorySound'
<1>1. /\ joining' = joining \ {j} /\ online' = online \cup {j.slot}
      /\ cache' = [cache EXCEPT ![j.slot[1]] = j.accounts]
      /\ UNCHANGED <<bound, people, leaving>>
      /\ DOMAIN endpoints' = {j.slot} \cup DOMAIN endpoints
  BY DEF Register, Upserted
<1>2. /\ j.slot \in bound.slots /\ j.slot[1] \in Keys
      /\ j.accounts # {} /\ j.accounts \subseteq accounts[j.slot[1]]
  BY BoundSlots DEF DirectorySound
<1>3. IsFiniteSet(online') BY <1>1, FS_AddElement DEF DirectorySound
<1>4. /\ cache' \in [Keys -> SUBSET Accounts]
      /\ \A k \in Keys : cache'[k] \subseteq accounts[k]
      /\ \A k \in Keys : cache[k] # {} => cache'[k] # {}
      /\ cache'[j.slot[1]] # {}
  BY <1>1, <1>2 DEF DirectorySound
<1>5. \A s \in bound.slots : s[1] \in Keys BY BoundSlots DEF DirectorySound
<1>6. \A s \in online' : cache'[s[1]] # {} BY <1>1, <1>4, <1>5 DEF DirectorySound
<1>7. online' \subseteq bound.slots \cap DOMAIN endpoints' /\ leaving \subseteq DOMAIN endpoints'
  BY <1>1, <1>2 DEF DirectorySound
<1> QED BY <1>1, <1>3, <1>4, <1>6, <1>7 DEF DirectorySound, people

LEMMA LeaveSound ==
  ASSUME DirectorySound, NEW s \in bound.slots, Leave(s)
  PROVE  DirectorySound'
<1>1. /\ s \in online /\ online' = online \ {s} /\ leaving' = leaving \cup {s}
      /\ cache' = IF \E t \in online' : t[1] = s[1] THEN cache ELSE [cache EXCEPT ![s[1]] = {}]
      /\ UNCHANGED <<bound, people, endpoints, joining>>
  BY DEF Leave
<1>2. IsFiniteSet(online') BY <1>1, FS_Subset DEF DirectorySound
<1>3. \A t \in bound.slots : t[1] \in Keys BY BoundSlots DEF DirectorySound
<1>4. /\ cache' \in [Keys -> SUBSET Accounts]
      /\ \A k \in Keys : cache'[k] \subseteq accounts[k]
      /\ \A t \in online' : cache'[t[1]] = cache[t[1]]
  BY <1>1, <1>3 DEF DirectorySound
<1> QED BY <1>1, <1>2, <1>4 DEF DirectorySound, people

LEMMA CleanUpSound ==
  ASSUME DirectorySound, NEW s \in bound.slots, CleanUp(s)
  PROVE  DirectorySound'
<1>1. DOMAIN endpoints' = DOMAIN endpoints /\ leaving' \subseteq leaving BY DEF CleanUp
<1> QED BY <1>1 DEF DirectorySound, CleanUp, people

LEMMA CrashSound ==
  ASSUME DirectorySound, Crash
  PROVE  DirectorySound'
<1>1. IsFiniteSet(online') BY FS_EmptySet DEF Crash
<1>2. /\ online' = {} /\ cache' = [k \in Keys |-> {}] /\ joining' = {} /\ leaving' = {} /\ saving' = {}
      /\ UNCHANGED <<bound, members, owners, accounts, live, endpoints>>
  BY DEF Crash
<1> QED BY <1>1, <1>2 DEF DirectorySound

LEMMA AdminSound == ASSUME DirectorySound, Admin PROVE DirectorySound'
<1>1. \/ \E p \in OpenIds : SaveMember(p)
      \/ \E w \in saving : Upsert(w)
      \/ \E o \in Owners : DeleteMember(o)
      \/ \E k \in Keys : Revoke(k) \/ \E a \in Accounts : Bind(k, a)
      \/ \E s \in bound.slots : Isolate(s, TRUE) \/ Isolate(s, FALSE)
  BY DEF Admin
<1> QED BY <1>1, SaveMemberSound, UpsertSound, DeleteMemberSound, RevokeSound, BindSound, IsolateSound

LEMMA ConnectSound == ASSUME DirectorySound, Connect PROVE DirectorySound'
<1>1. \/ \E s \in bound.slots : Join(s) \/ CleanUp(s)
      \/ \E j \in joining, r \in BOOLEAN : Register(j, r)
  BY DEF Connect
<1> QED BY <1>1, JoinSound, CleanUpSound, RegisterSound

-----------------------------------------------------------------------------
(* Recursive functions over an interval, and induction over one *)

\* What holds at first and is kept by each step holds throughout; S are the
\* numbers it holds for.
LEMMA UpTo ==
  ASSUME NEW N \in Nat, NEW S, 0 \in S, \A n \in 1..N : n - 1 \in S => n \in S
  PROVE  0..N \subseteq S
<1> SUFFICES ASSUME (0..N) \ S # {} PROVE FALSE OBVIOUS
<1>1. PICK n \in (0..N) \ S : \A m \in (0..N) \ S : n <= m
  <2>1. (0..N) \ S \in SUBSET Nat OBVIOUS
  <2> QED BY <2>1, LeastNat
<1>2. n \in 1..N /\ n - 1 \in 0..N /\ n - 1 < n BY <1>1
<1>3. n - 1 \in S BY <1>1, <1>2
<1> QED BY <1>1, <1>2, <1>3

\* There is a function that begins with x and goes on by F.
Iteration(f, N, X, x, F) ==
  f \in [0..N -> X] /\ f[0] = x /\ \A n \in 1..N : f[n] = F[n][f[n - 1]]
LEMMA Iterated ==
  ASSUME NEW N \in Nat, NEW X, NEW x \in X, NEW F \in [1..N -> [X -> X]]
  PROVE  \E f : Iteration(f, N, X, x, F)
<1> DEFINE Good(k) == \E f \in [0..k -> X] : f[0] = x /\ \A n \in 1..k : f[n] = F[n][f[n - 1]]
           S == {k \in 0..N : Good(k)}
<1>1. Good(0)
  <2>1. /\ [n \in 0..0 |-> x] \in [0..0 -> X] /\ [n \in 0..0 |-> x][0] = x
        /\ 1..0 = {}
    OBVIOUS
  <2> QED BY <2>1
<1>2. ASSUME NEW k \in 1..N, k - 1 \in S PROVE k \in S
  <2>1. PICK f \in [0..k - 1 -> X] :
          f[0] = x /\ \A n \in 1..k - 1 : f[n] = F[n][f[n - 1]]
    BY <1>2
  <2> DEFINE g == [n \in 0..k |-> IF n = k THEN F[k][f[k - 1]] ELSE f[n]]
  <2>2. g \in [0..k -> X] /\ g[0] = x BY <2>1
  <2>3. ASSUME NEW n \in 1..k PROVE g[n] = F[n][g[n - 1]]
    <3>1. CASE n = k BY <3>1
    <3>2. CASE n # k
      <4>1. n \in 1..k - 1 /\ n \in 0..k /\ n - 1 \in 0..k /\ n - 1 # k BY <3>2
      <4> QED BY <4>1, <3>2, <2>1
    <3> QED BY <3>1, <3>2
  <2>4. k - 1 \in 0..k - 1 /\ k \in 0..N OBVIOUS
  <2> HIDE DEF g
  <2>5. Good(k) BY <2>2, <2>3
  <2> QED BY <2>4, <2>5
<1>3. 0..N \subseteq S
  <2> HIDE DEF Good
  <2>1. 0 \in S BY <1>1
  <2> HIDE DEF S
  <2> QED BY <1>2, <2>1, UpTo
<1>4. Good(N) BY <1>3
<1> QED BY <1>4 DEF Iteration

-----------------------------------------------------------------------------
(* Patterns *)

\* The part of s from a to b is one that the character c of a pattern matches.
Fits(c, s, a, b) ==
  /\ a <= b
  /\ c = Optional => b <= a + 1
  /\ c \notin {Anything, Optional} => b = a + 1 /\ s[b] = c
\* e cuts a prefix of s into parts that the characters of p match.
Cut(p, s, e) ==
  /\ e \in [0..Len(p) -> 0..Len(s)] /\ e[0] = 0
  /\ \A n \in 1..Len(p) : Fits(p[n], s, e[n - 1], e[n])

LEMMA ExtendedIn ==
  ASSUME NEW C, NEW s \in Seq(C), NEW cur \in SUBSET (0..Len(s)), NEW c
  PROVE  /\ Extended(s, cur, c) \in SUBSET (0..Len(s))
         /\ \A b \in Extended(s, cur, c) : \E a \in cur : Fits(c, s, a, b)
<1>1. CASE c = Optional BY <1>1 DEF Extended, Fits, Optional, Anything
<1>2. CASE c = Anything
  <2>1. CASE cur = {} BY <1>2, <2>1 DEF Extended, Optional, Anything
  <2>2. CASE cur # {}
    <3>1. Min(cur) \in cur BY <2>2, MinIn
    <3>2. Extended(s, cur, c) = Min(cur)..Len(s) BY <1>2, <2>2 DEF Extended, Optional, Anything
    <3>3. Len(s) \in Nat /\ \A a \in cur : a \in Nat OBVIOUS
    <3> DEFINE m == Min(cur)
    <3>5. m \in Nat BY <3>1, <3>3
    <3>4. /\ m..Len(s) \subseteq 0..Len(s)
          /\ \A b \in m..Len(s) : Fits(c, s, m, b)
      <4> HIDE DEF m
      <4> QED BY <1>2, <3>3, <3>5 DEF Fits, Optional, Anything
    <3> QED BY <3>1, <3>2, <3>4
  <2> QED BY <2>1, <2>2
<1>3. CASE c \notin {Anything, Optional}
  <2>1. Extended(s, cur, c) = {q + 1 : q \in {r \in cur : r < Len(s) /\ s[r + 1] = c}}
    BY <1>3 DEF Extended
  <2> QED BY <1>3, <2>1 DEF Fits
<1> QED BY <1>1, <1>2, <1>3

LEMMA EndsByIs ==
  ASSUME NEW C, NEW p \in Seq(C), NEW s \in Seq(C)
  PROVE  /\ EndsBy(p, s) \in [0..Len(p) -> SUBSET (0..Len(s))]
         /\ EndsBy(p, s)[0] = {0}
         /\ \A n \in 1..Len(p) : EndsBy(p, s)[n] = Extended(s, EndsBy(p, s)[n - 1], p[n])
<1> DEFINE X == SUBSET (0..Len(s))
           F == [n \in 1..Len(p) |-> [cur \in X |-> Extended(s, cur, p[n])]]
           Is(f) == f = [n \in 0..Len(p) |-> IF n = 0 THEN {0} ELSE Extended(s, f[n - 1], p[n])]
<1>1. Len(p) \in Nat /\ Len(s) \in Nat /\ {0} \in X OBVIOUS
<1>2. F \in [1..Len(p) -> [X -> X]] BY ExtendedIn
<1>3. PICK f \in [0..Len(p) -> X] : f[0] = {0} /\ \A n \in 1..Len(p) : f[n] = F[n][f[n - 1]]
  <2> DEFINE N == Len(p)
             x == {0}
  <2>1. F \in [1..N -> [X -> X]] BY <1>2
  <2>2. N \in Nat /\ x \in X BY <1>1
  <2> HIDE DEF X, F, N, x
  <2>3. \E f : Iteration(f, N, X, x, F) BY <2>1, <2>2, Iterated
  <2> QED BY <2>3 DEF N, x, Iteration
<1>4. ASSUME NEW n \in 1..Len(p) PROVE f[n] = Extended(s, f[n - 1], p[n])
  <2>1. n - 1 \in 0..Len(p) BY <1>1
  <2> QED BY <1>3, <2>1
<1>5. Is(f)
  <2>1. ASSUME NEW n \in 0..Len(p)
        PROVE  f[n] = IF n = 0 THEN {0} ELSE Extended(s, f[n - 1], p[n])
    <3>1. n = 0 \/ n \in 1..Len(p) BY <1>1
    <3> QED BY <1>3, <1>4, <3>1
  <2> HIDE DEF X
  <2> QED BY <1>3, <2>1
<1>6. EndsBy(p, s) = CHOOSE g : Is(g) BY DEF EndsBy
<1>7. Is(EndsBy(p, s))
  <2> HIDE DEF Is
  <2> QED BY <1>5, <1>6
<1> DEFINE g == EndsBy(p, s)
<1>8. /\ g[0] = {0} /\ g = [n \in 0..Len(p) |-> g[n]]
      /\ \A n \in 1..Len(p) : g[n] = Extended(s, g[n - 1], p[n])
  <2>1. g = [n \in 0..Len(p) |-> IF n = 0 THEN {0} ELSE Extended(s, g[n - 1], p[n])] BY <1>7
  <2> HIDE DEF g
  <2>2. 0 \in 0..Len(p) /\ \A n \in 1..Len(p) : n \in 0..Len(p) /\ n # 0 BY <1>1
  <2>3. DOMAIN g = 0..Len(p) BY <2>1
  <2>4. g = [n \in 0..Len(p) |-> g[n]] BY <2>1, <2>3
  <2> QED BY <2>1, <2>2, <2>4
<1>9. \A n \in 0..Len(p) : g[n] \in X
  <2> DEFINE S == {n \in 0..Len(p) : g[n] \in X}
  <2>1. 0 \in S BY <1>1, <1>8
  <2>2. ASSUME NEW n \in 1..Len(p), n - 1 \in S PROVE n \in S
    <3>1. n - 1 \in 0..Len(p) /\ g[n - 1] \in SUBSET (0..Len(s)) BY <2>2
    <3>2. Extended(s, g[n - 1], p[n]) \in X
      <4> HIDE DEF g
      <4> QED BY <3>1, ExtendedIn
    <3>3. g[n] \in X
      <4> HIDE DEF g
      <4> QED BY <1>8, <3>2
    <3> QED BY <3>3
  <2> HIDE DEF S
  <2>3. 0..Len(p) \subseteq S BY <1>1, <2>1, <2>2, UpTo
  <2> QED BY <2>3 DEF S
<1> HIDE DEF g
<1> QED BY <1>8, <1>9 DEF g

\* If any prefix is matched, there is a way to cut it.
LEMMA EndsCut ==
  ASSUME NEW C, NEW p \in Seq(C), NEW s \in Seq(C), Ends(p, s) # {}
  PROVE  \E e : Cut(p, s, e)
<1> DEFINE N == Len(p)
           g == EndsBy(p, s)
           CutTo(e, n, k) == /\ e \in [0..n -> 0..Len(s)] /\ e[0] = 0 /\ e[n] = k
                             /\ \A m \in 1..n : Fits(p[m], s, e[m - 1], e[m])
           S == {n \in 0..N : \A k \in g[n] : \E e : CutTo(e, n, k)}
<1>1. N \in Nat /\ Len(s) \in Nat OBVIOUS
<1>2. /\ g \in [0..N -> SUBSET (0..Len(s))] /\ g[0] = {0}
      /\ \A n \in 1..N : g[n] = Extended(s, g[n - 1], p[n])
  BY EndsByIs
<1> HIDE DEF g
<1>3. 0 \in S
  <2>1. CutTo([n \in 0..0 |-> 0], 0, 0)
    <3>1. 1..0 = {} /\ 0 \in 0..Len(s) BY <1>1
    <3> QED BY <3>1
  <2>2. \A k \in g[0] : k = 0 BY <1>2
  <2>3. \A k \in g[0] : \E e : CutTo(e, 0, k)
    <3> HIDE DEF CutTo
    <3> QED BY <2>1, <2>2
  <2> QED BY <1>1, <2>3
<1>4. ASSUME NEW n \in 1..N, n - 1 \in S PROVE n \in S
  <2>1. n \in 0..N /\ n - 1 \in 0..N BY <1>1
  <2>2. ASSUME NEW k \in g[n] PROVE \E e : CutTo(e, n, k)
    <3>1. g[n - 1] \in SUBSET (0..Len(s)) /\ g[n] \in SUBSET (0..Len(s)) BY <1>2, <2>1
    <3>2. PICK a \in g[n - 1] : Fits(p[n], s, a, k) BY <1>2, <3>1, ExtendedIn
    <3>3. PICK d : CutTo(d, n - 1, a) BY <1>4, <3>2
    <3> DEFINE e == [m \in 0..n |-> IF m = n THEN k ELSE d[m]]
    <3>4. /\ e \in [0..n -> 0..Len(s)] /\ e[0] = 0 /\ e[n] = k
      BY <3>1, <3>3
    <3>5. ASSUME NEW m \in 1..n PROVE Fits(p[m], s, e[m - 1], e[m])
      <4>1. CASE m = n
        <5>1. e[m - 1] = a /\ e[m] = k BY <3>3, <4>1
        <5> HIDE DEF e
        <5> QED BY <3>2, <4>1, <5>1
      <4>2. CASE m # n
        <5>1. m \in 1..n - 1 BY <4>2
        <5>2. e[m - 1] = d[m - 1] /\ e[m] = d[m] BY <5>1
        <5> HIDE DEF e
        <5> QED BY <3>3, <5>1, <5>2
      <4> QED BY <4>1, <4>2
    <3> HIDE DEF e
    <3> QED BY <3>4, <3>5
  <2> HIDE DEF CutTo
  <2> QED BY <2>1, <2>2
<1>5. 0..N \subseteq S
  <2> HIDE DEF S, N
  <2> QED BY <1>1, <1>3, <1>4, UpTo
<1>6. PICK k \in g[N] : TRUE BY DEF Ends, g
<1>7. PICK e : CutTo(e, N, k) BY <1>1, <1>5, <1>6
<1> QED BY <1>7 DEF Cut

LEMMA FoldedIs ==
  ASSUME NEW p \in Seq(Letters \cup {Anything, Optional})
  PROVE  /\ Folded(p) \in Seq(Letters \cup {Anything, Optional}) /\ Len(Folded(p)) = Len(p)
         /\ \A n \in 1..Len(p) :
              Folded(p)[n] = IF p[n] \in Letters THEN Lower[p[n]] ELSE p[n]
<1>1. DOMAIN p = 1..Len(p) /\ Len(p) \in Nat OBVIOUS
<1>2. Folded(p) = [n \in 1..Len(p) |-> IF p[n] \in Letters THEN Lower[p[n]] ELSE p[n]]
  BY <1>1 DEF Folded
<1>3. \A n \in 1..Len(p) :
        (IF p[n] \in Letters THEN Lower[p[n]] ELSE p[n]) \in Letters \cup {Anything, Optional}
  BY PrefixAssumption
<1> QED BY <1>1, <1>2, <1>3

\* The same cut is one when case is ignored.
LEMMA FoldedCut ==
  ASSUME NEW p \in Seq(Letters \cup {Anything, Optional}), NEW s \in Seq(Letters),
         NEW e, Cut(p, s, e)
  PROVE  Cut(Folded(p), Folded(s), e)
<1>1. s \in Seq(Letters \cup {Anything, Optional}) OBVIOUS
<1>2. Len(p) \in Nat /\ Len(s) \in Nat OBVIOUS
<1>3. ASSUME NEW n \in 1..Len(p) PROVE Fits(Folded(p)[n], Folded(s), e[n - 1], e[n])
  <2>1. Fits(p[n], s, e[n - 1], e[n]) BY DEF Cut
  <2>2. p[n] \in Letters \cup {Anything, Optional} OBVIOUS
  <2>3. CASE p[n] \in Letters
    <3>1. Folded(p)[n] = Lower[p[n]] /\ Lower[p[n]] \in Letters BY <2>3, FoldedIs, PrefixAssumption
    <3>2. p[n] \notin {Anything, Optional} /\ Lower[p[n]] \notin {Anything, Optional}
      BY <2>3, <3>1, PrefixAssumption
    <3>3. e[n] = e[n - 1] + 1 /\ s[e[n]] = p[n] BY <2>1, <3>2 DEF Fits
    <3>4. e[n - 1] \in 0..Len(s) /\ e[n] \in 0..Len(s) BY <1>2 DEF Cut
    <3>5. e[n] \in 1..Len(s) BY <1>2, <3>3, <3>4
    <3>6. Folded(s)[e[n]] = Lower[p[n]] BY <1>1, <2>3, <3>3, <3>5, FoldedIs
    <3> QED BY <3>1, <3>2, <3>3, <3>4, <3>6 DEF Fits
  <2>4. CASE p[n] \notin Letters
    <3>1. Folded(p)[n] = p[n] BY <2>4, FoldedIs
    <3> QED BY <2>1, <2>2, <2>4, <3>1 DEF Fits
  <2> QED BY <2>3, <2>4
<1>4. Len(Folded(p)) = Len(p) /\ Len(Folded(s)) = Len(s) BY <1>1, FoldedIs
<1> QED BY <1>3, <1>4 DEF Cut

\* Where the pattern p is when m characters are read: before the next character
\* of p that ends later.
At(p, e, m, i) == i \in 0..Len(p) /\ e[i] <= m /\ (i < Len(p) => m < e[i + 1])

LEMMA CutIs ==
  ASSUME NEW C, NEW p \in Seq(C), NEW s, Len(s) \in Nat, NEW e, Cut(p, s, e)
  PROVE  Len(p) \in Nat /\ \A n \in 0..Len(p) : e[n] \in Nat /\ e[n] <= Len(s)
<1>1. e \in [0..Len(p) -> 0..Len(s)] BY DEF Cut
<1>2. \A n \in 0..Len(p) : e[n] \in 0..Len(s) BY <1>1
<1> QED BY <1>2

LEMMA CutGrows ==
  ASSUME NEW C, NEW p \in Seq(C), NEW s, Len(s) \in Nat, NEW e, Cut(p, s, e)
  PROVE  \A j \in 0..Len(p) : \A i \in 0..j : e[i] <= e[j]
<1> DEFINE N == Len(p)
           S == {j \in 0..N : \A i \in 0..j : e[i] <= e[j]}
<1>1. N \in Nat /\ \A n \in 0..N : e[n] \in Nat BY CutIs
<1>2. 0 \in S BY <1>1
<1>3. ASSUME NEW j \in 1..N, j - 1 \in S PROVE j \in S
  <2>1. e[j - 1] <= e[j] BY DEF Cut, Fits
  <2>2. j \in 0..N /\ j - 1 \in 0..N BY <1>1
  <2>3. ASSUME NEW i \in 0..j PROVE e[i] <= e[j]
    <3>1. i = j \/ i \in 0..j - 1 BY <1>1
    <3>2. i \in 0..N BY <1>1
    <3> QED BY <1>1, <1>3, <2>1, <2>2, <3>1, <3>2
  <2> QED BY <2>2, <2>3
<1>4. 0..N \subseteq S
  <2> HIDE DEF S, N
  <2> QED BY <1>1, <1>2, <1>3, UpTo
<1> QED BY <1>4

LEMMA AtSome ==
  ASSUME NEW C, NEW p \in Seq(C), NEW s, Len(s) \in Nat, NEW e, Cut(p, s, e), NEW m \in Nat
  PROVE  \E i : At(p, e, m, i)
<1> SUFFICES ASSUME \A i : ~At(p, e, m, i) PROVE FALSE OBVIOUS
<1> DEFINE N == Len(p)
           S == {i \in 0..N : e[i] <= m}
<1>1. N \in Nat /\ (\A n \in 0..N : e[n] \in Nat) /\ e[0] = 0 BY CutIs DEF Cut
<1>2. 0 \in S BY <1>1
<1>3. ASSUME NEW i \in 1..N, i - 1 \in S PROVE i \in S
  <2>1. i \in 0..N /\ i - 1 \in 0..N /\ i - 1 < N /\ i = (i - 1) + 1 BY <1>1
  <2>2. ~(m < e[i]) BY <1>3, <2>1 DEF At
  <2> QED BY <1>1, <2>1, <2>2
<1>4. 0..N \subseteq S
  <2> HIDE DEF S, N
  <2> QED BY <1>1, <1>2, <1>3, UpTo
<1>5. At(p, e, m, N) BY <1>1, <1>4 DEF At
<1> QED BY <1>5

\* Between two places with the same end there are only "?" and "*".
LEMMA ClosureOf ==
  ASSUME NEW C, NEW p \in Seq(C), NEW s, Len(s) \in Nat, NEW e, Cut(p, s, e),
         NEW j \in 0..Len(p), NEW i \in j..Len(p), e[j] = e[i]
  PROVE  i \in Closure(p, j)
<1>1. Len(p) \in Nat /\ \A n \in 0..Len(p) : e[n] \in Nat BY CutIs
<1>2. ASSUME NEW k \in j + 1..i PROVE p[k] \in {Optional, Anything}
  <2>1. k \in 1..Len(p) /\ k - 1 \in 0..Len(p) /\ k \in 0..Len(p) /\ i \in 0..Len(p) BY <1>1
  <2>2. j \in 0..k - 1 /\ k - 1 \in 0..i /\ k \in 0..i /\ j \in 0..k BY <1>1
  <2>3. e[j] <= e[k - 1] /\ e[k] <= e[i] /\ e[j] <= e[k] BY <2>1, <2>2, CutGrows
  <2>4. e[k - 1] <= e[i] BY <2>1, <2>2, CutGrows
  <2>5. e[k] # e[k - 1] + 1 BY <1>1, <2>1, <2>3, <2>4
  <2> QED BY <2>1, <2>5 DEF Cut, Fits
<1> QED BY <1>2 DEF Closure

\* One more character leads from place to place. If it does not occur in p, any
\* other that does not may be read in its stead.
LEMMA ReadOn ==
  ASSUME NEW C, NEW p \in Seq(C), NEW s, Len(s) \in Nat, NEW e, Cut(p, s, e),
         NEW m \in 0..Len(s) - 1, NEW i, At(p, e, m, i), NEW j, At(p, e, m + 1, j),
         NEW c, c = s[m + 1] \/ s[m + 1] \notin Range(p)
  PROVE  j \in Reached(p, i, c)
<1>1. Len(p) \in Nat /\ (\A n \in 0..Len(p) : e[n] \in Nat) /\ m \in Nat BY CutIs
<1>2. /\ i \in 0..Len(p) /\ e[i] <= m /\ (i < Len(p) => m < e[i + 1])
      /\ j \in 0..Len(p) /\ e[j] <= m + 1 /\ (j < Len(p) => m + 1 < e[j + 1])
  BY DEF At
<1>3. i <= j
  <2> SUFFICES ASSUME j < i PROVE FALSE BY <1>1, <1>2
  <2>1. j < Len(p) /\ j + 1 \in 0..i BY <1>1, <1>2
  <2>2. e[j + 1] <= e[i] BY <1>2, <2>1, CutGrows
  <2>3. j + 1 \in 0..Len(p) BY <1>1, <1>2, <2>1
  <2> QED BY <1>1, <1>2, <2>1, <2>2, <2>3
<1>4. CASE i = j
  <2>1. j \in Step(p, i, c)
    <3>1. CASE i = Len(p) BY <1>4, <3>1 DEF Step
    <3>2. CASE i # Len(p)
      <4>1. i + 1 \in 1..Len(p) /\ i < Len(p) /\ i + 1 \in 0..Len(p) BY <1>1, <1>2, <3>2
      <4>2. e[i + 1] > e[i] + 1 BY <1>1, <1>2, <1>4, <4>1
      <4>3. Fits(p[i + 1], s, e[i], e[i + 1])
        <5>1. (i + 1) - 1 = i BY <1>1, <1>2
        <5> QED BY <4>1, <5>1 DEF Cut
      <4>4. p[i + 1] = Anything BY <1>1, <1>2, <4>1, <4>2, <4>3 DEF Fits
      <4> QED BY <1>4, <3>2, <4>4 DEF Step
    <3> QED BY <3>1, <3>2
  <2>2. j \in Closure(p, j) BY <1>1, <1>2 DEF Closure
  <2> QED BY <2>1, <2>2 DEF Reached
<1>5. CASE i < j
  <2>1. i < Len(p) /\ i + 1 \in 1..Len(p) /\ i + 1 \in 0..j /\ i + 1 \in 0..Len(p) /\ j \in i + 1..Len(p)
    BY <1>1, <1>2, <1>5
  <2>2. e[i + 1] <= e[j] BY <1>2, <2>1, CutGrows
  <2>3. e[i + 1] = m + 1 /\ e[j] = m + 1 BY <1>1, <1>2, <2>1, <2>2
  <2>4. j \in Closure(p, i + 1) BY <2>1, <2>3, ClosureOf
  <2>5. Fits(p[i + 1], s, e[i], e[i + 1])
    <3>1. (i + 1) - 1 = i BY <1>1, <1>2
    <3> QED BY <2>1, <3>1 DEF Cut
  <2>6. p[i + 1] \in Range(p)
    <3>1. DOMAIN p = 1..Len(p) OBVIOUS
    <3> QED BY <2>1, <3>1 DEF Range
  <2>7. CASE p[i + 1] = Anything
    <3>1. i \in Step(p, i, c) BY <1>1, <1>2, <2>1, <2>7 DEF Step
    <3>2. j \in Closure(p, i)
      <4>1. j \in i..Len(p) BY <1>1, <1>2, <1>5
      <4>2. ASSUME NEW k \in i + 1..j PROVE p[k] \in {Optional, Anything}
        <5>1. k = i + 1 \/ k \in (i + 1) + 1..j BY <1>1, <1>2
        <5> QED BY <2>4, <2>7, <5>1 DEF Closure
      <4> QED BY <4>1, <4>2 DEF Closure
    <3> QED BY <3>1, <3>2 DEF Reached
  <2>8. CASE p[i + 1] # Anything
    <3>1. p[i + 1] \in {Optional, c}
      <4>1. CASE p[i + 1] = Optional BY <4>1
      <4>2. CASE p[i + 1] # Optional
        <5>1. p[i + 1] = s[m + 1] BY <2>3, <2>5, <2>8, <4>2 DEF Fits
        <5> QED BY <2>6, <5>1
      <4> QED BY <4>1, <4>2
    <3>2. i + 1 \in Step(p, i, c) BY <1>1, <1>2, <2>1, <2>8, <3>1 DEF Step
    <3> QED BY <2>4, <3>2 DEF Reached
  <2> QED BY <2>7, <2>8
<1> QED BY <1>1, <1>2, <1>3, <1>4, <1>5

-----------------------------------------------------------------------------
(* Two patterns at once *)

\* The places of a pattern: before its first character, between two, and at its end.
PlacesOf(p) == 0..Len(p)

LEMMA ReachedIn ==
  ASSUME NEW C, NEW p \in Seq(C), NEW i \in PlacesOf(p), NEW c
  PROVE  Reached(p, i, c) \subseteq PlacesOf(p)
<1>1. Len(p) \in Nat OBVIOUS
<1>2. Step(p, i, c) \subseteq PlacesOf(p)
  <2>1. i # Len(p) => i + 1 \in PlacesOf(p) BY <1>1 DEF PlacesOf
  <2> QED BY <2>1 DEF Step
<1>3. \A j \in PlacesOf(p) : Closure(p, j) \subseteq PlacesOf(p) BY <1>1 DEF Closure, PlacesOf
<1> QED BY <1>2, <1>3 DEF Reached

LEMMA FurtherIn ==
  ASSUME NEW C, NEW p \in Seq(C), NEW q \in Seq(C), NEW S \in SUBSET (PlacesOf(p) \X PlacesOf(q))
  PROVE  Further(p, q, S) \in SUBSET (PlacesOf(p) \X PlacesOf(q)) /\ S \subseteq Further(p, q, S)
<1>1. ASSUME NEW t \in S, NEW c
      PROVE  Reached(p, t[1], c) \X Reached(q, t[2], c) \subseteq PlacesOf(p) \X PlacesOf(q)
  <2>1. t[1] \in PlacesOf(p) /\ t[2] \in PlacesOf(q) OBVIOUS
  <2> QED BY <2>1, ReachedIn
<1> QED BY <1>1 DEF Further

LEMMA VisitedIs ==
  ASSUME NEW C, NEW p \in Seq(C), NEW q \in Seq(C)
  PROVE  /\ Pairs(p, q) \in Nat
         /\ Visited(p, q) \in [0..Pairs(p, q) -> SUBSET (PlacesOf(p) \X PlacesOf(q))]
         /\ Visited(p, q)[0] = Closure(p, 0) \X Closure(q, 0)
         /\ \A n \in 1..Pairs(p, q) :
              Visited(p, q)[n] = Further(p, q, Visited(p, q)[n - 1])
<1> DEFINE N == Pairs(p, q)
           X == SUBSET (PlacesOf(p) \X PlacesOf(q))
           x == Closure(p, 0) \X Closure(q, 0)
           F == [n \in 1..N |-> [S \in X |-> Further(p, q, S)]]
           Is(f) == f = [n \in 0..N |-> IF n = 0 THEN x ELSE Further(p, q, f[n - 1])]
<1>1. N \in Nat
  <2>1. Len(p) \in Nat /\ Len(q) \in Nat OBVIOUS
  <2> QED BY <2>1 DEF Pairs
<1>2. x \in X BY DEF Closure, PlacesOf
<1>3. F \in [1..N -> [X -> X]] BY FurtherIn
<1> HIDE DEF N
<1>4. PICK f : Iteration(f, N, X, x, F)
  <2> HIDE DEF X, F, x
  <2> QED BY <1>1, <1>2, <1>3, Iterated
<1>5. f \in [0..N -> X] /\ f[0] = x
  <2> HIDE DEF X, F, x
  <2> QED BY <1>4 DEF Iteration
<1>6. \A n \in 0..N : f[n] \in X
  <2> HIDE DEF X, x
  <2> QED BY <1>5
<1>7. ASSUME NEW n \in 1..N PROVE f[n] = Further(p, q, f[n - 1])
  <2>1. n - 1 \in 0..N BY <1>1
  <2>2. f[n] = F[n][f[n - 1]]
    <3> HIDE DEF X, F, x
    <3> QED BY <1>4 DEF Iteration
  <2>3. f[n - 1] \in X BY <1>6, <2>1
  <2> HIDE DEF X
  <2> QED BY <2>2, <2>3
<1>8. Is(f)
  <2> HIDE DEF X, x
  <2>1. ASSUME NEW n \in 0..N
        PROVE  f[n] = IF n = 0 THEN x ELSE Further(p, q, f[n - 1])
    <3>1. n = 0 \/ n \in 1..N BY <1>1
    <3> QED BY <1>5, <1>7, <3>1
  <2> QED BY <1>5, <2>1
<1> DEFINE g == Visited(p, q)
<1>9. Is(g)
  <2>1. g = CHOOSE h : Is(h) BY DEF Visited, N
  <2> HIDE DEF Is, g
  <2> QED BY <1>8, <2>1
<1>10. /\ g[0] = x /\ g = [n \in 0..N |-> g[n]]
       /\ \A n \in 1..N : g[n] = Further(p, q, g[n - 1])
  <2> HIDE DEF g, x
  <2>1. g = [n \in 0..N |-> IF n = 0 THEN x ELSE Further(p, q, g[n - 1])] BY <1>9
  <2>2. 0 \in 0..N /\ \A n \in 1..N : n \in 0..N /\ n # 0 BY <1>1
  <2>3. DOMAIN g = 0..N BY <2>1
  <2>4. g = [n \in 0..N |-> g[n]] BY <2>1, <2>3
  <2> QED BY <2>1, <2>2, <2>4
<1>11. \A n \in 0..N : g[n] \in X
  <2> HIDE DEF g
  <2> DEFINE S == {n \in 0..N : g[n] \in X}
  <2>1. 0 \in S BY <1>1, <1>2, <1>10
  <2>2. ASSUME NEW n \in 1..N, n - 1 \in S PROVE n \in S
    <3>1. g[n - 1] \in SUBSET (PlacesOf(p) \X PlacesOf(q)) BY <2>2
    <3>2. Further(p, q, g[n - 1]) \in X BY <3>1, FurtherIn
    <3>3. g[n] \in X /\ n \in 0..N BY <1>1, <1>10, <3>2
    <3> HIDE DEF X
    <3> QED BY <3>3
  <2>3. 0..N \subseteq S
    <3> HIDE DEF S
    <3> QED BY <1>1, <2>1, <2>2, UpTo
  <2> QED BY <2>3
<1>12. g \in [0..N -> X]
  <2> HIDE DEF g, X
  <2> QED BY <1>10, <1>11
<1> HIDE DEF g
<1> QED BY <1>1, <1>10, <1>12 DEF g, N

\* There are no more pairs of places than rounds, so the last round adds none.
LEMMA Saturated ==
  ASSUME NEW C, NEW p \in Seq(C), NEW q \in Seq(C), NEW V, V = Visited(p, q)[Pairs(p, q)]
  PROVE  /\ Closure(p, 0) \X Closure(q, 0) \subseteq V
         /\ \A t \in V, c \in Alphabet(p, q) :
              Reached(p, t[1], c) \X Reached(q, t[2], c) \subseteq V
<1> DEFINE N == Pairs(p, q)
           X == PlacesOf(p) \X PlacesOf(q)
           g == Visited(p, q)
           x == Closure(p, 0) \X Closure(q, 0)
           G(S) == Further(p, q, S)
           T == {n \in 0..N : x \subseteq g[n] /\ (G(g[n]) = g[n] \/ n <= Cardinality(g[n]))}
<1>1. /\ N \in Nat /\ g \in [0..N -> SUBSET X] /\ g[0] = x
      /\ \A n \in 1..N : g[n] = G(g[n - 1])
  BY VisitedIs
<1>2. \A S \in SUBSET X : G(S) \in SUBSET X /\ S \subseteq G(S) BY FurtherIn
<1>3. IsFiniteSet(X) /\ Cardinality(X) = N
  <2>1. Len(p) \in Nat /\ Len(q) \in Nat OBVIOUS
  <2>2. IsFiniteSet(PlacesOf(p)) /\ Cardinality(PlacesOf(p)) = Len(p) + 1
    BY <2>1, FS_Interval DEF PlacesOf
  <2>3. IsFiniteSet(PlacesOf(q)) /\ Cardinality(PlacesOf(q)) = Len(q) + 1
    BY <2>1, FS_Interval DEF PlacesOf
  <2>4. IsFiniteSet(X) /\ Cardinality(X) = Cardinality(PlacesOf(p)) * Cardinality(PlacesOf(q))
    BY <2>2, <2>3, FS_Product
  <2>5. N = (Len(p) + 1) * (Len(q) + 1) BY DEF Pairs
  <2> QED BY ONLY <2>2, <2>3, <2>4, <2>5
<1> HIDE DEF N, X, g, x, G
<1>4. \A S \in SUBSET X : IsFiniteSet(S) /\ Cardinality(S) \in Nat
  BY <1>3, FS_Subset, FS_CardinalityType
<1>5. 0 \in T
  <2>1. g[0] \in SUBSET X /\ 0 \in 0..N BY <1>1
  <2> QED BY <1>1, <1>4, <2>1
<1>6. ASSUME NEW n \in 1..N, n - 1 \in T PROVE n \in T
  <2>1. n \in 0..N /\ n - 1 \in 0..N BY <1>1
  <2>2. g[n - 1] \in SUBSET X /\ g[n] \in SUBSET X /\ g[n] = G(g[n - 1]) BY <1>1, <2>1
  <2>3. x \subseteq g[n] /\ g[n - 1] \subseteq g[n] BY <1>2, <1>6, <2>2
  <2>4. CASE G(g[n - 1]) = g[n - 1]
    <3>1. g[n] = g[n - 1] BY <2>2, <2>4
    <3> QED BY <2>1, <2>3, <2>4, <3>1
  <2>5. CASE G(g[n - 1]) # g[n - 1]
    <3>1. n - 1 <= Cardinality(g[n - 1]) BY <1>6, <2>5
    <3>2. /\ Cardinality(g[n - 1]) <= Cardinality(g[n])
          /\ Cardinality(g[n - 1]) # Cardinality(g[n])
      BY <1>4, <2>2, <2>3, <2>5, FS_Subset
    <3>3. Cardinality(g[n - 1]) \in Nat /\ Cardinality(g[n]) \in Nat BY <1>4, <2>2
    <3>4. n <= Cardinality(g[n]) BY <1>1, <2>1, <3>1, <3>2, <3>3
    <3> QED BY <2>1, <2>3, <3>4
  <2> QED BY <2>4, <2>5
<1>7. N \in T
  <2>1. 0..N \subseteq T
    <3> HIDE DEF T
    <3> QED BY <1>1, <1>5, <1>6, UpTo
  <2> QED BY <1>1, <2>1
<1>8. g[N] \in SUBSET X BY <1>1
<1>9. G(g[N]) = g[N]
  <2>1. CASE N <= Cardinality(g[N])
    <3>1. g[N] = X
      <4>1. Cardinality(g[N]) <= Cardinality(X) /\ (Cardinality(g[N]) = Cardinality(X) => g[N] = X)
        BY <1>3, <1>8, FS_Subset
      <4>2. Cardinality(g[N]) \in Nat BY <1>4, <1>8
      <4> QED BY <1>1, <1>3, <2>1, <4>1, <4>2
    <3> QED BY <1>2, <1>8, <3>1
  <2> QED BY <1>7, <2>1
<1>10. V = g[N] BY DEF g, N
<1>11. ASSUME NEW t \in V, NEW c \in Alphabet(p, q)
       PROVE  Reached(p, t[1], c) \X Reached(q, t[2], c) \subseteq G(V)
  <2> DEFINE more == {Reached(p, u[1], d) \X Reached(q, u[2], d) : u \in V, d \in Alphabet(p, q)}
  <2>1. Reached(p, t[1], c) \X Reached(q, t[2], c) \in more OBVIOUS
  <2>2. G(V) = V \cup UNION more BY DEF G, Further
  <2> HIDE DEF more
  <2> QED BY <2>1, <2>2
<1> QED BY <1>7, <1>9, <1>10, <1>11 DEF x

\* Two patterns that match prefixes of one text are found to overlap.
LEMMA OverlapFound ==
  ASSUME NEW p \in Seq(Letters \cup {Anything, Optional}),
         NEW q \in Seq(Letters \cup {Anything, Optional}),
         NEW s \in Seq(Letters), NEW d, Cut(p, s, d), NEW e, Cut(q, s, e)
  PROVE  LanguagesOverlap(p, q)
<1> DEFINE V == Visited(p, q)[Pairs(p, q)]
           N == Len(s)
           S == {m \in 0..N : \E i, j : At(p, d, m, i) /\ At(q, e, m, j) /\ <<i, j>> \in V}
<1>1. /\ Closure(p, 0) \X Closure(q, 0) \subseteq V
      /\ \A t \in V, c \in Alphabet(p, q) :
           Reached(p, t[1], c) \X Reached(q, t[2], c) \subseteq V
  BY Saturated
<1>0. N \in Nat /\ \A m \in 1..N : s[m] \notin {Anything, Optional} BY PrefixAssumption
<1>2. \A m \in 0..N : (\E i : At(p, d, m, i)) /\ \E j : At(q, e, m, j) BY <1>0, AtSome
<1>3. /\ Len(p) \in Nat /\ \A n \in 0..Len(p) : d[n] \in Nat /\ d[n] <= N
      /\ Len(q) \in Nat /\ \A n \in 0..Len(q) : e[n] \in Nat /\ e[n] <= N
  BY <1>0, CutIs
<1>4. d[0] = 0 /\ e[0] = 0 BY DEF Cut
<1> HIDE DEF V
<1>5. 0 \in S
  <2>0. 0 \in 0..N BY <1>0
  <2>1. PICK i, j : At(p, d, 0, i) /\ At(q, e, 0, j)
    <3> HIDE DEF S, N
    <3> QED BY <1>2, <2>0
  <2>2. /\ i \in 0..Len(p) /\ d[i] = 0 /\ j \in 0..Len(q) /\ e[j] = 0
    BY <1>3, <2>1 DEF At
  <2>3. i \in Closure(p, 0) /\ j \in Closure(q, 0)
    BY <1>0, <1>3, <1>4, <2>2, ClosureOf
  <2>4. <<i, j>> \in V BY <1>1, <2>3
  <2> QED BY <2>1, <2>4
<1>6. ASSUME NEW m \in 1..N, m - 1 \in S PROVE m \in S
  <2>1. PICK i, j : At(p, d, m - 1, i) /\ At(q, e, m - 1, j) /\ <<i, j>> \in V BY <1>6
  <2>2. PICK k, l : At(p, d, m, k) /\ At(q, e, m, l) BY <1>2
  <2>3. m - 1 \in 0..N - 1 /\ (m - 1) + 1 = m /\ m \in 0..N OBVIOUS
  <2>4. \E c \in Alphabet(p, q) :
          /\ c = s[m] \/ s[m] \notin Range(p)
          /\ c = s[m] \/ s[m] \notin Range(q)
    <3>1. CASE s[m] \in Alphabet(p, q) BY <3>1
    <3>2. CASE s[m] \notin Alphabet(p, q)
      <4>1. Nobody \in Alphabet(p, q) BY PrefixAssumption DEF Alphabet
      <4> QED BY <1>0, <3>2, <4>1 DEF Alphabet
    <3> QED BY <3>1, <3>2
  <2>5. PICK c \in Alphabet(p, q) :
          /\ c = s[m] \/ s[m] \notin Range(p)
          /\ c = s[m] \/ s[m] \notin Range(q)
    BY <2>4
  <2>6. k \in Reached(p, i, c)
    <3> DEFINE h == m - 1
    <3>1. /\ h \in 0..Len(s) - 1 /\ At(p, d, h, i) /\ At(p, d, h + 1, k)
          /\ c = s[h + 1] \/ s[h + 1] \notin Range(p)
      BY <2>1, <2>2, <2>3, <2>5
    <3> HIDE DEF h
    <3> QED BY <1>0, <3>1, ReadOn
  <2>7. l \in Reached(q, j, c)
    <3> DEFINE h == m - 1
    <3>1. /\ h \in 0..Len(s) - 1 /\ At(q, e, h, j) /\ At(q, e, h + 1, l)
          /\ c = s[h + 1] \/ s[h + 1] \notin Range(q)
      BY <2>1, <2>2, <2>3, <2>5
    <3> HIDE DEF h
    <3> QED BY <1>0, <3>1, ReadOn
  <2>8. <<k, l>> \in V BY <1>1, <2>1, <2>6, <2>7
  <2> QED BY <2>2, <2>3, <2>8
<1>7. N \in S
  <2>1. 0..N \subseteq S
    <3> HIDE DEF S, N
    <3> QED BY <1>0, <1>5, <1>6, UpTo
  <2>2. N \in 0..N BY <1>0
  <2> HIDE DEF S, N
  <2> QED BY <2>1, <2>2
<1>8. PICK i, j : At(p, d, N, i) /\ At(q, e, N, j) /\ <<i, j>> \in V BY <1>7
<1>9. i = Len(p) /\ j = Len(q)
  <2>1. i \in 0..Len(p) /\ j \in 0..Len(q) BY <1>8 DEF At
  <2>2. i < Len(p) => i + 1 \in 0..Len(p) BY <1>3, <2>1
  <2>3. j < Len(q) => j + 1 \in 0..Len(q) BY <1>3, <2>1
  <2>4. ~(i < Len(p)) BY <1>3, <1>8, <2>1, <2>2 DEF At
  <2>5. ~(j < Len(q)) BY <1>3, <1>8, <2>1, <2>3 DEF At
  <2> QED BY <1>3, <2>1, <2>4, <2>5
<1> QED BY <1>8, <1>9 DEF LanguagesOverlap, V

\* Two rules that both match a text are found to overlap, whatever case they respect.
Patterns == Seq(Letters \cup {Anything, Optional})

LEMMA MatchCut ==
  ASSUME NEW r, r.patterns \in Seq(Patterns), r.sensitive \in BOOLEAN,
         NEW s \in Seq(Letters), Matches(r, s)
  PROVE  \E i \in DOMAIN r.patterns :
           /\ r.patterns[i] \in Patterns
           /\ \E e : Cut(Read(r.patterns[i], r.sensitive), Read(s, r.sensitive), e)
<1> DEFINE ends(i) == Ends(Read(r.patterns[i], r.sensitive), Read(s, r.sensitive))
           hits == {i \in DOMAIN r.patterns : ends(i) # {}}
<1>1. hits # {}
  <2> SUFFICES ASSUME hits = {} PROVE FALSE OBVIOUS
  <2>1. MatchLen(r.patterns, s, r.sensitive) = -1 BY DEF MatchLen
  <2> QED BY <2>1 DEF Matches
<1>2. PICK i \in DOMAIN r.patterns : ends(i) # {} BY <1>1
<1>3. r.patterns[i] \in Patterns /\ s \in Patterns BY DEF Patterns
<1>4. Read(r.patterns[i], r.sensitive) \in Patterns /\ Read(s, r.sensitive) \in Patterns
  BY <1>3, FoldedIs DEF Read, Patterns
<1>5. \E e : Cut(Read(r.patterns[i], r.sensitive), Read(s, r.sensitive), e)
  BY <1>2, <1>4, EndsCut DEF Patterns
<1> QED BY <1>3, <1>5

LEMMA SharedFound ==
  ASSUME NEW r1, r1.patterns \in Seq(Patterns), r1.sensitive \in BOOLEAN,
         NEW r2, r2.patterns \in Seq(Patterns), r2.sensitive \in BOOLEAN,
         NEW s \in Seq(Letters), Matches(r1, s), Matches(r2, s)
  PROVE  Overlap(r1, r2)
<1> DEFINE both == r1.sensitive /\ r2.sensitive
<1>1. ASSUME NEW r, r.patterns \in Seq(Patterns), r.sensitive \in BOOLEAN, Matches(r, s),
             both => r.sensitive
      PROVE  \E i \in DOMAIN r.patterns :
               Read(r.patterns[i], both) \in Patterns /\ \E e : Cut(Read(r.patterns[i], both), Read(s, both), e)
  <2>1. PICK i \in DOMAIN r.patterns :
          r.patterns[i] \in Patterns /\ \E e : Cut(Read(r.patterns[i], r.sensitive), Read(s, r.sensitive), e)
    BY <1>1, MatchCut
  <2>2. PICK e : Cut(Read(r.patterns[i], r.sensitive), Read(s, r.sensitive), e) BY <2>1
  <2>3. Cut(Read(r.patterns[i], both), Read(s, both), e)
    <3>1. CASE both = r.sensitive BY <2>2, <3>1
    <3>2. CASE ~both /\ r.sensitive BY <2>1, <2>2, <3>2, FoldedCut DEF Read, Patterns
    <3> QED BY <1>1, <3>1, <3>2
  <2>4. Read(r.patterns[i], both) \in Patterns BY <2>1, FoldedIs DEF Read, Patterns
  <2> QED BY <2>3, <2>4
<1>2. Read(s, both) \in Seq(Letters)
  <2>1. DOMAIN s = 1..Len(s) /\ Len(s) \in Nat /\ \A n \in 1..Len(s) : s[n] \in Letters OBVIOUS
  <2>2. Folded(s) = [n \in 1..Len(s) |-> Lower[s[n]]] BY <2>1 DEF Folded
  <2>3. \A n \in 1..Len(s) : Lower[s[n]] \in Letters BY <2>1, PrefixAssumption
  <2> QED BY <2>1, <2>2, <2>3 DEF Read
<1>3. PICK i \in DOMAIN r1.patterns :
        Read(r1.patterns[i], both) \in Patterns /\ \E e : Cut(Read(r1.patterns[i], both), Read(s, both), e)
  BY <1>1
<1>4. PICK j \in DOMAIN r2.patterns :
        Read(r2.patterns[j], both) \in Patterns /\ \E e : Cut(Read(r2.patterns[j], both), Read(s, both), e)
  BY <1>1
<1>5. LanguagesOverlap(Read(r1.patterns[i], both), Read(r2.patterns[j], both))
  BY <1>2, <1>3, <1>4, OverlapFound DEF Patterns
<1> QED BY <1>5 DEF Overlap

-----------------------------------------------------------------------------
(* Rules that are found to overlap *)

\* t can be read up to its end while p is at its place i.
Stands(p, t, e, i) ==
  /\ i \in PlacesOf(p) /\ e \in [0..i -> 0..Len(t)] /\ e[0] = 0
  /\ \A n \in 1..i : Fits(p[n], t, e[n - 1], e[n])
  /\ e[i] = Len(t) \/ i = Len(p) \/ p[i + 1] = Anything

LEMMA StandsFirst ==
  ASSUME NEW C, NEW p \in Seq(C), NEW i \in Closure(p, 0)
  PROVE  \E e : Stands(p, <<>>, e, i)
<1> DEFINE e == [n \in 0..i |-> 0]
<1>1. Len(p) \in Nat /\ Len(<<>>) = 0 /\ i \in 0..Len(p) BY DEF Closure
<1>2. \A n \in 1..i : p[n] \in {Optional, Anything} BY <1>1 DEF Closure
<1>3. \A n \in 1..i : e[n] = 0 /\ e[n - 1] = 0 BY <1>1
<1>4. e \in [0..i -> 0..0] /\ e[0] = 0 /\ e[i] = 0 BY <1>1
<1> HIDE DEF e
<1>5. \A n \in 1..i : Fits(p[n], <<>>, e[n - 1], e[n]) BY <1>2, <1>3 DEF Fits
<1>6. Stands(p, <<>>, e, i) BY <1>1, <1>4, <1>5 DEF Stands, PlacesOf
<1> QED BY <1>6

LEMMA StandsNext ==
  ASSUME NEW C, NEW p \in Seq(C), NEW A, NEW t \in Seq(A), NEW c \in A,
         NEW i, NEW d, Stands(p, t, d, i), NEW j \in Reached(p, i, c)
  PROVE  \E e : Stands(p, Append(t, c), e, j)
<1> DEFINE u == Append(t, c)
           L == Len(t)
<1>1. /\ Len(p) \in Nat /\ L \in Nat /\ Len(u) = L + 1 /\ u[L + 1] = c
      /\ \A n \in 1..L : u[n] = t[n]
  OBVIOUS
<1>2. /\ i \in 0..Len(p) /\ (\A n \in 0..i : d[n] \in 0..L) /\ d[0] = 0
      /\ d \in [0..i -> 0..L]
      /\ \A n \in 1..i : Fits(p[n], t, d[n - 1], d[n])
      /\ d[i] = L \/ i = Len(p) \/ p[i + 1] = Anything
  BY DEF Stands, PlacesOf
<1>3. PICK k \in Step(p, i, c) : j \in Closure(p, k) BY DEF Reached
<1> HIDE DEF u, L
<1>4. ASSUME NEW n \in 1..i PROVE Fits(p[n], u, d[n - 1], d[n])
  <2>1. n - 1 \in 0..i /\ n \in 0..i BY <1>1, <1>2
  <2>2. d[n - 1] \in Nat /\ d[n] \in 0..L BY <1>2, <2>1
  <2>3. Fits(p[n], t, d[n - 1], d[n]) BY <1>2
  <2>4. d[n] = d[n - 1] + 1 => u[d[n]] = t[d[n]] BY <1>1, <2>2
  <2> QED BY <2>3, <2>4 DEF Fits
<1>5. CASE j = i /\ (i = Len(p) \/ p[i + 1] = Anything)
  <2>1. d \in [0..i -> 0..Len(u)]
    <3>1. 0..L \subseteq 0..Len(u) BY <1>1
    <3> QED BY <1>2, <3>1
  <2> QED BY <1>2, <1>4, <1>5, <2>1 DEF Stands, PlacesOf, u
<1>6. CASE ~(j = i /\ (i = Len(p) \/ p[i + 1] = Anything))
  <2>1. /\ i < Len(p) /\ i < j /\ j \in 0..Len(p)
        /\ p[i + 1] = Anything \/ (p[i + 1] \in {Optional, c} /\ d[i] = L)
        /\ \A n \in i + 2..j : p[n] \in {Optional, Anything}
    <3>1. CASE i = Len(p) BY <1>1, <1>2, <1>3, <1>6, <3>1 DEF Step, Closure
    <3>2. CASE i # Len(p) /\ p[i + 1] = Anything
      <4>1. k = i BY <1>3, <3>2 DEF Step
      <4>2. j \in i..Len(p) /\ \A n \in i + 1..j : p[n] \in {Optional, Anything}
        BY <1>3, <4>1 DEF Closure
      <4> QED BY <1>1, <1>2, <1>6, <3>2, <4>2
    <3>3. CASE i # Len(p) /\ p[i + 1] # Anything
      <4>1. k = i + 1 /\ p[i + 1] \in {Optional, c} BY <1>3, <3>3 DEF Step
      <4>2. j \in i + 1..Len(p) /\ \A n \in (i + 1) + 1..j : p[n] \in {Optional, Anything}
        BY <1>3, <4>1 DEF Closure
      <4> QED BY <1>1, <1>2, <3>3, <4>1, <4>2
    <3> QED BY <3>1, <3>2, <3>3
  <2> DEFINE e == [n \in 0..j |-> IF n <= i THEN d[n] ELSE L + 1]
  <2>2. /\ e \in [0..j -> 0..Len(u)] /\ e[0] = 0 /\ e[j] = Len(u)
        /\ \A n \in 0..i : e[n] = d[n]
        /\ \A n \in i + 1..j : e[n] = L + 1
    BY <1>1, <1>2, <2>1
  <2> HIDE DEF e
  <2>3. ASSUME NEW n \in 1..j PROVE Fits(p[n], u, e[n - 1], e[n])
    <3>1. CASE n <= i
      <4>1. n \in 1..i /\ n - 1 \in 0..i /\ n \in 0..i BY <1>2, <3>1
      <4> QED BY <1>4, <2>2, <4>1
    <3>2. CASE n = i + 1
      <4>1. e[n - 1] = d[i] /\ e[n] = L + 1 /\ d[i] \in 0..L
        <5>1. n - 1 = i /\ i \in 0..i /\ n \in i + 1..j BY <1>2, <2>1, <3>2
        <5> QED BY <1>2, <2>2, <5>1
      <4>2. p[n] = Anything \/ (p[n] \in {Optional, c} /\ d[i] = L) BY <2>1, <3>2
      <4> QED BY <1>1, <4>1, <4>2 DEF Fits, Optional, Anything
    <3>3. CASE n > i + 1
      <4>1. n \in i + 2..j /\ n - 1 \in i + 1..j /\ n \in i + 1..j BY <1>1, <1>2, <2>1, <3>3
      <4>2. e[n - 1] = L + 1 /\ e[n] = L + 1 /\ p[n] \in {Optional, Anything} BY <2>1, <2>2, <4>1
      <4> QED BY <1>1, <4>2 DEF Fits
    <3> QED BY <1>2, <3>1, <3>2, <3>3
  <2>4. Stands(p, u, e, j) BY <2>1, <2>2, <2>3 DEF Stands, PlacesOf
  <2> QED BY <2>4 DEF u
<1> QED BY <1>5, <1>6

\* Patterns that are found to overlap match prefixes of one text.
LEMMA OverlapShared ==
  ASSUME NEW C, NEW p \in Seq(C), NEW q \in Seq(C), LanguagesOverlap(p, q)
  PROVE  \E t \in Seq(Alphabet(p, q)) : \E d, e : Cut(p, t, d) /\ Cut(q, t, e)
<1> DEFINE N == Pairs(p, q)
           A == Alphabet(p, q)
           g == Visited(p, q)
           Known(i, j) == \E t \in Seq(A) : \E d, e : Stands(p, t, d, i) /\ Stands(q, t, e, j)
           S == {n \in 0..N : \A i, j : <<i, j>> \in g[n] => Known(i, j)}
<1>1. /\ N \in Nat /\ g \in [0..N -> SUBSET (PlacesOf(p) \X PlacesOf(q))]
      /\ g[0] = Closure(p, 0) \X Closure(q, 0)
      /\ \A n \in 1..N : g[n] = Further(p, q, g[n - 1])
  BY VisitedIs
<1> HIDE DEF N, g, A
<1>2. 0 \in S
  <2>1. ASSUME NEW i, NEW j, <<i, j>> \in g[0] PROVE Known(i, j)
    <3>1. i \in Closure(p, 0) /\ j \in Closure(q, 0) BY <1>1, <2>1
    <3>2. <<>> \in Seq(A) OBVIOUS
    <3> QED BY <3>1, <3>2, StandsFirst
  <2> HIDE DEF Known
  <2> QED BY <1>1, <2>1
<1>3. ASSUME NEW n \in 1..N, n - 1 \in S PROVE n \in S
  <2>1. ASSUME NEW i, NEW j, <<i, j>> \in g[n] PROVE Known(i, j)
    <3>1. CASE <<i, j>> \in g[n - 1]
      <4> HIDE DEF Known
      <4> QED BY <1>3, <3>1
    <3>2. CASE <<i, j>> \notin g[n - 1]
      <4>1. PICK h \in g[n - 1], c \in A :
              <<i, j>> \in Reached(p, h[1], c) \X Reached(q, h[2], c)
        BY <1>1, <2>1, <3>2 DEF Further, A
      <4>2. h = <<h[1], h[2]>>
        <5>1. n - 1 \in 0..N BY <1>1
        <5> QED BY <1>1, <4>1, <5>1
      <4>3. Known(h[1], h[2])
        <5> HIDE DEF Known
        <5> QED BY <1>3, <4>1, <4>2
      <4>4. PICK t \in Seq(A) : \E d, e : Stands(p, t, d, h[1]) /\ Stands(q, t, e, h[2]) BY <4>3
      <4>5. PICK d, e : Stands(p, t, d, h[1]) /\ Stands(q, t, e, h[2]) BY <4>4
      <4>6. (\E x : Stands(p, Append(t, c), x, i)) /\ \E y : Stands(q, Append(t, c), y, j)
        BY <4>1, <4>5, StandsNext
      <4>7. Append(t, c) \in Seq(A) OBVIOUS
      <4> QED BY <4>6, <4>7
    <3> QED BY <3>1, <3>2
  <2> HIDE DEF Known
  <2> QED BY <1>1, <2>1
<1>4. Known(Len(p), Len(q))
  <2> HIDE DEF Known
  <2>1. 0..N \subseteq S
    <3> HIDE DEF S
    <3> QED BY <1>1, <1>2, <1>3, UpTo
  <2>2. N \in S
    <3> HIDE DEF S
    <3> QED BY <1>1, <2>1
  <2> QED BY <2>2 DEF LanguagesOverlap, N, g
<1> QED BY <1>4 DEF Stands, Cut, A

\* Each cut is one of those that the prefixes are computed by.
LEMMA CutEnds ==
  ASSUME NEW C, NEW p \in Seq(C), NEW s \in Seq(C), NEW e, Cut(p, s, e)
  PROVE  Ends(p, s) # {}
<1> DEFINE N == Len(p)
           g == EndsBy(p, s)
           S == {n \in 0..N : e[n] \in g[n]}
<1>1. /\ N \in Nat /\ Len(s) \in Nat /\ e[0] = 0 /\ \A n \in 0..N : e[n] \in 0..Len(s)
  BY CutIs DEF Cut
<1>2. /\ \A n \in 0..N : g[n] \in SUBSET (0..Len(s))
      /\ g[0] = {0}
      /\ \A n \in 1..N : g[n] = Extended(s, g[n - 1], p[n])
  <2> DEFINE X == SUBSET (0..Len(s))
  <2>1. g \in [0..N -> X] /\ g[0] = {0} /\ \A n \in 1..N : g[n] = Extended(s, g[n - 1], p[n])
    BY EndsByIs
  <2> HIDE DEF X, g
  <2>2. \A n \in 0..N : g[n] \in X BY <2>1
  <2> QED BY <2>1, <2>2 DEF X
<1> HIDE DEF g
<1>3. 0 \in S BY <1>1, <1>2
<1>4. ASSUME NEW n \in 1..N, n - 1 \in S PROVE n \in S
  <2> DEFINE cur == g[n - 1]
             c == p[n]
             a == e[n - 1]
             b == e[n]
  <2>1. n \in 0..N /\ n - 1 \in 0..N BY <1>1
  <2>2. cur \in SUBSET (0..Len(s)) /\ a \in cur /\ a \in 0..Len(s) /\ b \in 0..Len(s)
    BY <1>1, <1>2, <1>4, <2>1
  <2>3. Fits(c, s, a, b) BY DEF Cut
  <2> HIDE DEF cur, c, a, b
  <2>4. b \in Extended(s, cur, c)
    <3>1. CASE c = Optional
      <4>1. b = a \/ (b = a + 1 /\ a # Len(s)) BY <1>1, <2>2, <2>3, <3>1 DEF Fits
      <4>2. CASE b = a BY <2>2, <3>1, <4>2 DEF Extended, Optional, Anything
      <4>3. CASE b = a + 1 /\ a # Len(s)
        <5>1. a \in cur \ {Len(s)} BY <2>2, <4>3
        <5> QED BY <3>1, <4>3, <5>1 DEF Extended, Optional, Anything
      <4> QED BY <4>1, <4>2, <4>3
    <3>2. CASE c = Anything
      <4>0. \A x \in cur : x \in Nat BY <1>1, <2>2
      <4>1. Min(cur) \in cur /\ Min(cur) <= a
        <5>1. cur \in SUBSET Nat BY <4>0
        <5> QED BY <2>2, <5>1, MinIn
      <4>2. Min(cur) \in Nat /\ a <= b BY <2>3, <4>0, <4>1 DEF Fits
      <4>3. b \in Min(cur)..Len(s) BY <1>1, <2>2, <4>1, <4>2
      <4> QED BY <2>2, <3>2, <4>3 DEF Extended, Optional, Anything
    <3>3. CASE c \notin {Anything, Optional}
      <4>1. b = a + 1 /\ s[a + 1] = c /\ a < Len(s) BY <1>1, <2>2, <2>3, <3>3 DEF Fits
      <4> QED BY <2>2, <3>3, <4>1 DEF Extended
    <3> QED BY <3>1, <3>2, <3>3
  <2> QED BY <1>2, <2>1, <2>4 DEF cur, c, a, b
<1>5. 0..N \subseteq S
  <2> HIDE DEF S, N
  <2> QED BY <1>1, <1>3, <1>4, UpTo
<1> QED BY <1>1, <1>5 DEF Ends, g

\* The last of several numbers is one of them.
LEMMA MaxIn ==
  ASSUME NEW N \in Nat, NEW S \in SUBSET (0..N), S # {}
  PROVE  Max(S) \in S
<1> DEFINE T == {N - x : x \in S}
<1>1. T \in SUBSET Nat /\ T # {}
  <2>1. \A x \in S : x \in 0..N OBVIOUS
  <2>2. \A x \in S : N - x \in Nat BY <2>1
  <2>3. \E x \in S : TRUE OBVIOUS
  <2> QED BY <2>2, <2>3
<1>2. PICK n \in T : \A m \in T : n <= m BY <1>1, LeastNat
<1>3. PICK x \in S : n = N - x BY <1>2
<1>4. \A y \in S : x >= y BY <1>2, <1>3
<1> QED BY <1>3, <1>4 DEF Max

LEMMA CutMatches ==
  ASSUME NEW r, r.patterns \in Seq(Patterns), r.sensitive \in BOOLEAN, NEW s \in Seq(Letters),
         NEW i \in DOMAIN r.patterns, NEW e, Cut(Read(r.patterns[i], r.sensitive), Read(s, r.sensitive), e)
  PROVE  Matches(r, s)
<1> DEFINE ends(j) == Ends(Read(r.patterns[j], r.sensitive), Read(s, r.sensitive))
           hits == {j \in DOMAIN r.patterns : ends(j) # {}}
           first == Min(hits)
           text == Read(s, r.sensitive)
<1>1. text \in Patterns /\ \A j \in DOMAIN r.patterns : Read(r.patterns[j], r.sensitive) \in Patterns
  <2>1. s \in Patterns /\ \A j \in DOMAIN r.patterns : r.patterns[j] \in Patterns BY DEF Patterns
  <2> QED BY <2>1, FoldedIs DEF Read, Patterns
<1>2. ends(i) # {} BY <1>1, CutEnds DEF Patterns
<1>3. i \in hits BY <1>2
<1>4. first \in hits
  <2>1. hits \in SUBSET Nat
    <3>1. DOMAIN r.patterns = 1..Len(r.patterns) /\ Len(r.patterns) \in Nat OBVIOUS
    <3> QED BY <3>1
  <2> HIDE DEF hits
  <2> QED BY <1>3, <2>1, MinIn
<1>5. ends(first) \in SUBSET (0..Len(text)) /\ ends(first) # {} /\ Len(text) \in Nat
  <2> DEFINE p == Read(r.patterns[first], r.sensitive)
  <2>1. p \in Seq(Letters \cup {Anything, Optional}) /\ text \in Seq(Letters \cup {Anything, Optional})
    BY <1>1, <1>4 DEF Patterns
  <2>2. ends(first) = EndsBy(p, text)[Len(p)] BY DEF Ends
  <2> HIDE DEF p, text
  <2>3. Len(p) \in 0..Len(p) /\ Len(text) \in Nat BY <2>1
  <2>4. EndsBy(p, text)[Len(p)] \in SUBSET (0..Len(text))
    <3> DEFINE X == SUBSET (0..Len(text))
    <3>1. EndsBy(p, text) \in [0..Len(p) -> X] BY <2>1, EndsByIs
    <3> HIDE DEF X
    <3>2. EndsBy(p, text)[Len(p)] \in X BY <2>3, <3>1
    <3> QED BY <3>2 DEF X
  <2> HIDE DEF ends
  <2> QED BY <1>4, <2>2, <2>3, <2>4
<1>6. Min(ends(first)) \in Nat /\ Max(ends(first)) \in Nat
  <2> HIDE DEF ends, text
  <2>1. ends(first) \in SUBSET Nat
    <3>1. 0..Len(text) \subseteq Nat BY <1>5
    <3> QED BY <1>5, <3>1
  <2>2. Min(ends(first)) \in ends(first) /\ Max(ends(first)) \in ends(first) BY <1>5, <2>1, MinIn, MaxIn
  <2> QED BY <2>1, <2>2
<1>7. MatchLen(r.patterns, s, r.sensitive) \in {Min(ends(first)), Max(ends(first))}
  <2>1. hits # {} BY <1>3
  <2> QED BY <2>1 DEF MatchLen
<1>8. MatchLen(r.patterns, s, r.sensitive) >= 0 BY <1>6, <1>7
<1> QED BY <1>8 DEF Matches

\* A cut stays one when other letters are read where p has letters.
LEMMA CutAgain ==
  ASSUME NEW p, NEW t, NEW d, Cut(p, t, d), NEW q, NEW s, Len(q) = Len(p), Len(s) = Len(t),
         \A n \in 1..Len(p) : p[n] \in {Anything, Optional} => q[n] = p[n],
         \A n \in 1..Len(p) : p[n] \notin {Anything, Optional} =>
                                q[n] \notin {Anything, Optional} /\ s[d[n]] = q[n]
  PROVE  Cut(q, s, d)
<1>1. ASSUME NEW n \in 1..Len(q) PROVE Fits(q[n], s, d[n - 1], d[n])
  <2>1. Fits(p[n], t, d[n - 1], d[n]) BY DEF Cut
  <2>2. CASE p[n] \in {Anything, Optional}
    <3>1. q[n] = p[n] BY <2>2
    <3> QED BY <2>1, <2>2, <3>1 DEF Fits
  <2>3. CASE p[n] \notin {Anything, Optional}
    <3>1. q[n] \notin {Anything, Optional} /\ s[d[n]] = q[n] BY <2>3
    <3> QED BY <2>1, <2>3, <3>1 DEF Fits
  <2> QED BY <2>2, <2>3
<1> QED BY <1>1 DEF Cut

\* Where a letter of p is read there is that letter.
LEMMA LetterRead ==
  ASSUME NEW C, NEW p \in Seq(C), NEW t, Len(t) \in Nat, NEW d, Cut(p, t, d),
         NEW n \in 1..Len(p), p[n] \notin {Anything, Optional}
  PROVE  d[n] \in 1..Len(t) /\ t[d[n]] = p[n] /\ d[n] = d[n - 1] + 1
<1>1. n \in 0..Len(p) /\ n - 1 \in 0..Len(p) OBVIOUS
<1>2. d[n] \in Nat /\ d[n] <= Len(t) /\ d[n - 1] \in Nat BY <1>1, CutIs
<1>3. d[n] = d[n - 1] + 1 /\ t[d[n]] = p[n] BY DEF Cut, Fits
<1> QED BY <1>2, <1>3

LEMMA SharedExactly ==
  ASSUME NEW p \in Patterns, NEW q \in Patterns, NEW t \in Seq(Letters \cup {Nobody}),
         NEW d, Cut(p, t, d), NEW e, Cut(q, t, e)
  PROVE  \E s \in Seq(Letters) : Cut(p, s, d) /\ Cut(q, s, e)
<1> DEFINE any == CHOOSE x \in Letters : TRUE
           s == [m \in 1..Len(t) |-> IF t[m] \in Letters THEN t[m] ELSE any]
<1>1. any \in Letters BY PrefixAssumption
<1> HIDE DEF any
<1>2. s \in Seq(Letters) /\ Len(s) = Len(t) /\ Len(t) \in Nat BY <1>1
<1>3. ASSUME NEW r \in Patterns, NEW f, Cut(r, t, f) PROVE Cut(r, s, f)
  <2>1. ASSUME NEW n \in 1..Len(r), r[n] \notin {Anything, Optional} PROVE s[f[n]] = r[n]
    <3>1. r[n] \in Letters BY <2>1 DEF Patterns
    <3>2. f[n] \in 1..Len(t) /\ t[f[n]] = r[n] BY <1>2, <1>3, <2>1, LetterRead DEF Patterns
    <3> QED BY <3>1, <3>2
  <2> HIDE DEF s
  <2> QED BY <1>2, <1>3, <2>1, CutAgain
<1> QED BY <1>2, <1>3

LEMMA OneLess == ASSUME NEW a \in Nat, NEW b, b = a + 1 PROVE a = b - 1
OBVIOUS

LEMMA SharedFolded ==
  ASSUME NEW p \in Patterns, NEW q \in Patterns, NEW t, Len(t) \in Nat,
         NEW d, Cut(Folded(p), t, d), NEW e, Cut(Folded(q), t, e)
  PROVE  \E s \in Seq(Letters) :
           /\ Cut(p, s, d) /\ Cut(Folded(p), Folded(s), d)
           /\ Cut(Folded(q), Folded(s), e)
<1> DEFINE Right(m, x) ==
             /\ \A n \in 1..Len(p) : p[n] \in Letters /\ d[n] = m => x = p[n]
             /\ (\E y \in Letters : Lower[y] = t[m]) => Lower[x] = t[m]
           s == [m \in 1..Len(t) |-> CHOOSE x \in Letters : Right(m, x)]
<1>1. ASSUME NEW r \in Patterns
      PROVE  /\ r \in Seq(Letters \cup {Anything, Optional})
             /\ Folded(r) \in Seq(Letters \cup {Anything, Optional}) /\ Len(Folded(r)) = Len(r)
             /\ \A n \in 1..Len(r) :
                  /\ r[n] \in Letters => Folded(r)[n] = Lower[r[n]] /\ Lower[r[n]] \in Letters
                  /\ r[n] \notin Letters => Folded(r)[n] = r[n] /\ r[n] \in {Anything, Optional}
  <2>1. r \in Seq(Letters \cup {Anything, Optional}) BY DEF Patterns
  <2>2. \A n \in 1..Len(r) : r[n] \in Letters \cup {Anything, Optional} BY <2>1
  <2> QED BY <2>1, <2>2, FoldedIs, PrefixAssumption
<1>2. \A x \in Letters : x \notin {Anything, Optional} BY PrefixAssumption
<1>3. ASSUME NEW n \in 1..Len(p), p[n] \in Letters
      PROVE  d[n] \in 1..Len(t) /\ t[d[n]] = Lower[p[n]] /\ d[n] = d[n - 1] + 1
  <2>1. Folded(p)[n] \notin {Anything, Optional} BY <1>1, <1>2, <1>3
  <2> QED BY <1>1, <1>3, <2>1, LetterRead
<1>4. ASSUME NEW m \in 1..Len(t) PROVE \E x \in Letters : Right(m, x)
  <2>1. CASE \E n \in 1..Len(p) : p[n] \in Letters /\ d[n] = m
    <3>1. PICK n \in 1..Len(p) : p[n] \in Letters /\ d[n] = m BY <2>1
    <3>2. ASSUME NEW k \in 1..Len(p), p[k] \in Letters, d[k] = m PROVE k = n
      <4>1. Len(p) \in Nat /\ \A i \in 0..Len(p) : d[i] \in Nat BY <1>1, CutIs
      <4>2. \A j \in 0..Len(p) : \A i \in 0..j : d[i] <= d[j] BY <1>1, CutGrows
      <4>3. d[k - 1] = m - 1 /\ d[n - 1] = m - 1
        <5>1. k - 1 \in 0..Len(p) /\ n - 1 \in 0..Len(p) BY <4>1
        <5>2. d[k] = d[k - 1] + 1 /\ d[n] = d[n - 1] + 1 BY <1>3, <3>1, <3>2
        <5>3. d[k] = m /\ d[n] = m BY <3>1, <3>2
        <5>4. d[k - 1] \in Nat /\ d[n - 1] \in Nat BY <4>1, <5>1
        <5>5. d[k - 1] = m - 1 BY ONLY <5>2, <5>3, <5>4, OneLess
        <5>6. d[n - 1] = m - 1 BY ONLY <5>2, <5>3, <5>4, OneLess
        <5> QED BY ONLY <5>5, <5>6
      <4>4. CASE k < n
        <5>1. n - 1 \in 0..Len(p) /\ k \in 0..n - 1 BY <4>1, <4>4
        <5> QED BY <3>2, <4>2, <4>3, <5>1
      <4>5. CASE n < k
        <5>1. k - 1 \in 0..Len(p) /\ n \in 0..k - 1 BY <4>1, <4>5
        <5> QED BY <3>1, <4>2, <4>3, <5>1
      <4> QED BY <4>1, <4>4, <4>5
    <3>3. Lower[p[n]] = t[m] BY <1>3, <3>1
    <3>4. Right(m, p[n]) BY <3>1, <3>2, <3>3
    <3> QED BY <3>1, <3>4
  <2>2. CASE ~\E n \in 1..Len(p) : p[n] \in Letters /\ d[n] = m
    <3>1. CASE \E y \in Letters : Lower[y] = t[m] BY <2>2, <3>1
    <3>2. CASE ~\E y \in Letters : Lower[y] = t[m] BY <2>2, <3>2, PrefixAssumption
    <3> QED BY <3>1, <3>2
  <2> QED BY <2>1, <2>2
<1>5. \A m \in 1..Len(t) : s[m] \in Letters /\ Right(m, s[m])
  <2> HIDE DEF Right
  <2> QED BY <1>4
<1>6. s \in Seq(Letters) /\ Len(s) = Len(t)
  <2>1. s = [m \in 1..Len(t) |-> s[m]] OBVIOUS
  <2> HIDE DEF s
  <2> QED BY <1>5, <2>1
<1> HIDE DEF s
<1>7. Folded(s) = [m \in 1..Len(t) |-> Lower[s[m]]] /\ Len(Folded(s)) = Len(t)
  <2>1. s \in Patterns BY <1>6 DEF Patterns
  <2>2. DOMAIN s = 1..Len(t) BY <1>6
  <2> QED BY <1>1, <1>5, <1>6, <2>1, <2>2 DEF Folded
<1>8. Cut(p, s, d)
  <2>1. ASSUME NEW n \in 1..Len(p), Folded(p)[n] \notin {Anything, Optional}
        PROVE  p[n] \notin {Anything, Optional} /\ s[d[n]] = p[n]
    <3>1. p[n] \in Letters BY <1>1, <2>1
    <3> QED BY <1>2, <1>3, <1>5, <3>1
  <2>2. ASSUME NEW n \in 1..Len(p), Folded(p)[n] \in {Anything, Optional} PROVE p[n] = Folded(p)[n]
    BY <1>1, <1>2, <2>2
  <2> QED BY <1>1, <1>6, <2>1, <2>2, CutAgain
<1>9. ASSUME NEW r \in Patterns, NEW f, Cut(Folded(r), t, f) PROVE Cut(Folded(r), Folded(s), f)
  <2>1. ASSUME NEW n \in 1..Len(r), Folded(r)[n] \notin {Anything, Optional}
        PROVE  Folded(s)[f[n]] = Folded(r)[n]
    <3>1. r[n] \in Letters /\ Folded(r)[n] = Lower[r[n]] BY <1>1, <2>1
    <3>2. f[n] \in 1..Len(t) /\ t[f[n]] = Lower[r[n]] BY <1>1, <1>9, <2>1, <3>1, LetterRead
    <3>3. Lower[s[f[n]]] = t[f[n]] BY <1>5, <3>1, <3>2
    <3> QED BY <1>7, <3>1, <3>2, <3>3
  <2> DEFINE P == Folded(r)
             u == Folded(s)
  <2>2. /\ Cut(P, t, f) /\ Len(u) = Len(t)
        /\ \A n \in 1..Len(P) : P[n] \notin {Anything, Optional} => u[f[n]] = P[n]
    BY <1>1, <1>7, <1>9, <2>1
  <2> HIDE DEF P, u
  <2>3. Cut(P, u, f) BY <2>2, CutAgain
  <2> QED BY <2>3 DEF P, u
<1> QED BY <1>6, <1>8, <1>9

\* Two rules that are found to overlap both match some text.
LEMMA FoundShared ==
  ASSUME NEW r1, r1.patterns \in Seq(Patterns), r1.sensitive \in BOOLEAN,
         NEW r2, r2.patterns \in Seq(Patterns), r2.sensitive \in BOOLEAN,
         Overlap(r1, r2)
  PROVE  \E s \in Seq(Letters) : Matches(r1, s) /\ Matches(r2, s)
<1> DEFINE both == r1.sensitive /\ r2.sensitive
<1>1. PICK i \in DOMAIN r1.patterns, j \in DOMAIN r2.patterns :
        LanguagesOverlap(Read(r1.patterns[i], both), Read(r2.patterns[j], both))
  BY DEF Overlap
<1> DEFINE p == r1.patterns[i]
           q == r2.patterns[j]
<1>2. p \in Patterns /\ q \in Patterns OBVIOUS
<1>3. Read(p, both) \in Patterns /\ Read(q, both) \in Patterns
  BY <1>2, FoldedIs DEF Read, Patterns
<1>4. PICK t \in Seq(Alphabet(Read(p, both), Read(q, both))) :
        \E d, e : Cut(Read(p, both), t, d) /\ Cut(Read(q, both), t, e)
  BY <1>1, <1>3, OverlapShared DEF Patterns
<1>5. PICK d, e : Cut(Read(p, both), t, d) /\ Cut(Read(q, both), t, e) BY <1>4
<1>6. t \in Seq(Letters \cup {Nobody}) /\ Len(t) \in Nat
  <2>1. ASSUME NEW x \in Patterns PROVE Range(x) \subseteq Letters \cup {Anything, Optional}
    BY DEF Patterns, Range
  <2>2. Alphabet(Read(p, both), Read(q, both)) \subseteq Letters \cup {Nobody}
    BY <1>3, <2>1 DEF Alphabet
  <2> QED BY <1>4, <2>2
<1> HIDE DEF p, q
<1>7. \E s \in Seq(Letters) :
        (\E f : Cut(Read(p, r1.sensitive), Read(s, r1.sensitive), f)) /\
        \E f : Cut(Read(q, r2.sensitive), Read(s, r2.sensitive), f)
  <2>1. CASE both
    <3>1. Cut(p, t, d) /\ Cut(q, t, e) BY <1>5, <2>1 DEF Read
    <3>2. PICK s \in Seq(Letters) : Cut(p, s, d) /\ Cut(q, s, e)
      BY <1>2, <1>6, <3>1, SharedExactly
    <3> QED BY <2>1, <3>2 DEF Read
  <2>2. CASE ~r2.sensitive
    <3>1. Cut(Folded(p), t, d) /\ Cut(Folded(q), t, e) BY <1>5, <2>2 DEF Read
    <3>2. PICK s \in Seq(Letters) :
            Cut(p, s, d) /\ Cut(Folded(p), Folded(s), d) /\ Cut(Folded(q), Folded(s), e)
      BY <1>2, <1>6, <3>1, SharedFolded
    <3> QED BY <2>2, <3>2 DEF Read
  <2>3. CASE ~r1.sensitive
    <3>1. Cut(Folded(p), t, d) /\ Cut(Folded(q), t, e) BY <1>5, <2>3 DEF Read
    <3>2. PICK s \in Seq(Letters) :
            Cut(q, s, e) /\ Cut(Folded(q), Folded(s), e) /\ Cut(Folded(p), Folded(s), d)
      BY <1>2, <1>6, <3>1, SharedFolded
    <3> QED BY <2>3, <3>2 DEF Read
  <2> QED BY <2>1, <2>2, <2>3
<1> QED BY <1>7, CutMatches DEF p, q

-----------------------------------------------------------------------------
(* The rules *)

\* Every row of the table is a form that was entered, under its own number; what
\* it, or a rule about to be inserted, was checked against is in the table.
RulesSound ==
  /\ rules = [i \in DOMAIN rules |-> rules[i]]
  /\ \A i \in DOMAIN rules :
       \E f \in Forms, saw \in SUBSET DOMAIN rules : f.id = i /\ rules[i] = Stored(f, saw)
  /\ adding \subseteq [rule : Forms, saw : SUBSET DOMAIN rules]

LEMMA RulesStart == RuleInit => RulesSound
BY DEF RuleInit, RulesSound

LEMMA CheckRuleSound ==
  ASSUME RulesSound, NEW f \in Forms, CheckRule(f)
  PROVE  RulesSound'
<1>1. \E saw \in SUBSET DOMAIN rules :
        adding' \in {adding, adding \cup {[rule |-> f, saw |-> saw]}}
  <2> DEFINE others == {i \in Routed \ {f.id} : Effective(f) \cap Effective(rules[i]) # {}}
  <2>1. others \in SUBSET DOMAIN rules BY DEF Routed
  <2>2. adding' \in {adding, adding \cup {[rule |-> f, saw |-> others]}} BY DEF CheckRule
  <2> HIDE DEF others
  <2> QED BY <2>1, <2>2
<1>2. f \in Forms OBVIOUS
<1>3. rules' = rules BY DEF CheckRule
<1> QED BY <1>1, <1>2, <1>3 DEF RulesSound

LEMMA InsertRuleSound ==
  ASSUME RulesSound, NEW w \in adding, InsertRule(w)
  PROVE  RulesSound'
<1>1. w.rule \in Forms /\ w.saw \in SUBSET DOMAIN rules BY DEF RulesSound
<1>2. adding' \subseteq adding /\ rules' \in {rules, Upserted(rules, w.rule.id, Stored(w.rule, w.saw))}
  BY DEF InsertRule
<1>3. CASE rules' = rules BY <1>2, <1>3 DEF RulesSound
<1>4. CASE rules' = Upserted(rules, w.rule.id, Stored(w.rule, w.saw))
  <2> DEFINE k == w.rule.id
             row == Stored(w.rule, w.saw)
  <2>1. /\ DOMAIN rules' = DOMAIN rules \cup {k}
        /\ rules' = [i \in DOMAIN rules' |-> rules'[i]]
        /\ rules'[k] = row
        /\ \A i \in DOMAIN rules \ {k} : rules'[i] = rules[i]
    BY <1>4 DEF Upserted
  <2> HIDE DEF row
  <2>2. ASSUME NEW i \in DOMAIN rules'
        PROVE  \E f \in Forms, saw \in SUBSET DOMAIN rules' : f.id = i /\ rules'[i] = Stored(f, saw)
    <3>1. CASE i = k BY <1>1, <2>1, <3>1 DEF row
    <3>2. CASE i # k
      <4>1. i \in DOMAIN rules /\ rules'[i] = rules[i] BY <2>1, <3>2
      <4>2. PICK f \in Forms, saw \in SUBSET DOMAIN rules : f.id = i /\ rules[i] = Stored(f, saw)
        BY <4>1 DEF RulesSound
      <4>3. saw \in SUBSET DOMAIN rules' BY <2>1
      <4> QED BY <4>1, <4>2, <4>3
    <3> QED BY <3>1, <3>2
  <2>3. adding' \subseteq [rule : Forms, saw : SUBSET DOMAIN rules'] BY <1>2, <2>1 DEF RulesSound
  <2> QED BY <2>1, <2>2, <2>3 DEF RulesSound
<1> QED BY <1>2, <1>3, <1>4

LEMMA DeleteRuleSound ==
  ASSUME RulesSound, NEW i \in DOMAIN rules, DeleteRule(i)
  PROVE  RulesSound'
<1>1. /\ rules' = [j \in DOMAIN rules \ {i} |-> [rules[j] EXCEPT !.saw = @ \ {i}]]
      /\ adding' = {[w EXCEPT !.saw = @ \ {i}] : w \in adding}
  BY DEF DeleteRule
<1>2. DOMAIN rules' = DOMAIN rules \ {i} BY <1>1
<1>3. ASSUME NEW j \in DOMAIN rules'
      PROVE  \E f \in Forms, saw \in SUBSET DOMAIN rules' : f.id = j /\ rules'[j] = Stored(f, saw)
  <2>1. PICK f \in Forms, saw \in SUBSET DOMAIN rules : f.id = j /\ rules[j] = Stored(f, saw)
    BY <1>2 DEF RulesSound
  <2>2. [rules[j] EXCEPT !.saw = @ \ {i}] = Stored(f, saw \ {i}) BY <2>1 DEF Stored
  <2>3. rules'[j] = Stored(f, saw \ {i}) BY <1>1, <1>2, <2>2
  <2>4. saw \ {i} \in SUBSET DOMAIN rules' BY <1>2
  <2> QED BY <2>1, <2>3, <2>4
<1>4. ASSUME NEW v \in adding' PROVE v \in [rule : Forms, saw : SUBSET DOMAIN rules']
  <2>1. PICK w \in adding : v = [w EXCEPT !.saw = @ \ {i}] BY <1>1
  <2>2. w \in [rule : Forms, saw : SUBSET DOMAIN rules] BY DEF RulesSound
  <2> QED BY <1>2, <2>1, <2>2
<1> QED BY <1>1, <1>2, <1>3, <1>4 DEF RulesSound

LEMMA RuleNextSound == ASSUME RulesSound, RuleNext PROVE RulesSound'
<1>1. ASSUME NEW t, NEW on, SwitchService(t, on) PROVE RulesSound'
  BY <1>1 DEF SwitchService, RulesSound
<1> QED BY <1>1, CheckRuleSound, InsertRuleSound, DeleteRuleSound DEF RuleNext

\* No rule shares a text with one it was checked against, nor does one that is
\* about to be inserted; two that were refused do.
Same(r, f) == r.patterns = f.patterns /\ r.sensitive = f.sensitive
RulesApart ==
  /\ \A j \in DOMAIN rules : \A i \in rules[j].saw : ~Overlap(rules[j], rules[i])
  /\ \A w \in adding : \A i \in w.saw : ~Overlap(w.rule, rules[i])
  /\ refused # {} =>
       \E f, g \in Forms : Overlap(f, g) /\ \A r \in refused : Same(r, f) \/ Same(r, g)

LEMMA SameOverlap ==
  ASSUME NEW r, NEW f, Same(r, f), NEW u, NEW g, Same(u, g)
  PROVE  Overlap(r, u) <=> Overlap(f, g)
BY DEF Same, Overlap

LEMMA SameMatches ==
  ASSUME NEW r, NEW f, Same(r, f), NEW s
  PROVE  Matches(r, s) <=> Matches(f, s)
BY DEF Same, Matches

\* A rule that was entered shares its patterns with the row of it.
LEMMA RowSame ==
  ASSUME RulesSound, NEW i \in DOMAIN rules
  PROVE  (\E f \in Forms : Same(rules[i], f)) /\ rules[i].saw \subseteq DOMAIN rules
<1>1. PICK f \in Forms, saw \in SUBSET DOMAIN rules : f.id = i /\ rules[i] = Stored(f, saw)
  BY DEF RulesSound
<1> QED BY <1>1 DEF Same, Stored

LEMMA CheckApart ==
  ASSUME RulesSound, RulesApart, NEW f \in Forms, CheckRule(f)
  PROVE  RulesApart'
<1> DEFINE others == {i \in Routed \ {f.id} : Effective(f) \cap Effective(rules[i]) # {}}
           clash == {i \in others : Overlap(f, rules[i])}
<1>1. rules' = rules BY DEF CheckRule
<1>2. CASE clash = {}
  <2>1. adding' = adding \cup {[rule |-> f, saw |-> others]} /\ refused' = refused
    BY <1>2 DEF CheckRule
  <2>2. \A i \in others : ~Overlap(f, rules[i]) BY <1>2
  <2> HIDE DEF others
  <2> QED BY <1>1, <2>1, <2>2 DEF RulesApart
<1>3. CASE clash # {}
  <2>1. adding' = adding /\ \E i \in clash : refused' = {f, rules[i]} BY <1>3 DEF CheckRule
  <2>2. PICK i \in clash : refused' = {f, rules[i]} BY <2>1
  <2>3. i \in DOMAIN rules /\ Overlap(f, rules[i]) BY DEF Routed
  <2>4. PICK g \in Forms : Same(rules[i], g) BY <2>3, RowSame
  <2>5. Same(f, f) BY DEF Same
  <2>6. Overlap(f, g) BY <2>3, <2>4, <2>5, SameOverlap
  <2>7. \A r \in refused' : Same(r, f) \/ Same(r, g) BY <2>2, <2>4, <2>5
  <2> QED BY <1>1, <2>1, <2>6, <2>7 DEF RulesApart
<1> QED BY <1>2, <1>3

LEMMA InsertApart ==
  ASSUME RulesSound, RulesApart, NEW w \in adding, InsertRule(w)
  PROVE  RulesApart'
<1> DEFINE k == w.rule.id
           row == Stored(w.rule, w.saw)
<1>1. /\ adding' \subseteq adding /\ refused' = refused
      /\ rules' = rules \/ (k \notin DOMAIN rules /\ rules' = Upserted(rules, k, row))
  BY DEF InsertRule
<1>2. \A v \in adding : v.saw \subseteq DOMAIN rules BY DEF RulesSound
<1>3. CASE rules' = rules BY <1>1, <1>3 DEF RulesApart
<1>4. CASE k \notin DOMAIN rules /\ rules' = Upserted(rules, k, row)
  <2>1. /\ DOMAIN rules' = DOMAIN rules \cup {k} /\ rules'[k] = row
        /\ \A i \in DOMAIN rules : rules'[i] = rules[i]
    BY <1>4 DEF Upserted
  <2>2. ASSUME NEW j \in DOMAIN rules', NEW i \in rules'[j].saw
        PROVE  ~Overlap(rules'[j], rules'[i])
    <3>1. CASE j \in DOMAIN rules
      <4>1. rules'[j] = rules[j] /\ i \in rules[j].saw BY <2>1, <3>1
      <4>2. i \in DOMAIN rules BY <3>1, <4>1, RowSame
      <4> QED BY <2>1, <3>1, <4>1, <4>2 DEF RulesApart
    <3>2. CASE j = k
      <4>1. rules'[j] = row /\ i \in w.saw BY <2>1, <3>2 DEF Stored
      <4>2. i \in DOMAIN rules BY <1>2, <4>1
      <4>3. ~Overlap(w.rule, rules[i]) BY <4>1 DEF RulesApart
      <4>4. Same(row, w.rule) /\ Same(rules'[i], rules[i]) BY <2>1, <4>2 DEF Same, Stored
      <4> QED BY <4>1, <4>3, <4>4, SameOverlap
    <3> QED BY <2>1, <3>1, <3>2
  <2>3. ASSUME NEW v \in adding', NEW i \in v.saw PROVE ~Overlap(v.rule, rules'[i])
    <3>1. v \in adding /\ i \in DOMAIN rules BY <1>1, <1>2
    <3> QED BY <2>1, <3>1 DEF RulesApart
  <2> QED BY <1>1, <2>2, <2>3 DEF RulesApart
<1> QED BY <1>1, <1>3, <1>4

LEMMA DeleteApart ==
  ASSUME RulesSound, RulesApart, NEW k \in DOMAIN rules, DeleteRule(k)
  PROVE  RulesApart'
<1>1. /\ rules' = [j \in DOMAIN rules \ {k} |-> [rules[j] EXCEPT !.saw = @ \ {k}]]
      /\ adding' = {[w EXCEPT !.saw = @ \ {k}] : w \in adding}
      /\ refused' = refused
  BY DEF DeleteRule
<1>2. DOMAIN rules' = DOMAIN rules \ {k} BY <1>1
<1>3. ASSUME NEW j \in DOMAIN rules' PROVE Same(rules'[j], rules[j]) /\ rules'[j].saw = rules[j].saw \ {k}
  <2>1. PICK f \in Forms, saw \in SUBSET DOMAIN rules : f.id = j /\ rules[j] = Stored(f, saw)
    BY <1>2 DEF RulesSound
  <2>2. [rules[j] EXCEPT !.saw = @ \ {k}] = Stored(f, saw \ {k}) BY <2>1 DEF Stored
  <2>3. rules'[j] = Stored(f, saw \ {k}) BY <1>1, <1>2, <2>2
  <2> QED BY <2>1, <2>3 DEF Same, Stored
<1>4. ASSUME NEW j \in DOMAIN rules', NEW i \in rules'[j].saw PROVE ~Overlap(rules'[j], rules'[i])
  <2>1. j \in DOMAIN rules /\ i \in rules[j].saw /\ i # k BY <1>2, <1>3
  <2>2. i \in DOMAIN rules' BY <1>2, <2>1, RowSame
  <2>3. ~Overlap(rules[j], rules[i]) BY <2>1 DEF RulesApart
  <2> QED BY <1>3, <2>2, <2>3, SameOverlap
<1>5. ASSUME NEW v \in adding', NEW i \in v.saw PROVE ~Overlap(v.rule, rules'[i])
  <2>1. PICK w \in adding : v = [w EXCEPT !.saw = @ \ {k}] BY <1>1
  <2>2. w \in [rule : Forms, saw : SUBSET DOMAIN rules] BY DEF RulesSound
  <2>3. v.rule = w.rule /\ i \in w.saw /\ i # k BY <2>1, <2>2
  <2>4. i \in DOMAIN rules' BY <1>2, <2>2, <2>3
  <2>5. ~Overlap(w.rule, rules[i]) BY <2>3 DEF RulesApart
  <2>6. Same(v.rule, w.rule) BY <2>3 DEF Same
  <2> QED BY <1>3, <2>4, <2>5, <2>6, SameOverlap
<1> QED BY <1>1, <1>4, <1>5 DEF RulesApart

LEMMA ApartNext == ASSUME RulesSound, RulesApart, RuleNext PROVE RulesApart'
<1>1. ASSUME NEW t, NEW on, SwitchService(t, on) PROVE RulesApart'
  BY <1>1 DEF SwitchService, RulesApart
<1> QED BY <1>1, CheckApart, InsertApart, DeleteApart DEF RuleNext

-----------------------------------------------------------------------------
(* Envelopes *)

\* An envelope that was addressed by the tables, in the name of a session of the
\* key it was sent under, or for a message, with the source of that message.
SourceOf(m) ==
  [bot |-> m.chat[1], group |-> Group(m), chat |-> m.chat[2], person |-> Source(m)[2],
   sender |-> m.sender]
Fit(e) ==
  /\ e.right /\ e.open
  /\ e.by # Nobody /\ e.why # "cross" => e.by[1] = e.key
  /\ e.source # Nobody => e.msg \in Inputs /\ e.source = SourceOf(e.msg)
FitQueue(q) == q # <<>> /\ q \in Seq(Range(q)) /\ \A e \in Range(q) : Fit(e)

LEMMA OneFit == ASSUME NEW e, Fit(e) PROVE FitQueue(<<e>>)
<1>1. /\ DOMAIN <<e>> = {1} /\ <<e>>[1] = e /\ <<e>> # <<>> BY DEF Range
<1>2. Range(<<e>>) = {e} BY <1>1 DEF Range
<1>3. <<e>> \in Seq({e}) OBVIOUS
<1> QED BY <1>1, <1>2, <1>3 DEF FitQueue

LEMMA RestFit ==
  ASSUME NEW q, FitQueue(q)
  PROVE  Fit(q[1]) /\ (Len(q) > 1 => FitQueue(Tail(q)))
<1> DEFINE S == Range(q)
<1>1. q \in Seq(S) /\ q # <<>> BY DEF FitQueue
<1>2. S = {q[i] : i \in 1..Len(q)} BY <1>1 DEF Range
<1> HIDE DEF S
<1>3. Len(q) \in Nat /\ Len(q) >= 1 /\ \A i \in 1..Len(q) : q[i] \in S BY <1>1
<1>4. \A e \in S : Fit(e) BY DEF FitQueue, S
<1>5. ASSUME Len(q) > 1 PROVE FitQueue(Tail(q))
  <2>1. /\ Tail(q) \in Seq(S) /\ Len(Tail(q)) = Len(q) - 1
        /\ \A i \in 1..Len(q) - 1 : Tail(q)[i] = q[i + 1]
    BY <1>1, <1>3
  <2>2. DOMAIN Tail(q) = 1..Len(q) - 1 BY <2>1, <1>3
  <2>3. Range(Tail(q)) \subseteq S BY <1>3, <2>1, <2>2 DEF Range
  <2>4. \A i \in 1..Len(q) - 1 : Tail(q)[i] \in Range(Tail(q)) BY <2>2 DEF Range
  <2>5. Tail(q) \in Seq(Range(Tail(q)))
    <3> DEFINE t == Tail(q)
               R == Range(t)
    <3>1. t \in Seq(S) /\ Len(t) \in Nat /\ \A i \in 1..Len(t) : t[i] \in R BY <2>1, <2>4, <1>3
    <3> HIDE DEF t, R
    <3>2. t \in [1..Len(t) -> R] BY <3>1
    <3>3. t \in Seq(R) BY <3>1, <3>2
    <3> QED BY <3>3 DEF t, R
  <2>6. Tail(q) # <<>> BY <2>1, <1>5, <1>3
  <2> QED BY <2>3, <2>5, <2>6, <1>4 DEF FitQueue
<1> QED BY <1>3, <1>4, <1>5

\* What a handler must have found, for each ground it chooses a session on.
Grounds(m, s, why, owner) ==
  /\ why = "own" => Source(m) \in accounts[s[1]] \/ OwnerOfKey(s[1]) \in ControlOwners(Source(m))
  /\ why = "rule" => m.chat \in BoundAccounts(s)
  /\ why \notin {"own", "rule"} =>
       owner = Nobody \/ endpoints[s].owner = owner \/ \E a \in accounts[s[1]] : Belongs(a, owner)
  /\ why = "cross" => ~members[owner].quiet /\ ~NoDirectory(s)

LEMMA EnvelopeFit ==
  ASSUME NEW m \in Inputs, NEW s, NEW why, NEW owner, Grounds(m, s, why, owner)
  PROVE  Fit(Envelope(m, s, why, owner))
<1> DEFINE e == Envelope(m, s, why, owner)
<1>1. e.open BY DEF Envelope, Grounds
<1>2. e.right
  <2>1. CASE why = "own" BY <2>1 DEF Envelope, Grounds
  <2>2. CASE why = "rule" BY <2>2 DEF Envelope, Grounds
  <2>3. CASE why \notin {"own", "rule"} BY <2>3 DEF Envelope, Grounds
  <2> QED BY <2>1, <2>2, <2>3
<1>3. e.by = Nobody BY DEF Envelope
<1>4. e.msg = m /\ e.source = SourceOf(m) BY DEF Envelope, SourceOf
<1> HIDE DEF e
<1> QED BY <1>1, <1>2, <1>3, <1>4 DEF Fit, e

LEMMA SessionEnvelopeFit ==
  ASSUME NEW s, NEW to, NEW key, NEW why, NEW owner,
         why # "cross" => s[1] = key,
         why = "cross" => /\ \E a \in accounts[key] : Belongs(a, owner)
                          /\ ~members[owner].quiet /\ ~NoDirectory(to)
  PROVE  Fit(SessionEnvelope(s, to, key, why, owner))
<1> DEFINE e == SessionEnvelope(s, to, key, why, owner)
<1>1. e.open BY DEF SessionEnvelope
<1>2. e.right BY DEF SessionEnvelope
<1>3. e.by = s /\ e.why = why /\ e.key = key /\ e.source = Nobody BY DEF SessionEnvelope
<1> HIDE DEF e
<1> QED BY <1>1, <1>2, <1>3 DEF Fit, e

-----------------------------------------------------------------------------
(* What the lookups find *)

LEMMA ByShortIn ==
  ASSUME DirectorySound, NEW o, NEW asked, NEW hint,
         ByShort(o, asked, hint) # Nobody, ByShort(o, asked, hint) # Several
  PROVE  o # Nobody /\ ByShort(o, asked, hint) \in OnlineOf(o)
<1> DEFINE mine    == OnlineOf(o)
           hits    == {s \in mine : s[2] = asked \/ (s[1] = hint /\ AliasMatch(o, s[2], asked))}
           aliases == {s \in mine : AliasMatch(o, s[2], asked)}
           r       == ByShort(o, asked, hint)
<1>1. r = IF o = Nobody THEN Nobody
          ELSE IF hits # {} THEN ByName(hits)
          ELSE IF aliases = {} THEN Nobody
          ELSE IF Cardinality(aliases) = 1 THEN CHOOSE s \in aliases : TRUE
          ELSE Several
  BY DEF ByShort
<1>2. hits \subseteq mine /\ aliases \subseteq mine OBVIOUS
<1>3. mine \subseteq Slots BY BoundSlots DEF OnlineOf, DirectorySound
<1>4. r # Nobody /\ r # Several OBVIOUS
<1> HIDE DEF mine, hits, aliases, r
<1>5. hits # {} => ByName(hits) \in hits BY <1>2, <1>3, ByNameIn
<1>6. o # Nobody /\ r \in mine BY <1>1, <1>2, <1>4, <1>5
<1> QED BY <1>6 DEF mine, r

LEMMA MemberSessionIn ==
  ASSUME NEW o, NEW n, NEW s, s = MemberSession(o, n), s # Nobody
  PROVE  ~NoDirectory(s) /\ \E a \in accounts[s[1]] : Belongs(a, o)
<1> DEFINE all     == {t \in EndpointsUp : (n = Nobody \/ t[2] = n) /\ \E a \in accounts[t[1]] : Belongs(a, o)}
           visible == {t \in all : ~NoDirectory(t)}
<1>1. s = IF all = {} THEN Nobody
          ELSE IF n # Nobody THEN IF ByKey(all) \in visible THEN ByKey(all) ELSE Nobody
          ELSE IF Cardinality(visible) = 1 THEN CHOOSE t \in visible : TRUE
          ELSE Nobody
  BY DEF MemberSession
<1>2. \A t \in visible : ~NoDirectory(t) /\ \E a \in accounts[t[1]] : Belongs(a, o) OBVIOUS
<1> HIDE DEF all, visible
<1>3. Cardinality(visible) = 1 => visible # {} BY FS_EmptySet
<1>4. s \in visible BY <1>1, <1>3
<1> QED BY <1>2, <1>4

\* The sessions of an owner in order: one at least when there are any.
LEMMA InOrderIn ==
  ASSUME NEW S, IsFiniteSet(S), S # {}, NEW q \in InOrder(S)
  PROVE  DOMAIN q = 1..Cardinality(S) /\ 1 \in DOMAIN q /\ Cardinality(S) \in Nat
         /\ \A i \in DOMAIN q : q[i] \in S
<1>1. Cardinality(S) \in Nat /\ Cardinality(S) # 0 BY FS_CardinalityType, FS_EmptySet
<1> QED BY <1>1 DEF InOrder

-----------------------------------------------------------------------------
(* The handlers *)

\* What a handler may ask for: envelopes that fit, or to show the output of a
\* session that is connected to a person.
FitOutcome(r) ==
  /\ r.kind = "send" => FitQueue(r.queue)
  /\ r.kind = "sync" => r.slot \in online /\ r.listener \in Listeners

LEMMA AnswerFits == FitOutcome(Answer)
BY DEF FitOutcome, Answer

LEMMA SendFits == ASSUME NEW q, FitQueue(q) PROVE FitOutcome(Send(q))
BY DEF FitOutcome, Send

LEMMA SendOneFits ==
  ASSUME NEW m \in Inputs, NEW s, NEW why, NEW owner, Grounds(m, s, why, owner)
  PROVE  FitOutcome(Send(<<Envelope(m, s, why, owner)>>))
BY EnvelopeFit, OneFit, SendFits

LEMMA SecurityOpsFits ==
  ASSUME DirectorySound, NEW m \in Inputs, NEW r \in SecurityOps(m)
  PROVE  FitOutcome(r)
<1> DEFINE to == SessionsOfOwner(SecOps)
           all(q) == [i \in DOMAIN q |-> Envelope(m, q[i], "ops", SecOps)]
<1>1. r = Answer \/ (to # {} /\ \E q \in InOrder(to) : r = Send(all(q))) BY DEF SecurityOps
<1>2. ASSUME to # {}, NEW q \in InOrder(to) PROVE FitQueue(all(q))
  <2>1. IsFiniteSet(to)
    <3>1. to \in SUBSET online BY DEF SessionsOfOwner
    <3> HIDE DEF to
    <3> QED BY <3>1, FS_Subset DEF DirectorySound
  <2>2. /\ DOMAIN q = 1..Cardinality(to) /\ 1 \in DOMAIN q /\ Cardinality(to) \in Nat
        /\ \A i \in DOMAIN q : q[i] \in to
    <3> HIDE DEF to
    <3> QED BY <1>2, <2>1, InOrderIn
  <2>3. \A s \in to : Fit(Envelope(m, s, "ops", SecOps))
    <3>1. \A s \in to : Grounds(m, s, "ops", SecOps) BY DEF SessionsOfOwner, Grounds
    <3> QED BY <3>1, EnvelopeFit
  <2> DEFINE n == Cardinality(to)
             w == all(q)
             R == Range(w)
  <2>4. DOMAIN w = 1..n /\ n \in Nat /\ 1 \in 1..n /\ w = [i \in 1..n |-> w[i]] BY <2>2
  <2>5. \A i \in 1..n : Fit(w[i]) BY <2>2, <2>3
  <2> HIDE DEF w, n
  <2>6. \A i \in 1..n : w[i] \in R BY <2>4 DEF Range
  <2>7. \A e \in R : Fit(e) BY <2>4, <2>5 DEF Range
  <2> HIDE DEF R
  <2>8. w \in [1..n -> R] BY <2>4, <2>6
  <2>9. w \in Seq(R) /\ w # <<>> BY <2>4, <2>8
  <2> QED BY <2>7, <2>9 DEF FitQueue, R, w
<1> QED BY <1>1, <1>2, AnswerFits, SendFits

LEMMA SyncCommandFits ==
  ASSUME DirectorySound, NEW m \in Inputs, NEW r \in SyncCommand(m)
  PROVE  FitOutcome(r)
<1> DEFINE c     == m.cmd
           of(o) == IF c.key = Nobody THEN {<<k, c.name>> : k \in OwnerSessionKeys(o, c.name, Nobody)}
                    ELSE {s \in {<<c.key, c.name>>} \cap online : OwnerOfKey(c.key) = o}
           found == UNION {of(o) : o \in ControlOwners(Source(m)) \ {Nobody}}
<1>1. \/ r = Answer
      \/ /\ ~Group(m)
         /\ \E s \in found : r = [kind |-> "sync", on |-> c.on, slot |-> s, listener |-> <<m.chat[1], Sender(m)>>]
  BY DEF SyncCommand
<1>2. \A o : of(o) \subseteq online BY DEF OwnerSessionKeys
<1>3. found \subseteq online BY <1>2
<1>4. ASSUME ~Group(m) PROVE <<m.chat[1], Sender(m)>> \in Listeners
  <2>1. m.chat \in Chats /\ m.sender \in OpenIds \cup {Nobody} BY RoutingAssumption
  <2>2. m.chat[1] \in Bots /\ m.chat[2] \in OpenIds BY <1>4, <2>1 DEF Chats, Group
  <2>3. Sender(m) \in OpenIds BY <1>4, <2>1, <2>2 DEF Sender, Source
  <2> QED BY <2>2, <2>3 DEF Listeners
<1> HIDE DEF found
<1>5. ASSUME ~Group(m), NEW s \in found,
             r = [kind |-> "sync", on |-> c.on, slot |-> s, listener |-> <<m.chat[1], Sender(m)>>]
      PROVE  FitOutcome(r)
  BY <1>3, <1>4, <1>5 DEF FitOutcome
<1> QED BY <1>1, <1>5, AnswerFits

LEMMA SelectorFits ==
  ASSUME DirectorySound, NEW m \in Inputs, NEW r \in Selector(m)
  PROVE  FitOutcome(r)
<1>1. \/ \E k \in KeysInMemory(Source(m), m.cmd.name) : r = Send(<<Envelope(m, <<k, m.cmd.name>>, "own", Nobody)>>)
      \/ r = Answer
      \/ \E o \in ControlOwners(Source(m)) :
           LET s == ByShort(o, m.cmd.name, Nobody)
           IN s # Nobody /\ s # Several /\ r = Send(<<Envelope(m, s, "own", Nobody)>>)
  BY DEF Selector
<1>2. ASSUME NEW k \in KeysInMemory(Source(m), m.cmd.name)
      PROVE  Grounds(m, <<k, m.cmd.name>>, "own", Nobody)
  <2>1. Source(m) \in accounts[k] BY DEF KeysInMemory, DirectorySound
  <2> QED BY <2>1 DEF Grounds
<1>3. ASSUME NEW o \in ControlOwners(Source(m)), NEW s, s = ByShort(o, m.cmd.name, Nobody),
             s # Nobody, s # Several
      PROVE  Grounds(m, s, "own", Nobody)
  <2>1. OwnerOfKey(s[1]) = o BY <1>3, ByShortIn DEF OnlineOf
  <2> QED BY <2>1 DEF Grounds
<1> QED BY <1>1, <1>2, <1>3, SendOneFits, AnswerFits

LEMMA MemberMentionFits ==
  ASSUME NEW m \in Inputs, NEW r \in MemberMention(m)
  PROVE  FitOutcome(r)
<1> DEFINE o == Called(m.cmd.member)
           s == MemberSession(o, m.cmd.name)
<1>1. r = Answer \/ (~members[o].quiet /\ s # Nobody /\ r = Send(<<Envelope(m, s, "cross", o)>>))
  BY DEF MemberMention
<1>2. ASSUME ~members[o].quiet, s # Nobody PROVE Grounds(m, s, "cross", o)
  <2> HIDE DEF o
  <2>1. ~NoDirectory(s) /\ \E a \in accounts[s[1]] : Belongs(a, o) BY <1>2, MemberSessionIn
  <2> QED BY <1>2, <2>1 DEF Grounds
<1> HIDE DEF o, s
<1> QED BY <1>1, <1>2, SendOneFits, AnswerFits

LEMMA PrefixRuleFits ==
  ASSUME RulesSound, NEW m \in Inputs, NEW r \in PrefixRule(m)
  PROVE  FitOutcome(r)
<1> DEFINE hits == {i \in RoutesOf(m.chat) : Matches(rules[i], m.text)}
           t    == rules[Min(hits)].target
<1>1. r = Answer \/ (hits # {} /\ r = Send(<<Envelope(m, t, "rule", Nobody)>>)) BY DEF PrefixRule
<1>2. ASSUME hits # {} PROVE Grounds(m, t, "rule", Nobody)
  <2>1. hits \subseteq RoutesOf(m.chat) OBVIOUS
  <2>2. RoutesOf(m.chat) \subseteq DOMAIN rules BY DEF RoutesOf, Routed
  <2>3. DOMAIN rules \subseteq Nat BY PrefixAssumption DEF RulesSound, Form
  <2> HIDE DEF hits
  <2>4. Min(hits) \in RoutesOf(m.chat) BY <1>2, <2>1, <2>2, <2>3, MinIn
  <2>5. m.chat \in BoundAccounts(t) BY <2>4 DEF RoutesOf, Effective
  <2> QED BY <2>5 DEF Grounds
<1> HIDE DEF hits, t
<1> QED BY <1>1, <1>2, SendOneFits, AnswerFits

LEMMA DefaultSessionFits ==
  ASSUME NEW m \in Inputs, NEW r \in DefaultSession(m)
  PROVE  FitOutcome(r)
<1>1. r = Answer \/ \E s \in SessionsOf(Source(m)) : r = Send(<<Envelope(m, s, "own", Nobody)>>)
  BY DEF DefaultSession
<1>2. \A s \in SessionsOf(Source(m)) : Grounds(m, s, "own", Nobody) BY DEF SessionsOf, Grounds
<1> QED BY <1>1, <1>2, SendOneFits, AnswerFits

LEMMA CommandsFit ==
  ASSUME NEW m \in Inputs, NEW r \in RosterCommand(m) \cup MirrorCommand(m)
  PROVE  FitOutcome(r)
<1>1. r = Answer \/ r.kind = "mirror" BY DEF RosterCommand, MirrorCommand
<1> QED BY <1>1, AnswerFits DEF FitOutcome

\* Whichever handler takes a message, what it asks for fits.
LEMMA HandledFits ==
  ASSUME DirectorySound, RulesSound, NEW m \in Inputs, NEW r \in Handled(m)
  PROVE  FitOutcome(r)
<1> DEFINE order == <<SecurityOps(m), SyncCommand(m), RosterCommand(m), MirrorCommand(m), Selector(m),
                      MemberMention(m), PrefixRule(m), DefaultSession(m)>>
           taken == {i \in DOMAIN order : order[i] # {}}
<1>1. taken # {} /\ r \in order[Min(taken)] BY DEF Handled
<1>2. DOMAIN order = 1..8 OBVIOUS
<1>3. taken \in SUBSET (1..8) BY <1>2
<1>4. Min(taken) \in 1..8
  <2> HIDE DEF taken
  <2>1. taken \in SUBSET Nat BY <1>3
  <2> QED BY <1>1, <1>3, <2>1, MinIn
<1>5. \A i \in 1..8 : order[i] \in {SecurityOps(m), SyncCommand(m), RosterCommand(m), MirrorCommand(m), Selector(m),
                                   MemberMention(m), PrefixRule(m), DefaultSession(m)}
  OBVIOUS
<1> HIDE DEF order, taken
<1>6. \/ r \in SecurityOps(m) \/ r \in SyncCommand(m) \/ r \in RosterCommand(m) \cup MirrorCommand(m)
      \/ r \in Selector(m) \/ r \in MemberMention(m) \/ r \in PrefixRule(m) \/ r \in DefaultSession(m)
  BY <1>1, <1>4, <1>5
<1> QED BY <1>6, SecurityOpsFits, SyncCommandFits, CommandsFit, SelectorFits, MemberMentionFits,
           PrefixRuleFits, DefaultSessionFits

-----------------------------------------------------------------------------
(* The invariant *)

\* Every delivery is to the session addressed, or to another of its owner.
OfOwner(d) ==
  LET e == d.envelope IN
  /\ d.slot[1] = e.key \/ (d.owner # Nobody /\ d.owner = d.key)
  /\ e.by # Nobody /\ e.why # "cross" => d.slot[1] = e.by[1] \/ (d.owner # Nobody /\ d.owner = d.from)

\* What is under way fits, and what was done with it is right.
RoutesSound ==
  /\ inbox \subseteq bound.inputs /\ tasks \subseteq Owners
  /\ \A q \in flight : FitQueue(q)
  /\ \A d \in given : Fit(d.envelope) /\ OfOwner(d)
  /\ ReplyReturns

\* Only the output of a session that is connected is shown to anybody.
TargetsSound ==
  /\ syncs \in [bound.slots -> SUBSET Listeners]
  /\ \A s \in bound.slots : syncs[s] # {} => s \in online

Sound == DirectorySound /\ RulesSound /\ TargetsSound /\ RoutesSound

LEMMA RoutesKept ==
  ASSUME RoutesSound, UNCHANGED <<bound, routeVars>>
  PROVE  RoutesSound'
<1>1. bound' = bound /\ inbox' = inbox /\ tasks' = tasks /\ flight' = flight /\ given' = given /\ outs' = outs
  BY DEF routeVars
<1>2. ReplyReturns' BY <1>1 DEF RoutesSound, ReplyReturns
<1> QED BY <1>1, <1>2 DEF RoutesSound

LEMMA RulesKept == ASSUME RulesSound, UNCHANGED <<rules, adding>> PROVE RulesSound'
BY DEF RulesSound

LEMMA TargetsKept ==
  ASSUME TargetsSound, UNCHANGED <<bound, syncs>>, online \subseteq online'
  PROVE  TargetsSound'
BY DEF TargetsSound

LEMMA DirectoryKept == ASSUME DirectorySound, UNCHANGED dirVars PROVE DirectorySound'
BY DEF DirectorySound, dirVars, people, conns

LEMMA SoundAtFirst == Init => Sound
<1> SUFFICES ASSUME Init PROVE Sound OBVIOUS
<1>1. DirectorySound BY DirectoryStarts DEF Init
<1>2. RulesSound BY RulesStart DEF Init
<1>3. TargetsSound BY DEF Init, SyncInit, TargetsSound
<1>4. RoutesSound BY DEF Init, RoutesSound, ReplyReturns
<1> QED BY <1>1, <1>2, <1>3, <1>4 DEF Sound

-----------------------------------------------------------------------------
(* The steps *)

LEMMA AdminStep == ASSUME Sound, Admin PROVE Sound'
<1>1. UNCHANGED <<bound, online, ruleVars, syncVars, routeVars>>
  BY DEF Admin, SaveMember, Upsert, DeleteMember, Revoke, Bind, Isolate, conns
<1>2. DirectorySound' BY AdminSound DEF Sound
<1>3. RulesSound' BY <1>1, RulesKept DEF Sound, ruleVars
<1>4. TargetsSound' BY <1>1, TargetsKept DEF Sound, syncVars
<1>5. RoutesSound' BY <1>1, RoutesKept DEF Sound
<1> QED BY <1>2, <1>3, <1>4, <1>5 DEF Sound

LEMMA ConnectStep == ASSUME Sound, Connect PROVE Sound'
<1>1. UNCHANGED <<bound, ruleVars, syncVars, routeVars>> /\ online \subseteq online'
  BY DEF Connect, Join, CleanUp, Register
<1>2. DirectorySound' BY ConnectSound DEF Sound
<1>3. RulesSound' BY <1>1, RulesKept DEF Sound, ruleVars
<1>4. TargetsSound' BY <1>1, TargetsKept DEF Sound, syncVars
<1>5. RoutesSound' BY <1>1, RoutesKept DEF Sound
<1> QED BY <1>2, <1>3, <1>4, <1>5 DEF Sound

LEMMA DisconnectStep ==
  ASSUME Sound, NEW s \in bound.slots, Disconnect(s)
  PROVE  Sound'
<1>1. DirectorySound' BY LeaveSound DEF Disconnect, Sound
<1>2. bound' = bound /\ online' = online \ {s} /\ syncs' = [syncs EXCEPT ![s] = {}]
  BY DEF Disconnect, Leave, CloseSync
<1>3. UNCHANGED <<ruleVars, routeVars>> BY DEF Disconnect
<1>4. TargetsSound' BY <1>2 DEF TargetsSound, Sound
<1>5. RulesSound' BY <1>3, RulesKept DEF Sound, ruleVars
<1>6. RoutesSound' BY <1>2, <1>3, RoutesKept DEF Sound
<1> QED BY <1>1, <1>4, <1>5, <1>6 DEF Sound

LEMMA RestartStep == ASSUME Sound, Restart PROVE Sound'
<1>1. DirectorySound' BY CrashSound DEF Restart, Sound
<1>2. /\ bound' = bound /\ syncs' = [s \in bound.slots |-> {}] /\ adding' = {} /\ flight' = {}
      /\ UNCHANGED <<rules, inbox, tasks, given, outs>>
  BY DEF Restart, Crash, SyncCrash
<1>3. TargetsSound' BY <1>2 DEF TargetsSound
<1>4. RulesSound' BY <1>2 DEF Sound, RulesSound
<1>5. RoutesSound'
  <2>1. ReplyReturns' BY <1>2 DEF Sound, RoutesSound, ReplyReturns
  <2> QED BY <1>2, <2>1 DEF Sound, RoutesSound
<1> QED BY <1>1, <1>3, <1>4, <1>5 DEF Sound

LEMMA RulesStep == ASSUME Sound, Rules PROVE Sound'
<1>1. UNCHANGED <<dirVars, syncVars, routeVars>> BY DEF Rules
<1>2. RulesSound' BY RuleNextSound DEF Rules, Sound
<1>3. bound' = bound /\ online' = online /\ syncs' = syncs BY <1>1 DEF dirVars, conns, syncVars
<1>4. DirectorySound' BY <1>1, DirectoryKept DEF Sound
<1>5. TargetsSound' BY <1>3, TargetsKept DEF Sound
<1>6. RoutesSound' BY <1>1, <1>3, RoutesKept DEF Sound
<1> QED BY <1>2, <1>4, <1>5, <1>6 DEF Sound

LEMMA FeedingStep == ASSUME Sound, Feeding PROVE Sound'
<1>1. UNCHANGED <<dirVars, ruleVars, routeVars>> BY DEF Feeding
<1>2. bound' = bound /\ online' = online /\ UNCHANGED <<rules, adding>> BY <1>1 DEF dirVars, conns, ruleVars
<1>3. syncs' = syncs BY DEF Feeding, SyncNext, Output, Hand, Flush, Show
<1>4. DirectorySound' BY <1>1, DirectoryKept DEF Sound
<1>5. RulesSound' BY <1>2, RulesKept DEF Sound
<1>6. TargetsSound' BY <1>2, <1>3, TargetsKept DEF Sound
<1>7. RoutesSound' BY <1>1, <1>2, RoutesKept DEF Sound
<1> QED BY <1>4, <1>5, <1>6, <1>7 DEF Sound

\* The inputs of an instance are messages people may write.
LEMMA InboxIn == ASSUME Sound PROVE \A m \in bound.inputs : m \in Inputs /\ m.chat \in Chats
BY RoutingAssumption DEF Sound, DirectorySound

LEMMA ReceiveStep ==
  ASSUME Sound, NEW m \in bound.inputs, Receive(m)
  PROVE  Sound'
<1> DEFINE row == [active |-> TRUE, owner |-> Nobody]
<1>1. /\ owners' = Upserted(owners, m.chat, row) /\ inbox' = inbox \cup {m}
      /\ UNCHANGED <<bound, members, accounts, live, saving, conns, ruleVars, syncVars, tasks, flight, given, outs>>
  BY DEF Receive
<1>2. row \in ChatRow /\ m.chat \in Chats BY InboxIn DEF ChatRow
<1> HIDE DEF row
<1>3. DOMAIN owners' \subseteq Chats /\ owners' \in [DOMAIN owners' -> ChatRow]
  <2>1. /\ DOMAIN owners' = DOMAIN owners \cup {m.chat}
        /\ owners' = [a \in DOMAIN owners \cup {m.chat} |-> IF a = m.chat THEN row ELSE owners[a]]
    BY <1>1 DEF Upserted
  <2>2. \A a \in DOMAIN owners' : owners'[a] \in ChatRow
    BY <1>2, <2>1 DEF Sound, DirectorySound
  <2> QED BY <1>2, <2>1, <2>2 DEF Sound, DirectorySound
<1>4. DirectorySound' BY <1>1, <1>3 DEF Sound, DirectorySound, conns
<1>5. RulesSound' BY <1>1, RulesKept DEF Sound, ruleVars
<1>6. TargetsSound' BY <1>1, TargetsKept DEF Sound, syncVars, conns
<1>7. RoutesSound'
  <2>1. ReplyReturns' BY <1>1 DEF Sound, RoutesSound, ReplyReturns
  <2> QED BY <1>1, <2>1 DEF Sound, RoutesSound
<1> QED BY <1>4, <1>5, <1>6, <1>7 DEF Sound

\* The owners whose task it may be are members.
LEMMA ControlOwnersIn == ASSUME DirectorySound, NEW a PROVE ControlOwners(a) \subseteq Owners \cup {Nobody}
BY DEF ControlOwners, Active, DirectorySound, ChatRow

LEMMA DispatchStep ==
  ASSUME Sound, NEW m \in bound.inputs, Dispatch(m)
  PROVE  Sound'
<1>0. m \in Inputs BY InboxIn
<1>1. /\ inbox' \subseteq inbox
      /\ UNCHANGED <<bound, people, online, cache, joining, leaving, ruleVars, given, outs>>
  BY DEF Dispatch
<1>2. \/ UNCHANGED <<endpoints, syncVars, tasks, flight>>
      \/ tasks' = tasks \cup (ControlOwners(Source(m)) \ {Nobody}) /\ UNCHANGED <<endpoints, syncVars, flight>>
      \/ \E r \in Handled(m) :
           \/ r.kind = "send" /\ flight' = flight \cup {r.queue} /\ UNCHANGED <<endpoints, syncVars, tasks>>
           \/ /\ r.kind = "sync" /\ UNCHANGED <<endpoints, tasks, flight>>
              /\ AddTarget(r.slot, r.listener) \/ RemoveTarget(r.slot, r.listener)
           \/ /\ r.kind = "mirror" /\ endpoints' = Mirrored(r.slot, r.to)
              /\ flight' = flight \cup {<<Envelope(m, r.slot, "mirror", Nobody)>>}
              /\ UNCHANGED <<syncVars, tasks>>
  BY DEF Dispatch
<1>3. \A r \in Handled(m) : FitOutcome(r) BY <1>0, HandledFits DEF Sound
<1>4. DirectorySound'
  <2>1. DOMAIN endpoints' = DOMAIN endpoints BY <1>2 DEF Mirrored
  <2> QED BY <1>1, <2>1 DEF Sound, DirectorySound, people
<1>5. RulesSound' BY <1>1, RulesKept DEF Sound, ruleVars
<1>6. TargetsSound'
  <2>1. CASE syncs' = syncs BY <1>1, <2>1, TargetsKept DEF Sound
  <2>2. ASSUME NEW s \in online, NEW l \in Listeners, AddTarget(s, l) \/ RemoveTarget(s, l)
        PROVE  TargetsSound'
    <3>1. \E L \in SUBSET Listeners : syncs' = [syncs EXCEPT ![s] = L]
      <4>1. s \in bound.slots /\ syncs[s] \subseteq Listeners BY DEF Sound, DirectorySound, TargetsSound
      <4>2. \/ syncs' = [syncs EXCEPT ![s] = syncs[s] \cup {l}]
            \/ syncs' = [syncs EXCEPT ![s] = syncs[s] \ {l}]
        BY <2>2 DEF AddTarget, RemoveTarget
      <4>3. syncs[s] \cup {l} \in SUBSET Listeners /\ syncs[s] \ {l} \in SUBSET Listeners BY <4>1
      <4> QED BY <4>2, <4>3
    <3> QED BY <1>1, <3>1 DEF Sound, TargetsSound
  <2>3. \/ syncs' = syncs
        \/ \E r \in Handled(m) : r.kind = "sync" /\ (AddTarget(r.slot, r.listener) \/ RemoveTarget(r.slot, r.listener))
    BY <1>2 DEF syncVars
  <2> QED BY <1>3, <2>1, <2>2, <2>3 DEF FitOutcome
<1>7. RoutesSound'
  <2>1. tasks' \subseteq Owners
    <3>1. tasks' \subseteq tasks \cup (ControlOwners(Source(m)) \ {Nobody}) BY <1>2
    <3>2. ControlOwners(Source(m)) \subseteq Owners \cup {Nobody} BY ControlOwnersIn DEF Sound
    <3> QED BY <3>1, <3>2 DEF Sound, RoutesSound
  <2>2. \A q \in flight' : FitQueue(q)
    <3>1. \A s : FitQueue(<<Envelope(m, s, "mirror", Nobody)>>)
      <4>1. \A s : Grounds(m, s, "mirror", Nobody) BY DEF Grounds
      <4> QED BY <1>0, <4>1, EnvelopeFit, OneFit
    <3>2. ASSUME NEW q \in flight' PROVE q \in flight \/ FitQueue(q) BY <1>2, <1>3, <3>1 DEF FitOutcome
    <3> QED BY <3>2 DEF Sound, RoutesSound
  <2>3. ReplyReturns' BY <1>1 DEF Sound, RoutesSound, ReplyReturns
  <2> QED BY <1>1, <2>1, <2>2, <2>3 DEF Sound, RoutesSound
<1> QED BY <1>4, <1>5, <1>6, <1>7 DEF Sound

\* A step that puts envelopes under way, delivers and answers, and touches
\* nothing else.
LEMMA RoutesStep ==
  ASSUME Sound, UNCHANGED <<dirVars, ruleVars, syncVars, inbox>>, tasks' \subseteq tasks,
         \A q \in flight' : FitQueue(q),
         \A d \in given' : d \in given \/ (Fit(d.envelope) /\ OfOwner(d)),
         \A w \in outs' : w \in outs \/ (w.chat = w.msg.chat /\ (Group(w.msg) => w.at = w.msg.sender))
  PROVE  Sound'
<1>1. DirectorySound' BY DirectoryKept DEF Sound
<1>2. bound' = bound /\ online' = online /\ syncs' = syncs /\ UNCHANGED <<rules, adding>>
  BY DEF dirVars, conns, syncVars, ruleVars
<1>3. RulesSound' BY <1>2, RulesKept DEF Sound
<1>4. TargetsSound' BY <1>2, TargetsKept DEF Sound
<1>5. ReplyReturns' BY DEF Sound, RoutesSound, ReplyReturns
<1>6. RoutesSound' BY <1>2, <1>5 DEF Sound, RoutesSound
<1> QED BY <1>1, <1>3, <1>4, <1>6 DEF Sound

LEMMA AssignStep ==
  ASSUME Sound, NEW o, NEW n, Assign(o, n)
  PROVE  Sound'
<1> DEFINE s == ByKey(L2Sessions(o, n))
           e == SessionEnvelope(<<s[1], Nobody>>, s, s[1], "l2", o)
<1>1. /\ tasks' \subseteq tasks /\ flight' \subseteq flight \cup {<<e>>}
      /\ UNCHANGED <<dirVars, ruleVars, syncVars, inbox, given, outs>>
  BY DEF Assign
<1>2. FitQueue(<<e>>)
  <2> HIDE DEF s
  <2> QED BY SessionEnvelopeFit, OneFit
<1> HIDE DEF e
<1>3. \A q \in flight' : FitQueue(q) BY <1>1, <1>2 DEF Sound, RoutesSound
<1> QED BY <1>1, <1>3, RoutesStep

\* Whatever a session sends, it sends in its own name, or to a session of a
\* member that takes mentions.
LEMMA OutgoingFits ==
  ASSUME NEW s, NEW c \in Says, NEW e \in Outgoing(s, c)
  PROVE  Fit(e)
<1> DEFINE o == Called(c.member)
           t == MemberSession(o, c.name)
<1>1. \/ \E to, why : why # "cross" /\ e = SessionEnvelope(s, to, s[1], why, Nobody)
      \/ /\ ~members[o].quiet /\ t # Nobody
         /\ e = SessionEnvelope(s, t, t[1], "cross", o)
  <2>1. CASE c.kind = "address" BY <2>1 DEF Outgoing
  <2>2. CASE c.kind = "select" BY <2>2 DEF Outgoing
  <2>3. CASE c.kind = "mention" BY <2>3 DEF Outgoing
  <2>4. c.kind \in {"address", "select", "mention"} BY RoutingAssumption DEF SelectorForm, MentionForm
  <2> QED BY <2>1, <2>2, <2>3, <2>4
<1>2. ASSUME NEW to, NEW why, why # "cross", e = SessionEnvelope(s, to, s[1], why, Nobody) PROVE Fit(e)
  BY <1>2, SessionEnvelopeFit
<1> HIDE DEF o
<1>3. t # Nobody => ~NoDirectory(t) /\ \E a \in accounts[t[1]] : Belongs(a, o) BY MemberSessionIn
<1> HIDE DEF t
<1>4. CASE ~members[o].quiet /\ t # Nobody /\ e = SessionEnvelope(s, t, t[1], "cross", o)
  BY <1>3, <1>4, SessionEnvelopeFit
<1> QED BY <1>1, <1>2, <1>4

LEMMA SessionSendsStep ==
  ASSUME Sound, NEW s, NEW c \in bound.says, SessionSends(s, c)
  PROVE  Sound'
<1>1. /\ flight' = flight \cup {<<e>> : e \in Outgoing(s, c)}
      /\ UNCHANGED <<dirVars, ruleVars, syncVars, inbox, tasks, given, outs>>
  BY DEF SessionSends
<1>2. \A e \in Outgoing(s, c) : FitQueue(<<e>>)
  <2>1. c \in Says BY RoutingAssumption DEF Sound, DirectorySound
  <2> QED BY <2>1, OutgoingFits, OneFit
<1>3. \A q \in flight' : FitQueue(q) BY <1>1, <1>2 DEF Sound, RoutesSound
<1> QED BY <1>1, <1>3, RoutesStep

\* RouteEnvelope delivers to the session addressed under the sender's key, or to
\* a session of the owner of that key.
LEMMA DestinationIn ==
  ASSUME DirectorySound, NEW e, NEW s \in Destinations(e)
  PROVE  s[1] = e.key \/ (OwnerOfKey(s[1]) # Nobody /\ OwnerOfKey(s[1]) = OwnerOfKey(e.key))
<1> DEFINE o == OwnerOfKey(e.key)
           r == ByShort(o, e.to[2], e.to[1])
<1>1. \/ s = e.to /\ e.to[1] = e.key
      \/ o # Nobody /\ r # Several /\ r # Nobody /\ s = r
      \/ o # Nobody /\ \E k \in OwnerSessionKeys(o, e.to[2], e.to[1]) : s = <<k, e.to[2]>>
  BY DEF Destinations
<1>2. CASE s = e.to /\ e.to[1] = e.key BY <1>2
<1>3. CASE o # Nobody /\ r # Several /\ r # Nobody /\ s = r
  <2> HIDE DEF o
  <2>1. r \in OnlineOf(o) BY <1>3, ByShortIn
  <2>2. OwnerOfKey(s[1]) = o BY <1>3, <2>1 DEF OnlineOf
  <2> QED BY <1>3, <2>2 DEF o
<1>4. ASSUME o # Nobody, NEW k \in OwnerSessionKeys(o, e.to[2], e.to[1]), s = <<k, e.to[2]>>
      PROVE  OwnerOfKey(s[1]) # Nobody /\ OwnerOfKey(s[1]) = o
  BY <1>4 DEF OwnerSessionKeys
<1> QED BY <1>1, <1>2, <1>3, <1>4

LEMMA RouteStep ==
  ASSUME Sound, NEW q \in flight, Route(q)
  PROVE  Sound'
<1> DEFINE e == q[1]
           gave(s) == [envelope |-> e, slot |-> s, owner |-> OwnerOfKey(s[1]),
                       from |-> IF e.by = Nobody THEN Nobody ELSE OwnerOfKey(e.by[1]), key |-> OwnerOfKey(e.key)]
<1>1. UNCHANGED <<dirVars, ruleVars, syncVars, inbox, tasks, outs>> BY DEF Route
<1>2. \/ given' = given
      \/ \E s \in Destinations(e) : given' = given \cup {gave(s)}
  BY DEF Route
<1>3. \A p \in flight' : p \in flight \/ (Len(q) > 1 /\ p = Tail(q)) BY DEF Route
<1>4. FitQueue(q) BY DEF Sound, RoutesSound
<1>5. Fit(e) /\ (Len(q) > 1 => FitQueue(Tail(q))) BY <1>4, RestFit
<1> HIDE DEF e
<1>6. \A p \in flight' : FitQueue(p) BY <1>3, <1>5 DEF Sound, RoutesSound
<1>7. ASSUME NEW s \in Destinations(e) PROVE Fit(gave(s).envelope) /\ OfOwner(gave(s))
  <2>1. s[1] = e.key \/ (OwnerOfKey(s[1]) # Nobody /\ OwnerOfKey(s[1]) = OwnerOfKey(e.key))
    BY DestinationIn DEF Sound
  <2>2. e.by # Nobody /\ e.why # "cross" => e.by[1] = e.key BY <1>5 DEF Fit
  <2> DEFINE d == gave(s)
  <2>3. /\ d.envelope = e /\ d.slot = s /\ d.owner = OwnerOfKey(s[1]) /\ d.key = OwnerOfKey(e.key)
        /\ e.by # Nobody => d.from = OwnerOfKey(e.by[1])
    OBVIOUS
  <2> HIDE DEF d
  <2>4. OfOwner(d) BY <2>1, <2>2, <2>3 DEF OfOwner
  <2> QED BY <1>5, <2>3, <2>4 DEF d
<1> HIDE DEF gave
<1>8. \A d \in given' : d \in given \/ (Fit(d.envelope) /\ OfOwner(d)) BY <1>2, <1>7
<1> QED BY <1>1, <1>6, <1>8, RoutesStep

LEMMA ReplyStep ==
  ASSUME Sound, NEW d \in given, Reply(d)
  PROVE  Sound'
<1> DEFINE e   == d.envelope
           out == [chat |-> <<e.source.bot, ReplyTo(e.source)>>,
                   at |-> IF e.source.group THEN e.source.sender ELSE Nobody, msg |-> e.msg]
           ans == SessionEnvelope(d.slot, <<e.key, e.name>>, d.slot[1], "answer", e.by)
<1>1. /\ UNCHANGED <<dirVars, ruleVars, syncVars, inbox, tasks, given>>
      /\ \/ e.source # Nobody /\ outs' = outs \cup {out} /\ flight' = flight
         \/ flight' = flight \cup {<<ans>>} /\ outs' = outs
  BY DEF Reply
<1>2. Fit(e) BY DEF Sound, RoutesSound
<1>3. FitQueue(<<ans>>)
  <2> HIDE DEF e
  <2> QED BY SessionEnvelopeFit, OneFit
<1>4. ASSUME e.source # Nobody
      PROVE  out.chat = out.msg.chat /\ (Group(out.msg) => out.at = out.msg.sender)
  <2> DEFINE m == e.msg
             c == SourceOf(m)
  <2>1. m \in Inputs /\ e.source = c BY <1>2, <1>4 DEF Fit
  <2>2. /\ out.msg = m /\ out.chat = <<c.bot, ReplyTo(c)>>
        /\ out.at = IF c.group THEN c.sender ELSE Nobody
    BY <2>1
  <2> HIDE DEF m, out
  <2>3. /\ m.chat \in Chats /\ m.chat = <<m.chat[1], m.chat[2]>>
        /\ m.chat[2] \in OpenIds \cup Groups
        /\ m.chat[2] \in OpenIds => m.sender \in {m.chat[2], Nobody}
    BY <2>1, RoutingAssumption DEF Chats
  <2>4. /\ c.bot = m.chat[1] /\ (c.group <=> Group(m)) /\ c.chat = m.chat[2] /\ c.sender = m.sender
        /\ c.person = Source(m)[2]
    BY DEF SourceOf
  <2>5. ReplyTo(c) = m.chat[2]
    <3> HIDE DEF c
    <3>1. CASE Group(m) BY <2>4, <3>1 DEF ReplyTo
    <3>2. CASE ~Group(m)
      <4>1. m.chat[2] \in OpenIds BY <2>3, <3>2 DEF Group
      <4>2. Source(m) = m.chat BY <3>2 DEF Source
      <4>3. CASE m.sender # Nobody BY <2>3, <2>4, <3>2, <4>1, <4>3 DEF ReplyTo
      <4>4. CASE m.sender = Nobody BY <2>4, <3>2, <4>2, <4>4 DEF ReplyTo
      <4> QED BY <4>3, <4>4
    <3> QED BY <3>1, <3>2
  <2> HIDE DEF c
  <2> QED BY <2>2, <2>3, <2>4, <2>5
<1> HIDE DEF out, ans, e
<1>5. \A q \in flight' : FitQueue(q) BY <1>1, <1>3 DEF Sound, RoutesSound
<1>6. \A w \in outs' : w \in outs \/ (w.chat = w.msg.chat /\ (Group(w.msg) => w.at = w.msg.sender))
  BY <1>1, <1>4
<1> QED BY <1>1, <1>5, <1>6, RoutesStep

LEMMA StepSound == Sound /\ [Next]_vars => Sound'
<1> SUFFICES ASSUME Sound, [Next]_vars PROVE Sound' OBVIOUS
<1>1. CASE UNCHANGED vars
  <2>1. UNCHANGED <<dirVars, ruleVars, syncVars, routeVars>> BY <1>1 DEF vars
  <2>2. bound' = bound /\ online' = online /\ syncs' = syncs /\ UNCHANGED <<rules, adding>>
    BY <2>1 DEF dirVars, conns, syncVars, ruleVars
  <2> QED BY <2>1, <2>2, DirectoryKept, RulesKept, TargetsKept, RoutesKept DEF Sound
<1>2. CASE Next
  BY <1>2, AdminStep, ConnectStep, RestartStep, RulesStep, FeedingStep, DisconnectStep, SessionSendsStep,
     ReceiveStep, DispatchStep, AssignStep, RouteStep, ReplyStep DEF Next
<1> QED BY <1>1, <1>2

THEOREM SoundAlways == Spec => []Sound
<1>1. Init => Sound BY SoundAtFirst
<1>2. Sound /\ [Next]_vars => Sound' BY StepSound
<1> QED BY <1>1, <1>2, PTL DEF Spec

-----------------------------------------------------------------------------
(* What follows *)

\* TypeOK: every table and every message under way keeps its kind.
THEOREM RoutingTypesAlways == Spec => []TypeOK
<1>1. Sound => TypeOK
  <2> SUFFICES ASSUME Sound PROVE TypeOK OBVIOUS
  <2>1. \A i \in DOMAIN rules : rules[i].id = i /\ rules[i].saw \subseteq DOMAIN rules
    BY DEF Sound, RulesSound, Stored
  <2>2. \A s \in online : cache[s[1]] # {} /\ cache[s[1]] \subseteq accounts[s[1]]
    BY BoundSlots DEF Sound, DirectorySound
  <2>3. \A q \in flight : q # <<>> BY DEF Sound, RoutesSound, FitQueue
  <2> QED BY <2>1, <2>2, <2>3 DEF Sound, DirectorySound, TargetsSound, RoutesSound, TypeOK
<1> QED BY <1>1, SoundAlways, PTL

\* Isolated: what is written to one account, owner or member reaches no session
\* of another, whatever is edited and whoever leaves between the choice of a
\* session and the delivery.
THEOREM AlwaysIsolated == Spec => []Isolated
<1>1. Sound => Isolated BY DEF Sound, RoutesSound, Fit, OfOwner, Isolated
<1> QED BY <1>1, SoundAlways, PTL

\* ReplyReturns: the answer of a session goes to the chat, and in a group to the
\* person, that the message came from.
THEOREM RepliesReturn == Spec => []ReplyReturns
<1>1. Sound => ReplyReturns BY DEF Sound, RoutesSound
<1> QED BY <1>1, SoundAlways, PTL

\* patternLanguagesOverlap decides what it is asked: rules are found to overlap when
\* there is a text that both match, and only then, whatever case each respects.
THEOREM OverlapsExactly ==
  ASSUME NEW f \in Form, NEW g \in Form
  PROVE  Overlap(f, g) <=> \E s \in Seq(Letters) : Matches(f, s) /\ Matches(g, s)
<1>1. ASSUME NEW r \in Form PROVE r.patterns \in Seq(Patterns) /\ r.sensitive \in BOOLEAN
  BY DEF Form, Patterns
<1> QED BY <1>1, FoundShared, SharedFound

LEMMA ApartStep == Sound /\ RulesApart /\ [Next]_vars => RulesApart'
<1> SUFFICES ASSUME Sound, RulesApart, [Next]_vars PROVE RulesApart' OBVIOUS
<1>1. CASE UNCHANGED ruleVars BY <1>1 DEF ruleVars, RulesApart
<1>2. CASE Rules BY <1>2, ApartNext DEF Rules, Sound
<1>3. CASE Restart BY <1>3 DEF Restart, RulesApart
<1>4. UNCHANGED ruleVars \/ Rules \/ Restart
  <2>1. CASE UNCHANGED vars BY <2>1 DEF vars
  <2>2. CASE Admin \/ Connect \/ Feeding \/ \E s \in bound.slots : Disconnect(s)
    BY <2>2 DEF Admin, Connect, Feeding, Disconnect
  <2>3. CASE \E s \in bound.slots, c \in bound.says : SessionSends(s, c)
    BY <2>3 DEF SessionSends
  <2>4. CASE \E m \in bound.inputs : Receive(m) \/ Dispatch(m) BY <2>4 DEF Receive, Dispatch
  <2>5. CASE \E o \in Owners, n \in Names : Assign(o, n) BY <2>5 DEF Assign
  <2>6. CASE (\E q \in flight : Route(q)) \/ \E d \in given : Reply(d) BY <2>6 DEF Route, Reply
  <2> QED BY <2>1, <2>2, <2>3, <2>4, <2>5, <2>6 DEF Next
<1> QED BY <1>1, <1>2, <1>3, <1>4

\* What the check of a new rule found stays true of the table: rules are not changed
\* in place, and a number that is used again was forgotten by the others.
THEOREM ApartAlways == Spec => []RulesApart
<1>1. Init => RulesApart BY DEF Init, RuleInit, RulesApart
<1>2. Sound /\ RulesApart /\ [Next]_vars => RulesApart' BY ApartStep
<1> QED BY <1>1, <1>2, SoundAlways, PTL DEF Spec

\* RulesDisjoint, for every text: no text is claimed by two rules one of which was
\* checked against the other, and each refusal is of two rules that share one.
SharesNone ==
  \A i, j \in DOMAIN rules :
    i \in rules[j].saw => \A s \in Seq(Letters) : ~(Matches(rules[i], s) /\ Matches(rules[j], s))
SharesSome ==
  refused # {} => \E s \in Seq(Letters) : \A r \in refused : Matches(r, s)

LEMMA ApartShares == Sound /\ RulesApart => SharesNone /\ SharesSome
<1> SUFFICES ASSUME Sound, RulesApart PROVE SharesNone /\ SharesSome OBVIOUS
<1>1. Forms \subseteq Form BY PrefixAssumption
<1>2. SharesNone
  <2> SUFFICES ASSUME NEW i \in DOMAIN rules, NEW j \in DOMAIN rules, i \in rules[j].saw,
                      NEW s \in Seq(Letters), Matches(rules[i], s), Matches(rules[j], s)
               PROVE  FALSE
    BY DEF SharesNone
  <2>1. PICK f \in Forms : Same(rules[j], f) BY RowSame DEF Sound
  <2>2. PICK g \in Forms : Same(rules[i], g) BY RowSame DEF Sound
  <2>3. Matches(f, s) /\ Matches(g, s) BY <2>1, <2>2, SameMatches
  <2>4. Overlap(f, g) BY <1>1, <2>3, OverlapsExactly
  <2>5. Overlap(rules[j], rules[i]) BY <2>1, <2>2, <2>4, SameOverlap
  <2> QED BY <2>5 DEF RulesApart
<1>3. SharesSome
  <2> SUFFICES ASSUME refused # {} PROVE \E s \in Seq(Letters) : \A r \in refused : Matches(r, s)
    BY DEF SharesSome
  <2>1. PICK f, g \in Forms : Overlap(f, g) /\ \A r \in refused : Same(r, f) \/ Same(r, g)
    BY DEF RulesApart
  <2>2. PICK s \in Seq(Letters) : Matches(f, s) /\ Matches(g, s) BY <1>1, <2>1, OverlapsExactly
  <2>3. \A r \in refused : Matches(r, s) BY <2>1, <2>2, SameMatches
  <2> QED BY <2>3
<1> QED BY <1>2, <1>3

\* As long as the hub runs and whatever is entered, checked, inserted or deleted
\* in between, its rules are apart in this sense.
THEOREM RulesShareNothing == Spec => [](SharesNone /\ SharesSome)
BY SoundAlways, ApartAlways, ApartShares, PTL

\* The texts that are compared tell any two rules that may be entered and share
\* a text.
SamplesTell ==
  \A f, g \in Forms :
    (\E s \in Seq(Letters) : Matches(f, s) /\ Matches(g, s)) =>
      \E s \in Samples : Matches(f, s) /\ Matches(g, s)

\* RulesDisjoint: a new rule that claims a text of another is refused, and only such
\* a rule is, on any texts that tell them.
THEOREM RulesAlwaysDisjoint ==
  ASSUME SamplesTell
  PROVE  Spec => []RulesDisjoint
<1>1. Sound /\ RulesApart => RulesDisjoint
  <2> SUFFICES ASSUME Sound, RulesApart PROVE RulesDisjoint OBVIOUS
  <2>1. \A s \in Samples : s \in Seq(Letters) BY PrefixAssumption
  <2>2. ASSUME NEW i \in DOMAIN rules, NEW j \in DOMAIN rules, i \in rules[j].saw, NEW s \in Samples
        PROVE  ~(Matches(rules[i], s) /\ Matches(rules[j], s))
    BY <2>1, <2>2, ApartShares DEF SharesNone
  <2>3. ASSUME refused # {} PROVE \E s \in Samples : \A r \in refused : Matches(r, s)
    <3>1. PICK f, g \in Forms : Overlap(f, g) /\ \A r \in refused : Same(r, f) \/ Same(r, g)
      BY <2>3 DEF RulesApart
    <3>2. f \in Form /\ g \in Form BY PrefixAssumption
    <3>3. \E s \in Seq(Letters) : Matches(f, s) /\ Matches(g, s) BY <3>1, <3>2, OverlapsExactly
    <3>4. PICK s \in Samples : Matches(f, s) /\ Matches(g, s) BY <3>3, SamplesTell DEF SamplesTell
    <3>5. \A r \in refused : Matches(r, s) BY <3>1, <3>4, SameMatches
    <3> QED BY <3>5
  <2> QED BY <2>2, <2>3 DEF RulesDisjoint
<1> QED BY <1>1, SoundAlways, ApartAlways, PTL

\* SyncStops: while a person is not shown the output of a session, nothing of it
\* is sent on to him.
THEOREM SyncAlwaysStops == Spec => SyncStops
<1> DEFINE Stops == \A f \in Feeds : f[2] \notin syncs[f[1]] /\ f[2] \notin syncs'[f[1]]
                       => {w \in sending' : w.feed = f} \subseteq sending
<1>1. ASSUME Sound, [Next]_vars PROVE [Stops]_syncVars
  <2> SUFFICES ASSUME NEW f \in Feeds, f[2] \notin syncs[f[1]], f[2] \notin syncs'[f[1]],
                      NEW w \in sending', w.feed = f
               PROVE  w \in sending
    OBVIOUS
  <2>1. CASE UNCHANGED syncVars BY <2>1 DEF syncVars
  <2>2. CASE Feeding
    <3>1. \/ sending' \subseteq sending
          \/ \E g \in Feeds : /\ g[2] \in syncs[g[1]]
                              /\ sending' = sending \cup {[feed |-> g, items |-> buffers[g]]}
      BY <2>2 DEF Feeding, SyncNext, Output, Hand, Flush, Show
    <3> QED BY <3>1
  <2>3. CASE \E s \in bound.slots : Disconnect(s) BY <2>3 DEF Disconnect, CloseSync
  <2>4. CASE Restart BY <2>4 DEF Restart, SyncCrash
  <2>5. ASSUME NEW m \in bound.inputs, Dispatch(m) PROVE w \in sending
    <3>1. \/ UNCHANGED syncVars
          \/ \E r \in Handled(m) : r.kind = "sync" /\ (AddTarget(r.slot, r.listener) \/ RemoveTarget(r.slot, r.listener))
      BY <2>5 DEF Dispatch
    <3>2. \A r \in Handled(m) : FitOutcome(r) BY <1>1, InboxIn, HandledFits DEF Sound
    <3>3. ASSUME NEW s \in online, NEW l \in Listeners, AddTarget(s, l) PROVE w \in sending
      <4>1. s \in bound.slots /\ syncs \in [bound.slots -> SUBSET Listeners]
        BY <1>1 DEF Sound, DirectorySound, TargetsSound
      <4>2. l \in syncs'[s] BY <3>3, <4>1 DEF AddTarget
      <4>3. \E i : sending' \subseteq sending \cup {[feed |-> <<s, l>>, items |-> i]} BY <3>3 DEF AddTarget
      <4> QED BY <4>2, <4>3
    <3>4. ASSUME NEW s, NEW l, RemoveTarget(s, l) PROVE w \in sending BY <3>4 DEF RemoveTarget
    <3> QED BY <3>1, <3>2, <3>3, <3>4 DEF FitOutcome, syncVars
  <2>6. CASE Admin \/ Connect \/ Rules \/ (\E s \in bound.slots, c \in bound.says : SessionSends(s, c))
             \/ (\E m \in bound.inputs : Receive(m)) \/ (\E o \in Owners, n \in Names : Assign(o, n))
             \/ (\E q \in flight : Route(q)) \/ (\E d \in given : Reply(d))
    <3>1. UNCHANGED syncVars BY <2>6 DEF Admin, Connect, Rules, SessionSends, Receive, Assign, Route, Reply
    <3> QED BY <3>1 DEF syncVars
  <2> QED BY <1>1, <2>1, <2>2, <2>3, <2>4, <2>5, <2>6 DEF Next, vars
<1>2. SyncStops <=> [][Stops]_syncVars BY DEF SyncStops
<1> HIDE DEF Stops
<1>3. Sound /\ [Next]_vars => [Stops]_syncVars BY <1>1
<1> QED BY <1>2, <1>3, SoundAlways, PTL DEF Spec

-----------------------------------------------------------------------------
(* Copies of an output in a sequence *)

LEMMA CopiesType ==
  ASSUME NEW q \in Seq(Nat), NEW i
  PROVE  /\ IsFiniteSet({n \in DOMAIN q : q[n] = i})
         /\ Copies(i, q) \in Nat
         /\ Copies(i, q) = 0 <=> i \notin Range(q)
<1> DEFINE A == {n \in DOMAIN q : q[n] = i}
<1>1. Len(q) \in Nat /\ DOMAIN q = 1..Len(q) OBVIOUS
<1>2. A \in SUBSET (1..Len(q)) BY <1>1
<1>3. A = {} <=> i \notin Range(q) BY DEF Range
<1>4. Copies(i, q) = Cardinality(A) BY DEF Copies
<1> HIDE DEF A
<1>5. IsFiniteSet(A)
  <2>1. IsFiniteSet(1..Len(q)) BY <1>1, FS_Interval
  <2> QED BY <1>2, <2>1, FS_Subset
<1>6. Cardinality(A) \in Nat /\ (Cardinality(A) = 0 <=> A = {}) BY <1>5, FS_CardinalityType, FS_EmptySet
<1>7. IsFiniteSet({n \in DOMAIN q : q[n] = i}) BY <1>5 DEF A
<1> QED BY <1>3, <1>4, <1>6, <1>7

LEMMA CopiesConcat ==
  ASSUME NEW q \in Seq(Nat), NEW r \in Seq(Nat), NEW i
  PROVE  Copies(i, q \o r) = Copies(i, q) + Copies(i, r)
<1> DEFINE A == {n \in DOMAIN q : q[n] = i}
           B == {n \in DOMAIN r : r[n] = i}
           C == {n + Len(q) : n \in B}
           D == {n \in DOMAIN (q \o r) : (q \o r)[n] = i}
<1>1. /\ Len(q) \in Nat /\ Len(r) \in Nat /\ DOMAIN q = 1..Len(q) /\ DOMAIN r = 1..Len(r)
      /\ DOMAIN (q \o r) = 1..Len(q) + Len(r)
      /\ \A n \in 1..Len(q) + Len(r) : (q \o r)[n] = IF n <= Len(q) THEN q[n] ELSE r[n - Len(q)]
  BY ConcatProperties
<1>2. \A n \in C : n \in Len(q) + 1..Len(q) + Len(r) /\ n - Len(q) \in B BY <1>1
<1>3. D = A \cup C
  <2>1. ASSUME NEW n \in D PROVE n \in A \cup C
    <3>1. n \in 1..Len(q) + Len(r) BY <1>1
    <3>2. CASE n <= Len(q) BY <1>1, <3>1, <3>2
    <3>3. CASE n > Len(q)
      <4>1. n - Len(q) \in B BY <1>1, <3>1, <3>3
      <4>2. n = (n - Len(q)) + Len(q) BY <1>1, <3>1
      <4> QED BY <4>1, <4>2
    <3> QED BY <1>1, <3>1, <3>2, <3>3
  <2>2. A \subseteq D BY <1>1
  <2>3. ASSUME NEW n \in C PROVE n \in D BY <1>1, <1>2
  <2> QED BY <2>1, <2>2, <2>3
<1>4. IsFiniteSet(A) /\ IsFiniteSet(B) /\ Cardinality(A) \in Nat /\ Cardinality(B) \in Nat
  BY CopiesType DEF Copies
<1>5. IsFiniteSet(C) /\ Cardinality(C) = Cardinality(B)
  <2> DEFINE f == [n \in B |-> n + Len(q)]
  <2>1. f \in [B -> C] OBVIOUS
  <2>2. \A n, m \in B : f[n] = f[m] => n = m BY <1>1
  <2>3. \A c \in C : \E n \in B : f[n] = c OBVIOUS
  <2> HIDE DEF f, B, C
  <2>4. f \in Bijection(B, C) BY <2>1, <2>2, <2>3 DEF Bijection, Injection, Surjection, IsInjective
  <2> QED BY <1>4, <2>4, FS_Bijection DEF ExistsBijection
<1>6. A \cap C = {} BY <1>1, <1>2
<1>7. Copies(i, q) = Cardinality(A) /\ Copies(i, r) = Cardinality(B) /\ Copies(i, q \o r) = Cardinality(D)
  BY DEF Copies
<1> HIDE DEF A, B, C, D
<1>8. Cardinality(D) = Cardinality(A) + Cardinality(C)
  <2>1. Cardinality(A \cup C) = Cardinality(A) + Cardinality(C) - Cardinality(A \cap C)
    BY <1>4, <1>5, FS_Union
  <2>2. Cardinality(A \cap C) = 0 BY <1>6, FS_EmptySet
  <2> QED BY <1>3, <1>4, <1>5, <2>1, <2>2
<1> QED BY <1>5, <1>7, <1>8

LEMMA CopiesOfOne == ASSUME NEW x, NEW i PROVE Copies(i, <<x>>) = IF x = i THEN 1 ELSE 0
<1>1. {n \in DOMAIN <<x>> : <<x>>[n] = i} = IF x = i THEN {1} ELSE {} OBVIOUS
<1> QED BY <1>1, FS_Singleton, FS_EmptySet DEF Copies

LEMMA CopiesOfNone == ASSUME NEW i PROVE Copies(i, <<>>) = 0
<1>1. {n \in DOMAIN <<>> : <<>>[n] = i} = {} OBVIOUS
<1> QED BY <1>1, FS_EmptySet DEF Copies

LEMMA CopiesAppend ==
  ASSUME NEW q \in Seq(Nat), NEW x \in Nat, NEW i
  PROVE  Copies(i, Append(q, x)) = Copies(i, q) + (IF x = i THEN 1 ELSE 0)
<1>1. Append(q, x) = q \o <<x>> BY AppendIsConcat
<1>2. <<x>> \in Seq(Nat) OBVIOUS
<1>3. Copies(i, q \o <<x>>) = Copies(i, q) + Copies(i, <<x>>) BY <1>2, CopiesConcat
<1>4. Copies(i, <<x>>) = IF x = i THEN 1 ELSE 0 BY CopiesOfOne
<1> QED BY <1>1, <1>3, <1>4

\* No output is twice in a sequence of different ones.
LEMMA CopiesOnce ==
  ASSUME NEW q \in Seq(Nat), NEW i,
         \A n, m \in 1..Len(q) : q[n] = q[m] => n = m
  PROVE  Copies(i, q) = IF i \in Range(q) THEN 1 ELSE 0
<1> DEFINE A == {n \in DOMAIN q : q[n] = i}
<1>1. CASE i \in Range(q)
  <2>1. PICK k \in DOMAIN q : q[k] = i BY <1>1 DEF Range
  <2>2. A = {k} BY <2>1
  <2> QED BY <1>1, <2>2, FS_Singleton DEF Copies
<1>2. CASE i \notin Range(q) BY <1>2, CopiesType
<1> QED BY <1>1, <1>2

\* The part of a sequence from a place on, when the sequence grows.
LEMMA SubSeqGrows ==
  ASSUME NEW q \in Seq(Nat), NEW r \in Seq(Nat), NEW b \in Nat, b <= Len(q)
  PROVE  /\ SubSeq(q, b + 1, Len(q)) \in Seq(Nat)
         /\ SubSeq(q \o r, b + 1, Len(q \o r)) = SubSeq(q, b + 1, Len(q)) \o r
<1> DEFINE s == SubSeq(q, b + 1, Len(q))
           t == SubSeq(q \o r, b + 1, Len(q \o r))
<1>1. /\ q \o r \in Seq(Nat) /\ Len(q \o r) = Len(q) + Len(r) /\ Len(q) \in Nat /\ Len(r) \in Nat
      /\ \A n \in 1..Len(q) + Len(r) : (q \o r)[n] = IF n <= Len(q) THEN q[n] ELSE r[n - Len(q)]
  BY ConcatProperties
<1>2. /\ s \in Seq(Nat) /\ Len(s) = Len(q) - b
      /\ \A n \in 1..Len(q) - b : s[n] = q[b + n]
  <2>1. \A n \in b + 1..Len(q) : q[n] \in Nat BY <1>1
  <2> QED BY <1>1, <2>1, SubSeqProperties
<1>3. /\ t \in Seq(Nat) /\ Len(t) = Len(q) + Len(r) - b
      /\ \A n \in 1..Len(q) + Len(r) - b : t[n] = (q \o r)[b + n]
  <2> DEFINE u == q \o r
  <2>0. u \in Seq(Nat) /\ Len(u) = Len(q) + Len(r) /\ t = SubSeq(u, b + 1, Len(u)) BY <1>1
  <2>3. \A n : u[n] = (q \o r)[n] OBVIOUS
  <2> HIDE DEF u, t
  <2>1. \A n \in b + 1..Len(u) : u[n] \in Nat BY <1>1, <2>0
  <2>2. /\ SubSeq(u, b + 1, Len(u)) \in Seq(Nat) /\ Len(SubSeq(u, b + 1, Len(u))) = Len(u) - b
        /\ \A n \in 1..Len(u) - b : SubSeq(u, b + 1, Len(u))[n] = u[b + n]
    BY <1>1, <2>0, <2>1, SubSeqProperties
  <2>4. Len(u) - b = Len(q) + Len(r) - b BY <2>0
  <2>5. t \in Seq(Nat) /\ Len(t) = Len(q) + Len(r) - b BY <2>0, <2>2, <2>4
  <2>6. \A n \in 1..Len(q) + Len(r) - b : t[n] = u[b + n] BY <2>0, <2>2, <2>4
  <2> QED BY <2>3, <2>5, <2>6
<1> HIDE DEF s, t
<1>4. /\ s \o r \in Seq(Nat) /\ Len(s \o r) = Len(s) + Len(r)
      /\ \A n \in 1..Len(s) + Len(r) : (s \o r)[n] = IF n <= Len(s) THEN s[n] ELSE r[n - Len(s)]
  BY <1>2, ConcatProperties
<1>5. Len(t) = Len(s \o r) BY <1>1, <1>2, <1>3, <1>4
<1>6. ASSUME NEW n \in 1..Len(t) PROVE t[n] = (s \o r)[n]
  <2>1. n \in 1..Len(q) + Len(r) - b /\ n \in 1..Len(s) + Len(r) BY <1>1, <1>2, <1>3
  <2>2. t[n] = (q \o r)[b + n] /\ b + n \in 1..Len(q) + Len(r) BY <1>1, <1>3, <2>1
  <2>0. /\ n \in Nat /\ b + n \in Nat /\ Len(q) \in Nat /\ Len(r) \in Nat /\ Len(s) = Len(q) - b
        /\ Len(q) - b \in Nat /\ 1 <= n
    BY <1>1, <1>2, <2>1
  <2>3. CASE n <= Len(q) - b
    <3>1. b + n <= Len(q) /\ n <= Len(s) /\ n \in 1..Len(q) - b BY <2>0, <2>3
    <3>2. (q \o r)[b + n] = q[b + n] BY <1>1, <2>2, <3>1
    <3>3. (s \o r)[n] = s[n] BY <1>4, <2>1, <3>1
    <3>4. s[n] = q[b + n] BY <1>2, <3>1
    <3> QED BY <2>2, <3>2, <3>3, <3>4
  <2>4. CASE n > Len(q) - b
    <3>1. ~(b + n <= Len(q)) /\ ~(n <= Len(s)) /\ b + n - Len(q) = n - Len(s) BY <2>0, <2>4
    <3>2. (q \o r)[b + n] = r[b + n - Len(q)] BY <1>1, <2>2, <3>1
    <3>3. (s \o r)[n] = r[n - Len(s)] BY <1>4, <2>1, <3>1
    <3>4. r[b + n - Len(q)] = r[n - Len(s)] BY <3>1
    <3> QED BY <2>2, <3>2, <3>3, <3>4
  <2>5. n <= Len(q) - b \/ n > Len(q) - b BY <2>0
  <2> QED BY <2>3, <2>4, <2>5
<1>7. t = s \o r BY <1>3, <1>4, <1>5, <1>6, SeqEqual
<1> QED BY <1>2, <1>7 DEF s, t

-----------------------------------------------------------------------------
(* Every output of a feed is in one place *)

\* The places an output may be in, for a feed: sent, gathered, on its way or with
\* the reader.
SentOn(f) == SubSeq(shown[f], feeds[f].before + 1, Len(shown[f]))
Going(f, i) == Cardinality({w \in OnTheWay(f) : i \in Range(w.items)})
InHand(f, i) == IF f[2] \in handing[f[1]].to /\ handing[f[1]].item = i THEN 1 ELSE 0
Places(f, i) == Copies(i, SentOn(f)) + Copies(i, buffers[f]) + Going(f, i) + InHand(f, i)

FeedsTyped ==
  /\ printed \in [bound.slots -> Nat] /\ recent \in [bound.slots -> Seq(Nat)]
  /\ buffers \in [Feeds -> Seq(Nat)] /\ shown \in [Feeds -> Seq(Nat)]
  /\ handing \in [bound.slots -> [item : Nat, to : SUBSET Listeners]]
  /\ sending \subseteq [feed : Feeds, items : Seq(Nat)] /\ IsFiniteSet(sending)
  /\ DOMAIN feeds \subseteq Feeds /\ feeds \in [DOMAIN feeds -> [from : Nat, before : Nat]]

\* What a session keeps is what it printed last.
LastKept(s) ==
  /\ Len(recent[s]) <= printed[s]
  /\ \A n \in 1..Len(recent[s]) : recent[s][n] = printed[s] - Len(recent[s]) + n

\* The listener of a feed is shown the session's output; no message repeats
\* itself, and the outputs from the first on, and no others, are in one place.
Placed(f) ==
  /\ f[2] \in syncs[f[1]] /\ feeds[f].before <= Len(shown[f]) /\ feeds[f].from <= printed[f[1]] + 1
  /\ \A w \in OnTheWay(f), i \in Nat : Copies(i, w.items) <= 1
  /\ \A i \in Nat : Places(f, i) = IF i \in feeds[f].from..printed[f[1]] THEN 1 ELSE 0

Ledger ==
  /\ FeedsTyped
  /\ \A s \in bound.slots : LastKept(s)
  /\ \A f \in DOMAIN feeds : Placed(f)

LEMMA FeedParts ==
  ASSUME NEW f \in Feeds
  PROVE  f[1] \in bound.slots /\ f[2] \in Listeners /\ f = <<f[1], f[2]>>
BY DEF Feeds

LEMMA FeedsBound == ASSUME bound' = bound PROVE Feeds' = Feeds
BY DEF Feeds

LEMMA LedgerStarts == Init => Ledger
<1> SUFFICES ASSUME Init PROVE Ledger OBVIOUS
<1>1. /\ printed = [s \in bound.slots |-> 0] /\ recent = [s \in bound.slots |-> <<>>]
      /\ buffers = [f \in Feeds |-> <<>>] /\ handing = [s \in bound.slots |-> [item |-> 0, to |-> {}]]
      /\ sending = {} /\ shown = [f \in Feeds |-> <<>>] /\ feeds = <<>>
  BY DEF Init, SyncInit
<1>2. DOMAIN feeds = {} BY <1>1
<1>3. FeedsTyped
  <2>1. IsFiniteSet(sending) BY <1>1, FS_EmptySet
  <2>2. feeds \in [DOMAIN feeds -> [from : Nat, before : Nat]] BY <1>1
  <2> QED BY <1>1, <1>2, <2>1, <2>2 DEF FeedsTyped
<1>4. \A s \in bound.slots : LastKept(s) BY <1>1 DEF LastKept
<1> QED BY <1>2, <1>3, <1>4 DEF Ledger

\* A feed that a step leaves alone keeps its outputs where they are.
LEMMA PlacedKept ==
  ASSUME NEW f, f \in Feeds, Placed(f), f[2] \in syncs'[f[1]],
         feeds'[f] = feeds[f], shown'[f] = shown[f], buffers'[f] = buffers[f],
         OnTheWay(f)' = OnTheWay(f), printed'[f[1]] = printed[f[1]],
         \A i \in Nat : InHand(f, i)' = InHand(f, i)
  PROVE  Placed(f)'
<1>1. SentOn(f)' = SentOn(f) BY DEF SentOn
<1>2. \A i \in Nat : Going(f, i)' = Going(f, i) BY DEF Going
<1>3. \A i \in Nat : Places(f, i)' = Places(f, i) BY <1>1, <1>2 DEF Places
<1> QED BY <1>3 DEF Placed

\* The numbers that Places adds.
LEMMA PlacesTyped ==
  ASSUME FeedsTyped, NEW f \in DOMAIN feeds, Placed(f), NEW i \in Nat
  PROVE  /\ SentOn(f) \in Seq(Nat) /\ buffers[f] \in Seq(Nat) /\ IsFiniteSet(OnTheWay(f))
         /\ Copies(i, SentOn(f)) \in Nat /\ Copies(i, buffers[f]) \in Nat
         /\ IsFiniteSet({w \in OnTheWay(f) : i \in Range(w.items)})
         /\ Going(f, i) \in Nat /\ InHand(f, i) \in 0..1
<1>1. /\ f \in Feeds /\ shown[f] \in Seq(Nat) /\ buffers[f] \in Seq(Nat)
      /\ feeds[f].before \in Nat /\ feeds[f].before <= Len(shown[f])
  BY DEF FeedsTyped, Placed
<1>2. SentOn(f) \in Seq(Nat)
  <2>1. <<>> \in Seq(Nat) OBVIOUS
  <2> QED BY <1>1, <2>1, SubSeqGrows DEF SentOn
<1>3. IsFiniteSet(OnTheWay(f))
  <2>1. OnTheWay(f) \in SUBSET sending BY DEF OnTheWay
  <2> QED BY <2>1, FS_Subset DEF FeedsTyped
<1>4. IsFiniteSet({w \in OnTheWay(f) : i \in Range(w.items)})
  <2>1. {w \in OnTheWay(f) : i \in Range(w.items)} \in SUBSET OnTheWay(f) OBVIOUS
  <2> QED BY <1>3, <2>1, FS_Subset
<1>5. Going(f, i) \in Nat BY <1>4, FS_CardinalityType DEF Going
<1>6. Copies(i, SentOn(f)) \in Nat /\ Copies(i, buffers[f]) \in Nat BY <1>1, <1>2, CopiesType
<1>7. InHand(f, i) \in 0..1 BY DEF InHand
<1> QED BY <1>1, <1>2, <1>3, <1>4, <1>5, <1>6, <1>7

\* A message more, or one less, on its way.
LEMMA GoingMore ==
  ASSUME FeedsTyped, NEW f \in DOMAIN feeds, Placed(f), NEW i \in Nat,
         NEW v, v \notin OnTheWay(f), OnTheWay(f)' = OnTheWay(f) \cup {v}
  PROVE  Going(f, i)' = Going(f, i) + (IF i \in Range(v.items) THEN 1 ELSE 0)
<1> DEFINE G == {w \in OnTheWay(f) : i \in Range(w.items)}
           H == {w \in OnTheWay(f)' : i \in Range(w.items)}
<1>1. IsFiniteSet(G) BY PlacesTyped
<1>2. Going(f, i) = Cardinality(G) /\ Going(f, i)' = Cardinality(H) BY DEF Going
<1>3. H = (IF i \in Range(v.items) THEN G \cup {v} ELSE G) /\ v \notin G OBVIOUS
<1> HIDE DEF G, H
<1>4. Cardinality(G \cup {v}) = Cardinality(G) + 1 BY <1>1, <1>3, FS_AddElement
<1>5. Cardinality(G) \in Nat BY <1>1, FS_CardinalityType
<1> QED BY <1>2, <1>3, <1>4, <1>5

LEMMA GoingLess ==
  ASSUME FeedsTyped, NEW f \in DOMAIN feeds, Placed(f), NEW i \in Nat,
         NEW v \in OnTheWay(f), OnTheWay(f)' = OnTheWay(f) \ {v}
  PROVE  Going(f, i)' = Going(f, i) - (IF i \in Range(v.items) THEN 1 ELSE 0)
<1> DEFINE G == {w \in OnTheWay(f) : i \in Range(w.items)}
           H == {w \in OnTheWay(f)' : i \in Range(w.items)}
<1>1. IsFiniteSet(G) BY PlacesTyped
<1>2. Going(f, i) = Cardinality(G) /\ Going(f, i)' = Cardinality(H) BY DEF Going
<1>3. /\ H = (IF i \in Range(v.items) THEN G \ {v} ELSE G)
      /\ i \in Range(v.items) => v \in G
  OBVIOUS
<1> HIDE DEF G, H
<1>4. i \in Range(v.items) => Cardinality(G \ {v}) = Cardinality(G) - 1 BY <1>1, <1>3, FS_RemoveElement
<1>5. Cardinality(G) \in Nat BY <1>1, FS_CardinalityType
<1> QED BY <1>2, <1>3, <1>4, <1>5


-----------------------------------------------------------------------------
(* The steps of the feeds *)

LEMMA KeptOf ==
  ASSUME NEW q \in Seq(Nat), q # <<>>
  PROVE  /\ Kept(q) \in Seq(Nat) /\ Len(Kept(q)) <= Len(q)
         /\ \A n \in 1..Len(Kept(q)) : Kept(q)[n] = q[Len(q) - Len(Kept(q)) + n]
<1>1. Len(q) \in Nat BY LenProperties
<1>2. Tail(q) \in Seq(Nat) /\ Len(Tail(q)) = Len(q) - 1 /\ \A n \in 1..Len(Tail(q)) : Tail(q)[n] = q[n + 1]
  BY HeadTailProperties
<1>3. CASE Kept(q) = Tail(q)
  <2>1. \A n \in 1..Len(Tail(q)) : Len(q) - Len(Tail(q)) + n = n + 1 BY <1>1, <1>2
  <2> QED BY <1>1, <1>2, <1>3, <2>1
<1>4. CASE Kept(q) = q
  <2>1. \A n \in 1..Len(q) : Len(q) - Len(q) + n = n BY <1>1
  <2> QED BY <1>1, <1>4, <2>1
<1> QED BY <1>3, <1>4 DEF Kept

LEMMA OutputKept ==
  ASSUME Ledger, bound' = bound, TargetsSound, NEW s \in bound.slots, Output(s)
  PROVE  FeedsTyped' /\ \A t \in bound.slots : LastKept(t)'
<1> DEFINE a == Append(recent[s], printed[s] + 1)
<1>1. /\ UNCHANGED <<syncs, buffers, sending, shown, feeds>>
      /\ printed' = [printed EXCEPT ![s] = @ + 1]
      /\ handing' = [handing EXCEPT ![s] = [item |-> printed'[s], to |-> syncs[s]]]
      /\ recent' = [recent EXCEPT ![s] = Kept(Append(@, printed'[s]))]
  BY DEF Output
<1>2. FeedsTyped BY DEF Ledger
<1>3. printed'[s] = printed[s] + 1 /\ printed[s] \in Nat /\ recent[s] \in Seq(Nat) BY <1>1, <1>2 DEF FeedsTyped
<1>4. recent' = [recent EXCEPT ![s] = Kept(a)] BY <1>1, <1>3
<1>5. /\ a \in Seq(Nat) /\ a # <<>> /\ Len(a) = Len(recent[s]) + 1 /\ Len(recent[s]) \in Nat
      /\ \A n \in 1..Len(a) : a[n] = IF n <= Len(recent[s]) THEN recent[s][n] ELSE printed[s] + 1
  <2> DEFINE q == recent[s]
             x == printed[s] + 1
  <2>1. q \in Seq(Nat) /\ x \in Nat BY <1>3
  <2>2. a = Append(q, x) OBVIOUS
  <2> HIDE DEF a, q, x
  <2>3. /\ a \in Seq(Nat) /\ a # <<>> /\ Len(a) = Len(q) + 1 /\ Len(q) \in Nat
        /\ \A n \in 1..Len(q) : a[n] = q[n]
        /\ a[Len(q) + 1] = x
    BY <2>1, <2>2, AppendProperties, LenProperties
  <2>4. \A n \in 1..Len(a) : a[n] = IF n <= Len(q) THEN q[n] ELSE x BY <2>3
  <2> QED BY <2>3, <2>4 DEF q, x
<1> HIDE DEF a
<1>6. /\ Kept(a) \in Seq(Nat) /\ Len(Kept(a)) <= Len(a) /\ Len(Kept(a)) \in Nat
      /\ \A n \in 1..Len(Kept(a)) : Kept(a)[n] = a[Len(a) - Len(Kept(a)) + n]
  BY <1>5, KeptOf, LenProperties
<1>7. FeedsTyped'
  <2>1. printed' \in [bound.slots -> Nat] BY <1>1, <1>2, <1>3 DEF FeedsTyped
  <2>2. recent' \in [bound.slots -> Seq(Nat)] BY <1>2, <1>4, <1>6 DEF FeedsTyped
  <2>3. handing' \in [bound.slots -> [item : Nat, to : SUBSET Listeners]]
    <3>1. [item |-> printed'[s], to |-> syncs[s]] \in [item : Nat, to : SUBSET Listeners]
      BY <1>3 DEF TargetsSound
    <3> QED BY <1>1, <1>2, <3>1 DEF FeedsTyped
  <2>4. Feeds' = Feeds BY FeedsBound
  <2> QED BY <1>1, <1>2, <2>1, <2>2, <2>3, <2>4 DEF FeedsTyped
<1>8. ASSUME NEW t \in bound.slots PROVE LastKept(t)'
  <2>1. CASE t = s
    <3>1. recent'[s] = Kept(a) BY <1>2, <1>4 DEF FeedsTyped
    <3>2. /\ Len(recent[s]) <= printed[s]
          /\ \A n \in 1..Len(recent[s]) : recent[s][n] = printed[s] - Len(recent[s]) + n
      BY DEF Ledger, LastKept
    <3>3. ASSUME NEW n \in 1..Len(a) PROVE a[n] = printed[s] + 1 - Len(a) + n
      <4>1. n \in Nat /\ Len(a) = Len(recent[s]) + 1 /\ Len(recent[s]) \in Nat /\ printed[s] \in Nat
        BY <1>3, <1>5
      <4>2. CASE n <= Len(recent[s])
        <5>1. a[n] = recent[s][n] BY <1>5, <4>2
        <5>2. recent[s][n] = printed[s] - Len(recent[s]) + n BY <3>2, <4>1, <4>2
        <5> QED BY <4>1, <5>1, <5>2
      <4>3. CASE n > Len(recent[s])
        <5>1. a[n] = printed[s] + 1 BY <1>5, <4>1, <4>3
        <5> QED BY <4>1, <4>3, <5>1
      <4> QED BY <4>1, <4>2, <4>3
    <3>4. ASSUME NEW n \in 1..Len(Kept(a)) PROVE Kept(a)[n] = printed[s] + 1 - Len(Kept(a)) + n
      <4> DEFINE k == Len(a) - Len(Kept(a)) + n
      <4>0. Len(a) \in Nat /\ Len(Kept(a)) \in Nat /\ Len(Kept(a)) <= Len(a) /\ printed[s] \in Nat
        BY <1>3, <1>5, <1>6
      <4>1. k \in 1..Len(a)
        <5> DEFINE x == Len(a)
                   y == Len(Kept(a))
        <5>1. x \in Nat /\ y \in Nat /\ y <= x /\ n \in 1..y BY <4>0
        <5> HIDE DEF x, y
        <5>2. x - y + n \in 1..x BY <5>1
        <5> QED BY <5>2 DEF x, y
      <4>2. Kept(a)[n] = a[k] BY <1>6
      <4>3. a[k] = printed[s] + 1 - Len(a) + k BY <3>3, <4>1
      <4>4. printed[s] + 1 - Len(a) + k = printed[s] + 1 - Len(Kept(a)) + n
        <5> DEFINE x == Len(a)
                   y == Len(Kept(a))
                   z == printed[s]
        <5>1. x \in Nat /\ y \in Nat /\ z \in Nat BY <4>0
        <5> HIDE DEF x, y, z
        <5>2. z + 1 - x + (x - y + n) = z + 1 - y + n BY <5>1
        <5> QED BY <5>2 DEF x, y, z
      <4> QED BY <4>2, <4>3, <4>4
    <3>5. Len(Kept(a)) <= printed[s] + 1 BY <1>3, <1>5, <1>6, <3>2
    <3> QED BY <1>3, <2>1, <3>1, <3>4, <3>5 DEF LastKept
  <2>2. CASE t # s
    <3>1. recent'[t] = recent[t] /\ printed'[t] = printed[t] BY <1>1, <1>2, <2>2 DEF FeedsTyped
    <3> QED BY <3>1 DEF Ledger, LastKept
  <2> QED BY <2>1, <2>2
<1> QED BY <1>7, <1>8

\* A new output is in the hand of the reader, for everybody the session is shown to.
LEMMA OutputPlaced ==
  ASSUME Ledger, bound' = bound, TargetsSound, NEW s \in bound.slots, Output(s),
         NEW f \in DOMAIN feeds, Placed(f)
  PROVE  Placed(f)'
<1>1. /\ UNCHANGED <<syncs, buffers, sending, shown, feeds>> /\ handing[s].to = {}
      /\ printed' = [printed EXCEPT ![s] = @ + 1]
      /\ handing' = [handing EXCEPT ![s] = [item |-> printed'[s], to |-> syncs[s]]]
  BY DEF Output
<1>2. FeedsTyped BY DEF Ledger
<1>3. f \in Feeds /\ f[1] \in bound.slots BY <1>2, FeedParts DEF FeedsTyped
<1>4. OnTheWay(f)' = OnTheWay(f) /\ SentOn(f)' = SentOn(f) BY <1>1 DEF OnTheWay, SentOn
<1>5. CASE f[1] # s
  <2>1. handing'[f[1]] = handing[f[1]] /\ printed'[f[1]] = printed[f[1]] BY <1>1, <1>2, <1>3, <1>5 DEF FeedsTyped
  <2>2. \A i \in Nat : InHand(f, i)' = InHand(f, i) BY <2>1 DEF InHand
  <2>3. f[2] \in syncs'[f[1]] BY <1>1 DEF Placed
  <2> QED BY <1>1, <1>3, <1>4, <2>1, <2>2, <2>3, PlacedKept
<1>6. CASE f[1] = s
  <2>1. /\ printed'[s] = printed[s] + 1 /\ printed[s] \in Nat
        /\ handing'[s] = [item |-> printed[s] + 1, to |-> syncs[s]]
        /\ feeds[f].from \in Nat /\ feeds[f].from <= printed[s] + 1 /\ f[2] \in syncs[s]
    BY <1>1, <1>2, <1>6 DEF FeedsTyped, Placed
  <2>2. ASSUME NEW i \in Nat
        PROVE  Places(f, i)' = IF i \in feeds[f].from..printed[s] + 1 THEN 1 ELSE 0
    <3>1. InHand(f, i) = 0 BY <1>1, <1>6 DEF InHand
    <3>2. InHand(f, i)' = IF i = printed[s] + 1 THEN 1 ELSE 0 BY <1>6, <2>1 DEF InHand
    <3>3. Going(f, i)' = Going(f, i) BY <1>4 DEF Going
    <3>4. Places(f, i)' = Copies(i, SentOn(f)) + Copies(i, buffers[f]) + Going(f, i) + InHand(f, i)'
      BY <1>1, <1>4, <3>3 DEF Places
    <3>5. Places(f, i) = Copies(i, SentOn(f)) + Copies(i, buffers[f]) + Going(f, i) + InHand(f, i)
      BY DEF Places
    <3>6. Copies(i, SentOn(f)) \in Nat /\ Copies(i, buffers[f]) \in Nat /\ Going(f, i) \in Nat
      BY <1>2, PlacesTyped
    <3>7. Places(f, i) = IF i \in feeds[f].from..printed[s] THEN 1 ELSE 0 BY <1>6 DEF Placed
    <3> QED BY <2>1, <3>1, <3>2, <3>4, <3>5, <3>6, <3>7
  <2>3. f[2] \in syncs'[s] /\ feeds'[f] = feeds[f] /\ shown'[f] = shown[f] BY <1>1, <2>1
  <2>4. feeds[f].from <= printed'[s] + 1 BY <2>1
  <2>5. /\ feeds[f].before <= Len(shown[f])
        /\ \A w \in OnTheWay(f), i \in Nat : Copies(i, w.items) <= 1
    BY DEF Placed
  <2> QED BY <1>4, <1>6, <2>1, <2>2, <2>3, <2>4, <2>5 DEF Placed
<1> QED BY <1>5, <1>6

\* The output goes from the reader's hand to the buffer.
LEMMA HandPlaced ==
  ASSUME Ledger, bound' = bound, NEW s \in bound.slots, NEW l, Hand(s, l)
  PROVE  Ledger'
<1>1. /\ UNCHANGED <<printed, recent, syncs, sending, shown, feeds>> /\ l \in handing[s].to
      /\ handing' = [handing EXCEPT ![s].to = @ \ {l}]
      /\ buffers' = [buffers EXCEPT ![<<s, l>>] = Append(@, handing[s].item)]
  BY DEF Hand
<1>2. FeedsTyped BY DEF Ledger
<1>3. /\ handing[s] \in [item : Nat, to : SUBSET Listeners] /\ <<s, l>> \in Feeds
      /\ handing'[s].item = handing[s].item /\ handing'[s].to = handing[s].to \ {l}
  BY <1>1, <1>2 DEF FeedsTyped, Feeds
<1>4. /\ buffers[<<s, l>>] \in Seq(Nat) /\ Append(buffers[<<s, l>>], handing[s].item) \in Seq(Nat)
      /\ buffers'[<<s, l>>] = Append(buffers[<<s, l>>], handing[s].item)
  BY <1>1, <1>2, <1>3, AppendProperties DEF FeedsTyped
<1>5. FeedsTyped'
  <2>1. buffers' \in [Feeds -> Seq(Nat)] BY <1>1, <1>2, <1>4 DEF FeedsTyped
  <2>2. handing' \in [bound.slots -> [item : Nat, to : SUBSET Listeners]]
    <3>1. handing' = [handing EXCEPT ![s] = [item |-> handing[s].item, to |-> handing[s].to \ {l}]]
      BY <1>1, <1>2, <1>3 DEF FeedsTyped
    <3>2. [item |-> handing[s].item, to |-> handing[s].to \ {l}] \in [item : Nat, to : SUBSET Listeners]
      BY <1>3
    <3> QED BY <1>2, <3>1, <3>2 DEF FeedsTyped
  <2>3. Feeds' = Feeds BY FeedsBound
  <2> QED BY <1>1, <1>2, <2>1, <2>2, <2>3 DEF FeedsTyped
<1>6. \A t \in bound.slots : LastKept(t)' BY <1>1 DEF Ledger, LastKept
<1>7. ASSUME NEW f \in DOMAIN feeds PROVE Placed(f)'
  <2>1. Placed(f) /\ f \in Feeds /\ f[1] \in bound.slots /\ f[2] \in syncs'[f[1]] /\ f = <<f[1], f[2]>>
    BY <1>1, <1>2, FeedParts DEF Ledger, FeedsTyped, Placed
  <2>2. OnTheWay(f)' = OnTheWay(f) /\ SentOn(f)' = SentOn(f) BY <1>1 DEF OnTheWay, SentOn
  <2>3. CASE f # <<s, l>>
    <3>1. buffers'[f] = buffers[f] BY <1>1, <1>2, <2>1, <2>3 DEF FeedsTyped
    <3>2. \A i \in Nat : InHand(f, i)' = InHand(f, i)
      <4>1. CASE f[1] # s
        <5>1. handing'[f[1]] = handing[f[1]] BY <1>1, <1>2, <2>1, <4>1 DEF FeedsTyped
        <5> QED BY <5>1 DEF InHand
      <4>2. CASE f[1] = s
        <5>1. f[2] # l BY <2>1, <2>3, <4>2
        <5> QED BY <1>3, <4>2, <5>1 DEF InHand
      <4> QED BY <4>1, <4>2
    <3> QED BY <1>1, <2>1, <2>2, <3>1, <3>2, PlacedKept
  <2>4. CASE f = <<s, l>>
    <3>0. f[1] = s /\ f[2] = l BY <2>4
    <3>1. ASSUME NEW i \in Nat PROVE Places(f, i)' = Places(f, i)
      <4>1. InHand(f, i) = (IF handing[s].item = i THEN 1 ELSE 0) /\ InHand(f, i)' = 0
        BY <1>1, <1>3, <3>0 DEF InHand
      <4>2. Copies(i, buffers'[f]) = Copies(i, buffers[f]) + (IF handing[s].item = i THEN 1 ELSE 0)
        <5> DEFINE q == buffers[f]
                   x == handing[s].item
        <5>1. q \in Seq(Nat) /\ x \in Nat /\ buffers'[f] = Append(q, x) BY <1>3, <1>4, <2>4
        <5> HIDE DEF q, x
        <5>2. Copies(i, Append(q, x)) = Copies(i, q) + (IF x = i THEN 1 ELSE 0) BY <5>1, CopiesAppend
        <5> QED BY <5>1, <5>2 DEF q, x
      <4>3. Going(f, i)' = Going(f, i) BY <2>2 DEF Going
      <4>4. Copies(i, SentOn(f)) \in Nat /\ Copies(i, buffers[f]) \in Nat /\ Going(f, i) \in Nat
        BY <1>2, <2>1, PlacesTyped
      <4>5. Places(f, i)' = Copies(i, SentOn(f)) + Copies(i, buffers'[f]) + Going(f, i) + InHand(f, i)'
        BY <2>2, <4>3 DEF Places
      <4>6. Places(f, i) = Copies(i, SentOn(f)) + Copies(i, buffers[f]) + Going(f, i) + InHand(f, i)
        BY DEF Places
      <4> QED BY <4>1, <4>2, <4>4, <4>5, <4>6
    <3> QED BY <1>1, <2>1, <2>2, <3>1 DEF Placed
  <2> QED BY <2>3, <2>4
<1> QED BY <1>1, <1>5, <1>6, <1>7 DEF Ledger

\* What was gathered goes on its way; it is a message of its own, since none of
\* its outputs is in one.
LEMMA FlushPlaced ==
  ASSUME Ledger, bound' = bound, NEW g \in Feeds, Flush(g)
  PROVE  Ledger'
<1> DEFINE v == [feed |-> g, items |-> buffers[g]]
<1>1. /\ UNCHANGED <<printed, recent, syncs, handing, shown, feeds>> /\ buffers[g] # <<>>
      /\ buffers' = [buffers EXCEPT ![g] = <<>>]
      /\ sending' = IF g[2] \in syncs[g[1]] THEN sending \cup {v} ELSE sending
  BY DEF Flush
<1>2. FeedsTyped BY DEF Ledger
<1>3. /\ buffers[g] \in Seq(Nat) /\ buffers'[g] = <<>> /\ v \in [feed : Feeds, items : Seq(Nat)]
      /\ v.feed = g /\ v.items = buffers[g]
  BY <1>1, <1>2 DEF FeedsTyped
<1> HIDE DEF v
<1>4. FeedsTyped'
  <2>1. buffers' \in [Feeds -> Seq(Nat)] BY <1>1, <1>2 DEF FeedsTyped
  <2>2. sending' \subseteq [feed : Feeds, items : Seq(Nat)] BY <1>1, <1>2, <1>3 DEF FeedsTyped
  <2>3. IsFiniteSet(sending') BY <1>1, <1>2, FS_AddElement DEF FeedsTyped
  <2>4. Feeds' = Feeds BY FeedsBound
  <2> QED BY <1>1, <1>2, <2>1, <2>2, <2>3, <2>4 DEF FeedsTyped
<1>5. \A t \in bound.slots : LastKept(t)' BY <1>1 DEF Ledger, LastKept
<1>6. ASSUME NEW f \in DOMAIN feeds PROVE Placed(f)'
  <2>1. Placed(f) /\ f \in Feeds /\ f[2] \in syncs[f[1]] BY <1>2 DEF Ledger, FeedsTyped, Placed
  <2>2. SentOn(f)' = SentOn(f) /\ \A i \in Nat : InHand(f, i)' = InHand(f, i) BY <1>1 DEF SentOn, InHand
  <2>3. CASE f # g
    <3>1. buffers'[f] = buffers[f] BY <1>1, <1>2, <2>1, <2>3 DEF FeedsTyped
    <3>2. OnTheWay(f)' = OnTheWay(f) BY <1>1, <1>3, <2>3 DEF OnTheWay
    <3> QED BY <1>1, <2>1, <2>2, <3>1, <3>2, PlacedKept
  <2>4. CASE f = g
    <3>1. OnTheWay(f)' = OnTheWay(f) \cup {v} BY <1>1, <1>3, <2>1, <2>4 DEF OnTheWay
    <3>2. ASSUME NEW i \in Nat
          PROVE  /\ Places(f, i) = Copies(i, SentOn(f)) + Copies(i, buffers[f]) + Going(f, i) + InHand(f, i)
                 /\ Places(f, i) <= 1
                 /\ Copies(i, SentOn(f)) \in Nat /\ Copies(i, buffers[f]) \in Nat
                 /\ Going(f, i) \in Nat /\ InHand(f, i) \in 0..1
                 /\ Copies(i, buffers[f]) = 0 <=> i \notin Range(buffers[f])
      <4>1. Places(f, i) <= 1 BY <2>1 DEF Placed
      <4>2. Copies(i, buffers[f]) = 0 <=> i \notin Range(buffers[f]) BY <1>3, <2>4, CopiesType
      <4> QED BY <1>2, <2>1, <4>1, <4>2, PlacesTyped DEF Places
    <3>3. \A i \in Nat : Copies(i, buffers[f]) = IF i \in Range(buffers[f]) THEN 1 ELSE 0 BY <3>2
    <3>4. v \notin OnTheWay(f)
      <4> SUFFICES ASSUME v \in OnTheWay(f) PROVE FALSE OBVIOUS
      <4> DEFINE i == buffers[g][1]
                 G == {w \in OnTheWay(f) : i \in Range(w.items)}
      <4>1. i \in Nat /\ i \in Range(buffers[g])
        <5>1. 1 \in DOMAIN buffers[g] BY <1>1, <1>3, EmptySeq, LenProperties
        <5> QED BY <1>3, <5>1, LenProperties, ElementOfSeq DEF Range
      <4>2. IsFiniteSet(G) /\ Going(f, i) = Cardinality(G) BY <1>2, <2>1, <4>1, PlacesTyped DEF Going
      <4>3. v \in G BY <1>3, <4>1
      <4> HIDE DEF i, G
      <4>4. Cardinality(G) # 0 BY <4>2, <4>3, FS_EmptySet
      <4>5. Going(f, i) # 0 /\ Copies(i, buffers[f]) = 1 BY <2>4, <3>3, <4>1, <4>2, <4>4
      <4>6. /\ Copies(i, SentOn(f)) \in Nat /\ Going(f, i) \in Nat /\ InHand(f, i) \in 0..1
            /\ Copies(i, SentOn(f)) + Copies(i, buffers[f]) + Going(f, i) + InHand(f, i) <= 1
        <5>1. Places(f, i) <= 1 BY <3>2, <4>1
        <5> QED BY <3>2, <4>1, <5>1
      <4> QED BY <4>5, <4>6
    <3>5. ASSUME NEW i \in Nat PROVE Places(f, i)' = Places(f, i)
      <4>1. Going(f, i)' = Going(f, i) + (IF i \in Range(v.items) THEN 1 ELSE 0)
        BY <1>2, <2>1, <3>1, <3>4, GoingMore
      <4>2. Copies(i, buffers'[f]) = 0 BY <1>3, <2>4, CopiesOfNone
      <4>3. Places(f, i)' = Copies(i, SentOn(f)) + Copies(i, buffers'[f]) + Going(f, i)' + InHand(f, i)
        BY <2>2 DEF Places
      <4>4. Copies(i, buffers[f]) = IF i \in Range(v.items) THEN 1 ELSE 0 BY <1>3, <2>4, <3>3
      <4>5. Going(f, i)' = Going(f, i) + Copies(i, buffers[f]) BY <4>1, <4>4
      <4> QED BY <3>2, <4>2, <4>3, <4>5
    <3>6. \A w \in OnTheWay(f)', i \in Nat : Copies(i, w.items) <= 1
      <4>1. \A w \in OnTheWay(f), i \in Nat : Copies(i, w.items) <= 1 BY <2>1 DEF Placed
      <4>2. v.items = buffers[f] BY <1>3, <2>4
      <4>3. \A i \in Nat : Copies(i, v.items) <= 1 BY <3>3, <4>2
      <4> QED BY <3>1, <4>1, <4>3
    <3> QED BY <1>1, <2>1, <3>5, <3>6 DEF Placed
  <2> QED BY <2>3, <2>4
<1> QED BY <1>1, <1>4, <1>5, <1>6 DEF Ledger

\* What was on its way has been sent.
LEMMA ShowPlaced ==
  ASSUME Ledger, bound' = bound, NEW v, Show(v)
  PROVE  Ledger'
<1>1. /\ UNCHANGED <<printed, recent, syncs, buffers, handing, feeds>> /\ v \in sending
      /\ sending' = sending \ {v} /\ shown' = [shown EXCEPT ![v.feed] = @ \o v.items]
  BY DEF Show
<1>2. FeedsTyped BY DEF Ledger
<1>3. /\ v.feed \in Feeds /\ v.items \in Seq(Nat) /\ shown[v.feed] \in Seq(Nat)
      /\ shown[v.feed] \o v.items \in Seq(Nat) /\ shown'[v.feed] = shown[v.feed] \o v.items
      /\ Len(shown[v.feed] \o v.items) = Len(shown[v.feed]) + Len(v.items)
  <2>1. v.feed \in Feeds /\ v.items \in Seq(Nat) BY <1>1, <1>2 DEF FeedsTyped
  <2>2. shown[v.feed] \in Seq(Nat) /\ shown'[v.feed] = shown[v.feed] \o v.items
    BY <1>1, <1>2, <2>1 DEF FeedsTyped
  <2> QED BY <2>1, <2>2, ConcatProperties
<1>4. FeedsTyped'
  <2>1. shown' \in [Feeds -> Seq(Nat)] BY <1>1, <1>2, <1>3 DEF FeedsTyped
  <2>2. sending' \subseteq [feed : Feeds, items : Seq(Nat)] BY <1>1, <1>2 DEF FeedsTyped
  <2>3. IsFiniteSet(sending') BY <1>1, <1>2, FS_RemoveElement DEF FeedsTyped
  <2>4. Feeds' = Feeds BY FeedsBound
  <2> QED BY <1>1, <1>2, <2>1, <2>2, <2>3, <2>4 DEF FeedsTyped
<1>5. \A t \in bound.slots : LastKept(t)' BY <1>1 DEF Ledger, LastKept
<1>6. ASSUME NEW f \in DOMAIN feeds PROVE Placed(f)'
  <2>1. Placed(f) /\ f \in Feeds BY <1>2 DEF Ledger, FeedsTyped
  <2>2. \A i \in Nat : InHand(f, i)' = InHand(f, i) BY <1>1 DEF InHand
  <2>3. f[2] \in syncs'[f[1]] BY <1>1, <2>1 DEF Placed
  <2>4. CASE f # v.feed
    <3>1. shown'[f] = shown[f] BY <1>1, <1>2, <2>1, <2>4 DEF FeedsTyped
    <3>2. OnTheWay(f)' = OnTheWay(f) BY <1>1, <2>4 DEF OnTheWay
    <3> QED BY <1>1, <2>1, <2>2, <2>3, <3>1, <3>2, PlacedKept
  <2>5. CASE f = v.feed
    <3>1. v \in OnTheWay(f) /\ OnTheWay(f)' = OnTheWay(f) \ {v} BY <1>1, <2>5 DEF OnTheWay
    <3> DEFINE b == feeds[f].before
    <3>2. b \in Nat /\ b <= Len(shown[f]) BY <1>2, <2>1 DEF FeedsTyped, Placed
    <3>3. SentOn(f) \in Seq(Nat) /\ SentOn(f)' = SentOn(f) \o v.items
      <4>1. SentOn(f) = SubSeq(shown[f], b + 1, Len(shown[f])) BY DEF SentOn
      <4>2. SentOn(f)' = SubSeq(shown'[f], b + 1, Len(shown'[f])) BY <1>1 DEF SentOn
      <4> HIDE DEF b
      <4>3. /\ SubSeq(shown[f], b + 1, Len(shown[f])) \in Seq(Nat)
            /\ SubSeq(shown[f] \o v.items, b + 1, Len(shown[f] \o v.items))
                 = SubSeq(shown[f], b + 1, Len(shown[f])) \o v.items
        BY <1>3, <2>5, <3>2, SubSeqGrows
      <4>4. shown'[f] = shown[f] \o v.items BY <1>3, <2>5
      <4> QED BY <4>1, <4>2, <4>3, <4>4
    <3>4. ASSUME NEW i \in Nat PROVE Places(f, i)' = Places(f, i)
      <4>1. Copies(i, SentOn(f)') = Copies(i, SentOn(f)) + Copies(i, v.items) BY <1>3, <3>3, CopiesConcat
      <4>2. Copies(i, v.items) = IF i \in Range(v.items) THEN 1 ELSE 0
        <5>1. Copies(i, v.items) <= 1 BY <2>1, <3>1 DEF Placed
        <5>2. Copies(i, v.items) \in Nat /\ (Copies(i, v.items) = 0 <=> i \notin Range(v.items))
          BY <1>3, CopiesType
        <5> QED BY <5>1, <5>2
      <4>3. Going(f, i)' = Going(f, i) - (IF i \in Range(v.items) THEN 1 ELSE 0)
        BY <1>2, <2>1, <3>1, GoingLess
      <4>4. Copies(i, SentOn(f)) \in Nat /\ Copies(i, buffers[f]) \in Nat /\ Going(f, i) \in Nat /\ InHand(f, i) \in 0..1
        BY <1>2, <2>1, PlacesTyped
      <4>5. Places(f, i)' = Copies(i, SentOn(f)') + Copies(i, buffers[f]) + Going(f, i)' + InHand(f, i)
        BY <1>1, <2>2 DEF Places
      <4>6. Places(f, i) = Copies(i, SentOn(f)) + Copies(i, buffers[f]) + Going(f, i) + InHand(f, i)
        BY DEF Places
      <4> QED BY <4>1, <4>2, <4>3, <4>4, <4>5, <4>6
    <3>5. b <= Len(shown'[f])
      <4>1. Len(v.items) \in Nat /\ Len(shown[f]) \in Nat BY <1>3, <2>5, LenProperties
      <4>2. Len(shown'[f]) = Len(shown[f]) + Len(v.items) BY <1>3, <2>5
      <4> DEFINE x == Len(shown[f])
                 y == Len(v.items)
                 z == Len(shown'[f])
      <4>3. b \in Nat /\ x \in Nat /\ y \in Nat /\ z = x + y /\ b <= x BY <3>2, <4>1, <4>2
      <4> HIDE DEF b, x, y, z
      <4>4. b <= z BY <4>3
      <4> QED BY <4>4 DEF z
    <3>6. \A w \in OnTheWay(f)', i \in Nat : Copies(i, w.items) <= 1 BY <2>1, <3>1 DEF Placed
    <3> QED BY <1>1, <2>1, <2>3, <3>4, <3>5, <3>6 DEF Placed
  <2> QED BY <2>4, <2>5
<1> QED BY <1>1, <1>4, <1>5, <1>6 DEF Ledger

LEMMA LedgerKept ==
  ASSUME Ledger, UNCHANGED <<bound, syncVars>>
  PROVE  Ledger'
<1>1. UNCHANGED <<printed, recent, syncs, buffers, handing, sending, shown, feeds>> /\ bound' = bound
  BY DEF syncVars
<1>2. Feeds' = Feeds BY <1>1, FeedsBound
<1>3. FeedsTyped' BY <1>1, <1>2 DEF Ledger, FeedsTyped
<1>4. \A s \in bound.slots : LastKept(s)' BY <1>1 DEF Ledger, LastKept
<1>5. \A f \in DOMAIN feeds : Placed(f)'
  BY <1>1 DEF Ledger, Placed, Places, SentOn, Going, InHand, OnTheWay
<1> QED BY <1>1, <1>3, <1>4, <1>5 DEF Ledger

\* What a session keeps is a run of outputs that ends with the last.
LEMMA KeptRun ==
  ASSUME Ledger, NEW s \in bound.slots
  PROVE  /\ recent[s] \in Seq(Nat) /\ printed[s] \in Nat
         /\ printed[s] - Len(recent[s]) + 1 \in Nat
         /\ \A i \in Nat : Copies(i, recent[s]) =
              IF i \in printed[s] - Len(recent[s]) + 1..printed[s] THEN 1 ELSE 0
         /\ \A i : Copies(i, recent[s]) = IF i \in Range(recent[s]) THEN 1 ELSE 0
<1> DEFINE q == recent[s]
           p == printed[s]
<1>1. /\ q \in Seq(Nat) /\ p \in Nat /\ Len(q) \in Nat /\ Len(q) <= p /\ DOMAIN q = 1..Len(q)
      /\ \A n \in 1..Len(q) : q[n] = p - Len(q) + n
  BY LenProperties DEF Ledger, FeedsTyped, LastKept
<1> HIDE DEF q, p
<1>2. p - Len(q) + 1 \in Nat BY <1>1
<1>3. \A n, m \in 1..Len(q) : q[n] = q[m] => n = m BY <1>1
<1>4. \A i : Copies(i, q) = IF i \in Range(q) THEN 1 ELSE 0 BY <1>1, <1>3, CopiesOnce
<1>5. ASSUME NEW i \in Nat PROVE i \in Range(q) <=> i \in p - Len(q) + 1..p
  <2>1. ASSUME i \in Range(q) PROVE i \in p - Len(q) + 1..p
    <3>1. PICK n \in 1..Len(q) : q[n] = i BY <1>1, <2>1 DEF Range
    <3>2. i = p - Len(q) + n BY <1>1, <3>1
    <3> QED BY <1>1, <3>2
  <2>2. ASSUME i \in p - Len(q) + 1..p PROVE i \in Range(q)
    <3> DEFINE n == i - (p - Len(q))
    <3>1. n \in 1..Len(q) BY <1>1, <2>2
    <3>2. q[n] = i BY <1>1, <3>1
    <3> QED BY <1>1, <3>1, <3>2 DEF Range
  <2> QED BY <2>1, <2>2
<1> QED BY <1>1, <1>2, <1>4, <1>5 DEF q, p

\* A feed that begins has its first outputs in the snapshot, and nowhere else.
LEMMA AddTargetPlaced ==
  ASSUME Ledger, bound' = bound, TargetsSound, NEW s \in bound.slots, NEW l \in Listeners, AddTarget(s, l)
  PROVE  Ledger'
<1> DEFINE f == <<s, l>>
           v == [feed |-> f, items |-> recent[s]]
           row == [from |-> printed[s] - Len(recent[s]) + 1, before |-> Len(shown[f])]
           fresh == Quiet(f) /\ l \notin syncs[s]
<1>1. /\ UNCHANGED <<printed, recent, buffers, handing, shown>>
      /\ syncs' = [syncs EXCEPT ![s] = @ \cup {l}]
      /\ sending' = IF recent[s] = <<>> THEN sending ELSE sending \cup {v}
      /\ feeds' = IF fresh THEN Upserted(feeds, f, row) ELSE [g \in DOMAIN feeds \ {f} |-> feeds[g]]
  BY DEF AddTarget
<1>2. FeedsTyped BY DEF Ledger
<1>3. /\ f \in Feeds /\ f[1] = s /\ f[2] = l /\ v \in [feed : Feeds, items : Seq(Nat)] /\ v.feed = f
      /\ v.items = recent[s] /\ shown[f] \in Seq(Nat) /\ Len(shown[f]) \in Nat
      /\ row \in [from : Nat, before : Nat] /\ row.before = Len(shown[f])
      /\ row.from = printed[s] - Len(recent[s]) + 1
  <2>1. f \in Feeds BY DEF Feeds
  <2>2. shown[f] \in Seq(Nat) BY <1>2, <2>1 DEF FeedsTyped
  <2> QED BY <2>1, <2>2, KeptRun, LenProperties
<1>4. Quiet(f) => buffers[f] = <<>> /\ OnTheWay(f) = {} /\ l \notin handing[s].to BY DEF Quiet
<1> HIDE DEF v, row
<1>5. \A g \in DOMAIN feeds' :
        \/ g # f /\ g \in DOMAIN feeds /\ feeds'[g] = feeds[g]
        \/ g = f /\ fresh /\ feeds'[g] = row
  BY <1>1 DEF Upserted
<1>6. FeedsTyped'
  <2>1. sending' \subseteq [feed : Feeds, items : Seq(Nat)] BY <1>1, <1>2, <1>3 DEF FeedsTyped
  <2>2. IsFiniteSet(sending') BY <1>1, <1>2, FS_AddElement DEF FeedsTyped
  <2>3. DOMAIN feeds' \subseteq Feeds BY <1>2, <1>3, <1>5 DEF FeedsTyped
  <2>4. \A g \in DOMAIN feeds' : feeds'[g] \in [from : Nat, before : Nat] BY <1>2, <1>3, <1>5 DEF FeedsTyped
  <2>5. feeds' = [g \in DOMAIN feeds' |-> feeds'[g]] BY <1>1 DEF Upserted
  <2>6. Feeds' = Feeds BY FeedsBound
  <2> QED BY <1>1, <1>2, <2>1, <2>2, <2>3, <2>4, <2>5, <2>6 DEF FeedsTyped
<1>7. \A t \in bound.slots : LastKept(t)' BY <1>1 DEF Ledger, LastKept
<1>8. \A g \in Feeds : syncs[g[1]] \subseteq syncs'[g[1]] /\ l \in syncs'[s]
  BY <1>1, FeedParts DEF TargetsSound
<1>9. ASSUME NEW g \in DOMAIN feeds, g # f, feeds'[g] = feeds[g] PROVE Placed(g)'
  <2>1. Placed(g) /\ g \in Feeds BY <1>2 DEF Ledger, FeedsTyped
  <2>2. OnTheWay(g)' = OnTheWay(g) BY <1>1, <1>3, <1>9 DEF OnTheWay
  <2>3. g[2] \in syncs'[g[1]] BY <1>8, <2>1 DEF Placed
  <2>4. \A i \in Nat : InHand(g, i)' = InHand(g, i) BY <1>1 DEF InHand
  <2> QED BY <1>1, <1>9, <2>1, <2>2, <2>3, <2>4, PlacedKept
<1>10. ASSUME fresh, feeds'[f] = row PROVE Placed(f)'
  <2>1. OnTheWay(f)' = IF recent[s] = <<>> THEN {} ELSE {v} BY <1>1, <1>3, <1>4, <1>10 DEF OnTheWay
  <2>2. SentOn(f)' = <<>>
    <3>1. SentOn(f)' = SubSeq(shown[f], Len(shown[f]) + 1, Len(shown[f])) BY <1>1, <1>3, <1>10 DEF SentOn
    <3> DEFINE n == Len(shown[f])
    <3>2. n \in Nat BY <1>3
    <3> HIDE DEF n
    <3>3. SubSeq(shown[f], n + 1, n) = <<>> BY <3>2, SubSeqEmpty
    <3> QED BY <3>1, <3>3 DEF n
  <2>3. ASSUME NEW i \in Nat
        PROVE  Places(f, i)' = IF i \in row.from..printed[s] THEN 1 ELSE 0
    <3>1. Copies(i, SentOn(f)') = 0 /\ Copies(i, buffers'[f]) = 0 BY <1>1, <1>4, <1>10, <2>2, CopiesOfNone
    <3>2. InHand(f, i)' = 0 BY <1>1, <1>3, <1>4, <1>10 DEF InHand
    <3>3. Going(f, i)' = Copies(i, recent[s])
      <4> DEFINE H == {w \in OnTheWay(f)' : i \in Range(w.items)}
      <4>1. Going(f, i)' = Cardinality(H) BY DEF Going
      <4>2. H = IF i \in Range(recent[s]) THEN {v} ELSE {}
        <5>1. CASE recent[s] = <<>> BY <2>1, <5>1 DEF Range
        <5>2. CASE recent[s] # <<>> BY <1>3, <2>1, <5>2
        <5> QED BY <5>1, <5>2
      <4> HIDE DEF H
      <4>3. Copies(i, recent[s]) = IF i \in Range(recent[s]) THEN 1 ELSE 0 BY KeptRun
      <4> QED BY <4>1, <4>2, <4>3, FS_EmptySet, FS_Singleton
    <3>4. Copies(i, recent[s]) = IF i \in row.from..printed[s] THEN 1 ELSE 0 BY <1>3, KeptRun
    <3>5. Places(f, i)' = Copies(i, SentOn(f)') + Copies(i, buffers'[f]) + Going(f, i)' + InHand(f, i)'
      BY DEF Places
    <3> QED BY <3>1, <3>2, <3>3, <3>4, <3>5
  <2>4. \A w \in OnTheWay(f)', i \in Nat : Copies(i, w.items) <= 1
    <3>1. \A i \in Nat : Copies(i, recent[s]) <= 1
      <4>1. \A i : Copies(i, recent[s]) = IF i \in Range(recent[s]) THEN 1 ELSE 0 BY KeptRun
      <4> QED BY <4>1
    <3>2. \A w \in OnTheWay(f)' : w.items = recent[s] BY <1>3, <2>1
    <3> QED BY <3>1, <3>2
  <2>5. row.before <= Len(shown'[f]) BY <1>1, <1>3
  <2>6. row.from <= printed[s] + 1
    <3> DEFINE n == Len(recent[s])
               p == printed[s]
    <3>1. n \in Nat /\ p \in Nat /\ row.from = p - n + 1 BY <1>3, KeptRun, LenProperties
    <3> HIDE DEF n, p
    <3>2. row.from <= p + 1 BY <3>1
    <3> QED BY <3>2 DEF p
  <2> HIDE DEF f, fresh
  <2> QED BY <1>1, <1>3, <1>8, <1>10, <2>3, <2>4, <2>5, <2>6 DEF Placed
<1>11. \A g \in DOMAIN feeds' : Placed(g)' BY <1>5, <1>9, <1>10
<1> QED BY <1>1, <1>6, <1>7, <1>11 DEF Ledger

\* A step that ends feeds, and what was gathered for them, and nothing else.
LEMMA FeedsEnd ==
  ASSUME Ledger, bound' = bound, UNCHANGED <<printed, handing, sending, shown>>,
         \A s \in bound.slots : recent'[s] = recent[s] \/ recent'[s] = <<>>,
         recent' \in [bound.slots -> Seq(Nat)], buffers' \in [Feeds -> Seq(Nat)],
         DOMAIN feeds' \subseteq DOMAIN feeds, feeds' = [f \in DOMAIN feeds' |-> feeds[f]],
         \A f \in DOMAIN feeds' : buffers'[f] = buffers[f] /\ f[2] \in syncs'[f[1]]
  PROVE  Ledger'
<1>1. FeedsTyped BY DEF Ledger
<1>2. FeedsTyped'
  <2>1. Feeds' = Feeds BY FeedsBound
  <2>2. DOMAIN feeds' \subseteq Feeds BY <1>1 DEF FeedsTyped
  <2>3. \A f \in DOMAIN feeds' : feeds'[f] \in [from : Nat, before : Nat] BY <1>1 DEF FeedsTyped
  <2> QED BY <1>1, <2>1, <2>2, <2>3 DEF FeedsTyped
<1>3. ASSUME NEW s \in bound.slots PROVE LastKept(s)'
  <2>1. CASE recent'[s] = recent[s] BY <2>1 DEF Ledger, LastKept
  <2>2. CASE recent'[s] = <<>> BY <1>1, <2>2 DEF LastKept, FeedsTyped
  <2> QED BY <2>1, <2>2
<1>4. ASSUME NEW f \in DOMAIN feeds' PROVE Placed(f)'
  <2>1. Placed(f) /\ f \in Feeds /\ feeds'[f] = feeds[f] BY <1>1 DEF Ledger, FeedsTyped
  <2>2. OnTheWay(f)' = OnTheWay(f) /\ \A i \in Nat : InHand(f, i)' = InHand(f, i) BY DEF OnTheWay, InHand
  <2> QED BY <2>1, <2>2, PlacedKept
<1> QED BY <1>2, <1>3, <1>4 DEF Ledger

LEMMA RemoveTargetPlaced ==
  ASSUME Ledger, bound' = bound, TargetsSound, NEW s \in bound.slots, NEW l, RemoveTarget(s, l)
  PROVE  Ledger'
<1>1. /\ UNCHANGED <<printed, recent, handing, sending, shown>>
      /\ syncs' = [syncs EXCEPT ![s] = @ \ {l}] /\ buffers' = [buffers EXCEPT ![<<s, l>>] = <<>>]
      /\ feeds' = [g \in DOMAIN feeds \ {<<s, l>>} |-> feeds[g]]
  BY DEF RemoveTarget
<1>2. FeedsTyped BY DEF Ledger
<1>3. recent' \in [bound.slots -> Seq(Nat)] /\ buffers' \in [Feeds -> Seq(Nat)]
  <2>1. <<>> \in Seq(Nat) OBVIOUS
  <2> DEFINE f == <<s, l>>
  <2>2. buffers' = [buffers EXCEPT ![f] = <<>>] BY <1>1
  <2> HIDE DEF f
  <2> QED BY <1>1, <1>2, <2>1, <2>2 DEF FeedsTyped
<1>4. DOMAIN feeds' = DOMAIN feeds \ {<<s, l>>} BY <1>1
<1>5. ASSUME NEW f \in DOMAIN feeds' PROVE buffers'[f] = buffers[f] /\ f[2] \in syncs'[f[1]]
  <2>1. f \in DOMAIN feeds /\ f # <<s, l>> BY <1>4
  <2>2. f \in Feeds /\ f[1] \in bound.slots /\ f = <<f[1], f[2]>> /\ f[2] \in syncs[f[1]]
    BY <1>2, <2>1, FeedParts DEF Ledger, FeedsTyped, Placed
  <2>3. buffers'[f] = buffers[f] BY <1>1, <1>2, <2>1, <2>2 DEF FeedsTyped
  <2>4. f[2] \in syncs'[f[1]]
    <3>1. CASE f[1] = s
      <4>1. f[2] # l BY <2>1, <2>2, <3>1
      <4> QED BY <1>1, <2>2, <3>1, <4>1 DEF TargetsSound
    <3>2. CASE f[1] # s BY <1>1, <2>2, <3>2 DEF TargetsSound
    <3> QED BY <3>1, <3>2
  <2> QED BY <2>3, <2>4
<1> QED BY <1>1, <1>3, <1>4, <1>5, FeedsEnd

LEMMA CloseSyncPlaced ==
  ASSUME Ledger, bound' = bound, TargetsSound, NEW s \in bound.slots, CloseSync(s)
  PROVE  Ledger'
<1>1. /\ UNCHANGED <<printed, handing, sending, shown>>
      /\ recent' = [recent EXCEPT ![s] = <<>>] /\ syncs' = [syncs EXCEPT ![s] = {}]
      /\ buffers' = [f \in Feeds |-> IF f[1] = s THEN <<>> ELSE buffers[f]]
      /\ feeds' = [g \in {f \in DOMAIN feeds : f[1] # s} |-> feeds[g]]
  BY DEF CloseSync
<1>2. FeedsTyped BY DEF Ledger
<1>3. recent' \in [bound.slots -> Seq(Nat)] /\ buffers' \in [Feeds -> Seq(Nat)] BY <1>1, <1>2 DEF FeedsTyped
<1>4. \A t \in bound.slots : recent'[t] = recent[t] \/ recent'[t] = <<>> BY <1>1, <1>2 DEF FeedsTyped
<1>5. DOMAIN feeds' = {f \in DOMAIN feeds : f[1] # s} BY <1>1
<1>6. ASSUME NEW f \in DOMAIN feeds' PROVE buffers'[f] = buffers[f] /\ f[2] \in syncs'[f[1]]
  <2>1. f \in DOMAIN feeds /\ f[1] # s BY <1>5
  <2>2. f \in Feeds /\ f[1] \in bound.slots /\ f[2] \in syncs[f[1]]
    BY <1>2, <2>1, FeedParts DEF Ledger, FeedsTyped, Placed
  <2>3. syncs'[f[1]] = syncs[f[1]] BY <1>1, <2>1, <2>2 DEF TargetsSound
  <2> QED BY <1>1, <2>1, <2>2, <2>3
<1> QED BY <1>1, <1>3, <1>4, <1>5, <1>6, FeedsEnd

LEMMA SyncCrashPlaced ==
  ASSUME Ledger, bound' = bound, SyncCrash
  PROVE  Ledger'
<1>1. /\ recent' = [s \in bound.slots |-> <<>>] /\ buffers' = [f \in Feeds |-> <<>>]
      /\ handing' = [s \in bound.slots |-> [item |-> 0, to |-> {}]]
      /\ sending' = {} /\ feeds' = <<>> /\ printed' = printed /\ shown' = shown
  BY DEF SyncCrash
<1>2. FeedsTyped BY DEF Ledger
<1>3. DOMAIN feeds' = {} BY <1>1
<1>4. FeedsTyped'
  <2>1. Feeds' = Feeds BY FeedsBound
  <2>2. IsFiniteSet(sending') BY <1>1, FS_EmptySet
  <2>3. feeds' \in [DOMAIN feeds' -> [from : Nat, before : Nat]] BY <1>1
  <2> QED BY <1>1, <1>2, <1>3, <2>1, <2>2, <2>3 DEF FeedsTyped
<1>5. \A s \in bound.slots : LastKept(s)' BY <1>1, <1>2 DEF LastKept, FeedsTyped
<1> QED BY <1>3, <1>4, <1>5 DEF Ledger

LEMMA LedgerStep == Sound /\ Ledger /\ [Next]_vars => Ledger'
<1> SUFFICES ASSUME Sound, Ledger, [Next]_vars PROVE Ledger' OBVIOUS
<1>1. TargetsSound /\ online \subseteq bound.slots BY DEF Sound, DirectorySound
<1>2. CASE UNCHANGED vars
  <2>1. UNCHANGED <<bound, syncVars>> BY <1>2 DEF vars, dirVars
  <2> QED BY <2>1, LedgerKept
<1>3. CASE Feeding
  <2>1. bound' = bound BY <1>3 DEF Feeding, dirVars
  <2>2. \/ \E s \in bound.slots : Output(s) \/ \E l \in Listeners : Hand(s, l)
        \/ \E f \in Feeds : Flush(f)
        \/ \E w \in sending : Show(w)
    BY <1>3 DEF Feeding, SyncNext
  <2>3. ASSUME NEW s \in bound.slots, Output(s) PROVE Ledger'
    <3>1. FeedsTyped' /\ \A t \in bound.slots : LastKept(t)' BY <1>1, <2>1, <2>3, OutputKept
    <3>2. \A f \in DOMAIN feeds : Placed(f)' BY <1>1, <2>1, <2>3, OutputPlaced DEF Ledger
    <3>3. feeds' = feeds BY <2>3 DEF Output
    <3> QED BY <2>1, <3>1, <3>2, <3>3 DEF Ledger
  <2> QED BY <2>1, <2>2, <2>3, HandPlaced, FlushPlaced, ShowPlaced
<1>4. ASSUME NEW s \in bound.slots, Disconnect(s) PROVE Ledger'
  <2>1. bound' = bound /\ CloseSync(s) BY <1>4 DEF Disconnect, Leave
  <2> QED BY <1>1, <2>1, CloseSyncPlaced
<1>5. CASE Restart
  <2>1. bound' = bound /\ SyncCrash BY <1>5 DEF Restart, Crash
  <2> QED BY <2>1, SyncCrashPlaced
<1>6. ASSUME NEW m \in bound.inputs, Dispatch(m) PROVE Ledger'
  <2>1. bound' = bound BY <1>6 DEF Dispatch
  <2>2. \/ UNCHANGED syncVars
        \/ \E r \in Handled(m) : r.kind = "sync" /\ (AddTarget(r.slot, r.listener) \/ RemoveTarget(r.slot, r.listener))
    BY <1>6 DEF Dispatch
  <2>3. \A r \in Handled(m) : FitOutcome(r) BY InboxIn, HandledFits DEF Sound
  <2>4. ASSUME NEW s \in online, NEW l \in Listeners, AddTarget(s, l) \/ RemoveTarget(s, l) PROVE Ledger'
    <3>1. s \in bound.slots BY <1>1
    <3> QED BY <1>1, <2>1, <2>4, <3>1, AddTargetPlaced, RemoveTargetPlaced
  <2> QED BY <2>1, <2>2, <2>3, <2>4, LedgerKept DEF FitOutcome
<1>7. CASE Admin \/ Connect \/ Rules \/ (\E s \in bound.slots, c \in bound.says : SessionSends(s, c))
           \/ (\E m \in bound.inputs : Receive(m)) \/ (\E o \in Owners, n \in Names : Assign(o, n))
           \/ (\E q \in flight : Route(q)) \/ (\E d \in given : Reply(d))
  <2>1. UNCHANGED syncVars
    BY <1>7 DEF Admin, Connect, Rules, SessionSends, Receive, Assign, Route, Reply
  <2>2. bound' = bound
    <3>1. CASE Admin
      BY <3>1 DEF Admin, SaveMember, Upsert, DeleteMember, Revoke, Bind, Isolate
    <3>2. CASE Connect BY <3>2 DEF Connect, Join, CleanUp, Register
    <3> QED BY <1>7, <3>1, <3>2 DEF Rules, SessionSends, Receive, Assign, Route, Reply, dirVars
  <2> QED BY <2>1, <2>2, LedgerKept
<1> QED BY <1>2, <1>3, <1>4, <1>5, <1>6, <1>7 DEF Next

\* SyncedOnce: while one #sync is in force, every output from the oldest that
\* was kept on has been sent to its listener once, or is in one place on the way:
\* none falls between the snapshot and what is gathered afterwards.
THEOREM SyncedAlwaysOnce == Spec => []SyncedOnce
<1>1. Init => Ledger BY LedgerStarts
<1>2. Sound /\ Ledger /\ [Next]_vars => Ledger' BY LedgerStep
<1>3. Ledger => SyncedOnce
  <2> SUFFICES ASSUME Ledger, NEW f \in DOMAIN feeds, NEW i \in feeds[f].from..printed[f[1]]
               PROVE  Places(f, i) = 1
    BY DEF SyncedOnce, Places, SentOn, Going, InHand
  <2>1. f[1] \in bound.slots /\ feeds[f].from \in Nat /\ printed[f[1]] \in Nat
    BY FeedParts DEF Ledger, FeedsTyped
  <2>2. i \in Nat BY <2>1
  <2> QED BY <2>2 DEF Ledger, Placed
<1> QED BY <1>1, <1>2, <1>3, SoundAlways, PTL DEF Spec
=============================================================================
