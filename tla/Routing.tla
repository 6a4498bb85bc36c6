------------------------------- MODULE Routing ------------------------------
(***************************************************************************)
(* Where a message goes: what the hub makes of a message from Feishu       *)
(* (dispatchL1), of one a session sends, of a task the language model      *)
(* assigns (L2), and the routing of the envelope that results              *)
(* (RouteEnvelope, internal/m8/hub.go).  Between the choice of a session   *)
(* and the routing, connections come and go and the tables change.         *)
(*                                                                         *)
(* A message is what the parsers of its text make of it; the text itself   *)
(* matters to the prefix rules.  Applications for keys, terminal input and *)
(* the weekly report have their own modules.                               *)
(***************************************************************************)
EXTENDS PrefixRules, FeishuSync

CONSTANTS
  Display,                     \* display names of members
  SecOps, OpsAdmin, OpsOwner,  \* secOpsOwnerKey, secOpsAdminOpenID, secOpsAdminOwnerKey
  Inputs,                      \* messages people may write
  Says                         \* what sessions may send

\* parseSelector, parseMemberMention, parseMirrorCommand, parseSyncCommand
SelectorForm == [kind : {"select"}, name : Names]
MentionForm  == [kind : {"mention"}, member : Owners \cup Range(Display), name : Names \cup {Nobody}, ops : BOOLEAN]
MirrorForm   == [kind : {"mirror"}, on : BOOLEAN, name : Names]
SyncForm     == [kind : {"sync"}, on : BOOLEAN, name : Names, key : Keys \cup {Nobody}]
PlainForm    == [kind : {"say", "roster"}]

ASSUME RoutingAssumption ==
  /\ Display \in [Owners -> Range(Display)]
  /\ \A m \in Inputs :
       /\ m.chat \in Chats /\ m.sender \in OpenIds \cup {Nobody} /\ m.text \in Seq(Letters)
       /\ m.chat[2] \in OpenIds => m.sender \in {m.chat[2], Nobody}
       /\ m.cmd \in SelectorForm \cup MentionForm \cup MirrorForm \cup SyncForm \cup PlainForm
  /\ \A c \in Says : c \in SelectorForm \cup MentionForm \/ (c.kind = "address" /\ c.to \in Slots)
  /\ \A b \in Bounds : b.inputs \subseteq Inputs /\ b.says \subseteq Says

VARIABLES
  inbox,  \* messages taken from Feishu
  tasks,  \* owners whose message is with the language model
  flight, \* envelopes about to be routed: those of one sender in order
  given,  \* deliveries
  outs,   \* messages for Feishu
  lost,   \* answers of sessions to sessions that reached no session
  msgs, sends

routeVars == <<inbox, tasks, flight, given, outs, lost, msgs, sends>>
vars == <<dirVars, ruleVars, syncVars, routeVars>>

Init ==
  /\ DirInit /\ RuleInit /\ SyncInit
  /\ inbox = {} /\ tasks = {} /\ flight = {} /\ given = {} /\ outs = {} /\ lost = {} /\ msgs = 0 /\ sends = 0
----------------------------------------------------------------------------
(* The sender of a message *)

Group(m) == m.chat[2] \in Groups
\* sourceAccount
Source(m) == IF Group(m) /\ m.sender # Nobody THEN <<m.chat[1], m.sender>> ELSE m.chat
Sender(m) == IF m.sender # Nobody THEN m.sender ELSE Source(m)[2]
\* controlOwnerKey: a bound owner counts here even when the row is not active.
ControlOwners(a) ==
  LET mine == {o \in Active : Belongs(a, o)}
  IN IF mine # {} THEN mine
     ELSE IF a \in DOMAIN owners /\ owners[a].owner # Nobody THEN {owners[a].owner} ELSE {Nobody}
\* securityOpsAuthorized
Authorized(m) ==
  \/ Sender(m) = OpsAdmin /\ (m.sender # Nobody \/ ~Group(m))
  \/ OpsOwner \in Active /\ members[OpsOwner].open = Sender(m)
  \/ BoundTo(Source(m)) = OpsOwner
\* resolveMemberByName
Called(n) == Sole({o \in Active : n \in {o, Display[o]}})

\* The envelope of a message for slot s.  annotateSourceContext puts the
\* context of the message into it.  The rest records what the choice rested
\* on: right, that the key was then the sender's, the rule's or the member's
\* in the tables; open, that the member and the session took mentions.
Envelope(m, s, why, owner) ==
  [to |-> s, name |-> Nobody, key |-> s[1], why |-> why, owner |-> owner, by |-> Nobody,
   right |-> CASE why = "own"   -> Source(m) \in accounts[s[1]] \/ OwnerOfKey(s[1]) \in ControlOwners(Source(m))
               [] why = "rule"  -> m.chat \in BoundAccounts(s)
               [] OTHER -> owner = Nobody \/ endpoints[s].owner = owner \/ \E a \in accounts[s[1]] : Belongs(a, owner),
   source |-> [bot |-> m.chat[1], group |-> Group(m), chat |-> m.chat[2], person |-> Source(m)[2], sender |-> m.sender],
   msg |-> m, open |-> why # "cross" \/ (~members[owner].quiet /\ ~NoDirectory(s))]
\* The envelope that session s sends under the name and key given.
SessionEnvelope(s, to, key, why, owner) ==
  [to |-> to, name |-> s[2], key |-> key, why |-> why, owner |-> owner, by |-> s,
   right |-> why = "cross" => \E a \in accounts[key] : Belongs(a, owner),
   source |-> Nobody, msg |-> Nobody,
   open |-> why # "cross" \/ (~members[owner].quiet /\ ~NoDirectory(to))]
----------------------------------------------------------------------------
(* What becomes of a message: each handler gives the possible outcomes,    *)
(* none when the message is not its.                                       *)

Answer   == [kind |-> "answer"]
Send(q)  == [kind |-> "send", queue |-> q]

\* dispatchSecurityOps: to all sessions of that member, in order
SecurityOps(m) ==
  LET to == SessionsOfOwner(SecOps)
  IN IF m.cmd.kind # "mention" THEN {}
     ELSE IF ~m.cmd.ops \/ Called(m.cmd.member) # SecOps THEN {}
     ELSE IF ~Authorized(m) \/ to = {} THEN {Answer}
     ELSE {Send([i \in DOMAIN q |-> Envelope(m, q[i], "ops", SecOps)]) : q \in InOrder(to)}

\* dispatchFeishuSyncCommand
SyncCommand(m) ==
  LET c     == m.cmd
      found == UNION {IF c.key = Nobody
                      THEN {<<k, c.name>> : k \in OwnerSessionKeys(o, c.name, Nobody)}
                      ELSE {s \in {<<c.key, c.name>>} \cap online : OwnerOfKey(c.key) = o} :
                      o \in ControlOwners(Source(m)) \ {Nobody}}
  IN IF c.kind # "sync" THEN {}
     ELSE IF Group(m) \/ found = {} THEN {Answer}
     ELSE {[kind |-> "sync", on |-> c.on, slot |-> s, listener |-> <<m.chat[1], Sender(m)>>] : s \in found}

\* dispatchOnlineRosterCommand
RosterCommand(m) == IF m.cmd.kind = "roster" THEN {Answer} ELSE {}

\* dispatchMirrorCommand: any endpoint of that name, connected or not
MirrorCommand(m) ==
  LET found == {s \in DOMAIN endpoints : s[2] = m.cmd.name /\ Source(m) \in accounts[s[1]]}
  IN IF m.cmd.kind # "mirror" THEN {}
     ELSE IF Group(m) \/ found = {} THEN {Answer}
     ELSE {[kind |-> "mirror", slot |-> ByKey(found), to |-> IF m.cmd.on THEN Source(m) ELSE Nobody]}

\* dispatchSelector: a session of an account in memory, or one of the owner;
\* a name nobody has is left to the handlers that follow.
Selector(m) ==
  LET mine   == KeysInMemory(Source(m), m.cmd.name)
      chosen == {ByShort(o, m.cmd.name, Nobody) : o \in ControlOwners(Source(m))}
  IN IF m.cmd.kind # "select" THEN {}
     ELSE IF mine # {} THEN {Send(<<Envelope(m, <<k, m.cmd.name>>, "own", Nobody)>>) : k \in mine}
     ELSE UNION {IF r = Nobody THEN {}
                 ELSE {IF r = Several THEN Answer ELSE Send(<<Envelope(m, r, "own", Nobody)>>)} : r \in chosen}

\* dispatchMemberMention
MemberMention(m) ==
  LET o == Called(m.cmd.member)
      s == MemberSession(o, m.cmd.name)
  IN IF m.cmd.kind # "mention" THEN {}
     ELSE IF o = Nobody THEN {Answer}
     ELSE IF members[o].quiet THEN {Answer}
     ELSE IF s = Nobody THEN {Answer}
     ELSE {Send(<<Envelope(m, s, "cross", o)>>)}

\* The first prefix rule of the chat that matches: to a session, or to a
\* service that answers (forward).
PrefixRule(m) ==
  LET hits == {i \in RoutesOf(m.chat) : Matches(rules[i], m.text)}
      t    == rules[Min(hits)].target
  IN IF hits = {} THEN {}
     ELSE IF t \in Slots THEN {Send(<<Envelope(m, t, "rule", Nobody)>>)} ELSE {Answer}

\* dispatchDefaultPersonalSession
DefaultSession(m) ==
  LET mine == SessionsOf(Source(m))
  IN IF Group(m) \/ mine = {} THEN {}
     ELSE IF Cardinality(mine) = 1 THEN {Send(<<Envelope(m, s, "own", Nobody)>>) : s \in mine}
     ELSE {Answer}

\* dispatchL1, its rules and the fallback: the first handler that takes it
Handled(m) ==
  LET order == <<SecurityOps(m), SyncCommand(m), RosterCommand(m), MirrorCommand(m), Selector(m),
                 MemberMention(m), PrefixRule(m), DefaultSession(m)>>
      taken == {i \in DOMAIN order : order[i] # {}}
  IN IF taken = {} THEN {} ELSE order[Min(taken)]
\* groupHasExplicitIntent
Explicit(m) ==
  \/ ~Group(m) \/ m.cmd.kind # "say"
  \/ \E i \in RoutesOf(m.chat) : Matches(rules[i], m.text)
----------------------------------------------------------------------------
\* upsertInboundEntity: the row is written without an owner.
Receive(m) ==
  /\ msgs < bound.msgs /\ msgs' = msgs + 1
  /\ inbox' = inbox \cup {m}
  /\ owners' = Upserted(owners, m.chat, [active |-> TRUE, owner |-> Nobody])
  /\ UNCHANGED <<bound, members, accounts, live, saving, edits, conns, ruleVars, syncVars,
                 tasks, flight, given, outs, lost, sends>>
\* SetSessionMirror
Mirrored(s, to) == [endpoints EXCEPT ![s].mirror = to]
\* Dispatch: a message nobody takes goes to the language model, one in a group
\* is ignored.
Dispatch(m) ==
  /\ m \in inbox /\ inbox' = inbox \ {m}
  /\ \/ /\ ~Explicit(m) \/ (Handled(m) = {} /\ Group(m))
        /\ UNCHANGED <<endpoints, syncVars, tasks, flight>>
     \/ /\ Explicit(m) /\ Handled(m) = {} /\ ~Group(m)
        /\ tasks' = tasks \cup (ControlOwners(Source(m)) \ {Nobody})
        /\ UNCHANGED <<endpoints, syncVars, flight>>
     \/ \E r \in IF Explicit(m) THEN Handled(m) ELSE {} :
          \/ r.kind = "answer" /\ UNCHANGED <<endpoints, syncVars, tasks, flight>>
          \/ /\ r.kind = "send" /\ flight' = flight \cup {r.queue}
             /\ UNCHANGED <<endpoints, syncVars, tasks>>
          \/ /\ r.kind = "sync"
             /\ IF r.on THEN AddTarget(r.slot, r.listener) ELSE RemoveTarget(r.slot, r.listener)
             /\ UNCHANGED <<endpoints, tasks, flight>>
          \/ /\ r.kind = "mirror" /\ endpoints' = Mirrored(r.slot, r.to)
             /\ flight' = flight \cup {<<Envelope(m, r.slot, "mirror", Nobody)>>}
             /\ UNCHANGED <<syncVars, tasks>>
  /\ UNCHANGED <<bound, people, online, cache, joining, leaving, joins, crashes, ruleVars,
                 given, outs, lost, msgs, sends>>

\* routeL2Target: the language model names a session of the owner.
Assign(o, n) ==
  LET found == L2Sessions(o, n)
      s     == ByKey(found)
  IN /\ o \in tasks /\ tasks' = tasks \ {o}
     /\ flight' = IF found = {} THEN flight
                  ELSE flight \cup {<<SessionEnvelope(<<s[1], Nobody>>, s, s[1], "l2", o)>>}
     /\ UNCHANGED <<dirVars, ruleVars, syncVars, inbox, given, outs, lost, msgs, sends>>

\* routeSessionSelectorEnvelope: the envelope of a session that names another
\* session or a member.  An envelope to a member is sent in the name of the
\* member's key.
Outgoing(s, c) ==
  LET mine == OwnerOfKey(s[1])
      r    == ByShort(mine, c.name, Nobody)
      o    == Called(c.member)
      t    == MemberSession(o, c.name)
  IN CASE c.kind = "address" -> {SessionEnvelope(s, c.to, s[1], "own", Nobody)}
       [] c.kind = "select"  ->
            IF r = Several THEN {}
            ELSE {SessionEnvelope(s, IF r = Nobody THEN <<s[1], c.name>> ELSE r, s[1], "own", Nobody)}
       [] c.kind = "mention" ->
            IF o = Nobody THEN {}
            ELSE IF members[o].quiet \/ t = Nobody THEN {}
            ELSE {SessionEnvelope(s, t, t[1], "cross", o)}
SessionSends(s, c) ==
  /\ sends < bound.sends /\ sends' = sends + 1
  /\ s \in online
  /\ flight' = flight \cup {<<e>> : e \in Outgoing(s, c)}
  /\ UNCHANGED <<dirVars, ruleVars, syncVars, inbox, tasks, given, outs, lost, msgs>>

\* Mutant: any session of that name when the one addressed is not there.
DestinationsAnyone(e) ==
  IF e.to[1] = e.key /\ e.to \in online THEN {e.to} ELSE {s \in online : s[2] = e.to[2]}
\* The session RouteEnvelope delivers to: the one addressed when it is online
\* under the sender's key, otherwise one of the sender's owner.
Destinations(e) ==
  LET o == OwnerOfKey(e.key)
      r == ByShort(o, e.to[2], e.to[1])
  IN IF e.to[1] = e.key /\ e.to \in online THEN {e.to}
     ELSE IF o = Nobody \/ r = Several THEN {}
     ELSE IF r # Nobody THEN {r}
     ELSE {<<k, e.to[2]>> : k \in OwnerSessionKeys(o, e.to[2], e.to[1])}
\* RouteEnvelope and routeToSession; an error ends the sender's loop.
Route(q) ==
  LET e  == q[1]
      to == Destinations(e)
      rest(s) == IF Len(q) > 1 THEN {Tail(q)} ELSE {}
      gave(s) == [envelope |-> e, slot |-> s, owner |-> OwnerOfKey(s[1]),
                  from |-> IF e.by = Nobody THEN Nobody ELSE OwnerOfKey(e.by[1]), key |-> OwnerOfKey(e.key)]
  IN /\ q \in flight
     /\ \/ /\ to = {} /\ flight' = flight \ {q} /\ given' = given
           /\ lost' = IF e.why = "answer" /\ e.owner \in online THEN lost \cup {e} ELSE lost
        \/ \E s \in to : /\ flight' = (flight \ {q}) \cup rest(s)
                         /\ given' = given \cup {gave(s)}
                         /\ lost' = lost
     /\ UNCHANGED <<dirVars, ruleVars, syncVars, inbox, tasks, outs, msgs, sends>>

\* Mutant: answers always go to the person.
ReplyToPerson(c) == IF c.sender # Nobody THEN c.sender ELSE c.person
\* replySourceAddress: the chat an answer goes to
ReplyTo(c) ==
  IF c.group THEN c.chat ELSE IF c.sender # Nobody THEN c.sender ELSE c.person
\* The helper answers: to the source in the context (routeToFeishu with
\* resolveFeishuBotChannel and ensureReplyMention), otherwise to the sender.
Reply(d) ==
  LET e == d.envelope IN
  /\ d \in given /\ d.slot \in online /\ sends < bound.sends /\ sends' = sends + 1
  /\ e.why \in {"own", "cross", "rule", "ops"}
  /\ IF e.source # Nobody
     THEN /\ outs' = outs \cup {[chat |-> <<e.source.bot, ReplyTo(e.source)>>,
                                 at |-> IF e.source.group THEN e.source.sender ELSE Nobody, msg |-> e.msg]}
          /\ flight' = flight
     ELSE /\ flight' = flight \cup {<<SessionEnvelope(d.slot, <<e.key, e.name>>, d.slot[1], "answer", e.by)>>}
          /\ outs' = outs
  /\ UNCHANGED <<dirVars, ruleVars, syncVars, inbox, tasks, given, lost, msgs>>
----------------------------------------------------------------------------
Admin   == /\ \/ \E p \in OpenIds : SaveMember(p)
              \/ \E w \in saving : Upsert(w)
              \/ \E o \in Owners : DeleteMember(o)
              \/ \E k \in Keys : Revoke(k) \/ \E a \in Accounts : Bind(k, a)
              \/ \E s \in bound.slots : Isolate(s, TRUE) \/ Isolate(s, FALSE)
           /\ UNCHANGED <<ruleVars, syncVars, routeVars>>
Connect == /\ \/ \E s \in bound.slots : Join(s) \/ CleanUp(s)
              \/ \E j \in joining, r \in BOOLEAN : Register(j, r)
           /\ UNCHANGED <<ruleVars, syncVars, routeVars>>
Disconnect(s) == Leave(s) /\ CloseSync(s) /\ UNCHANGED <<ruleVars, routeVars>>
Restart == /\ Crash /\ SyncCrash /\ adding' = {} /\ flight' = {}
           /\ UNCHANGED <<rules, enabled, refused, entries, inbox, tasks, given, outs, lost, msgs, sends>>
Rules   == RuleNext /\ UNCHANGED <<dirVars, syncVars, routeVars>>
Feeding == SyncNext /\ UNCHANGED <<dirVars, ruleVars, routeVars>>

Next ==
  \/ Admin \/ Connect \/ Restart \/ Rules \/ Feeding
  \/ \E s \in bound.slots : Disconnect(s) \/ \E c \in bound.says : SessionSends(s, c)
  \/ \E m \in bound.inputs : Receive(m) \/ Dispatch(m)
  \/ \E o \in Owners, n \in Names : Assign(o, n)
  \/ \E q \in flight : Route(q)
  \/ \E d \in given : Reply(d)

Spec == Init /\ [][Next]_vars
----------------------------------------------------------------------------
TypeOK ==
  /\ members \in [DOMAIN members -> Row] /\ DOMAIN members \subseteq Owners
  /\ owners \in [DOMAIN owners -> ChatRow] /\ DOMAIN owners \subseteq Chats
  /\ live \subseteq Keys /\ accounts \in [Keys -> SUBSET Accounts] /\ cache \in [Keys -> SUBSET Accounts]
  /\ online \subseteq bound.slots /\ leaving \subseteq DOMAIN endpoints
  /\ \A s \in online : cache[s[1]] # {} /\ cache[s[1]] \subseteq accounts[s[1]]
  /\ \A i \in DOMAIN rules : rules[i].id = i /\ rules[i].saw \subseteq DOMAIN rules
  /\ inbox \subseteq bound.inputs /\ tasks \subseteq Owners
  /\ \A q \in flight : q # <<>>
  /\ syncs \in [bound.slots -> SUBSET Listeners] /\ \A s \in bound.slots : syncs[s] # {} => s \in online

\* What is written to one account, owner or member reaches no session of
\* another: the session was theirs by the tables when it was chosen, and one
\* it is passed on to, because the first has gone, has the same owner.  A
\* session of another member is reached by a mention only, of a member and a
\* session that take mentions.
Isolated ==
  \A d \in given :
    LET e == d.envelope IN
    /\ e.right /\ e.open
    /\ d.slot[1] = e.key \/ (d.owner # Nobody /\ d.owner = d.key)
    /\ e.by # Nobody /\ e.why # "cross" => d.slot[1] = e.by[1] \/ (d.owner # Nobody /\ d.owner = d.from)

\* The answer of a session goes to the chat the message came from, through the
\* same bot, whichever of the owner's sessions it reached; in a group it names
\* the person who asked.
ReplyReturns ==
  \A w \in outs : w.chat = w.msg.chat /\ (Group(w.msg) => w.at = w.msg.sender)

\* The directory of an owner, which is made from the accounts in memory, shows
\* the sessions that routing, which asks the database, takes to be the
\* owner's, and is broadcast to him, unless an account was bound since the
\* session connected.
DirectoryAgrees ==
  \A s \in online : Snapshot(s[1]) = accounts[s[1]] =>
    \A o \in Owners :
      s \in Listed(o) <=>
        (OwnerOfKey(s[1]) = o /\ o \in ListedOwners \cap Active /\ ~NoDirectory(s))

\* The answer to a message from a session of another member reaches the
\* session that asked, when it is connected.
AnswerReturns ==
  /\ lost = {}
  /\ \A d \in given : d.envelope.why = "answer" => d.slot = d.envelope.owner
=============================================================================
