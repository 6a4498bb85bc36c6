------------------------------ MODULE MCRouting -----------------------------
EXTENDS Routing
CONSTANTS o1, o2, p1, p2, g1, b1, svc

\* Two members and their keys; key 3 is bound to a group and to a member.
MCNames == {<<"x">>, <<o1, "x", 1>>, <<o1, "x", 2>>, <<o1, "x">>}
MCRank == (<<o1, "x">> :> 0) @@ (<<o1, "x", 1>> :> 1) @@ (<<o1, "x", 2>> :> 2) @@ (<<"x">> :> 3)
MCOwnerSeq == <<o1, o2>>
MCDisplay == (o1 :> "One") @@ (o2 :> "Two")
MCKeyService == [k \in Keys |-> svc]
Person(p, q) == [active |-> TRUE, open |-> p, quiet |-> q]
Both(q) == (o1 :> Person(p1, q)) @@ (o2 :> Person(p2, FALSE))
Chat(p) == <<b1, p>>
Keyed == (1 :> {Chat(p1)}) @@ (2 :> {Chat(p2)})
Shared == (1 :> {Chat(p1), Chat(g1)}) @@ (2 :> {o1})

\* Rules of two sessions and a service
Rule(i, t, p, sc, c, st) == [id |-> i, target |-> t, patterns |-> p, scope |-> sc, sensitive |-> c, strip |-> st]
Pat == {<<<<"a", "?">>>>, <<<<"A">>>>, <<<<"*", "b">>>>, <<<<"b">>, <<"a", "b">>>>}
MCForms == {Rule(1, <<1, <<"x">>>>, p, Everyone, c, TRUE) : p \in Pat, c \in BOOLEAN}
           \cup {Rule(2, svc, p, sc, c, FALSE) : p \in Pat, c \in BOOLEAN, sc \in {Everyone, {Chat(p1)}}}
MCSamples == UNION {[1..n -> {"a", "A", "b"}] : n \in 0..3}
MCLetters == {"a", "A", "b"}
MCLower == [c \in MCLetters |-> IF c = "A" THEN "a" ELSE c]
\* Two of the rules that overlap match one of the samples.
ASSUME SamplesSuffice ==
  \A f, g \in Forms : Overlap(f, g) => \E s \in Samples : Matches(f, s) /\ Matches(g, s)

Message(c, s, cmd, t) == [chat |-> c, sender |-> s, cmd |-> cmd, text |-> t]
Plain == [kind |-> "say"]
Roster == [kind |-> "roster"]
Select(n) == [kind |-> "select", name |-> n]
Mention(o, n, ops) == [kind |-> "mention", member |-> o, name |-> n, ops |-> ops]
Mirror(on, n) == [kind |-> "mirror", on |-> on, name |-> n]
Sync(on, n, k) == [kind |-> "sync", on |-> on, name |-> n, key |-> k]
Address(s) == [kind |-> "address", to |-> s]

Full1 == <<o1, "x", 1>>
Full2 == <<o1, "x", 2>>
Bare  == <<"x">>
ToName  == {Message(Chat(p1), p1, Select(n), <<>>) : n \in {Bare, <<o1, "x">>}}
           \cup {Message(Chat(g1), p1, Select(Bare), <<>>)}
ToOne   == {Message(Chat(p2), p2, Mention(m, n, FALSE), <<>>) : m \in {o1, "One"}, n \in {Nobody, Full1, Bare}}
           \cup {Message(Chat(g1), p2, Mention(o1, Nobody, FALSE), <<>>)}
ToOps   == {Message(c, s, Mention(o1, Nobody, TRUE), <<>>) : c \in {Chat(p2)}, s \in {p2, Nobody}}
           \cup {Message(Chat(g1), p1, Mention(o1, Nobody, TRUE), <<>>)}
ByText  == {Message(c, p1, Plain, t) : c \in {Chat(p1), Chat(g1)}, t \in {<<"A">>, <<"a", "b">>, <<"b">>}}
Synced  == {Message(Chat(p1), Nobody, Sync(on, Full1, k), <<>>) : on \in BOOLEAN, k \in {Nobody, 1}}
Control == {Message(Chat(p1), p1, Mirror(on, Full1), <<>>) : on \in BOOLEAN}
           \cup {Message(Chat(g1), p1, Mirror(TRUE, Full1), <<>>), Message(Chat(p1), p1, Roster, <<>>),
                 Message(Chat(g1), p2, Sync(TRUE, Full1, Nobody), <<>>), Message(Chat(g1), p2, Plain, <<"b">>)}
MCInputs == ToName \cup ToOne \cup ToOps \cup ByText \cup Synced \cup Control
MCSays == {Select(Bare), Select(<<o1, "x">>), Mention(o1, Nobody, FALSE), Mention("One", Bare, FALSE),
           Address(<<1, Bare>>), Address(<<2, Bare>>)}

None == [members |-> Both(FALSE), owners |-> <<>>, accounts |-> Keyed, slots |-> {}, inputs |-> {}, says |-> {}, work |-> {},
         edits |-> 0, joins |-> 0, crashes |-> 0, msgs |-> 0, sends |-> 0, rules |-> 0, outputs |-> 0]
\* Three sessions of one owner under two keys, with names that can be mistaken.
Named  == [None EXCEPT !.accounts = Shared, !.slots = {<<1, Full1>>, <<2, Full2>>, <<2, Bare>>}, !.joins = 3]
Asked  == [Named EXCEPT !.inputs = ToName, !.msgs = 1, !.crashes = 1]
Rebound == [Named EXCEPT !.inputs = ToName, !.msgs = 1, !.work = {"bind"}, !.edits = 1]
Sent   == [Named EXCEPT !.says = {Select(Bare), Address(<<1, Bare>>)}, !.sends = 1]
\* A person, and a session, of one member writes to another's sessions.
Across == [None EXCEPT !.slots = {<<1, Full1>>, <<2, Bare>>}, !.joins = 2]
Person1(w, q) == [Across EXCEPT !.inputs = ToOne, !.msgs = 1, !.sends = 1, !.work = w, !.edits = 2, !.members = Both(q)]
Crashed == [Across EXCEPT !.slots = @ \cup {<<1, Bare>>}, !.inputs = ToOne, !.msgs = 1, !.crashes = 1, !.joins = 3]
Session1 == [Across EXCEPT !.slots = @ \cup {<<1, Bare>>}, !.joins = 3, !.says = {Mention(o1, Nobody, FALSE), Mention("One", Bare, FALSE)}, !.sends = 2]
Ops    == [None EXCEPT !.accounts = Shared, !.owners = Chat(p2) :> [active |-> TRUE, owner |-> o2], !.slots = {<<1, Full1>>, <<2, Full2>>},
                       !.inputs = ToOps, !.joins = 2, !.msgs = 1, !.sends = 1]
\* Prefix rules and texts; rules alone.
Routes == [None EXCEPT !.accounts = Shared, !.slots = {<<1, Bare>>}, !.inputs = ByText, !.joins = 1, !.msgs = 1, !.rules = 1]
Checks == [None EXCEPT !.accounts = Shared, !.rules = 3]
Feeds1 == [None EXCEPT !.slots = {<<1, Full1>>}, !.inputs = Synced, !.joins = 2, !.msgs = 3, !.outputs = 3]
Others == [None EXCEPT !.slots = {<<1, Full1>>}, !.inputs = Control, !.joins = 2, !.msgs = 1, !.crashes = 1, !.work = {"member", "isolate"}, !.edits = 1]
\* Chats with a bound owner, until their next message
Owned  == [Asked EXCEPT !.accounts = Keyed, !.crashes = 0, !.owners = (Chat(p1) :> [active |-> TRUE, owner |-> o2]) @@ (Chat(p2) :> [active |-> FALSE, owner |-> o1])]
MCBounds == {Asked, Owned, Rebound, Sent, Person1({"member", "isolate"}, FALSE), Person1({"isolate"}, TRUE), Crashed, Session1,
             Ops, Routes, Checks, Feeds1, Others}
MCAnswer == {[Session1 EXCEPT !.says = {Mention(o1, Nobody, FALSE)}, !.joins = 2]}
=============================================================================
