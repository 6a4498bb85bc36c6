----------------------------- MODULE PrefixRules ----------------------------
(***************************************************************************)
(* Prefix routes: patterns and what they match (internal/router), the      *)
(* check that a new rule claims no text another rule of the same account   *)
(* claims (internal/m8), and the table of rules (internal/store).          *)
(*                                                                         *)
(* A text is a sequence of characters, a pattern one that may also hold    *)
(* "?" (no or one character) and "*" (any number of them); a rule has      *)
(* several patterns, of which any may match.                               *)
(***************************************************************************)
EXTENDS Directory, SequencesExt

CONSTANTS
  Services,   \* registered services that answer over a websocket
  KeyService, \* the service an API key was issued to
  Letters, Lower,
  Everyone,   \* the scope of a rule that names no accounts
  Forms,      \* rules the administrator may enter
  Samples     \* texts the rules are compared on

Targets == Slots \cup Services
Anything == "*"
Optional == "?"
Form == [id : Nat, target : Targets, patterns : Seq(Seq(Letters \cup {Anything, Optional})),
         scope : {Everyone} \cup SUBSET Accounts, sensitive : BOOLEAN, strip : BOOLEAN]

ASSUME PrefixAssumption ==
  /\ KeyService \in [Keys -> Services]
  /\ Letters # {} /\ Lower \in [Letters -> Letters] /\ {Anything, Optional} \cap (Letters \cup {Nobody}) = {}
  /\ Forms \subseteq Form
  /\ Samples \subseteq Seq(Letters)

VARIABLES
  rules,    \* routing_rule: the rules by id
  enabled,  \* registered_service: the targets that exist and are enabled
  adding,   \* rules that were checked and are about to be inserted
  refused,  \* the last pair of rules that were found to overlap
  entries   \* forms sent

ruleVars == <<rules, enabled, adding, refused, entries>>
RuleInit ==
  /\ rules = <<>> /\ enabled = Services /\ adding = {} /\ refused = {} /\ entries = 0
----------------------------------------------------------------------------
(* Patterns *)

Folded(s) == [i \in DOMAIN s |-> IF s[i] \in Letters THEN Lower[s[i]] ELSE s[i]]
Read(s, sensitive) == IF sensitive THEN s ELSE Folded(s)

\* matchOnePrefixEnds: where the prefixes of s end that a pattern matches, one
\* character of it after the other; cur holds the ends so far.
Extended(s, cur, c) ==
  CASE c = Optional -> cur \cup {q + 1 : q \in cur \ {Len(s)}}
    [] c = Anything -> IF cur = {} THEN {} ELSE Min(cur)..Len(s)
    [] OTHER        -> {q + 1 : q \in {r \in cur : r < Len(s) /\ s[r + 1] = c}}
EndsBy(p, s) ==
  LET ends[n \in 0..Len(p)] == IF n = 0 THEN {0} ELSE Extended(s, ends[n - 1], p[n])
  IN ends
Ends(p, s) == EndsBy(p, s)[Len(p)]
\* MatchPrefixLen: what the first pattern that matches matches; -1 if none does.
MatchLen(patterns, s, sensitive) ==
  LET ends(i) == Ends(Read(patterns[i], sensitive), Read(s, sensitive))
      hits    == {i \in DOMAIN patterns : ends(i) # {}}
      first   == Min(hits)
  IN IF hits = {} THEN -1
     ELSE IF Anything \in Range(patterns[first]) THEN Min(ends(first)) ELSE Max(ends(first))
Matches(rule, s) == MatchLen(rule.patterns, s, rule.sensitive) >= 0
\* What is left of the text when the rule strips its prefix.
Rest(rule, s) == IF rule.strip THEN SubSeq(s, MatchLen(rule.patterns, s, rule.sensitive) + 1, Len(s)) ELSE s

\* Mutant: "?" and "*" are never empty.
ClosureSelf(p, i) == {i}
\* epsilonClosure: the places reached from i without a character
Closure(p, i) == {j \in i..Len(p) : \A k \in i + 1..j : p[k] \in {Optional, Anything}}
\* transition: the places reached from i by the character c
Step(p, i, c) ==
  IF i = Len(p) THEN {i}
  ELSE IF p[i + 1] = Anything THEN {i}
  ELSE IF p[i + 1] \in {Optional, c} THEN {i + 1} ELSE {}
\* patternAlphabet: the letters of both patterns, and any other
Alphabet(p, q) == (Range(p) \cup Range(q) \cup {Nobody}) \ {Optional, Anything}
\* patternLanguagesOverlap: both patterns, read at once, reach their ends. A pair
\* of places leads to those that one more character leads to in both.
Reached(p, i, c) == UNION {Closure(p, j) : j \in Step(p, i, c)}
Further(p, q, S) ==
  S \cup UNION {Reached(p, s[1], c) \X Reached(q, s[2], c) : s \in S, c \in Alphabet(p, q)}
Pairs(p, q) == (Len(p) + 1) * (Len(q) + 1)
Visited(p, q) ==
  LET visited[n \in 0..Pairs(p, q)] ==
        IF n = 0 THEN Closure(p, 0) \X Closure(q, 0) ELSE Further(p, q, visited[n - 1])
  IN visited
LanguagesOverlap(p, q) == <<Len(p), Len(q)>> \in Visited(p, q)[Pairs(p, q)]
\* Overlaps, with the case that ensureNoPrefixOverlap gives it
Overlap(r1, r2) ==
  LET sensitive == r1.sensitive /\ r2.sensitive
  IN \E i \in DOMAIN r1.patterns, j \in DOMAIN r2.patterns :
       LanguagesOverlap(Read(r1.patterns[i], sensitive), Read(r2.patterns[j], sensitive))
----------------------------------------------------------------------------
(* Rules *)

\* ListServiceBoundAccounts: the accounts of the session's key, or of the
\* service's keys that are not revoked
BoundAccounts(t) ==
  IF t \in Slots THEN accounts[t[1]]
  ELSE UNION {accounts[k] : k \in {l \in live : KeyService[l] = t}}
\* effectiveAccounts
Effective(rule) ==
  IF rule.scope = Everyone THEN BoundAccounts(rule.target) ELSE rule.scope \cap BoundAccounts(rule.target)
\* ListAllPrefixRoutes: the rules of services that are enabled
Routed == {i \in DOMAIN rules : rules[i].target \in enabled}
\* ListPrefixRoutes and routeAllowedForEntity: those an account may use
RoutesOf(a) == {i \in Routed : a \in Effective(rules[i])}

\* manageSession creates the service of the session before the rule.
Registered(t) == IF t \in Slots THEN enabled \cup {t} ELSE enabled
\* AddPrefixRule up to the insertion: validatePrefixRule and ensureNoPrefixOverlap.
\* All rules have the same, empty entity type.
CheckRule(rule) ==
  LET others == {i \in Routed \ {rule.id} : Effective(rule) \cap Effective(rules[i]) # {}}
      clash  == {i \in others : Overlap(rule, rules[i])}
  IN /\ entries < bound.rules /\ entries' = entries + 1
     /\ <<Anything>> \notin Range(rule.patterns) /\ rule.patterns # <<>>
     /\ enabled' = Registered(rule.target)
     /\ IF clash = {}
        THEN /\ adding' = adding \cup {[rule |-> rule, saw |-> others]}
             /\ refused' = refused
        ELSE /\ adding' = adding
             /\ \E i \in clash : refused' = {rule, rules[i]}
     /\ UNCHANGED rules
\* The row of a rule; saw are the rules it was checked against.
Stored(f, saw) ==
  [id |-> f.id, target |-> f.target, patterns |-> f.patterns, scope |-> f.scope,
   sensitive |-> f.sensitive, strip |-> f.strip, saw |-> saw]
\* InsertRoutingRule: an account outside the service's, or an id in use, is an error.
InsertRule(w) ==
  LET fine == /\ w.rule.scope = Everyone \/ w.rule.scope \subseteq BoundAccounts(w.rule.target)
              /\ w.rule.id \notin DOMAIN rules
  IN /\ w \in adding /\ adding' = adding \ {w}
     /\ rules' = IF fine THEN Upserted(rules, w.rule.id, Stored(w.rule, w.saw)) ELSE rules
     /\ UNCHANGED <<enabled, refused, entries>>
\* addRoute and manageSession
DeleteRule(i) ==
  /\ i \in DOMAIN rules /\ entries < bound.rules /\ entries' = entries + 1
  /\ rules' = [j \in DOMAIN rules \ {i} |-> [rules[j] EXCEPT !.saw = @ \ {i}]]
  /\ adding' = {[w EXCEPT !.saw = @ \ {i}] : w \in adding}
  /\ UNCHANGED <<enabled, refused>>
\* upsertService
SwitchService(t, on) ==
  /\ entries < bound.rules /\ entries' = entries + 1
  /\ enabled' = IF on THEN enabled \cup {t} ELSE enabled \ {t}
  /\ enabled' # enabled
  /\ UNCHANGED <<rules, adding, refused>>

RuleNext ==
  \/ \E f \in Forms : CheckRule(f)
  \/ \E w \in adding : InsertRule(w)
  \/ \E i \in DOMAIN rules : DeleteRule(i)
  \/ \E t \in Services : SwitchService(t, TRUE) \/ SwitchService(t, FALSE)
----------------------------------------------------------------------------
\* A new rule that claims a text an existing rule of the account claims is
\* refused, and only such a rule is: two rules one of which was checked
\* against the other share no text, two that were found to overlap do.
\* Rules added at the same time, and accounts bound or services enabled after
\* the check, escape it.
RulesDisjoint ==
  /\ \A i, j \in DOMAIN rules :
       i \in rules[j].saw =>
         \A s \in Samples : ~(Matches(rules[i], s) /\ Matches(rules[j], s))
  /\ refused # {} =>
       \E s \in Samples : \A r \in refused : Matches(r, s)
=============================================================================
