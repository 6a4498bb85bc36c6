-------------------------- MODULE KeyApplications --------------------------
(***************************************************************************)
(* People ask for an API key in a chat, an approver approves or rejects it *)
(* (internal/m8/hub.go, key_application in internal/store).  The inbound   *)
(* worker carries out one command at a time; a command that fails, or that *)
(* the process did not survive, is carried out again.  Notices go through  *)
(* the outbound queue; an approval writes the key and the message that     *)
(* grants it in one transaction, while the secret is only in memory.       *)
(***************************************************************************)
EXTENDS MessageBus

CONSTANTS
  Apps,     \* ids of applications
  Others,   \* messages that have nothing to do with applications
  MaxSaid   \* bound: commands that are given

\* Message ids are made from the id of the application.
Ask(a)    == <<"apply-key-review", a>>
Grant(a)  == <<"apply-key-grant", a>>
Refuse(a) == <<"apply-key-reject", a>>

ASSUME ApplicationAssumption ==
  /\ Messages = Others \union UNION {{Ask(a), Grant(a), Refuse(a)} : a \in Apps}
  /\ \A a \in Apps : Grant(a) \notin Others
  /\ MaxSaid \in Nat

VARIABLES
  app,      \* the key_application table
  key,      \* the key of an approved application; its secret has the same number
  made,     \* keys made so far
  inbox,    \* commands the worker has not finished
  work,     \* the command in progress
  said,
  restarted \* history: approved applications whose hub has stopped since

appVars == <<app, key, made, inbox, work, said, restarted>>
vars    == <<busVars, appVars>>

\* A command to apply names no application: its id is made later.
Said  == [what : {"approve", "reject"}, a : Apps] \union {[what |-> "apply", a |-> "new"]}
\* What the handler of the command does next.
Idle  == [step |-> "idle", c |-> [what |-> "apply", a |-> "new"]]
Work  == [step : {"idle", "look", "write"}, c : Said] \union
         [step : {"ask", "refuse"}, c : Said, a : Apps]

Init ==
  /\ BusInit
  /\ app = [a \in Apps |-> "none"]
  /\ key = [a \in Apps |-> Redacted]
  /\ made = 0
  /\ inbox = {} /\ work = Idle /\ said = 0
  /\ restarted = {}

----------------------------------------------------------------------------
\* Other parts of the hub send messages too, some of them again.
Produce(m) ==
  /\ said < MaxSaid /\ said' = said + 1
  /\ Enqueue(m)
  /\ UNCHANGED <<batch, writer, secret, tableVars, sender, sent, endVars, faults, lost, unsure,
                 app, key, made, inbox, work, restarted>>

\* Someone applies, or the approver reviews an application he knows of.
Say(c) ==
  /\ said < MaxSaid /\ said' = said + 1
  /\ hub = "up"
  /\ c \notin inbox
  /\ c.what # "apply" => app[c.a] # "none"
  /\ inbox' = inbox \union {c}
  /\ UNCHANGED <<busVars, app, key, made, work, restarted>>

\* The worker takes a command.
Begin(c) ==
  /\ hub = "up" /\ work.step = "idle"
  /\ c \in inbox
  /\ work' = [step |-> "look", c |-> c]
  /\ UNCHANGED <<busVars, app, key, made, inbox, said, restarted>>

\* The handler returns a reply, which is not modelled, and the command is done.
Finish == /\ work' = Idle
          /\ inbox' = inbox \ {work.c}

\* A statement of the handler fails: the command is tried again.
Retry ==
  /\ hub = "up" /\ work.step \in {"look", "write"}
  /\ Fault
  /\ work' = Idle
  /\ UNCHANGED <<queueVars, tableVars, sender, sent, endVars, accepted, lost, unsure,
                 app, key, made, inbox, said, restarted>>

\* createKeyApplication: a row with a new id, then the notice to the approver.
Create(a) ==
  /\ hub = "up" /\ work.step = "look" /\ work.c.what = "apply"
  /\ app[a] = "none"
  /\ app' = [app EXCEPT ![a] = "pending"]
  /\ work' = [step |-> "ask", c |-> work.c, a |-> a]
  /\ UNCHANGED <<busVars, key, made, inbox, said, restarted>>

\* The new key and the secret that will stand in for the text of its grant.
Remember(a) ==
  /\ made < MaxSecret /\ made' = made + 1
  /\ secret' = [secret EXCEPT ![Grant(a)] = made + 1]

\* A review that makes the key before it looks at the application.
ReviewUnchecked ==
  /\ hub = "up" /\ work.step = "look" /\ work.c.what # "apply"
  /\ work' = [work EXCEPT !.step = "write"]
  /\ IF work.c.what = "approve" THEN Remember(work.c.a)
     ELSE UNCHANGED <<secret, made>>
  /\ UNCHANGED <<chan, batch, writer, tableVars, sender, sent, endVars, faults, accepted, lost, unsure,
                 app, key, inbox, said, restarted>>

\* approveKeyApplication and rejectKeyApplication: only a pending application is
\* reviewed.
Review ==
  /\ hub = "up" /\ work.step = "look" /\ work.c.what # "apply"
  /\ IF app[work.c.a] # "pending" THEN Finish /\ UNCHANGED <<secret, made>>
     ELSE /\ work' = [work EXCEPT !.step = "write"]
          /\ IF work.c.what = "approve" THEN Remember(work.c.a)
             ELSE UNCHANGED <<secret, made>>
          /\ UNCHANGED inbox
  /\ UNCHANGED <<chan, batch, writer, tableVars, sender, sent, endVars, faults, accepted, lost, unsure,
                 app, key, said, restarted>>

\* An approval that leaves its grant to the queue.
ApproveEnqueues ==
  /\ hub = "up" /\ work.step = "write" /\ work.c.what = "approve"
  /\ IF app[work.c.a] # "pending" THEN work' = Idle /\ UNCHANGED <<app, key, inbox, chan, accepted>>
     ELSE /\ app' = [app EXCEPT ![work.c.a] = "approved"]
          /\ key' = [key EXCEPT ![work.c.a] = made]
          /\ Enqueue(Grant(work.c.a))
          /\ Finish
  /\ UNCHANGED <<batch, writer, secret, tableVars, sender, sent, endVars, faults, lost, unsure,
                 made, said, restarted>>

\* ApproveKeyApplicationWithGrant: the decision, the key and the message in one
\* transaction, for an application that is still pending.
Approve ==
  /\ hub = "up" /\ work.step = "write" /\ work.c.what = "approve"
  /\ IF app[work.c.a] # "pending"
     THEN work' = Idle /\ UNCHANGED <<app, key, inbox, table, created>>
     ELSE /\ app' = [app EXCEPT ![work.c.a] = "approved"]
          /\ key' = [key EXCEPT ![work.c.a] = made]
          /\ Written({Grant(work.c.a)})
          /\ Finish
  /\ UNCHANGED <<queueVars, now, sender, sent, endVars, faults, accepted, lost, unsure,
                 made, said, restarted>>

\* RejectKeyApplication, then the notice to the applicant.
Reject ==
  /\ hub = "up" /\ work.step = "write" /\ work.c.what = "reject"
  /\ app' = [app EXCEPT ![work.c.a] = "rejected"]
  /\ work' = [step |-> "refuse", c |-> work.c, a |-> work.c.a]
  /\ UNCHANGED <<busVars, key, made, inbox, said, restarted>>

\* enqueueFeishuText.
Notify ==
  /\ work.step \in {"ask", "refuse"}
  /\ Enqueue(IF work.step = "ask" THEN Ask(work.a) ELSE Refuse(work.a))
  /\ Finish
  /\ UNCHANGED <<batch, writer, secret, tableVars, sender, sent, endVars, faults, lost, unsure,
                 app, key, made, said, restarted>>

\* What the worker was doing ends with the process; its command is recovered.
Halt ==
  /\ Exit
  /\ work' = Idle
  /\ restarted' = restarted \union {a \in Apps : app[a] = "approved"}
  /\ UNCHANGED <<app, key, made, inbox, said>>

Bus ==
  /\ \/ Collect \/ FlushTimer \/ Drain
     \/ Claim \/ Send \/ Ack \/ Fail
     \/ \E m \in Messages : LeaseEnds(m)
     \/ Tick \/ Stop \/ Start
  /\ UNCHANGED appVars

Next ==
  \/ Bus
  \/ Halt
  \/ \E m \in Others : Produce(m)
  \/ \E c \in Said : Say(c) \/ Begin(c)
  \/ \E a \in Apps : Create(a)
  \/ Review
  \/ Approve
  \/ Reject
  \/ Notify
  \/ Retry

Spec     == Init /\ [][Next]_vars
FairSpec == Spec /\ BusFairness

----------------------------------------------------------------------------
TypeOK ==
  /\ BusTypeOK
  /\ app \in [Apps -> {"none", "pending", "approved", "rejected"}]
  /\ key \in [Apps -> Texts] /\ made \in 0..MaxSecret
  /\ inbox \subseteq Said /\ work \in Work
  /\ said \in 0..MaxSaid
  /\ restarted \subseteq Apps

\* A secret that was sent is that of the key that was written for the application:
\* whatever was repeated or failed in between, the applicant can log in with it.
\* The grant goes out without the secret only if the process has stopped since the
\* approval (AsyncDBQueue keeps the text of a message that failed).
SecretWorks == \A i \in DOMAIN sent, a \in Apps : sent[i].m = Grant(a) =>
  IF sent[i].text = Redacted THEN a \in restarted
  ELSE app[a] = "approved" /\ sent[i].text = key[a]

\* An approved applicant hears of it, or the message is given up, through every
\* failure and restart: the decision and the message are one transaction.
ApprovalTold == \A a \in Apps :
  app[a] = "approved" ~> table[Grant(a)].status \in {"done", "dead"}

=============================================================================
