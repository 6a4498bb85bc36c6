# DingWei in TLA+

DingWei connects people in Feishu chats with AI coding sessions that run on
developers' machines. A **hub** (`src/internal`, Go, one process, SQLite)
receives messages, decides what they mean and routes them; a **helper**
(`src/tools/sessionhelper`, Python) beside each session keeps a WebSocket to the
hub and types messages into the session's CLI. This directory models the parts
of the two whose correctness depends on the order of steps: interleavings of
goroutines and threads, connections that break, restarts, retries and timers,
and on tables that are read in one step and used in another.

`PROJECT.json` lists the components, the runs, the source lines of every
definition, the known hazards and the theorems. To check a run or a proof:

    tlc -workers 2 -config SessionDelivery_helper.cfg MCSessionDelivery.tla
    tlapm SessionDelivery_proofs.tla

## 1. Inventory

| Component (source) | State | Operations | What is hard | What makes it correct | Modelled by |
|---|---|---|---|---|---|
| Session delivery, hub side (`m8/hub.go` 3064-3208, `store/sqlite.go` 1291-1413) | table `session_delivery`; per connection: capability, armed timers | route, claim, drain, timers, acks, capability | acks of older connections; single slot with leases; drains on dead connections | processed only if handled; nothing starves; order kept unless disturbed | `SessionDelivery` |
| Session delivery, helper side (`app.py`, `inbox.py`) | durable inbox; loops, one per connection ever made | accept, claim, inject, finish, release, reconnect, recover | loops of lost connections go on; acks lost; restart between inject and finish | typed once per life but for typings the helper itself doubts; two loops never share a delivery | `SessionDelivery` |
| Message table and inbound worker (`store/sqlite.go` 1186-1436, `worker/schedule_worker.go`) | table `message` | enqueue, claim, ack, fail, recover | work repeated after failure or restart | what is repeated has no second effect | `MessageTable`, `ControlTasks`, `MessageBus` |
| Control plane L1/L2 (`m8/hub.go` 234-700, 1144-1500, `store/sqlite.go` 1530-1870) | table `control_task`, remembered envelope ids | accept, rules, claim, triage, dispatch, decompose, aggregate, retry, reap, notify | several L2 workers and read loops on one request; leases; restarts; reaper | carried out once; aggregated when all closed; notices agree with the table | `ControlTasks` |
| Message bus (`internal/bus`, `cmd/workpulse/main.go` 574-609) | channel, batch, sensitive contents in memory | enqueue, flush, dequeue, ack, fail, shutdown | accepted before it is stored; duplicates to Feishu | nothing accepted is lost but by a failed write or an exit; nothing is sent twice without cause | `MessageBus` |
| Key applications (`m8/hub.go` 1990-2200) | table `key_application`, keys, secrets | apply, approve, reject | repeated commands; the secret only in memory | the secret told is that of the key written; an approval is told | `KeyApplications` |
| Session registry (`m8/hub.go` 707-1144) | `sessionClients`, `session_endpoint`, directory timer | handshake, name allocation, replace, clean up, broadcast | check and registration apart; late cleanup | who is served is registered and active; names unique; a device keeps its session | `SessionRegistry` |
| Terminal view and input lock (`m8/terminal.go`) | viewers, writer page, token, cookie | attach, grant, revoke, input, sweep | commands in two steps; cookies that restore | one writer, under the unlock in force | `TerminalInput` |
| Weekly reports (`internal/scheduler`) | report per project and week | draft, edit, approve, veto, publish | cron, administrator and owner at once | a settled report stays settled; the sources that are due are in it; it comes out | `WeeklyReport` |
| Schedule editing, reminders, team schedule, page (`internal/schedule`, `reminder`, `coordination`, `portal`) | rows, pending change, notification log, versions, page cache | preview, confirm, cancel, expire; remind; coordinate, paste; render | a confirmation that fails half way; versions appended by two writers | replaced exactly; reminded once a day; the page is not older than its request | `ScheduleEditing`, `TeamSchedule` |
| Routing, online directory (`m8/hub.go`) | members, accounts, endpoints, connections, accounts in memory | selectors, mentions, security operations, default session, L2 targets, `RouteEnvelope`, replies | choice and delivery apart; tables changed by the administrator; memory and table disagree | what is written to one owner reaches no other; answers return to their chat | `Routing`, `Directory` |
| Prefix rules (`internal/router`, `m8/hub.go` 4420-4560) | `routing_rule`, `registered_service` | match, strip, overlap check, add, delete | patterns with wildcards compared as languages | two rules of an account claim no text both | `PrefixRules` |
| Feishu synchronisation (`m8/hub.go` 2250-2480) | targets, kept outputs, buffers, timers | sync, output, flush, unsync | snapshot and stream overlap; late timers | each output shown once, none after the end | `FeishuSync` |
| Pages: input and unlock v2, page store (`m8/view_input_v2.go`, `view_unlock_v2.go`, `view-service/`) | pages on disk, unlock commands on disk, requests in the hub's memory | unlock, authorize, input, sweep | answers lost between two processes; table of requests that is swept, full or lost | an entry is written once; nobody is told of a success that was none | `ViewPages` |
| Command queue of the helper (`unified_queue.py`, `driver_adapter.py`) | line, current command, confirmed interrupts | enqueue, start, admit, settle, time out, interrupt | results late or missing; interrupt checked before it is written; restart | every command leaves the queue unless the process takes no input; completed means that its own turn ended | `CommandQueue`, `ViewTurns` |
| Driver of `claude` (`claudeDriver.py`) | ledger on disk, active turn, marks of turns | deliver, frames, poll, interrupt | frames do not say which turn they belong to | a text is sent once, whatever restarts | `ClaudeDriver` |
| Evidence, LLM clients, Feishu gateway, pages of the administrator and the portal, provisioning, other drivers, hardening, secrets | none that lasts, or single statements | - | - | - | no (section 7) |

How they interact: Feishu -> bus (inbound) -> worker -> control plane L1 ->
either a reply or `routeToSession` -> session delivery -> helper inbox -> CLI.
What L1 cannot decide waits for the L2 workers, which dispatch instructions to
sessions; the sessions' read loops bring results back. The worker sends its
replies to Feishu directly; notices, grants and what sessions send go through the
bus (outbound). Browsers reach sessions by the terminal
view, or by the view service and the v2 interfaces. Cron starts weekly reports
and reminders; the administrator changes the tables that everything above reads.

## 2. Modules

| Module | Models | Uses |
|---|---|---|
| `DeliveryTable` | table `session_delivery`: pure operators, one per statement | |
| `DeliveryInbox` | the helper's durable inbox with all its operations | |
| `SessionDelivery` | hub + network + helper | the two above |
| `DeliveryPromise` | abstract: a delivery ends once, and is processed only if handled | refined by `SessionDelivery` |
| `MessageTable` | table `message`, one direction: pure operators | |
| `ControlTable` | table `control_task`: pure operators, one per statement | |
| `ControlTasks` | inbound worker, L1, L2 workers and read loops | `MessageTable`, `ControlTable` |
| `MessageBus` | queue, outbound loop, life of the process | `MessageTable` |
| `KeyApplications` | applications, approvals and their grants over the bus | `MessageBus` |
| `SessionRegistry` | handshakes, names, registration, cleanup, directory timer | |
| `TerminalInput` | viewers, unlocks, cookies, sweeps | |
| `WriteRight` | abstract: one writer, by the unlock in force | refined by `TerminalInput` |
| `WeeklyReport` | reports, cron, administrator, owner | |
| `TeamSchedule` | versions of the team schedule, the cached page | |
| `ScheduleEditing` | instructions, confirmations, reminders, risks | `TeamSchedule` |
| `Directory` | members, accounts, endpoints, connections, and every lookup on them | |
| `PrefixRules` | patterns, overlap check, table of rules | `Directory` |
| `FeishuSync` | output of a session sent on to Feishu | `Directory` |
| `Routing` | messages of people and sessions, targets, envelopes, answers | `PrefixRules`, `FeishuSync` |
| `ViewPages` | pages, their unlocks and entries, the hub's table of requests | |
| `CommandQueue` | the helper's queue of commands | |
| `ClaudeDriver` | ledger, driver and the process behind it | `CommandQueue` |
| `ViewTurns` | the worker and its interrupts, from a page to the turn of a CLI | `ViewPages`, `ClaudeDriver` |
| `*_proofs` | inductive invariants, refinements | their module |
| `MC*` | instances for TLC | their module |

An operator whose comment begins with "Mutant", or that says in a phrase what
the code does *not* do ("A table without the unique index"), stands beside the
definition it would replace. It is used by no specification; replacing the
definition by it must break a property, and `PROJECT.json` says which.

### SessionDelivery and the code

`dlv` is the table; the instants in it are ticks left (`Ticked`), the age of
30 minutes a flag (`old`). `conn`, `current`, `cap` and `timers` are the hub's
connections, `sessionClients[key][session]`, `deliveryACK` and the armed
`time.AfterFunc`s. `down`/`up` are the frames of each connection in order; they
are lost with it. `inbox`, `loop`, `recvAck`, `busyAcked` are the helper's.
`injected`, `doubts`, `answered`, `disturbed`, `arrival` are history.

Actions: `Route`, `WorkerAck`, `Redo` (worker); `TimerFires`,
`HandleCapability`, `HandleDeliveryAck` (each with the `Drain` the code runs in
the same call); `Receive`, `SendRecvAck` (`recv_loop`, `accept_delivery`);
`LoopClaim`, `LoopInject`, `LoopRaise`, `LoopNotReady`, `LoopFail`, `LoopRaised`,
`LoopReply`, `LoopFinish`
(`delivery_worker_loop`); `Connect`, `PeerCut`, `HelperLoses`, `HelperEnds`,
`HubLoses`, `HelperRestart`, `HubRestart`, `Tick`, `Age` (environment).

The text of a delivery reaches the CLI when it is typed, and the helper often cannot
tell whether it did. `doubts` counts the typings it did not take for one: `handle`
types up to three times while no turn of the user appears in the transcript
(`cli.py:352`), the Enter after the text may run into its timeout or the reading of
the answer fail (`LoopRaise`), and an answer that cannot be sent ends the turn as if
nothing had been typed (`LoopReply`, then `LoopRaised`). Each of these may be repeated in
the same life of the helper, and `InjectedOncePerLife` says that nothing else is: not a
lost ack, a lease that ended, a second loop or a late frame.

Abstractions. A claim and the write that follows it are one step, and so are an
inbox update and its ack: a crash between the two leaves what losing the frame
leaves. A session without `delivery_ack_v1` gets direct pushes for which no state
is kept; they are not modelled. An exception with an empty text, which `finish`
would take for success, is not modelled either.

### ControlTasks and the code

`msgs` and `ctl` are the tables; `due` are the requests whose `expire_at` has
passed; a lease is none, held or over. `wk` is the inbound worker with its place
in `ProcessOne`/`Dispatch`, `proc` the L2 workers and the read loops with their
place in `processL2Task`, `tryAggregateParent` and `handleControlSubtaskResult`.
`envs` are the envelope ids that `claimEnvelope` remembers in memory. `ran`,
`pushed`, `replied`, `told` are history.

A step is one statement or transaction of the store, one call of the language
model, or one write to a session. What L1 makes of a message (`kind`) and what
the model answers are choices; `Routing` has the handlers of L1 one by one. Which
pending task is claimed first (`ORDER BY priority, created_at`) is a choice too:
no property depends on it. With `StoreFaults` any write may fail; then the code
drops the error, retries the task or leaves it held. A lease is as long as a
request's whole life (both are five minutes by default and the request is
older), so it ends only when the request is due. Notices are enqueued in memory
and do not fail. The worker sends its reply to Feishu itself (`sendReply`), and
the reply and the `AckMessage` after it are two steps: a restart between them
replies twice.

### MessageBus, KeyApplications and the code

`chan`, `batch` and `writer` are `q.ch` and the goroutine `AsyncDBQueue.run`;
`secret` is `q.sensitive`. `table` with `created` is the outbound half of table
`message`: `created_at` has whole seconds (`now`), so `Oldest` orders by second
and then by id (`IdRank`), as `ClaimNextMessage` does. `sender` is
`runOutboundLoop` with its place between claim, `gateway.Send` and `Ack`/`Fail`,
whose errors it ignores. An error of `gateway.Send` may come before or after Feishu
has taken the message; the loop calls `Fail` in both cases. `hub` is the process: `Stop` is the signal, `Exit` the
return of `run`, which waits for the servers only; both are also a crash, since
`Exit` may follow at once. `accepted`, `lost`, `unsure` are history: `unsure`
has the messages that were taken and of which the loop has an error or no record.

`KeyApplications` adds the inbound worker with the commands apply, approve and
reject: `Review` reads the application and makes a key in memory, `Approve` is
`ApproveKeyApplicationWithGrant` (decision, key and message in one transaction),
`Retry` and `Halt` have the command carried out again. The ids of the messages
are made from the application's, which is why repeating them is harmless.

### SessionRegistry and the code

`conn` are the handlers `HandleSessionWS` with their place: name chosen
(`saving`), endpoint saved (`accepting`), registered (`serving`), removed from
the map (`leaving`). `clients` is `h.sessionClients`, `active` the rows of
`session_endpoint`, `timer` and `casts` `scheduleOnlineBroadcast` and its
goroutines, `told` what each session was sent last. A broadcast is a snapshot and
the connections it has yet to write to (`Fire`, `Tell`); each timer has a goroutine
of its own, so that several broadcasts write at the same time, in any order, and
each may fail (`FireFails`) or give up on a connection (`GiveUp`). `told` is `late`
where an older list came after a newer one or the newest was lost. A timer that an
earlier goroutine took out of the map instead of its own is not stopped by the next
change and fires once more; this broadcast, a further snapshot, is left out. `overtaken` is history: the
endpoints that the deferred function of an older connection has marked inactive
although a newer handshake had saved them already.

### TerminalInput and the code

`viewer` is `st.viewers` with codes, `terminal` the writer page, its token and
deadline and the cookie's, `jar` what the browser keeps. Every critical section
of the hub's mutex is one action; the owner's commands are two, since they look
up the code or the sessions first (`LookUpCode`, `NameSession`, `LookUpAll`) and
act afterwards (`Grant`, `Lock`, `LockAll`). `unlocked` and `touched` are history.
`WriteRight` says what the lock promises without tokens, cookies and sweeps; the
mapping takes the unlock in force and the writer page.

### WeeklyReport and the code

`report` is `project_weekly_report`; `job` are the runs that cron and the
administrator start, with the project and the copy they hold; `review` is the
worker with the owner's command. Every store call, call of the model and message
is one step: `TakeNext` reads, `Write` writes the answer of the model over
whatever is there, `Send` and `Mark` publish. `WeekOf` and `ReviewWeek` are the
windows of `weeklyReportWindow` and `aggregateWeeklyReportWindow`; days are
numbered from a Monday. Any other projects may be the sources of an aggregate,
aggregates too, in circles if the administrator says so
(`SetProjectAggregateSources` leaves out the project itself and looks no further).
Not all of them have a report: `Singles` and `Reviewed` are the projects that
`ReportableWeeklyProjects` and `AggregateWeeklyProjects` return, active and with an
owner, and `IsNext` is the order of their ids, in which drafts are made. A draft is
made of the reports that are there (`Reported`) and the rest is named in the prompt as
missing. `Due` are the sources that this order promises.

### ScheduleEditing, TeamSchedule and the code

`rows` is table `schedule`, `pending` table `pending_update` (all of it, so that
a row keeps its place), `worker` the confirmation with the statements still to
run; a change is carried out one statement after the other, and each may fail.
`Added`, `Removed`, `Moved`, `Postponed`, `Replaced` are `ComputeDiff`.
`scan` is `RunOnce` of the reminders between `RecordNotification` and `Enqueue`.
`team` are the versions of the team document; of a version only its protected
blocks and its author are kept. `coord` and `paste` hold what they have read.
`cache` and `view` are `portal.Render`. `run` gives the inbound worker a prefix
dispatcher, and `worker.handle` (`schedule_worker.go:79`) then never reaches the
scheduling commands; the module models the wiring of the end-to-end tests, where
there is none. As deployed, a pending change made by the administrator can
therefore not be confirmed in the chat.

### Routing, Directory, PrefixRules, FeishuSync and the code

`Directory` has the tables `member`, `chat_entity`, `api_key_account`,
`session_endpoint` and the maps `sessionClients` and `keyAccounts`, with one
operator per lookup of the code, named in its comment: which keys, sessions and
owners a name or an account leads to differs from lookup to lookup (memory or
table, active or connected, by account or by owner), and that is what the
properties are about. `PrefixRules` has patterns as sequences of letters and
wildcards; `Ends` and `LanguagesOverlap` are the two algorithms of
`internal/router`. `CheckRule` has no entity types: the two places that make a rule
(`admin.go:1267, 1486`) leave `ScopeEntityType` empty, and an empty one is compared
as equal to any (`hub.go:4473, 4516`). `FeishuSync` numbers the outputs of a session and follows each
one to a listener. In `Routing` a message is what the parsers of its text make of
it (`cmd`) plus the text for the rules; each handler of `dispatchL1` is an
operator that gives its outcomes or none, `Handled` takes the first that has
some. An envelope in `flight` has been chosen and not yet routed: connections,
members and bindings change in between.

### ViewPages, CommandQueue, ClaudeDriver, ViewTurns and the code

`page` is `view_page_sessions` (state, and whether it is disconnected), `order`
is `view_control_commands`, both on the disk of the view service. `try` is
`UnlockViewPage` in the hub: an attempt has a stamp because the payload of the
command names the time at which it was made (`view_unlock_v2.go:78`). `reply` is
`viewV2Requests`; `call` are POSTs of `/input` with their place between
`authorize_page`, `reserveViewV2Request`, `routeViewServiceInput`,
`completeViewV2Request` and the answer. What was lost on the way is `AskFailed`,
`AnswerLost`, `LineLost`. `handed`, `told`, `forgotten`, `opened` are history.

`pending`, `current`, `command`, `turnOf` are the queue. `work` is
`_command_worker` with its place in `_deliver_command` and `_settle_command` and
the receipt it holds. `ledger` is `_DeliveryStore`; `active` and `marks` are
`_active` with its events; `stdin` and `stdout` are the pipes. The process (`Cli*`)
reads, acknowledges, answers, stops, gets stuck or dies when it likes, and its frames carry the
turn only for the properties: `HandleFrame` takes each for the active turn, as
`_handle_frame` does. `intr` are threads in `interrupt_delivery`, which compares
with the active turn under one lock (`Checks`) and writes under another
(`Signals`). Whoever writes waits until the pipe takes it (`Takes`): a stuck process
holds up the worker and the interrupts, with the locks they hold, until it ends. A poll is two steps, since it reads the marks one after the other. `fed`,
`refused`, `answered`, `stopped`, `overrun`, `misfired` are history: `overrun`
says that a text was sent while something of the turn before could still come.

## 3. What TLC checks

| Run | Question | Properties |
|---|---|---|
| `delivery_helper` | the helper under broken connections, leftover loops, CLI faults, ageing and restarts of both sides | `InjectedOncePerLife`, `ProcessedWasHandled` |
| `delivery_live` | one connection that holds, a small inbox, a CLI that may hang; and the refinement | `EndsOrExhausted`, `NeverStarved`, `FifoUnlessDisturbed`, `KeepsPromise` |
| `delivery_ends` | does an expired delivery die? | `ExpiredEnds`: violated, see section 4 |
| `control_tasks` | two L2 workers and a read loop, failing statements | `ExecutedOnce`, `InstructedOncePerLife`, `NoEarlyOverlap`, `NoticeMatchesTable` |
| `control_ends` | one L2 worker and a restart | `PendingEnds`, `AggregationEnds` |
| `terminal_lock` | two viewers, two unlocks, deadlines, reloads, sweeps | `OneUnlock`, `IdleLocks`, `KeepsRight` |
| `registry_names` | three handshakes of two keys and two devices for one name, a restart, a failing step, two broadcasts at a time | `ServedIsReachable`, `NamesUniqueUnlessOvertaken`, `DeviceKeeps`, `DirectoryCurrent` |
| `bus_keys` | an application and other messages, a failure and a stop | `NothingVanishes`, `SentOnceUnlessUnsure`, `SecretWorks`, `ApprovalTold` |
| `weekly` | Saturday to Tuesday: two nested aggregates, cron, a job of the administrator, a command, a failure | `SourcesIncluded`, `SettledUntilRedrafted`, `DuePublished` |
| `schedule` | confirmations with failures; reminders; versions; page | `RemindedOnce`, `PageFresh`, `ReplacedExactly` |
| `routing` | every handler with edits, connections and a crash in between | `Isolated`, `ReplyReturns`, `DirectoryAgrees`, `RulesDisjoint`, `SyncedOnce`, `SyncStops` |
| `turns` | a page with two unlocks and repeated entries; two commands, interrupts, late results, a process that gets stuck or ends, a restart | `HandedOnce`, `HonestAnswers`, `CompletedHasEnded`, `SubmittedOnce`, `QueueDrains` |

Type invariants and `LoopsExclusive` are in no run: those of `SessionDelivery`,
`ControlTasks`, `TerminalInput`, `SessionRegistry`, `KeyApplications` (with the
bus), `WeeklyReport`, `TeamSchedule`, `Routing` and the three modules under `ViewTurns`
are part of what is proved (section 5). `TypeOK` of `ScheduleEditing` and of
`ViewTurns` hold on the instances of their runs; a cfg takes them as one more INVARIANT.

### Bounds

*Deliveries.* One delivery shows everything that concerns a delivery and its
loops; two are needed for the slot and the sweep, three for order and starvation
with an inbox of one place. Two connections give one leftover loop and one new
one, and the pairwise property needs no more. Delays keep their order, not their
length: one or two ticks, so that they interleave with everything else. In
`delivery_helper` the helper waits for the CLI's answer (`Replies`), as by default, and a
delivery is typed at most twice (`MaxInject`; three times in one `handle` in the
code): one typing that counts and one in doubt. Its `VIEW` leaves out the history of disturbed
pushes, which no action and no property of the run reads. The theorems have neither bound.

*Control tasks.* One request suffices: the tables have no statement that relates
two requests except the reaper, which looks at each by itself; two subtasks are
the least for which "all closed" differs from "one closed". Two L2 workers are
the least that can overlap. `MaxTaken` bounds how often a message that stayed in
`processing` is taken, `MaxAttempts` and `FailLimit` are parameters of the
program (3) made smaller. `control_tasks` treats the two L2 workers as symmetric;
runs with liveness use no symmetry. Restarts are in `control_ends` because both
together exceed what TLC does in a few minutes; the theorems have no such limit.

*Bus.* A batch of two and a channel of two: both can be full, and a batch can be
written by its size, by its timer and at the end. Three commands are the least
for an approval that is repeated. The application and another message may be of
one second.

*Registry.* Three connections are the least for a connection that is replaced
while a third takes its name; two keys are needed for a suffix, two devices for
the device check. Two broadcasts at a time (`MaxCast`): the second may overtake the
first on each connection, and a connection is late or it is not. A name is tried `MaxTry` = 2 times with
suffixes, 100 times in the code: one retry that finds its suffix free and one that
gives up are all the cases there are.

*Terminal.* Two viewers at a time, one of them perhaps a proxy; the right lasts
two ticks, the grace one, the clock three: every deadline can pass and every
order of a deadline and a command occurs. Sessions share nothing but the code
lookup, so one is enough for the run; the theorems have any number.

*Weekly.* The fourth day of the bound is the Tuesday on which Monday's review
week is over. One job of the administrator besides cron is the least that
overlaps. Projects 2 and 3 are sources of each other, 1 is single and 4 has no
owner: 3 has sources of every kind, and the order of ids decides for 2 and 3. One
command in all is enough for each kind of command at each step of both jobs, and
`Repeat` gives it twice; two commands one after the other are left to the theorems.

*Schedule and routing* are checked as sets of instances: `bound` is chosen by
`Init` from `Bounds` and never changes, and each instance has the tables,
messages and counts for one question (`MCScheduleEditing`, `MCRouting`). One run
then covers questions whose product would be too large, and each instance is
complete for what it contains. In `MCRouting`: three sessions of one owner under
two keys whose names can be mistaken for one another (`Asked`, `Rebound`, `Sent`,
`Owned`); one member's messages to another's sessions with opt-outs, isolated
sessions and a crash (`Person1`, `Crashed`, `Session1`); security operations
(`Ops`); rules with texts, and rules alone (`Routes`, `Checks`); a listener with
three outputs, kept two (`Feeds1`); mirrors, rosters and edits of members
(`Others`). Patterns and texts of up to three letters over `a`, `A`, `b` contain
every pair of a wildcard with a letter, itself and the end.

*Turns* too is a set of instances (`MCBounds`): a page with an entry that is
repeated, with an unlock that is repeated, with a forgotten request or a restart of
the hub; a command with a restart, a process that ends or gets stuck and an
interrupt, as many as may change its turn more than once; two commands with an
interrupt or with a process that gets stuck and ends, the least for a frame that is taken for another turn. In the
instances that ask about repetition the line is blank, which the helper drops, so that
pages and commands multiply in one instance only. Two calls are the least that
meet in the table of requests.

Deadlock is checked in `terminal_lock`, where the clock and pages never end. All
other configurations set `CHECK_DEADLOCK FALSE`: when every bound is used up and
every delivery, request or command has ended, the system rests.

### Fairness

`HubFairness`: goroutines and `time.AfterFunc` timers run, the clock goes on, and
the hub's pings notice a dead connection (75 s). `HelperFairness`: the reconnect
loop runs, `recv_loop` handles what it has received, the helper's pings notice a
dead connection (20 s) while it still reads. `CliFairness`: the delivery loops
run and a CLI that is idle again and again is at some time found idle (strong
fairness: the loop polls it). `delivery_live` does without `CliFairness`: a
hanging CLI is no excuse there. `Fairness` of the control plane: the worker and
the L2 goroutines run, a call of the model ends (its context has a timeout), time
passes. `control_ends` has no failing statements, since a store that fails for
ever keeps any task for ever. `BusFairness`: writer and sender run, leases end,
and the service manager starts a process that has ended; nothing is assumed of
the worker, so `ApprovalTold` is about what an approval has already written.
`Fairness` of the registry: handlers run, timers fire, goroutines write.
`FairSpec` of the weekly reports: cron starts what is due, jobs and the worker go
on, days pass. `FairSpec` of the turns: the worker's thread, its waits
(`PREV_TURN_WAIT`, `TURN_ACCEPT_TIMEOUT`, `_terminal_timeout`) and the thread that
reads frames; nothing of the process, which may be silent or stuck for ever. The write
to its pipe has no limit and is not assumed to return: `QueueDrains` says that the
queue goes on unless the worker is in that write (`Blocked`). No fairness is assumed of people, of sessions' answers, of
restarts or of errors.

## 4. Where code and documents differ

`delivery_ends` (the finding in `PROJECT.json`): the sweep that marks exhausted
deliveries dead (`sqlite.go:1361`) is in the transaction that is rolled back when
nothing can be claimed; the last delivery of a session never dies.

The following were met while modelling. Each is a property in its module that
states what the quoted line says. TLC shows the code's behaviour with the cfg named,
or with the cfg of a run (*run*) when its properties are replaced by this one; none
is among the runs.

| cfg | Property | The code | What says otherwise |
|---|---|---|---|
| `SessionDelivery_reconnect` | `ReachesHelper` | a timer of a lost connection claims, cannot write and arms nothing; the new connection's drain found the slot held (`hub.go:3190`) | comment `sqlite.go:1349` |
| `SessionDelivery_quiet` | `HelperReconnects` | after a normal close `recv_loop` returns and `gather` waits for the other loops (`app.py:279`) | `sessionhelper/README.md:26` |
| `ControlTasks_silent` | `SilencedStaysSilent` | the reaper does not spare ignored tasks (`sqlite.go:1606`) | `hub_test.go:5121` |
| *control_ends*, `MaxRestart = 0`, `Kinds = {"command"}` | `DueEnds` | the reaper runs only with the next message; a task that failed in L1 is queued where nothing takes it (`hub.go:1150`) | `docs/DingWei总控路由架构规格-v0.1.md:82, 159, 160` |
| `SessionRegistry_online` | `FalseOnlineEnds` | an endpoint is saved before the connection is accepted, and nothing resets the table when the hub starts (`hub.go:788`) | `docs/产品规范.md:569` |
| *bus_keys* | `SentInOrder` | two messages of one second are ordered by random ids (`sqlite.go:1257`) | `bus.go:14` |
| *weekly* | `VetoHolds` | the publisher decides on the row it has read (`scheduler.go:730`) | `docs/产品规范.md:313` |
| *weekly* | `AllSourcesIncluded` | a draft is made without a source that has no owner or is an aggregate with a later id (`scheduler.go:541`, `sqlite.go:928`) | `docs/产品规范.md:283, 309` |
| *schedule*, `Bounds <- MCPostpone` | `PostponedKept` | an item moved onto the day of the next one is merged into its row, which is then deleted (`diff.go:38`) | `docs/产品规范.md:183` |
| *routing*, `Bounds <- MCAnswer` | `AnswerReturns` | a question to another member's session carries that member's key in its address, so the answer is looked for among the wrong sessions (`hub.go:2862`) | `docs/产品规范.md:624, 633` |
| `ViewTurns_again` | `NoSecondTurn` | a retried entry is a new line of the terminal and gets a new delivery id, so that the helper's ledger does not know it (`driver_adapter.py`, `write_terminal_input`) | comment `view_input_v2.go:125` |
| *turns* | `RetriedUnlockAgrees` | a repeated `#unlock` has another payload, so that an unlock which was carried out is told as a conflict (`view_unlock_v2.go:78`) | `docs/view-service-page-unlock-architecture-spec.md:139, 220` |
| *turns* | `InterruptHitsItsTurn` | the turn is compared under one lock and the interrupt written under another, so that it can stop the next turn (`claudeDriver.py:400`) | `docs/view-unified-queue-interrupt-spec.md:477` |
| *turns* | `StoppedNotCompleted` | a poll that looks for the interruption before the frame and for the end of the turn after it finds the turn done (`claudeDriver.py:332, 336`) | `docs/view-unified-queue-interrupt-spec.md:263` |

Other behaviours that the models have, that a property names as its exception,
and that a maintainer should know:

- a delivery that was typed may be typed again in the same life of the helper: the
  loop cannot tell an exception after the typing (a timeout of the Enter, an
  answer that cannot be sent, `app.py:428`) from one before it, although
  `docs/设计-会话间消息统一投递.md:266` says 同一 `delivery_id` 重复到达，不重复注入
  (`doubts` in `InjectedOncePerLife`);
- two broadcasts of the online directory may overlap (a timer fires after 2.5 s,
  and its goroutine may write for 5 s, `hub.go:3448`), so that the older list may be
  told last and stays until the next change; it stays too where the newest could not
  be written (`late` in `DirectoryCurrent`; `DirectoryInOrder`, without the exception,
  is violated with the cfg of *registry_names*);
- a message that Feishu took is sent again when `Send` returned an error all the same
  (a time-out after the delivery, an answer without `message_id`, `feishu.go:254,
  264`), or when its acknowledgement was not recorded (`main.go:595, 599`; `unsure` in
  `SentOnceUnlessUnsure`);
- aggregates may be sources of each other, in circles too: the check that
  `docs/产品规范.md:283` names (嵌套 + 循环检测) is not made (`sqlite.go:879`), and a draft
  that comes first by its id lacks the others, or has those of an earlier run (`Due` in
  `SourcesIncluded`);
- a process that does not read its stdin blocks the helper: the write of `deliver` and
  that of an interrupt have no limit and hold `_turn_lock` and `_write_lock`
  (`claudeDriver.py:297, 405`), and the terminal timeout is only looked at by the
  thread that is blocked (`Blocked` in `QueueDrains`);
- accounts bound by the administrator do not reach the accounts in memory of keys
  that are connected: the online directory lacks what routing finds
  (`DirectoryAgrees` speaks of keys without such a change);
- endpoints stay active after a restart of the hub, so that a mention may choose
  a session that is not connected; `RouteEnvelope` then passes the message on to
  another session of the owner, by its alias, whether or not that one is
  isolated from the directory;
- when several sessions match, `resolveOwnerSessionByShort` with a hinted key
  takes the first of the aliases instead of asking, and a name of another key's
  session is found before the suffixed name that was meant;
- rules that are added at the same time are not checked against each other, nor
  are rules again when an account is bound or a service enabled later
  (`RulesDisjoint` speaks of pairs of which one saw the other);
- `#name text` with a name nobody has falls through to the default session;
- an owner in `chat_entity` counts for control commands even when its row is not
  active, and the next message of a chat clears it; saving a member in the
  administrator's form clears his opt-out; a revoked key keeps its connections;
- a version of the team schedule that the coordinator writes supersedes blocks
  that were pasted while the model was at work (`scheduler.go:346`);
- the secret of a grant that is sent after a restart is the redacted text
  (`async_dbqueue.go:140`; `SecretWorks` names the case), and a batch that cannot
  be written is dropped (`:202`);
- a reminder that was recorded and could not be enqueued is not sent that day
  (`reminder.go:74`).

## 5. What is proved

For every number of deliveries, connections, restarts, workers, requests and
viewers, and every value of the delays and limits that the ASSUMEs allow:

`SessionDelivery_proofs`: `ConsistentAlways` is the inductive invariant. By
itself `ProcessedWasHandled` is not inductive: an ack on its way must speak the
truth (`AcksTruthful`), the inbox must be `processed` only after the CLI got the
text (`HandledFirst`), a loop must hold what the inbox says is being processed
(`LoopsHold`) and hold it alone (`LoopsExclusive`), and what travels must be known
to the hub (`KnownToHub`). What may still be typed has not been typed in this
life but in doubt (`InjectionBounded`). From it follow
`TypesAlways`, `ProcessedAlwaysHandled`, `LoopsAlwaysExclusive`,
`InjectedAtMostOnce` and `PromiseKept`: each step, under the mapping of the table
to outcomes, is a step of `DeliveryPromise` or a stutter. `FifoAlways` has an
invariant of its own, `InOrder`, which says where every delivery is: what was ever
sent has arrived, was disturbed or is on its way, and on its way it is behind all
older ones that may still come; one that must wait before it was ever sent has
arrived.
Frames travel on the helper's connection only, and a busy or delivered ack is of
what has arrived, so that no ack puts off a delivery that is still to come.

`ControlTasks_proofs`: `OrderlyAlways`. `ExecutedOnce` needs that a request has its
row before L1 runs it (`Started`); `InstructedOncePerLife` that a push leaves its id
in memory (`Remembered`); `AggregatesClosed` that subtasks exist once a request
awaits them (`HaveKids`). `NoEarlyOverlap` and `NoticeMatchesTable` hold together
(`Held`): before a request is due, whoever works on it finds the row as it left it,
because claims look at status and lease and no lease ends before that. Both end
when the request is due, and there the code really allows an overlap: the closing
statements do not look at the status.

`Sessions_proofs`, its first part about the terminal: `LockedAlways`, for any number of viewers, sessions and
pages and any length of the right, the grace and the cookie. `OneUnlock` says that a token and a
cookie that both still count come from one unlock; it is inductive with the types
and `CookieOfUnlock`, because a grant replaces both under the mutex and every
command that takes the token away takes the cookie with it, while a sweep may
leave the cookie behind. From it `RightKept`: every step is, under the mapping to
the unlock in force and the writer page, a step of `WriteRight` or a stutter. So
nobody writes but the page that was unlocked or the one that its cookie restored,
whichever of the two steps of a command came late.
`IdleAlwaysLocks` adds that no deadline, of the right or of the cookie, lies
further ahead than one lifetime after the last interaction (`InTime`).

Its second part is about the registry: `ReachableAlways`, for any number of keys, devices,
connections, names and tries. `ServedIsReachable` is not inductive: the cleanup of
an old connection writes after it has left the critical section, so the invariant
says that the map names only connections that are served under their own slot
(`MapServes`), and that a connection which has saved its endpoint and is not yet
registered finds it active or was overtaken by such a cleanup (`SavedFirst`). Names
are then unique by the index on active endpoints. `DeviceKept` is about each step:
whoever replaces a live connection passed the device check in the critical
section that replaces it, whatever the check before the upgrade had read.

`KeyApplications_proofs`, the bus and the applications together: `SoundAlways`. A
message that the sender holds has been claimed and nobody else may take it
(`Holding`); what has been sent is done, held, or unsure (`SentRecorded`), which
gives `SentOnceUnlessUnsure`. For `SecretWorks` the invariant follows the secret:
a message with a grant exists only for an approved application (`GrantsApproved`), a
review about to write is of a pending application and has the key it made last in
memory (`ReviewHolds`), the secret stays there until the grant has
been sent or the process stops (`SecretKept`), and what the sender has picked up is
right (`SenderRight`).

`WeeklyReport_proofs`, for any number of projects, jobs, commands, failures and
days: `SensibleAlways` says that a job holds only copies that were neither vetoed
nor published when it read them, and a publisher only aggregate projects. A step
that writes or sends a settled row therefore needs somebody who holds an older
copy of it, which is `SettledStays`. `SourcesIncluded` follows the calendar
(`Timely`): when Saturday's entry has run every single project has its report
(`SaturdayReports`, `SourcesReported`); a run of drafts has made, or found, those of
the aggregates it is past, which are all that have smaller ids (`DraftsInOrder`), so
that what it writes has all sources that are due (`FreshWrites`, `Whole`); when
Sunday's has run each aggregate row is such a draft (`SundayDrafts`), or its owner is
publishing an older copy of it, and what Monday's publisher reads, and what the
owner then writes back, includes them (`MondayReports`, `MondayCopies`,
`MondayReview`). It assumes that no week begins between its Saturday and its
Monday (`FirstDay % 7 \in 1..5`: on a Sunday the reports of Saturday would be
missing), and, like the property, that nothing fails.

`ScheduleEditing_proofs`, for any schedule, any number of edits, versions, viewers
and failures: `AlwaysRemindedOnce` needs that what a scan holds is in the log and
was not yet enqueued (`HeldIsNew`), so that enqueueing adds one copy of each; it
holds because the log is written first and the scan goes on with what was new in
it. `PageAlwaysFresh` needs that a viewer who is about to store a page read its
signature before he made the page, and that versions are only added
(`PagesRight`). `TeamAlwaysTyped` is the type invariant of the versions, the page
and its cache. `AlwaysReplacedExactly` is about a confirmation
that is carried out statement by statement while other steps go on. Its invariant
`EditRight` says that an owner has at most one update under way; that a replacement
that was computed and not begun still deletes every row of its owner that it does
not put back, because nothing else changes those rows until it is confirmed
(`PendingRight`); and that the rest of one that is being carried out deletes before
it inserts and, taken together with the rows as they are, ends in the listed items
(`WorkerRight`). After its last statement the rows are then exactly those. The
listings are modelled as any sequence that holds each row of a set once (`List`), so
the proof needs no induction over what a sort computes.

`ViewTurns_proofs`, for any number of pages, calls, requests, commands, interrupters
and restarts. The pages and the queue share only the line and the texts, and the
invariant has a part for each. `ViewSound`: between reservation and write a call is a
promise to write, so `HandedOnce` becomes inductive when the calls that are about
to write are counted with what was written (`WritesReserved`: writes and `Writers`
together are at most the `Reservations` made); `HonestAnswers` needs that every
success on its way, in a call, a command or a table, was one (`SuccessWasHanded`,
`CommandsNamePages`). `TurnsSound`: what the worker is about to send was booked first
and is not counted yet (`Due`), and what the ledger knows stays known until it is
put down as failed (`Noted`), which is `SubmittedOnce`, whatever step a restart
comes after. It does so at the cost of a text that was booked and not sent: after
a restart the ledger knows it, and nobody sends it.
`CompletedHasEnded` is about frames that do not name the text they answer, so its
invariant `EndedSound` is about both pipes. While nothing was overrun at most one
text is to be answered, that of the active turn, and it is in one of three places:
on its way to the process, read, or its result on its way back (`OneDue`). What the
result pipe, the marks, the ledger, the receipt and the queue say has ended has then
ended (`EndsTrue`), and ledger, active turn, receipt and command agree on the turn
they speak of (`ActiveAgrees`, `ReceiptAgrees`).

`Routing_proofs`, for any members, keys, sessions, messages, rules, edits and
connections. The invariant `Sound` has four parts. `DirectorySound`: the accounts of
a key grow only, so what is in memory of it is part of what is in the table, and
`DirectoryAlwaysAgrees` is then about the lookups alone, which take the first of
several owners by the same order in memory and in the table (`OwnersAgree`).
`RoutesSound`: every envelope under way fits (`Fit`), that is, it rests on the
grounds it was chosen on, carries the source of its message, and names its sender
by the sender's own key unless it is a mention; and what was delivered went to the key
in the envelope or to a session of the same owner (`OfOwner`). One lemma for
each handler shows that its outcomes fit (`HandledFits`), one for each step
that the envelopes under way stay so. From it follow `AlwaysIsolated` and
`RepliesReturn`. `TargetsSound`: only sessions that are connected have listeners,
which gives `SyncAlwaysStops`. `SyncedAlwaysOnce` needs an account of all outputs,
`Ledger`: for a feed in force every output from its first on is in exactly one
of four places, sent, gathered, in a message on its way or in the reader's hand
(`Placed`), and every other in none; a message never repeats an output; and what a
session keeps is a run that ends with its last output (`LastKept`). So a flush
never makes a message equal to one on its way, which a set could not hold twice. The lemmas on
`Copies` say how often an output is in a sequence that grows or is joined.
`RoutingTypesAlways` is the type invariant.

The rules rest on a fact about the code's algorithm, `OverlapsExactly`: two rules are
found to overlap when some text, of any length, is matched by both, and only then,
whatever case each respects. The argument goes through cuts (`Cut`): a pattern
matches a prefix when the prefix can be cut into parts that its characters match, and
`EndsBy`, which keeps all ends of such prefixes at once, computes just that
(`EndsCut`, `CutEnds`). While two patterns read one text letter by letter each is at
a place that its cut gives (`At`), one more letter leads from place to place
(`ReadOn`; a letter that neither pattern has is read like "any other"), and so every
pair of places they come to is visited (`OverlapFound`). The loop ends with all of
them because there are no more pairs than rounds (`Saturated`). In the other
direction a visited pair has a text that leads there (`Stands`, `OverlapShared`). If
case was ignored in the comparison, a letter is put back that the rule which respects
case asks for (`SharedFolded`). These are inductions over the pattern and over the
text, done with `UpTo` (what holds at 0 and is kept by each step holds up to N, from
the least counterexample) and `Iterated` (a function that is defined by iterating
exists), which need no operator as a parameter. `RulesApart` then says that the check
stays true of the table, a rule that was deleted is forgotten by the others before its
number is used again, and `RulesShareNothing` that no text at all is claimed by two
rules one of which was checked against the other. `RulesAlwaysDisjoint` is the same
for the samples of an instance, if they tell the rules of it that share a text
(`SamplesTell`; `MCRouting` has TLC evaluate, as `SamplesSuffice`, that some sample is
matched by both of any two rules that overlap, which by `OverlapsExactly` is the same).

The proofs rest on the assumptions named in the modules (`DeliveryAssumption`,
`ProcessAssumption`, `TerminalAssumption`, `RegistryAssumption`, `BusAssumption`,
`ApplicationAssumption`, `ReportAssumption`, `TeamAssumption`, `PagesAssumption`,
`QueueAssumption`, `TurnsAssumption`, `DirectoryAssumption`, `PrefixAssumption`,
`KeepAssumption`, `RoutingAssumption` and those of the tables), and, for
`SourcesAlwaysIncluded`, on the one stated in it.

Only model-checked. Everything under fairness (`EndsOrExhausted`, `NeverStarved`,
`PendingEnds`, `AggregationEnds`, `DirectoryCurrent`, `ApprovalTold`,
`DuePublished`, `QueueDrains`), which the prover cannot do. `TypeOK` of
`ScheduleEditing` beyond its parts about the team schedule and the updates
(`TeamAlwaysTyped` and, in `EditRight`, `EditTypes` are proved).

## 6. What is left, in order

1. The drivers of `codex` and `opencode`, whose frames name their turn, as further
   drivers below `CommandQueue`.

## 7. Not modelled

Parts: the language model clients, the Feishu gateway and the drivers of codex,
opencode and the terminal, which
are I/O and appear as the answers they give (a reply, a failure, a time-out,
nothing); evidence and the texts of the scheduler; rendering of terminals, pages
and documents; the administrator's and the portal's pages beyond the tables they
edit that something else reads (those are actions of `Routing`, `WeeklyReport`,
`ScheduleEditing`); provisioning, configuration and the sidecar of the helper;
hardening, which only ends the process (a restart); secrets and redaction.

Details of what is modelled:

- instants are compared as text, in whole seconds for control tasks and with
  trailing zeros dropped for deliveries;
- subtasks expire with their request (in the model they share its `due`);
- a retried instruction with another text is refused as a duplicate id (in the
  model a failure of the triage);
- an aggregation started by a result keeps the read loop of that session busy
  while the language model answers, which joins control plane and delivery in time
  but not in state;
- the watchdogs that stop goroutines which panic, and what they log;
- pages and turns: signatures, nonces and wrong tokens (a refused call changes
  nothing), the clean-up of old unlock commands, version 1 of the authorization,
  keystrokes of version 1 that share the line buffer with an entry, the
  events about a turn (life cycle, progress, echo, cost), and the progress that
  postpones `_terminal_timeout` (a turn may be overdue at any time);
- reads of the database that fail, where nothing was written before them.
