# Agentix in TLA+

Agentix connects chat channels (Telegram, Feishu, Slack) to coding agents, and
Taskix, its task manager, gives those agents a shared store of Projects, Issues,
Jobs and Tasks. This directory specifies the parts of that code whose
correctness depends on order, concurrency or long sequences of legal calls,
model-checks them with TLC and proves the central properties with TLAPS.
Paths of code below are relative to `crates/` unless they begin with `plugins/`
or `docs/`, which are relative to the repository root.

## 1. Inventory

| Component | State it keeps | What makes it correct | Module |
|---|---|---|---|
| Dispatch queue (`agentix-core/src/dispatch.rs`) | waiting operations in order, active ones with the scope they hold | bounded; conflicting work never runs together, is never overtaken, never starves | `DispatchQueue` |
| Engine runtime and routing (`agentix/src/engine_runtime.rs`, `engine/dispatch.rs`) | the queue, workers, inbound ids and counts, refreshes, a routing snapshot | one execution per inbound id; two handlers never touch one conversation or session; however it stops, an interruption leaves no claim open; a gap in the event stream is answered by a recovery | `EngineRuntime` |
| Prompt delivery (`engine/pending_prompts.rs`, `prompt_feedback.rs`, `session_flows.rs`) | pending and queued prompts per session, stop requests, the claims of events | an input is accepted at most once, in order, is not sent after a stop, and settles | `PromptDelivery` |
| Bindings and subscriptions (`engine/subscription_cleanup.rs`, `session_service.rs`, `agentix-domain/src/binding.rs`) | the table in memory, its rows, preparations and queued unsubscribes | memory and rows agree; a shown session is subscribed and no other; every promised attachment is decided | `SessionBinding` |
| Session switch (`engine/session_switch.rs`, `agentix-storage/src/session_switch.rs`) | the durable switch record and its queued messages | messages are handed over at most once and in order, none that was stored is lost silently; a switch ends | `SessionSwitch` |
| Turn cards and card writes (`engine/turn_flows.rs`, `output_buffer.rs`, `cold_turns.rs`, `input_recovery.rs`, `card_writes.rs`) | what a turn said, the card that shows it, revisions of edits | the newest card says all the agent said, once; a late request changes nothing | `TurnCards`, `CardWrites` |
| Background notices, notification outbox (`engine/background_completions.rs`, `agentix-storage/src/notification_outbox.rs`) | a bounded pool; durable notices with claims | told once, in order, whatever stops in between | `BackgroundCompletions`, `Notifications` |
| Questions, approvals, dialogs (`engine/interaction_flows.rs`, `question_flows.rs`, `registry.rs`) | open requests, tokens, buttons, the dialog a terminal shows | an open question whose card was shown has a working control, a closed one has none | `Interactions`, `AgentRegistry` |
| Boards (`engine/task_board.rs`, `task_board/`, `issue_flows.rs`) | cards with revisions, forms, pages | a command does what its card showed; a list leads to all its rows | `BoardFlows`, `BoardPages` |
| Codex client (`agentix-codex/src/client.rs`) | one socket, pending requests, subscriptions, monitors | an error is only reported for what cannot have happened; an attached session is followed in the end | `CodexClient` |
| Session commands (`agentix-core/src/command.rs`, `session.rs`, `engine/session_flows.rs`, the commands of both clients) | the requests of a command, pickers, questions, what help offered | a command is carried out at most once and in the session it was meant for; a failure half-way is told | `SessionCommands` |
| Workspaces (`agentix-multiplexer/src/lib.rs`, its drivers, `engine/workspace_flows.rs`, `workspace_picker.rs`) | lists of sessions, windows and panes on cards, a launch under way | a launch disturbs nothing that runs, leaves nothing behind and attaches the session it started | `Workspaces` |
| Terminal control (`agentix-multiplexer/src/native_control.rs`, `interactions.rs`, `checkout.rs`) | looks at a screen, keys on their way, an agreed draft | keys do what they were sent for, beside a person at the keyboard | `TerminalControl` |
| Agent bridge and hosts (`bridge_hub.rs`, the Node runtimes) | connections, requests, the durable queue beside the agent | a request reaches the agent at most once, a prompt a second time only after its send threw; the engine sees the conversation as it is | `Bridge`, `DurableQueue`, `OpenCodeHost`, `ClaudeHost` |
| Taskix plugin (`plugins/taskix-manager`) | timers, prompts in progress, routing decisions | a stopped session's lease is not renewed; each prompt is routed once | `TaskExtension`, `TaskPlugin`, `Routing` |
| Taskix store (`agentix-task/src/mutations.rs`, `issue.rs`, `deletion.rs`, `store.rs`) | Projects, Issues, Jobs, Tasks, dependencies, leases | section 3 | `TaskStore` |
| Documents (`agentix-task/src/projection.rs`, `issue_content.rs`) | pending documents, the vault, hashes | what is acknowledged is current; no text that somebody wrote last is lost, but for texts taken for the published one (section 6) | `Publication`, `IssueContent` |
| Discussions (`agentix-task/src/discussion.rs`, `conversation.rs`) | turns, their attachment to Jobs | the conversation of a Job is what its turns say, in order | `Discussions` |
| Memory (`agentix-memory`, `agentix-task/src/memory_source.rs`, `taskix/src/memory`) | source outbox and cancellations in the task database; sources, leased work, memories and cursors in its own; vectors; notes | what a cancelled Job said leaves search; an item has one result; outbox and queue drain; records stay consistent; nothing a user typed is lost | `MemoryPipeline`, `MemoryRecords`, `CompactionSchedule`, `EmbeddingIndex`, `MemoryNotes` |
| Reload (`agentix/src/reload.rs`) | a candidate beside the running service, owners, claim codes | one consumer, one bot, the owners it names, every message | `Reload` |

How the parts interact. A channel delivers inbound messages to the engine
runtime, which admits them into the dispatch queue with a scope that the engine
routing derives from bindings. A dispatched operation runs as a worker against
the engine: it claims the inbound event in the state store, talks to an agent
through the registry (Codex client or bridge hub) and answers through card
writes and notices. Agent events come back through the same queue. Agents
themselves call the Taskix store through its command line; every call is one
SQLite transaction, preceded by a transaction that reaps expired leases and
followed by the publication of the documents it marked. The memory daemon reads
the task database and writes its own.

What is hard to test: routing that changes while work waits; scans that let work
pass other work; leases that expire under a worker that is still running;
sessions that resume work others finished, cancelled or archived; reviews of
work that changes meanwhile; acknowledgements that arrive after a stop; a button
pressed long after its card was drawn; an answer from two sides at once; lost
answers that hide whether something happened; crashes between a commit and its
side effect. `PROJECT.json` lists each at its line, with the properties that
would catch it.

## 2. Plan and status

Modelled and checked: every module of the table. Proved (section 5): the queue,
that the engine runtime implements it and serialises its handlers, the task store
for all its checked properties, the memory pipeline for all its safety properties,
prompt delivery for all its safety properties, that bindings, rows and
subscriptions agree, that no stored message of a session switch is lost silently or repeated, that
an error of the Codex client is only reported for what cannot have happened,
that the notification outbox owes or has shown every notice, in order, and repeats
one only around a failure, and that a card shows what was written last, once, with the
buttons that work.

Left, in this order:

1. A proof of `TurnCardsTrue` where it does not need what a fold computes for every
   sequence (section 5); TLC checks it.
2. Retention of change events against the consumers' cursors, milestones, and the
   scopes of scoped loading.

## 3. The modules and the code

A module states in its header what it models and what it abstracts from; `map` of
`PROJECT.json` names the lines each definition stands for.

### DispatchQueue

`pending` is the `VecDeque` of waiting operations, `active` the set of running
ones, `held` the scope each was dispatched with, and `route` the scope the
closure passed to `next_ready` would compute now. `TryPush`, `NextReady` and
`Finish` are the three methods; `NextReady` dispatches the first index the scan of
the code would return (`Runs`, built from `Blocked` and `Reached`). `Reroute`
changes routing at any time; it stands for the workers of the engine, which are
outside the queue. Statistics and timestamps are left out. The module ends with its
theorems.

### EngineRuntime

One loop admits requests, agent events, work of the engine and refreshes, takes a
snapshot of the routing table by table, starts what the queue gives it, and
retires workers; workers claim, execute and settle meanwhile. A work item is
[kind, c, s, r]: the conversation it came from, the session it names, the session
its handler obtains. A handler is the change it makes to the routing state. The
module instantiates `DispatchQueue` (`ImplementsQueue`, the refinement mapping is
the identity on the queue's variables and `Scope` for its routing), so what is
proved of the queue holds of the workers. Stopping, an abort of workers, a panic, a
lagging stream and a replaced agent are actions.

The last write of a request (`Settle`: `Complete` or `Fail`) and the one that fences an
interrupted request may be refused by the database, and a handler may end with an error
before or after its effect: `release_event` then opens the request to a replay in
either case. `outcome` is history, what has happened to a request (`effect`, `error`,
`unwritten`), and says when a replay is the code's own choice. A recovery
(`RecoverEventGap`) drops every control and rebuilds the turns of those bound sessions
whose history it can read, possibly of none; nobody tries again. `gap` says of each
session whether events about it are lost and unanswered, or were answered by a recovery
that did not rebuild it (`unbuilt`).

`SessionBinding` takes apart what
attaching is here, `PromptDelivery` what a prompt is.

### TaskStore

One action is one committed command (store.rs runs each in one `BEGIN IMMEDIATE`
transaction and rolls back on error), plus `Reap`, the transaction that runs
before each command. A guard is the conjunction of the checks the command makes
before it writes. `TaskCommand`, `JobCommand`, `IssueCommand`, `ProjectCommand`
and `SessionCommand` group the actions as the code groups the commands;
`Commands` selects the ones a run issues. What makes the store correct:

* a Task is leased exactly while it is IN_PROGRESS, one executor session holds
  at most one lease, and a lease changes hands only through a free Task
  (`Ownership`, `Handover`);
* started work keeps its dependencies DONE, and the dependency graph stays
  acyclic and closed (`DependenciesSound`);
* delivered work is noticed (`NoLostSubmission`), reviewed work does not change
  under the reviewer (`ReviewedWork`), closed and archived work stays quiet and
  nothing executes under an Issue that is not ACTIVE (`QuietWhenClosed`), and a
  closed Job is only reopened through one of its Tasks (`ClosedJobs`).

### PromptDelivery

One conversation. All work of a conversation holds its dispatch key, so by
`NoOvertaking` and `Exclusion` of the queue it runs one operation at a time, in
admission order: `lane` is the admitted work and `op` the operation with the
point it has reached. The state store is `event` (the row of `processed_events`),
`bound` and `epoch`; `pending`, `owned`, `ready` and `nextSeq` are the fields of
`PendingPrompts`; `rpc`, `accepted`, `live`, `stops` and `generation` are the
agent and the requests on their way to it.

| Action | Code |
|---|---|
| `Deliver`, `NextPending`, `Dispatch` | `admit_inbound`, `PendingPrompts::next`, `start_ready` of the runtime loop |
| `Claim`, `SendPrompt`, `Settle` | `handle_inbound`: claim, `send_prompt`, and the match on its result |
| `TakeQueued`, `SendPrompt`, `Settle` | the same path of a follow-up, `apply_queued_input` |
| `DeferPrompt`, `KeepAwaiting` | the 100 ms of `start_prompt_with_feedback`; whether `PendingPrompts::start` accepts the request |
| `ApplyAcknowledged` | `apply_prompt_acknowledged` and `show_acknowledged_prompt` |
| `StopCurrent`, `Attach`, `Attached` | `stop_current`, `attach`, `apply_prepared_attachment` |
| `TurnStarted`, `TurnCompleted`, `SessionExited` | the agent events and their handlers |
| `Shutdown`, `FenceOwned`, `AbortWorker`, `Exit`, `WorkerPanics` | the tail of the runtime loop, `cancel_pending_prompts`, `stop_workers`, `retire` |
| `Crash`, `Restart` | a killed process; the update of 'processing' rows at startup |
| `AgentAnswers`, `Reconnected` | external: the agent behind `operations.send`, and its connection |

`history` holds no program state: for a claimed prompt those claimed no later
(`claims`), the inputs a stop cancelled (`doomed`), the unacknowledged starts it has
to reach (`stopped`) and whether a crash happened. An answer that is lost ("unknown") may hide an input the agent did or
did not accept. A failed write to the store leaves the claim as it was.

### SessionBinding, SessionSwitch, TurnCards

`SessionBinding` takes the engine's binding apart: conversations, the agent's
subscriptions, workers that prepare and unsubscribe, results that return as work,
and lifecycle events handled some time after they happened. A handler is one step,
as `EngineRuntime` keeps two handlers of one conversation or session apart.
`SessionSwitch` is the durable record of one conversation's move to the new
session of its terminal client; two workers may be inside its handlers at once and
only the revision of the stored record protects what they have read. Adding a message
is two of its steps, the read of the record (`EnqueuePrompt`) and, after the wait for
the binding's epoch, the save (`SavePrompt`); a `SessionReplaced` of another
conversation's session (`OtherReplaced`) expires this record in between. `SavePrompt`
takes the message whether or not the save was accepted, as the handler does, and
`unsaved` is the history of those that were refused. Clearing the queue, rebinding and
cancelling, which ignore refused saves in the same way, are one step each. `TurnCards`
follows two turns through lost events, failing calls, input that is read late, an
exit and a restart. `MCSessions` checks the three side by side; a behaviour is
about one of them (`part`). Request and worker ids of `SessionBinding` are uuids in
the code; the bound `MaxJobs` keeps them few, and `Room` in the guards says that a
step which may create one finds one free.

### MemoryPipeline

Two databases that share no transaction. The task database is `outbox` (immutable
receipts of discussion turns and whether they were acknowledged), `turnJob`,
`jobActive` and `cancels` (the history a trigger writes when a Job is cancelled).
The memory database is `sources`, `binds` (which turn belongs to which Job),
`tombstones` (cancelled Jobs it knows of), `head` (the newest revision enqueued
per turn), `work`, `memories` and two cursors. The daemon's own state, lost in a
crash, is `poll`, `sync`, `request` and `lease`.

| Action | Code |
|---|---|
| `RecordTurn`, `AttachTurn`, `CancelJob` | `session.record`, `conversation.attach` and `job.cancel`, with what they capture in their transaction |
| `IntakeSource`, `ReplaySource`, `AcknowledgeSource`, `checkpoint_replay` | `poll_sources`: pending receipts, then every receipt in outbox order; `ingest` is one transaction |
| `PollSync`, `SyncReadSources`, `bind_cancelled_source`, `invalidate_job`, `checkpoint_cancellations` | `sync_cancellations`, one action per database call |
| `RequestBegins` to `RequestReturns` | a retrieval in `Application::handle`: synchronise, query, synchronise, compare the cursor |
| `UserWrites` | memory create and supersede |
| `claim_work`, `claim_nothing`, `complete_extraction`, `complete_consolidation`, `fail_work`, `Abandon` | the work queue under its fence, and what a worker does with a lease |
| `OrphanExpires`, `SlowWorker` | time: the lease of nobody runs out, or the worker outlives it |
| `PollFails`, `RequestFails`, `Crash`, `RestartEmpty` | a failed call, a killed daemon, a daemon on a memory database without history |

The field `at` of a cancellation is history, the length of the outbox then. A
failed call leaves a receipt behind and the loop goes on, so `IntakeSource` takes
receipts in any order. A source is one extraction chunk; a consolidation decides
on one candidate and one target.

### The services

Each of the other modules follows one component through its faults, on an instance
it fixes itself: one or two sessions, cards, documents, records or notes. They do
not share state with one another, so `MCServices` checks the 25 of them in one
run: `part` names the component a behaviour is about, and the others stay as they
started. What must happen in the end of the Codex client is checked beside the queue
(`MCDispatchQueue`), so that this run has invariants only. `MCServices` extends the two of them that are proved, `CodexClient` and
`Notifications`, and instantiates the rest, each on variables `v1`, `v2`, ...; a
property of the run that joins components is a conjunction of `part = "..." => ...`.

| Modules | What is followed |
|---|---|
| `CodexClient` | tasks of the adapter between writes and responses, the socket, monitors, turns in flight |
| `Interactions`, `AgentRegistry` | questions, an approval and dialogs answered from a conversation and in the terminal, through cards that fail to be sent or updated; routes, tokens, duplicates, the observer's ticks |
| `BoardFlows`, `BoardPages` | cards, forms and buttons that outlive what they were drawn from |
| `Publication`, `IssueContent` | several processes publish pending documents under a file lock and may stop anywhere; prose with two authors, who may put back what was published before |
| `Discussions`, `Routing` | turns recorded again and in parts; a decision about a snapshot that moves |
| `Bridge` (with `DurableQueue`), `OpenCodeHost`, `ClaudeHost` | a terminal process and the service over a socket, for prompts that are repeated by new requests and for queued messages; the two hosts that type or call for it |
| `TaskExtension`, `TaskPlugin` | the Taskix plugin: renewals of leases against interrupts and ends; prompts followed from hooks and late events |
| `MemoryRecords`, `CompactionSchedule`, `EmbeddingIndex`, `MemoryNotes` | decisions made on revisions that moved; a loop that sleeps until it is notified; vectors of two models; notes edited while they are projected |
| `CardWrites`, `BackgroundCompletions`, `Notifications` | one logical card, notices of unseen turns, the durable outbox |
| `SessionCommands` | the commands, pickers and prompts of a session as the requests they become, each of which may fail or lose its answer |
| `Workspaces`, `TerminalControl` | the browser and launches, and keys typed for the user, against a person at the same terminal |
| `Reload` | a candidate that takes over from a running service while owners are claimed |

Bounds. `Interactions`: two requests out of a question, an approval and a dialog, two
moves and one fault; conversations are alike, so the session starts in the first.
`IssueContent`: two processes, two commands or saves together, one stop; the processes
are alike, so one that is alone is the first. One process with three commands or saves
was run too. `Bridge`: a prompt and a queued message, two calls or turns typed at the
terminal, one control of the queue, one fault: a send that throws and the prompt that is
sent again, a resumed queue after an uncertain delivery, a socket cut under a call.
`SessionCommands`: two messages, and three moves shared by
redelivered messages, failures and what the host does; /new, /exit, the delivery of
a prompt and the tables of a binding are one step each, as `SessionSwitch`,
`TerminalControl`, `PromptDelivery` and `SessionBinding` follow them. `Workspaces`:
two panes, three lists, one move of the person at the keyboard and one failing
command, from each level of the browser, for each of the three drivers; a command of
a driver is one process and one step. `TerminalControl`: loops of 20 and 40 looks are
4 long, three moves of person, agent and user together; a key is handled before its
sender's second look after it, and text that arrives at once is held back as a paste
until it has settled.

## 4. Runs

| Run | Instance | Shows |
|---|---|---|
| `dispatch_queue` | five operations: reader, writer of two keys, rerouted, other, global; capacity 4, two workers, two reroutes; beside it the Codex client on one session, two calls, one fault | `Exclusion`, `NoOvertaking`, `Dispatched`, `FollowedInTheEnd` |
| `engine_dispatch` | every pair of all kinds of work and every triple of the kinds that move bindings; two conversations, three sessions, capacity 3, two workers, one request at a time with an error or a failed write | `TypeOK`, `Serialised`, `FencedAtStop` |
| `engine_recovery` | a stream that overflows and an agent that is replaced once; one bound session and one that is not | `ImplementsQueue`, `GapsAnswered` |
| `resume_race` | a session resumes while its former conversation has a request in progress | violates `Serialised` (section 6) |
| `task_execution` | two Jobs with a Task each, two executors and two sessions, expiry and reaping, the commands that shape dependencies and execution | `Ownership`, `DependenciesSound`, `Handover` |
| `task_delivery` | one Project, Issue and Job, two Tasks, every command but the two on dependencies | `ReviewedWork`, `NoLostSubmission`, `QuietWhenClosed`, `ClosedJobs` |
| `prompt_order` | three prompts, a stop, an attachment, two sessions (1.1 million states) | `InOrder`, `StopCancels`, `StopReaches` |
| `prompt_faults` | two prompts, one redelivery, one restart, one disruption, one failed write (413,000 states) | `AtMostOnce`, `ClaimsCarried`, `Settles` |
| `memory_revocation` | two turns, one Job, two receipts, two user-written memories that may cite both, the polling task and one request, one failed call or lost memory database (1.2 million states) | `RevokedUncited`, `WorkIsCurrent`, `CursorsCovered`, `AnswersRespectCancellation` |
| `memory_queue` | one turn in two revisions, no Job, two workers, two attempts, one fault of any kind | `OneResultPerItem`, `Drains` |
| `sessions` | two conversations and two sessions, two commands, one fault; a switch of one conversation with two messages and two upsets; two turns with one failure | `BindingsTrue`, `MessagesAccounted`, `TurnCardsTrue`, `AttachmentsDecided`, `SwitchEnds` |
| `services` | each of the other components on the instance its module fixes | `HonestErrors` (Codex client), `NotificationsTrue` (outbox), `CardTrue` (a card), `ControlsTrue`, `MemoryTrue`, `DocumentsKept`, `HostsHonest` (2.4 million states) |

Why the bounds suffice. The queue has more work than slots and more ready work
than workers, so that it is full, blocked and overtaken in every way two keys
allow. What two handlers do to each other takes two of them, and a binding that
a third changes under their snapshot: the engine runs all pairs, and all triples of
the kinds that change a binding or are routed by one. Two Tasks of two Jobs give a
dependency across Jobs and its follow-up; two of one Job give the review of a Job
of which one Task is done; cycles need no more. One Job is enough for its life
cycle and two sessions for a race for a lease.
In order of arrival a prompt is a start, a follow-up behind it, or a later input
that has to wait for both: three prompts. `MaxPending` is 1 with two
sessions, so a second start meets a full table; `MaxQueued` is 2, so the
third of three prompts that wait for one attachment is refused. Capacity 2
per conversation is exceeded and rejects. One fault of each kind meets every
state; two crashes in a row repeat the first, as only the store survives.
Prompts differ only in name, so `Earlier` fixes the order of their first
deliveries; a redelivery comes at any time. Revocation needs a turn
recorded, attached to a Job that is cancelled, and ingested in every order, and
memories that cite its revisions or replace one another: two receipts, two
memories; two callers synchronise the same event. The queue
needs two workers and two attempts for a lease that is taken over, and two
revisions for work that is superseded while it runs. Bindings need a second
conversation that takes a session over; each service is followed through one or two
of the things it keeps and as many requests as can meet.

Larger instances were run by hand on the same modules: three commands of
`SessionBinding` (208,000 states), two agents and four sessions of the engine (8.6
million, `Serialised`), a stop, an attachment and a restart together in
`PromptDelivery` (5.8 million), and the delivery invariants of `TaskStore` (292,000).
None showed more.

`SYMMETRY` is used where identifiers are interchangeable and no liveness is
checked (`task_execution`, `task_delivery`).

Deadlock. `dispatch_queue` (the queue; a client whose calls are used up may stop), the
task and the memory runs check it. The prompt,
engine, session and service runs do not: the inputs, commands and faults they
issue are used up, and an idle service stops there.

Fairness. `DispatchQueue`: weak fairness of `NextReady`, as the runtime scans the
queue on every turn of its loop, and of `Finish(w)` for every operation, as
workers end (agent requests have a deadline and shutdown aborts the rest).
`EngineRuntime`: weak fairness of the loop, of the refresh interval and of every
worker; strong fairness of receiving an event and of retiring a worker, as they are
branches of a `tokio::select!`, which polls its ready branches in random order, so
that one that keeps becoming ready is taken.
`PromptDelivery`: weak fairness of `Progress` as a whole, i.e. while the service
has something to do it does something: the loop keeps taking work, the worker
keeps running, the agent's answer or its deadline arrives, shutdown proceeds and
the supervisor restarts the service. Deliveries, turn events, exits and crashes
are under no fairness. `MemoryPipeline`: weak fairness of `PollStep` (the polling
loop never ends), of `RequestStep` (a request runs to its end), of each
`WorkerStep(w)` (a slot keeps claiming, and a loop ends by its deadline) and of
`OrphanExpires` (time passes); users and faults have none. `sessions`: admitted
work and workers get their turns (`Progress`, `SwitchProgress`),
deadlines pass and turns end; refreshes have strong fairness, because a refresh is
admitted once a second under the key of its conversation (`engine/dispatch.rs:141`) and so
waits behind what that key is doing, but not for ever. The Codex client (in
`dispatch_queue`): the app-server serves what was written, the client reconnects (its
back-off is bounded), its tasks run on. `TaskStore` and `services` are checked for
safety only.

What a property leaves out. `FencedAtStop` lets a claim stay open only where the write
that settles it was refused (the next start turns such a row into 'failed',
`state.rs:159`), and a request be executed again after its effect only then or after an
error of its handler; `MaxErrors` bounds the requests with either at once.
`GapsAnswered` says that a loss is followed by a recovery, not that the recovery could
read every history. `MessagesAccounted` exempts the message whose own save the revision
fence refused. `ControlsMatch` exempts questions whose card failed, until an attach
shows them again (`undrawn`), and requests whose events or answers were lost (`lost`).
`AuthoredKept` exempts texts that were taken for the published one (`mistaken`).
`SentOnce` counts per request, and lets a prompt go a second time only after its send
threw. Each of these is what the code does (section 6).

`AtMostOnce` excludes crashes and failed writes: a process killed between the
send and the claim's completion leaves 'processing', which startup turns into
'failed', and a redelivery is sent again. `ClaimsCarried` and `Settles` exclude
failed writes: an input whose first write failed stays owned and claimed until
shutdown fences it. `StopReaches` excludes a turn of the session that is not the
stopped one but starts first (section 6).

Mutants. Each property of a run is paired in `PROJECT.json` with a mutated
definition, the way a plausible bug would change it, under which the run fails.
Properties that fold several (`BindingsTrue`, `Drains`, `MemoryTrue`, ...) have one
mutant there; the further definitions marked "Mutant:" in the modules break the
other parts and were checked one by one.

## 5. Proofs

All invariants and action properties below are proved for every value of the
constants: any number of operations, conversations, sessions, Tasks, inputs,
turns, workers, and all limits.

The theorems at the end of `DispatchQueue` prove the types, the bounds, `Exclusion` and
`NoOvertaking`. The inductive invariant `IInv` adds to them that `active`
is finite, without which its cardinality bounds nothing. The step that matters is
`RunsIsConflictFree`: what the scan returns conflicts with no running operation
and with no earlier waiting one, whatever scopes routing gives now, because a
blocked operation reserves its keys for the rest of the scan.

`EngineRuntimeProofs` proves that the runtime implements the queue
(`ImplementsQueueHolds`): every step of the engine is one step of the queue or a
stutter, so `Exclusion` of the queue holds of the engine's workers
(`ExclusionHolds`). Its invariant also ties ids, counts and refreshes to what is
queued (`Bookkeeping`) and the claims in the store, with what has happened to each
request, to the phases of the workers (`Claims`), from which `FencedAtStop` follows: an
abort finds every claim of a running worker, and a claim no worker has any more is one
whose settling write was refused. The theorem covers errors before and after the
effect and failed writes of any number of requests.

The last part of `EngineRuntimeProofs` proves `Serialised`, the reason the rest of the engine is
written as sequential code. The scope an operation was dispatched with is computed
from a snapshot that was read table by table while other workers changed bindings.
The argument: a worker changes only conversations and sessions its scope holds
(`WorkerConfined`), so what a snapshot says of one that no active operation holds
is still true (`Traced`), and an operation is dispatched only when its scope meets
none that is active. The hypothesis is that no session resumes: a resume finds its
conversation in the database, and `resume_race` shows that the property fails then.

`TaskStoreProofs` proves the types, `Ownership`, `Handover` and the four delivery
properties. Every step either keeps a Task and its lease, drops the lease, or gives
a free Task to a pair that holds none, and no two Tasks go to one pair in one step
(`Moves`: `Kept`, `Dropped`, `Taken`); `MovesKeepOwnership` shows once that such
steps keep `Ownership` and are a `Handover` step, and one lemma per group of
commands shows that they are `Moves`. `ReviewedWork`, `NoLostSubmission` and
`QuietWhenClosed` are parts of one inductive invariant (`Delivery`), because each
command that moves a Job relies on all three: a Job is submitted when its last Task
is over, it is closed only from there or with all its Tasks, and archiving asks for
closed work.

The last part of `TaskStoreProofs` proves `DependenciesSound`. The inductive invariant
`Dependencies` adds two facts: `FollowupsExist` (a follow-up baseline holds Tasks
that exist, as a new Task depends on all of it) and `GoneIsBlank` (a Task that does
not exist has no dependencies and is not started, so creating it starts from
nothing). Most commands are `Quiet`; the four that are not, adding a Task, `depend`,
reopening and deletion, have a lemma each. That a new edge closes no cycle
(`NewEdgeAcyclic`) follows from the check of `depends_on`, written as the absence
of a set closed under dependencies, so no induction over paths is needed.

`MemoryPipelineProofs` proves `RevokedUncited` and `CursorsCovered`. The inductive
invariant `Revocable` adds what memories cite was ingested (`Stored`), that ingested
receipts were captured and their turns are bound to their Jobs (`Captured`,
`Bound`), and what a synchronisation or the polling task has established at the
point it has reached (`Syncing`, `Polling`). `Bound` is the centre: revocation works
on bindings, the property speaks of the receipts, and without it a receipt could
carry a Job that no revocation finds. Every write of a memory checks its evidence
against the tombstones (`CheckedEvidence`); ingestion and `invalidate_job` revoke
what the new binding or tombstone reaches (`IngestKeeps`, `SyncSteps`); nothing else
adds either.

The second part of `MemoryPipelineProofs` proves the rest of the pipeline's safety. `WorkIsCurrent`: the
head of a turn is its newest receipt unless a known cancellation reaches the turn
(`Heads`), so a new receipt supersedes exactly the work it should.
`OneResultPerItem`: a receipt is enqueued once and a finished item stays finished
(`Sound`), and a worker completes only under the generation it leased (`Leased`).
`AnswersRespectCancellation`: after a synchronisation up to an event every binding
of its Job is made and every memory that cites it is gone (`Withdrawn`), so the
answer read between two synchronisations is clean up to where the first began, and
it is only returned when the second moved nothing (`Answering`).

`PromptDeliveryProofs` proves the types, `ClaimsCarried`, `AtMostOnce` and
`StopCancels`, over every interleaving with acknowledgements, stops, attachments,
exits, failed writes, panics, shutdown and crash. `Carried` is the inductive
invariant: each owned input is in exactly one place where the engine would find it
again, the places are the pending start of a session, the queue behind one, `ready`,
`lane`, the operation or an attachment (`Placement`); a reattached input has its
attachment (`Reattachments`); a request to the agent is of an input that is owned
or in the operation (`Requests`); and the row of an event is 'processing' exactly
for these (`Claims`). `ClaimsCarried` is what it says of a running service.
`AtMostOnce` needs one fact per input on top (`SentOnce`): an input that may still
be sent (its row is absent or failed and it is not accepted, or it is owned and not
requested) was never accepted, as long as nothing unreliable happened (`Reliable`:
no crash, no lost write); each step is shown to keep it for every single input
(`OnceKept`). `StopCancels` needs that what a stop cancelled can only be dropped
(`Doomed`, `NeverSent`).

The second part of `PromptDeliveryProofs` builds on `Carried`. `StopReaches` needs `Latched`: a start that
was stopped keeps its latch until it is acknowledged or the engine learns that it
was not accepted (`StopsHeld`), nothing is pending in a session while a prompt for
it is being sent (`Sending`), and what a start has been told of turns agrees with
the turn the session runs (`Turns`), so that the acknowledgement finds either the
latch or a turn that was already told. `InOrder` needs `Ordered`, because an input
may wait behind a start, in `ready`, in `lane`, in the operation and in an
attachment, and is moved between them by steps that do not look at ages. Ages are
the `seq` an input gets with its binding. `Marks` ties them to the order of claims:
of two inputs that still wait the older one was claimed first. `BehindOrder`: the
queue behind a start is sorted, as an input that joins it is inserted by age
(`InsertSorted`). `Line`: what comes first through operation, `lane` and `ready` is
older than every follow-up after it that may still be sent. `Handed`: nothing that
may still be sent comes after the acknowledgement of a start that is current, so
the queue behind that start may be handed on at the end of the line. An attachment
breaks `Line` among the old inputs, and the proof shows that all of those are
stale by then (`Committed`), and stay so (`LiveStays`).

The first part of `SessionProofs`, about `SessionBinding`, proves two results. `TablesAndSubscriptions` holds without a
hypothesis: the rows say what the table in memory says, and a conversation that
shows a session follows it. `BindingsTrueHolds` is the whole of `BindingsTrue`, which
adds that no subscription is left behind. The inductive invariant (`Bindings`)
follows a subscription through `SubscriptionCleanup`. `Queue`: a session has one
unsubscribe, behind every preparation of the session. `Attaching`: a session is
wanted by one conversation, an attachment being prepared has its worker or its
result and no unsubscribe. `Subscribed` and `Dropped` say what a worker that has run
means for the adapter, so that `Kept` holds: a saved session is followed and nobody
unsubscribes it, unless it was given up in a contest. For the second theorem
`Accounted` is added: a session that is followed is saved, drains, or has a
preparation, an unsubscribe or a result still to be handled; it is shown for every
way a last use can end (`EnqueueHandles`, `BindAccounts`). Its hypothesis is
`Cardinality(Sessions) <= Limit`: pending unsubscribes are bounded by the capacity in
`subscription_cleanup.rs` (128), and one that finds no place is dropped with the log
line "subscription cleanup capacity reached; retaining remote subscription". With at
most `Limit` sessions a place is free (`RoomForCleanup`, by counting one unsubscribe
per session); without the hypothesis the code does not promise it.

The second part of `SessionProofs`, about `SessionSwitch`, proves `MessagesAccounted`. Two workers may hold a copy of the
stored record, and only its revision protects what they read. The inductive invariant
(`Switching`) is stated of a record, a binding, the copies and the logs, because a
handler drains the queue at its end and has to be looked at before and after that
(`Drained`). `Fenced`: a copy that carries the revision of the record is the record,
and what its worker sent is in the log, in the draft or told; a copy that is no longer the
record only adds its message to `unsaved`. `Ahead`: what still waits
comes after all that was sent, is being sent or is a draft. `Guarded` is the reason no
message is sent twice: while one is with a worker the record of a live switch shows it
at its head as being sent, the conversation's worker loses its record to nobody, and the
event worker loses it only to a switch that has no candidate yet, so that neither can
take the next message first (`MarksHead`, `CompleteKeeps`). The only hypothesis is that
the value for "no session" is neither a session nor a record.

`CodexClient` ends with the proof of `HonestErrors` (`HonestErrorsHold`): whatever is
lost or late, a prompt is started at most once, and a caller who is told that it
failed, not that it is uncertain, can send it again. `HonestInv` is the inductive
invariant. `Writing`: only the task of a prompt writes one, and a task that writes has
something to do. `Waited`: a request whose response is waited for is its task's, and
the only one of it. `Prompts`: what is known of a prompt, by its task while that runs
and by its caller afterwards (`Verdict`), is no more than what is on the wire and
what the app-server has started allow. The hypothesis is that the sessions are
finitely many, because a recovery goes through the subscriptions one by one.

The first part of `OutputProofs` proves `NotificationsTrue` of the outbox: every event that has a
reader is shown to it or still owed, notices are shown in the order of the events, and
one is repeated at most once for each failure or stop. `OutboxInv` is the inductive
invariant. `Readers` and `Numbered`: a refresher holds events that follow those staged
or some staged already, and rows are numbered by their consumer's cursor. `Held`: a
delivery under way holds the oldest row of its conversation, alone, and once it is
sent the row was shown. `Earlier`: nothing shown is newer than what waits, which gives
the order. `Repeats`: each repetition is paid by a failure, and so is the next one
while the row waits. Claims are tokens; that a fresh one exists is shown by counting
(`TokenIs`). The hypotheses are that the page size is a number and that the value for
"nobody" is none.

The second part of `OutputProofs` proves `CardTrue` of `CardWrites`. `CardInv` is the
inductive invariant. `Locking`: a task that writes holds the lock and has taken the
target. `Revisions`: no two tasks hold one revision, and nothing is newer than the
latest. `Newest`: no view that was shown, or is under way, is newer than what was
applied, but for the request of the task that holds the card. `Target`: what is under
way to the message of the card is that task's request, so that an answer says what the
message shows; a message whose request was lost is nobody's target any more.
`Buttons`: a task that still has to make its view sees the barrier of every press that
was answered. `Sends`: one replacement at most is under way, and if its sender lost the
answer nobody sends another; as messages are numbered by the provider, the next number
is never beyond what the revisions allow, so the bound on messages is no restriction.
TLC found the strengthening wrong twice before it held: a task may meet a lost request of
its own on the way to a retired message, and whether buttons work is decided when a view
is made, not when it leaves. The model says both now.

Assumptions of the proofs are the named ASSUMEs of the modules and the hypotheses of
the theorems: limits are numbers, parents are functions, the value for "nothing" is
no identifier, and sets that the code goes through one by one are finite.

Only model-checked. Liveness (`Dispatched`, `GapsAnswered`, `Settles`, `Drains`,
`AttachmentsDecided`, `SwitchEnds`, `FollowedInTheEnd`) is beyond the prover, as is
what a recursive definition computes. Of the safety properties these have no proof.
`TurnCardsTrue` compares what a card shows with the fold of everything a turn said,
which needs induction over sequences. `ControlsTrue`, `MemoryTrue`,
`DocumentsKept` and `HostsHonest` of `services` each join the small invariants of
several components, whose instances are mostly fixed and explored completely.

## 6. Findings and divergences

`resume_race` is checked by a run: docs/architecture.md:218 says "Requests affecting
the same conversation or session retain their order". A resumed session finds its
conversation in the bindings table, but its scope reserves the conversation only
through the in-memory table, from which the exit removed it; a request of that
conversation runs at the same time, and the resume overwrites the binding in memory.

The following were met while modelling. The models contain the behaviour, and the
properties are stated so that they hold in spite of it.

Prompts and sessions:

* A message typed during a session switch can be lost silently: `enqueue_switch_prompt`
  ignores that `save_session_switch` was refused (`session_switch.rs:186`) and reports
  the message as taken. `replace_session` of any session expires every stored switch
  first and so may write the record in between.
* A handler that fails after its effect was committed releases its event all the same
  (`engine.rs:545-560`), so that a redelivery repeats the effect; when the settling write
  itself fails, the claim stays 'processing' until the next start.
* `recover_event_gap` gives up when the bindings cannot be read and only logs an error of
  one session (`engine.rs:780-793`); what was lost is not rebuilt until the next gap,
  attach or resume.
* `PendingPrompts` limits the queue of a session to `MAX_QUEUED`, but an input that
  is already owned passes (`pending_prompts.rs`, `owned.contains_key`): through
  re-attachment a session gets more than the 16 of docs/session-lifecycle.md:102.
* docs/session-lifecycle.md:103-105 says a follow-up keeps its binding and is
  cancelled by a switch; one that is handed on while another session is being
  attached is queued again for that session and sent to it.
* docs/session-lifecycle.md:105-106 says a stop that arrives before the turn is
  known is applied when the turn is named; the first start event of any turn of the
  session takes the stop, and the acknowledged turn runs on.
* In cards (`TurnCards`): a card recovered after a gap may show a text twice, and
  deltas a history already contained are appended again; a turn overtaken during a
  gap keeps its unfinished card, and one whose start was lost shows an empty one; an
  input read late for a turn that was put away can arm Stop again; a read that
  panics leaves its request stuck; on a host that reports only summaries a later
  item replaces the fallback text.

Taskix:

* A text put back to what was published before is known by its hash only. A command that
  commits it over a note somebody edited meanwhile has its journal removed as delivered
  (`issue_content.rs:195-201`), the note keeps the other text and the committed one is
  lost; a note put back by hand to what a pending publication replaces counts as untouched
  and is overwritten.
* Reopening a Task of a completed Job makes the Job ACTIVE while its Issue is
  PENDING_REVIEW; docs/project-issues.md:46 says all related Jobs are closed then.
  Approval checks the Jobs again.
* docs/task-state-machines.md:66 draws a way back from a CANCELLED Job by task retry
  or reopen; the code refuses both.
* The order within one discussion turn is the order of arrival.
* A prompt that waits for the clean-up of an interrupt when its session ends
  restarts the renewal timer while the end is told; the guard of `Shutdown` in
  `TaskExtension` leaves that out.
* `TaskPlugin`: a prompt that is not admitted yet is dropped by a reconciliation
  until its late event; a delivery event lost in a restart is not made up while a
  turn is current; a failed preparation that is retried makes the older prompt
  current; idle sessions are trimmed in spite of pending prompts.

Memory:

* A compaction whose source is replaced is dropped with it (queue.rs:58), and a
  Project that is archived when the loop looks leaves the due set for good
  (daemon.rs:848): both are listed as hazards without a property.
* Superseding a record need not preserve its evidence, and a decision may create a
  record that cites a quotation its own forgetting suppresses.

Channels, agents and reload:

* A notice whose final edit fails stays at "Loading".
* A question whose card cannot be sent or updated has no control: it is recorded before
  the card is sent (`question_flows.rs:17-30`), the table loses it while its card is
  updated (`interaction_flows.rs:616-668`), and announcing it again changes nothing; the
  next attach shows it. An answer the agent refuses after its route was spent, or a
  notice that cannot be updated, leaves a card whose buttons do nothing.
* A prompt whose `sendUserMessage` threw is marked uncertain at the host but answered as
  an error (`plugins/agentix-bridge/runtime.mjs:139-143`), which becomes `Rejected`
  (`bridge.rs:115`); the event is released and its redelivery sends the prompt again
  under a new request id, which the host cannot recognise.
* `AgentRegistry`: an answer uses up its route even when the backend refuses it; a
  switch cancelled in a terminal dialog stays marked until the next detach; a dialog
  with the same fingerprint right after an answered one is offered only after the
  screen was seen without it; a deferred agent may come up while its terminal is
  being enabled.
* `Reload`: an owner who claims while a candidate is prepared is missing from the
  live policy until the next reload; a claim cut off after its file was written
  leaves its code redeemable; an adapter built with owners accepts no claim code
  issued after the owners are emptied.

## 7. Not modelled

`PROJECT.json` lists every component with what is left out of it. Not modelled at
all: scoped loading and indexes of the Taskix store (a performance layer its tests
compare with the whole state), the Codex proxy (byte-level framing), the command
lines and channels (I/O; the models let a call fail, be refused or have its answer
lost), metrics.

In the modelled ones: milestones, renames, texts, the idempotency table and change
events of the task store; terminal prompts and the agent's own prompt queue in prompt
delivery (the latter is a request of `SessionCommands`); layout, chunking and wording
of cards; how a driver reads its multiplexer's output; background terminals, usage counts and request bodies of the Codex client; wire
framing of the bridge; Markdown and path layout of documents; authors and retry
back-off of the memory queue. Data are members of small sets wherever no property
tells them apart.
