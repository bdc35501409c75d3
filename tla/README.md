# Lorca: a verification project

Lorca is a desktop and phone client for AI bots. Its core is the CLI process
(`crates/cli`) that runs on every paired Device, an agent library
(`crates/agent`) that runs a bot's turn, and a relay (`crates/relay`) that stores
end-to-end encrypted blobs and passes them between the Devices of one account.
There is no shared database: every Device keeps its own encrypted SQLite store
and merges what the relay hands it. A bot runs on one Device, its *Runner*.

This directory models the parts of that system where the order of events matters,
checks them with TLC and proves the results that matter most with TLAPS.

## Inventory

| Part | State it keeps | Operations | What is hard about it | Module |
| --- | --- | --- | --- | --- |
| Handoffs (`handoffs.rs`, `runtime.rs`) | a record per handoff: attempts, report, cancellation, delivery mark; running jobs | delegate, follow up, cancel, stop, report, begin, finish, resume, apply an update | two Runners change one record; crashes; replays; late and duplicate updates | Handoffs, Delegation |
| Tasks (`tasks/`) | revisioned records, a claim, request ids | create, update, claim, finish, merge | optimistic revisions across Devices | Tasks, WorkRun, TaskGraph |
| Review queue and execution (`review_queue.rs`, `review_execution.rs`) | proposals and their approved actions | propose, decide, run, recover | an approved effect must run once, as it was shown | ReviewQueue |
| Turns and the agent loop (`turns.rs`, `app.rs`, `agent_loop.rs`) | messages and their marks, jobs, the chat lock, a steering queue, calls and results | send, steer, send now, stop, ask, answer | a turn takes what is sent meanwhile, while the message's own job waits | ChatTurns |
| Event triggers (`event_triggers.rs`) | deliveries of a subscription, receipts, routes | receive, admit, run, pause, retry, discard, purge | repeated deliveries, restarts between commit and run | EventInbox |
| Relay log and sync (`relay/src/db`, `sync.rs`, `local_store.rs`) | blobs in order, one per slot, deleted groups; outbox, `last_seq`, the roster, the store | insert, supersede, page, delete; queue, upload, pull, apply, first sync, scroll back | a slot's new version moves to the end while readers hold positions; every Device writes the whole roster | AccountLog |
| Keys and pairing (`keys.rs`, `identity.rs`, `pairing.rs`) | generations of the account's key, keyrings, held blobs | pair, unpair, rotate, forward, hold, upload again | keyrings and what they seal arrive in any order | AccountKeys |
| Budgets (`budgets.rs`, `budgets/runtime.rs`) | a ledger of limits, use, reservations and running work | start, reserve, settle, end, resume, recover | scopes nest and are shared; crashes between reserve and settle | Budgets |
| Connector limits (`connector_limits.rs`) | starts in a window, calls at once, cooldowns | acquire, drop, cool down, set | several buckets per call; saves that fail | ConnectorLimits |
| Routines and schedules (`routines.rs`, `schedule.rs`) | a schedule, what it last took, the health of its check | tick, check, run, run now, pause, resume, merge | the due time is taken before the run; rosters from older copies | Routines |
| Requests, attention, project context, playbooks, drafts, outputs, channels, secrets | records of their own | create, merge, settle | the merge hazards of the above on smaller records | not modelled |
| Coding agents, browser, plugins, workflows, feedback, templates, updates, providers | external processes and services | start, drive, stop | third-party behaviour | not modelled |
| Desktop (Go), mobile (TypeScript), website | views of the CLI's state | draw, send commands | user interface | not modelled |

How they interact: a turn (ChatTurns) is started by a message, a handoff, a task's
run, a delivery or a routine; each of these keeps its own record of whether that
turn began and ended. The records of handoffs, tasks and reviews are blobs of the
account's log, uploaded from one outbox and pulled in the log's order (AccountLog),
under the account's key (AccountKeys). Budgets and connector limits are asked before
a turn's model calls and plugin calls. Each module keeps of its neighbours what its
own steps read, and states it: Handoffs, Tasks and ReviewQueue have their own copy of
the outbox, the relay's order and the crash between reading and saving.

### How the modules are laid out

Every component has a module with its state as variables, one action per operation, its
constants' assumption, a type invariant, its properties and, before the definitions they would
replace, the slips of the code that its properties must notice (comments that begin `Slip:`).
`Occurs` is the set of mishaps and user actions an instance contains. An MC module composes
instances: a variable `part` is chosen at the start and says which instance takes steps, so that
one run checks several bounds of one component (MCHandoffs, MCTasks, MCReview, MCAccountLog,
MCAccountKeys), the components of a Runner that share no state (MCRunner), or what must happen
in the end (MCLive). MCRoutines gives one instance of Routines its first state. A part that is
not chosen stays as it began. Proofs are in modules of their own, `<component>Proofs`;
RunnerProofs holds those of Routines, ConnectorLimits and Budgets.

## Runs

All runs check deadlock off: every instance stops at its bounds, as the real system
waits for its user. Each takes from one to about three minutes on two workers.

| Run | Module and parts | Checks |
| --- | --- | --- |
| `handoffs` | MCHandoffs: resumed, crash, lost, ends | `TypeOK`, `ReportsAgree`, `CancellationsAgree`, `OneTurnPerJob`, `NoTurnAfterCancel`, `SourceOutcomeFinal`, `KeepsPromise` |
| `handoff_resume_race` | Handoffs | a violation of `EveryReportArrives` |
| `tasks` | MCTasks: runs, stops, calls, reads | `OneTurnAtATime`, `ReplicasFollow`, `StopsReach`, `NoLostUpdate`, `RunsFollow` |
| `review` | MCReview: executors, edits, reupload | `OneEffectPerApproval`, `EffectAsApproved`, `ApprovedAsShown`, `EndedIsFinal`, `ApprovalsEnd` |
| `review_wake_lost` | ReviewQueue | a violation of `EveryApprovalEnds` |
| `live` | MCLive: chat, stuck, sent, away, local, work | `AnsweredOrStopped`, `ReadOnce`, `HeldWaits`, `CallsAnswered`; `MessagesCarried`, `StopEnds`, `AttemptsEnd`, `RunsSettle` under fairness |
| `chat_after_stop` | ChatTurns | a violation of `AnsweredOrStopped` |
| `runner` | MCRunner: inbox, late, chats, copies, filters; graph; limits; timed, called, shared, granted; ticks, sign, looks, edits | `OneHeld`, `NoUnaskedRun`; `TasksAcyclic`; `CallsWithinLimits`; `BudgetsCount`, `BudgetsBound`; `RoutineTakenOnce` |
| `account_log` | MCAccountLog: rosters, retries, joins, meets, deletes, groups | `CopiesAreWhole`, `RostersAgree`, `DeletedForGood`, `KeptUnlessDeleted` |
| `account_group` | MCAccountLog: rosters | a violation of `RostersKeepChats` |
| `keys` | MCAccountKeys: rotate, cuts, makers, joins, restarts | `LeftOut`, `KeysAgree`, `MessagesTaken`; `Settles` under fairness |
| `routine_signed_out` | MCRoutines | a violation of `SignedOutStays` |

Symmetry is not used: the Devices of an instance play different parts.

## Handoffs

`Handoffs.tla` models one durable delegation: `Source` is the requesting bot's
Runner, `Target` the recipient's, `Devices` all the Devices of the account.

| Model | Code |
| --- | --- |
| `rec[d]` | the `handoffs` row of Device d: `HandoffAttempt` with its request (a job id stands for it), report, cancellation and `result_delivery` |
| `outbox[d]`, `sent` | the outbox table, and an upload whose answer was lost |
| `inbox[d]`, `read` | the relay's log as d still has to see it (after the saved `last_seq`), and how far d has applied it since it saved |
| `opened`, `opening`, `calledOff` | `opened_envelopes`, the envelope being opened, and `cancelled_jobs` |
| `turn`, `token`, `limited` | `running_jobs`, the cancellation tokens, and turns their limits stopped |
| `routing`, `cont` | `route_report` between reading the record and spawning the continuation, and that continuation |
| `admitting` | `follow_up` and `resume_stopped` between their two holds of `handoff_lock` |
| `moved` | whether a bot has moved to another Runner |
| `ran`, `woke` | history: jobs whose turn or continuation has started |

`Delegation.tla` is the abstract promise to the requesting bot: attempts come one
after another, each gets one outcome that never changes, each report wakes the
bot at most once and never after its cancellation. `KeepsPromise` checks that
`Handoffs` implements it under the mapping in `Promise`.

Bounds (`MCHandoffs`): one handoff, as records of different handoffs share only the
outbox and the log, whose order across slots is kept. In part `resumed` two attempts
with two job ids for each number, which is what a conflict needs, and at most three
blobs in an outbox or inbox (`Backlog`); in `crash` and `lost` one job (`OneJob`) with one
restart of Source or of Target, an envelope that may expire, and in `lost` uploads whose
answer is lost; in `ends` a turn that reports by the tool, passes, is stopped by the user
or by its limits, and bots that move. A Device not in `Restarting` never reads a blob
twice, so it lets go of a blob once applied. `AttemptsEnd` is checked in the parts
`sent`, `away` and `local` of MCLive: one attempt and one restart, of Target, of Source,
and of a Runner that has both bots.

Left out: the delivery string, attention items, marker and report messages,
`record_on_task`, group chats, a relay's refusal of an item, key rotation (an
update under a key not yet held is only late), and a source chat that was
deleted. `finish_job` reads the record and then publishes under the lock; the
model does both in one step, as an earlier finish then a cancellation gives the
same record.

## Tasks

`Tasks.tla` models one durable task (`tasks/mod.rs`, `execution.rs`, `storage.rs`).
Its *authority*, the Runner its first owner ran on, serializes every change; the
other Devices hold replicas and call the authority.

| Model | Code |
| --- | --- |
| `task[d]` | the `tasks` row of Device d: revision, state, `active_run` and the owner's Runner |
| `receipts`, `settled` | `task_receipts` of calls and of run reports |
| `asked`, `reply`, `Serve`, `ServeAgain`, `TakeReply` | `requests::ask` to the authority: a sealed request that may come late, again or after its caller gave up, and its answer |
| `journal[k]`, `finish[k]` | `task_runs` on run k's Runner: pending, claimed, ended, and the outcome to report |
| `assigned`, `job`, `stop` | the dispatch of a run: local, or the sealed `job` with the record in it, and its `job_cancel` |
| `turn[k]`, `token` | the run's turn in `running_jobs` and its cancellation token |
| `todo` | what a handler does after its transaction: start, cancel, upload |
| `out`, `slot`, `page` | the `task` blob in the authority's outbox, on the relay, and read by a Device |
| `log`, `ran`, `restarts` | history: what the authority committed, runs whose turn began, and restarts so far |

`Claim` is `claim` and the registration of the job, which follow one another
without an await. `FinishDelivered` is a report until its receipt answers it: a
repetition changes nothing. `Restart` includes `tasks::recover`, which
`main.rs:352` runs before the sync loop of `main.rs:379` starts. A sealed
`job_cancel` reaches its Runner after the job it names, as both go through one
outbox. Goal, criteria, evidence, attention items and dependencies are left out:
two records of one revision are the same record.

`WorkRun.tla` is the abstract promise: runs come one after another, each works at
most once and only while it is the active one, a state recorded meanwhile stays,
and the run itself leaves the task blocked or, if it worked, awaiting review.
`RunsFollow` checks that `Tasks` implements it.

Bounds (`MCTasks`): two runs are what an overlap or a late report needs (`runs`, with one
restart of the Runner that is not the authority, also between opening a job and claiming it, and
four calls); one run and calls of the authority itself while that Device restarts at any point,
also between a commit and `cancel_run` (`stops`, bound `Once`); three calls from the replica
(`Away`) let one create the task, one run it and one change it while it runs (`calls` with
history uploaded late, `reads` with refreshes). `RunsSettle` is checked in part `work` of
MCLive: one run, one restart of each Runner.

`TaskGraph.tla` models the cycle check of `dependencies` (mod.rs:475–490), which
follows the records a Runner holds: `edits` are the revisions of each task, `held` those
each Runner has, and `behind` (history) of which tasks the authority held an old record when it
accepted an edit. Part `graph` of MCRunner checks `Acyclic` on three tasks of two authorities
with lagging replicas, each edited twice. Two authorities may each accept one half of a cycle:
`Acyclic` says that in every cycle one of them did so on an old record of another task in it,
and `OwnAcyclic` that the tasks of one authority form none. The walk's limit of 4096 tasks is
left out.

## Review queue

`ReviewQueue.tla` models one proposal (`review_queue.rs`) and the executor of
approved calls (`review_execution.rs`), with several processes on the Runner's
store and Devices that lag.

| Model | Code |
| --- | --- |
| `item`, `view[d]` | the `review_items` row of the Runner and of Device d: version, revision, state, payload, preconditions, approval |
| `calls[c]` | a call of `serve`: asked, then prepared (it awaits without the lock), then compared with the stored record and answered |
| `exec[p]` | `execute_approved` in process p: queued, loaded, claimed, verified, calling, called, ending |
| `wake[p]` | the permit of `review_wake` that p's loop waits for |
| `world`, `allowed` | what the preconditions capture, and whether `authorize_execution` passes |
| `out`, `slot`, `reread` | the `review` blob queued, on the relay, and what `enqueue_owned` has read |
| `approvals`, `effects` | history: what was approved and shown, and the calls made |

`Call` is the provider's call: its effect and its return are separate steps, so a
process may stop in between. `Restart` is `recover_interrupted`; `Lose` and
`TakeBack` are a Runner that comes back without its store and takes the account's
older record. Payload kinds, the chat notice, drafts, task evidence, attention and
size limits are left out.

Bounds (`MCReview`): in `executors` two processes on one store, which is what contends for
one claim, two calls and two restarts or losses of the store; in `edits` one process, a
Device that lags, two payloads and three calls (a proposal, an approval, and one edit or
refusal are what a race needs), and one change of the world or of the bot's Access; in
`reupload` two calls while history is uploaded again. Liveness is checked in `executors`.

## Chats

`ChatTurns.tla` models a direct chat on its bot's Runner: what a turn of it takes as its
own to answer (`turns.rs`), how messages steer it and how Send now and Stop end a step
(`app.rs`, `plugins/mcp.rs`), and the agent loop as a turn runs it (`agent_loop.rs`).

| Model | Code |
| --- | --- |
| `said`, `note` | the messages of the chat, with `promoted_at` and `queued` |
| `hear`, `copy` | `steer`: the message's way from its store to the queue of the turn that runs, with the note it has read |
| `job`, `stopped` | the job each message admits, and those whose token is cancelled |
| `queue`, `turn` | the steering queue, and the turn that owns the chat lock with where its loop is |
| `replies`, `stops` | counters of the bounds |
| `taken`, `carried`, `cut` | history: the turns that took a message as theirs, messages in a request to the model, and messages a step was cut for |

Bounds: part `chat` of MCLive has three messages (one that is answered, one that steers
and one that comes after), one call to a reply, questions nobody answers, failures and a
Stop; `stuck` two messages, two calls in each of two replies, refusals, two Stops, and
calls that ignore their cancellation. `MaxMessages` is 3.

What the two parts leave out is a state the code can be in, and is named by `Occurs`:
`"after"`, `"overtaken"`, `"between"`, `"disorder"` (see Findings). Groups and their rooms,
what a turn says, compaction, the retry of a full context, parallel calls, and the restart
of local jobs are not modelled.

## Event triggers

`EventInbox.tla` models one subscription of `event_triggers.rs` with the relay's copies of
its deliveries, its inbox and its turns.

| Model | Code |
| --- | --- |
| `sub` | the subscription: enabled, policy, generation of its route, problem, whether it is a channel |
| `state`, `position`, `received` | a delivery's row (or the mark that is left of it), its place and its age |
| `occurred`, `route`, `relay` | when the service's event happened, the route the gateway holds, and sealed copies on the relay |
| `scan` | `tick`: what it has read and where it is |
| `queued`, `stopping`, `turn`, `busy` | registered jobs, those stopped, the turn of the chat, and another turn |
| `here`, `away` | whether the bot is this Runner's, and whether nobody has written for a week |
| `runs`, `asked` | history: turns begun, and retries the user asked for |

Bounds (`MCRunner`): `inbox` two deliveries, a pause or a stop, and a restart at any point;
`late` one delivery with four calls behind other turns; `chats` two deliveries under either
policy and a channel; `copies` one delivery over three windows, two routes and a retention
of one; `filters` one that does not match. Two deliveries are what holding, coalescing and
order need. Time is in units of the window in which a copy is accepted, and the only
assumption is that marks are kept no shorter (`InboxConstants`).

## The account's log

`AccountLog.tla` models the log of the relay (`relay/src/db/sqlite.rs`) as Devices write and
read it (`sync.rs`, `local_store.rs`): one blob to a slot, superseded by newer versions that
go to the end; the roster, which each Device writes whole; deleted groups.

| Model | Code |
| --- | --- |
| `log`, `head`, `gone` | `blobs` with their `seq`, the last one given, and `deleted_groups` |
| `past`, `early` | history: blobs the relay has superseded, and versions a first sync took that the log gives again later |
| `known[d]`, `last[d]`, `applied[d]`, `saved[d]` | the roster, `last_seq` and `applied_blob_ids` in memory, and what of them is on disk |
| `store[d]`, `pos[d]`, `before[d]` | versions and positions of messages, and where d's copy of a chat begins |
| `outbox[d]`, `deletes[d]`, `unsent[d]`, `pushes[d]` | blobs to upload, groups to delete, a message stored and not yet queued, rosters queued |
| `sync[d]`, `reading[d]` | a session's stage and page, and a page read backwards |
| `made`, `changes`, `cuts`, `restarts` | ids used, and counters of the bounds |

Bounds (`MCAccountLog`): `rosters` three changes by two Devices, with two bots and a group,
which is what a merge of three ages needs; `retries` two changes, one lost answer and one
restart; `joins` a newcomer to three messages of two versions, one of them a tool row whose slot
keeps no first blob, with pages of one; `meets` a newcomer to one message while another is first
sent and both are edited, and a restart of either Device; `deletes` a message of each Device,
one delete, one lost answer, one restart; `groups` a group made and written in while the roster
changes twice.

Left out: quotas and byte budgets, unread marks, files, a relay that lost the account,
members added to or removed from a group, renames, and the sweep of a deleted group's mark.

## The account's keys

`AccountKeys.tla` models the generations of the account's key: rotation after an
unpairing, keyrings handed on, and what was sealed by which generation.

| Model | Code |
| --- | --- |
| `log`, `head`, `listed`, `revoked` | the relay's blobs, its machines and `revoked_machines` |
| `dev[d].ring`, `.unpaired`, `.peers` | the keyring of the machine file, and the roster's Devices |
| `dev[d].outbox` | the outbox's rows by their places; keyrings go ahead of everything |
| `dev[d].recent`, `.turned`, `.lost` | `recent_uploads`, the keyring's place of the last change, and records a restart has forgotten from the former |
| `dev[d].held`, `.store` | blobs held for a generation not yet here, and messages applied |
| `dev[d].at`, `.since`, `.last`, `.first`, `.due` | the session: connecting, reading keyrings, draining, pulling, waiting; its positions; `rotation_due` |
| `unpairing`, `pairing` | `unpair_device` and `wait_for_request` between the relay's answer and the record of it |
| `written`, `made` | the records and generations there are |
| `halfway` | history: Devices that a restart left half paired or half unpaired |

Bounds (`MCAccountKeys`): `rotate` a Device that writes while a rotation reaches it late; `cuts`
one that unpairs while another rotates, with a failed session; `makers` two identity devices
that rotate at once; `joins` a Device paired during an unpairing; `restarts` a restart of
either, also between the relay's answer to an unpairing and the Device's record of it. Two
Devices that run and one that is unpaired are the least that can hand a keyring on. A page has
one blob, a Device stops only between steps, a stop in mid pairing is too large for TLC and is
only in the theorem on `LeftOut`, lost answers are in AccountLog, and a newcomer's first sync is
its pull of the log so far.

## Connector limits

`ConnectorLimits.tla` models the buckets of one service's accounts
(`connector_limits.rs`): each call takes a start from its account's and from the service's.

| Model | Code |
| --- | --- |
| `limits`, `starts`, `active`, `until` | a bucket's setting, starts with their times, running calls, and the cooldown |
| `stored` | the store's copy of the first two and of the cooldowns |
| `call` | a call: waiting in `acquire`, running with its permit, done |
| `began`, `guided` | history: every start, and the latest moment the service asked to wait for |

Bounds (part `limits` of MCRunner): three calls of two accounts, a window of two in three
units of time, one setting or cooldown, one restart, and writes the store refuses. All
windows are equal: a longer window set later would cover starts that were already let go.

## Budgets

`Budgets.tla` models the ledger of `budgets.rs` and its runtime half: scopes of a chat, a
routine and each Job, the work that counts toward them, and grants.

| Model | Code |
| --- | --- |
| `rec[s]`, `receipts` | a scope's limits, usage, reservations, running work and start of its time; requests to resume that were granted |
| `unwritten`, `resumed` | Jobs the user has yet to write, and those a resume started that wait for the chat's lock |
| `work`, `keys`, `deadline` | a turn, run, check or hold of a coding agent, the scopes it counts toward, and when it is cut off |
| `call` | a model call: open with its reservation, done |
| `spent`, `ran`, `renewed` | history: tokens used, time worked, and grants |

Bounds (`MCRunner`): `timed` a turn, a check in it, an agent that stays and a run within a
time limit of two; `called` two attempts with plugin calls while the limits change; `shared`
two model calls at once of a turn, a check and a run under three tokens, with writes the
store refuses; `granted` two turns, stopped and resumed, over a restart. A model call
sends one token, asks for two and may use one past its reservation.

Left out: money, retries of a model call, the deletion of chats and routines, the expiry of
receipts, the merge of another Device's ledger; a task's scope is as a routine's.

## Routines

`Routines.tla` models one routine (`routines.rs`, `schedule.rs`): the tick that takes a due
time, its check with back-off and sign-in failures, runs by hand, and rosters of another
Device.

| Model | Code |
| --- | --- |
| `routine` | the Runner's record: on, paused, due time, last taken, health of the check |
| `out`, `copy`, `sent` | rosters on their way, and the other Device's record |
| `scan`, `look`, `checking` | the tick, a check under way with the record it began with, and `routine_checks` |
| `jobs`, `turn`, `hand` | runs that wait, the run that goes on, and `run_now` between its test and its start |
| `stamps`, `own`, `signedOut` | the clock of edits, and history: what the Runner wrote last, and the arming a third failed sign-in ended |

Bounds (`MCRunner`): `ticks` four times without a check while rosters arrive; `sign` a check
that has failed twice to sign in, with two calls; `looks` one that has failed once to connect,
over a restart and failed saves; `edits` a check that is changed. The interval is one unit,
which is also the first back-off; the rest of the back-off is the table `Backoff`. `"older"`
lets a roster arrive that was written before the Runner's routine was last armed. The run
`routine_signed_out` needs five calls and no time at all. Calendars, one-time and event
routines, budgets, moves and deletion are left out.

## Fairness

Liveness is checked only under weak fairness of steps the code's loops repeat:

- `drain_outbox` retries with backoff until an upload is answered, and the sync loop pulls
  after every wake, so draining and applying are fair while the relay is reachable.
- A report of a run is sent again every ten seconds until it is taken (`execution.rs:314`).
- A turn's own steps are fair, since its limits, its provider's timeouts or the user end it.
  In a chat this is not assumed of a question, nor in `stuck` of a call or its check.
- The executor's loop waits for its permit and goes on (`review_execution.rs`).
- A Device's session goes on as long as it is ready (`Settles`). The ENABLED of `Session` is
  too large for TLC to evaluate at every state, so MCAccountKeys states it as `Goes`, by the
  condition `Ready` under which a session has a step.

Users' calls, Stops, restarts, lost answers and cut sessions are never assumed. In an MC
module the fairness of an instance is conjoined with its part, so that it says nothing of
the others.

## Proofs

TLC shows a property on the instances above; the theorems below hold for every value of
the constants, under the hypotheses named. Where none is, only the named assumption of the
module's constants is used. Each proof has the same shape: an inductive invariant,
`Init => IInv`, one lemma per action for `IInv /\ Action => IInv'`, and `IInv => Property`
(or, for an action property, `IInv /\ [Next]_vars => [A]_vars`). The parts of each
invariant were first checked by TLC as invariants of an instance.

| Module | Theorem | States | Hypothesis |
| --- | --- | --- | --- |
| HandoffsProofs | `TypeCorrect`, `OneReport`, `OneCancellation`, `AtMostOneTurn`, `OutcomeIsFinal`, `NoneAfterCancel` | `TypeOK`, `ReportsAgree`, `CancellationsAgree`, `OneTurnPerJob`, `SourceOutcomeFinal`, `NoTurnAfterCancel` | |
| | `OneWake` | `OneWakePerReport` | |
| | `AttemptsInOrder` | `KeepsPromise` (refinement of Delegation) | `OneAsker` |
| TasksProofs | `TypeCorrect`, `Replication`, `NoReplicaGoesBack`, `NoUpdateLost`, `TurnsDoNotOverlap`, `TurnsDoNotRepeat` | `TypeOK`, `ReplicasFollow`, `ReplicasAdvance`, `NoLostUpdate`, `OneTurnAtATime`, `OneTurnPerRun` | |
| | `ImplementsWorkRun` | `RunsFollow` (refinement of WorkRun) | |
| | `StopsArrive` | `StopsReach` | |
| | `CyclesNeedOldRecords` | `Acyclic`, `OwnAcyclic` of TaskGraph | |
| ReviewQueueProofs | `TypeCorrect`, `RunsOnce`, `RunsAsApproved`, `EndedStays`, `CallsUnderClaim` | `TypeOK`, `OneEffectPerApproval`, `EffectAsApproved`, `EndedIsFinal`, `DecisionsStand` | |
| | `ApprovedWhatWasShown` | `ApprovedAsShown` | `"lost" \notin Occurs` |
| EventInboxProofs | `TypeCorrect`, `OneHolds`, `NoneUnasked`, `WorkIsRecorded` | `TypeOK`, `OneHeld`, `NoUnaskedRun`, `WorkRecorded` | |
| ChatTurnsProofs | `TypeCorrect`, `EveryCallAnswered` | `TypeOK`, `CallsAnswered` | |
| | `HeldAreUnread` | `HeldWaits` | `InOrder` |
| | `AllAnswered` | `AnsweredOrStopped` | `InOrder`, `Quiet` |
| | `AnsweredOnce`, `CutIsRead` | `ReadOnce`, `CutReads` | `InOrder`, `ByOrder` |
| AccountLogProofs | `DeletedStays`, `NothingElseGoes` | `DeletedForGood`, `KeptUnlessDeleted` | |
| AccountKeysProofs | `UnpairedLeftOut` | `LeftOut` | |
| RunnerProofs | `CallsStayWithin` | `StaysWithinLimits` | `"forgotten" \notin Occurs` |
| | `RoutineTyped`, `RoutineDueOnce` | `TypeOK`, `TakenOnce` of Routines | |
| | `BudgetsTyped`, `SpentWithinGrants` | `TypeOK`, `WithinGrants` of Budgets | |
| | `WorkCounted` | `CountsItsWork`, `TimeCounted` of Budgets | `"unsaved" \notin Occurs` |

### Handoffs

`IInv` is `TypeOK` with `RecordInv`, what the records of all Devices have in common (each is
well kept, reports agree with the turn that ran, cancellations with the requester's own,
what ran is reported or still running), and that every blob in an outbox, on its way or
being opened is `Truthful` in the same sense: `ReportsAgree` alone says nothing of a report
still under way, which a merge will believe. A job's first start is guarded by
`opened_envelopes` and by the record; that the record cannot be reset in between is what
makes `AtMostOneTurn` inductive.

`WakeInv` adds where a report stands between being routed and having its continuation run,
over a restart at any of those points. `NoneAfterCancel` needs `NoticeInv`: what
`calledOff` says, the record was told before. The cancel's update leaves Source's outbox
before the `job_cancel` envelope, is stored before it and read before it; `RecordsGrow` (no
Device takes back what its copy says) carries that through replays, so an answer that is
lost and an upload that is repeated change the order of nothing.

`AttemptsInOrder` is under `OneAsker`: `"limit" \notin Occurs \/ Source = Target`, i.e. only
the requester's Runner makes attempts. That is not a convenience. With a resume by
Target, two Runners number attempts and the promise may break with three attempts, as
the merge of `handoffs.rs` 316–361 compares an attempt only with its own number; the run
`handoffs` checks `KeepsPromise` with resumes for two, where it holds.

### Tasks

`Follows` says of every copy of the record (a replica's, a blob, an envelope's, a reply's)
that the authority committed it (`Held`); `Based` that a call's revision was shown to its
caller. `RunsKept` is the invariant of the turns: for each run, how its journal, job, turn,
finish and receipt fit together (`RunKept`), and that at most the active one works.
`WorkRunStep` maps each action to a step of WorkRun or to a stutter.

`StopsSent` follows a stop from the commit that asks for it through `todo`, the outbox and
the Runner to the token (`WordKept`). `todo` is only in memory, so one step may lose the word
and the property names it: a restart of the authority while the cancel is still to do (`Forgets`).

For dependencies, `EdgesKeepAcyclic` is a lemma on paths: an edit that adds edges from t to
D, with t unreachable from D, closes no cycle, because what D leads to is the same before
and after it. `CyclesNeedOldRecords` applies it to the tasks of a cycle that an edit would
close: if the authority held the newest record of each of them, its walk met the task itself and
the edit was refused, so some record was old; and a Runner's records of its own tasks are never
old (`Owned`).

### Review queue

`Safe` is what a single executor's steps rest on: an approval that stands has not been spent
(`StandingUnspent`), a claim is held by one process (`HeldOnce`) and for an unspent approval
(`HeldUnspent`), as approved (`HeldAsApproved`). `PreparedInv` is about the calls that await
without the lock: what they compare with the stored record afterwards has not ended. `HoldInv`
ties a process that holds a claim to the item, which stays executing as claimed, or uncertain if a
start found it so. `VersionInv` says that a copy of the Runner's version has the Runner's payload
and no copy is newer; a Runner that lost its store counts versions from an older record, so this
and `ApprovedWhatWasShown` need `"lost" \notin Occurs`.

### Event triggers

The proof counts. A *ticket* of a delivery is a job of it that may still begin a turn (just
admitted by the tick, registered, or with the chat's lock), or its place in the queue while it is
pending; `Ledger` says that runs and tickets together are at most one more than the retries asked
for. The other parts say that a delivery at work stays running until its turn settles (`AtWork`),
that one that holds is alone (`OneHeld`), and that what is purged leaves a mark until no copy of
it can be accepted (`Marked`), which is where `InboxConstants` is used.

### Chats

`Called`: a step that was not cut ends with the results of all its calls. `Waiting`, `Untouched`
and `Held` relate a message's note to the queue, the turn and its own job. `Covered`: what a turn
promoted it holds for its next request, until that request is made or the user stops it. `Order`:
jobs before the one with the lock have ended; `Single`: a message some turn took is promoted or
its own job has come, so no second turn takes it. The hypotheses exclude states the code can
reach, each described under Findings: `InOrder` a turn that reads the chat while a message is
between its store and `steer` (`"overtaken"`), `Quiet` a message to a stopped turn (`"after"`),
`ByOrder` jobs that take the lock in another order than their messages (`"disorder"`).

### The account's log and keys

A roster is written whole, so what is deleted can come back from any copy of an older one.
The invariant of AccountLogProofs therefore follows every roster there is, in memory, on
disk, queued, uploaded or in a page being read: each is `Sound` and names only ids that were
made, and disk differs from memory at most in placeholders (`Close`). That a deletion wins
each merge is then an algebraic fact about `Merge`, stated as lemmas.

`KeysInv` says the same of keyrings: every item anywhere is `Clean` (whom it leaves out is
revoked, and it carries no generation to a Device it leaves out), and every Device `Safe`. The
relay's revocation comes before the rotation in `unpair_device`, through a cut and a restart.

### Connector limits

`LimitsInv`: every call that started within the window is among its buckets' starts, in
memory and in the store (`StartsKept`), since a call begins only after both were written; a
bucket's count is the number of calls that run under it (`RunningCounted`), which is what a
service that is forgotten while they run breaks; an account waits until the latest moment its
service asked for (`WaitsKept`).

### Budgets

A scope's reservations are a sum over its calls, so the proofs rest on what such a sum is:
that one more, one less or one changed element adds, drops or changes just that (`TotalIs`,
`TotalAdds`, `TotalChange`). The prover cannot instantiate an induction rule, but it can cite
that strict inclusion of finite sets is well founded: a least set that a lemma fails for would
have a smaller one (`EverySubset`).

`BudgetInv` says of each scope how its count, its clock and its work go together: no
work outlasts its record, the clock runs exactly while the count is positive, and the count is
never below the work there is. A write the store refuses at the end of a work leaves it counted
until the next start, so exact counts (`WorkCounted`) need `"unsaved" \notin Occurs`.

`WithinGrants` is not inductive: a resume starts the usage anew while calls of before are
still open. `Grants` therefore bounds what was spent together with what open calls may still
spend, twice: by all the grants, and by the grants before the last one plus what the record
has as used or reserved. The second is what a resume turns into the first. `Lent` says
where a scope's limits come from and that a request without a receipt was refused for a limit
of nothing, so it granted nothing and may be delivered again. No hypothesis is needed:
refused writes and restarts are included.

### Routines

`KeptInv` says what every copy of the routine that may still reach its Runner has to do with
the Runner's own: no copy is newer than the clock of edits (`StampsKept`), and a copy of the same
arming whose health is no older keeps what the Runner wrote of failures (`CopiesKept`), since
`keep_checks` takes the health of the newer stamp and not each part of it. `Moves` is what a step
may do to the records; each action is shown to do only that, and `MovesKeep` that it suffices.
That the pause after three failed sign-ins stays is not proved: the code breaks it (Findings).

### What stays with TLC

- Liveness (`MessagesCarried`, `StopEnds`, `AttemptsEnd`, `RunsSettle`, `ApprovalsEnd`, `Settles`)
  and whatever needs ENABLED are out of the prover's reach.
- `RostersAgree`, `CopiesAreWhole`, `KeysAgree`, `MessagesTaken`: what has converged when nothing
  is under way. They are bounded claims; `CopiesAreWhole` would need an invariant of every page
  and position a Device has read.
- `TasksAcyclic`, `CallsWithinLimits`, `BudgetsCount`, `BudgetsBound` and `RoutineTakenOnce` are
  properties of parts of MCRunner; they are proved as `Acyclic`, `StaysWithinLimits`,
  `CountsItsWork` and `TimeCounted`, `WithinGrants` and `TakenOnce` of the component itself.

No module declares a RECURSIVE operator; what a path computes is stated by its closure
(`Within` in TaskGraph).

## Findings

Five runs expect a violation of what a comment, a document or a test says.

- `handoff_resume_race`: `resume_stopped` on Target and `follow_up` on Source may both make
  attempt n+1. Each Device keeps the one it saw first and refuses the other, so the resumed
  attempt runs and reports on Target and the requester never reads it, although
  `handoffs.rs:801` says its result reaches the requesting bot like any other.
- `review_wake_lost`: `run` skips an approved item whose id is still in `running` and takes
  the permit with it. An approval saved while the item's earlier task still prepares is run
  by nobody until another item is approved or the Runner restarts, although
  `review_execution.rs:685` says that a permit is not missed.
- `chat_after_stop`: a message sent while a stopped turn winds down is taken by that turn,
  which makes no request; its own job finds it promoted and exits (`turns.rs:311`), although
  `runtime.md:71` says that delivery survives.
- `account_group`: a roster whose Device deleted a bot before it learned of a group drops the
  group on the Device that made it (`sync.rs:1270`), although `protocols.md:49` says what no
  Device deleted is kept.
- `routine_signed_out`: `keep_checks` (`routines.rs:400`) keeps the due time, health and pause that
  the Runner has over a roster written earlier, but not `enabled_at`. The
  user pauses and resumes a routine while its run fails the third sign-in, and the run's end pauses
  it; a roster from before that resume takes `enabled_at` back, and a later one, with the resume but
  without the new pause, counts as newer and turns the routine on, although the comment at `routines.rs:398`
  says that the Runner's newest checkpoint is preserved, and `routines.md:23` that the pause
  lasts until the user resumes.

Some properties name the one case in which the code does not do what its documents say. Their
runs reach that case, and a reader should not take them for more than they say.

| Property | Case it names | What the documents say |
| --- | --- | --- |
| `StopsReach` | the authority restarts after the commit and before `cancel_run`: the turn goes on | leaving `working` sends a cancellation (docs/architecture/tasks.md:37) |
| `TasksAcyclic` | two authorities each accept one half of a cycle, one of them on an old record | dependencies form an acyclic graph (tasks.md:11) |
| `RostersAgree` | the relay knows an upload's id only while its row stands (`sqlite.rs:571`); when another Device's roster superseded it, the repeated upload is taken as the newest and removes that roster, which its own Device skips as applied (`sync.rs:816`) and the others never see | an upload is idempotent (relay.md:57) |
| `CopiesAreWhole` | `TakenEarly`: a message is first sent during a first sync and edited before its chat is read; the newest page gives version 2 and remembers it (`sync.rs:315`), the log then gives the first version, which `upsert` writes over it (`local_store.rs:318`), and skips version 2 as applied | what landed meanwhile changes nothing (`sync.rs:260`) |
| `KeysAgree`, `MessagesTaken` | `halfway`: a Device whose pairing or unpairing a restart cut between the relay's answer and the record of it | nothing |
| `MessagesTaken` | `LeftBehind`: what went up before the keyring's place stays under the old key; `lost`: a restart forgets what was to go up again | both are documented (relay-trust.md:57–61) |

Other properties hold in their runs only because an instance leaves out one occurrence the
code is exposed to. Adding it to the instance gives the counterexample.

| Property | Occurrence left out | What happens with it |
| --- | --- | --- |
| `RunsSettle` | `"unclaimed"` | the envelope is remembered, the run is not claimed, and nobody reports it |
| `ApprovalsEnd` | `"access"` | authorization fails after the claim; the item stays executing until a restart |
| `ApprovedAsShown` | `"lost"` with `"edit"` | after a loss of the store version numbers repeat |
| `StaysWithinLimits` | `"forgotten"` | a service's buckets are dropped while calls run (`app.rs:682`) and their permits no longer count |
| that replicas catch up (no run's property) | `"reupload"` | `push_all` and `enqueue_owned` queue an older record last, and a Device that starts later sees that one |

What follows was met while modelling, with the model or by reading beside it.

Chats:

- A Stop while a held message's own job waits: the job is skipped without clearing the mark,
  so the message still shows as waiting (`app.rs:2206`, `runtime.md:71`).
- Send now between a poll of the queue and the begin of the next step interrupts nothing,
  though `send_now` answers true (`agent_loop.rs:253`).
- A message that comes between reading the transcript and registering the turn's interrupt
  (`turns.rs:311`, `:404`) is not seen by a question of that turn, which holds it back for
  up to ten minutes (`mcp.rs:2999`). This is `"between"`.
- Jobs may take the chat's lock in another order than their messages (`"disorder"`), and a turn
  may read the chat, or a Stop come, while a message is on its way to `steer` (`"overtaken"`,
  `turns.rs:670`). `ReadOnce`, `HeldWaits` and `AnsweredOrStopped` are checked without them.

Event triggers:

- A settled delivery becomes pending again when its routine is paused and the chat busy:
  `event_triggers.rs:967` writes before the test of who owns it at `:985`.
- A retry, a turn that waits for the chat or a pause puts an admitted delivery back to pending
  while newer ones coalesce what is pending (`:891`), so deliveries do not always run in the
  order they arrived.
- A bot that moves leaves a delivery running until the Runner restarts; `hold` can overwrite a
  sign-in problem; an error of one subscription ends the tick for those after it.

The account's log:

- A deleted chat may leave an empty placeholder (`sync.rs:1299`).
- A first sync that is cut, then an edit, then scrolling back: `insert_older` moves only the
  stale version.
- Two Devices that each delete one of a group's two bots leave a group of none (`bots.md:31`).

Keys:

- `upload_again` takes the first of a slot's versions, so a newer one is missing until the next
  edit (`sync.rs:1024`, against the comment at `:1008`); a restart forgets what it would have
  uploaded (`relay-trust.md:57`).
- A stop between saving the machine file and forwarding keyrings, between `unpair_device`'s
  revocation and its record, or between a pairing's reply and its record, leaves the other
  half undone until a later rotation or pairing (`halfway`).
- When two Devices rotate at once, messages under the generation that loses may never be
  taken, and blobs held for it stay held until the next change of key.

Budgets and connector limits:

- An `end_runtime` whose save fails leaves its scope running until a restart
  (`runtime.rs:197`), and a check cut off by the loop's grace never calls it.
- A resumed Job that waits for the chat's lock while a newer turn replaces its record starts
  with full limits again (`runtime.rs:60`); a grant's receipt is committed before its run
  starts (`budgets.rs:521`), and a renewal whose save fails keeps the reset use without one.

Routines:

- A resume or edit made on another Device from an older copy replaces `last_scheduled_at`, so
  a due time runs again (`routines.rs:401`, documented), takes back `last_run_at`, or turns
  on again what a failed sign-in paused and the user paused in between.
- A stop between saving the due time and starting the run loses it (`routines.md:19`), as does
  a failed save of the check's health or a stop between the check and the run.
- The turn's third failed sign-in may fall between the tick's read and `pause_while_away`, which
  overwrites the reason of the pause (`"away"`); a stale roster then turns the routine on.
- `run_now` tests and then starts (`:487`), so two runs may be queued; `model_result` reads
  and then writes the streak of failures (`:555`).

## Further hazards

Besides those of `PROJECT.json`, with no property yet. Not listed again are hazards that the
properties above do cover beside the one they are listed for: replays after a crash
(`sync.rs:418`), reports routed twice (`handoffs.rs:1083`), calls that wait on several buckets
(`connector_limits.rs:177`), a resume delivered again (`budgets.rs:501`), deliveries handed
again (`event_triggers.rs:940`), checks that end after an edit (`routines.rs:741`).


- `crates/cli/src/sync.rs:566`: an item the relay refuses with a client error is dropped from
  the outbox; a quota or a deleted group makes the Device hold what no other Device has.
- `crates/cli/src/sync.rs:509`: a relay that lost the account gets it back from every Device
  at once, each with its own age of every record.
- `crates/cli/src/sync.rs:821`: a blob's id is remembered as applied before it is applied.
- `crates/relay/src/db/sqlite.rs:797`: the mark of a deleted group is swept after its time; an
  upload queued longer brings messages of the chat back.
- `crates/cli/src/review_queue.rs:395`: an item restored from another Device's older record
  counts its versions on from there.
- `crates/agent/src/agent_loop.rs:948`: a tool or a check that ignores its cancellation is cut
  off after a grace while it still runs; parallel calls are not modelled.
- `crates/cli/src/sync.rs:442`: the results of a bulk page are applied after `last_seq` is saved
  past them; a stop in between loses a turn's end.
- `crates/cli/src/tasks/execution.rs:8`: `tasks::start` reads claimed runs beside the sync loop;
  a job claimed before that read would be reported interrupted while its turn runs. `recover`
  comes first in practice and is one step with the restart in the model.

## Not modelled

The relay's service around its log (signatures, sockets, rate limits, push): clients poll as
well, so nothing rests on a signal. Attention, project context, playbooks, drafts, outputs
and channels: records merged by revision, the question `ReplicasFollow` answers for tasks.
Secrets, providers, tools, coding agents, browsers, workflows: outside processes. Templates,
updates, the local API, the apps and the website. `PROJECT.json` gives the reason for each.

## Plan

1. AccountLog: a proof of `InOrder` and `HereWhole`, from an invariant of the pages a Device reads.
2. AccountKeys: a proof that the generations of two makers meet; a stop in mid pairing under TLC.
3. Models of the further hazards above: a relay that lost the account, and parallel calls.

## Running the checks

`tlc -config X.cfg M` for each row of `runs` in `PROJECT.json`; each takes from one to about
three minutes on two workers. `tlapm M.tla` for the eight modules `*Proofs`; HandoffsProofs
and RunnerProofs take up to ten minutes and the others less. The mutants in `PROJECT.json` are
small slips of the code, defined before what they replace (their comments begin with `Slip:`);
each makes the property it is listed with fail in its run.
