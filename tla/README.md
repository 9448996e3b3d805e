# AutoStory: a verification project

AutoStory acts through the owner's Telegram accounts, and through a Facebook Page: it
posts to chats on a schedule, sends direct messages now or later, publishes stories, lets
an AI agent write to people. Every one of these crosses the same gap. A row in SQLite
says what is intended, a remote service is asked over a connection that may break, the
process may die at any point, and the row has to say afterwards what happened. Around it
several processes, which share the database and the session files of the accounts, work
on the same rows. The project models the components that cross that gap, checks them with
TLC on small instances and proves the main results with TLAPS for every value of the
constants.

Paths are relative to the repository; `executor.py:243` means
`src/scheduler/executor.py`, line 243, and so on for unique names.

## Contents

| module | models | theorems |
| --- | --- | --- |
| `SchedulerJobs` | the queue of chat posts: claims, leases, the executor, `message_deliveries`, `run_job_now.py`, the operator's cancel | `SchedulerJobs_proofs` |
| `OneShotSend` | abstract: what an idempotency key promises | |
| `OwnerDm` | `send_now` and `owner_dm_intents`, any number of concurrent callers; refines `OneShotSend` | `ScheduledDms_proofs` |
| `ScheduledDms` | direct messages as scheduled jobs, sent through `send_now`; extends and refines `OwnerDm` | `ScheduledDms_proofs` |
| `GatewayQueue` | abstract: what the gateway's queue promises those who enqueue | |
| `TelegramGateway` | the `telegram_gateway_jobs` queue and its worker; refines `GatewayQueue` | `TelegramGateway_proofs` |
| `AiDrafts` | the AI agent's tasks, drafts, approvals and autonomous loop, over `GatewayQueue` | `AiDrafts_proofs` |
| `StoryRuns` | controlled live story runs with sessions, steps, counters | `StoryRuns_proofs` |
| `CanaryPublish` | the Meta connection and the one-post authorisation of a Facebook canary | `CanaryPublish_proofs` |
| `JobGeneration` | rules, targets and bindings, the daily generator, the jobs it makes | `JobGeneration_proofs` |
| `SessionPools` | session locks, the client pools of all processes, and the operations that use them | `BulkSchedule_proofs` |
| `BulkSchedule` | one message scheduled for many accounts, with its ledger; extends and refines `SessionPools` | `BulkSchedule_proofs` |

`<M>MC` gives the constants of `M` their values, `<run>.cfg` is one run. The theorem
modules extend the modules they are about; `ScheduledDms_proofs` has the theorems of
`OwnerDm` first and rests the others on their lemmas, as `BulkSchedule_proofs` does with
those of `SessionPools`.

A module has, in this order: constants and their named assumption, variables, the type
invariant, `Init`, the actions, the specification, the properties. Before some
definitions stands a *slip*: the definition got wrong the way it might be in the code (a
guard dropped, a reset forgotten, a condition too weak), named after it with a suffix. No
specification uses a slip. Each is listed in `PROJECT.json` with the property that fails
when it takes the place of the right definition, so that each property is known to notice
something.

## The system

Processes on one host, under systemd, over one SQLite file:

* the **web** service, gunicorn with one synchronous worker (`autostory-web.service:13`),
  which also runs the thread of the AI loop;
* the **scheduler**, one loop per host (a flock in its start script), which generates the
  day's jobs and executes what is due;
* the **gateway** worker, which sends what the AI agent and certified jobs enqueue;
* the **readiness** worker, which observes accounts over throw-away copies of sessions;
* operators' **scripts**, `run_job_now.py` among them, and an operator's **bot**.

They meet in four places: the rows of the database, where SQLite has one writer at a
time; the flock of an account's session file (`core/session_lock.py`); the chats, whose
history the gateway can look a message up in; and Telegram's view of an account, which
the code cannot read.

What each part keeps, what can be done to it, what is hard, and what would make it wrong:

**Scheduler queue and loop** (`scheduler/job_claim.py`, `scheduler/worker.py`). State:
`scheduled_jobs` (status, `run_at`, `lease_until`, `lease_owner`, `last_error`).
Operations: claim a due job, fresh work first and stale RUNNING work second; claim up to
ten, execute them one after the other, sleep. Hard: a lease covers a job from the claim,
but the job may wait in the batch; the reclaim that follows a crash must neither lose the
job nor repeat its message. Correct: one executor at a time, no double post, no job stuck.

**Job executor** (`scheduler/executor.py`, `scheduler/pacing.py`,
`scripts/run_job_now.py`). State: local variables across some twenty awaits and
transactions; `message_deliveries` rows (SENDING, SENT, FAILED, UNCERTAIN). Operations:
status check, gates, reconciliation with earlier rows, preflight, guard, connect, resolve,
create the SENDING row, RPC, finalize, release. It defers to PENDING (pacing, locked
session), fails, skips, or leaves a job in doubt. Correct: a job is posted at most once;
what Telegram took is never recorded FAILED; SENT is only said of what was posted; an
account's session is driven by one process.

**Operator cancel** (`operator_control_routes.py:213`). Reads PENDING, writes CANCELLED by
id, for chat posts and direct messages alike. Races with the claim.

**Recurring jobs** (`scheduler/generator.py`, `generation_eligibility.py`, the rule,
target and binding pages of `scheduler_routes.py`, `clients/target_dedupe.py`). State:
`schedule_rules` with target ids in a JSON column, `chat_targets`, bindings, the date of
the last pass in the memory of the process. Operations: the daily pass; create, delete,
merge, bind and unbind targets; set, copy and delete rules; test jobs; cleanup. Hard: a
pass reads for a long time before it writes while the web process changes the same rows;
ids of deleted rows come back; the process restarts in the middle of a day. Correct: one
post per target and day, rules mean the chats their owner chose, no day is skipped.

**Owner direct messages** (`messaging/owner_dm_service.py`, `transport.py`,
`rate_policy.py`). State: `owner_dm_intents`, unique by idempotency key. Operations:
replay, gates, rate policy, claim (insert and commit), RPC, record. Hard: two callers of
one key, database errors after a confirmed send, death in the middle. Correct: one
acceptance per key, and no caller is told something untrue.

**Scheduled direct messages** (`messaging/scheduled_dm_service.py`, `executor.py:372-600`).
State: DM rows of `scheduled_jobs`. Operations: schedule, cancel (one conditional update;
the operator's, a read and an unconditional write), execution (check, overdue rule,
permission probe of a group, `send_now` under the key `scheduled-dm:<id>`, the job's
outcome). Interacts with owner messages through the intents and with the loop through
claims. Correct: outcome and cancel tell the truth whatever the leases do.

**Bulk scheduling** (`messaging/multi_account_schedule.py`, the Messages pages). State: an
idempotency row per batch, a marker in `last_error` of a job. Operations: preview with
every account, slots, claim of the key, find or make a job per slot, mark it, record the
answer; cancel. Hard: job, marker and answer are three commits, a request is sent again
after any of them, and the scheduler works on the jobs meanwhile. Correct: one job per
account of a batch, an answer that names the jobs there are, every job settled.

**Sessions and client manager** (`core/session_lock.py`, `clients/manager.py`, `joiner.py`,
`leaver.py`, `membership_check.py`, `messaging/owner_chat_service.py`,
`multi_account_join.py`). State: flocks, a pool of connected clients in every process.
Operations: `add_account`, `connect_account`, `remove_account`; reads, joins, leaves,
batches and membership checks over them. Hard: some operations drop the client they used,
some leave it, one replaces it, a disconnect may raise or be cancelled, a process may die.
Correct: a session file is open in one process, no lock outlives its client.

**Telegram gateway** (`telegram_gateway/*`, `core/p5d_gateway_reconciliation.py`,
`core/p5d_failpoints.py`, `ai_agent/telegram_single_sender.py`). State:
`telegram_gateway_jobs` (status, attempts, `run_after`, `updated_at`). Operations:
enqueue, claim a batch, allowlist, guard, look-up in the chat history for certified
sends, send or fetch, done / retry / failed, stale recovery. Hard: a retry or a recovery
after a send that did go out. Correct: accounts are serial, done means delivered,
certified messages go out once, every job ends.

**AI agent** (`ai_agent/service.py`, `auto_loop.py`, `task_target_dedupe.py`,
`operator_commands.py`). State: tasks, message rows, conversation. Operations: create,
pause, resume, complete; generate, approve, synchronise; the loop that does the same. Hard:
an approval waits 120 s for the gateway and gives up while its job lives on; two approvals
of one draft; a synchronisation that takes the agent's own message for the peer's; a
write transaction held while a second connection wants to write. Correct: sent means
delivered, the loop keeps to its limit, one task per target.

**Stories** (`stories/controlled_live_run.py`, `publisher.py`, `mutation_boundary.py`,
`client_lifecycle.py`, `rotation_audit.py`, `daily_story_counter.py`). State: story runs
and steps, stories, counters per account and day. Operations: gates, run, per account lock,
connect, publish, record, close; finalisation; cancel. Hard: overlapping runs, an answer
the database does not take, a disconnect that raises, midnight. Correct: steps are honest,
sessions exclusive, the daily cap holds.

**Social publishing** (`social_agent/publishing/*`, `meta_connection.py`). State: the Meta
connection and its tokens, OAuth flows, dry runs, authorisations, receipts. Operations:
start, callback, choose a page, health check, disconnect; prepare, approve, publish. Hard: a
post is made inside a transaction that may be rolled back; a health check asks Facebook
between its read and its write, as the choice of a page does with the database. Correct: a
post per authorisation, or a trace of why not.

## Not modelled

* **Campaigns of stories** (`auto_story_service.py`, `autostory_recurring.py`): retired
  (`docs/AUTOSTORY_RETIRED_20260903.md`). Rows of story runs in status *pending* belong to
  them: nothing picks them up.
* **Execution guard, certification manifests and send counters, safety policy, account
  state, target health, governance**: they compute an answer from stored facts and the
  environment, and the modules take any answer. The manifests and counters are JSON files
  used by scripts of single certifications.
* **Readiness workers**: observers with one writer, over throw-away copies of the session
  files and without their locks; what they store is an answer of the gates.
* **Fleet health check** (`dashboard/routes.py:769`, a thread) and the story precheck
  (`routes.py:1040`): they open a session file of their own without the lock, where
  `session_lock.py:7` says to acquire it first. `SessionIsOneProcess` is about clients of
  `ClientManager`.
* **Content studio, calendar, chat with tools** (`social_agent/services.py`,
  `content_workflow.py`): forms over single rows; a canary is not tied to them.
* **AI coding pages**: a proxy to another service. **Dashboard** views and presentation.
  **Logins** by phone and QR code: one request after the other over one client.
* **Discovery, bot, story publisher, Celery queue**: entry points older than the
  scheduler, thin over the libraries. **Operations, recovery, runtime reports, security
  helpers**: read-only reports and conversions.
* **Rate limiter**: an in-memory back-off around library calls. **Drafts**: one call of a
  text provider.

## How the models correspond to the code

In all of them one database transaction is one action, one answer of a remote service is
one action, and every `await` is a point where another process may move. A condition that
depends on data outside the model (eligibility, health, guard, kill switch) is a
nondeterministic choice; the order of checks and what each outcome writes are kept.
`PROJECT.json` maps each definition to its lines.

### SchedulerJobs

| variable | code |
| --- | --- |
| `status`, `owner`, `marker` | `scheduled_jobs.status`, `.lease_owner`, the marker in `.last_error` |
| `wait[j]`, `lease[j]` | ticks until `run_at`; until `lease_until` (0: now, -1: past) |
| `rowStatus`, `rowJob` | `message_deliveries` |
| `cool[a]` | what is left of the account's send interval |
| `posts[r]` | how often Telegram accepted the message of a row (not visible to the code) |
| `lock[a]` | the flock of the account's session |
| `pc`, `batch`, `cur`, `myRow`, `attempt`, `mode` | where an executor is, and its local variables |
| `cancelling` | cancels between their read and their write |

A worker goes *idle → claim → next → check → gate → reconcile → preflight → guard →
connect → resolve → create → rpc → (accepted → finsent | finfail | markunc) → release →
next*; `run_job_now.py` starts at *check*. Time is relative, so it is unbounded.
A lease lasts `LeaseTicks` ticks; a batch is claimed at one instant.

`Env` says what may happen: `crash`, `db_error` (a transaction raises), `cancel`,
`temp_lock` (another program holds the session), `late`. Without `late`, leases outlive
the work they cover, which is what `LEASE_SECONDS` is chosen for; with it they may run
out under a job that waits or works. `not_auth` is the hard block of an account that has to
log in again, which defers its jobs by `ReloginTicks`. Jobs with the marker of a
certification are in the model; those whose marker gives them to the gateway are never
claimed by the loop (`job_claim.py:57-63`) and are not.

Left out: the order among due jobs (any is claimed), `attempts`, FAILED rows written by
`_mark_job_failed`, `can_post`, the pause after a join and the pair interval (they act
like the account interval), deletion of jobs.

### OwnerDm and ScheduledDms

`OwnerDm`: `intent[k]` is the row of a key, `accepted[k]` counts acceptances, `cool[a]`
is the interval; a caller `c` is at `pc[c]`. `SendFails` may follow an acceptance, as
`transport.py:285` catches any exception and the caller records FAILED. The insert of an
intent and its claim commit together, so CREATED is never seen by others. After a
confirmed send a failing record is tried as UNCERTAIN, and if that fails the answer alone
says UNCERTAIN. DENIED is lumped with FAILED; hourly and daily caps, dry runs and the
history are left out; a key is always used with one payload.

`ScheduledDms` adds the job table and executors that are callers of `send_now`, a job
standing for its key. A lease may run out at any time (`leased` are the jobs that have one),
so nothing rests on their length. The executor reads the status (`Check`) and writes RUNNING
without looking at it again (`executor.py:449`), and the job may be cancelled in between;
the owner's cancel is conditional, the operator's is a read and a write by id (`CancelRead`,
`CancelWrite`). `cancelled` are the jobs whose cancel fell on a PENDING job and still
stands.

### TelegramGateway and GatewayQueue

`status`, `attempts`, `due`, `stale` are the table (`run_after`, age of `updated_at`);
`phase`, `batch`, `cur` the worker; `accepted[j]` counts acceptances; `confirmed[j]` is a
history variable: the worker has seen the acceptance. `Blind` is the set of accounts
whose history may be unreadable or lag behind; elsewhere a message that was accepted is
found. Every maximal batch the rules of `claim_next_jobs` allow may be claimed, which
covers newest-first and AI accounts first. Crashes, failpoints and database errors may
come at every step; `MaxFaults` bounds them. The worker is one process. A recovery runs
at the start and between batches. Task types nothing enqueues are left out.

`GatewayQueue` is the table and `accepted` alone, with the steps *enqueue, take up, put
back, accept, finish, fail*.

### AiDrafts

Extends `GatewayQueue`: the gateway's steps are those of the queue, and the client that
enqueues waits for *done* or gives up (`telegram_single_sender.py`). `dstat`, `dtask`,
`rowJob` are outbound rows (status, task, the message id they carry, by its job); `replies`
and `stored` count what the peer wrote and what is stored of it; `imported` are the
agent's own messages stored as the peer's. A process, one of `Requests` or the loop, is
*idle*, about to *insert* a task, *composing*, has *fetched*, or *waits* for a job. Every
transaction of a request is an action; the one that generates and approves in one
transaction holds SQLite's only write lock, so its enqueue fails. The agent's sends are
not certified, so nothing else is in the queue: every job is a message of its own, and
there are no fetches. All tasks are for one target. Texts, scores and the conversation
state are nondeterministic verdicts.

A regeneration deletes the draft and inserts the new one in one transaction, and SQLite
gives the new row the id of the old (`ai_agent_models.py:43` has no AUTOINCREMENT). `rowId`
is that id: an approval that waits records its answer by id, hence on the new draft, and
`crossed` remembers the jobs this happened to. The loop's cycle is an `agenda`: it lists the
active tasks but those in auto mode *off* (`Off`), and visits each, but may skip one for its
cooldown or a locked database (*skipped*). After a death of its thread it is *dead* until it is
started again.

### StoryRuns

A request names accounts without repetitions (`controlled_live_run.py:333-340` drops
them), passes the gates (*gated*), inserts its run and takes its accounts in order:
*open* (lock, connect), *upload*, *send*, *close* (disconnect), *unlock*; *done*. `steps`
are written at the end from `result`, what it knows. `flight` and `accepted` are story
requests at Telegram; `rows` are stories with their day. `count` and `countDay` are
`stories_today` and its date. Other processes (`Other`) take the locks of `Shared`
accounts. An authorisation is issued and used by one request; it may have expired.
A disconnect that raises is logged and the lock released all the same: such a client is in
`adrift` and goes offline some time later. `Clinging` are the accounts it may happen to.

### CanaryPublish

`conn` is the connection row (status, health, page, which tokens there are), `flows` the
OAuth states, `auths` the authorisations, `receipts` the outcome by idempotency key, `web`
what a worker's request is in the middle of, `writer` the holder of the write lock.
`Consume` takes it, `Post` asks Facebook, `Record` commits; a fault rolls all back but the
post. A health check and the choice of a page read the row without a lock
(`ReadConnection`, `seen`) and write afterwards what differs from it (`Healthy`, `Unhealthy`,
`SelectPage`); whatever the other worker commits in between is overwritten field by field.
`torn` remembers that such a write fell on a row that had lost the credentials it had read.

### JobGeneration

Target ids are numbers, one more than the largest in the table, as SQLite gives them.
The generator: `LoopStart`, `GenAccount`, `GenNext`, `GenSkip`, `GenPick`, `GenInsert`,
`GenFails`, `GenCommit`. It reads outside a transaction until its first INSERT takes the
write lock, which it holds to its commit. The executor keeps what a job leaves behind:
claims, the ways a run ends before, at and after its send, and crashes. The web process:
targets are created, deleted, merged and bound, rules set, deleted and copied in bulk, jobs
queued by hand, cancelled (a read and a write) and cleaned up. `Evening` is the time at
which the owner's date is already tomorrow's.

History variables and fields say for which chat a row was made, by which insert, for whom,
and whether a merge of targets ever moved it.

Abstractions: one rule and one profile per account; `run_at` is reduced to whether it is on
its day; the executor's steps up to the SENDING row are one; hours and leases are left out;
rows of membership probes are left out; edits of a profile's timezone
(`update_schedule_profile`) are left out; some accounts (`Edited`) have their rules edited by
hand, the others by bulk apply. An operator sees the chats on a `page` that was loaded at
some time (`LoadPage`), and a rule stores the ids he posts from it unchecked
(`scheduler_routes.py:1641`); `outdated` are the accounts whose rule was saved from a page
that showed a target gone by then.

### SessionPools and BulkSchedule

`lock[a]` is the flock, `pool[p][a]` the client a process keeps: *none*, *locked* (it holds
the flock) or *bare* (a session string, which takes none the second time). A process is at
`at[p]` of an operation `kind[p]` for `acct[p]`: *lock*, *connect*, *use*, then idle,
*drop*, or, in a probe of its membership, *relock*, *reconnect*, *replace* and *probed*.
`connect_account` connects the account again; it takes the old client out of the pool
(`TakesOut`, which moves it to `old`), awaits its disconnect, releases its lock and puts the
new one in (`Replaces`). The probe has a time limit (`membership_check.py:389`): if that is
up during the await, both clients are forgotten and the old lock stays held
(`ReplaceCancelled`; the account is then in `lost`). A membership check probes one target
after the other and drops the account, the refresh of a binding is one probe. `Connects`,
`ConnectFails`, `LockTimesOut`, `Drop` and `DropFails` are the rest of what `add_account`,
`connect_account` and `remove_account` do to lock and pool. All is about one chat;
`member[a]` is the account's place in it, and its admins decide.

`BulkSchedule` puts the requests of a batch on top. A request previews with each account
(a session operation), then *plan*, *find*, *make*, *mark*; `ready`, `left`, `made` are its
local variables, `ledger` and `listed` the idempotency row, `jst`, `jacct`, `jslot`, `jmark`
the jobs. The scheduler claims them and sends with the same sessions; the owner cancels.
Leases are not modelled: a job of a loop that died is taken up some time. The executor
clears the marker in a commit of its own after the claim, here in one step with it. The
web service has one synchronous worker, so its requests do not overlap. Jobs are cancelled
here by the conditional update of `cancel_bulk` only. The operator's unconditional cancel
is in `ScheduledDms`; on a bulk job it would let a request that is sent again miss a job
that is unmarked, overwritten and then sent.

## Runs

| run | instance | distinct states | result |
| --- | --- | --- | --- |
| `sched_timely` | 2 loops, 2 jobs, certified or not, crash, db errors, locked session | 2.4 M | `TypeOK`, `AtMostOnePost`, `EvidenceKept`, `OneExecutor` |
| `sched_late` | loop and script, 1 job, everything in `Env` but `not_auth` | 1.9 M | `SentWasPosted`, `SessionExclusive`, `UncertainIsSticky` |
| `sched_live` | 1 loop, 2 jobs of any marker, batches of one, crash, locked session, login | 288 k | `RunningSettles`, `DueIsClaimed` |
| `sched_own` | 1 loop, 1 job, crash | | `SendingIsAnothers` fails |
| `sdm_jobs` | loop, script, owner, operator; 1 group job, 2 keys; crash, db errors | 1.5 M | `AcceptedAtMostOnce`, `OutcomeWasAccepted`, `CancelledIsNotSent`, refines `OneShotSend` |
| `gateway` | 2 certified jobs of one message, 1 fetch; 2 attempts, 1 fault | 395 k | `OneRunningPerAccount`, `DoneWasDelivered`, `CertifiedOnce`, refines `GatewayQueue`, `EveryJobSettles` |
| `ai_send` | 1 task, 2 drafts, 2 jobs, loop and request, a reply | 1.8 M | `AiTypeOK`, `SentWasDelivered`, `LoopKeepsToLimit` |
| `ai_live` | 3 tasks for one target, one autonomous, one off; loop and request | 92 k | `OlderTaskIsSuperseded` |
| `stories` | 2 requests with common accounts, a midnight, a stale run, a disconnect that raises | 1.35 M | `TypeOK`, `SessionIsExclusive`, `StepsAreHonest`, `DailyCapHolds`, `RequestEnds` |
| `canary` | 2 workers, 1 authorisation, 2 OAuth flows, 2 faults | 384 k | `TypeOK`, `EveryPostAccounted`, `ConnectedHasCredentials` |
| `generation` | 2 accounts, 2 chats, 2 days, 2 jobs, 2 requests or faults | 4.7 M | `TypeOK`, `LaterPostMeansLostRecord`, `RulesNameMeantChats`, `MarkedDayIsGenerated` |
| `bulk` | web, scheduler, gateway; 2 accounts (file, string); 1 batch, 2 operations, a death | 238 k | `SessionIsOneProcess`, `LocksAreAccounted`, `OnePerAccount`, `AnswerListsJobs`, `JobSettles` |

**Why the bounds are enough to be interesting.**

* *Scheduler.* Two jobs and a batch of two give the job that waits while another runs; two
  loops (or a loop and a script) give the reclaim under a live executor; a lease of two
  ticks can be held, just over, and past; two rows per job allow a second send intent; one
  crash is enough for each hazard of a crash. In `sched_live` a batch has room for one of
  the two jobs, so that fresh work does go before a reclaim.
* *Gateway.* Two attempts are the first and the last; a fault may hit any step of either,
  the recovery included.
* *AI.* Two drafts and two jobs are a draft that is approved again after a wait that timed
  out, by the loop or by hand; with one reply the loop has something to wait for. A regeneration
  during a wait gives the second draft the id of the first. More tasks are needed only for
  `ai_live`: of its three one is autonomous and one is in mode *off*.
* *Stories.* Two requests that name a common account overlap, or follow one another across
  midnight; one stale run makes the gate that looks for one close.
* *Canary.* Two workers present the same authorisation; a second OAuth flow, or a
  disconnect, overtakes a callback, a health check or the choice of a page.
* *Generation.* Two ids of targets are enough for one to be deleted and come back, also
  under a page that was loaded before; two days
  for a pass that runs into midnight; two jobs for a second post.
* *Bulk.* Two accounts, so that slots can shift and one session can be held while the other
  works; two operations, so that a request is sent again after the first failed or died, or
  another operation leaves a client before it; the gateway is the third process that wants
  a session. Claims of jobs are not bounded.

`CHECK_DEADLOCK FALSE` stands in `stories`, `canary` and `bulk`: requests, faults and
operations are bounded, and when they are used up and all is done nothing is left to do.

**What the failing run shows.** `sched_own`: a SENDING row with a valid lease is read as
another worker sending (`executor.py:224`). For the loop the lease is its own. After a
crash in the RPC the job is reclaimed, turned away and left RUNNING, after every lease
anew. This is also why `AtMostOnePost` holds after such a crash. A retryable refusal of a
certified send leaves such a row without any crash (`executor.py:1001-1015`).
`RunningSettles`, over crashes and certified jobs, says that a row like that (`Abandoned`), or
due jobs that fill every batch, are the only things that keep a job RUNNING.

## Fairness

* `SchedulerJobs!FairSpec`: WF on each loop's own steps (systemd restarts it, awaits
  return, the RPC has a timeout), SF on the clock (it is disabled while a batch is being
  claimed). Nothing of scripts, operators or faults.
* `TelegramGateway!FairSpec`: WF on the worker and the recovery at its start, SF on the
  recovery (every thirtieth cycle), WF on `run_after` and the stale limit passing.
* `AiDrafts!AiFairSpec`: WF on the loop going on, that is, on its finishing the task it is
  at (its waits have timeouts), visiting those left in its cycle and beginning the next
  cycle. Nothing is assumed for single tasks: `OlderTaskIsSuperseded` excepts a task the
  loop skips again and again, for its cooldown or a locked database, a loop that dies again
  and again, and tasks in mode *off*, which it never looks at. A cycle takes the newest
  `MaxTasks` tasks (`auto_loop_worker.py:103`); the run has no more than that, and with more
  an older one may wait for ever.
* `StoryRuns!FairSpec`: WF on some request taking a step, which is less than WF on each:
  waits for locks and for Telegram have timeouts, so a service with requests under way does
  not stand still. As a request runs once, there is again and again none under way
  (`RequestEnds`).
* `BulkSchedule!FairSpec`: WF on each scheduler loop's own steps: systemd restarts it, its
  calls return or give up, and an idle loop claims what is due. Web, gateway and faults may
  stop or go on as they like. It assumes that the Telegram client returns or raises: a
  direct message has no timeout of its own (`transport.py:268`).

## Theorems

TLAPS checks them for any number of jobs, accounts, processes, crashes and faults, from
the named assumptions on the constants alone (which TLC evaluates in the runs). Where a
theorem assumes more, `Protected` or `OneWeb`, it says so in its statement. Each invariant
below was checked with TLC on the instance of its run, or one like it, before it was proved.

**SchedulerJobs.** `TypeInv` adds to the types that an executor past *next* has a job and
past *create* a row. From it:
* `SessionIsExclusive`: whoever is between connect and release holds the flock.
* `SentOnlyIfPosted`: a row is SENT only if posted, and whoever is about to write SENT
  has a posted row of its own job (`RowsInv`). Both hold with cancels, scripts and
  expired leases.
* `UncertainStays`, an action property, holds with all of them too. Whoever is between the
  SENDING row and its outcome has a row to itself, which is SENDING, or FAILED where a
  reclaim took it for stale (`HeldRows`): so no one writes to a row that is UNCERTAIN.
* `AtMostOnce`, `EvidenceIsKept`, `OneExecutorEach`, `OutcomesStay` assume `Protected`: no
  scripts, no cancels, leases that outlive the work. The invariant has two layers. `OwnInv`:
  what is in a loop's batch or hands is RUNNING under its own, valid lease; hence two loops
  never share a job. `LiveInv`: a job has at most one row that is SENDING, UNCERTAIN or
  SENT, every post is under such a row, and an executor past preflight found none. Without
  the first layer the second is not inductive: two executors could both have passed
  preflight. Without `Protected` the conclusion is false.

**OwnerDm.** `DmInv`: at most one call has claimed a key, the key is then SENDING
(`OneProcessing`), and `Knowledge` says at each point and status what Telegram has done:
nothing before the RPC, one acceptance after the reply and behind SENT and UNCERTAIN.
`KeyIsAcceptedOnce` and `AnswersHonest` follow; `IntentsKeepPromise` maps each step to a
step of `OneShotSend` or a stutter.

**ScheduledDms.** `StepOfOwnerDm`: a step of the composition is one of `OwnerDm` or leaves
it alone, so `ExecutorsUseIntents`, and by it `JobIsAcceptedOnce` is inherited.
`JobInv` adds that an executor's call is that of its job (`CallsMatch`) and that a job
whose cancel stands has no intent and no executor that is committed to it (`BegunFirst`).
Hence `CancelMeansUnsent`: of the two cancels, and of the RUNNING written blindly over
either, only a crossed pair leads to a send, that is, an operator's write that fell on a job
already taken up, or an executor that wrote over the cancel. With `Knowledge`,
`OutcomesAccepted`.

**TelegramGateway.** `GwInv`: what the worker holds is running (`InHand`); a job that has
not failed has attempts left; an acceptance is paid for by an attempt or a fault, save
that of a done job and the one about to be recorded (`Paid`); what is about to be
recorded as done was delivered (`Evidence`); a certified job arrives at its send only if
its message was not delivered (`LookedUp`). They give `CertifiedSendsAreSingle`,
`DoneMeansDelivered`, `RepeatsAreBounded`, `AccountsAreSerial`, `GatewayOutcomesStay`, and
`ImplementsQueue`: every step is one of `GatewayQueue` or a stutter. What is checked of
`AiDrafts` over that queue is therefore about the gateway.

**SessionPools and BulkSchedule.** `LockInv` ties lock and pool together: a *locked* client
has the flock, a session file has no client without it, and whoever is connecting has the
flock and no client in the pool, except for a session string being connected a second
time, whose flock is that of the client in the pool. Between taking the old client out and
putting the new one in the flock goes with `old` (`Replacing`). A file is never in that
place, for its second connection waits for the lock of the first, so what is lost is of
session strings (`StringsAreLost`). From it `LocksNotLeaked`, with that one leak in its
statement, and with the observation that whoever drives a session file holds its lock,
`OneProcessEach`.
`BulkUsesSessions` shows that every step of `BulkSchedule` is one of `SessionPools` or
leaves the sessions alone, for which it has to be known that a job is always taken for an
account: jobs are made for the least of a non-empty set (`FirstIsMember`, by
well-foundedness of the naturals). So the two results hold of the composition, with any
number of web workers, loops and gateways.

Of the batches: `OneJobPerAccount` and `AnswersAreWhole` assume `OneWeb`, that requests come
to one synchronous worker as in `autostory-web.service:13`; with two workers both are false
(both may miss a job the other is about to make). `BatchInv` follows a request through
its three commits. A job has the slot of its account in a plan of its batch
(`SlotIsPlanned`), so that a request whose slots did not shift finds it. Hence an account
has one job that counts (`KeptIsOne`), none when one is about to be made for it
(`NoneWhenMaking`), and only the new one before that is marked (`OnlyNewInMarking`): these
two are what makes the first inductive, over deaths between the commits. For the answer,
`MadeOrLeft` says that a live job of the batch is of an account still to be looked at, or
already in the answer of the request. `BulkTypeCorrect` gives the types, and `Errands` and
`Apart` what a process is about at each point.

**CanaryPublish.** `PostsAreAccounted` follows from `PostInv`: the posts under an
authorisation are at most those lost, the one in hand and the one on its receipt. That is
inductive because a request that writes holds SQLite's write lock (`WebTyped`), so at most
one has posted and not yet recorded; what it loaded has been issued (`HoldsAuth`); and a
receipt is never taken back (`ReceiptsStay`). `ConnectedMeansCredentials` needs `CredInv`:
until a write has overtaken a disconnect (`torn`), the row is whole, destinations and status
having credentials behind them, and so is every copy of it a request has read.
These and `CanaryTypeCorrect` assume finitely many workers (the posts of an authorisation
are compared with a number of workers).

**StoryRuns.** `SessionsAreExclusive`: whoever has an account in hand holds its lock
(`Locked`), works with it only if it is connected under that lock (`Connected`, `InPlace`),
and what is connected without it was given up by its request (`GivenUp`). `RunsAreHonest`:
the accounts a request has still to do are each once in its list, and nothing has been sent
or written for them (`Lists`, `Honesty`), so one outcome is written for each, about that
request's own send. `DailyCapIsKept`: the rows of an account today and the requests that
have it ahead and did not begin beside another share the cap (`Slots`); the gates let a
request in only if the count leaves room, and what is counted never falls behind the rows
(`Counted`, `Capped`). The count itself is not enough: it is read at the gates and rises at
the end.

**AiDrafts.** Over `GatewayQueue`, hence with what the gateway is proved to implement, for
any drafts, requests and jobs: `SentIsDelivered` from the fact that a waiting process is
waiting for a job whose draft is its own, or one that had the id before (`Crossing`), that
of the rows with one id one at most is not deleted (`Ids`), and that a job that is done was
accepted; `LoopIsLimited` from an account of the loop's jobs: each is of a draft marked as
sent, is being waited for, or is one of the answers lost.

**JobGeneration.** `Typed` adds to the types that targets of one chat are one, that outside
a pass nothing is uncommitted, and that before an insert there is one pick and room for its
row. Ids are `Max + 1`, so `NextIdIsNew` is all the proofs need of them; that `Max` is
attained rests on the well-foundedness of the naturals. `MarkedDaysAreGenerated` follows,
and `RulesAreMeant`, which excepts the accounts in `outdated`. `LaterPostsNeedALostRecord`
rests on `RecordInv`: what made a row is never changed and known by its number
(`TagsAreOne`); a row that no merge moved is with the chat it was made for (`HomeIsOrig`);
no row that is on record has a later one for the same post (`NothingLater`). The last is
inductive with two more: nothing is on record for what the generator has picked and not yet
inserted, though the web process may change the tables in between (`PickIsNew`), and a row
whose id the executor is about to write SENT to, over a cancel or in place of a deleted job,
has no later one either (`HandIsLast`). The proof corrected the property. An earlier form
counted a row as on record when its target's chat was the one it was made for, which every
instance within the run's bounds satisfies; with seven requests of the operator TLC finds a
row that is merged into another target, posted for again, and merged back. Being moved by a
merge is now one of the ways to lose a record.

**Only model-checked.** All liveness (`RunningSettles`, `DueIsClaimed`, `EveryJobSettles`,
`OlderTaskIsSuperseded`, `RequestEnds`, `JobSettles`), as fairness and ENABLED are out of the
prover's reach. Every invariant and action property of the runs is stated by a theorem,
except `SendingIsAnothers`, which is false; those above that assume `Protected` or `OneWeb`
are model-checked on instances that satisfy them, and not claimed of others.

## What does not hold and no run shows

These were met while modelling. The models contain them unless a line says otherwise, and
no property claims the contrary. Where a sentence of the repository says otherwise it is
named.

*Scheduler.*
* If a reclaimed job waits in its batch until the lease is over, its SENDING row is taken
  for stale and the message sent again; `executor.py:225` says it is safe then.
* A chat that cannot be resolved leaves the session connected and locked
  (`executor.py:916`), where `worker.py:28` says that sessions are not held between jobs.
* With a jitter whose minimum is above zero (the default) the instant pacing defers to is
  always in the future when it is looked at again (`pacing.py:139`, `:157`). The runs have a
  minimum of zero.
* Fresh work is preferred, so a stale RUNNING job waits as long as there is always some.
* A retryable refusal of a certified send leaves its row SENDING and the job RUNNING, and
  every reclaim is turned away by that row (`executor.py:940`, `:256`).
* The operator's cancel has no condition on the status it overwrites
  (`operator_control_routes.py:227`): a claimed job becomes CANCELLED and is posted.
* A job run by hand has no lease: if the script dies it stays RUNNING.
* A deferral overwrites `last_error` and the marker of a certified job in it
  (`executor.py:717`).

*Recurring jobs.*
* FAILED, CANCELLED and uncertain jobs do not count as existing (`generator.py:143`,
  `:249`): a day is generated again for them, and for a job that a merge gave to another
  target (`target_dedupe.py:252`). `LaterPostMeansLostRecord` says exactly that.
* A deleted job whose id is given out again while its executor is at work is marked SENT in
  its place (`executor.py:334-361`).
* Ids are posted and stored unchecked (`scheduler_routes.py:1641`): a rule saved from a page
  that is out of date may name a target that is gone, and later another chat that gets its
  id.
* Jitter may carry a job past midnight; several times of day in a rule make one job
  (not modelled); a cleanup of orphans fails on a foreign key (`scheduler_routes.py:262`).

*Direct messages.*
* An intent whose call died stays SENDING; replays say it is being processed.
* FAILED of a direct message does not mean that it was not delivered
  (`transport.py:285`, an overdue reclaim, a rerun that finds SENDING).
* The per-account interval is checked before the claim and counts SENT only: concurrent
  requests both pass it.
* The operator's cancel applies to direct messages too (`operator_control_service.py:765`)
  and overwrites one that is being sent; an executor that has read PENDING writes RUNNING
  over a cancel of either kind (`executor.py:449`).

*Bulk scheduling and sessions.*
* Slots depend on which accounts are ready. A batch sent again after readiness changed
  looks for its jobs at other times and makes second ones; `multi_account_schedule.py:73`
  says no silent duplicates. `OnePerAccount` is about batches whose slots did not shift.
* An answer is recorded even if all accounts failed, and is replayed for good.
* Two web workers, as in `docs/PROJECT_UNDERSTANDING_REPORT.md:30`, could both miss a job
  the other is about to make; the unit file has one.
* Requests of the Messages pages leave their clients, and the flocks, in the web process
  until it ends, so that jobs of these accounts fail for the lock;
  `scheduler_routes.py:1055` and `joiner.py:14-17` say that the web holds no sessions.
* A probe that is cancelled while `connect_account` waits for the old client to disconnect
  (`manager.py:757`, under the limit of `membership_check.py:389`) leaves the lock of a
  session string held by nobody until the process ends; `scheduler_routes.py:1055` says that
  the client is always released.
* A membership check of an account with a session file waits for a lock its own process
  holds and reports that another process has it (`session_resolve.py:268`).
* `multi_account_join.py:181` does not ask again for a chat that is pending, but a preview
  never reports pending. `scheduler_routes.py:511` calls a method `ClientManager` does not
  have, so the chats of an account are never listed.

*Gateway.* Plain sends may be repeated after a fault, as often as there are attempts and
faults. A confirmed send whose record fails is retried, and goes out again if the history
cannot be read (`worker.py:484`), where `docs/audits` says it never does;
`CertifiedOnce` is about accounts whose history can be read. Newest-first claims may keep
an old job waiting as long as there are new ones.

*AI agent.* A draft whose wait timed out stays a draft while its job is sent: the next
approval sends the text again. A regeneration that crosses a wait gets the old draft's id,
and the new text is marked sent though the old one was (`service.py:278-283`).
`task_target_dedupe.py:2` says one active task per target, but the check and the insert are
apart and a resume does not check; the loop repairs it (`OlderTaskIsSuperseded`).

*Stories.* A disconnect that raises leaves the client connected and the lock free
(`client_lifecycle.py:29-40`). Overlapping runs pass the cap together. A cancel does not
stop a request that is at work (`routes.py:1918-1934`). A death leaves the run *running*
until it is found stale (`rotation_audit.py:75-86`). An error after acceptance is recorded
as failed where it comes from the request itself (`publisher.py:350`).

*Canary.* A fault after the post rolls back the authorisation that was consumed for it: it
can be used again (`publish_service.py:411-412`), by a second worker that waits too. A
health check, or the choice of a page (`meta_connection.py:603-628`), may write over what
changed since it read: after a disconnect in between, the connection is *connected* without
credentials. A callback keeps the selection of
a page that is no longer among the destinations.

## Status

All modules of the plan are written, and every safety property of the runs is proved. What
would come next, in this order: a readiness module (probes, snapshots and their age beside
the executors that trust them); the executor's direct messages with a session pool, in
place of the single step `BulkSchedule` has; that `AiDrafts` over `TelegramGateway` implements
`AiDrafts` over `GatewayQueue`, stated as one theorem; that `JobGeneration`'s reduced executor
is implemented by `SchedulerJobs`.
