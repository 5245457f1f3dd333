# Formal models of Aniu

Aniu is an A-share research and simulated-trading agent: a FastAPI backend that
runs LLM-driven *analyses* and short *order watches* against one trading
account, and a TypeScript frontend.  This directory holds TLA+ models of the
backend, TLC configurations that check them, and proofs checked by TLAPS.
All paths below are relative to `src/backend/` unless they say otherwise.

- [Inventory](#inventory): the parts of the system
- [What is modelled](#what-is-modelled): modules, state, actions, abstractions
- [What the runs check](#what-the-runs-check): questions, bounds, fairness
- [Where code and documentation disagree](#where-code-and-documentation-disagree)
- [What is proved](#what-is-proved)
- [What is not modelled](#what-is-not-modelled) and [the plan](#plan)

## Inventory

| Component | State it keeps | Operations | Talks to | Hard because of | Correct when |
|---|---|---|---|---|---|
| **Run jobs** `infra/repositories/run_job_repo.py` | `run_jobs`: status, attempt, claim token, lease, `active_guard` | create_pending, claim_next, reclaim_expired, heartbeat, request_cancel, mark_terminal | run worker, run service, recovery | several processes on one SQLite file; leases that expire under a live owner | one active job; a fenced write only by the current claim |
| **Run worker** `infra/workers/run_worker.py` | one claim, its heartbeat, its outcome | claim and dispatch, execute, finalize, apply a cancellation, hand over the report | run jobs, executor, render lane | commits in several transactions; cancellation at any point | no replay; job and run agree at the end; the account is released |
| **Executor, orchestrator** `business/runs/executor.py`, `orchestration.py` | run entity in memory, abort signal | account phase, render phase, cancel | run rows, agent runtime | aborts, deadline, failures of LLM and tools | an outcome is written once |
| **Render lane** `infra/workers/summary_worker.py` | in-memory queue of 64 | submit, render | executor | no claim, so no fence; lost on a crash | a parked run is settled; rendering never holds the account |
| **Run service** `business/runs/service.py` | none of its own | create, watch, delete, abort | run rows, run jobs, abort registry | check-then-act across awaits | at most one run holds the account |
| **Recovery** `bootstrap/app_factory.py` | none | settle zombies at start-up, shut down | run rows, run jobs | other processes, partially finished runs | only orphans are touched |
| **Scheduler** `infra/scheduler/job_runner.py`, `infra/repositories/task_lease_repo.py`, `bootstrap/schedule_handlers.py` | task leases, APScheduler jobs | tick as leader, renew, submit runs | run service, dreams, account | lease lost between check and commit | one leader submits |
| **Trade guard** `infra/integrations/trade_mutex.py`, `exposure_trade_guard.py`, `buy_preflight.py`, `infra/repositories/tool_invocation_repo.py` | exposure caps, buy reviews, tool-call ledger | reserve, check, place, record | broker API | check and order in one step; crash after the order was sent | no duplicate order, no order beyond the cap |
| **Watch authority, order directives** `infra/integrations/watch_cancel_guard.py`, `business/order_directives/` | directives of the current plan | authorize, settle | trade tools | plan replaced while a watch acts | a watch cancels only what the plan allows |
| **Valuation cancellation** `infra/integrations/valuation_cancellation.py` | state per order: REQUIRED … CLOSED | claim, send, reconcile | broker API | crash between claim and call | never sent twice |
| **Event stream** `api/sse/stream_hub.py` | history 1024, queues 64, sequence numbers | publish, subscribe, resume, finish | run trace, HTTP | slow readers, resume after a gap | a reader knows when it missed something |
| **Dreams** `business/dreams/`, `infra/workers/memory_dream_worker.py` | one row per day, task lease | schedule, execute, recover | LLM, memories | lease lost, manual rerun | one execution per claim |
| **Evaluations** `business/evaluations/`, `infra/workers/evaluation_worker.py` | rows, in-memory queue of 32 | request, execute, settle orphans | LLM | queue lost on a crash | every row is settled |
| **Notifications** `infra/integrations/notifications/`, `business/notifications/` | announced quantities, pending pushes | detect fills, deliver | account, HTTP | concurrent deliveries | a fill is announced once |
| **Account overview** `business/account/` | cache, refresh gate | refresh, read | broker API | concurrent refreshes | no stale overwrite |
| **Agent kernel, LLM client** `agent/`, `llm/` | conversation, tool batch, retry counters | turns, tool calls, compaction, retry | LLM, tools | abort in a batch, retries of partial streams | each tool call runs once |
| **Run trace** `business/runs/trace_reducer.py`, `traces/recorder.py` | steps of a run | open, update, close steps | event stream | callbacks out of order | every step is closed |
| **Market data** `stock_api/` | caches, single flights, source health | fetch with fallback | HTTP | shared flights that fail | a waiter gets an answer or an error |
| **Settings, auth, memories, findings, bookkeeping, API, database, frontend** | rows | one transaction per request | | little to interleave beyond revision checks | |

The behaviours that make the core hard: processes that share a database and
nothing else, leases that run out, crashes between commits, values read before
an `await` and used after it, cancellations racing completions, bounded queues
that drop, and writes whose failure is logged and swallowed.  `PROJECT.json`
lists each hazard at its line.

## What is modelled

The modules fall into four groups, each composed by one MC module.  Parts of a
group share no state (in the code they meet only through rows that the parts
already model as inputs), so the MC module lets a behaviour follow one part and
leaves the others as they started: a run is the sum of their state spaces, not the
product.

| MC module | composes | for the runs |
|---|---|---|
| `MCRunJobs` | `RunJobs` (implements `AccountLane`) | `restart`, `fleet`, and the violations of the core |
| `MCLive` | `RunJobs`, `MxGateway`, `PublicReads`, with fairness | `live` |
| `MCDesk` | `BuyGate` and `ValuationCancellation` as one part, `OrderPlans`, `AgentTurn`, `ModelChannels`, `PublicReads`, `OpenFindings`, `Memories`, `ReplyStreams`, `RunTraces` | `desk`, `stale_plan`, `stale_write`, `reopened_finding` |
| `MCServices` | `SchedulerTicks` and `MemoryDreams` (both over `TaskLeases`), `Evaluations`, `FillNotices`, `LlmCalls`, `RunStream` | `services`, `stream_resume` |

### `RunJobs.tla`: the run core

One action is one committed transaction or one in-memory step between two of
them, so interleavings, crashes and cancellations fall exactly where the code
can be interrupted.

| Variable | Code |
|---|---|
| `job` | a row of `run_jobs`; `token` stands for `claim_token` and `worker_id`, `live` for `lease_expires_at > now` |
| `run` | `status` and `current_state` of `strategy_runs`: `RUNNING` is status RUNNING in Run or Watch, `SUMMARY` is status RUNNING in Summary ("parked") |
| `worker` | what a process's `RunWorker` is doing: `_claim_and_execute_one`, `_execute`, `_finalize_execution`, `_execute_cancelled`, with `heartbeat_failed` (`lost`) and its abort signal (`sig`) |
| `lane`, `queue` | its `SummaryWorker` |
| `mode`, `recovery` | start-up, shutdown, and the run that recovery has read and not yet written |
| `passed` | submissions that found nobody active and have not committed |
| `aborting` | the run `abort_run` has read and not yet written |
| `started`, `parked`, `dropped` | history: how often a stage was started, which runs reached Summary, which a full render queue turned away |
| `stalls`, `outages` | counters of the bounds |

| Actions | Code |
|---|---|
| `Submit`, `CreateRun`, `RejectSubmission` | `create_run`, `create_watch_run`: checks, then one commit under the unique `active_guard` |
| `DeleteRun` | `delete_run`, with the cascade to the job |
| `Claim` | `claim_next` and the dispatch after it |
| `Begin`, `StageDone`, `StageAborted`, `StageFails`, `Mark`, `HandOff` | `_execute` and the executor it drives |
| `WatchDeadline`, `HeartbeatFails` | the two tasks beside it |
| `Finalize`, `CancelRun`, `CancelJob` | `_finalize_execution`, `_execute_cancelled` |
| `AbortActive`, `AbortSignalled`, `AbortRead`, `AbortWrite`, `AbortRaises` | `abort_run`: an active job, a signalled run, and the unfenced path in two steps; `AbortRaises` when the trace cannot enter Summary again |
| `RenderStart`, `RenderProgress`, `RenderAborted`, `RenderFails`, `RenderDone`, `RenderCommit` | the render lane |
| `LeaseRunsOut`, `LeaseOutlivesStall` | the clock: nobody renews, or the owner is held up |
| `Crash`, `Shutdown`, `Exit`, `RecoverLook`, `RecoverSettle` | process life and `_recover_stale_run_jobs` with its `reclaim_expired` |

What the model abstracts, and why that is enough:

- *Tokens.* Each claim draws a fresh token and increments `attempt`; the attempt
  number stands for both.
- *Time.* A lease is live or not.  A heartbeat that renews it changes nothing;
  one that finds the claim gone or cancelled, or fails, is an action.  Anyone may
  see a lease without owner expire; a lease whose owner lives expires only in
  `LeaseOutlivesStall`.
- *Merged reads.* `ensure_claim_owned` and the `mark_terminal` after it are one
  step: the write is fenced, so the second decides whatever the first saw.  The
  same holds for the reads of `_finalize_execution_once` and for its retry as a
  cancellation.  A watch's stage end and its final status step are one fenced
  write.  `Submit` joins the two reads that must both find nothing.
- *Unfenced writes.* `run_repo.save` writes the whole row as its author remembers it, whatever
  became of it, and inserts it again when it was deleted (`WriteUnfenced`; it raises only
  when the deletion falls between its SELECT and its UPDATE).  So a render that goes on after another
  process settled its run, an abort and a recovery may park, settle or put back a run that had
  ended.  `RenderProgress` is the save of the trace while the render runs.
- *Unmerged reads.* Where a write is not fenced, the read is kept in the state
  until it is used: `aborting`, `recovery`.  In recovery only the first zombie
  is read ahead; the loop after it is one transaction.
- *Errors.* `TransientErrors` lets a database write fail where the code swallows
  the exception (heartbeat, finalization, marking, cancelling, the render
  lane).  `RejectSubmission` stands for every refusal after the checks.
- *Identifiers.* Runs are numbers; both kinds count up on their own and a day's
  watches are above its analyses, which is what orders the recovery loop.
- *Claims while stopping.* A claim is made only in mode `up`; one made while
  the process stops has the same effect as one made just before.

### `AccountLane.tla`: what the job table promises

The abstract specification: a run is *unborn*, *held* (it has the trading
account), *parked* (an analysis that let go of the account and still owes its
HTML), *settled* or *gone*; at most one run is held, and none twice.  The lane promises nothing
of what is written without a fence: an analysis may be parked again, and any run settled
again, also one that is gone.  `RunJobs` implements it
under `lanePhase`, which reads "held" off the job row and the rest off the run
row (`LaneSpec`).

`MCRunJobs` adds only what TLC needs; `RunJobsProofs` holds the theorems.

### `BuyGate.tla` and `ValuationCancellation.tla`: orders

`infra/integrations/trade_mutex.py`, `exposure_trade_guard.py`, `buy_preflight.py`,
`mx_agent_tools.py`, `infra/repositories/tool_invocation_repo.py`,
`infra/integrations/valuation_cancellation.py`.

| Variable | Code |
|---|---|
| `order` | the broker's list; `late` marks one booked after its request had timed out |
| `lock` | the holder of the trade lock's database |
| `cap`, `review` | `exposure_caps`, and the single-use reviews `prepare_buy` records in the ledger |
| `call`, `withdrawal` | write calls in `tool_invocations`: buys, and the model's own cancels |
| `intent` | rows of `valuation_cancellations` |
| `undone`, `prior` | what a run keeps in memory: prices of orders it cancelled, orders that were there before it |
| `at` | what each run's process does: declare, prepare, check, order, cancel, or its cancellation cycle (`CycleRead`, `CycleEnsure`, `Act…`, `SystemCancel`, `FinishCancel`, `ConfirmCancel`) |
| `sent` | history: who sent a cancellation |
| `left` | what is left of the bounds |

A request to the broker is sent in one step and answered, lost, or booked late in
another; a process may die between any two.  There is one stock, and one lot
costs its price, because the races are about exposure and single use, not about
amounts.  Selling, position counts and the crossing of midnight are left out.

### `OrderPlans.tla`: the plan a watch acts on

`business/order_directives/`, `infra/integrations/watch_cancel_guard.py`.  `plan` is the
current list, `issuer` its run, `archived` the latest generation in the history and
`standing` the one a reader should be shown as previous.  `Declare` parses with the
downgrade to a bare HOLD, replaces the list and archives the old one.  What a watch
may do is a set of operators over price and clock: when it skips the model
(`watch_triggered` and the rest), what the write guard lets through, what settling
and the end-of-run handoff say.  A condition may be `Endless`: the parser takes
Infinity for a number above zero, settling compares with it, the guard and the handoff
refuse it (`Sound`).  `standing` is never read by the code.

### `AgentTurn.tla`, `LlmCalls.tla`, `ReplyStreams.tla`: the agent

`AgentTurn` (`agent/`): `journal` is the session's, `turn` the locals of the loop with
the batch it waits for, `failures` the repeat guard.  A prompt asks the model,
runs batches of tool calls – sequential ones alone, others in parallel up to
`Concurrency` – refuses a call that failed too often, compacts a conversation over
its budget, and writes to the journal only when it answers.  A message costs one
token, a summary two.

`LlmCalls` (`agent/kernel/llm_runtime.py`, `llm/events.py`, `llm/stream.py`): one call with
its attempts; a producer task and a bounded queue per attempt; retries of the
opening and of a cut-off reply; abort at any point.

`ReplyStreams` (`llm/providers/`): what the accumulators of both providers tell
while a stream arrives, how they end blocks, and the message that is returned
or kept when the stream breaks off.  Signatures, usage and stop reasons are left out.

### `RunTraces.tla`, `RunStream.tla`: what the page shows

`RunTraces` (`business/runs/trace_reducer.py`, `callbacks.py`, `orchestration.py`): stages and
their steps as callbacks write them, including answers that come after the stage
has failed.  Titles, summaries and data of a step are left out.  Dropping a
result draft is never needed here: `LlmCalls` shows text only of the reply that ends
the loop.

`RunStream` (`traces/recorder.py`, `api/sse/`, the frontend hook that follows a run): the recorder's
pending flush, the hub with its histories and queues, the route, and one page with
its cursor, reconnection and poll.  Other pages are connections left behind.

### `MxGateway.tla`, `PublicReads.tla`: market data

`MxGateway` (`stock_api/mx/`): `entries`, `generation` and `cacheKey` are the sheet cache,
`flight` the locks of its single flights, `gate` the process's one request at a
time, `deferred` the wait after a refusal; `book` and `configured` are the broker and
the key.  Clearings happen before and after an order, on a preflight and when the key
changes.

`PublicReads` (`stock_api/public/`): `kept`, `locks`, `users` are the cache, `read` the
calls on their walk over the sources of a request, `host` the rest of a lane and its
gate.  A source gives data, nothing, rubbish, a refusal, a broken connection or a
timeout.  A permit that is granted in the very turn its waiter times out is
never given back; the model keeps that (`lost`).

### `ModelChannels.tla`: settings

`business/settings/service.py`, `channels.py` and their repositories: channels, chosen models and the
stages' references.  A request reads in autocommit, decides, and then writes in one
transaction; a row is read again when it is written, because SQLAlchemy's session
keeps only rows somebody holds.  Keys, prompts and prices are left out.
`orphaned` is history: the stages whose model was deleted while their settings still named it - by a delete
of a channel that had read the settings before an update named the model.  SQLite gives the id to the
next model, of whatever channel; the stage then runs on that one, and a second such delete takes it
away from the stage although it is still offered.  With seven edits (a bound above `desk`'s) TLC finds this,
so `StageKeepsItsModel` speaks of the other stages.

### `OpenFindings.tla`, `Memories.tla`: what outlives a run

A finding is answered on a copy and the copy is saved over a second reading of its
row, field by field.  A memory is written under the version its author was shown; a
merge keeps the ids it replaces.  Search and listings are left out.

### `TaskLeases.tla`, `SchedulerTicks.tla`, `MemoryDreams.tla`

`TaskLeases` is the abstract lease row both users share: acquire when expired, renew,
release and write only as owner.  `SchedulerTicks` (`infra/scheduler/job_runner.py`,
`business/schedules/`, `bootstrap/schedule_handlers.py`): a tick as leader with its wait for a watch, and edits that commit
before they synchronise the cron jobs.  `MemoryDreams` (`business/dreams/`,
`infra/workers/memory_dream_worker.py`): preparing, executing under fenced saves, recovery
and deletion of one day.  A wish saved on a reading inserts a dream that was deleted since
as pending.  An owner may be held up past its lease in both.

### `Evaluations.tla`, `FillNotices.tla`

`Evaluations`: rows, the bounded queue in memory, shutdown, crash and the sweep at
start-up.  `FillNotices` (`infra/integrations/notifications/dispatcher.py`, the account refresh):
lists fetched and committed, deliveries that read watermarks, push and then save them;
slots that overflow, deliveries that are cut off.  The broker's list covers a window of
time: the oldest order leaves it, and its watermark is pruned by the next delivery.
`NothingToldTwice` speaks of refreshes that each begin after the one before was delivered
(`muddled` remembers that one did not): two overlapping deliveries do tell a fill twice.

## What the runs check

`restart`, `fleet` and the violations of the core check for deadlock: no reachable
state of `RunJobs` is stuck.  The other runs switch it off because their parts
come to a bounded end (a prompt is answered, an order is filled, a budget is spent).

| Run | Checks | What it shows |
|---|---|---|
| `restart` | `TypeOK`, `JobAgrees`, `CancelWins`, `OutcomeIsFinal` | one process, a stall, an outage and failing writes: job and run agree, a report is rendered only after the account is free, an accepted cancellation is not overtaken, an outcome is written once |
| `fleet` | `OneActiveJob`, `NoReplay`, `TradesApart`, `ReclaimedNeverSucceeds`, `LaneSpec` | two processes: submissions never both commit, a reclaimed run is never executed again nor finished by its former owner, stages trade apart unless an owner stalls, and the core implements `AccountLane` |
| `live` | `NoOrphan`, `AccountReleased`, `CancelHonoured`, `ParkedSettles`, `ReadsAreCurrent`, `GatewaysAnswer` | under fairness the account is released, cancellations and parked runs come to an end, a sheet is no older than the last clearing, every call of a gateway returns |
| `desk` | `BuysWithinLimit`, `OneOrderPerReview`, `NoBuyBesideCancellation`, `OneCancelSender` | caps hold across runs, a review buys once, no buy while a cancellation is out, nobody sends a cancellation that may have been received |
| | `WatchFollowsPlan`, `CompleteMeansExecutable` | a watch that skips the model loses nothing the guard would have allowed; the guard allows only what settling says, and refuses what it says only for plans no handoff counts as complete; a plan declared complete can be executed |
| | `RequestsWellFormed`, `SessionMirrorsLoop`, `RepeatsBounded`, `WritesRunAlone` | every request answers all its tool calls through compactions, the session rebuilds what the model saw, a failing call is not repeated for ever, writes run alone and never outlive their prompt |
| | `EventsMatchReply`, `TraceTellsTheRun` | what was told while a reply arrived is what it says, also when it breaks off; the trace shows every call closed and every stage as it ended |
| | `OneFlight`, `StageKeepsItsModel`, `LessonsKept` | one load per key, no edit moves a stage off a model that is still offered, no memory is lost in a merge or overwritten unseen |
| `services` | `LeasesExclude`, `OthersLeaveItRunning`, `EditsStack` | one leader and one dreamer, nobody touches a dream under way, no edit of a schedule overwrites one it had not seen |
| | `NothingToldTwice`, `FillsAreTold`, `ReplyShownOnce`, `LiveBaseShowsTrace` | a fill is announced in the end, and once by refreshes that follow each other; attempts are not joined, deltas build on the run they belong to |
| | `TasksSettle`, `CallSettles`, `PageCatchesUp` | dreams, reviews and schedules come to an end, a model call returns, the page sees the end of the run |

*Bounds of the core.*  Two runs already give every race about the account: one that
holds it and one that wants it; in `restart` and `live` a second analysis parks while the
first still waits in a queue of capacity 1, so the queue overflows.  Two processes are the
least for a reclaim by somebody else.  Claims of 2 in `restart`, 3 in `fleet` and
`live` allow a claim, a reclaim and the cancellation of a reclaimed job.  One stall and
one outage put each of them at every step.  `JobAgrees` and `OutcomeIsFinal` are
checked with one process because recovery beside a running process breaks them
(finding `stale_recovery`); `NoOrphan` without failing writes because
`_execute_cancelled` swallows the failure to write the run and still closes the job.
`ParkedSettles` promises less of a run the full queue turned away: it stays parked
while its process lives, and is settled when the next one starts (`summary_worker.py:79`).
The processes of `fleet` are interchangeable - nothing in the code or the model tells them apart,
and the run has no liveness property - so TLC treats them as symmetric.
`live` follows either two analyses, where the queue overflows and no owner is held up past its
lease, or an analysis and a watch, where one may be.

*Bounds of the desk.*  Two trading runs, two calls, two reviews, prices 1 and 2, caps 2 and 3: a
cap can be exceeded only by two orders together.  `MCBudgets` lists six scenarios,
each small: two runs that declare and buy; two that buy and one that dies; two buys beside the model's own
cancel, or beside a cycle; a cycle beside the model's cancel; two cycles and a crash.
Plans: two analyses (three in `stale_plan`, which needs three generations), two orders, prices 2 and
3, two times of day, and thresholds without end.  Agent: two different calls of which one writes, two allowed failures, two at a time,
a budget of 7 tokens that compaction meets more than once, two prompts, four replies.
Settings: two requests, one stage, two channels that compete for two ids of chosen models, so an
id comes back for another model, five edits (what the revision of the settings prevents needs
that many).  Public reads: three tasks at one key, one permit,
a lane that rests after 2 failures (the code: 4), one cancellation.  Findings: two, of
which one is shown; memories: two, an authoring and a curating session, three versions;
replies: three blocks of two pieces; traces: two tool ids, two summary attempts (the code's).

*Bounds of the services and gateways.*  Two processes, three owner ids (two in use and a
fresh one), two faults; two dreams requests of which one is manual; two reviews and room for one; two
orders of one lot of which one leaves the window, one refresh at a time, two slots, one fault; two attempts of two openings, a
queue of two events; a hub queue of 1 and history of 2, so both overflow, one break of the line.
`live`: two readers of one sheet, one caller, two accounts, one retry, and `MCAllowances`
for what the surroundings may do; two readers of public data on a route of two sources of one host.

*Fairness.*  Weak fairness of the worker's and the render lane's next step
(every LLM request has a timeout and the loops catch what their iterations
raise), of claiming (the poll loop runs every half second), of the clock on
leases nobody renews, and of restarting (`compose.yaml`: `restart:
unless-stopped`; recovery runs at start-up).  Of the gateways: requests time out
(15 s at the broker, per source elsewhere), waits are bounded sleeps, locks are handed on.  Of the
services: the scheduler's deadline and lease ends are clocks; dream and review workers poll;
a refresh and its delivery run on; the LLM's read timeout is 300 s and its pauses bounded; the
page's connection is read, the server checks for a disconnect every 15 s and `EventSource`
reconnects within 5 s, but no fairness is assumed of the page's poll.  Nothing is
assumed of users, aborts, the broker's fills, clearings, stalls or outages.

Every property is paired in `PROJECT.json` with a mutant of the code that breaks
it: a missing unique constraint, a replay after a reclaim, a fence without its
lease, a blind finalization, a review that is not used up, a watermark saved too
early, and so on.

## Where code and documentation disagree

Each of these is a run that TLC must find violated.

- **`abort_parked`** – a test (`tests/business/test_run_app_service.py:872`) has
  `abort_run` end a run whose job is closed, and `business/runs/service.py:179` means to
  abort a run that renders its summary.  For a run parked in Summary without a signal in this
  process it does not: `_record_aborted_run` enters the trace's Summary stage a second time and
  raises, the transaction rolls back and the run stays RUNNING.
- **`crash_parked`** – `business/runs/orchestration.py:87` says a crash after the
  Markdown was saved costs the HTML and nothing else.  Between that commit and
  the one that closes the job, recovery finds the job LEASED with an expired
  lease before it looks at Summary, and fails the run; so does a reclaim.
- **`stale_recovery`** – `bootstrap/app_factory.py:131` says recovery settles
  orphan or expired runs.  It decides on a run it read before, so one that a
  second process ended in between is rewritten FAILED.
- **`stale_plan`** – `infra/repositories/order_directive_repo.py:58` returns "the plan that stood
  immediately before the current one".  A plan that was empty leaves no rows in the
  history, so an older one is returned in its place.
- **`stream_resume`** – `api/sse/stream_hub.py:41` calls the hub one for ordered, resumable streams.  A
  connection without a contiguous replay starts from the run as it was last saved,
  under the sequence number of the live one: the text in between is missing
  until the next checkpoint.
- **`stale_write`** – `business/shared/exceptions.py:20` says a stale revision is refused.
  `update_settings` compares it with one reading of the row and writes over another; so does the
  deletion of a model channel.
- **`reopened_finding`** – `business/open_findings/models.py:139` says a closed finding takes no further
  disposition.  A run's answer that was begun before the closing is saved over the closed row.
  This is a bug rather than a wrong comment.

Observed while modelling, and not checked by a run:

- An abort is answered with success while the render has passed its last check (`business/runs/service.py:187`).
- Of two edits of a schedule the earlier may synchronise last (`business/schedules/service.py:113`).
- Of two account refreshes the older may commit later (`business/account/service.py:131`).
- The recorder's pending flush may publish an end that is not yet saved (`traces/recorder.py:121`).
- An owner held up past its lease trades on until its next heartbeat; the fence covers
  database writes only.  The repository's README recommends a single instance.
- The rest of a lane is checked before its gate (`stock_api/public/http.py:283`), so a
  request that waited goes out to a lane that rests by then.
- An update of the settings that checked a model before its channel was deleted leaves a
  reference to nothing; the stage is shown without a model.  SQLite may also give a
  deleted channel's id to a new one.
- A page that polled a newer, ended trace ignores the older terminal checkpoint and reconnects.
- Recovery leaves running stages in a failed run's trace; a late tool result overwrites
  the failed stage's summary; providers without call ids reuse ids, so the trace keeps one
  step for several calls; a second attempt at the summary continues the thinking text of the first.

## What is proved

TLAPS proves the following for every value of the constants that their named
assumptions allow, and every number of runs, processes, tasks, calls and orders.
Each invariant was first checked by TLC on the run that checks its property.

| Module | Theorem | Property |
|---|---|---|
| `RunJobsProofs` | `TypeCorrect` | `TypeOK` |
| | `AccountExclusive` | `OneActiveJob` |
| | `NeverReplayed` | `NoReplay` |
| `RunOutcomeProofs` | `StagesTradeApart` | `TradesApart` |
| | `NoRunOrphaned` (no write is lost) | `NoOrphan` |
| | `ReclaimedFails` | `ReclaimedNeverSucceeds` |
| | `CancellationWins` | `CancelWins` |
| | `LaneImplemented` (no write is lost) | `LaneSpec`: the job table implements `AccountLane` |
| | `OutcomesFinal` (one process) | `OutcomeIsFinal` |
| | `JobsAgree` (one process) | `JobAgrees` |
| `LeaseProofs` | `LeaseExclusion` | `LeasesExclude` |
| | `EditsBuildOnEachOther` | `EditsStack` |
| | `DreamsEndByTheirOwner` | `OthersLeaveItRunning` |
| `DeskProofs` | `ReviewsBuyOnce` | `OneOrderPerReview` |
| | `CancellationsHaveOneSender` | `OneCancelSender` |
| | `BuysLeaveAlone` | `NoBuyBesideCancellation` |
| | `BuysStayWithinLimit` | `BuysWithinLimit` |
| `AgentTurnProofs` | `WritersRunAlone` | `WritesRunAlone` |
| | `RepetitionBounded` | `RepeatsBounded` |
| | `SessionFollowsLoop` | `SessionMirrorsLoop` |
| | `RequestsStayWellFormed` | `RequestsWellFormed` |
| `DeskPartsProofs` | `WatchesFollowTheirPlan` | `WatchFollowsPlan` |
| | `HandoffsCanBeCarriedOut` | `CompleteMeansExecutable` |
| | `LessonsAreKept` | `LessonsKept` |
| | `ReadsShareAFlight` | `OneFlight` |
| | `TracesTellTheRun` | `TraceTellsTheRun` |
| | `StagesKeepTheirModels` | `StageKeepsItsModel` |
| | `EventsTellReply` | `EventsMatchReply` |
| `ServicePartsProofs` | `FillsAreToldOnce` | `NothingToldTwice` |
| | `RepliesAreShownOnce` | `ReplyShownOnce` |
| | `LivePagesShowTheTrace` | `LiveBaseShowsTrace` |
| `GatewayProofs` | `SheetsAreCurrent` | `ReadsAreCurrent` |

*One account, one start* (`RunJobsProofs`).  The inductive invariant is `Inv`.
`TypeOK` alone is not inductive, because the actions index tables with the run a
worker or a lane works on: `TypeInv` adds that whoever is not idle works on a run.
`NoReplay` needs the reason why a stage starts once: a run without a row was never
started and has no job (`FreshRuns`); a PENDING job was never claimed, nor was its
run started, and a claimed one counts at least one claim (`ClaimsCounted`); a worker
on its way to a stage is the only one, at a run not yet started (`OneStarter`).  All
actions but three are *calm*: they start nothing, send no worker to a stage, and put no
job and no row back to an earlier phase (`WorkersStep`, `StoreStep`, `CountsStep`), and a calm
step keeps `Inv` (`CalmKeeps`).  The others are `CreateRun`, `Claim` and `Begin`.

*How runs end* (`RunOutcomeProofs`).  `Safe` adds who writes.  A claim's token is held
by one worker, so whoever owns a live claim is the only one to write its run
(`OwnerWrites`); what is written without that fence - by the render lane, by
`abort_run` - is written to runs whose job is closed for good, or was deleted with the row that the
write puts back (`Waiting`).  `RowMove` and
`WorkerMove` say what one step can do to the rows of a run and to a worker.  They are
proved action by action, everything else from them.  Two results need a hypothesis:

- `TransientErrors = FALSE` for `NoRunOrphaned` and `LaneImplemented`: a write that
  fails and is swallowed (`_execute_cancelled`) may close the job of a run that stays
  RUNNING, which no recovery of a living process ends.  TLC checks `NoOrphan` under the same
  restriction.
- `OneProcess` for `OutcomesFinal` and `JobsAgree`: start-up recovery decides on rows it
  read before.  `compose.yaml` starts one process, and the violation `stale_recovery` is what two do.

`lanePhase`, the refinement mapping, is a CASE whose arms exclude each other only
because of what `Safe` says of the rows.

*Leases* (`LeaseProofs`).  Whoever leads a tick or dreams holds the lease it took,
under a token used once, or was held up past its end; renewals and releases compare the token.

*The desk* (`DeskProofs`).  `DeskInv` is the ledger (every order sent has its own
review, used up under the trade lock), the lock (its holder is the only one
between check and order) and, per broker order, who has asked for its
cancellation and what may have arrived.  For the day's money `LimitInv` adds three facts.
Whoever has sent an order still holds the lock.  The limit read under the lock
is still the limit, since a cap is only declared while the lock is free.  And the order checked fits
beside everything committed since.  What is committed is a sum over a finite set of
calls: `SumTakes` takes one call out of it, and by `SumGrows` it does not shrink when calls are added.
Their proofs, and that of `SumExists`, look at the least number of members for which the
statement would fail.

*A turn* (`AgentTurnProofs`).  Batches run in order: what is under way is part of
one batch, a batch with a call that writes has one member, and what has been
counted as a failure bounds what may be asked again.  The conversation has an invariant of
its own, `TalkInv`.  What the session projects from its journal, with the mutations not yet written to it,
is what the loop works on.  The messages of a prompt are the opening, the talk before the prompt, the prompt and the
talk since (`Conversation`), where a talk is made of whole turns: a reply and the results of
all its calls.  A compaction keeps whole turns, so every talk it leaves is one too.
The lemmas about filters (`EntriesAppend`, `EntriesConcat`) are proved for all lengths: the induction rule for
sets of numbers (`NatSets`, and from it `SeqSets` for sequences) has no operator as a parameter.

*Parts of the desk* (`DeskPartsProofs`).  Plans: what stands between a
declared list and the watch is a table of cases over prices and times, proved by
arithmetic.  Memories: nobody was shown a version that does not exist, and a merge that may
still be stored absorbs the row's lineage (`MemoryInv`).  Public reads: a call with an entry in
the lock table stands once in its queue, and whoever loads stands first (`FlightInv`).
The trace: what is told of a stage (`Told`: each id listed once, the result last and with the
text of one attempt, at most one thought under way, running calls only among those asked) is
kept by each operation on lists (`PutFacts`, `ResultMoves`, `ClosedFacts`, `ThinkingClosedFacts`)
and so by each action of the writer.
Models: a row is only ever kept or deleted under its id, two rows never say the same, and a
delete that has decided on settings nobody has changed since knows of its stages' models only those
of its own channel (`RowsInv`, `Carries`).  That last fact made the proof fail before TLC found
why: it does not hold of a stage whose model was deleted behind its settings (see `ModelChannels.tla`).
Replies: what has been told of a block is its start, its pieces and, once it has ended, its
end; nothing before a tool call has a name, and with the name all that came until then
(`BlockSays`).  OpenAI's blocks end after the stream, Anthropic's while it is read
(`BlocksStand`); either way a block ends once, and a message is returned only when
none is left open but a tool call that came to nothing.

*Parts of the services* (`ServicePartsProofs`).  Fills: what was told, what is
being delivered and what is remembered cover each other but for orders that left the broker's
list, and as long as refreshes follow each other nothing that can still be told of
is ahead of its watermark (`FillInv`).  Replies: the queue
between producer and caller is always some thinking, then the rest of one reply's text,
then its end - or what overflowed is known to be lost (`QueueOf`, `CallInv`).
The stream of a run: `StreamInv` says there is a chain, the run as it was at each message of the
hub's generation, that fits everything else (`Life`).  The recorder's own messages say what
their place in the chain says (`Own`), and it saves before it publishes (`SavedFirst`).  A message that was
read from the database instead has nothing in the chain that its seq does not cover and that has another text
(`Reads`); an end or an opening frame asks more of the page that is past it (`Ends`, `Opening`).
A page that follows the generation and has a checkpoint of the recorder has the text of its place in the
chain (`PageAt`), and the next message it accepts takes it to the next place.

*The broker's sheets* (`GatewayProofs`).  What is kept is of the account the cache is about and was
read from a book no older than the last clearing of that account; a load that may still keep its answer (its generation is the
current one) was asked with the key the cache is about; whatever a waiting call may find there
is of an account that was configured while it waited (`GateInv`).

The assumptions on the constants are the code's own: a review and a call have a
positive number and caps are natural (`TradeAssumption`); at least one call runs at a time,
`max(1, ...)`, and at least one failure is allowed (`TurnAssumption`); prices lie above one
tick and there is a time of day (`PlanAssumption`); tasks are numbered (`PublicAssumption`);
bounds and ids are natural and providers name finitely many models (`ChannelAssumption`); reading and
trading calls are different tasks (`GateAssumption`); there are finitely many calls (`TradeAssumption`);
a subscriber's queue holds at least one message and the hub's history at least as many (`StreamAssumption`).

### Only model-checked

- Liveness, which TLAPS cannot prove under fairness: `AccountReleased`,
  `CancelHonoured`, `ParkedSettles`, `GatewaysAnswer`, `TasksSettle`, `FillsAreTold`,
  `CallSettles`, `PageCatchesUp`.

Every safety property of the passing runs is proved.  The prover cannot instantiate an
induction theorem that takes an operator; where a proof needs induction (sums
over calls and pieces, filters over messages) it goes over the set of numbers, or of
subsets, that satisfy the statement.

## What is not modelled

- *Pure computation and wording*: normalizers and contracts of market data, report
  layout, portfolio figures, prompts, schemas.  They read and return values; a
  state machine adds nothing to their tests.
- *Record keeping with one transaction per request*: no state outlives the
  request and nothing interleaves beyond what the database serialises.
- *Migrations, request parsing, the remaining pages of the frontend.*
- Inside the run core a stage is one step that succeeds, is aborted or fails at
  any moment; the agent's loop, its tools and the broker have modules of their
  own.  A task cancelled at shutdown stops where it stands; that the executor then
  unwinds through its handlers is not distinguished from a crash.
- Liveness is out of the prover's reach and stays with TLC.

## Plan

The safety properties are proved; what is left is more of the code:

1. The parts listed as `partly` modelled: account overview and notifications first,
   where requests and a background refresh meet.
2. A promise for `RunStream` as a whole, an abstract log that every page reads in order, and the
   hub, the recorder and the page shown to implement it as `RunJobs` does `AccountLane`.
3. The abort that is answered with success although the render is past its last check
   (`service.py:187`): a property needs a promise about the answer first, which
   neither the docs nor the tests make.
