# Paperclip: a verification project

Paperclip is a control plane for companies of AI agents: a Node server over
Postgres that wakes agents, runs them through adapters, lets them and human board
users work on issues, stops what has spent its budget, starts what a schedule asks
for, and hosts plugins. These modules model the parts of the server in which several
handlers, timers or processes act on the same state. Paths below are relative to
`src/`; `heartbeat.ts`, `issues.ts` and so on are files of `server/src/services/`.

| Module | What it is | Proofs |
| --- | --- | --- |
| `IssueExecution` | the issue execution lock: wakeups, coalescing, deferral, promotion, cancellation, the reaper, restarts | `IssueExecutionProofs` |
| `AgentStartLock` | the promise chain that serialises the starts of an agent's runs, and the calls awaited behind it | `AgentProofs` |
| `IssueCheckout` | who owns an issue: checkout, adoption, update, release, against runs that start and end | `IssueCheckoutProofs` |
| `ExclusiveLease` | abstract: atomic ownership of a task; `IssueCheckout`'s checkout and `IssueExecution`'s lock implement it | |
| `BudgetEnforcement` | cost events, thresholds, incidents, stops, raises, against the board's pauses and the claims of runs | `BudgetEnforcementProofs` |
| `RoutineDispatch` | scheduled ticks and requests of a routine, the dispatch transaction, its execution issues, a crash | `RoutineDispatchProofs` |
| `CronSchedule` | the two searches for the next time of a cron schedule | in `PluginJobsProofs` |
| `AgentLifecycle` | the hiring of an agent, decisions on it, and everybody who writes its status | `AgentProofs` |
| `PluginWorker` | the worker process of a plugin: start, stop, crash, backoff, RPC calls | `PluginWorkerProofs` |
| `RpcChannel` | abstract: what callers of a plugin rely on; `PluginWorker` implements it, `PluginJobs` is built on it | |
| `PluginJobs` | the scheduled jobs of a plugin, on that channel | `PluginJobsProofs` |
| `RuntimeServices` | the local services that runs start, share, lease and give back, their timers and exits | `RuntimeServicesProofs` |
| `MC...` | instances for TLC | |

## Inventory

The server is one process. Handlers interleave at every `await`; what they share is
the database (rows, row locks, unique indexes, conditional updates), a few in-memory
maps and child processes. State survives a restart in the database alone.

| Part | State | Operations | What makes it hard | What makes it correct | Status |
| --- | --- | --- | --- | --- | --- |
| Issue execution lock (`heartbeat.ts`) | `heartbeat_runs`, `issues.executionRunId`, `executionAgentNameKey`, deferred `agent_wakeup_requests`, `activeRunExecutions` | `enqueueWakeup`, `releaseIssueExecutionAndPromote`, `executeRun`, `cancelRunInternal`, `cancelActiveForAgentInternal`, `reapOrphanedRuns` | concurrent wakeups, status written from stale reads, crashes, lost processes and retries, bypasses | one active run per issue, no lost request, no merge into another agent's run, one retry | partly |
| Agent start lock (`heartbeat.ts`) | `startLocksByAgent`, run statuses, the awaiting calls | `withAgentStartLock`, `startNextQueuedRunForAgent`, `claimQueuedRun`, `resumeQueuedRuns`, `cancelBudgetScopeWork` | a lock that is not re-entrant, awaits inside it, stops that meet starts | slots respected, starts in order, nothing revived, everything moves on | partly |
| Issue ownership (`issues.ts`, `routes/issues.ts`) | `issues.status`, assignee columns, `checkoutRunId`, `executionRunId` | `checkout`, `adoptStaleCheckoutRun`, `assertCheckoutOwner`, `update`, `release` | races for a checkout, read-then-write by id, dead owners | an exclusive lease, both lock columns in step | partly |
| Budgets and costs (`budgets.ts`, `costs.ts`) | policies, incidents, cost events, paused scopes | `createEvent`, `evaluateCostEvent`, `upsertPolicy`, `resolveIncident`, the gates of runs | check-then-insert, stops that race raises and claims | one incident per threshold, a stop is announced and complete, the board's pause outlasts budgets | partly |
| Routines and cron (`routines.ts`, `cron.ts`) | triggers, routine runs, execution issues, the connection pool | `tickScheduledTriggers`, `runRoutine`, `dispatchRoutineRun`, `updateTrigger` | a transaction that awaits other connections, overlapping ticks, retried requests, a crash after the claim | one issue in execution, one run per key, each instant claimed once, no dispatch waits for ever | partly |
| Approvals and hiring (`approvals.ts`, `agents.ts`) | approvals, `agents.status` | hire, approve, reject, revise, resubmit, pause, resume, terminate, the writes of runs | status first, effects later; stale status writes; crashes | a decision has its effect once, and one decision wins | partly |
| Plugin jobs (`plugin-job-*.ts`) | jobs, job runs, `activeJobs` | tick, trigger, dispatch, pointer advance, register, unregister | check-then-act, a shared in-memory entry, slow or dying workers | scheduled runs of a job do not overlap, the scheduler moves on | partly |
| Plugin workers (`plugin-worker-manager.ts`, lifecycle, loader) | worker status, crash counters, pending calls, timers, processes | start, stop, crash, backoff restart, RPC | restart against stop, exit events that come late, workers that ignore signals | one process, each call settled once and by its process, operations end | partly |
| Runtime services (`workspace-runtime.ts`) | services by id and by reuse key, leases by service and by run, idle timers, processes | ensure, release, idle stop, exit, stop of a workspace's services | check-then-start and decisions across awaits, stop against lease, writes that fail between the two halves of a lease | leases agree, a leased service is not stopped, an unleased one is, no stray process | partly |
| Child processes (`packages/adapter-utils`) | child, timers, `runningProcesses` | spawn, timeout, SIGTERM, SIGKILL | exit against escalation | a cancelled child ends | not modelled |
| Documents, secrets, access, board authentication | revisions, versions, challenges, memberships | upsert, rotate, join, approve | version counters, expiry | no lost version, challenge used once | not modelled |
| Plugin buses, tools, live events, storage, logs, projects, goals, portability, skills, UI, CLI, adapters, schema | little or none shared | | pass-through or pure input and output | | not modelled |

No part is modelled whole: `PROJECT.json` says of each what is left out.

Interaction: routes, routines, plugins and the interval timers of `index.ts` call
`enqueueWakeup`. It inserts a run under the issue's row lock and awaits
`startNextQueuedRunForAgent`, which claims queued runs behind the agent's chain,
asking budgets and pauses once more, and executes each in a process nobody awaits. A
run calls back over HTTP: it checks issues out, patches and releases them
(`issues.ts`), which writes `issues.executionRunId` as well. When it ends, it writes
its status and its agent's, releases the issue's lock (which may promote and start
another agent's run), books its cost (which may stop a scope and cancel its work) and
starts the agent's next run. Each concern is a module; where two meet, the module at
hand has the other's steps that matter: `IssueCheckout` the start and end of runs,
`BudgetEnforcement` the board's pauses and the claims of runs, `RoutineDispatch` the
release and revival of an issue's lock, `AgentLifecycle` the runs' status writes,
`RuntimeServices` the part of `executeRun` before and after the adapter.

## The models

All modules follow one rule: a handler is a process, and a database round trip (or a
transaction, where row locks make it atomic) is an action. What a handler has read is
in its call's record until it is used. Status writes are unconditional exactly where
the code's are. Operators marked "Mistake" are plausible bugs; no specification uses
them, and each breaks the property it is listed with in `PROJECT.json`.

**IssueExecution.** `call` holds the wakeups in progress. A wakeup for an issue takes
the row lock and repairs the lock (`WakeLock`: `SELECT ... FOR UPDATE`, check that the
holder is active, else adopt the oldest active run), then coalesces, defers or starts
(`WakeCoalesce`, `WakeDefer`, `WakeStart`), and commits. A mention or an issue-less
wakeup takes the other path (`WakeScan`, `WakeScanned`), with no transaction. `Claim`
stands for `startNextQueuedRunForAgent` and the claim; `ExecBegin`, `AdapterReturns`,
`AdapterThrows`, `Settle` and `ExecRelease` for `executeRun`; `CancelRead`,
`CancelSet`, `CancelRelease` for a cancellation. `Pause` begins a cancellation of
each active run of the agent. `ReapScan` takes the reaper's snapshot, `ReapSkip`,
`ReapDetached`, `ReapFail`, `ReapRelease` and `ReapRetry` treat one run each. `Crash`
clears what is in memory, row locks included. `Features` names the parts of the code
an instance exercises; it only removes actions. An agent stands for its normalised
name.

**AgentStartLock.** A process is a top-level async call; `stack` holds the calls it
awaits, so that a call that awaits a call that awaits the chain is visible. `chain` is
`startLocksByAgent`: the calls in the order in which they chained themselves. `Look`
reads gate, slots and queue under the lock (three reads, one step: only the lock's
holder claims, so other handlers can merely free slots or shrink the queue in between,
and the claim re-checks both). `Check` and `Claim` are `claimQueuedRun`; a run that
may not start is cancelled by an awaited call inside the body. `Release` may promote a
run and await its start; `StartNext` is the last await of a cancellation and of an
execution. A process of a run is its `executeRun`.

**IssueCheckout.** The columns of one issue, the phase of each run, and one call per
run or board user. `Checkout` is the conditional UPDATE; if it matches no row,
`Reread`, then `AdoptFree` or `AdoptStale`. An agent's PATCH or release first proves
ownership (`Request`, `AssertOwner`, perhaps `AdoptStale`), then reads
(`ReadForUpdate`, `ReadForRelease`) and later writes by id (`WriteUpdate`,
`WriteRelease`). The heartbeat service appears as the writer of `executionRunId`:
`TakeLock`, `ReleaseLock`. That a terminal run stays terminal makes the status look
and the conditional UPDATE of an adoption one step. Statuses other than todo and
in_progress are all `done`: no statement that matters tells them apart, except a
checkout's `expectedStatuses`, which an instance chooses. The module is shown to
implement **ExclusiveLease**, what doc/SPEC.md (Atomic Task Checkout) promises, with
`holder <- checkoutRun` and `finished <-` the ended runs.

**BudgetEnforcement.** Scopes are the company and its agents. A cost event reads the
active policies once (`ReadPolicies`) and evaluates them one after the other (`Each`):
it looks for an incident (`FindSoft`, `FindHard`) and inserts one later (`InsertSoft`,
`InsertApproval`, `InsertHard`), where the unique index may throw (`Conflict`); then it
pauses the scope, reads its runs and cancels them (`PauseForBudget`, `Scan`, `Cancel`).
`Upsert` and `Raise` are a new policy and a resolution with a higher amount, which lift
the stop (`Lift`) and resolve what is open (`Resolve`); `Dismiss` keeps the scope
paused. `Admit`, `CheckAgent`, `CheckBudgets` and `Claim` are the gates a run passes,
each a statement of its own. `hold` is the pause reason.

**RoutineDispatch.** One routine with one schedule trigger. `TickRead` and `Claim` are
the tick: a read, then an UPDATE on the very `nextRunAt` it has read. A dispatch takes
a connection (`Connect`), locks the routine's row (`Lock`), looks for a live issue
(`Find`), creates one on another connection (`Create`), wakes its assignee (`Wake`),
and commits (`Finish`) or undoes (`Undo`). `free` is the connection pool. An issue's
`exec` is its execution lock: a live run, a lock that outlived its run, or none; the
partial unique index covers the first two. `RunEnds`, `Release`, `Revive` and
`IssueMoves` are what the rest of the server does to such issues. Of the clock only
the minutes that match, and whether one is due, are kept.

**CronSchedule** is pure: `NextCronTick` turns the loop of `cron.ts` into a recursive
function whose step is `Skip`, `NextCronTickInTimeZone` is the scan of `routines.ts`.
The calendar, the hours of a day and the minutes of an hour are constants.

**AgentLifecycle.** One agent and the approval to hire it, made by
`CreateAgent`/`CreateApproval` (agent first) or `CreateForData` (the agent is created
on approval). `Resolve` is the conditional UPDATE that decides who decides;
`HireFromData`, `ReadPending`, `TerminateRejected` are its effects, each after an
await. `Revise`/`WriteRevision`, `ReadAgent`/`WriteAgent` read and write by id. Runs
write the agent's status when they start and in the three statements of
`finalizeAgentStatus`. `late`, `applied`, `reopened` and `lost` are history: who
checked before a termination, how often a decision took effect or was overwritten,
and whether a crash cut one in two.

**PluginWorker.** The handle of the manager (`status`, `child`, `intentional`,
`crashes`, `timer`) and the processes it has spawned. A process that died is *dying*
until its exit event is handled. `flow` has what an operator's operation and the
restart after a crash wait for; a stop goes through *drain*, *term* and *kill*, each
with a timer. `Call`, `Response` and `TimeOut` are RPC. It implements **RpcChannel**
with `up <- child`.

**PluginJobs** EXTENDS `RpcChannel`, so that a run's call may fail, hang until its
timeout, or die with the process at any time. `Tick` reads the due jobs, `Look`
dispatches or skips each, `TickEnds` waits for all of them; `Trigger`, `CheckRows` are
a manual trigger; `CreateRun` to `AdvanceSchedulePointer` the dispatch; `Unregister`
and `CancelRun` a deactivation. Its instance also evaluates `CronSchedule`, which
computes the pointer that `AdvanceSchedulePointer` writes.

**RuntimeServices.** The maps of `workspace-runtime.ts` live in the server, so that what
lies between two awaits is one action: `Reuse`, or `StartLocalRuntimeService` and
`Ready`, then `Persisted`, for each service of a run's configuration; `DropLease`, the
await of a write, `Unleased` and perhaps `Stopped`, for each that a run gives back.
`StartFails` and `PersistFails` lead to the release in the catch block, `ReleaseFails`
is the exception that `executeRun` ignores. `IdleTimeout` is a timer's callback, `Dies`
and `Exit` are the end of a process and its event, `ListServices` to `StopEnds` the
archiving of an execution workspace. A service is `<<run, n>>`, the n-th of the
configuration of the run that starts it. Rows are written and never read by these
decisions: of a write the await and its failure are kept. `raced` and `lost` are
history: keys that were started twice at once, services whose lease a failed write lost.

## Runs

| Run | Question | States | Result |
| --- | --- | --- | --- |
| `issue_owner` | two concurrent wakeups, pauses, late exceptions: one active run per issue, no stranded request, no foreign merge, finished runs stay finished | 0.9 M | holds |
| `issue_recovery` | a restart, the reaper, detached children, mentions, timer runs, checkouts, adoptions: one retry, only orphans reaped, deferred requests keep a lock | 4.1 M | holds |
| `issue_liveness` | with comments and cancellations: deferred requests are served, queued runs start | 0.25 M | holds |
| `start_lock_safety` | slots, order, no revival, no claimed run left alone, under promotions, cancellations, pauses and budget stops | 4.5 M | holds |
| `start_lock_budget` | with budget stops, queued work is still driven forward (`index.ts`) | 0.25 M | violated |
| `checkout` | the checkout is an exclusive lease, its run has the execution lock and the issue is in progress | 2.9 M | holds |
| `budget` | one live incident per policy, window and threshold; a stop is announced and complete; the board's pause stays | 6.5 M | holds |
| `routine` | one issue in execution, one run per key, each instant claimed once, dispatches go on | 1.4 M | holds |
| `agent_lifecycle` | one decision takes effect, pending agents have an open approval, only late writes revive a terminated agent | 2.2 M | holds |
| `plugin_worker` | one process, the channel its callers rely on, operations end | 0.04 M | holds |
| `plugin_jobs` | scheduled runs of a job do not overlap, ticks end; the next time is the same in both searches | 1.6 M | holds |
| `runtime_services` | leases agree, a shared service is found, no stray process, a leased service is not stopped, an unleased one is | 0.6 M | holds |

`PROJECT.json` names a mutant of the code for each property. `PointersAgree` evaluates
`SchedulersAgree`, which depends on no state, for each of the instance's schedules and
from each of its minutes.

### What the violation shows

`start_lock_budget`: `claimQueuedRun` cancels a run that a stop forbids, under the
agent's start lock, and awaits the cancellation, whose last await is a start of the
same agent. That start waits for the chain's entry that waits for it. The chain lives
as long as the process: later runs of the agent stay queued and `resumeQueuedRuns`
hangs at the agent. Without budget stops the property holds in the instances tried:
`Features = {"promote"}` under `FairSpec`, with two agents and three runs.

### Known deviations without a run

Met while modelling. A property that such a behaviour would violate is stated so that
it excepts it by name, or is checked in an instance without it; nothing is hidden in a
guard.

* Issues. A wakeup with reason `issue_comment_mentioned` bypasses the lock and its run
  is active beside the holder (`heartbeat.ts:2925`; the plan of 2026-02-20 says there
  is one). The reaper fails a lost run and inserts its retry in a later transaction
  without looking for an active run (`heartbeat.ts:1693`): a wakeup in between starts a
  second run. `update` validates the row it read and writes by id, so that an issue can
  become in progress without an assignee (`issues.ts:796`; SPEC-implementation 7.6), or
  have two, if a patch names one column and races a checkout (the UI names both). With a
  crash between a run's status and its release, or with mentions, a deferred request can
  wait for a finished run until the issue's next wakeup repairs the lock. Two
  overlapping reaper passes can retry a run twice, and the reaper of one heartbeatService
  instance can fail a run that another executes (`activeRunExecutions` is per instance).
* Budgets. The unique index throws out of `evaluateCostEvent`: the loser of the race
  does not evaluate its other policies, so a hard stop waits for the next event
  (SPEC-implementation, budget hard stops). A hard stop evaluated against a policy that
  was raised meanwhile leaves the scope paused with no open incident. After a dismissal
  a new hard incident is opened at the next event; after a resolution in the same
  window, none is. The approval is inserted before its incident, which may then
  conflict: it stays pending without one.
* Routines. `always_enqueue` never has two issues in execution: the index refuses the
  second, whose dispatch fails (docs/api/routines.md: "always create a new run").
  A dispatch between the end of the older issue's run and its release fails for the
  same reason, whatever the policy. `updateRoutineTouchedState` may set `nextRunAt`
  back to an instant that another tick has claimed (`routines.ts:413`). A crash between
  an issue's creation and the dispatch's commit leaves an issue without a routine run;
  a wake that throws after it committed leaves a queued run whose issue is deleted.
  With at least as many concurrent dispatches as pool connections, all of them wait for
  a second connection for ever: `PoolAssumption` excludes it. The handler of the index
  conflict in `dispatchRoutineRun` is dead code, for `issues.create` does not set the
  lock that the index covers. An issue that is done before the dispatch has committed
  leaves its routine run in `issue_created`.
* Cron. The limit of `nextCronTick` counts turns of its loop, not minutes, so it looks
  far beyond the four years of its comment, while the scan of routines ends after five.
  `N-M` with a step and N > M parses to an empty list without an error.
  `getZonedMinuteParts` asks Intl for `hour12: false`; where that prints midnight as 24
  (`MidnightHour = HoursPerDay`), schedules at hour 0 never fire and the searches
  disagree. The instance has `MidnightHour = 0`.
* Agents. A write of an agent's status whose check is older than a termination revives
  the agent (SPEC-implementation: termination is irreversible); `OnlyLateWritesRevive`
  says that nothing else does. `requestRevision` may overwrite a decision
  (`approvals.ts:192`). Pause and resume of an agent that is pending approval make it
  idle without a decision. A crash between a decision and its effect, or between a
  hired agent and its approval, leaves the agent pending for ever.
* Plugin workers. A plugin that is disabled while its worker waits for its backoff gets
  its worker back (`plugin-loader.ts:1607` stops a running worker only). A worker whose
  first `initialize` failed stays registered as crashed, and enabling it throws from
  then on. A restart uses the options of the first start, so that it does not see a
  new configuration. The count of crashes is reset by `initialize`, so that a worker
  that dies right after it is restarted without end.
* Plugin jobs. A triggered run can overlap a scheduled or another triggered one of its
  job; a run that is cancelled by a deactivation is overwritten by its late completion;
  a row left running by a crash of the server blocks triggers of its job for ever.
* Runtime services. A lease is taken before a write and recorded after it
  (`workspace-runtime.ts:1311`), so that a write that fails loses it: the service is never
  given back and, unless it dies or its workspace is archived, never stopped. Two runs can
  start one shared service at a time; `stopRuntimeService` then deletes the reuse key
  whoever has it (1219, unlike the exit handler), and a third run starts a third process.
  A service shared by a project is stopped when the workspace of the run that started it
  is archived, though runs of other workspaces lease it. A start under way is missed by
  that stop (1385). The exit of a child before its service is registered is not heard
  (1253): if another process answers on its port, a dead service is registered. A crash
  of the server leaves detached processes whose rows the next start marks stopped, and as
  nobody awaits that (`index.ts:525`) it can mark a new service's row as well.

### Bounds

| Run | Bounds | Why they are enough |
| --- | --- | --- |
| issue runs | 2 agents, 1 issue, 3 runs, 1 slot, 1 or 2 callers, 1 reaper pass, 1 crash in `issue_recovery` | holder, deferred and newcomer, or a lost run, its retry and a rival; issues share nothing but agents' slots; a second restart starts from the same database states |
| start lock runs | 1 agent, 2 runs, 2 requests, 1 slot | two runs that compete for one slot, with two stops, or a stop and a promotion, between any two steps of a start |
| `checkout` | 3 runs of 2 agents, a user, 2 calls at a time, expected statuses {todo, in_progress}, patches of the status or of both assignee columns | holder, another run of its agent, a rival; what agents and the UI send |
| `budget` | 1 agent with a run, so 2 scopes and policies; 2 calls; 2 cost events of 1 cent; amounts 0 and 2, soft threshold at 1; 2 months; 2 incidents | both policies are exceeded by either event; a soft and a hard incident, or one in each month |
| `routine` | 2 handlers, 2 instants, 2 routine runs, 1 key, 1 crash, `coalesce_if_active`, catch-up of 2 | two ticks at one instant, a missed one, a repeated request, an older and a newer issue |
| `agent_lifecycle` | 3 handlers, 2 runs, 1 overwritten decision, 1 crash | approve, reject and revise at once; a run that ends while another runs |
| `plugin_worker` | 4 processes, 2 calls, 1 crash in a row allowed | crash, restart, crash and given up, started by an operator, and a crash again |
| `plugin_jobs` | 2 jobs, limit 1, 2 runs, 1 process that dies and starts once | a job behind another, a run of the tick and a trigger, or two of either |
| `runtime_services` | 2 runs; a service with an idle timer, one that ends with its last run, an ephemeral one; 1 fault, 1 archive of a workspace | both shared services are taken by both runs, in opposite orders; a failure in any of the writes, or a death of any process; the ephemeral one has no rival by definition |
| cron | 9 days of 2 hours of 3 minutes; months of 1, 3 and 2 days, a week of 2; every schedule and minute | the ends of an hour, a day, a short month, and of the calendar |

`CHECK_DEADLOCK FALSE` everywhere: the bounds let runs and calls be used up, after
which nothing remains to be done. Handlers that wait for each other are caught by
`QueuedRunMoves`, `DispatchesGoOn`, `OperationEnds`, `TickIsOver` and `UnleasedStops`.
Symmetry is used in runs without liveness only, over calls, handlers and runs that the code does not tell
apart.

### Fairness

Weak fairness of each handler's continuation: the event loop runs every continuation
that is ready, and Postgres answers. Beyond that:

* issue and start lock runs: weak fairness of `AdapterReturns` within `ExecStep` and of
  `AdapterEnds` (adapters have timeouts, and a lost process is noticed), of `Claim` and
  `Tick` (`index.ts` calls `resumeQueuedRuns` at every scheduler interval);
* `PluginWorker`: the timers of initialize, of each stage of a stop and of the backoff
  fire, and the exit event of a dead process comes. Nothing makes a worker answer or
  obey a signal other than SIGKILL;
* `PluginJobs`: every RPC call has a timeout. Nothing makes the worker start, answer or
  live.
* `RuntimeServices`: idle timers fire and the continuations of a release run. Nothing
  makes an adapter end, a service become ready or die, or a workspace be archived.

Nothing is assumed of requests: wakeups, cancellations, pauses, raises, triggers need
never come. The violated property is violated under the same fairness.

## Proofs

TLAPS proves for every value of the constants (any number of agents, issues, runs,
calls, handlers, processes and restarts, any schedule; the named assumptions say that
names differ and bounds are naturals, `PoolAssumption` that the pool is larger than
the number of handlers, `CalendarAssumption` that months are runs of days). Each
safety theorem follows from an inductive invariant `Inv` of its module; each step of
the code is a lemma or a step of the proof that it preserves it.

* `IssueExecutionProofs`: `TypeCorrect`; TypeOK alone is not inductive, for `Settle`
  writes a terminal status only because a run about to be settled has an outcome
  (`OutcomeKnown`). `OneOwner`: `OneActiveRunPerIssue` when `OnlyLockedStarts`, that is
  without mentions, adoptions, retries and detached children, each of which can break
  it. `OwnerInv` says that an active run of an issue holds the issue's lock (`Owner`),
  that rows not inserted yet hold nothing (`NoRunBeyond`), that handlers release only
  finished runs (`Handled`), and that what a transaction read under its row lock is
  still so (`ReadUnderLock`), the heart of it: while a wakeup holds the row, nobody else
  gives the lock away or makes a run of the issue active. `Finished`: under the same
  assumption finished runs stay so.
  `WaitersBehindLock`: `DeferredBehindLock` in every instance; all who write a lock
  promote in the same transaction, and a request is deferred under the row lock.
  `OrphansOnly`: `ReapedRunsAreOrphans` without `"foreign"`, the feature that has
  another service instance execute runs, for `activeRunExecutions` is per instance.
  `ReaperInv`: runs in a snapshot were inserted before and started; one about to be
  failed has no execution, and nothing begins one for it in between.
  `OneRetry`: `RetriedOnce` when `OneReaper`, that is while passes do not overlap; two
  that do can retry a run twice (Known deviations, Issues). `RetryInv`: a run about to
  be retried is settled, has no retry and is none; what was retried is settled for good, so that no
  later snapshot has it.
  `CoalescedToOwn`: `CoalescedIntoOwnRun` when `OnlyLockedStarts`: a run's key is its
  agent's (`Keys`), and what a transaction read of the key under its row lock still
  belongs to the holder (`KeyRead`); a mention takes the other path, where it need not.
  `NoneStranded`: `NoStrandedRequest` when `OneIssuePerRun` and `MaxCrashes = 0`.
  `PendingInv`: the run that holds a lock holds that of its own issue (`HoldsOwn`), and
  it is active or a handler in progress releases it later (`HolderPending`). Both
  hypotheses are the code's limits: a restart loses the handlers, and a release promotes
  for one issue though a checkout may have given the run a second one.
  `LockIsLease`: when `OnlyLockedStarts`, the lock of each issue implements
  `ExclusiveLease`, with the ended runs as the finished holders: a run takes it from
  nobody, or from a run that has ended. `LeaseInv` adds to the keys that a transaction
  which is past its look and found no run in charge has the row's lock to itself
  (`StartsFree`), so that what it starts takes the lock of a holder that is finished;
  `RunsEnd` says that ended runs stay so, `LocksPass` who hands a lock on. The instance
  is parameterised by the issue, which TLC cannot take as a property: it was checked for
  one issue on the instance of `issue_owner` and is not a run of its own.
* `IssueCheckoutProofs`: `TypeCorrect`; `HolderLocks`: a checked out issue is in
  progress and its active run has the execution lock; inductive together with TypeOK.
  Every step is first reduced to its effect on the columns (`StepEffect`), so the proof
  is about six kinds of writes and not about fifteen actions. `Atomic`:
  `Spec => LeaseSpec`, the refinement: a checkout that wins finds the lock free or its
  own, and by `HolderHasLock` another holder that is still active would have it.
* `BudgetEnforcementProofs`: `OneIncident`, `StopAnnounced`, `StopIsComplete`,
  `ManualPauseStays`. The completeness of a stop needs `PassedAreStopped`: not only runs
  that run, but those past the check of a stopped scope, are found by the call that
  stops it: a run passes the check of its agent before that of its company, so what
  counts as past differs between the two. `PausesAnnounced` carries the incident that a
  call has found or inserted to the pause it writes. `TypeCorrect`: `Rows` adds the
  bounds: what a call will write is an amount of a board and an approval that was
  inserted (`Booked`). The guard of `CostEvent` is on the sum over agents and months,
  and no part of a sum of naturals is greater than it (`SumBounds`), if there are
  finitely many agents (`ScopesAssumption`).
* `RoutineDispatchProofs`: `TypeCorrect`, `OneExecution`, `OneKey`,
  `NoDispatchDeadlock`, `InstantConsumed`. `RowHolder`: who is past the row lock is its
  holder, its run is not committed, and no committed run has its key. `Pooled` counts
  the connections; with `PoolAssumption` it gives a free one to whoever holds the row.
  `OneIndexed` is the unique index; `TicksAreDue` what a tick has read of the clock.
* `AgentProofs`, of `AgentLifecycle`: `TypeCorrect`, `Decisions`, `Pending`, `Revival`.
  `DecisionsCounted` ties the decisions applied, overwritten and under way to the
  approval's status; `HireComesFirst` keeps decisions from meeting a hire that has no
  approval yet; `WritersAreLate` and `NoneIsUntouched` say who may be about to write
  the status of an agent that is terminated, or not there.
* `AgentProofs`, of `AgentStartLock`, with every feature and without assumptions but
  those on names and bounds: `LockTypes`, `Slots`, `Executed`, `Ended`, `Ordered`, that is
  `SlotLimit`, `ClaimedIsExecuted`, `NeverRevived`, `StartsInOrder`. A body of the chain
  looks at the slots and the queue once and claims much later, after awaits of its own
  that may reach other agents' chains; the inductive `LockInv` says what of its look is
  left. `CallsSensible` and `BodyHasTurn`: who is past the look has its agent's turn, one
  body at a time, wherever it is in the stack of awaited calls. `BodyHasSlots`: the runs
  that run, with those the body may still claim, fit into the slots, for only the body
  makes more of them run. `OldestFirst`: whoever is queued and not in hand is younger
  than what is in hand, for rows get younger and the queue only loses runs.
  `ClaimedOnce` and `RunningHeld`: a claimed run is in one call's hands until it
  executes. All actions but those of the body are first reduced to what they do to rows
  and stacks (`Aside`), the body's to one frame of one stack (`Stays`, `Leave`), so that
  the invariant is proved for four kinds of steps instead of for twenty actions.
  TLC checks `LockInv` on the instance of `start_lock_safety`, and on one with 3 runs and
  2 slots, where a body claims more than one run.
* `PluginWorkerProofs`: `TypeCorrect`, `OneProcess`, `QuietTimer` and `Implements`,
  the refinement of `RpcChannel`. `HandleTells` relates the handle's flags to the flows;
  `TimerMeansNoProcess` is why a backoff never starts a second process;
  `InFlightOnChild` why an answer is never another process's.
* `PluginJobsProofs`: `TypeCorrect` and `NoOverlap`. `TickWaits`: scheduled runs are
  under way during a tick only, for jobs it has looked at, one for each. `activeJobs`
  plays no part: triggers and unregistrations may remove any entry.
* `RuntimeServicesProofs`: `TypeCorrect`, `Agreement`, `Sharing`, `NoStrayProcess`,
  `LeaseProtects`. `OnlyPast`: what is registered, timed or held was started before, so
  that a new service meets no old lease or timer. `TimersUnleased` is why a timer never
  stops a leased service: whoever leases it clears the timer, and it is armed only after
  a look at the leases that follows the write. `NoRival` says that a start of a key that
  was never raced finds no service of the key, which gives `SharedIsFound`; `AtHand` is
  what a handler relies on after an await.
* Also in `PluginJobsProofs`, of `CronSchedule`, for any calendar and schedule:
  `SkipPassesNoMatch`, one turn of `nextCronTick`'s loop goes on to a later date and
  passes over no minute that matches; `SearchesAgree`, that this search and the scan of
  every minute in `routines.ts` find the same time, later than now, or both leave the
  calendar; and with it `Pointers`, that is `PointersAgree`. The hypothesis
  `MidnightHour = 0` is needed: otherwise they disagree (Known deviations, Cron).

Recursive functions (the cron searches, sums over sets) are reasoned about without
the library's induction theorems, which take an operator as a parameter. Such a function
is the CHOOSE of a function that solves its equation. `SearchFinds` and `SumsExist` give
a solution; then any solution has the property, because there would be a last date, or a
smallest set, where it has not (`WFMin`).

The type invariants of AgentLifecycle, AgentStartLock, RoutineDispatch, PluginWorker,
PluginJobs and RuntimeServices are in no run: their theorems cover every instance.

Only model-checked: the liveness properties (`DeferredIsServed`, `OperationEnds`,
`TickIsOver`, `UnleasedStops`, `QueuedRunMoves`), for the prover has no rule for fairness
and ENABLED. Every safety property and action property of a passing run is a theorem;
where a theorem has a hypothesis, named above, the run's instance satisfies it, and
outside it the property can fail in the code (Known deviations). No module declares a
RECURSIVE operator.

## Not modelled

Payloads: run logs, sessions, usage, workspaces, comments, labels, activity and live
events. Authorization. In AgentStartLock: exceptions and restarts (a restart empties
the chain and so cures the deadlock), and budget scopes other than the company. In
IssueCheckout: creation and removal of issues, deleted runs (a missing run counts as
terminal), agents calling without a run id (the route refuses them). In
IssueExecution: request rows other than deferred ones, and the company's budget gate.
In BudgetEnforcement: projects, lifetime windows, the totals `costs.ts` writes to
agents and companies (no decision reads them, and a late write may leave them stale).
In RoutineDispatch: several triggers, webhooks, archiving, `syncRunStatusForIssue`. In
CronSchedule: time zones, parsing, the limits of both searches. In AgentLifecycle: keys,
configuration revisions, removal. In PluginWorker: installation, worker-to-host calls,
operations on one plugin that overlap each other (`plugin-lifecycle.ts` does not
serialise them: two restarts could each spawn a process). In PluginJobs: declaration
sync, errors of the job store. In RuntimeServices: rows and their reconciliation,
services that adapters manage, worktrees and provision commands, a restart. The rest of
the inventory is input and output, or single rows that nobody else writes.

## Plan

1. Done: the modules above with their runs and proofs.
2. Child processes of adapters: timeout, SIGTERM, grace and SIGKILL against the exit;
   the escalation of `heartbeat.ts:3433` is skipped once `kill()` was called.
3. Documents, secrets, join requests and CLI challenges.
4. Proofs for the modules of 2 and 3, and that `PluginJobs` keeps what it promises when
   its channel is `PluginWorker` itself (by `Implements`).
