# PulseWatch API: verification

TLA+ models of the PulseWatch backend (NestJS, Prisma on SQLite, optional
BullMQ on Redis), model-checked with TLC and, for what matters most, proved with
TLAPS. Paths are relative to the root of the repository.

Contents: [what is here](#what-is-here), [inventory](#inventory),
[how code becomes actions](#how-code-becomes-actions), [modules](#modules),
[runs](#runs), [findings](#findings), [fairness](#fairness), [proofs](#proofs),
[what is not modelled](#what-is-not-modelled), [plan](#plan).

## What is here

| File | What |
| --- | --- |
| `CacheService.tla` | the in-process read-through cache with the rows it fronts |
| `LaggingReads.tla` | abstract specification: what the readers of the cache may rely on |
| `MonitorRunner.tla` | checks of monitors: cron, workers, forced checks, alert policy |
| `StatusLedger.tla` | abstract specification: what checking promises of status and alerts |
| `StressTestRuns.tla` | starting, queueing, executing and finishing k6 runs |
| `RunLedger.tla` | abstract specification: what is promised of a run and the notice of its result |
| `JobSchedulers.tla` | job schedulers in Redis against rows in the database |
| `Probe.tla` | one probe of a monitor against a peer that may be silent |
| `K6Process.tla` | one k6 process between its time limit and its own end |
| `AlertDelivery.tla` | the channels of one alert |
| `CheckHistory.tla` | stored checks: retention, cap, list, uptime |
| `Accounts.tla` | an e-mail address, its account and its settings row |
| `Notifications.tla` | notifications, read one by one or all at once |
| `MonitorConfig.tla` | operators: validators and resolver of a monitor's configuration |
| `Monitors.tla` | create, update, draft probe and quick check of one monitor |
| `MC*.tla`, `*.cfg` | instances for TLC (`MCServices` has the eight modules above) |
| `*Proofs.tla` | theorems about the module of the same name; `RecordsProofs` about `Accounts`, `Notifications`, `MonitorConfig` and `Monitors` |
| `PROJECT.json` | components, runs, mutants, map to the source, findings, hazards, theorems |

    tlc -workers 2 -config MonitorRunner.cfg MCMonitorRunner
    tlapm MonitorRunnerProofs.tla

## Inventory

The process is one Node.js event loop. Everything concurrent in it is the
interleaving of `async` functions at their `await`s: GraphQL requests, cron
handlers (which nothing keeps from overlapping), BullMQ workers inside the same
process, and continuations of database, Redis and network calls. What they share
is the database, Redis, and three pieces of memory: the cache's two maps and
`MonitorRunnerService.inFlight`.

| Component (`src/src/...`) | State | Operations | Interacts with | Hard behaviour | Correct when |
| --- | --- | --- | --- | --- | --- |
| Read-through cache (`cache/`) | `store`, `pending` | `get`, `set`, `del`, `invalidatePrefix`, `wrap` | every service wraps its reads and invalidates after its writes | a load under way while its prefix is invalidated; failing loads; size limit | one load per key; a stale value is always explained; expired before live at the limit; fresh in the end |
| Monitor checks (`monitor/monitor-runner.service.ts`, `monitor-scheduler.service.ts`, `monitor-check.processor.ts`) | `inFlight`, the columns of a check | `checkDue`, `run`, `checkForUser` | probes, history, alert policy, notifications, cron or workers | overlapping callers, deletion or edit during a check, failing calls, restarts | one check of a monitor at a time, none locked out; a change is told once and while it holds |
| Alert policy (`monitor-alert.service.ts`) | `lastDownNotifiedAt`, `lastRecoverNotifiedAt` | `shouldNotify`, `recordNotified` | runner, settings | asked about a row read earlier | alerts of a kind are a cooldown apart |
| Monitors (`monitor/monitor.service.ts`) | `Monitor` rows | create, update, delete, forced, quick and draft check | cache, schedulers, runner | commit, scheduler, cache are three steps; an update writes back columns it read before | type and configuration of a row go together; an edit stands unless another overlaps; see schedulers and cache |
| Job schedulers (`jobs/`, `*-jobs-sync.service.ts`, the processors) | schedulers and jobs in Redis | `syncJob`, `onModuleInit`, `process` | rows, workers | two systems of record; crossing edits; worker removals | schedulers follow rows; a start repairs |
| Stress test runs (`stress-test/stress-test.service.ts`, `stress-test-executor.service.ts`) | `StressTest.lastStatus`, `StressTestRun.status`, run jobs | `startRun`, `runDueScheduled`, `runScheduled`, `execute`, delete | queue, k6, notifications | check-then-create; refused or doubly accepted jobs; crashes | executed once; a result is final; RUNNING means running |
| k6 process (`k6-runner.service.ts`, `k6-script.ts`, `k6-summary.ts`) | child process, two timers, a directory | `run` | executor | exit against timer; a k6 that ignores SIGTERM; a grandchild that holds stderr | ends; leaves nothing; a killed k6 has not passed |
| Check history (`monitor-check-history.service.ts`) | `MonitorCheck` rows | `record`, prune, cap, list, uptime | runner, cache | count, list, delete in three calls | agrees with the row; drops only what is old; within the cap |
| Monitor settings (`monitor-settings.service.ts`) | settings rows | `getForUser`, `updateForUser`, `loadOrCreate` | cache, alert policy | two creators of one row, an update between them | one row, as last asked for |
| Notifications (`notification/notification.service.ts`) | `Notification` rows | create, list, count, `markRead`, `markAllRead` | cache, pub/sub | two marks crossing | read stays read |
| Alert delivery (`alert-delivery.service.ts`) | none | `deliver` | webhooks, mail | a receiver that hangs | never throws; returns when every receiver lets it |
| Probes (`monitor-probe.service.ts`, `grpc-health.ts`) | none | `probe` for nine types, eleven kinds of peer | runner | timer against answer, at each step of a dialogue; closing what is cut short; a body nobody reads | UP is earned; returns unless a client's closing holds it; leaves only known strays |
| Monitor configuration (`monitor-config.ts`, `resolve-monitor-config.ts`, `validate-*.ts`) | none | `isMonitorDue`, validation, resolution | monitors, probes | what validators let through and what the probe needs are decided in three places, and by libraries in a fourth | what is stored can be probed, but for known gaps |
| Users, authentication (`user/`, `auth/`) | `User` rows | register, log in, look up | cache | unique e-mail | the database's constraint |
| Pub/sub, GraphQL, application shell | none | | | | |

`PROJECT.json` lists each with its status, and under `hazards` every place of
this code that a test hardly reaches, with the properties that watch it.

## How code becomes actions

*One action is one access to the database, Redis, k6 or the network together
with all the code up to the next `await`.* That is the grain at which the event
loop interleaves. The local variables a function carries across its awaits are
state (`prev`, `at`, `updated`, `verdict`, ...), and `pc` says at which await
each open call is. An action never skips what the code always does: the row
write of `run` also keeps the row it got back, since the alert policy is asked
about that copy and not about the row.

*Failures.* Where the code can meet them: a database or Redis call that throws
and had no effect; a call of Redis that took effect and whose answer was lost
(SQLite runs inside the process, so its answers are not); the death of
the process, which clears everything but the database and Redis. They are
counted by `faults` and bounded by `MaxFaults`.

*Data.* A monitor, a test, a key or a run is a model value; a cached value is the
version of the rows it was computed from; time is ticks.

*History variables* (`done`, `served`; `from`, `told`, `unstamped`; `told`,
`raced`, `doubt`; `crossed`; `answered`, `signalled`, `wanted`, `asked`, `lost`) record
what happened for the properties to speak of. No guard reads them. `doubt` holds the
runs whose job Redis may have taken while its reply was lost; `crossed` the
monitors and tests of which the last decision about the scheduler failed, died with
the process or crossed with another one, until a decision comes in time again.

*External libraries* are modelled from how the code uses them: a call answers or
fails once. What they are known to do where it matters: the `redis` client's
`close()` and mysql2's `end()` wait for the commands that are outstanding; a
connection that mysql2 creates after the time limit belongs to nobody; the clients
of Postgres and MySQL emit an `error` event, which nobody hears, when an
established connection breaks; `end()` of a connected Postgres client waits for the
server to close; a response of `fetch` whose body is not read keeps its connection
until the signal aborts it. Limits `fetch` and nodemailer have of their own are not
relied on.

*One process.* The cache and `inFlight` are per process, and so are the models: a
deployment of several processes would need the database to coordinate, which the
code does not attempt. There is one owner, since every operation looks only at
rows of its own user.

## Modules

**CacheService.** `wrap` is `Hit`, `Join` (await another call's promise), `Load`
(call the factory), then `Read` or `ReadFails` (the database), `StoreValue` (`.then`),
`Settle` (`.finally` and everybody who awaited); a time to live of 0 is `Bypass`.
`Set` is `set` with its purge of expired entries and its eviction; insertion
order of the Map is the relation `before`. A writer commits and, when the
database has answered, calls `InvalidatePrefix`, as the mutations of every
service do. `Tick` counts entries down, `Restart` is the death of the process.

**LaggingReads** is the abstract specification the cache implements for its
readers: rows are committed, and each key is read from a replica of its own that
lags behind and never goes back. The refinement maps `seen` to `served` and keeps
`db`; everything else the cache does is a stutter. How far it may lag is what
`StaleIsAccountedFor` and `EventuallyFresh` are about.

**MonitorRunner.** Callers are executions of the cron handler (which may
overlap) or BullMQ worker slots, and forced checks. `TickLists`,
`TickSkips`, `TickRuns`, `TickEnds` are `checkDue`; `JobLookup` is the worker's
look at the row; `RequestCheck` is `checkForUser`. `run` is `StartRun` or
`JoinRun`, `Load`, `Probe`, `Write`, `Record`, `Decide`, `CreateAlert`, `Stamp`,
`Return`: every throw leads to `Return`, the `finally` block. In the cron nothing
is awaited between the look at `inFlight` and `run`'s first line, hence `TickRuns`
is one action; the worker and `checkForUser` await in between. Users create,
edit, mute and delete monitors at any time.

**StatusLedger** is the abstract specification the runner implements: the
status changes one step at a time, a change that is news is told at most once
and only while it holds. The refinement maps `status` to `lastStatus`; `from` and
`told` are the runner's history variables of the same names.

**StressTestRuns.** `Find`, `Create`, `Update`, `Enqueue` are `startRun`, for a
user's `runForUser`, for the cron's `runDueScheduled` and for a schedule job's
`runScheduled`. `Read`, `K6`, `Finish`, `Notify` are `execute`, in the worker
(concurrency 1) or in the process of the starter, as a process of its own, since
nobody awaits it. `EnqueueFails` is the catch block of `enqueueStressTestRun`: in-process
execution, whether the queue has the job or not. `Throws` is the catch block of
`execute`, which finishes the run again, with FAILED. Which test is due is left
open, so any listed test may be started or skipped.

**RunLedger** is the abstract specification of runs: a run begins, has one
result, and the result is owed to the user from the moment it is written until it
is told, once, or the notice is lost. A run in doubt may have a second result and
a second notice; no other run is touched by that. The refinement maps `status`
to the run's row and `owed` to what the executions between `Finish` and `Notify`
hold; starters, queue and executions disappear in it. A crash is `Lose`, and `Delete`
is the cascade from the test to its runs.

**JobSchedulers.** A mutation writes the row and holds what `syncJob` will ask
Redis for (`decided`) until `Sync` does it. `Produce`, `Take`, `Lookup`, `Run` are
BullMQ and the processors; a worker that finds the monitor gone or disabled goes
on to `Sync` with a removal. `BootLists`, `BootSyncs`, `BootEnds` are the two
`onModuleInit`s; the workers may already be at work then, GraphQL is not. Monitors
and tests differ in one thing only: a test's processor never removes a
scheduler. Redis itself is assumed to keep its word; BullMQ is external.

**Probe.** A probe is the list of things it waits for (`Script`): a connection and a
query, a request, the replies of an SMTP dialogue. `AnswerFits` and `AnswerUnfit`
are the peer's answers, judged by `Fits` as the code of that type does
(`HttpFits`, `SslFits`, ...); `PeerFails` is every refusal or reset; `TimesOut` the
`withTimeout` or the socket's limit of that step. `withTimeout` abandons the
library's promise, which goes on (`pending`) and may end later (`LateAnswer`). The
`finally` blocks are `Conclude` and, where they wait for a client, `Closed`. Two probes
have none (`ClosesNothing`): `probeHttp` looks at the status and leaves the body
unread, whose connection goes with `BodyEnds`; `probeDns` drops a resolver whose
lookup may still go on. `Uncaught` is an `error` event without a listener, which ends the process.

**K6Process.** `MakeDir` to `Remove` are `run`; `Spawn`, `LimitPasses`, `KillerFires`,
`Close` are `spawnK6` with its two timers; `K6Exits` and `HeirEnds` belong to the
child. `Passed` is the executor's verdict.

**AlertDelivery.** `deliver` starts a task per channel and waits for all to settle.

**CheckHistory.** `record` is `RecordCheck`, `PruneExpired`, `CountChecks`,
`FindOldest`, `RemoveOldest`, one database call each, with `RecordFails` and
`DeleteMonitor` between any two. `Oldest` is `orderBy ... asc, take`, any choice among
checks of one moment. `UptimeTenths` is the percentage in integers.

**Accounts.** `Register` is `users.create` with its settings; `FindSettings`,
`CreateSettings`, `FindRaced` are `loadOrCreate`; `UpdateSettings` is the upsert.

**Notifications.** `CreateNote`, `Publish` are `createForUser`; `FindNote` and
`MarkRead` the two calls of `markRead`; `MarkAllRead` its one statement.

**MonitorConfig** has no state. A text is the class of texts the code tells apart
(a URL is a scheme and what follows: nothing, slashes, a host, or a host with
something that a client of a probe refuses). `Valid` is the validators of the
inputs, `Mismatch` is `validateMonitorTypeConfig`, `Resolve` the resolver of each
type, and `Probeable` what the probe needs before it asks its peer anything: its own
first checks, and what the library it calls accepts (`FetchTakes`,
`CreateClientTakes`, `DatabaseTakes`, `BrokerTakes`, `TargetTakes`). The latter is a
library's business and modelled from what the code hands over. Where clients or their
versions differ the class counts as refused: an IPv6 address in the brackets of a
Redis or database URL, and the options of a database URL.

**Monitors.** `Create`, `ProbeDraft`, and for each of several requests `ReadRow`
followed by `Update`, `Refuse` or `QuickCheck`: `updateForUser` reads the row and
later writes every column.

**MCServices** puts these seven state machines side by side: `part` says which one a
behaviour exercises, the others stay where they start, so that the state space is
the sum of theirs. They share nothing in the code but the database's rows, each its own.

The models do not share variables. They meet in actions: `Probe` is the runner's
action `Probe` seen from inside, `AlertDelivery` and `Notifications` its
`CreateAlert`, `CheckHistory` its `Record`, `K6Process` the action `K6` of the runs.
`JobLookup` of the runner is `Lookup` and `Run` of the schedulers seen from inside;
the services' mutations appear as writers of the cache, as edits of the runner and of the
schedulers.

## Runs

Passing runs:

| Run | Checks | Bounds, and why they are enough |
| --- | --- | --- |
| `cache` | `TypeOK`, `SingleFlight`, `StoreWithinLimits`, `StaleIsAccountedFor`, `OutlivesOnlyByLateFill`, `EvictsOnlyForRoom`, `WaitsForOneLoad`; refinement: `ImplementsLaggingReads`; live: `EventuallyFresh`, `EveryWrapReturns` | two readers (one loads, one joins or loads another key), two writers of one group, four keys in two groups with times to live 0, 1 and 2, room for two entries, two commits: late fills, joins, failed loads, evictions of live and of expired entries and restarts all occur |
| `runner` | `InFlightExact`, `HistoryAgreesWithRow`; steps: `LatestResultStands`, `AlertsSpaced`; refinement: `ImplementsLedger` | one monitor, since monitors share nothing but the set; a worker (or cron) and a forced check; three ticks with an interval of 1 and a cooldown of 2, so that an alert can fall inside and at the end of a cooldown; one failure, one edit or deletion |
| `runner_live` | `DueIsChecked`, `NewsIsTold` | two workers and a forced check that keep getting in each other's way; no failures, edits or cooldown, since `NewsIsTold` is about what happens without them |
| `stress` | `ExecutedOnce`, `RunningMeansRunning`; steps: `OverlapOnlyByRace`, `OrphanedOnlyByFailure`; refinement: `ImplementsRunLedger` | three run rows (two that overlap and one after them), two requests, one cron, the worker; any two failures, so a failure in the handling of a failure occurs. `RowLeft` keeps starters away once no row is left, so that every starter that looks can create. Runs are interchangeable (symmetry) |
| `stress_live` | `RunsEnd` | two runs, one refused job. No symmetry, which liveness does not allow |
| `jobs` | `SchedulesAsPlanned`; steps: `DriftsOnlyByLateSync`, `BootRepairs`; live: `LeftoversGo` | one monitor and one test, two open edits of three in all, one worker each, two failures, one of which may leave a scheduler behind that the next start has to repair |
| `services` | `UpMeansAnswered`, `OnlyKnownStrays`, `NothingLeftBehind`, `ChildIsTimed`, `KilledNeverPasses`, `SettingsAsWanted`, `OnlyKnownGaps`, `EditsStandWithoutOverlap`; steps: `TrimKeepsNewest`, `ReadAtMovesOnlyByCrossing`; live: `ProbeReturns`, `K6RunEnds`, `DeliveryReturns` | all eleven kinds of peer with every class of answer; k6 exit codes 0 and 99; three channels; a cap of two, four checks, a retention of two ticks of three, so that a trim has to catch up with one that failed and expiry and cap both bite; two registrations, two first reads and updates of a column that may be null and one that may not; two notifications, two crossing marks, three moments; every input of every type once, and two editors over two columns with changes of type, of configuration, and invalid ones |

Deadlock is checked where the system never stops by itself (`cache`, whose
readers can always call). Elsewhere it is not: when the bounds on edits, time and
failures are used up and no user calls, nothing has to happen.

The properties of `services` say what is excepted, and no more is:
`OnlyKnownStrays` names the connections that may outlive a probe (a MySQL
connection created after its limit, that of a page whose body is not read, the
sockets of a lookup that was cut short) and those whose failure ends the process (the
SMTP socket while a line is written to it, since `readSmtpReply` has taken its
`error` listener away, and an established Postgres or MySQL connection);
`ProbeReturns` and `DeliveryReturns` name the only ways of waiting for ever (the
closing of a Redis or MySQL client behind a command nobody answers, or of a Postgres
client whose server does not close; a receiver that keeps a `fetch` or `sendMail`
open). Where one of them happens the monitor stays in `inFlight` and is not checked
again. `OnlyKnownGaps` names what validators and resolver accept and no probe can
start with (`GapsOf`): for HTTP a URL with a user, with one that cannot be
decoded, or with a port `fetch` blocks; for Redis a path that is no number; IPv6
addresses for Kafka and gRPC, which are joined to the port without brackets (the
nameserver of a DNS monitor gets them); and some more. Such a monitor is DOWN
whatever its peer does.

`EventuallyFresh` holds although values may be filled late, because nothing in
the cache lives longer than its time to live; it is what remains true of
freshness. `ExecutedOnce`, `ResultIsFinal` and `ToldAsWritten` except a run whose own
reply from the queue was lost (`doubt`) and hold of every other run beside it, with refused calls and
crashes; what a lost reply does is visible in `EnqueueFails`: that run is executed twice.
`OrphanedOnlyByFailure` names what leaves a run RUNNING with nobody to end it: the
death of the process and a database call that fails in its own starter or
execution. `SchedulesAsPlanned` excepts what the code cannot mend before the
next edit or start: a decision that failed, or was overtaken by another.

For every property of a passing run `PROJECT.json` names a mutation of one
mapped definition, placed before that definition in its module and described in
its comment, under which TLC finds the property violated.

## Findings

Five runs end in a violation, each of something the repository says:

| Run | Violated | What happens |
| --- | --- | --- |
| `cache_late_fill` | `NothingOutlivesItsInvalidation` | `wrap` loads a list; a mutation commits and invalidates; the load's `.then` stores the old list, which is served for a time to live. The specs say "invalidates monitor cache after create". Proved: this is the only way (`OutlivesByLateFill`) |
| `stress_overlap` | `OneRunAtATime` | `startRun` looks for a running row and creates its own in two calls; two starters pass the look together. A spec is titled "rejects a second concurrent run" |
| `stress_crash` | `ResultsLand` | the process dies between the row and the queue, or during an in-process run: the run stays RUNNING, nothing ends it and every later start is refused. The resolver says "results land on lastStatus" |
| `jobs_unscheduled` | `EnabledIsScheduled` | the worker reads a disabled monitor; the user enables it and its scheduler is made; the worker removes it. The monitor is not checked until the next edit or start |
| `history_list` | `ListShowsLatest` | `listForMonitor` orders by `checkedAt` ascending and takes 200: with more checks in the window (a monitor checked every minute has 1440 a day) it returns the oldest and never the latest. The query is described as "Recent check history for a monitor" |

Some more things the models show, which nothing in the repository contradicts: a forced check that finds its monitor in
`inFlight` returns the row as it is, unprobed; the fleet's "average" uptime is that of all checks pooled, and one
failure among 2000 checks shows as 100 %; markRead moves `readAt` when it crosses another mark; of two updates
that overlap the later undoes the other's columns; a
change of status inside the cooldown is never told later, since the next check sees no change; an alert whose
stamp fails does not hold back the next; a failure after the status write loses
the alert; a monitor whose configuration is in a gap is accepted and DOWN from its first check on; an HTTP
probe leaves its connection open for up to its time limit. `StatusLedger` promises "at most once" and not "once" for these reasons.

## Fairness

Liveness assumes no more than the code's environment gives.

- *Open calls end*: weak fairness of the steps of every open call. Probes have a
  time limit (which their closing may outlast, see `ProbeReturns`); k6 is killed at its own; database and Redis calls answer or throw.
  The calls of webhooks in `alert-delivery.service.ts` have no limit of their own;
  that they end is an assumption of `MonitorRunner` and `StressTestRuns` only.
- *Peers, receivers and k6 owe nothing* in `Probe`, `AlertDelivery` and `K6Process`:
  what is fair there are the program's own timers, the kernel that takes a line,
  clients that close once nothing is outstanding (Postgres, which also waits for its
  server, is not one of them), the limits of the DNS resolver and of the signal of a
  `fetch`, SQLite, which works inside the process, and the event loop (`ProbeFairness`, `K6Fairness`, `DeliveryFairness`).
- *The cron fires again*: weak fairness of `TickLists`.
- *BullMQ*: schedulers go on producing jobs and the queue is served in turn, so
  that a job is taken although others are taken in between: strong fairness of
  `JobLookup`, `RunJob` and `Take`, since the slot is busy now and then.
- *The process is started again* after a crash: weak fairness of `Boot`.
- *The clock*: `Tick` of the cache is fair; the runner's is not needed to be.
- *Users owe nothing*: no fairness of requests or edits.

## Proofs

Proved for every value of the constants, from the named assumptions beside them
(`CacheAssumption`, `RunnerAssumption`, `StressAssumption`, `JobsAssumption`,
`ProbeAssumption`, `K6Assumption`, `HistoryAssumption`, `AccountsAssumption`,
`NotificationsAssumption`, `MonitorsAssumption`), which only say that names of
different kinds differ, that numbers are numbers and what a request may hold. In particular for any number of
readers, writers, monitors, callers, tests, runs, edits and failures.

**CacheServiceProofs.** `IInv == TypeInv /\ AllAccounted /\ Monotonic`.
`SingleFlight` is inductive with the types: the reader that `pending` names is the only one
in a place that may fill the key. `StaleIsAccountedFor` speaks of the store alone; to
be inductive it needs the same of values that readers hold on their way there
(`AllAccounted`): each is current, or its successor is invalidated or owed an
invalidation by a writer. `MonotonicReads` needs that nothing is cached under a
key while it is loaded (`Monotonic`). `InRoom` says that the store fits and that
`before` orders it strictly and totally; a finite set so ordered has an oldest
member (the one whose set of older ones is smallest under inclusion, which is
well-founded), so of one key too many `evictOverflow` drops at least one, and of live ones
only the oldest. `RefinesLaggingReads` needs of `Monotonic` that what is served lies
between what was served before and what is committed. `WaitersFollowTheirLoad` is the
safety half of `EveryWrapReturns`: a call that waits has one load to wait for, which
only ever comes nearer to its end and lets the call go when it settles. Theorems:
`TypeCorrect`, `LoadsAreSingle`, `WaitersFollowTheirLoad`, `StaleAccounted`, `ReadsAreMonotonic`,
`RefinesLaggingReads`, `OutlivesByLateFill`, `StoreStaysWithin`, `EvictsForRoom`:
every safety property that `cache` checks.

**MonitorRunnerProofs.** The argument is ownership. A caller between `StartRun`
and `Return` owns its monitor (`InFlightExact`), so what it read of the row stays
true until it writes, and what it wrote until it returns (`OwnerKnows`); users
touch other columns or delete the row, after which the owner's calls throw. From
this follow `LatestStands`, `AlertsAreSpaced` (the policy was asked about a copy,
which is still the row's), `HistoryAgrees`, and `LedgerRefined`: each step of the
runner is a step of `StatusLedger` or a stutter.

**StressTestRunsProofs.** The argument follows a run from hand to hand. Nobody knows of a
row that is not there (`Unused`); the starter that created one is alone with it
(`Created`) until the queue or an execution in the process gets it; an execution
is alone with its run, has not written before `Finish` and has told nobody before
`Notify` (`Executing`, of every run that is not in doubt); and an execution that
is about to tell has written a result, doubt or not (`Written`). A starter that is about to create
has seen no running row or was overtaken (`Looked`). Most steps hand no run over
(`CalmStep`), so the interesting cases are few. `OrphansByFailure` follows each run
from hand to hand the other way round: a step that takes a run from one place has put it
in another, or ended it, or is one of the failures (`HandsStep`, `BeginsInHands`).
`RefinesRunLedger` shows that each step of starter, worker and database is a step
of the ledger or a stutter (`LedgerStep`): `Create` begins, `Finish` owes, `Notify`
tells, and what changes neither rows nor notices can only lose some (`OwedSteps`).
Theorems: `TypeCorrect`, `RunningIsMeant`, `ExecutedAlone`, `ToldRight`, `ResultsAreFinal`,
`OverlapByRace`, `OrphansByFailure`, `RefinesRunLedger`, that is, every safety property that `stress` checks.

**JobSchedulersProofs.** While the process starts nobody edits
(`NobodyEdits`), and all a worker can carry to Redis is the removal its row asks
for (`WorkersOnlyClean`); so what `onModuleInit` has done stays right
(`DoneIsRight`), whence `BootRepairsAll`. `DriftIsLate` says what may go wrong
afterwards. `PlansAreKept` says that nothing else does: it is inductive once one
adds that, of an item that has not been crossed, whatever is on its way to Redis is
what the row asks for (`Straight`).

**ProbeProofs.** While a probe waits, every earlier step of its script has been
answered (`WhileAwaiting`), and the farewell of an SMTP server is its last step, so a
probe that is UP without an answer lacks only that one: `UpIsEarned`. What a limit
cut short belongs to a monitor that is down (`CutShort`), and what is held by a probe
that has returned is an unread page, a lookup or a late MySQL connection:
`StraysAreKnown`. `ProbeIsFinite` counts what is still to come (`ProbeWork`: the rest of
the script, the closing, the unread body, what was cut short); every step,
whoever takes it, takes some of it away.

**K6ProcessProofs.** Which timers are armed depends on the stage and on whether the
limit has passed; `Close`, the only way out of "running", takes both back and comes
after the child is gone: `LeavesNothing`. A signal is sent only after `timedOut`
is set: `PassesUnsignalled`. A child that runs is on the timer that ends it, the
limit's and then the killer's (`ChildStaysTimed`). With it goes what termination
needs besides fairness: every step takes from `K6Work`, which is thirty at the start
(`K6RunIsFinite`: a stage is worth what it may start, a child and two timers), and a run that has not returned has a step of
the code's to take, unless the heir of a dead child holds its stderr (`WaitsOnlyForHeir`).

**CheckHistoryProofs.** While the monitor exists, the rows `record` has counted
are the rows that are there when it deletes (`CountOK`: nothing else removes any
of them), so what it has chosen leaves exactly `MaxChecks`, none of them older than
one that goes (`ChoiceOK`); counting with the library's theorems on cardinality
gives `KeepsNewest`. `FailureShows`
and `FailureHidden` bound the rounding of the uptime: below 2000 checks a failure
always shows, at 2000 one does not.

**RecordsProofs.** `SettingsHold`: a row is never written back from what was read,
only created or patched, and the lost race means that the row is there.
`ReadStaysRead`: whoever is about to mark has found the notification unread.
`GapsAreKnown`: `ResolvedIsJudged` goes through the nine resolvers, for any input, and
finds what they return probeable or in a known gap; type and configuration are written
together and from one row. `GapsAreOpen` is the other half: it shows, for each gap, an
input that validators and resolver accept and that is not probeable, so the list
excuses nothing that is refused anyway.
`EditsStand`: a request nobody overlapped has read the columns as they are.

Type invariants are part of the inductive invariants and proved with them
(`TypeCorrect`, `ProbeTypeCorrect`, `K6TypeCorrect`, `HistoryTypeCorrect`), so the
runs need not spend a property on them; `cache` does. Nor do they check again what a refinement
they check contains: `MonotonicReads` says what `LaggingReads` does of one key, and
`ResultIsFinal` and `ToldAsWritten` what `RunLedger` does of one run; each is a
theorem all the same (`ReadsAreMonotonic`, `ResultsAreFinal`, `ToldRight`).

Only model-checked: the liveness properties (`EventuallyFresh`,
`EveryWrapReturns`, `DueIsChecked`, `NewsIsTold`, `RunsEnd`, `LeftoversGo`,
`ProbeReturns`, `K6RunEnds`, `DeliveryReturns`): fairness and ENABLED are out of the
prover's reach. Of three of them the part that is a safety property is proved, as said above: for `K6RunEnds`
by `K6RunIsFinite` and `WaitsOnlyForHeir`, for `ProbeReturns` by `ProbeIsFinite`, for
`EveryWrapReturns` by `WaitersFollowTheirLoad`; what is left to TLC is that the steps they
speak of are enabled and taken. Every safety property of a passing run is proved.

## What is not modelled

Passwords, tokens and the lookup of the signed-in user keep no state of their own;
registration is in `Accounts`. Pub/sub is a library's in-memory emitter on which
no state depends. GraphQL declarations forward to the services; logging and
wiring are input and output. Left out of what is modelled: the text of a k6 script
and the figures of its summary, which change no verdict; latencies and their
averages; wording of alerts; when a schedule of a stress test is due. A monitor's
configuration is no part of the runner, and a row has no column that says which
configuration a result is of: an edit during a check leaves the old result in
place until the next one, and nothing in the repository says otherwise. Several
server processes are outside the code's own design.

## Plan

Done, in this order: `CacheService` with `LaggingReads`; `MonitorRunner` with `StatusLedger`;
`StressTestRuns` with `RunLedger`; `JobSchedulers`; `CheckHistory`; `Accounts` and `Notifications`;
`K6Process`, `Probe` and `AlertDelivery`; `MonitorConfig` and `Monitors`; each
checked, and its safety properties proved.

Left, should the code grow there: a version of the configuration in the runner, once results are tied
to one; what a monitor that hangs in `inFlight` does to the due list of its
worker, once probes and deliveries have limits that cover them whole.
