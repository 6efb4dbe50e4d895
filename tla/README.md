# TLA+ model of the Remnawave panel with the native host balancer

This directory holds a TLA+ model of the parts of the backend whose correctness
depends on what happens *between* awaits: requests that interleave, rows that
disappear under a request, processes that die half-way, caches that are filled
late. TLC checks the modules on small instances, and TLAPS proves the properties
that matter most for every instance.

Run `tlc -config HostBalancer_capacity.cfg HostBalancerMC.tla` (or any other cfg with
the MC module its name starts with) and `tlapm HostBalancerProofs.tla`.

## 1. The system

The backend (`src/backend`) is a NestJS application deployed as three kinds of
process (`ecosystem.config.js`): a cluster of API processes, a cluster of job
processors, and one scheduler. They share a PostgreSQL database (Prisma), a Redis
(cache and BullMQ queues) and the Remnawave nodes they talk to over HTTP. Nothing
is shared in memory, so a component's state is its tables and keys, and its hard
behaviour is the interleaving of statements.

| Component | State | Operations | Hard behaviour |
| --- | --- | --- | --- |
| Host balancer (`modules/host-balancers`) | balancer row per host, target rows, one assignment per host and user, decision log | refresh a subscription, update settings, replace the target list, preview | check-then-act over stale snapshots, delete-and-create without a transaction, cascades |
| Panel settings (`modules/remnawave-settings`) | one row, one Redis key with a TTL | validated partial update, cached read, CLI rescue | write skew, cache fill racing invalidation |
| Node lifecycle (`queue/_nodes`, `modules/nodes`) | `isConnected`, `isConnecting`, `isDisabled` per node, jobs with ids | start, stop, health check, restart all / by profile, enable, disable, delete | flags left set by early returns, deduplicated jobs, queue pause and resume by overlapping jobs, stale job payloads |
| Users (`modules/users`, `queue/_users`) | status, traffic, expiry, limits; what each node serves | create, update, enable, disable, extend, reset, revoke, delete, watchdog sweeps, node calls | events that overtake each other on the way to the nodes, writes from stale rows, sweeps that die before they tell the nodes |
| Usage pipeline (`record-user-usage`, `push-from-redis`, `update-users-usage`) | Redis hashes per node, user counters, history | collect, rename, flush, charge, reset, clean | loss when a step fails, double charge after a stall, deduplicated flushes, queues paused by overlapping jobs |
| HWID devices | devices per user | check and register, upsert job, create and delete by administrators | limit under concurrency: a lock that only some writers take |
| Request history | last requests per user | add and trim by a deduplicated job | dropped and repeated jobs, overlapping prunes |
| Subscription | none of its own | resolve hosts, balance, render | fails open around the balancer |
| Scheduler | none | enqueue jobs | overlap of a sweep with the previous one |
| CRUD modules (hosts, squads, profiles, billing, metadata, templates, admins, tokens) | rows | row by row | their cascades only |

How they interact: a subscription request reads the user, its hosts and the cached
panel settings, and calls `HostBalancerService.applyToHostsForUser`, which reads and
writes the balancer's tables and answers with the hosts to render. Administrators
change settings and target lists through the API at the same time. The node
lifecycle writes the node flags the balancer reads; deletion of nodes, users and
hosts reaches the balancer's rows through foreign keys. User and profile changes
emit events whose handlers enqueue node jobs.

What makes each of them correct:

- *Host balancer*: an assignment names a live target of its own host; a limit is not
  overshot; new users only go to active, reachable targets; a sticky user stays; the
  fallback policies do what their names say; refreshes come to rest and always end.
- *Panel settings*: some login method is enabled, every enabled one is complete; a
  reader sees a change once it is made.
- *Node lifecycle*: no node stays "connecting" for ever; a disabled node is not
  started; a change of profile reaches every node.
- *Users*: the users a node serves converge to the active users; a status that locks a
  user out has its reason; a user past his date ends up cut off.
- *Usage*: traffic is counted once, charged once and not lost without a failure; a
  paused queue is resumed.
- *Devices and logs*: requests never share the last slot; a known device is served; a
  trimmed log keeps its latest rows.

The hazards behind these properties are listed with their lines in `PROJECT.json`.

## 2. Modules

| Module | Models |
| --- | --- |
| `TargetSelection` | the pure core of `resolveHostTarget`: validity of a target, candidates, sticky reuse, strategies, unavailable policy |
| `HostBalancer` | refreshes, administrator requests, foreign keys, node state, failures and crashes |
| `HostBalancerMC` | the instances TLC checks |
| `HostBalancerProofs` | type correctness, assignment integrity, moves to active targets, the refinement of `Assignments`, and what answers say about decisions and assignments |
| `HostBalancerBounds` | what rests on finiteness: oversubscription and merged saves |
| `Assignments` | the abstract seat book: what the balancer promises about assignments, changed atomically |
| `RemnawaveSettings` | the settings row, its updates and its cache |
| `RemnawaveSettingsMC` | its instances |
| `RemnawaveSettingsProofs` | completeness of login methods, and a method enabled until updates overlap |
| `NodeLifecycle` | the flags of a node's row and the jobs that write them |
| `NodeLifecycleMC` | its instance |
| `NodeLifecycleProofs` | type correctness, owners of connecting nodes and of the paused queue |
| `UserLifecycle` | rows of users, the jobs that change them, and the way of each change to the nodes |
| `UserLifecycleMC`, `UserLifecycleProofs` | its instance; type correctness, reasons of statuses, and that nodes and access follow the rows |
| `UsagePipeline` | traffic from a node's counters to history and accounts |
| `UsagePipelineMC`, `UsagePipelineProofs` | its instances; type correctness, traffic counted and charged once, users greeted once, buffers covered, pauses owned |
| `DeviceLimits` | the device slots of a user |
| `RequestLog` | the history of requests and the log of decisions, and how they are trimmed |
| `SubscriptionRequestsMC` | an instance of the two; a behaviour is of the devices, of the history or of the decisions, since they share nothing but a clock |
| `DeviceLimitsProofs`, `RequestLogProofs` | all properties of `DeviceLimits`; what the two logs keep and let go |

### HostBalancer: state

| Variable | Code |
| --- | --- |
| `hosts`, `users`, `nodes` | the rows that exist; of a node, what `getNodeStates` selects and validation uses |
| `balancers` | `host_balancers`, one optional row per host (`hostUuid` is unique, so the host stands for the row) |
| `targets` | `host_balancer_targets`; an id is the number of the `createMany` and the place in it, since a uuid never returns |
| `assignments` | `host_balancer_assignments`, a function because of `@@unique([hostUuid, userId])` |
| `decisions` | `host_balancer_decisions` as a set, without timestamps and diagnostics |
| `created` | history: how many `createMany` ran; it bounds the instance and makes fresh ids |
| `pc`, `req`, `counts` | a refresh: the await it is at and the local variables of `applyToHostsForUser` |
| `saves` | an administrator's request: the await it is at, its host and body |

### HostBalancer: actions

| Action | Code |
| --- | --- |
| `StartRefresh` | the start of `applyToHostsForUser`, with the first statement of `findManyByHostUuids`. The earlier reads of user, hosts and switch are merged into it: they write nothing, and the user and hosts they found may be deleted in any later step |
| `ReadTargets` | the second statement of that query (Prisma loads an `include` separately), and the pass-through of hosts without an enabled balancer |
| `ReadAssignments`, `ReadCounts`, `ReadNodes` | the three queries before the loop, in their order |
| `ReuseSticky`, `AssignTarget`, `NoTarget` | one iteration of the loop: `touchAssignment` and the sticky target; selection and `upsertAssignment`; `resolveUnavailablePolicy` |
| `WriteDecision` | `writeDecisionIfEnabled`, whose failure is swallowed |
| `FailOpen` (in several actions), `DatabaseFails` | the catch block |
| `Deliver`, `RefreshCrash` | the end of the request, and the death of its process |
| `UpdateTargets`, `DeleteTargets`, `CreateTargets` | `updateTargets` up to its check, and the two statements of `replaceTargets` |
| `UpdateSettings`, `UpsertSettings` | `updateSettings` and `toggle` up to the check, and the upsert |
| `NodeChanges`, `DeleteNode`, `DeleteUser`, `DeleteHost` | the rest of the panel, with `onDelete` of the schema |

Abstractions. `Math.random` and the order of rows that agree on every `ORDER BY`
column (rows of one `createMany` share `created_at`) are sets of picks. The traffic a
query returns is any value of `TrafficLevels` or none; since nothing else in the
iteration depends on when it is read, the query and the write are one action. Scores
are compared as fractions. The loop visits the hosts in any order: the code's order
is that of the input. Addresses, overrides, diagnostics, `lastUsedAt` and reasons in
words are left out. A statement that fails after it committed is not distinguished
from one that fails before, except by `RefreshCrash`, which may follow a write.
Pruning of the decision log is in `RequestLog`. The read-only operations
(`previewSelection`, `validateTargets`, statistics, listings) are not modelled.

### Assignments

The abstract specification of the balancer: hosts with targets, some of which accept
users, and at most one seat per host and user. `Assign` gives a seat at a target that
accepts users *at that moment*; `Issue` adds a whole list or none of it, `Withdraw` takes all targets
of a host with their seats; rows go away with `RemoveUser` and `RemoveHost`. There are no snapshots,
requests, nodes or failures. `HostBalancer` defines the mapping in `Book`: the ids in
the table are the open targets, those that are enabled and ACTIVE accept, the
assignments are the seats, and `created` is the number of lists. So every stale read,
half-done save and crash of the code must look like one of five atomic steps. That an
issue adds only ids of the new list, and never changes what older ids accept, is what
rules out that an old snapshot means another target.

### RemnawaveSettings

The row's three login columns are a set of enabled methods with a flag that says
whether every enabled method has what tests 2 to 11 of `validateSettings` ask for
(none of them spans two columns); branding is left out. An update is
`getSettings` and validation (`UpdateSettings`), `UPDATE` of the body's columns
(`UpdateRow`) and `DEL` (`DeleteKey`); the CLI enters at the second with a body nobody
validates. A read is `GET` (`ReadCache`), `SELECT` (`ReadRow`) and `SET EX`
(`FillCache`). `Expire` is Redis's. `overlapped` is a history: whether an update was
started while another was under way.

### NodeLifecycle

| Variable | Code |
| --- | --- |
| `row` | `isDisabled`, `isConnected`, `isConnecting` of `nodes`, and whether the row has a profile and inbounds; `Null` once deleted |
| `start`, `stop`, `health` | the one job a node can have in START_NODE, STOP_NODE and NODE_HEALTH_CHECK, because of their job ids; of the health check also its payload |
| `restart` | the one START_ALL_BY_PROFILE job of a profile, because of its deduplication id, with the local variables of its handler |
| `paused` | the START_NODE queue is paused |
| `retry` | `waitingProfiles` of the listener of deduplicated events |
| `due` | adds that have been asked for and have not reached Redis |
| `unseen`, `abandoned`, `dropped`, `stuck` | histories: a profile change no restart has started after; a node left connecting, a change lost and a queue left paused by a job that gave up |

START_NODE is `BeginStart` (reads the row), `ClearNode` or `SetConnecting` and
`FinishStart`; what the node answers to its health request, the plugins and
`startXray` decides one update, so those calls are one action. A restart is
`BeginRestart` (pauses), `FindNodes`, `MarkNode` per node, `EndMarking`,
`ReadConfig`, `StartNodeOfProfile` per node and `FinishRestart` (resumes).
`GiveUpStart`, `GiveUpRestart` and `SkipNodeOfProfile` are the early returns and
throws. A process may die at any await: `StallStart` and `StallRestart` run the job
once more and fail it the second time, as BullMQ does by default, and `LoseAdd` and
`LoseRetry` lose what a process had in memory.

Abstractions. The profile of a node is a constant (`ProfileOf`) except that a node can
lose it. Administrators' requests read and write a row in one action. A job that adds another
is taken to be over when the add arrives. Not modelled: START_ALL (a fan-out of restarts by profile),
which is paused together with START_NODE; creation and bulk changes of nodes; users and plugins of a
node; failing updates before the calls to the node; what the node runs, hence `force`
and the order of configurations.

### UserLifecycle

| Variable | Code |
| --- | --- |
| `user` | `users` with `user_traffic`: status, traffic used, limit, whether `expireAt` has passed, squads, and how often the credentials were replaced; which inbounds a squad opens and which a node has are constants (`SquadInbounds`, `NodeInbounds`) |
| `created` | ids already used; they never return |
| `link` | `isConnected` and `isConnecting` of the node's row |
| `serves` | what the node lets each user in with |
| `snapshot` | the users in the configuration a start has read |
| `work` | a bag of events of the in-process bus, USER_EVENTS jobs, handlers half-way, and jobs for one node: nothing orders them |
| `req` | requests of `UsersService`: the await they are at, the row they read, the event they will publish |
| `sweep`, `reset` | watchdog and traffic-reset jobs between their update and their events |
| `astray`, `raced` | histories, see below |

A request is a read (`CreateUser`, `ReadUser`), a write (`WriteUser`, `InsertUser`,
`ExtendDate`, `SyncExpired`) and `Publish`; what it decides from the row it read and
what the write leaves of the row it finds are kept apart (`Updated`). The watchdog's
`FindExpiredUsers` and `FindExceededUsers` are single statements followed by
`FireEvents`; the reset is `SelectUsersToReset`, `ResetUserTraffic`,
`ResetLimitedUserTraffic`, `FireReset`. An event goes through `FireUserEvent`,
`LoadUser`, `AddToNodes` or `RemoveFromNodes`, and `CallNode`. A start of a node is
`StartNode`, `ReadUsers`, `FinishStart`, as far as users see it: its flags are
`NodeLifecycle`'s subject.

Abstractions. A new date is in the future, as the contract asks. The branch for 10 000
users, which restarts the nodes in place of events, is part of `LoseSweep`. The
threshold and never-connected notifications, bulk changes of squads and of all users,
and the job for many users on one node are not modelled.

The code has no order or retry that would make nodes agree with rows in every case, and the
histories say exactly when they may not. A pair of a user and a node is `astray` from the
moment when something under way contradicts the row, or an event, job or call is lost, until a start of
the node reads the users again. In particular:

- a write from a row that changed since it was read (`Stale`);
- `updateUser` with DISABLED and other, non-empty squads together, which publishes nothing
  (`Forgets`, `users.service.ts:202`): this happens to a single request;
- `updateUser` with other squads none of which has inbounds, likewise by a single request
  (`Forgets`): the code decides by the number of squads (`:215`) and publishes an event
  that adds, whose handler returns for want of inbounds (`add-user-to-node.handler.ts:43`), so
  nobody removes the user. Squads with inbounds that no node has are another case: their handler goes on
  and removes him;
- `resetUserTraffic`, which announces the user before it writes him (`:520`);
- a node that answers again, which counts as connected before it is started;
- DELETE_BY_STATUS, after which a removal still queued finds nobody.

A user is `raced` when his status may have lost its reason: after a stale write, a bulk
extension or reset that died half-way, or DISABLED sent together with a new date to an EXPIRED user,
who stays EXPIRED (`Contradicts`, `:185`).

### UsagePipeline

`record`, `push`, `charges`, `reset` and `clean` are the jobs RECORD_USER_USAGE (one per
node), PUSH_TO_DB (one per key until it completes), UPDATE_USERS_USAGE (any number, told apart by their ids),
RESET_USER_TRAFFIC and CLEAN_OLD_USAGE_RECORDS; `meter` is the node's counter, `buffer`
the hash, `batch` the renamed hash, `history`, `used`, `lifetime` and `online` the
tables, `paused` the paused queues. Each action is one call. `Crash` is the death of
the workers: BullMQ finds their jobs stalled and runs them again from the start, while
hash, tables and pauses stay. It happens once; a job that stalls a second time fails, which
is not modelled. `stuck` are the paused queues that a failed job has left to nobody.
`ledger` keeps the books: what was carried, ignored for being too
little and wiped by maintenance, which nodes lost usage to a failure (`lossy`) and whose hash has no
job (`missed`), whether a failure made anybody's account too low (`free`) or too high (`twice`), and how
often a user's bytes were rounded (`rounded`).

Rates are in tenths, as the contract has them (`update.command.ts:35`). A rate with a
fraction is multiplied in floating point and rounded down at each record
(`nano.util.ts:115`), which may come out one byte below the exact floor; so
`MultiplyConsumption` is a set of results, and a user may be listed in a job that charges
him nothing. That one byte is the whole error as long as products stay below 2^53.

Not modelled: the export to a stream, the switch that turns user records off, the
hourly sums per node, and an EXPIRE that fails, by which a hash would stay longer.

What the code does about failures, and the ledger records: a lost answer of a node is
lost traffic, since the node has reset its counters; a failed increment is free, since
the handler swallows the error and the three attempts it was added with are never made
(`users-queues.service.ts:301`); a committed increment whose worker dies is charged
twice; the processing key is deleted whether or not its batches arrived
(`push-from-redis.processor.ts:107`); a push added while the one before is past its
RENAME is dropped, so the hash waits for the node's next record, for three hours at most
(`ExpireKey`, and `ExpireBatch` for a processing key that was not deleted). A throw of
`exists` or RENAME is swallowed (`:101`), so the job completes and the hash waits in
the same way (`FailPush`). `exec` of the pipeline does not reject when single commands fail, so the job
charges what the history will not have (`LoseCommands`). The calls that pause the queues and count
their jobs are awaited before the reset's try, and those that resume them in its
finally: if one throws, the job fails for good and queues stay paused (`AbandonQueues`;
`ResumeUsage` for the cleaning job) until a later reset or cleaning resumes them.

### DeviceLimits and RequestLog

`DeviceLimits` is about one user, since lock, count and rows are. A request is
`BeginRequest`, `CheckHwidExists`, and `Enqueue` for a known device or
`LockAndCount` and `InsertLocked` for a new one; `UpsertHwidDevice` is the queue's job,
one per device; an administrator's creation is `CountByUserId` and `CreateDevice`, without the lock. `ledger.exempt`
holds the devices no valid count admitted: those the queue re-created after a deletion,
those admitted while no limit applied, and those inserted when another writer came between count
and insert. Deletion of the user is not modelled; of `createUserHwidDevice` the reads
of user, device and settings are one step.

`RequestLog` has the history of one user's requests (`record` is the job, one at a time
because of its deduplication id) and the log of decisions with its unawaited prunes
(`createDecision`, `pruneDecisionRetention`). Rows are the moments they carry. The
foreign keys delete decisions with their host and their user at any moment (`CascadeDecisions`), also
between the two statements of a prune; those of a deleted target stay, without it
(`SetNull`). The command line may empty the history (`TruncateHistory`); the user whose history
it is stays, since nothing is left to say of a deleted one. The
order of report and decision within one request is left open. Not modelled: the export
to a stream and the switch that turns records off.

## 3. What the runs check

| Run | Instance | Shows |
| --- | --- | --- |
| `capacity` | 2 refreshes, 3 users, two targets with one seat, rebalanced by traffic | a limit is overshot by less than the number of refreshes in flight; the invariant behind it |
| `churn` | 1 refresh, 2 hosts, 2 administrators, 1 user, decisions on, a list of an active and a draining target, 3 saves and switching on; deletions | the inductive invariant of the proofs, types included; assignments stay sound; moves go to active rows only; every target a host was answered with is recorded; at most two lists side by side; the seat book is implemented |
| `turns` | 2 refreshes of different users at a time, a main and a reserve target, 2 saves, nodes that come and go, failures and crashes | every answered target is the one on file; a sticky user is moved only off an invalid target |
| `settle` | 2 refreshes, 2 users, 2 saves, rebalancing off, fairness | assignments come to rest, refreshes end |
| `settings_overlap` | 2 updates at a time, 4 in all, crashes, CLI, 2 readers, fairness | enabled methods are complete wherever they are read; nobody is locked out until updates overlap; the cache comes to agree with the row |
| `nodes_jobs` | 1 node, 2 profiles that share the queue, 2 requests, health checks, failed lookups, crashes, fairness | a connecting node and a paused queue have a job that will release them, unless one gave up; START_NODE jobs are taken; no profile change goes unseen |
| `users` | 1 user, 1 node, a squad the node serves, one only other nodes would serve and one without inbounds, 2 requests at a time, every operation, sweep, failure and start, 3 inputs, fairness | nodes agree with rows once all is quiet, up to the cases above; statuses have reasons; a user past his date ends up cut off |
| `usage` | 1 node, 1 user, a rate of one and a half, traffic below and above the threshold, one fault or crash, both maintenance jobs, fairness | traffic is counted and charged once but for rounding, users are greeted once; buffers and pauses have owners; all that is collected arrives |
| `records` | 2 requests and 1 administrator over 2 devices and one slot; 4 requests or decisions, with deletions of hosts, users and the whole history; faults and crashes | the last slot is not shared, the queue brings no device of its own, a known device is served; logs keep their latest rows |

Runs that must fail show where the program departs from what its documents, tests
or comments say. Each checks one property, and the finding in `PROJECT.json` quotes
the line:

| Run | Departure |
| --- | --- |
| `oversubscribed` | two refreshes take the last seat |
| `settings_lockout` | two valid updates disable every login method |
| `settings_stale_switch` | a late cache fill keeps the balancer on after it was switched off |

Departures that need no model checker. Saving a list, even unchanged, or switching a target to
draining deletes the assignments of all its targets (`replaceTargets` deletes every row,
`host-balancers.repository.ts:190`, and the assignments go by cascade), where
`TESTING_HOST_BALANCER.md:437` and `:444` expect users to stay on a draining target;
`Withdraw` in the seat book is this. `LEAST_ASSIGNED` divides by limit and weight
(`host-balancer.service.ts:738`), where the README speaks of the number of users; with
sticky off, KEEP_LAST_IF_POSSIBLE has nothing to keep (`:571` gets a null target) and a
user's own seat counts against him (`:530`); targets of a deleted node live on as
address-only targets (`schema.prisma:388`). A device limit of 0 means none to a
subscription request (`subscription.service.ts:754`) and no devices at all to an administrator
(`hwid-user-devices.service.ts:82`).

Bounds. Two concurrent refreshes and two administrators are enough for every race of
two actors; none of the code's steps looks at a third. Three users for two seats
make the overshoot reach its bound. `MaxSaves` bounds the target lists ever created:
two show a list replaced, three let two overlapping administrators replace another's list. Node states are
limited to the ones an instance is about. One node is enough for the jobs of a node
to meet, a second profile for two restarts to pause and resume the queue under each
other, and two requests (`MaxRequests`) for a change to arrive while the restart of
an earlier one runs; health checks, retries and failures are not bounded. The global
limit of three restarts does not bind with two profiles. In `users` no action looks at
two users or two nodes, so one of each shows every race between a row and what is under way about it; three
inputs (`MaxInputs`: requests, traffic, time, starts and failures) let two requests race
beside a third event; a LIMITED or EXPIRED user takes one of the three to get there. In `usage` a user's traffic meets that of no other; two units are
below the threshold and three above it, and `MaxTraffic` lets a second record start
while the first is under way (two of three units each in `usage`); one fault (`MaxFaults`: a call, a statement or a death) falls anywhere. In `records` two
devices and one slot are the smallest contention, and five moments (`MaxClock`) fill logs of two and
one rows several times over. `MaxUpdates`, `MaxClock`, `MaxFaults` and `MaxLogFaults` are
bounds of the same kind. The proofs have none of them but where an assumption of the
module types a bound.

Fairness. `FairSpec` asks weak fairness of each started refresh (`RefreshStep`) and
each started save (`SaveStep`), of updates, reads and of Redis's expiry: an await settles
or throws, and the event loop goes on. Nothing says that a user refreshes, an
administrator saves or a node changes. In `NodeLifecycle` every step of a job is weakly
fair, and taking a job from a queue strongly, since workers take the oldest first
whenever the queue is not paused or full; failures and STOP_NODE need no fairness. In
`UserLifecycle` started requests, the watchdog's expiry sweep (a cron) and work under
way are weakly fair; nobody has to ask for anything, start a node or fail. In
`UsagePipeline` the steps of records and maintenance jobs, the daily reset cron
(`AddReset`, `reset-user-traffic-day.task.ts:21`) and Redis's expiry are weakly fair, and taking from the push and usage
queues strongly: maintenance pauses them once a day at most, and the reset of the next
day ends the pause of one that failed, so they are open again
and again. `settle` has no crash or failing statement; a
request that dies simply ends.

Deadlock checking is off only where every user or host may be deleted, and where
requests, traffic or saves run out.

The histories keep the properties honest: what a failure leaves
behind is recorded, not excluded. A node among the `abandoned` stays connecting,
and START_NODE and the health check pass it by (`start-node.processor.ts:58`), until a
restart of its profile, a stop or a disable; a queue that is `stuck` is resumed by the next
restart of any profile. A pair that is `astray` is put right by the next start of the node.
A queue paused by a traffic reset may be resumed under it by the cleaning job
(`service.processor.ts:56`): `PauseHasOwner` says that a pause has an owner, not that an
owner has its pause; a pause whose job failed outside its try has none and is on record as `stuck`.
`EventuallySettled` speaks of balancers that do not rebalance: with `rebalanceExisting` every change of the
nodes' traffic may move users, and there is no rest to promise.

`StickyStability` and `AnsweredIsAssigned` are properties of refreshes that do not
overlap with another of the same user (`UsersTakeTurns`; `turns` checks them under
`TurnSpec`, whose refreshes start only where it goes on holding). When two do overlap
they fail: both find a new user unassigned, choose different targets, and the later upsert moves the user off the
target the first subscription was given. `NobodyLockedOut` likewise speaks of the time until
two updates overlap; after that `SomeMethodEnabled` fails (`settings_lockout`).

## 4. What is proved

TLAPS checks every proof to the last leaf. The assumptions are those of the modules:
finite sets of hosts, users, refreshes and administrators (only the counting proofs
use finiteness), typed constants, and that the answers that are no target differ from
ids and from `Null`.

- `TypeCorrect`: `TInv == TypeOK /\ RefreshesHaveUsers /\ SavesHaveBodies` is inductive.
  That a running refresh has its user and a running save its body is what the typing
  of their next step needs.
- `AssignmentsAreSound` and `MovesAreToActiveTargets`: `IInv` adds `IdsWereCreated`
  (no id in a table or snapshot is newer than the last `createMany`) and
  `RowsAreImmutable` (rows with one id agree, in the table and in every snapshot,
  apart from the node that `SetNull` may clear). The foreign key of
  `upsertAssignment` tells only that the id is alive; that the row still belongs to
  the host and still is what the refresh saw follows from immutability, because
  saving never updates a row. This is why a stale snapshot does no harm here, and
  it would stop being true if target rows were updated in place.
- `RowsAndSnapshotsAgree` is that invariant, `IInv`, itself.
- `AnswersAreAccountedFor` (`AuditCoversAnswers`). `WorkerStep` says what any step may do
  to a refresh, and the proofs of this and the next two go by its cases. An answer is the id of one
  of the host's own targets in the snapshot (`AnswersAreChosen`), and hosts of targets
  exist (`TargetsHaveHosts`), so by `IInv` the INSERT of a decision about a live answer
  is never refused by a foreign key (`DecisionIsWritten`); `DecisionsStay` shows that only
  the loss of its host, user or target takes it away.
- `AnswersAreOnFile` (`AnsweredIsAssigned`) and `ValidTargetsAreKept` (`StickyStability`)
  are proved of every behaviour in which users take turns, `Spec /\ []UsersTakeTurns`, with any number
  of refreshes at a time; with one refresh at a time the condition is void. `ReadIsCurrent`:
  the assignment a refresh has read for a host it has not answered yet still stands, or
  its target or its user is gone. `SeatStays` is the reason: apart from another refresh
  of that user, steps only take assignments away, and with the target they name.
- `OversubscriptionIsBounded` and `SeatsAndPermitsAreBounded`: `SeatsBounded` counts, for a limited target, the users it
  holds and the *permits*: refreshes that counted room and have not yet written. A
  refresh gets a permit only by counting fewer holders than the limit, and each seat
  taken uses up a permit.
- `SavesMergeBoundedly`: `ListsBounded` counts the lists in the table and the saves that
  have deleted and not yet created.
- `SettingsStayComplete`: what an update is about to write is complete column by column.
- `NobodyIsLockedOut`, for the time until two updates overlap: the row has not
  changed since the validation of the update under way. No assumption on the number of
  administrators is needed.
- `BalancerImplementsBook`: every step of `HostBalancer` is a step of `Assignments` or
  leaves the book as it is. It rests on `IInv`: the step of `upsertAssignment` is an
  `Assign` because the row a stale snapshot knows is still what it was, and a
  `createMany` is an `Issue` because its ids are newer than all others.
- `NodesTypeCorrect`, `ConnectingNodesHaveOwners` and `PausedQueueHasOwner`, for any nodes,
  profiles and failures: the invariant adds `MarkedAreLeft`, that a restart goes on to
  start every node it marked; without it a node could be connecting with nobody left to
  reset it when marking ends.
- `UsersTypeCorrect` and `StatusesHaveReasons`: that a write keeps a status reasoned
  depends on the row the request read being the row it writes, unless the user is on
  record as `raced`; `updateUser` needs that the body's limit and date only ever take a
  reason away together with the status.
- `NodesFollowRows` (`IInv` of `UserLifecycle`) and `AccessFollowsRows`
  (`AccessConverges`): for a pair of a connected node and a user that is not `astray`,
  either what the node serves is what the row asks for, or something under way will bring it
  about, and nothing under way says the opposite. It is proved of any squads, inbounds and nodes: `WriteDecides` tells a
  change to no squads, which removes, from one to squads without inbounds, which is on record. The invariant adds `CreatedOK` (a
  request that has read a user read one that was created) to the types, and proofs go write by write: `WriteDecides`
  shows that a write from a row that is still what was read publishes what the nodes
  need to know, or leaves them nothing to know; events, jobs and calls then pass that on
  or are on record as lost. When nothing is under way only agreement is left (`QuietIsDone`).
- `PipelineTypeCorrect`, `UsersChargedOnce` and `UsersGreetedOnce`: `Balanced` compares, for a
  user, what is owed for the traffic its nodes carried (`Owed`) with what is charged
  (`Charged`: the lifetime total, what jobs of nodes have recorded and not yet queued, and
  what the queued charges will add), where sums over nodes and bags are the cardinalities of sets of
  units (`Total`), since a recursive sum cannot be reasoned about here. Amounts are compared in tenths of a
  byte, for any rates, and each rounding leaves at most one byte open (`rounded`); that a record which
  lists nobody has nothing to charge (`ListsOK`) is part of the invariant. Jobs are finitely
  many and have ids of their own, so that a job taken, retried or lost moves a known
  amount. `GreetOK` says that the greetings of a
  user and the jobs about to greet it, which are those whose statement is committed, are at
  most one together, and none for a user that was never online.
- `TrafficCountedOnce`, `BuffersAreCovered`, `PausesHaveOwners`: the sum over the places
  where a unit can be is what the node carried, or less if its node is on record as
  lossy; a hash without a job is on record as `missed`, and a pause without one as `stuck`, whatever call failed. The properties are inductive together with the types of the variables on the
  way (`WayOK`); the steps of charges and maintenance leave the way alone (`Aside`), so
  each proof is about the steps of record and push.
- `DevicesTypeCorrect`, `SlotsAreLimited`, `QueueBringsNoDevice` and
  `RegisteredIsServed`: the holder of the lock that is about to insert has counted fewer devices than
  its limit, or is `blind` because somebody inserted without the lock since; the
  counting uses the finiteness of the devices.

- `HistoryIsKept` and `DecisionsAreKept`: for the first, the last moment recorded (`newest`)
  keeps its row until the table is emptied, and the history is within its limit when no job runs and no removal
  failed. For the second, for every row a prune is to delete, if it still exists,
  `KeepDecisions` newer ones do too or have gone with their host or user since; and unless a prune failed, one has yet to look, or holds all
  stale rows, or there are none. Deletions of other prunes do not take the newer ones away, because the latest row deleted still has as many newer ones, and
  they are not deleted (`DeletingKeepsNewer`). The latest and earliest of a set
  of moments come from the well-foundedness of the naturals (`EarliestRow`).

Only model-checked: the liveness properties, which are out of TLAPS's reach:
`EventuallySettled`, `RefreshCompletes`, `EventuallyFresh`, `RestartIsSeen`,
`StartIsTaken`, `NothingStaysConnecting`, `ExpiredIsCutOff` and `EverythingArrives`.
Every invariant, action property and refinement of a passing run is also a theorem. The runs that must fail are TLC's alone.

## 5. What is left

Worth doing next, in this order:

1. `NodeLifecycle`, second part: START_ALL, and the configuration a node runs (which
   start wins, what `force` and a late `startXray` do), with `NodeChanges` of
   `HostBalancer` and the starts of `UserLifecycle` as its abstractions.
2. Bulk changes of squads and of users, and the hourly sums per node.

Not modelled, because there is no protocol in them: rendering of subscriptions,
generation of Xray configurations, statistics and metrics, notifications, CRUD
modules (squads, billing, metadata, templates, plugins' documents), migrations, and the
frontend, which is two fifths of the repository's lines and keeps no state that outlives
a page. Authentication is left out: its sessions and tokens are stateless, and what it
reads of the settings is in `RemnawaveSettings`.
