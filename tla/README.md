# MittelWerk in TLA+

A verification project for MittelWerk, a simulation of industrial service
dispatch (`../src`).  It models the parts that carry the program's own logic,
model-checks them with TLC on small instances and proves the most important
results for every instance with TLAPS.  All names in the modules follow the
source; `PROJECT.json` maps every definition to the lines it translates.

## The system

| Component | Source | State | Operations |
|---|---|---|---|
| Dispatch queue | `mittelwerk/core/queue.py` | two sorted maps of FIFO rate levels, an index of resting orders | add, cancel, pop best, peek |
| Dispatch engine | `mittelwerk/core/engine.py` | known identifiers, a queue per asset, workloads, assignment log, order counter | submit, cancel |
| Domain models | `mittelwerk/core/models.py` | a work order's hours and status; a workload's hours, average, realised and unrealised cost, mark | validation, assignment, marking |
| Event bus, event log | `mittelwerk/core/events.py` | subscriptions, a bounded queue and a task each, a bounded log with global numbers | publish, subscribe, unsubscribe, stream, start, stop, replay |
| Dispatch service | `mittelwerk/api/service.py` | orders and cost history per organization | submit and persist, cancel, read |
| HTTP API | `mittelwerk/api/{routes,middleware,dependencies,schemas}.py` | none of its own | identity, permission, audit, translation |
| Application lifespan | `main.py` | feed task, its outcome, resources | start, supervise, pump readings, tear down |
| Telemetry feed | `mittelwerk/telemetry/feed.py` | running flag, latest readings; an adapter with a reconnect loop | generate, stop, connect, disconnect |
| Telemetry store | `mittelwerk/telemetry/store.py` | database tables, the closed flag | insert, upsert, page, search, clear, close |
| Telemetry transform | `mittelwerk/telemetry/transform.py` | none | interval bars, averages |
| Authentication | `mittelwerk/auth/{keys,signing}.py` | key records | generate, register, validate, revoke, rotate; sign, verify |
| Utilities | `mittelwerk/utils/*.py` | tokens of a rate limiter, metric samples | retry, acquire, wait |
| Dispatch policies | `mittelwerk/dispatch_policies/*.py` | windows of readings, the breach or imbalance last told | on reading, on assignment, recommend |
| Analytics | `mittelwerk/analytics/*.py` | capacity models, backlog histories, cached metrics | aggregation, composition |
| MCP server | `mittelwerk/mcp_server/server.py` | an engine, the open orders it owns | tools and resources |
| Scenario runner | `scripts/workshop.py` | scenario record, backup, archives, lock, staged files | start, resume, verify, reset, status, diff |

A request enters through the API, becomes a `WorkOrder`, and is submitted by the
service to the engine.  The engine reserves the identifier, validates the order,
matches it against the queue of its asset, updates workloads and publishes
lifecycle events on the bus; the service then stores the assignments on a worker
thread.  The MCP server submits to an engine directly.  The telemetry feed
publishes readings on the same bus, and the pump in `main.py` marks workloads at
them.  Everything except the store's worker threads runs on one asyncio event
loop, so a step that cannot be interleaved is whatever runs between two
suspensions.  The scenario runner is a separate command-line tool: its processes
share nothing but files.

### What is hard

* **The engine.**  Rate-time priority over levels that appear and vanish; orders
  that change while they rest; a COMPLETE check that counts what the match later
  walks; statuses, hours, workloads, marks and events that must agree at the end
  of every turn.  `EventBus.publish` is `async` but contains no suspension point,
  so a whole submission is one turn of the event loop: that fact carries the
  engine's atomicity and is what the model says about it.
* **The queue.**  Two structures, levels and index, describe one set.
* **The bus.**  Queues and a log at their limits, tasks that end at different
  times, identifiers given up and taken again, a stop that waits for loops whose
  callbacks may still publish.
* **The service.**  A suspension between executing, storing and answering, in
  which other requests, key changes and the closing of the store take place.
* **The lifespan and the feed.**  Teardown that must go on after failures and
  interruptions, a task that may end during each of them; a reconnect loop that
  is disconnected while it waits.
* **The scenario runner.**  Kills and failures between any two file operations,
  two processes, a rollback that may itself fail, a participant who edits.

`PROJECT.json` lists these hazards at their lines, each with the properties that
would catch it.

### What makes each part correct

The queue always serves the order that no waiting order precedes, and an order
can be cancelled exactly while it can be matched.  The engine never assigns more
than was asked for, never leaves a crossed queue, an order in limbo or a better
rate behind, never deals beyond a cap, lets nothing happen to an order that has
ended, and tells the truth in its events.  The workloads account for each
assignment once, and combining them loses no cost.  The bus delivers in order,
loses events to overflow only and keeps every callback on a task that it can
reach.  What the service executed is stored or reported as not stored, what
rests can be cancelled by its submitter and by nobody else.  Every teardown step
runs and the first cause is raised again; a disconnected adapter stays
disconnected; a refused key stays refused; over no time span does the limiter
grant more than its rate; the policies speak once of each event; the tables hold
whole batches and pages are right about them.  A scenario that was rolled back or
reset leaves the files as they were, and no attempt is lost.

## The modules

| Module | What it is |
|---|---|
| `RateTime` | rates, sides, level keys, caps and priority, shared by queue and engine |
| `PriorityLine` | what a queue promises: a set of waiting orders, served by rate, then by time |
| `DispatchQueue` | `queue.py`: maps, deques, index; implements `PriorityLine` |
| `WorkOrderExchange` | what the engine promises its clients: open, decide, trade, withdraw |
| `DispatchEngine` | `engine.py`: a submission step by step, cancellation, marks; implements `WorkOrderExchange` |
| `WorkloadLedger` | `models.py` `Workload` and `engine.py` `WorkloadManager`: cost accounting |
| `OperationsAnalytics` | `analytics/operations.py` and `capacity.py` over the ledger: units, their sums, multiples and differences |
| `EventBus` | `events.py`: bus, dispatch loops, streams, log |
| `KeyRing` | `auth/keys.py`: the life of API keys |
| `DispatchService` | `api/` and `mcp_server/` over the engine and the store, with the keys of `KeyRing` |
| `Lifespan` | `main.py`: startup, serving, the feed task, teardown |
| `FeedAdapter` | `telemetry/feed.py` `WebSocketFeedAdapter` |
| `TelemetryStore` | `telemetry/store.py`, `transform.py`, and the search in `service.py` |
| `TokenBucket` | `utils/decorators.py` `RateLimiter` |
| `DispatchPolicies` | `dispatch_policies/`: buffers, breaches, imbalances |
| `ScenarioRunner` | `scripts/workshop.py`: start, roll-back, resume, verify, reset over a file system |
| `LegacyReset` | `scripts/workshop.py`: the reset of a version 1 checkout |
| `EvidenceCheck` | `scripts/workshop.py`: the judgement of evidence files |
| `DispatchQueueProofs`, `DispatchEngineProofs` | the theorems about queue and engine |
| `DispatchServiceProofs` | those about keys, front ends and dashboards |
| `RuntimeProofs` | those about the machines around the engine: lifespan, adapter, limiter, policies, store and bars |
| `OperationsProofs` | those about workloads and the units that are combined of them |
| `ScenarioRunnerProofs`, `EventBusProofs` | those about the runner, with the legacy reset and the evidence, and about the bus |
| `SumTheorems` | what sums over finite sets are worth, and what folds over sequences come to |
| `MC*` | instances for TLC |

`DispatchService` composes keys, requests, engine, store and MCP tools;
`OperationsAnalytics` extends `WorkloadLedger`.  `MCRuntime` only puts the small
machines beside each other, and `MCEngineParts` the queue and the ledger.

### How state and steps correspond

**DispatchQueue.**  `queue[side][key]` is the deque of a level in `_requests` or
`_offers`; a level exists while its key is in the domain.  `index` is the key set
of `_work_order_index`; the side and the rate it also keeps never change.  Every
public operation holds the queue's lock and is one action.  `clock`, `joined`
and `taken` are history that the refinement needs.

**DispatchEngine.**  The queue of an asset is represented as the line it
implements: the set `resting[asset]`, with `since` giving the order of joining.
That an order rests in the turn that submitted it, and that `_work_order_count`
increases with each submission, makes this the order of arrival.  A turn is
`phase`, `current`, `fills` (`assignments_with_resting`) and `said` (how many were
published): Submit (guard, reservation, SUBMITTED), Reject, CheckRaises, Admit,
StandDownComplete, BeginMatch, one Match per round of the loop, EndMatch, one
Announce per assignment, Reprice, SettleAssigned or SettlePartial, Rest or
StandDownResidual.  Cancel and ApplyReading, the pump's mark, happen only
between turns.  `heard` is the last lifecycle event of each order with the
payload it carries.

**WorkloadLedger, OperationsAnalytics.**  `workload` is one `Workload` record per
organization for one asset; `Assign` applies an assignment to the requester and
then to the provider, `Reprice` marks the open ones.  A unit is an organization:
its workload as its provider reports it, its registered capacity models with
their weights and the daily changes of its backlog.

**EventBus.**  A handle is a subscription object with the task or coroutine that
serves it; `registry` and `tasks` are the dictionaries from identifiers.  The
dispatch loop is the cycle Begin, then TimeOut or Call and Return; `stop()` is the
pair Stop and Stopped, before and after its `gather`.  What was delivered, what
overflowed, and when a handle came and went are history.

**DispatchService.**  A request is admitted with the organization and the
permissions its key has at that moment, then executes or is dismissed; a
submission that made assignments goes on as `writing` (handed to a thread),
`flushed` (its session has inserted the rows), `committed` or `failed`, and
`stored` or `lost` once the session has ended, before it is answered; the server
may cancel its handler at each of these (`Abandon`), after which nobody hears the
answer and a thread that has begun goes on.  `pending` holds what each session has
flushed and not committed.  Sessions on a database file have a connection each;
those of an in-memory database (`InMemory`) share one, so whichever commits
or ends settles the rows of all.  `book`
is `_work_orders` per organization, `costs` the deques of `_cost_history` with
the numbers of the turns in them, `rows` the assignments in the store, `owned`
the MCP server's `owned_open_work_order_ids`.  Of the engine only what its
clients see is kept (`stage`, `left`, `partners`); whether a residual rests is
left open.  `withdrawer` and `turns` are history.

**KeyRing.**  `records` maps a raw key to its record.  Revocation keeps the record,
so a known raw key is never stored anew.  `rotate_key` revokes before it issues,
also when the issue then refuses its lifetime (`RotateBadly`).

**Lifespan.**  `phase` is where the context manager stands, `up` what really runs
or is open, `acquired` the flags the teardown goes by, `todo` the steps
`_release_resources` still has to run.  Each step succeeds, fails or is
interrupted; the wait for the feed task may instead time out, whereupon the task
is cancelled and awaited.  The task may end at any time and its done-callback,
`Notice`, runs some time later.

**FeedAdapter.**  `stage` is the await at which `connect()` stands; `disconnect()`
may be called at each.  **TokenBucket.**  A thread asks under the lock and sleeps
without it; time goes in ticks.  **DispatchPolicies.**  The buffer beside the
whole stream of readings, the state that was told beside every evaluation.

**TelemetryStore.**  Every insert, upsert and clear is one transaction; `accepted`
is the history of calls that returned.  Pages, searches, bars and averages are
operators over the tables.  A sorted page is the arrangement of the rows it found
in the order the query asks for, chosen with `CHOOSE`, since there is one only.

**ScenarioRunner.**  A tree maps each path of a work directory to its contents.  An
action is one durable file operation of a process and what it computes before
the next; each may fail, and the process may be killed between any two.  What
stands at a path may be a link (`Linked`) or a directory (`Nested`), which
may be empty (`Hollow`): the commands differ in which of these they see.  `state`
is `state.json`, `backup` the directory that start moved aside, `archives` the
attempts that reset keeps, `holder` the lock, `task[p].mem` the record the process
holds in memory, which may be ahead of the file.  An archive holds the files that
were copied (`saved`) and the inventory of the tree; `was`, that tree, is history
and nothing but the resume property reads it.  **LegacyReset** does the same
for the older record, target by target.  **EvidenceCheck** has a document as a
sequence of abstract lines to which the participant appends.

### What is abstracted

* Rates are natural numbers of increments and hours natural numbers; 0 is a
  missing rate.  Ledger and analytics amounts are exact fractions; the code's
  Decimals round divisions to 28 digits.
* Validation of input text, the average rate of a work order, reasons,
  timestamps and serialisation are left out.  Orders are submitted with
  `assigned_hours` 0, as the API and the MCP server build them.
* The pre-dispatch check is external: any of its three outcomes may occur.
* The application starts and stops the bus one after the other, so `start()`
  during a pending `stop()` is not modelled.
* Digests and key identifiers are unique and the clock does not go back.  Hashes
  of trees and definitions are the trees and definitions themselves.
* The score of the cross-asset policy is any of five verdicts; the average move of
  the capacity policy is compared without division.
* In `TelemetryStore` the insert of a batch is atomic, as the transactions of a
  database file are.  A text has two forms, its letters as LIKE compares them and
  as `casefold()` gives them, since the two differ.
* Figures are whole numbers of their last decimal place.  Bars compare their
  binary floats, given by `Double` as places in the order of floats; an average is
  rounded half to even to whole millionths, as `quantize` does.  That the sum and
  the quotient before it are themselves rounded to 28 digits is left out: it
  matters for figures of more digits than that.
* `NothingLostSilently` is about database files, for which sessions have
  connections of their own; `main.py` accepts in-memory URLs as well, and there it
  does not hold (see *Also met while modelling*).
* An evidence line has only what the checks read of it: heading level, label, word
  count, length of its value, whether it mentions an option or a placeholder.

## The runs

| Run | Question | Properties | Bounds |
|---|---|---|---|
| `parts` | Are levels, deques and index coherent, is nobody overtaken, and is the queue the line? Do costs add up through opening, increasing, reducing, closing and flipping, and when units are combined? | `QueueInv`, `ImplementsLine`, `CostIsMarkToMarket`, `CombiningLosesNothing` | seven orders: a level of three requests and one of a single request, a level of two offers, one order without a rate; or three organizations, three assignments, two rates, marks at will; or four registrations or records of two models on two assets |
| `trading` | Are hours, workloads, caps, priority, COMPLETE and events right, and is the engine the exchange? | `BookInv`, `LogAccountsForAll`, `CapsRespected`, `NoTradeThrough`, `CompleteAllOrNothing`, `EventsTellState`, `ImplementsExchange` | four submissions of eleven kinds, on one asset |
| `boundary` | Do lots hold through partial matches and refusals, do all open workloads of an asset carry its latest rate, those of bystanders included and no other asset's, and does every submission end? | `WholeLots`, `MarkedAtLastRate`, `TurnsEnd` | three submissions of twelve kinds, two configured assets and one that is not, all verdicts; or four of eight kinds by three organizations on two assets; one reading |
| `event_bus` | Are delivery, log and replay right at their limits, and has every callback one reachable task over starts, stops and reuse of identifiers? | `ReplayIsExact`, `NothingSkipped`, `ServedWhileRunning`, `NoOrphanTask`, `DrainedWhenStopped` | two subscriptions, two kinds, three events, queues and log of two, callbacks that publish nothing |
| `bus_liveness` | Is every queued event delivered and does stop() return? | `QueuedIsDelivered`, `StopEnds` | two subscriptions, two events, callbacks that publish |
| `server` | Who is shown what, who may cancel what, and what is kept when the store fails or closes, or a handler is cancelled? | `NothingLostSilently`, `RestingIsCancellable`, `OwnersOnly` | a database file, two organizations, two keys, two concurrent requests, three orders of one or two hours, one of them over the MCP tools |
| `dashboard` | Are trajectories in order, without a gap or a repetition, at their limit, and the counts right? | `DashboardIsExact` | four orders of one or three hours, one request at a time, trajectories of two turns, no store |
| `runtime` | Do the nine machines around the engine keep their promises? | `OnlyTheBrokenSurvive`, `CausesAreReported`, `DisconnectHolds`, `DisconnectEnds`, `RefusedForGood`, `RateIsKept`, `AlarmsOncePerEvent`, `HistoryIsExact`, `LegacyRestored`, `EvidenceIsDistinct` | see below |
| `scenarios` | Is the checkout what it was, and is no attempt lost, whatever is killed, fails or is edited? | `RestoredExactly`, `HomeKept`, `AttemptKept`, `RecordLoads`, `ResumeIsExact` | two processes, one scenario with one payload and one path of the participant's own, three edits (a payload changed in place and a file added; a payload deleted and a link added; an empty directory made), two starts, two archives, one change of edition |
| `stop_drains` | Does stop() lose an event when callbacks publish?  It does. | `DrainedWhenStopped` violated | two callbacks |
| `orphan_task` | Can a subscription orphan a task?  It can. | `NoOrphanTask` violated | three subscriptions of one identifier |
| `stuck_reset` | Can every recorded scenario be reset?  It cannot. | `ResetRecovers` violated | as `scenarios` |

**Why the bounds are enough.**

* *Engine.*  A defect of a match shows between an incoming order and two resting
  orders of its side: the second tests what the first left behind.  A fourth
  order then sees the residual.  Two rates give better, equal and worse; hours of
  one to three give fill, remainder and exact fit.  A stale mark needs a bystander:
  in `boundary` one of two requesting organizations opens a workload at one rate,
  and looks on while the other one deals at another; the second asset shows
  whether a mark or a reading goes where it should not.  A behaviour has either
  orders that meet the boundary or such that are all admitted (`OneScene`).
* *Ledger.*  Three assignments are enough to open, increase and flip a workload,
  and hours of one and three at the rates 1 and 4 make averages that are no whole
  numbers.  Three organizations are needed for a combination that nets twice.
  Queue, trading and capacities share no state, so a behaviour of `parts` exercises
  one of them.
* *Bus.*  A queue or a log of two elements evicts, shifts and overflows with three
  events, and two subscriptions are enough for one to take the other's
  identifier.  Losing a task takes three under one identifier: the first owner,
  the second, and the one that finds the entry missing.
* *Service.*  A race here has two requests: one that is suspended and one that
  acts meanwhile, which is why one at a time is admitted and not handled yet
  (`OneAdmitted`): until then it brings no more than its grants.  Three orders give
  a resting one, one that deals with it and one that deals with what is left.  `EarlyRevocation` bounds key changes to the
  time before the second order: a handler no longer looks at its key, so later
  ones lead to nothing new.  `OneByMcp` lets one of the orders come over the MCP
  server, which meets the API's orders from either side.  A trajectory can be out
  of order or have a gap if it has two entries, and has evicted one after three
  turns: a resting order of three hours and three that each take one of them
  make these (`dashboard`).
* *Runtime.*  Nine machines share no variable, so TLC follows one in each
  behaviour instead of their product; the lifespan, the adapter and the legacy
  reset are finite as they are.  Keys: two raw keys, lifetimes of one and two
  ticks and none.  Bucket: two threads, a burst that is no multiple of the rate, so
  that refills are cut off; four ticks and four grants.  Policies: a buffer of four
  under six readings evicts twice.  Store: batches of two, three calls,
  four rows (`MaxRows`), with rows that are duplicate, unsound, of one instant in
  two offsets and out of order, figures below a millionth and two that are one
  float, and names that LIKE and `casefold()` read differently; a ceiling of three
  is reached.  Evidence: six
  lines hold two blocks with their fields under a section.
* *Scenarios.*  Two processes are one that holds the lock and one that meets it.
  Two starts make an attempt that is archived and one that resumes it.  One
  payload and one extra path give every answer of the tree comparisons: a payload
  kept, changed in place or deleted; an added file, link, directory with files or
  empty one.  The participant's own directory is nested or there is none, which
  are the two that start treats differently.  A changed payload makes an archive
  copy it; the update of the checkout leads to an
  edition that is other, incomplete or unreadable, and is made once.

Identifiers of requests, keys, handles, processes, the service's orders, the
ledger's organizations and the queue's orders of one side and rate are
interchangeable, hence the symmetry.  The engine's runs, one of which checks
liveness, take their identifiers in order instead (`InOrder`), since what is
submitted does not depend on them.

**Deadlock** is checked except where a system may rightly stop: an application
that has ended (`runtime`), organizations that have traded all their bound allows
(`parts`), and clients that have used up all orders and keys (`server`,
`dashboard`).

**Fairness.**  `TurnsEnd` assumes weak fairness of the steps of a turn: nothing in
it suspends, so once begun it runs on.  The bus assumes weak fairness of each
dispatch task and of the end of `stop()`: the event loop runs whatever is ready,
timers fire, and callbacks are taken to return.  Publishing, subscribing and
consuming a stream are assumed of nobody.  With callbacks that publish for
ever `stop()` need not return; `MaxPublished` bounds them.  `DisconnectEnds`
assumes weak fairness of what the event loop and the timeouts of the websockets
library bring about: an attempt to connect ends, a request is sent or refused, a
close finishes, a delay is over, and a stream over a closed socket ends.  That a
message arrives is not assumed, which is why the property excepts a socket whose
opening was pending when `disconnect()` was called: nobody closes it, and the loop
leaves it only at the next message.

### Disagreements between the code and its comments

* **`stop_drains`.**  `events.py:287` says that queued events are drained on
  shutdown "so no event is lost".  A dispatch loop ends as soon as the bus has
  stopped and its own queue is empty.  If the callback of another subscriber,
  which is still draining, then publishes, the event is put into a queue that
  nobody reads, and `stop()` returns.  If callbacks publish nothing the claim
  holds (run `event_bus`).
* **`orphan_task`.**  `events.py:208` says a new subscription "can never orphan an
  existing one's dispatch task".  The `finally` of `stream()` removes its
  identifier without looking whose it is.  After `unsubscribe()` of a stream's
  identifier and a callback subscription under it, closing the old stream
  removes the new owner, whose task runs on; the next `subscribe()` overwrites
  the task's entry and nothing can cancel it any more.  With identifiers of
  streams and callbacks kept apart the claim holds (run `event_bus`).
* **`stuck_reset`.**  `workshop.py:3291` calls reset "the unconditional recovery
  route".  If a command is cut off after the backup was renamed back and before the
  record is cleared, every later reset refuses for a missing backup, although the
  directory is in place.  The shortest trace is the roll-back of a start that
  failed; a reset that is cut off at the same place ends alike.

### Also met while modelling

These are not contradicted by a comment and no property counts them as errors.

* `rotate_key` with a lifetime that is refused has revoked the old key already.
* The done-callback of the feed task may run after the shutdown flag is set: a
  clean end of the feed just before the shutdown is then not reported as early.
* For an in-memory URL `store.py:317-322` makes an engine with one connection for
  all threads (`StaticPool`), and so one transaction.  While the thread of a
  submission stands between flush and commit, a query on the event loop ends a
  session on that connection, which rolls the flushed rows back.  The commit then
  succeeds with nothing to store and the client is told that its assignments are
  stored.  With `InMemory = TRUE` the model behaves like this, and
  `NothingLostSilently` without its condition is violated by the steps just told.
* The scan of the reference data, which `routes.py:380-381` calls "equivalent" to the
  store's predicates, finds more: `casefold()` makes `ss` of a sharp s and folds
  every letter that has a case, LIKE the ASCII letters only.  The other direction
  holds, and so does equality, page for page, for texts that both read alike; this
  is what `SearchesAgree` says (run `runtime`).
* `status` lists files only; `diff` and `reset` count an empty directory that the
  participant made as a change, and `reset` archives the tree for it.
* A backup that was not sealed yet when start was cut off is put back by reset
  without a comparison: only a sealed one can be checked, and the model edits sealed
  backups only.
* The average of combined units depends on the order in which they are combined;
  their hours, cost and exposure do not.
* A capacity policy whose `min_ticks` exceeds its buffer never speaks.
* A whole-tree relocation by the reset of a version 1 checkout takes the targets
  away before they are restored; if a target that existed has no backup the
  reset refuses from then on, and its contents are in the archive.

## The theorems

The modules the theorems are about, and the abstract specifications, hold no
`RECURSIVE` operator, so all theorems are for any orders, rates, assets,
organizations, keys, requests, reference data, readings, rows, verdicts, threads,
targets, documents, terminals, scenarios and payloads.  The assumptions are on the constants alone:

* `OrdersAssumption`: each order has a side and a natural rate.
* `EngineAssumption`: what is submitted is a constructed `WorkOrder`, readings are
  naturals, `None` is no identifier, lots and increments are positive, as
  `Equipment` validates, and there are finitely many organizations.
* `LedgerAssumption`: hours and rates are positive.
* `UnitAssumption`: the daily hours and the rate of a capacity model are positive, and
  backlogs, weights and a day's change are whole multiples of some unit, where the
  code has floating-point numbers.
* `LifetimesAssumption`: `_validate_ttl` lets positive lifetimes pass only.
* `ServiceAssumption`: organizations and orders are finitely many,
  `COST_HISTORY_LIMIT` is positive, and the database is in memory or is not.
* `BusAssumption`: the limits of queues and log are positive, as their
  constructors check, filters are made of event types, and `None` is no
  subscription.
* `BucketAssumption`: rate and burst are positive, as the constructor checks.
* `PolicyAssumption`: readings are positive, and `lookback` and `min_ticks` are what
  `CapacityBreach.__init__` accepts.  Nothing relates them to the size of the buffer,
  as nothing in the code does: where `min_ticks` is beyond it no evaluation is ever
  decided, and the theorem says so (`Shown`).
* `StoreAssumption`: the width of an interval, the ceilings of a query and a
  millionth are positive, and the ids that lists are ordered by are those that
  assets have.
* `ReadingAssumption`: a reading that is accepted has a figure, an instant and a
  count of samples, all of them numbers, and its figure has a float.
* `TextAssumption`: `casefold()` makes the same of letters that LIKE takes as equal,
  and ids and names of equipment are texts.
* `TargetsAssumption`: the targets of a version 1 record are different paths, none
  of them called like a step of the reset.
* `EvidenceAssumption`: the definition is one that `_parse_evidence` accepts, and a
  line that begins with the prefix of the blocks is a heading of its level.
* `RunnerAssumption`: a manifest names no path twice, what stands in a directory
  are trees, "no such path" is no edition, payloads are neither links nor
  directories, and an empty directory is a directory.

**The queue** (`DispatchQueueProofs`).  `QueueInv` is inductive.  Coherence of the
index is not so by itself: popping the first level is safe only because no level
is empty, and removing the first occurrence of an order removes it from the
level only because levels hold each order once, which follows from their being
sorted by arrival (`FifoLevels`), which in turn needs arrivals to be in the past
(`JoinedInPast`).  Two lemmas about deques, `RemoveIsDeque` and `TailIsRemove`,
make cancellation and pop one case.  From `QueueInv` follow `IndexCoherent`,
`PeekIsBest` and that the queue implements `PriorityLine`.

**The engine** (`DispatchEngineProofs`).  `BookInv` is inductive.  That no queue is
crossed after an order rests depends on what the match left: `TurnIsSpent` says
that an order with hours left after its match crosses nobody, which follows from
the loop's exit on the *best* counterpart (`BestDecides`).  That only live orders
rest depends on the order of the turn not resting (`TurnDoesNotRest`) and being
active (`TurnIsActive`); that none is lost on every other active order resting
(`OthersRest`).  From it follow `RestingIsLive`, `NeverCrossed`, `ActiveIsResting`
and `TerminalIsFinal`; `TypeOK`, with the bound on assigned hours, and
`IdentifiersArePermanent` are proved before it.

Four more invariants stand on `BookInv`.  `DealInv` gives `CapsRespected` and
`NoTradeThrough`: what is dealt suits both caps and stays so because identifiers
are permanent (`DealsAreFair`), and no counterpart is better than the best
(`BestIsNoWorse`).  `TellInv` gives `EventsTellState`: in the middle of a turn each
order is told, or it is the turn's own, or it waits in the assignments still to be
announced, which say what happened to it (`FillsAreTrue`).  `MarkInv` gives
`MarkedAtLastRate`: every asset is marked but the one at which the turn has dealt,
and when that is marked the log ends with the rate it is marked at
(`TurnIsLogged`).  `LotInv` gives `WholeLots`: only what passed the boundary is
active (`ActiveIsWhole`), and sums and differences of whole lots are whole
(`WholeMultiples`).

**The exchange** (`DispatchEngineProofs`).  Every step of the engine is a step of
`WorkOrderExchange` or unseen by clients.  Besides `BookInv` this takes
`TurnIsFresh`: nothing is assigned before the match, so an order that is stood
down has hours left.

**The accounts** (`DispatchEngineProofs`).  `LogAccountsForAll` and `CompleteAllOrNothing`
equate hours with sums over sets of assignments or orders, so both rest on
`SumTheorems`.  `AccountInv` says it of what is executed, the assignments that the
running turn has not published included, which makes publishing one a step that
changes nothing (`MovedOn`); one more assignment is then a sum that grows at
one number (`SumInsert`), and balances cancel out because it gives to one
organization what it takes from another (`SumUpdate` twice).  For COMPLETE orders
`TurnIsCovered` says that, from the check to the end of the match, what the
counterparts within the cap have left is at least what the order still needs: each
round takes the same hours from both sides.  So the match cannot run dry, and
outside its turn a COMPLETE order has all or nothing (`OthersAllOrNothing`).

**Sums** (`SumTheorems`).  `SumFunctionOnSet` of the community modules is a recursion
over subsets.  That it has a solution, and that it does not depend on the order in
which elements are taken, is shown by looking at a smallest subset for which it
would fail: every nonempty collection of subsets of a finite set has one with
the least cardinality (`SmallestSet`, from the well-foundedness of the natural
numbers), which gives `SubsetInduction` in a form that needs no operator as a
parameter.  On `SumEquation` stand the facts that the other modules cite: an
element more or less, another value at one place, two functions added or
scaled, disjoint unions, sequences that grow.

**The keys** (`DispatchServiceProofs`).  With the types (`KeyTypeOK`: the clock and every
expiry are numbers, or the key has no end) each of the steps keeps what is
refused refused.  That a known key is never stored anew is what it rests on, and
that the clock only grows.

**The service** (`DispatchServiceProofs`).  `ServiceInv` is inductive.
`NothingLostSilently` speaks of answers, so it needs what holds before there is
one: an order is handled by one request at most and its client is not answered
meanwhile (`HandledOnce`), and of its rows none is there before they are stored
(`WrittenWhole`).  Where connections are not shared, what a session has flushed
is its own assignments until it commits or ends (`FlushedWhole`); over a shared one
that is false, which is the condition of the property.  Ownership needs the books to hold exactly what came over the
API (`BooksAreOwn`), and `RestingIsCancellable` follows from it, since an order
never begins to rest but in its own turn (`AcceptOpens`).  `DashboardIsExact` has
an invariant on top, `TrajectoriesAreExact`: a trajectory is increasing, contains
only turns that touched the organization, and lacks only those older than all it
holds, which one more turn keeps because it is the latest.  That the active
orders of all organizations add up is a sum over disjoint sets (`SumOfParts`).

**The lifespan** (`RuntimeProofs`).  `LifeInv` is inductive.  That nothing but what
is broken survives needs that no resource is passed over: during the teardown each
one that runs is still to be released, failed or interrupted (`UpIsAccounted`),
which begins with `StepsForAll`, the teardown having a step for everything
acquired, and is kept by `StepAccounts`, a step affecting only itself.  What is
raised in the end follows from the first interruption being the one that is kept
(`FirstIsKept`).

**The adapter, the limiter, the policies** (`RuntimeProofs`).  `DisconnectHolds` is
almost inductive; `AdapterInv` adds what the flags say at each await.
`RateIsKept` is not: a grant now is bounded only if what is in the bucket plus what
was granted since any earlier moment is (`SpareIsKept`), which holds because the
clock of the last refill never runs ahead.  `AlarmsOncePerEvent` follows from
two facts: a buffer that is trimmed from the front still ends as the whole stream
does (`BufferInv`, `TrimmedEnd`), and a verdict is about that end only
(`VerdictOfTheEnd`), so each evaluation of the buffer says what the whole stream
shows (`JudgedAsShown`); and what a policy remembers is what its log says last
(`State`, `EvaluationKeeps`).

**The store** (`RuntimeProofs`).  `HistoryIsExact` compares the tables with what was
given, and asks of pages and bars, which are sorted and folded, that they are right
about the tables.  So the proof has two halves.

* What the tables hold.  `StoreInv` is inductive: the tables are what the calls of
  their kind were given one after the other, and each row of the equipment is the
  last that was defined since the last clearing (`IsLastOf`).  It has one lemma per
  operation; a refused batch of assignments changes neither side.  Both sides of the
  equation are folds, and an induction over a sequence is beyond the provers: the
  library's theorems need an operator as a parameter.  A fold is a sum in disguise,
  though, a recursion over the subsets of 1..n, so `SumTheorems` shows that this
  recursion has a solution (`TakingsExist`) and only one (`TakingsAgree`) for steps
  that stay in a set, and hence that a fold over n + 1 elements is one step more than
  over n (`NextOutcome`); `EveryOutcome` and `UpTo` then are induction over sequences,
  for a property given as a set.
* What is read from them, for tables of any rows.  A finite set that is strictly
  ordered can be arranged (`ArrangementExists`, by taking away its last element), and
  what is chosen has every element once (`ArrangedRight`).  Pages are such
  arrangements, so a shorter one begins a longer one (`NewestBegins`), and the rows of
  one instant stand together in the order that a query for the instant lists
  them (`InstantIsPrefix`, where the ceiling may cut off either page).  The bars are
  those of the readings absorbed so far, which are the first in order of time
  (`BarsRight`); that the last to be absorbed is none the earlier is what makes it
  the close (`AbsorbedDescribes`), so the order of arrival does not matter.  That
  bars compare floats changes nothing in this, as they are numbers too.  The
  average lies between the least reading and the greatest (`AverageIsWithin`), as no
  count of samples is negative; rounding keeps the order of what it rounds
  (`HalfEvenOrder`), so in whole millionths it lies between theirs.  What the store
  finds the scan finds (`SearchesDo`), because LIKE takes fewer letters as equal.

**The legacy reset, the evidence** (`ScenarioRunnerProofs`).  `LegacyInv`: while a reset
restores, the targets before the one it stands at are restored (`RestoredSoFar`),
and backups are dropped only when all of them are (`BackupsGoLast`), so a reset that
is cut off anywhere may begin again.  `EvidenceIsDistinct` is a fact about every
sequence of lines: bodies of blocks do not overlap (`BodiesApart`), so their words
add up (`WordsOfBodies`) and each has its own field.

**The workloads** (`OperationsProofs`).  `CostIsMarkToMarket` is not inductive, since
nothing in it binds the average.  `LedgerInv` says that over one denominator D the
average is A / D, the realised cost is A * net - paid * D, what the hours are
worth at the average less what was paid for them, and the unrealised one (last * D
- A) * net (`Books`, `Worth`): every trade that joins, reduces, closes or flips keeps
this (`TradeIsBooked`), and the sum of both costs no longer mentions A.  The
fractions are in lowest terms, so the proof also says that the two are equal as
the model writes them: a whole number has one such form (`LowestOfWhole`).

**Combined units** (`OperationsProofs`).  `CombiningLosesNothing` says of every state
what is true of units with any workloads, budgets, models and histories
(`UnitsAreExact`), so `UnitInv` needs little besides `LedgerInv`: that each
organization has the parts of a unit.  The theorem is about `UnitSpec`, where trading
and what the units record interleave; the run exercises them one at a time.  Its
parts:

* Equality of money is equality of fractions as written.  There is one fraction with
  the least denominator for each worth (`ReducedUnique`), lowest terms have it
  (`LowestIsReduced`), so two sums are equal if their numerators are over one
  denominator (`EqualSums`), and that is arithmetic of integers.
* What netting opposite workloads takes from the exposure goes to the budget
  (`NettedExposure`), so exposures add up though the workload's does not; subtracting
  is adding the unit with its signs turned, in which average and mark stay
  (`ScaledMoney`), so it undoes the sum (`MoneyUndone`) whichever mark is the latest.
* A utilization is a fold over the registered models.  Over a common denominator
  the fold's recursive function has an explicit solution, the sum of the numerators
  so far (`AggregateIsSum`), and with it the utilization of two units, which may
  share models, is the sum of both (`AggregatesAdd`).
* The overrun, a maximum of cumulated sums less their running minimum, is the
  greatest rise from one day to a later one (`OverrunIsGreatest`): a rise of the sum
  is one of each part on the same days (`OverrunAdds`), and equal histories have
  equal overruns.
* The average of a combination is that of the side with more hours, or a weighted
  mean, which lies between (`MeanBetween`).
* `NetsCancel`: the hours of three organizations that are all there are cancel out,
  as every assignment takes from one what it gives to another.

**The scenario runner** (`ScenarioRunnerProofs`).  `RunnerInv` is inductive.  Its
part about files, `FilesInv`, is what a crash at any step may leave: nothing is
touched of a scenario that is not recorded (`Elsewhere`), and of the recorded one
the own directory is in the backup, in place, or has gone whole into an archive
(`Recorded`).  It is kept because a process knows more where it stands than the
record says (`PointInv`: by the time payloads are written the directory is in the
backup and sealed, by the time the record goes it is back) and because the lock
keeps everyone else idle meanwhile (`Locked`).  `RestoredExactly`, `HomeKept` and
`RecordLoads` follow.  `ResumeIsExact` needs that the files each archive holds are
the whole tree but for payloads of its edition (`ArchivesComplete`) and that the edition does
not move under a command (`ResumeInv`).  `AttemptKept` has a second invariant on
top, `AttemptsInv`: a roll-back meets only attempts that were never made active,
and a reset that has come to its restoring step has archived the tree, or found
in it nothing but what start put there (`NothingWorthKeeping`).  That what the
commands report is the same (`ReportsAgreeAlways`) is a comparison of three ways to
read a tree: `diff` and the test of `reset` see the same differences, and `status`
those of them that are no empty directory.

**The bus** (`EventBusProofs`).  `DeliveryInv` is inductive.  That nothing is skipped
is an equation between what the history says is due and what is delivered,
queued or lost; it is kept by a publication because the new number is greater
than all that are queued, by a registration because the identifier was nobody's,
and by a departure because an identifier is registered for a subscription that
bears it (`RegistryInv`).  On top of it `TasksInv` gives `ServedWhileRunning`, which
needs that stop() leaves no task behind for start() to mistake for a living one.
Two theorems have a condition, and a run that shows the property to fail without
it: `NoOrphanTask` holds where no stream bears an identifier of a callback, since
then no closing stream takes a callback's registration away (`ReachInv`), and
`DrainedWhenStopped` where callbacks do not publish while stop() waits
(`DrainInv`).

**Only model-checked.**  Every safety property that a passing run checks is proved.
What stays with TLC is, being out of the provers' reach, everything under fairness
(`TurnsEnd`, `QueuedIsDelivered`, `StopEnds`, `DisconnectEnds`).

## Plan

1. *The core* (done): queue, engine, ledger, bus, with the queue's and the
   engine's invariants and refinements proved.
2. *Around the engine* (done): service with keys, store and MCP tools, lifespan,
   adapter, store and transform, limiter, policies, analytics; the keys, the
   service and the lifespan proved.
3. *The scenario runner* (done): lifecycle, legacy reset, evidence; all of the
   lifecycle's properties proved.
4. *More theorems* (done): the bus; what the engine deals, tells and marks; sums over
   finite sets, and with them the engine's accounts, the dashboards, the limiter, the
   evidence, the workloads and the units combined of them; the adapter, the policies
   and the legacy reset; folds over sequences and orders of finite sets, and with
   them the store, its pages and the bars of its readings.
5. *Left*: request signing and the metrics, once the application wires them in; the
   interleaving of start() with a pending stop() of the bus.

### Not modelled

* **Pure statistics.**  Backlog risk, sensitivities, moving averages and the
  cross-asset score are functions of floating-point numbers that TLC cannot
  usefully enumerate.  The cache of a capacity metric goes by the hash of its
  parameters; that two parameter sets have one hash is not considered.
* **What the application does not wire.**  Retry, metrics and request signing are
  library code without a caller in the application.
* **Translation.**  Routes and schemas turn requests into calls and keep no state;
  serialisation, wording, sanitising and pagination headers are left out.
* **Of the runner:** `list`, `attempts`, `resync` and `fallback` read the record and
  the manifests and print; they change nothing.
* **Other scripts.**  The demo, doctor, journey, release and data-generating
  scripts and `security_check.py` run once from top to bottom.
* **Environment.**  SQL, HTTP and cryptography are taken as they are documented.
  The dashboard is a static page, and the workshop's exercises are text.
