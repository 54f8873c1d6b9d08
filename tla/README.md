# AGVScheduling: TLA+ models, checks and proofs

AGVScheduling is the scheduling service of a fleet of automated guided vehicles (AGVs).
It receives maps, vehicle statuses, scheduling requests and trail requests from a
message broker, assigns tasks to vehicles, plans paths and hands each vehicle a window of
map nodes that no other vehicle may enter. This directory holds TLA+ models of its
stateful parts, their model-checking runs, and machine-checked proofs. The code under
`src/` is the reference: comments in the modules name the functions they model, and
`PROJECT.json` ("map") gives the lines of each definition.

## 1. Inventory

| Part | State | Operations | Hard behaviour |
|---|---|---|---|
| `NodeReservationTable` (one per map) | holds per node in 64 locked shards; conflict groups of the map | tryReserve, release, releaseAllByOwner(Except, ExceptSet), cleanupExpired, findBlockingHold, snapshots, configureDistanceConflict | a check and a write over several shards, expiry against a clock read early, lock order, reload of the groups |
| `RobotDataRepository` (one per map) | statuses with their source, node history, plans, runtime state (targets, reserved window), last sent route, dynamic plans | updateStatus, removeDevice, updatePlan, advanceTargets, updateRuntimeState, ... | every call is atomic, but its users read, compute for a long time and write back |
| `MultiMapManager` | map contexts, map of each vehicle | getOrCreateContext, moveDeviceToContext, singleReadyContext | the register is changed first, caches and holds of the old map later |
| Scheduling dispatch (main receive loop, `SchedulingTaskQueue`, busy flag) | one-place mailbox per map, queue of jobs, threads | receive and split, replace, refuse, serve | lost hand-over between receiver and worker, two workers on one map, replies |
| `processSchedulingMessage` | none of its own | caches statuses, filters, allocates, publishes, commits plans | runs for long under a shared map lock; commits while statuses come |
| `compute_dynamic_plan_to_next_target`, replan ticker, trail requests | works on a copy of the runtime state | plan to the next target, reserve, release, write back | stale copies, versions, committed prefix, partial reservation |
| Status handler `handle_status_infos(_multimap)` | none of its own | store, advance targets, trim the window, refresh holds | reads the window before and writes it after other threads' steps |
| Map reload `reload_context_map_payload` | map, A*, epoch, groups | build aside, swap, clear runtime state | three swaps that are not one |
| `ShortestPathUpdater` (one per scheduling request) | table of travel times, queue of pairs, worker threads | query, batch query, enqueue, search, shut down | lost wakeups, two searches writing one table, a stop that races a sleep |
| Allocation: reachability filter, cost matrix, Greedy, Posta, repair, sanitising, forced tasks | one global sparse cost matrix | assign tasks to vehicles | a task taken out of one chain and put into another by nine stages, two renumberings, infinite costs |
| Path planning: `AStarPathFinder`, `StaticPathTable` | per call | search over pairs of nodes, several paths with penalties | a heuristic that is no lower bound, closed steps, ties |
| Other planners: helper, priority, global, robust | per call | search, conflict resolution | the priority and robust planners are compiled and never called |
| Publishers, parser, connection, streamers, senders, simulators | buffers | format and send | broker failures |

Parts share memory, not messages: the receiver thread, the scheduling workers, the replan
threads and the publishers call the same repository and reservation table. A map's data
is read under a shared lock and replaced under the exclusive one.

What makes them correct: two vehicles never hold conflicting nodes; a live hold goes only
by its owner; no deadlock; the cache holds the newest status; a vehicle lives on one map;
no request is lost, answered twice or left waiting; a window already sent is not taken
back; a vehicle is only sent to nodes it holds; every pair asked for gets a travel time or
a true verdict; a route runs along edges and costs what it says; each task of a request is
answered, driven once and only by a vehicle that may.

## 2. Modules

| Module | Models | Depends on |
|---|---|---|
| `DistanceConflict` | conflict groups built with a grid of cells | |
| `NodeReservationTable` | the table, its locks and calls, at the granularity of one critical section or one decision under locks | `DistanceConflict` |
| `LeaseRegistry` | abstract specification of the table: one grant or drop per step | `DistanceConflict` |
| `RobotStatus` | status caches, arbitration, vehicle register, request snapshots | |
| `SchedulingDispatch` | receiver, mailboxes, pool, busy flags, map reload | |
| `ReservedWindow` | one vehicle's targets, reserved window, last sent route, holds and trail under the status handler, the planner, plan commits and trail answers | |
| `ShortestPathUpdater` | client, queue, table and worker threads of the travel times, from creation to destruction | |
| `TravelTime` | the two searches behind the table, as functions of the map | |
| `UpdaterOnMap` | the updater with those searches, and what the table must mean | both |
| `RouteSearch` | A* of vehicle routes and of the static table, step by step | |
| `TaskAllocation` | a scheduling request from the reachability filter to the published chains | |
| `*_proofs` | theorems and proofs about the module of that name | TLAPS |
| `NumberSets` | greatest and least numbers of a set, and induction over sets of numbers, for the proofs | TLAPS |
| `MC*` | small instances for TLC | |

### NodeReservationTable

`entries` is the content of all shards, `index` the map whose groups are in
`distanceConflictIndex_`. A thread enters the table with the arguments of a call and the
time read at its start (`Enter`), then goes through the code: `ReadGroup`
(conflictNodeIdsFor under the index lock), `LockShard` for each shard in ascending order,
`Purge`, `Refuse` or `Pass`, `Write`. These are separate steps on purpose: that they act
as one is what the locks are for, and what `ImplementsRegistry` says. Releases and sweeps
visit one shard per step (`EraseNode`, `SweepShard`). `ConfigureDistanceConflict` moves
new groups in at any time and looks at no hold: after it, two vehicles may hold nodes the
new map makes exclusive, so exclusion is checked and proved for one map and for grants of
one map. A hold also records the map its group was read from (`rule`),
which the code does not store; the properties need it.

### RobotStatus

`Move`, `Forget`, `StreamUpdate` and `Steer` are the receiver's steps for one reported
vehicle: `moveDeviceToContext` (register first, old cache later), `updateStatus`, and the
rest of the handler. `SplitSnapshot` sorts a snapshot of a scheduling request by map when
it arrives, `CacheSnapshot` stores it when a worker comes to it. `freshest` is a history
variable for the properties. A message is taken to name a vehicle once: the code moves all
vehicles a message names before it updates the caches by map
(`external_receiver.cpp:8093-8130`), which matters only for a vehicle named twice, on two maps.

Two things the steps show and no property of the list denies. A late stream message of the
map a vehicle has left moves it back: `moveDeviceToContext` asks no time stamp and
`removeDevice` has erased the one it would lose against, although
`doc/STATUS_ARBITRATION.md:48` says a vehicle's status never goes back. And `Steer`
advances targets and trims the window by a message `updateStatus` has refused.

### SchedulingDispatch

One step per critical section and per access to shared state: `Put`/`PutBusy` (mailbox
under its lock), `Submit`, `Notify`, `Refuse` for the receiver; `TakeJob`, `TakePart`/`EndJob`,
`SetBusy`, `Call`, `LockMap`, `Publish`/`GiveUp`/`Distrust`, `ClearBusy` for a worker;
`LoadMap` under the map's exclusive lock. The worker binds `*ctx->mapInfoPtr` in `Call`,
before `LockMap`: a reload in between leaves it with the map that was destroyed.

A worker that finds no job keeps the queue's mutex until it sleeps (`Doze`, `Sleep`), and
`submit` notifies after it has left the mutex (`Notify`, which wakes one sleeper or nobody).
`WakeUp` is a wakeup for no reason; it is left out while there is no job, when the worker
would only test again and sleep.

### ReservedWindow

`plan`, `rt` and `lastSent` are the vehicle's entries in `plans_`, `runtime_` and
`trailProgress_`; `holds` and `blocked` are what the reservation table means for one
vehicle (its own holds, and the nodes that holds of others keep from it); `trail` is the
vehicle. A thread's `pc` tells which call of the repository or the table comes next; what
it read stays in its local copy until it writes it back, as in the code. Status handler:
`StatusArrives` to `Renew`. Planner: `Copy` to `CommitWindow`, entered from the ticker
(`ReplanBegin`), a plan commit (`CommitBegin`) or an around-path request (`AroundBegin`).
Trail answers: `TrailBegin` to `Publish`. The search itself is an oracle (`Routes`): any
path that continues the window to keep, or none. `Drive`, `Expire`, `OtherTakes` and
`OtherLeaves` may happen between any two steps.

The code lets go of points already sent in some places, and says so or accepts it:
SUPER, idle and no-target releases (`GiveUp`), an around-path request that starts off the
window, an answer built from the plan while nothing is reserved (`Build`), and a plan
commit whose forgotten last sent route is not restored because the planning that follows
fails (`PlanFails`). In one more place it lets go without saying
so: what was already sent is the beginning of the next route, and the search from its end
knows nothing of it, so on a map with ways back a window may come to a node a second time
(`Reserved`). On 1 -> 2, 2 -> 1, 1 -> 3 the trail can be 1, 2, 1; once the vehicle is at 2,
`DecideTrim` releases node 1 (`external_receiver.cpp:7879`), which lies ahead, and it is
reserved again only some steps later, if no other vehicle has taken it.
(`doc/DETAILED_ISSUES_ANALYSIS.md:199-205` says the nodes from the current one on are kept.)
The history variable `upset` records that one of these five happened; `TrailHeld` and
`NeverRetracted` say that nothing else loses a point. The first four were found necessary by
the model checker, the fifth by the proof.

A planner that copied the runtime state before a status arrived writes back a target the
status handler has popped meanwhile (`WriteBack`): targets may return, but always belong
to the current plan (`TargetsOfPlan`).

Versions are counted, so two plans always differ in version; the code takes the clock in
milliseconds.

### ShortestPathUpdater, TravelTime, UpdaterOnMap

`matrix`, `queue` and `shouldExit` are the members of the class; `client` is the thread of
the scheduling request, one `pc` value per critical section of `queryByNodeId` and
`TravelSecondsWithWait`. A worker holds the queue's mutex while it looks (`Take`, `Exit`,
`Doze`) and until it sleeps (`Sleep`); the flag is read without a mutex and may be set in
between. `WakeUp` is the wakeup for no reason that a condition variable permits.
`Destroy`, `NotifyAll` and `Join` are the destructor. A client may come to it directly
(`Unwind`: an exception, or the updaters that the filter and an emergency make for
themselves), or by `RequestExit` and `GetActiveWorkers`. The loop around the latter waits
up to two seconds for a number that is never counted down; what it does achieve is that the
queue's mutex is taken after the flag is set, so that every worker that had not seen the
flag sleeps before the destructor notifies: `RequestedExitReturns` holds, while
`DestructorReturns` does not.

`TravelTime` gives the outcomes of `batchQueryByNodeId` and `shortestPathFinder`: sets,
because the second orders its heap by keys that change while entries lie in it.
`UpdaterOnMap` says what a table entry must mean.
Always called with one target, the batch leaves the queue to pairs the caller does not
wait for. The time from a node to itself is zero, which no reader takes for known: asked
for with waiting, it is polled until the timeout (`WaitsOnlyAtHome` says that this is the
only case). `probe_shortest_path_cost` is never called.

### RouteSearch

A state of the search is a pair of nodes (previous and current), so that turns have a
price. `open` holds heap entries with the cost they were pushed with, stale ones too;
which of equal estimates is popped is free. A request of kind `find` is
`AStarPathFinder::findPath` with banned nodes, barred edges and congested nodes; of kind
`table` it is `StaticPathTable::computeTopKPaths`, which repeats the search with a penalty
on the edges already used and keeps the paths that differ. The heuristic adds both axes,
more than a diagonal edge is long: cheapest routes are only claimed where edges run along
the axes (`CheapestOnGrid`), and the table's path labelled the best
(`StaticPathTable.h:47`) may be dearer than another with a diagonal.

### TaskAllocation

One request is followed through `Receive` (availability policy, order, batch, reachability
filter), `FillCosts`, `GreedyRound` to `GreedyRepair`, `FillMissing`, `Search`,
`PostaRepair` and `Publish` (remapping, sanitising, forced tasks, the last check). The
numbering changes on the way, and every chain is in the numbering of its stage. Places lie
on a line and travel takes the distance, in `Region`s that are not connected; the updater
knows a time or denies it (at most `MaxDenied` denials, any pairs). `Inf` and `NaN` are
numbers out of range with the arithmetic the repair meets; `RequestAssumption` keeps legs,
and the sum of a batch of them, below `Inf`, as they are in a double. Posta's random search with its
objective is any sequence of its moves: `Search` picks any code with its tasks. Service
times, age bonuses, congestion (a flag), device lists, batteries and priorities are kept
since `isTaskValid` and the prices read them.

In an emergency without an idle vehicle, first legs of vehicles at work start at the node the
vehicle is heading for (`Start`; the next destination it reports, or the node nearest to its
coordinates), while the filter, the sanitising and the last check keep to the node it is at. The time
offset that goes with the override is zero on the only branch that can be taken
(`isMoving` and `isWorking` are the same test). The tasks such vehicles are asked to give up
(`stealAllQueuedTasks`) are none: vehicles are built from their status and nothing ever
fills their queues.

What the code does that a reader may not expect: tasks beyond the batch are dropped
without an answer; a priority of zero, the default, never makes a task valid; an endurance
load that is not a number disables the check; forced tasks are put in by reachability alone, and so is any
task of a message in which a first or last subtask names no node, or that the sanitising
takes off a vehicle whose reported destination cannot be reached from where it is (both
excluded in `EligibleOnly`).

The repair can leave a task in a chain twice. It lists the tasks beyond a vehicle's
endurance, leaves them in the chain, and takes them out only when they go to another
vehicle. Where endurance is limited, an age bonus that makes a price negative is enough for
such a task to be inserted again. Where it is not, the same comes of a leg the sparse
matrix lacks. If the vehicle cannot start with a task that stood behind others (the updater
denied that leg, the only one to it from where the vehicle is), the task leaves the chain,
and its neighbours are joined by a leg nobody asked for. Everything behind that leg is at an infinite time and
listed; to insert one of the tasks between those two costs minus infinity, and the check
against endurance then compares a NaN. In `AllocationAnswer` the chain 3, 4, 2, 1 becomes
3, 1, 2, 1, and the answer lists tasks 2 and 4 as unallocated although 2 is in the chain.
`DrivenOnce` says when a task is never driven twice: no endurance is limited,
and a vehicle can start with each task it can drive to.

## 3. Runs

| Run | Shows | Bounds |
|---|---|---|
| `ReservationWriters` | exclusion, no circular wait, live holds kept | 3 nodes in a chain (overlapping groups on two shards, listed in different orders), 2 AGVs, 2 threads, times to live none and 1, clock to 1 |
| `ReservationReaders` | grants of one map never conflict, answers are current, refinement of `LeaseRegistry` | 2 nodes, 2 maps that differ in the conflict, 2 threads, clock to 1 |
| `StatusArbitration` | the cache holds the newest report, stream first; node history; stream statuses live at home | 1 vehicle, 2 maps, 2 nodes, times none, 1, 2 in two units, 1 snapshot on its way |
| `DispatchSettles` | one server per map, nothing lost, one answer, every part settled | 3 requests, 2 maps, 2 workers, each map loaded at most once |
| `WindowSerial` | points sent stay held and are never taken back while statuses, requests, replans and commits take turns | 3 nodes with two ways to the goal and a way back, two target lists, 2 plans, windows of 3 points |
| `WindowShared` | targets belong to the current plan although all threads overlap | 2 nodes, 2 plans; the receiver only handles statuses |
| `TrailUnreserved` (violation) | a refused point is sent | 2 nodes, 1 plan, threads overlap |
| `PathTable` | no query is lost, the queue is drained at the end, waiting only at home, verdicts are true, times are those of drivable routes, every queued pair is settled, a client that asks for the exit gets out | 6 points with a turn that is not allowed, a one-way diagonal, a dead end and a closed point; 5 pairs, 3 questions, 2 workers |
| `UpdaterStop` (violation) | without `requestExit`, the destructor waits for ever for a worker that missed the notification | the same map, 1 question |
| `PathSearch` | routes are routes, their distance is their cost, a failure is true, cheapest on a grid | every subset of six optional links of a 2 by 3 grid, with and without a closed node; 2 maps with diagonals; banned, barred, congested |
| `Allocation` | every task answered, driven once (under the premise of `DrivenOnce`), by an eligible vehicle, over legs that exist | 6 fleets of 1 or 2 vehicles (some at work, one of them heading for an island), any 3 of 9 tasks, 5 variants of the limits, 1 denied pair |
| `AllocationAnswer` (violation) | a task is twice in a chain, and one on the vehicle is listed as unallocated | 1 vehicle, 4 tasks, no limits, the greedy allocator, 1 denied pair |

Two threads suffice for the table's races because every conflict is between two calls; the
chain of three nodes is the smallest map whose conflict relation is not transitive. One
vehicle suffices for statuses since no step reads another vehicle's. Three requests let
one wait, one be worked on and one arrive. `MsPerSec`, `MsBoundary` and `MaxSec` are
scaled down; the assumption that a stamp in either unit can be told apart is the code's
own and is the only thing used about them.

Three nodes let a route be extended, replaced and shortened; two plans let one be replaced
while the other is driven. In `WindowSerial` a thread begins when the others are idle
(`Serial`), the environment still interleaves with every step. The code has no lock that
makes them take turns: the run shows that each procedure is right by itself.
`WindowShared` lets them overlap, on two nodes. So does `TrailUnreserved`: the state its trace
needs, a new plan with no window yet, lies between a commit's `UpdatePlan` and its planning.

One client suffices for the updater since the code has one per request; two workers let
one sleep while the other takes a pair, and three questions let one find what another
queued. The route search has one grid with every way of being connected, and two maps
chosen because the heuristic misleads there: one with two ways that meet on a diagonal,
one where the cheap way first leads away. Three tasks let a chain be cut, repaired in the
middle and refilled; two vehicles let a task be moved.

Deadlock is checked in the runs of the table, of statuses and of the window. The updater, the
search and the allocation end, so their runs do not check it. The dispatch may stop when
all requests have arrived and are settled, so its runs do not check it and check
`EverySettled` instead.

Fairness (`FairSpec`): the receiver's next step and each worker's are weakly fair. Threads
are scheduled by the system, and a scheduler's computation ends or throws. That a sleeping
worker is woken is a step of the receiver, not an assumption. Arrival of messages and of maps is not assumed.
For the updater the client's running call, the destructor and each worker's step are
weakly fair: a search over a finite map ends. That a question is asked, that the client
leaves, or that a sleeping worker wakes up for no reason is not assumed.

The violations are disagreements of the code with its documentation; `PROJECT.json`
("findings") quotes the lines.

## 4. Proofs

All theorems hold for every value of the constants under the modules' named assumptions.

* `NodeReservationTable_proofs`: the conflict relation is symmetric, and the nine cells hold
  every node within the threshold (`GridFindsAll`), for integer coordinates. The inductive invariant `IInv` is `TypeOK`, what each
  program counter implies about the call (`PcInv`), that two threads hold one shard only
  if both share it (`LockInv`), that a call began in the past (`BeganInv`), that a call
  that passed its check still finds no other owner in its group (`CheckedInv`), that a
  query's collected answer stays true (`AnswerIsCurrent`) and that grants of one map do
  not conflict (`GrantsExclusive`). Exclusion alone is not inductive: the write relies on
  the check made steps before, and the check stays true only because of the locks. From
  `IInv` follow the action property `LiveHoldsKept`, exclusion on one map, and that every
  step of the table is a step of `LeaseRegistry` or a stutter.
* `UpdaterOnMap_proofs`, first section: the updater for any number of workers, any map and any
  results of the searches; no assumption about either is used up to `NoWait`. The invariant adds that rows exist for the pair in hand, the pairs queued and
  the pairs searched for, and that a client about to read after its batch finds the pair
  settled. `QueueIsServed` is inductive with it: a worker can only doze over an empty
  queue and keeps the mutex until it sleeps, so a pair comes into the queue either before
  it looks or when it can be notified. It is what the destructor lacks for `shouldExit`.
* `UpdaterOnMap_proofs`, the rest: what the table means on any map. `SearchesAssumption` says that the
  updater's nodes, cheap test and results are those of `TravelTime`; nothing else is assumed
  of them. `TableInv` is the invariant: a row holds a time only if a route takes it and a
  verdict only if it is true (`Right`), and a client about to refuse a pair has seen the
  test fail. What the searches return comes from invariants of their steps. `Timed`, kept
  by both, says that every time a search has is borne out by a simple route with a clock
  (`Way`, `Clock`) that passes no point earlier than that point's own time. So a point that
  is improved cannot lie on the route that improves it, and the longer route is simple as
  well. It need not be the fastest: each point keeps one time and one direction, and a later
  arrival that would need no turn there is dropped. For the verdicts,
  `BatchDone` and `SearchDone` say that each point with a time is done or still queued, and
  that every point that can be gone on to from a done one has a time; so when nothing is
  queued, a route without a forbidden turn has been followed to its end (`AlongWay`). That
  nothing is queued after `Cardinality(Link) + 2` steps needs a measure: an entry of the
  queue is used up, or the edges out of a point that was not done before (`Left`); in A* a
  point is closed at each step. `ConnectedRun` and its like turn the recursive functions of
  `TravelTime` into facts about each step.
* `RobotStatus_proofs`: `IInv` relates the cached status to the best offer made since the
  cache last forgot the vehicle; the lemma `StampIsTime` says that both units normalise to
  the same second.

* `SchedulingDispatch_proofs`: for any number of requests, maps and workers. `IInv` is
  `TypeOK`, that receiver, queue and pool hold at most one server of a map and exactly one
  if the map is marked (`ServeInv`), and that a busy flag belongs to a worker past the step
  that sets it (`BusyInv`). `OneServerPerMap` counts the servers, the invariant says the
  same in predicates that a step can change one at a time. `PartInv` says where each part
  of a request is (ahead of the receiver, in a mailbox, in the hands of the receiver or of
  one worker, answered, or given up without a word), that these exclude each other, and
  that a mailbox in use is marked as served; `NothingLost` counts the places, which is why
  it needs the cardinality of a set known to have exactly one element.
* `NoCircularWait` (in `NodeReservationTable_proofs`): `OrderInv` says that every shard a
  call still has to lock lies above all it holds, as `LockShard` takes the least. The call
  that holds the greatest shard of all, or any call if no shard is held, waits for nobody.
* `RouteSearch_proofs`: for any map, request, coordinates and penalties. `Shape` fits
  scores, parents, closed and open steps together; `SearchInv` says that the score of a
  step is that of its parent and the cost of going on (this holds because parents are
  closed, and closed steps are not improved), that a step not closed is open with its best
  score, and that what can be reached from a closed step has been found; `TraceInv` says
  that going back by parents ends at the start, so `PathTo` is defined. From these follow
  that a route is a route, that its distance is its cost (`CostTable` is the recursive
  function of `RouteCost`) and that a failure is true: the found nodes would contain every
  node of a route. `GridInv` is the classical argument of A* with a consistent estimate,
  which `heuristic` is where no edge runs diagonally: no open entry promises less than a
  closed step did, hence no step is dearer than by way of a closed one, and no simple route
  is cheaper than the one found. `LengthAssumption` (edges have whole lengths) makes
  `Length` what it should be; `RouteAssumption` is about types.
* `ReservedWindow_proofs`: for any map, any threads with any duties, overlapping as they
  like; the first two results use neither the bounds of the run nor `Serial`. `TypeInv` adds to `TypeOK` what
  a thread's locals are at each of its places (a planner that has aligned its window has a
  target, for example). `PlansInv` explains `TargetsOfPlan`: a planner's copy of the
  runtime state is at least as new as the plan it was asked to work for and no newer than
  the current one, and if it is as new, its targets are a suffix of those of the current
  plan. A commit passes the version check of `updateRuntimeState` only with such a copy;
  the status handler only pops targets in the critical section.
* `TrailHeld` and `NeverRetracted` (in `ReservedWindow_proofs`) are proved for any map, any
  number of threads and plans, for threads that take turns (`Serial`); vehicle, expiry and
  other vehicles interleave with every step. Neither is inductive: whether a released node
  lies ahead of the vehicle depends on copies read some steps earlier. `TrailInv` compares
  all of them with the `Way`, the reserved window from the node of the cached status on.
  Window and route last sent come to no node twice and go on from that node like the way
  (`Fits`); the trail is a part of the way, which is held without end up to where the trail
  ends (`Covers`); and what the thread in its turn carries fits, each copy from its own step
  on (`OnWay`: what an answer is compared with, what a planner must begin with, what a commit is about
  to write). `NotShared` says that no node is held and blocked at once, so a planner is
  refused only beyond the trail, and the shorter window it commits still covers it. `TrailInv`
  keeps all of this up to `upset`. A window with a node twice breaks `Fits`, and there the
  trail is really lost (section 2): the fifth cause came from a step that could not be proved.
* `TaskAllocation_proofs`: for any fleet, tasks, places, prices and denials, any batch and
  limits, either allocator. One `Invariant` serves all five properties. It says where the
  numbering comes from (`Opened`: jobs and crew are distinct, and are the tasks and vehicles
  the filter and the policy chose), what the matrix holds (`Planning`: legs of tasks a
  vehicle may take, below infinity), that chains hold known legs (`AllKnown`), that no task
  is driven twice under the premise of `DrivenOnce` (`Once`), and that an answer names
  every task (`Concluded`). No property is inductive by itself. That a task is driven by a
  vehicle that may take it, for example, is nowhere tested after the matrix is filled: it
  holds since every leg of a chain is in the matrix. That is lost in the middle of the repair and
  restored by its cleaning, so the proof follows each stage: `Replaced` gives a plan of the
  right type, whatever infinite or undefined sums were compared, and no chain gains a task
  if nothing was misplaced; `Cleaned` makes the legs known again; `Trimmed` keeps a beginning; `FillIdle` makes whatever no
  chain holds spare, which is why tasks earlier stages dropped are not lost. For
  `Once`, the premise makes the repair find nothing to place anew: all tasks can be first,
  and a sum of known legs stays below the limit, for `Search` and `FillMissing` only leave
  known legs. (An empty code is replaced by the tasks in any order, `StartAnywhere`; under the
  premise that happens only when the matrix has no leg at all, which is the other case of
  `Arranged`.) After the repair the numbering changes: renumbering is injective as `work`
  is, and the forced tasks are those `work` does not name. The stages are folds over lists;
  `FoldExists` gives the sequence of intermediate results of a `FoldLeft`, and `FoldRun` an
  invariant's step for it, so that each fold needs a lemma about one step only.
* `NumberSets`: a nonempty set of natural numbers has a least element and a bounded one a
  greatest; a set with zero that is closed under successor holds every number, also for
  the numbers of an interval. The inductions over routes, positions and the steps of a fold
  are by these.

The assumptions on constants are those of the modules: types, `IsFiniteSet` of nodes and
shards, edges of whole length. Each is evaluated in the runs.

Only model-checked:

* What is left of the trail when threads overlap: no property is stated for it. Two threads
  that write back what they read lose points (the hazards in `PROJECT.json` name the lines),
  and separating those losses from others is open.
* What a search or a fold computes beyond the properties above: that `Cheapest` is the best
  slot or that a code decodes to its chains is used where a proof needs it, not stated for
  its own sake.
* `EverySettled`, `EveryPairSettled` and `RequestedExitReturns`: liveness.

## 5. Not modelled

Layout of messages, logging, configuration files and command lines; the broker; the
simulators and senders (stand-ins for other systems); floating point. In the dispatch: the
end of the pool (`SchedulingTaskQueue::stop`), called at exit. In the window: a plan commit
of a vehicle whose node cannot be found (all holds are released and nothing is planned) and
the commits without a path finder; the two other callers of `updatePlan`
(`external_receiver.cpp:2971`, `3036`) have results without tasks; temporary goals, the task status gate, static
release, the first hop change, the committed next node, the clearing of the runtime state
by a reload. In the allocation: the learned (`mlp`) allocator, Posta's objective and random
choices, congestion regions, settings other than the defaults, two schedulers sharing the
global cost matrix (`TaskAllocationUtils.cpp:53`, a data race when two maps are served at
once). The priority, robust and global planners: the first two are compiled and never
called; the third repeats a search `ReservedWindow` takes as an oracle. The file format and
the cache of `StaticPathTable`. The end of the replan ticker: the last job notifies a condition
variable on the ticker's stack (`external_receiver.cpp:9806`), which may have left when it was
stopped, a question of object lifetime.

Of the lines of the repository that count as implementation, nearly half are the vendored
`nlohmann/json.hpp`, some four thousand the headers of RabbitMQ, and three thousand a
command line sender; the main file, `external_receiver.cpp`, is for the most part parsing,
formatting and logging around the steps modelled here. Reason, detail and
update time of a hold are only logged. Snapshots of the table are hints to the planner:
each node is checked again by `tryReserve`.

## 6. Plan

1. (done) reservation table, statuses, dispatch: the shared state everything else uses.
2. (done) `ReservedWindow`: targets, window, last sent route and holds of one vehicle.
   Open: the trail's properties when threads overlap (a larger state space, and known
   losses to separate), temporary goals, a reload that clears the runtime state.
3. (done) `ShortestPathUpdater` with its searches, `RouteSearch`, `TaskAllocation`.
4. (done) proofs of `OneServerPerMap`, `NothingLost`, `AnsweredOnce`, `NoCircularWait`,
   `TargetsOfPlan`, of all that is claimed of `RouteSearch`, and of what the table of travel
   times means (`TimesAreDriven`, `UnreachableIsTrue`).
   Also done: the five properties of `TaskAllocation`, and `TrailHeld` and `NeverRetracted`
   for threads that take turns.
5. Open: several maps, ghost holds of moved vehicles; a violation run for each behaviour
   section 2 describes without one (a reload that leaves holds on nodes that now conflict,
   a status that moves a vehicle back, a refused status that steers, a scheduler with a
   destroyed map, a target that returns).
