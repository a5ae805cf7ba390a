# A TLA+ model of the runner control plane

The repository is a dashboard that owns fleets of self-hosted CI runners: a
*controller* (`src/dashboard/control`) keeps one row per runner in SQLite, a
*reconciler* walks every row toward what it is meant to be, *agents* on the
workers (`src/agent`) build, start, stop and remove the units a runner lives
in, and a *forge* (GitHub or Forgejo) hands those units jobs. What can go wrong
is rarely one function: it is a job that starts between a look and a stop, a
registration whose reply was lost, a crash between two writes, a request that
arrives while a pass is half-way. That is what the modules here are about.

## Files

Components. Each keeps its own variables, `Init`, actions, `Next`, specification
and properties; a module marked *contract* is abstract, and the modules named
with it are shown to implement it.

| module | models |
| --- | --- |
| `RunnerStates` | the state machine of `states.py` and the pure `decide` of `reconciler.py` |
| `RunnerLifecycle` | one runner: the pass that walks it, the executor's calls, requests, crashes, the unit and the forge |
| `FleetCapacity` | one fleet: requests that change its capacity, and the passes that converge on it |
| `RollingTurns` | the turns the runners of a fleet take at being rebuilt and cleared |
| `PassLease` | which process may run a pass |
| `RequestOutcomes` (*contract*), `LimitRequests` | what a repeated request is told; the requests for limits |
| `Placements` | where runners are placed, and with which cores and memory they are built |
| `LoanContract` (*contract*), `FederationLeases` | runners lent to a peer |
| `ResultDelivery` | how the peer learns what became of its request |
| `AgentCalls` | one verb asked of an agent: keys, deadlines, restarts |
| `Heartbeats` | what is known of a worker and of a unit on it, and how old it is |
| `JobHooks` | what a GitHub unit runs before and after each of its jobs |
| `GuardReports`, `CacheReadings` | what the controller believes of the hooks, the storage and the cache of a unit, from the deep passes of its agent; the clears a reading asks for |
| `JobSources`, `JobLedger` | the job events of a runner: from its hook to the outbox; the ledger, signed events and readings of the forge |
| `RunHistory`, `LogHistory` | the rows of the run history: from job events, from logs |
| `Alarms` | what is watched, raised, acknowledged and sent |
| `UnitContract` (*contract*), `LinuxUnit`, `WindowsUnit`, `MacUnit`, `MacPool` | the unit of a runner, in its four makes |
| `DiskContract` (*contract*), `LinuxDisk`, `WindowsDisk` | the disk of a runner, in two makes |
| `Units` | the units and disks together: what the controller relies on of all of them |

Instances for TLC (`*.cfg` give the constants):

| module | composes |
| --- | --- |
| `MCRunnerLifecycle`, `MCFleetCapacity` | one component each |
| `MCRunnerJobs` | `RunnerLifecycle` (through `MCRunnerLifecycle`), `JobHooks`, `GuardReports`, `CacheReadings` |
| `MCWorkers` | `AgentCalls`, `JobSources`, `Heartbeats`, `JobLedger`, `LogHistory`, `Units` |
| `MCControl` | `PassLease`, `RollingTurns`, `LimitRequests`, `FederationLeases`, `ResultDelivery`, `Alarms`, `Placements`, `RunHistory` |
| `MCProgress`, `MCEvents` | those of them that have something that must come to its end, with their fairness |

The parts composed in the last rows share no state here: they meet in rows each
of them abstracts in its own way. A behaviour of the composition is therefore one
of *one* part, which `focus` (in `MCRunnerJobs`, `about`) names in the initial state;
the others stand still.
TLC then visits the sum of their states and not the product, and one run asks
several questions.

Proofs:

| module | proves |
| --- | --- |
| `RunnerLifecycleInvariant`, `RunnerLifecycleTypes`, `RunnerLifecycleProofs` | the inductive invariants of the lifecycle; its types; no step of the controller ends a job, the row moves along its edges only, a serving runner is registered |
| `FleetCapacityProofs` | types, one application per key, no overshoot and no undershoot |
| `PassProofs` | one pass at a time; one runner of a fleet out at a time; a repeated request is one operation; no worker is given more than it has; an alarm is raised once |
| `CallProofs` | one work per key and true answers; what the inventory says is recent; hooks serve their job; what a row keeps of a deep pass is true and as old as it says |
| `EventProofs` | the ledger keeps the last word; a signed result stands; no event is lost; a job read from a log, or told of by worker and forge, has its row |
| `UnitProofs` | all four kinds of unit implement `UnitContract`, both disks `DiskContract` |
| `LoanProofs` | runners are lent as `LoanContract` says; the peer is never ahead of the lease |

`PROJECT.json` holds the components, runs, mutants, the map from definitions to
source lines, findings, hazards and theorems. Run one with
`tlc -config lifecycle_linux.cfg MCRunnerJobs`, a proof with
`tlapm RunnerLifecycleProofs.tla`.

## The system: inventory

| component | state it keeps | operations | hard because | correct when |
| --- | --- | --- | --- | --- |
| **Runner state machine** `control/states.py` | none: fifteen states, thirty edges, verbs and where each is allowed | `allows`, `aborts_a_job`, `next_states` | every other part relies on the table | every write of `actual_state` is an edge; ending work is never allowed where a job may run |
| **Reconciler** `control/reconciler.py` | local variables of a pass; the lease row; everything else is read back from the store | `pass_once`, `_step`, `decide`, the `_do_*` handlers, `_fail`, the sweep of overdue operations | works from a row read earlier; interrupted anywhere; repeats what it does not know was done | no job is ended, removals and requests end, nothing is left behind |
| **Provisioning flow** `control/provision.py` | progress keys of the operation | placement, `create_unit`, `register`, `drain`, `deregister`, `remove`, the rollback and its proofs | calls time out with or without their effect; a registration may complete later | rollback only what is proven safe to roll back; never strand a registration |
| **Runner service** `control/service.py` | none of its own | `act`, `retire`, `create`, `scale`, `plan`, `adopt`, `set_limits` | writes rows while a pass is anywhere | a request is accepted only where the machine allows it, and is carried out |
| **Operations** `control/operations.py` | `operations` rows: verb, status, progress, deadline | `open`, `start`, `progress`, `close`, `overdue` | opened and closed in other transactions than the row that names them | one in flight per runner; idempotency keys; each ends |
| **Runner rows** `store/specs.py` | `runner_specs` with `spec_version` | `update` (compare and swap), `update_observed` (fenced by `observed_at`), `soft_delete` | many writers | no lost update; an observation never overwrites a later change |
| **Forge providers** `dashboard/providers.py` | caches | `job_state`, `drain`, `undrain`, `remove_runner`, `verify_online` | GitHub and Forgejo differ in what they can be told | see the lifecycle |
| **Execution units** `agent/runtimes/` | containers, services, launchd jobs, virtual machines | `create`, `start`, `stop`, `drain`, `cancel_drain`, `rebuild`, `remove` | every verb is several commands, cut off anywhere | what is answered is so; a unit comes up only where it is meant to |
| **Unit storage** `linux_storage.py`, `windows_storage.ps1` | images, manifests, mounts | `ensure`, `reset`, `remove` | cut off between two steps; found changed | only a removal destroys data |
| **Fleet capacity** `service.py`, `_converge_capacity` | `desired_capacity` and the rows | `scale`, `plan`, convergence | converges against requests | as many runners as asked for; no idle work thrown away |
| **Rolling rebuilds** `_recreate_turn`, `_cache_turn`, `_halt_recreates` | operations of siblings | one runner at a time | waits on the siblings' states | one out at a time, and the fleet ends up rebuilt |
| **Pass lease** `reconciler.py` 135-216, `main.py` | a lease row, a lock file | acquire, renew, release | a paused process outlives its lease | one pass at a time, and passes go on |
| **Agent calls** `agent_client.py`, `retry.py`, `agent/server.py` | handles, idempotency keys, abandoned threads | `call`, `call_and_wait` | a call outlives its deadline; the agent forgets and restarts | once; what is told is so |
| **Heartbeats, inventory** `heartbeat.py`, `link.py`, `receiver.py`, `inventory.py` | worker health and observations | measure, send, receive, age, degrade | late and out of order | a silent worker is not trusted, a slow one is not lost |
| **Job hooks** `images/linux/unit/runner`, `agent/hooks/windows` | the disk of the unit | `job_started.py`, `runner_guard.py`, `runner_disk.py`, `cleanup.py` | a hook can be stopped while what it began goes on; numbers of processes are used again | a job keeps its files, is ended for its origin only, refused only when cleaning did not help |
| **Origin guard reports** `origin_guard.py`, `heartbeat.py`, `api_v2.py`, `federation_provision.py` | the last report of an agent, the one in the row | inspect, measure, merge, judge, admit | read in parts, dated at the end, said again with every beat | proven means whole hooks that ran, lately |
| **Cache readings** `heartbeat.py`, `inventory.py`, `reconciler.py`, `cards.py` | storage and cache figures with their dates | probe, merge, queue a clear, invalidate | an old reading comes back after the clear it asked for | one clear per reading; a card shows recent figures |
| **Job events** `job_events.py` (both sides), `job_event_stream.py` | spools, outbox, ledger, cursors | append, stream, acknowledge, pause | restart, replay, two writers | each event once; the job shown is the last one |
| **Forge health** `forge_health.py` | the last word of the forge | routine read, signed events | readings overtaken by events | a reply never overwrites newer evidence |
| **Placement, cpusets** `placement.py`, `cpusets.py` | reservations in the rows | choose a worker, split processors | limits change while a runner is built | never more than there is |
| **Federation** `federation*.py` | leases of lent runners, receipts | lend, confirm, expire, push | two controllers, a forge in between | a runner is lent within the quota and taken back |
| **Alarms** `alarms.py`, `alarm_notify.py` | the book, the outbox | watch, raise, acknowledge, send | three threads and an admin | once, and in the end what the forge shows |
| **History, job notices** `native_history.py`, `history.py`, `job_notify.py` | rows of runs, cursors | project, enrich, say | several sources, out of order | a row per job, with its own result |
| secrets, certificates, the building of images, installers, the HTML dashboard | - | - | - | not modelled: cryptography, build scripts and rendering |

The parts meet in four places: the **rows** (service, sweep, observation and
pass all write them, against `spec_version`), the **operations** (opened by the
service, closed by the pass, re-driven by the sweep), the **agent's verbs**
(calls of the pass that change a unit) and the **forge's records** (written by
the unit that registers, read and deleted by the pass).

## RunnerStates

Tables and operators only. `TRANSITIONS`, `OBSERVED`, `FROM_STATES` are the
tables of `states.py` (with `VERB_EDGES`, `GUARDED` and `WALKS_FROM` folded into
"where a verb may be asked for"); `Decide` is `decide`, whose ordered blocks are
operators that answer `"fall"` where the code falls through to the next block.

## RunnerLifecycle

| variable | stands for |
| --- | --- |
| `spec` | the row: `actual_state`, `desired_state`, whether it has a host and a unit handle, `registration_id` (0: none), whether `last_error` is set, whether it is still listed |
| `op` | the operation `current_operation` names: verb, open, whether it was started, the phases it got done, the progress keys `registration_attempted`, `rollback_held`, and whether its deadline passed |
| `run` | the local variables of the pass at this runner, and `pc`, the next write or call; `fresh` is false once somebody else wrote the row after the pass read it, which is what the comparison on `spec_version` finds |
| `world` | the unit (absent, stopped, running, asked to finish), the registration it holds credentials for, its job, the records alive at the forge, whether the forge gives it no more jobs, whether a registration is still under way unseen, whether its worker is healthy |
| `faults`, `requests` | the two budgets |

One action is one write of the row, one write of the operation or one remote
call, with everything the code does up to the next of them. Between any two the
environment may act: a request is accepted (`Act`, `Retire`), a job starts or
ends, the unit exits, its host reboots, a worker degrades or recovers, a late
registration lands, the deadline passes, the controller crashes (`Crash` forgets
`run` and nothing else).

* `_step` is `ForgetClosed` to `Admit`: the pointer to a closed operation, the
  interrupted removal, the operation that is fulfilled, the second look before a
  cache clear, the decision, the second look at a drained runner, the fence on
  the worker's health and the fence on quiescence.
* The `_do_*` handlers are the actions named after them and the calls and writes
  they make. `provision` and `register` are `Place`, `CreateUnit`,
  `VoidRegistration`, `MintToken`, `Register`, `VerifyOnline`; the rollback is
  `RollbackPreflight`, `RollbackQuiet`, `UndoRecord`, `UndoUnit`; `drain` is
  `CloseGate`, `Sample`, `Hush`, `Prove`.
* `Fail` is `_fail`, `Hold` a rollback held back, `Sweep` the sweeper of an
  overdue creation.

A remote call works, or fails *with or without its effect*. A reading of the
forge is the truth or one of the mistakes a forge makes (`Mistaken`): a list that
could not be read, a runner still shown after its process died, a job not yet
shown or still shown. An agent that does not answer has proven nothing
(`Quiescent`). Each of these costs one of `MaxFaults`.

Abstractions and assumptions:

* a specification of **one runner of its own fleet**: the turns that hold a
  rebuild for the siblings are taken at once, except that a replacement may be
  refused; federation-lent and adopted runners are left out;
* `specs.update` is one compare-and-swap, and a read directly followed by the
  write it is for is one step; opening an operation and pointing the row at it
  is one step of `act` (an operation whose row changed under the request is never
  named by the row: it does nothing to this runner);
* `op` is the operation the row points at; others are never read by the walk;
* an agent's call other than a registration has its effect before it returns.
  A call that outlives its deadline can in the code take effect later
  (`retry.py`): listed as a hazard, for the module over agent calls;
* at most one pass at a time reaches the runner, which is what the lease and the
  lock are for.

### Properties

| property | says | where |
| --- | --- | --- |
| `NeverAbortsAJob` | no step of the controller ends a job | `lifecycle_linux`; **proved** |
| `ClearedAtRest` | a cache is cleared only in a unit that is not up | `lifecycle_forgejo`; **proved** |
| `IInv` | the inductive invariant, `TypeOK` included | `lifecycle_forgejo`; **proved** |
| `OnlyLegalMoves` | the row moves along edges of the machine only, whoever writes it | `lifecycle_linux`; **proved** |
| `NothingLeftBehind` | a runner recorded as gone has no unit and no record | `lifecycle_linux` |
| `RecordIsItsOwn` | a runner recorded as serving names a live registration (`ServesItsRecord`), and the forge never holds two records of one runner (`OneRecord`) | `lifecycle_forgejo`; **proved** but for `OneRecord` at Forgejo |
| `RemovalEnds`, `RequestsEnd` | a removal, a request comes to an end or shows an error | `progress_linux` |

### Runs and bounds

| run | instance | shows |
| --- | --- | --- |
| `lifecycle_linux` | GitHub, a unit that registers from within; any verb, 2 requests, 3 faults, 3 registrations | the safety of a walk under every interleaving of two requests and three faults (and what *Hooks and readings* asks) |
| `lifecycle_forgejo` | Forgejo in a macOS guest, which can register while its listener is down; drained on the worker, drain-first cache policy; 2 requests, 3 faults, 2 registrations | the other drain, records that are not replaced by name, a late registration that reopens the gate of a runner that has stopped |
| `progress_linux` | GitHub, drain-first cache policy; 1 request of any verb but restart, 2 faults, under fairness | removals and requests end |
| `claim_picked_up` | 2 requests, no fault | what a comment says and the code does not do |

Two requests are what it takes for one to overtake another, or to arrive while
the pass is between two writes for the first; three faults are a lost reply, a
misreading and a crash in one walk; two registrations let a second replace a
first. All runs set `CHECK_DEADLOCK FALSE`: a runner that was removed has nothing
left to do, and with its budgets spent the system stops there.

`NothingLeftBehind` and `OneRecord` are statements about up to three faults. With
more, what `NoRegistrationIsStranded` refutes can happen (*other disagreements*): a
rollback trusts the registration the row still names, finds it gone, and removes the
unit of a *newer* registration whose reply was lost. On macOS three faults suffice, so
`NothingLeftBehind` is not stated there. `NeverAbortsAJob` has no such limit: it is
proved for any number of faults, requests and registrations.

### Fairness

`FairSpec` assumes that a pass is never skipped for ever at a runner
(`WF(Reconcile)`: the loop of `main.py` runs for as long as the controller does),
that the sweep of an overdue creation, which precedes the steps of every pass,
runs if it stays possible again and again (`SF(Sweep)`), and that deadlines pass,
jobs end, units that were told to finish exit, outages end and a registration that
is under way lands or fails. Nothing else is fair: requests, crashes and faults
are free to happen or not, within their budgets, so a behaviour has finitely many
of them, and the progress properties say what follows the last.
`progress_linux` leaves `restart` out because a restart need not end (*other
disagreements*, `RestartEnds`).

### What the code's own text says and a run refutes

`claim_picked_up`: `_clear_operation` (`reconciler.py:1116`) reads the row again and
clears whatever operation it points at by then, so a request accepted in between is
dropped; `service.py:1049` says of every accepted request that "the reconciler picks
the operation up". More that the module shows is under *other disagreements*.

## FleetCapacity

`RunnerLifecycle` follows one runner closely; `FleetCapacity` sees the runners of
one fleet from far and follows how many there are.

| variable | stands for |
| --- | --- |
| `capacity` | `fleets.desired_capacity` |
| `rows` | `runner_specs`: where each runner is (`planned`, `building`, `idle`, `busy`, `leaving`, `failed`, `absent`, or not yet minted) and whether its desired state is other than `absent` |
| `operations` | by idempotency key: an open `set_capacity`, an open `set_desired`, closed, or none |
| `calls` | the request each client is making: where in the code it is, its key, what it has read (`target`, the `was` of `retire`, the row version as `fresh`) |
| `pass` | the pass: the capacity it read with the list of fleets, what is left to plan, the victims left to mark, the rows left to step and which of them nobody wrote since |
| `intents`, `answered` | history: what each key asks for, and the keys whose request was answered |

* `Begin` is a request or its repeat. `Scale` is the head of `_scale`,
  `OpenCapacity` and `WriteCapacity` the two transactions of
  `fleets.set_capacity`; `OpenDesired`, `MarkAbsent` (or `Overtaken`) and
  `LowerCapacity` are `retire`, which ends in `set_capacity` again with a key of
  its own; `AdoptLook` and `Adopt` are `adopt`. `Revive` stands for the verbs that
  make the desired state `running` again.
* `BeginPass`, `Converge`, `PlanOne` (row by row), `Mark` (victim by victim, each
  against its version), `CloseOperations` and `ListSpecs` are `pass_once` down to
  `_converge_capacity`; the steps of the runners are `Advance` (where the walk
  goes), `Drift` (what is found or happens instead) and `Held`.

Left out: a fleet that becomes unavailable or whose maximum changes, the limits of a
worker (`limits_problem`), runners an operator stopped, the audit. A stop or a
loss of the lease is `PassDies`. The victims are any that `VICTIM_ORDER` allows;
among equals `created_at` decides, which is left open. `adopt` takes no
idempotency key, so it is never repeated.

| property | says | where |
| --- | --- | --- |
| `MeetsTheCapacity` | a pass never plans beyond the capacity it read, runners on their way out counted, whatever requests do while it writes its rows (`PlansOnlyTheGap`); a scale-down leaves that capacity, less what a request retired meanwhile (`MarksOnlyTheExcess`) | `fleet_races`; **proved** (`CapacityIsMet`) |
| `AppliedOnce` | no two calls ever apply one key | `fleet_races`; **proved** |
| `CapacityIsAsked` | the capacity is what the answered requests add up to, each key counted once | `fleet_requests` |
| `Converges` | in the end the fleet has as many runners as its capacity says | `fleet_converges` |

| run | instance | shows |
| --- | --- | --- |
| `fleet_requests` | 3 runners, 1 client, 2 keys, maximum 3 | two requests of any kind and their repeats, against passes at every point |
| `fleet_races` | 3 runners, 2 clients, 1 key, capacity 2 of 3, revivals and crashes | a request of any kind and its repeats from two clients, overlapping, cut off anywhere, removals taken back |
| `fleet_converges` | 4 runners, 1 client, 1 key, capacity 2 of 3, fair | convergence after any one request |

Two keys are what it takes for one request to change what the repeat of another
finds. `Capacity` lies below `MaxCapacity` and above 0, so that both ends are
reached. `CapacityIsAsked` is stated for one client that is not cut off and takes no
removal back; each of the three conditions is needed (*other disagreements*).
Different requests at once, cut off and revived, are more than an instance of two
clients and two keys explores in minutes; for the passes and the keys they are
covered by the theorems, which hold for any number of both. The ids of new runners are a bounded
supply, which `Converges` allows for in its second disjunct; four runners for a
maximum of three leave it false unless the fleet really turned over. The runs set
`CHECK_DEADLOCK FALSE` like those of the lifecycle.

`FairSpec`: the pass loop runs (`WF(Pass)`) and a thread of the service does not stop
within a request (`WF(Request(c))`). A runner's step that stays possible pass after
pass is taken in the end rather than held, overtaken or failed for ever
(`SF(Advance(r))`), and so is a plan (`SF(PlanOne)`): a host with room is found
again. No request is fair, and each key is one request, but a client may go on
repeating it.

## Requests, passes, turns

### PassLease

Every controller process goes through `TakeLock`, `Acquire`, `First`, `BeginPiece`,
`DoPiece`, `EndPass`, `Release`, `CloseLock`: `_lock_file`, `_acquire`, the sweep and
the rows of `pass_once`, `_release`. Maintenance and the loss of the lease are looked
at *between* two pieces, so that a process which was paused in one finishes it after
its lease ran out. `Renew` and `FailToRenew` are `_keep_lease`, `LeaseTick` the clock,
`CrashPass` and `Suspend` what happens to processes. The lock is the operating
system's: a dead process has lost it, a paused one has not.

`OnePass` (**proved** as `OnePassAtWork`): no two processes are at work at once,
whatever the lease says by then. `PassesGoOn` (`progress_control`): whoever has taken
the lease, a whole pass is gone through in the end. Fairness (`LeaseFairness`): time
passes, processes that are not paused run, and a paused one is scheduled again.

### RollingTurns

The runners of a fleet, each `serving`, `out`, `stopped` or `failed`, with an operation
each. `BeginTurns` lists the rows; `ComeTo`, `HoldBack`, `RefuseRebuild`, `CloseTurn`,
`SkipClear`, `Attempt`, `TakeOut`, `GoOn` are `_recreate_turn`, `_cache_turn` and
`_halt_recreates` at one runner with the row the pass listed and the siblings as they
are *now*; `Ask`, `TakeDown`, `PutBack`, `Edit` are requests in between; `TurnsStop` a
pass that dies. What a runner that is out does is `RunnerLifecycle`'s: here it comes
back (`Rebuilt`, `Cleared`, `ComeBack`) or fails.

`OneAtATime` (**proved** as `TurnsAreTaken`): no two runners meant to serve are being
rebuilt, nor two cleared. `TurnsComeRound` (`progress_control`): where no runner stays
stopped or broken, every rebuild and clear ends. The first counts per verb: with three
runners, three requests and two faults a rebuild and a clear do take two runners out
at once (*other disagreements*). Fairness: passes begin and end, and a runner
on its way that can be finished at every pass is in the end (`SF`).

### RequestOutcomes and LimitRequests

`RequestOutcomes` says what a caller may rely on: a request is one operation that takes
effect once at most, comes to one outcome for good, succeeds only when it took effect,
and is told as it stands to whoever repeats it. `LimitRequests` is `_set_limits` with
`operations.open`, `by_key` and `_close`, two threads with two keys against other
writers of the row (`WriteRow`), each cut off anywhere (`CutOff`). `RetryIsSafe` is the
refinement, with `saved` for what took effect (**proved**, `RetriesAreSafe`). A request that is cut off after it opened
its operation leaves it pending for ever (*other disagreements*): safe, not live.

### Placements

One fleet on a platform that pins. `Resolve`, `Place`, `LookForUnit`, `Create`,
`RecordBuilt` are the flow up to a built unit, `BeginRebuild`, `Dismantle`, `RemoveUnit`,
`Replace` and `BeginRemoval`, `EraseUnit` the two others (a rebuild is checked when it is
its turn, before it is deregistered and before its unit is removed); `SetLimits`, `Recreate`, `SetDefaults`,
`RetirePlaced`, `Measure` happen in between; `PassStops` cuts a pass off. Windows of
cores are chosen by `Allocated`, after `cpusets.py`: the start that adds least to the
fullest core, then to the sum. Left out: swap, disk quotas, templates, architectures,
bounded overcommit, the health of workers.

`NeverOvercommitted`: what the units on a worker may use is what it has. Its memory half
is stated while `unchecked` is false: the code itself lets a limit be changed between the
check of a unit and its building, or its measuring (*other disagreements*), and `unchecked`
is set then and only then. `BuiltAsRecorded`: a unit is built on the machine and with the
window its row has by then, of cores that machine has. Both are **proved** (`NoOvercommit`,
`BuiltOnRecord`). What is reserved is counted, one pair of a runner and a unit of memory
for each, instead of added up: a sum is then the size of a set.
Two runners and two workers, of two cores and of one, let a window chosen on one worker
be wrong on the other; with a budget of 3, limits of
1 and 2 and a fleet that begins with either, one change of limits leaves a unit with more
than it is asked to have.

## Lent runners

`LoanContract` is what a lender promises per request: `asked`, `given` within the quota
with what is still there, `ending`, `over` only when its runner is gone, never revived.
`FederationLeases` is the lender: `Submit`, `Approve`, `Deny`, `Revoke`, `SetPolicy` by
peer and owner; `BeginTick`, `Works`, `Retires`, `Skip`, `StartProvision`, `Publish`,
`Confirm`, `Respond` the tick of one thread, which goes to GitHub between two
transactions and may die anywhere (`TickDies`); `Plan`, `Register`, `Deregister`,
`Leave` the passes of the controller, seen from far; `LeaseEnds`, `CredentialEnds`,
`RetryComes` the clock. `stirred` is the watch on the database the thread sleeps on:
a tick that sleeps with work to do sleeps for ever unless something sets it.

`LoansAreKept` is the refinement (**proved** as `LoansKept`); `LeasesEnd`
(`progress_control`): a lease that is to end does, however often GitHub fails.
Assumptions: one peer, one runner per request; an extension is a later end of the
lease, quiet hours and limits are changes of the capacity; the steps of `retire` within
one transaction are one; receipts outlive leases.

`ResultDelivery` is how the peer is told: the answer to its request (`SendIntent` to
`TakeAnswer`), and pushes with growing numbers (`BeginPush`, `TakePush`, `PushTaken`,
`PutPushOff`, `PushRetry`), lost, late, doubled, or overtaken by each other.
`ResultsFollowTheLease` (**proved** as `ResultsFollow`): what the peer is shown never
goes back and is never ahead of the lease. `ResultArrives` (`progress_control`): the
peer is shown how a lease ended.

## What is known of a worker

### AgentCalls

One call is a thread (`MakeCall`, `Ask`, `Answered`, `GiveUp`) with an idempotency key;
its caller stops waiting when the outer deadline passes (`DeadlinePasses`, `Release`).
The agent remembers what it carries out by key (`memory`, in order of age `elders`),
forgets the oldest that are over (`Forgotten`, after `_forget_oldest`) and everything
when it restarts. Requests that nobody waits for are `strays` and may arrive late.

`CallsHold` (**proved** as `CallsAreTrue`) has two parts. `OneWorkPerKey`: a key has one
thread at work at most and is remembered for as long as it has. `ReportsTruth`: a caller
told of a result or a failure has a work that ended so. Two calls, room for
one operation and one fault: the second call pushes the first out of memory.

### Heartbeats

Time is counted in heartbeat intervals and kept as ages, so that nothing grows without
bound: `Tick` makes everything one interval older. `BeginMeasuring`, `ReadUnits`,
`MeasureOnce` are the measuring thread, which `Tick` does not wait for; `SendBeat`,
`GiveUpPost` the sending one, which it does; `Receive` and `LoseBeat` the controller.
`HealthOf` is the health as it is worked out whenever it is asked for.

`InventoryIsTrue` (**proved** as `InventoryHolds`) has two parts. `HealthyWhileBeating`:
a worker whose beats arrive is never taken for one that is gone. `EvidenceIsRecent`: a
state of the unit that counts as current is no older than a measurement may be when it
is sent, plus a beat on its way, plus the window. The assumption is
`MaxTransit <= POST_TIMEOUT`: a beat longer on its way than its sender waits for the
answer counts as lost (with later ones the bound of the second part would have to
name the network's, which the code does not know).

### JobSources and JobLedger

From the hook of a runner to what is displayed. `JobSources` is the worker: the spool,
watched and scanned by a *source* thread (`Watch`, `Read`, `Record`, `Acknowledge`,
`MarkReady`, `SourceFails`, `Wake`, `Retry`, `ThreadEnds`), replaced by the measuring
thread (`Observe`, `Reconcile`, `StopTaken`, `Joined`) while an older one may still be
running, and paused by verbs that work on the runner's storage (`Pause`, `Paused`,
`Held`, `Worked`); `AgentCrash` loses everything in memory. `JobLedger` is the
controller: posts of the worker's outbox (`PostHead`, `TakePost`), signed events
(`Webhook`, `TakeWebhook`), the routine read of the forge (`BeginReading`,
`ForgeAnswers`, `RecordReading`) with its two fences, a move of the runner to another
worker and a cache clear that reads the record and writes it back.

| property | says | where |
| --- | --- | --- |
| `EventsAreKept` | `NoEventIsLost`: every event produced is in the spool or recorded, and the job shown is the last recorded since the unit was last seen stopped; `UnknownWhilePaused`: while a verb works on the storage the job is unknown | `workers`; **proved** (`EventsKept`) |
| `AuthorityHolds` | each event is in the ledger once; the last signed one on record is the last that arrived, and what the forge is known to say reflects it, unless a clear overwrote one | `workers`; **proved** (`LastWordCounts`) |
| `SignedResultStands` | a signed result on display gives way to an event of a later job only | `workers`; **proved** (`SignedResultsStand`) |
| `EventIsRecorded`, `EventArrives` | while its runner is up, an event is recorded; what is recorded reaches the ledger | `progress_events` |

Two events of one job, two sources and one fault are an old thread that ends while a new
one reads the same file; `LaterBy` and `SameNames` say whose clock is ahead and whether
worker and forge name a job alike. `claim_reply`: a clear writes back the event it read,
and an older reply is recorded over newer evidence.

## Hooks and readings

### JobHooks

The hooks a GitHub runner runs around a job, in a Linux unit and in a Windows service
(`hookKind`). `hookAt` is where the job is: through the hook before it (`origin`,
`ending`, `tree`, `php`, `measure`, `cleaning`, `remeasure`), its steps, and the hook after
it (`completing`).

| variable | stands for |
| --- | --- |
| `serving`, `answer` | the job: its repository, what its event says, whether that can be read, whether its hook had a fault; what the hook said to it |
| `workspaces`, `temp`, `containers`, `shared` | the disk: the workspaces, `_temp`, whether containers outlive a job, the tool tree and the PHP of the image, which a job may take |
| `free`, `lastFree` | how much of the disk is free; what was measured last |
| `sweeps` | the cleaning a hook waits for, and one that outlived its hook: what each still means to remove |
| `byHand` | history: what became of a hook that a step, or a process left over, ran by itself |

`CheckOrigin` decides by `DecideOrigin`, a translation of the guard's table; `EndTheJob`
looks for the Worker above the hook (`FindWorker`, over the processes `LinuxAncestors`
or `WindowsAncestors` give) and kills it. `RestoreTree` and `RestorePhp` put back,
`Measure`, `Removes`, `PassesOver`, `HookSweepEnds`, `Remeasure` make room. `HookEndsEarly`
is the hook that crashes, or on Linux is stopped after its 600 seconds: its cleaner, in a
process group of its own with 300 seconds, goes on, into the job and the next
(`OutlivedSweepEnds`). `RunByHand` is a hook nobody but a step started. The forge's
Listener and Worker are external.

`HooksServeTheJob` (**proved** as `HooksHold`) has these parts:

* `JobKeepsItsFiles`: event, commands and workspace are there for as long as the job needs
  them, unless it came upon the cleaning of an earlier hook;
* `OnlyItsOwnHookCleans`: no list of what to remove has the workspace of the job but that
  of a cleaning that was there before it, on Linux;
* `EndedForAReason`: a job is ended because its code is from outside and for nothing else,
  and no other process is killed; with such code go on those jobs only whose event could
  not be read or whose hook had a fault;
* `FullAfterCleaning`: a job is refused for want of room only when all was removed that
  may be;
* `TakenIsPutBack`: the first step finds what an earlier job took.

Two repositories are a job and a job before it; one fault is what stops a hook. Left out:
a job its forge cancels in its hook, a number of a process used again on Linux (there an
orphan goes to the first process), exceptions to the rule that are pinned in an image.

### GuardReports

What the controller believes of those hooks. `guarded` and `lastRun` are the unit and the
record its guard left; `guardPass` the deep pass, which reads label, files and record one
after the other (`InspectUnit`, `ImageGuardFiles`, `ReadRecord`, `MeasureGuard`);
`guards` the last report of the agent, `keptReport` that in the row (`MergeGuard`).
Reports carry, as history, whether each thing they say was so at some time of their pass,
and when that ended. `GuardState` is the state the dashboard shows, `Admitted` whether a
lease takes the runner. `ProvenIsTrue` and `LentIsTrue` say that both speak of hooks and
of a record the runner really had, in a pass that ended as lately as a report may be old.
**Proved** as `GuardReportsHold`.

Time is counted in passes; a report counts for two, a proof for one; one change of hooks
falls into any gap of a pass. Whether a runner is lent is decided with its row.

### CacheReadings

`walk` is the deep pass over storage and cache (`BeginDepth`, `StorageProbed`,
`MeasureDepth`), `depths` what the agent found last and says again with every beat,
`meters` and `shownCap` what the row keeps (`MergeTelemetry`). `QueueCacheBudget` asks for
a clear under the date of the reading, `ClearScopes`, `ClearSucceeds` and `ClearFails` are
that clear, `claims` the keys used. Of its properties, `OneClearPerReading` is about
the clears; `ShownIsRecent` and `BoundaryOfTheReading` about what a card shows: no figure
older than it says, none against the boundary of another walk. **Proved** as
`CacheReadingsHold`.

Three moments are one to read, one to clear and one in which the reading is still fresh.
Left out: the volumes units share, the turns of a fleet (`RollingTurns`), a crash in a
clear (`RunnerLifecycle`). Both modules together are `ReadingsAreTrue`
(**proved** as `ReadingsHold`).

## Units and disks

`UnitContract` says what the controller relies on of a unit, whatever it is made of: what
an answered call has brought about (`Brought`), and what no call and nothing else ever
does: a unit comes up only where it is meant to serve (`back`), only a removal destroys
what a rebuild keeps, and so on. Each of the four runtimes is a module of its own, with
the commands a call gives, in their order (`commands`, `steps`, `todo`, `poolSteps`), a
call that ends after any of them (`*Cut`), and what the engine, the service manager,
launchd, the guest or the host do by themselves. The refinements are `ContainerIsAUnit`,
`ServiceIsAUnit`, `LaunchdJobIsAUnit` and `PoolGuestIsAUnit`, together
`EveryUnitKeepsTheContract`. `UpkeepIsQuiet` is `MacPool`'s own: no listener runs in a
guest the agent has booted, or found, for upkeep.

`DiskContract` says the same of a disk: nothing made is made again, it is used where
nothing of somebody else lies, and only a removal of a disk out of use destroys data.
`LinuxDisk` and `WindowsDisk` implement it (`ImageKeepsItsData`, `VhdKeepsItsData`,
together `EveryDiskKeepsItsData`).

All of it is **proved** for any number of calls and cuts (`UnitProofs`), `UpkeepIsQuiet` too.

Four or five calls with two of them cut off are enough for a call to meet what two
earlier ones left: the disks have no counters at all, their states are finite.
Assumptions of the adapters:

* calls on one unit are made one after the other (the agent's lock per unit);
* Linux: `create` that finds the name in use adopts what it finds, and its wait for a
  removal under way is long enough (`Wait`);
* Windows: `create` does not take away the drain request of a removal that failed
  half-way, and `RemoveSome` lets `.runner` go first, as names are sorted;
* macOS: `create` does not copy a tree again whose `.template` survived a removal that
  failed half-way; a process that was told to finish exits cleanly; `cancel_drain` of a
  process that is still finishing leaves it down once it has;
* Windows disk: a partial disk file of `diskpart` is kept for an operator.

## What is told

### Alarms

Three threads (`MinuteStep`, `SweepStep`, `BeginDelivery` with `SendNext`) and an admin
keep one book. `OpenBook` and `Commit` are the lock and the transaction; `WithOnline`,
`WithReader` and `WithQueue` are `_turn` over what was read. `RaisedOnce`: an alarm is
recorded as raised once until it ends; **proved** (`AlarmsRaiseOnce`). `AlarmsSettle` (`progress_events`): once the forge
no longer changes, the book comes to say what it shows, for good. The forge changes
`MaxForgeChanges` times, which is why that is a statement about eternity. Fairness: the
threads run; opening the book is strongly fair, since a thread that sleeps between two
passes leaves the lock. One forge, one repository, one set of labels; a commit and its
flush are one step; a notice that is sent or given up is dropped.

### RunHistory and LogHistory

`RunHistory` is one GitHub runner whose worker sends job events. Worker and forge each
report start and end of every job, by clocks of their own (`Leads`, `Lags`: within the
30 seconds the projection allows for), the worker in order and without results, the forge
in any order, lost sometimes. `Project` is the projection with its matching of rows
(`FindRun`, `Fit`), in one transaction with the cursor; `WaitForChange` opens the watch
before the read it relies on; `AskForResult` and `ApplyResult` are the enricher, `Say`
the messages. `JobsHaveTheirRows` holds *while somebody reports in turn*
(`ReportedInTurn`): then a row has one job, neither row nor message gives a job another's
result, and a job has one row, unless the forge has forgotten it and its word of the start
was lost; **proved** (`JobsKeepTheirRows`). The run lets nothing get lost here
(`MaxHistoryFaults = 0`), for time; the theorem is of any number of losses.
`RunsAreSettled` (`progress_events`): in the end every job
that ended has a result and has been said.

`LogHistory` is the other source: windows of a log that overlap, with lines lost and the
dashboard restarted; a killed job logs no end, a Forgejo runner logs starts only, and all
jobs have one name. `LogRunsAreRight`: a job has one row, with an end and a result of its
own; the exception, `blurred`, is a run open when lines were lost unread. **Proved**
(`LogRowsAreRight`).

Left out: samples, links of old names, message texts, page order, the staleness cutoff.

## The composed runs

| run | module | asks |
| --- | --- | --- |
| `lifecycle_linux` | `MCRunnerJobs` | `NothingLeftBehind` `NeverAbortsAJob` `OnlyLegalMoves` `HooksServeTheJob` `ReadingsAreTrue` |
| `workers` | `MCWorkers` | `CallsHold` `EventsAreKept` `InventoryIsTrue` `AuthorityHolds` `SignedResultStands` `LogRunsAreRight` `UpkeepIsQuiet` `EveryUnitKeepsTheContract` `EveryDiskKeepsItsData` |
| `controller` | `MCControl` | `OnePass` `OneAtATime` `RaisedOnce` `NeverOvercommitted` `JobsHaveTheirRows` `RetryIsSafe` `LoansAreKept` `BuiltAsRecorded` `ResultsFollowTheLease` |
| `progress_control` | `MCProgress` | `PassesGoOn` `TurnsComeRound` `LeasesEnd` `ResultArrives` |
| `progress_events` | `MCEvents` | `EventIsRecorded` `EventArrives` `AlarmsSettle` `RunsAreSettled` |
| `claim_reply` | `JobLedger` | `ReplyNeverOverwrites`, which fails |

The faults of a part are counted together (`Max*Faults`): losses, crashes, failures,
changes of mind. One or two are enough for the second of two actors to meet what the
first left half done; the parts where it takes three have three (`MaxLeaseFaults`: a
pause, a renewal that fails, a crash). Each run ends within three minutes. Every counter
is bounded by a constant named in the module; no bound is a symmetry or a constraint.
Fairness of a part is conditional on `focus`, since only the part in focus runs.

## Other disagreements

Met while modelling: what the code does against what its own text says. The first table
names properties that are defined in the modules; each is violated by the instance named
with it, which has no run of its own: it has the root of a claim above, or is the reason
a property that does run states a condition.

| property | instance | what happens | what the code's text says |
| --- | --- | --- | --- |
| `ClosedWithItsRunner` | `MCRunnerLifecycle`, `Spec`, only `remove`, 1 request, 1 fault | `_finish` soft-deletes the row, a crash, and the operation is never closed | `reconciler.py:874` |
| `RegistrationIsRedriven` | the same with `FairSpec`, no request, 1 fault | a runner left `registering` has its unit up, its rollback is held at every sweep, nothing else moves it | `operations.py:20` |
| `NewIntentIsRead` | the same with `Spec`, only `cancel_drain`, 2 requests, no fault | after the second look at a drained runner the step decided from the old row is taken with the new version | `reconciler.py:254` |
| `ClosedWhenServing` | `MCFleetCapacity`, 3 runners, 1 client, 1 key, `add`, capacity 1 of 3 | an operation opened after the pass read the fleet is closed by that pass, before its runner exists | `reconciler.py:368` |
| `CapacityIsAsked` | `fleet_requests` with two clients | two requests write targets worked out from one capacity: one is lost | `api_v2.py:956` |
| `CapacityIsAsked` | `fleet_requests` with crashes | a request cut off between its operation and its update is answered as done when it is repeated | `fleets.py:350` |
| `CapacityIsAsked` | `fleet_requests` with revivals | a retirement that was taken back and is repeated lowers the capacity again; with a third key, a new one at the same capacity finds the key of the old one and lowers nothing | `service.py:1302` |
| `RestartEnds` | `MCRunnerLifecycle`, `FairSpec`, only `restart`, 1 request, 1 fault | `_do_start` moves the row before it records `started`; a crash in between makes the restart drain and resume the runner for ever | `operations.py:19` |
| `NoRegistrationIsStranded` | `MCRunnerLifecycle`, `Spec`, only `repair`, 2 requests, 5 faults (3 in a macOS guest) | `abandon` and `_rollback_preflight` take the registration the row still names for the last one attempted: it is found gone, the unit is removed, and the newer record stays behind | `provision.py:590` |
| `AnsweredIsMarked` | `FleetCapacity`, 2 runners, 1 client, 1 key, `retire`, capacity 1 of 2 | `set_desired` opens its operation before it updates the row; overtaken in between, the repeat is answered, the capacity goes down and the runner stays | `operations.py:94` |
| `MarksInExcess` | the same with `adopt` | an adoption between the two reads of a pass is taken for excess, and a runner is withdrawn | `specs.py:159` |
| `RefusedWasNotMade` | `AgentCalls`, 1 call, 1 fault | a request whose connection breaks is told as refused, and arrives and is carried out after that | `agent_client.py:86` |
| `DegradedAfterThree` | `Heartbeats`, 2 faults | a beat nobody answers holds its sender for twice the interval: the worker is degraded after the first one that was lost | `heartbeat.py:5` |
| `MaintenanceWaits` | `JobSources`, 1 source, 1 fault | the measuring thread has taken out the source of a stopped unit and waits for it; the pause that comes next finds none to wait for, and the verb works while the source still has the spool open | `docs/native-job-events.md` |
| `NotResurrected` | `JobLedger`, 2 events, no fault | a signed start that arrives after the worker's end of its job replaces it on display | `dashboard/tests/test_job_events.py:42` |

The rest was met on the way and is stated by the model as it is, or left out of it:

**Requests and passes.**
* Rebuilds wait for rebuilds and clears for clears: with three runners, three requests and
  two faults a rebuild and a cache clear take two runners of one fleet out at once.
* A request for limits that is cut off after `open` and before `_close` stays `pending`
  for ever; every repeat is told so (`operations.py:19`: "A crash is recoverable").
* A federation tick that finds a retirement not done yet writes `retry_at=NULL`
  (`federation.py:447`), which changes the database and may wake its own loop at once.
* A memory limit, or the default of the fleet, raised between the check of a rebuild and
  the spec it is built from, or set while the runner is provisioned, builds a unit nobody
  made room for (`docs/superpowers/specs/2026-09-17-uniform-hyperv-runner-platform-design.md:1137`:
  "a worker is never overcommitted"): `unchecked` in `Placements`.
* A limit lowered before the new unit is measured reserves less than the unit has. Only
  `cpu_limit` is written back at creation: a memory override set meanwhile leaves
  `memory_limit` of the row other than the unit's. A creation that failed or was cut off
  though its unit exists, with the processor override changed since, makes
  `_do_provision` write `cpu_limit=None` and adopt the unit: its window is no longer
  counted.
* `init_pki` writes `ca.key` before `ca.pem`, and the key of a role before its
  certificate; cut off in between, every repeat fails with `FileExistsError`, though its
  docstring says it is idempotent and makes what is missing.

**Units.**
* macOS pool: `create` answers for a guest that serves a job whose restart a cut-off
  drain had disabled, without enabling it; the first `create` writes the definition of
  the job before `launchctl disable`, while the record says it is disabled; a removal may
  delete `instance.json` first, so that its repeat is answered with the disk left, and a
  later create refuses; a guest powered off by a reboot of its host with the listener
  enabled lets drain and stop answer without disabling it, and deregistration, cache
  clear and rebuild are refused until it is started; a `create` after a rebuild cut off
  between the removal and the record copies the template without the native files; a stop
  or drain that races a guest going down between the look at its power and `_boot` boots
  it again (`GuestGoesDown` ends the call in the model).
* Linux disk: a crash between `base.mkdir` and the metadata, between the image and
  `mkfs`, or between `meta.unlink` and `base.rmdir` makes every later removal fail
  (`linux_container.py:551`: "Safe when any of it is absent").

**Readings.**
* `invalidate_cache` drops a reading "until the next measured beat"; the agent's next beat
  says what was found before the clear again, and the row has it back until the next deep
  pass.
* Of the reading kept so, the key keeps it from asking for a second clear; but a walk that
  goes on over a clear, or a reading taken while the clear waits, can ask for one that has
  nothing left to remove.

**Alarms.**
* `sweep_queue` passes `self.online.get("github") or []`: when the runners could not be
  read, a queued job "has no runner with its labels" ("Blind is said, never guessed").
* An acknowledgement between the commit and the flush of a raise, or while a delivery
  holds the notice, does not keep it from being sent; a pending notice that an earlier
  episode was resolved is skipped. A crash between commit and flush loses a notice; a
  raise that is tried again may be sent after its resolution; a lost answer sends twice.
* `_turn` of a planned row not raised yet keeps its clock, though the docstring says that
  its watch starts again; a raised row that turns offline and back before it is raised
  again is never resolved.

**History.**
* `apply_result` says that a result already there is never replaced; `_project` erases
  the one the enricher had set when a late completion of the worker, which has none,
  arrives on a row the worker opened (and leaves it unknown for good if the forge has
  forgotten the run).
* A signed start that overtakes the end of the job before binds to that job's open row
  ("never guess by newest row"): `ReportedInTurn` is the condition of `JobsHaveTheirRows`.
* A start the worker posts more than a quarter of an hour late, after the enricher closed
  the row the forge opened, makes a second row, and the job is said twice ("never says a
  job twice"); the same when the forge dates the end more than 30 seconds after the hook
  and its start was lost. So does the end the forge reports of a job whose start it lost,
  once it has forgotten the job and the enricher closed the worker's row at its own start.
* `close_interrupted` (`history.py:259`) has no caller. `find_job` (`github_api.py:391`)
  takes the first job of that runner and name within six hours. `_enrich_pending` says
  that a miss is given up after the staleness cutoff only; its GitHub branch gives up at
  the first. Lines lost unread with a run open: its end is taken from the next job's.

## What is proved

### The lifecycle

The theorems hold for every value of the constants under `ConstantsAssumption`
(the provider is one of two, the verbs are verbs, the bounds are numbers, at least
one registration): any number of faults, requests and registrations.

* `TypeCorrect` (`RunnerLifecycleTypes`): `Spec => []TypeOK`. `TypeOK` is
  inductive. The lemmas say what each way of writing a row, an operation, a pass
  or a world yields; the step of an action cites those it uses.
* `Invariance`, `CacheClearedAtRest`, `JobsAreSafe` (`RunnerLifecycleProofs`):
  neither property is inductive. That a stop finds no job depends on what the pass
  proved several steps earlier, and on nothing having undone that since.
  `Safe` (`RunnerLifecycleInvariant`) names what has to hold in between:
  - *past the proof of quiescence nothing starts the unit again*
    (`StoppedPastTheFence`): only the pass starts units, and a pass does one thing
    at a time;
  - *a rollback that goes on* has a unit that is down, or one no record stands for
    and none will (`RollbackIsSafe`): a job needs a live record, so such a unit
    cannot have one;
  - *from the closed gate to the stop* GitHub gives the runner no job, and the
    record the pass drains is the only one it has (`GateHolds`, `ReplacedByName`):
    what was sampled idle stays idle. A registration landing late would reopen the
    gate; it cannot be under way then, because
  - *while a registration may be under way unseen, no live record is named* by the
    row or by the pass (`UnseenIsUnnamed`), and a drain needs one that is;
  - a unit exists only where the runner was placed (`PlacedFirst`): a runner with
    no worker is ended without asking one;
  - what a step works on is what the row says (`WorksOnTheRow`), the registration
    that is voided is that of a unit that is gone (`VoidsWhatIsGone`), and a
    registration is taken off outside a rollback to end the runner only
    (`EndsTheRunner`).

  `InitSafe`, `ReconcileKeepsSafe`, `ServiceKeepsSafe` and `EnvironmentKeepsSafe`
  are the induction, one step per action; `ReconcileEndsNoJob` reads the property
  off the invariant for each of the calls that change the world.
* `MovesAreLegal`: between the decision and the end of its step the pass writes what
  it decided for the row it read, sometimes without reading it again. `Standing` says
  where the row is at each place of the pass. Nobody else moves it in between, except
  that a signed event or a peek may turn idle into busy and back, and `BEFORE` (what a
  step may be decided for) never tells those two apart.
* `ServesWhatItNames`: from its registration to its deregistration (`KEPT`) a row names
  a live record (`KeepsItsRecord`). What endangers it is a rollback, which deletes
  records; `UndoesCreations` says that only a creation is rolled back and that nothing
  counts as undone outside of one. A runner comes to serve in three ways
  (`ComesToServe`), each of which read its record as live and holds it so until the
  write. The theorem states `RecordIsItsOwn` for GitHub, where a new record replaces
  the old one of its name. For Forgejo it states `ServesItsRecord`: there `OneRecord`
  is about up to three faults.
* `DecideSparesJobs`: `decide` never names a step that ends work for a runner that
  is busy or draining. The comment on the last lock in `_step` says so; with the
  theorem the lock is a second one.

### The fleet

Under `FleetAssumption` (finitely many runners, a capacity within the maximum, known
verbs), for any number of runners, clients and keys. `FleetInvariance` is the
induction; what it adds to `TypeOK` and `AppliedOnce` is what a call or a pass relies
on between two of its writes:

* `CallsInOrder`: a call under way has its keys, one that retires has its runner;
* `Claimed`: whoever is about to write marked its key as used. Keys are never
  unmarked, so `AppliedOnce` follows from the one step that marks;
* `GapLeft`: while a plan is being written, the runners present and those left to
  plan stay within the capacity that was read and the runners adopted meanwhile;
* `EnoughStay`: while victims are being marked, the others meant to stay are as many
  as that capacity, less those a request retired.

`FleetTypeCorrect` and `KeysApplyOnce` are read off the invariant.
`NeverOvershoots` and `NeverUndershoots` also say which steps can plan and mark at
all: a request never changes what a pass has left to do (`RequestKeepsPlan`).
`LosesOne`, `Grows` and `Contained` are the facts about cardinality they rest on.

### Passes, turns and requests

`OnePassAtWork`, for any number of processes, ticks and pieces: whoever is past
`TakeLock` holds the lock and only it (`Locked`), and what a process that lost its
lease still does is the one piece it is in (`OneLeft`). The lease is not needed for
safety; that is what the lock is for.

`TurnsAreTaken`, for fleets of any size: `OneUnder` says more than `OneAtATime`, over
the operations and not the places. It is kept because, from the look at the siblings to
the record of the attempt, none of them begins (`TurnIsItsOwn`): the pass is the only
one to begin turns. `ServesUntilItsTurn` is what makes the row a pass listed good
enough for the runner itself: a clear that has not begun leaves its runner serving.

`RetriesAreSafe`, for any number of threads and keys and with no assumption: every step
of the requests is a step of `RequestOutcomes` or a stutter of it. What a key has come to
(`StateIn`) is read off the list of operations, in which a key is once at most (`OneIn`);
`CarriesItsOwn` says that whoever carries a request out opened its operation, which is
pending for as long, with nothing saved before its write and one thing saved after.

`NoOvercommit` and `BuiltOnRecord`, for any number of runners and workers of two sizes,
under `PlacementAssumption` (a worker has a core; limits are numbers). What a runner may
use is not what it has: `Claim` is the larger of what its unit has and of what it is to be
rebuilt with, from the check on. `ClaimsHold` (the claims on a worker are within its
memory) is inductive with `ReserveHolds` (a unit has no more than is reserved for it: it
is this that lets a check, which sees what is reserved, speak of what is used) and
`SlotsHold`; `WorkHolds` says where the runner of a pass is at each of its places, and
that what is in hand is what is on record. `AllocatedIsAWindow` shows that the choice of
`cpusets.allocate` is one: of the starts with the lowest peak those with the lowest total,
of those the first (`LeastOf`, by the well-foundedness of the naturals).

### Calls and heartbeats

`CallsAreTrue`, for any number of calls, any room for operations and any number of
faults: `OneWorkPerKey` is inductive with the types; `CarryEffect` says what the three
ways a request may reach the agent do to its memory. The other part of `CallsHold` needs
`AnswersAreTrue`: an answer on its way, or kept by the agent, is of a work that ended
so - works never un-end.

`InventoryHolds`, under `BeatsAssumption` (`MaxTransit <= POST_TIMEOUT`): `BeatsCounted`
(a silence costs faults), `BeatsComeInTime` (how far sender, beats on their way and the
clock of the worker's row can be apart) and `EvidenceIsDated` (how old a state of the
unit can be at each of the places it passes).

### Hooks and readings

`HooksHold`, under `HooksAssumption` (there is a repository), for any number of
repositories and faults. `HooksInv` adds to the property where the hook may be with what:
`SweepsAsTheyMayBe` (a cleaning that is not under way has nothing on its list, a hook's own
is under way only while that hook cleans, and only a Linux one outlives its hook),
`OriginAsItIs` (until the guard has decided, whether the code is from outside can be read
off the event), `RoomAsCleaned` (while the hook cleans nothing but its list is in the way
of the job) and `PutBackSoFar`. Around it stand three facts about operators:
`RefusesOutside`, that `DecideOrigin` refuses exactly what the documentation of the guard
calls outside; `OwnChainIsFound`, that the Worker is found from its own hook on both
platforms; `ByHandIsSpared`, that from any other start nothing is found, with `WalkIsReal`
for the walk up the processes, which ends where a parent is younger than its child.

`GuardReportsHold`, under `GuardsAssumption` (the windows are numbers): `PassNotes` says
that a pass has noted what the unit is now, `PassReadTrue` that what it has read so far
was so at some time of it, `IsTrueReport` that a report says nothing else and is no older
than its date. `CacheReadingsHold`, under `ReadingsAssumption`, for clocks of any length:
`DatedAsFound` (a finding, wherever it is kept, has the date at which its walk ended) and
`ClearsAreClaimed` (a reading brought about a clear only if it asked for one, and none
while the one it asked for goes on). `ReadingsHold` combines the two.

### Lent runners

`LoansKept`, under `LendingAssumption` (finitely many requests, room for at least one):
every step of the leases is a step of `LoanContract` or a stutter of it. `LendingInv`:
what a tick listed is still so when it comes to it, although the forge was asked in
between, and a runner is there only while its place is taken. `ResultsFollow`:
`DeliveryInv` orders the pushes: one with a higher number says no less, none is ahead of
the lease, and what is shown is behind those that are newer, unless it is an end.

### Alarms

`AlarmsRaiseOnce`, under `AlarmAssumption` (the bounds are numbers), for any number of
runners and jobs. `RaisedOnce` counts what stands in the history and becomes inductive
with `HasBook`: while a thread is between the read of the book and its commit it has the
lock, and what it read is still the book. Acknowledging does not raise; ageing does not.

### Job events

Under `LedgerAssumption` (the bounds are numbers). `LastWordCounts`: `LastOnRecord` is
`AuthorityHolds` in inductive form, with `AnswerFollows` (what the forge answers is no
older than the signed event on record when it was asked, which is what lets a reading
replace it) and `NothingAhead`. `overwrote` is never unset, and a clear that leaves it
unset wrote back what it read. `SignedResultsStand` is read off the types, one step per
way the display is written.

`EventsKept`, under `SourcesAssumption` (the bounds are numbers): `AckedIs` and `InHands`
say that a file leaves the spool only after its event is on record, whoever has it in
hand; `PausesCounted` that the count of pauses of a source is the number of verbs that
wait for it or work, so a source that is ready with none has nobody at work;
`LastIsCurrent` that what is shown is the last of what was recorded.

`LogRowsAreRight`, under `LogAssumption` (the bounds are numbers), for logs of any length.
A line is entered once (`OneStart`), because entering looks for its row first. What could
go wrong is an end that closes the row of an earlier job. `NothingBefore` rules it out: no
run is open, or about to be, that started before a start that was missed; so the end finds
its own start, or none at all (`StartOfEnd`). It is inductive with `EnteredOnce` (a start
that was read and can still be read is entered) and needs `blurred` for the one case in
which it fails.

`JobsKeepTheirRows`, under `HistoryAssumption` (clocks within the allowance), for any
number of jobs and losses. `ReportsInv` is about the ledger alone: who reported what, and
in which order. On it stands what the rows are (`KeptRow`): where a row begins, when it
must be known to both reporters (`OpenIsKnown`), why it is closed (`ClosedForAReason`);
an id is of one row, and an open row is its job's only one. An event of another job then
fits no row: a later job has no row yet, and an earlier one whose row is open has ended,
as somebody reported, so that both reporters are known to the row and it is no candidate.
The inductive invariant, tried on a run first, showed that a second row is possible after
two losses; that is the exception the property now names.

### Units and disks

`ContainerKeepsTheContract`, `ServiceKeepsTheContract`, `LaunchdJobKeepsTheContract` and `PoolGuestKeepsTheContract`: each of the four units implements `UnitContract`; together (`UnitsKeepTheirContract`) they are the `EveryUnitKeepsTheContract` of the run. `DisksKeepTheirData` is `EveryDiskKeepsItsData` for any number of calls and
cuts. No assumption on the constants is needed. A call carries the list of the commands
it has left, so the heart of each invariant (`BoxCourse`, `WinCourse`, `MacCourse`,
`PoolPlace`, `ImageCourse`, `VhdCourse`) says, for each place a call can be in, what the commands
before it have brought about and nothing has undone: a call that is at its start has
removed the gate, one that takes away the disk has the service gone. The lists that can
be left are named, each by its first command, so that a step is a step from one name to
the next (`*Heads`, `*Lists`). Every action is then a step or a stutter of the contract
(`*Step*` lemmas), and the last theorem of each unit combines `*Invariance` with it.

The guest of its own has too many lists for that. Its calls follow eleven courses
(`PoolCourse`); a call is over, or at a place of one (`OnCourse`), and `Follows` is the
table of which step follows which on which course. `PoolDoes`, proved once from
`SequenceTheorems` (`RestOfCourse`) and that table (`PlacesFollow`), turns any step into
a move from a place to the next, so that no action has to look at a list again.
`GuestKept` says what guest and record are like at any time, `CreationAt` and `RemovalAt`
what they are like at the places of a creation and of a removal. `NoListenerDuringUpkeep`
is read off the same invariant: at `work` an initialized guest has no process.

### Only model-checked

* All liveness (`progress_*`, `fleet_converges`): the prover has no rules for fairness.
* `NothingLeftBehind` and `OneRecord` are statements about up to three faults (above) and
  false of more; `CapacityIsAsked` is a sum over a history, stated for one client.

## Not modelled

* Secrets, certificates and the audit: cryptography and appending; what a repeat of
  `init_pki` finds is under *other disagreements*.
* The dashboard's pages and API: rendering and translation of requests into the calls
  that are modelled (`act`, `retire`, `scale`, `create`, limits, alarms, federation).
* Images, infrastructure and installers: build and provisioning scripts (the hooks in the
  images are modelled).
* Within the parts that are modelled: the text of messages, metrics, the discovery of
  units nobody manages, swap and disk quotas, links and archives of logs.

## Plan

The modules above cover the parts whose order of steps matters. Next, in this order:

1. Proofs: `NothingLeftBehind` and `OneRecord` by what each fault leaves behind, not by their number; `CapacityIsAsked` for several clients.
2. The composition of `RollingTurns` with `FleetCapacity`, whose runners are the same:
   a rebuild that meets a scale-down.
3. The dashboard's own caches (`providers.py`): what a page shows of a runner that moved
   on since.
