# hyperswitch-suite: a TLA+ verification development

hyperswitch-suite is the deployment repository of Hyperswitch: Terraform and
Terragrunt modules for AWS and GCP, image builds, the Argo CD generator, and,
inside two of the Terraform modules, the Python programs of the stress and
fault-injection Lambdas. Terraform is declarative and is applied by an engine
that is not in the repository; what has state, concurrency, time-outs and
partial failure of its own is the imperative code: the Lambdas first, then the
boot scripts of the proxies and the self-host generator. This directory models
the Lambdas.

## 1. Inventory

`EC` is `src/terraform/aws/modules/composition/elasticache-stress-test`, `AU`
is `src/terraform/aws/modules/composition/aurora-fault-injection`.

| Component | State it keeps | Operations | What is hard |
|---|---|---|---|
| `EC/src/connection_exhaustion.py` | a counter shared by the worker threads, each thread's list of sockets, the result slots | open/handshake, batch, churn, release; spawn and join | the counter is checked and incremented in two critical sections; no clock check inside a batch; descriptors run out; joins time out |
| `EC/src/connection_orchestrator.py` | none in process; the asynchronous invocations it sent | cap the target per worker, invoke, wait, report | at-least-once delivery of `Event` invocations, late starts, failed invokes |
| `EC/src/memory_stress.py` | stress keys in Valkey, per-thread key counters, result slots, the running `used_memory` | fill threads per phase, re-fill attempts, clean-up | the keys of a thread index are the same in every phase; a join that times out leaves a thread writing after the clean-up |
| `EC/src/cleanup.py` | the keys under the prefix, a SCAN cursor | scan, unlink by batches, stop when time is short | keys written behind the cursor; stopping early is reported as `complete` |
| `EC/src/failover.py` | the replication group's status (kept by ElastiCache) | pre-flight checks, `test_failover`, poll | the polled status may be the one from before the failover; an error after the trigger is reported as if nothing was triggered |
| `EC/src/cpu_stress.py`, `EC/src/mixed_workload.py` | result slots, latency samples shared by threads | phase workers, open-loop schedule, join with a deadline | a `finally` that overwrites an error result; negative `sleep`; threads left behind extend the list being sorted |
| `EC/src/common.py` | none | discover the primary, build a client | topology may change between discovery and use |
| `AU/src/aurora_inject/*` | the secret cached for the life of the process | fetch secret, decrypt, connect, inject, classify the error | the cached secret is stale after a rotation; a dropped connection is the success case |
| `AU/src/stress_test/common.py`, `cleanup.py` | the pgbench tables | check, drop and create table by table; drop | check-then-create with autocommit: a crash or a second Lambda between two statements; the check looks at one table only |
| `AU/src/stress_test/cpu_stress.py` | balances of the TPC-B tables, result slots | one transaction per loop, staged duty cycles | lock order between concurrent transactions; roll-back; error paths |
| `AU/src/stress_test/connection_exhaustion.py`, `memory_stress.py` | held connections, result slots, cumulative thread counts | start the difference of each phase, hold, join | cumulative counts that are not monotone; negative `sleep`; a slot overwritten |
| proxy boot scripts (`gcp/.../startup.sh`, `squid-proxy/scripts/*.sh`, AWS `userdata.sh`) | files on disk, systemd units | fetch, install, validate, restart, cron refresh | installed before validated; cron racing the boot; units waiting for one another |
| `scripts/self-host/*` | the generated tree, the saved configuration | refuse or render, save, assert | a crash half-way; files left from an earlier run |
| `scripts/install-argocd.sh`, `scripts/ci/*`, Cassandra seed Lambda, Envoy Lua filters | none, or the cluster's | sequential | little: stateless or interactive |
| Terraform, Terragrunt, Packer, workflows, docs | - | declarative | not modelled: applied by engines outside the repository |

How they interact: the orchestrator invokes the connection-exhaustion Lambda;
all stress Lambdas of `EC` act on one Valkey deployment, and `cleanup.py`
removes what `memory_stress.py` and `mixed_workload.py` wrote; all stress
Lambdas of `AU` act on one Aurora cluster and share the pgbench schema; the
fault Lambdas act on the same cluster. Inside a Lambda the threads interact by
shared lists and one lock-protected counter, and the handler by joins with a
timeout.

What makes each component correct is stated with its module below;
`PROJECT.json` lists the hazards with their lines and the properties that watch
each.

## 2. Plan

The order is by how much the behaviour matters to somebody who runs these tests
against a live deployment, and by what can only go wrong through an
interleaving. All steps but the last are done.

| Step | Modules | What it is for | Runs | Proved |
|---|---|---|---|---|
| 1 | `ConnectionExhaustion` | counter and sockets of one worker Lambda | `ConnScarce`, `ConnFill` | types and all its safety properties |
| 2 | `Failover` | concurrent invocations on one replication group | `FailoverSafe`, `FailoverNotInitiated` | types and both safety properties |
| 3 | `UnlinkScan`, `RedisCleanup` | the loop that removes the stress keys, beside writers | `CleanupCluster` | types and both safety properties |
| 4 | `MemoryStress` (composes `UnlinkScan`) | phases, top-ups, joins that time out, clean-up | `MemoryRamp`, `MemoryLeftKeys` | all its safety properties |
| 5 | `HeldPool`, `ConnectionOrchestrator` | what one worker Lambda promises, and a fleet of them | `ConnFill`, `FleetPlateau` | that `ConnectionExhaustion` implements `HeldPool`; all safety properties of the fleet |
| 6 | `Ledger`, `TpcB` | the transactions of the CPU stress beside the clean-up; a transfer in one step | `BooksBalance` | the safety properties, and the refinement |
| 7 | `DbAccess`, `PgbenchSchema`, `AuroraInject`, `AuroraLab` | check-then-create under autocommit, clean-up, fault Lambdas and a secret that is rotated, on one cluster | `AuroraFaults` | all its properties |
| 8 | `PhasedRun`, `CpuBurn`, `MixedWorkload`, `ValkeyPhases` | phase threads, open-loop schedule, one deadline for all joins, the report | `PhasedValkey` | all its properties |
| 9 | `StagedRun`, `StagedConnections`, `StagedMemory`, `StagedCpu`, `AuroraStages` | cumulative thread counts, slots, joins of the Aurora stress Lambdas | `AuroraStages` | all its properties |
| 10 (left) | `ProxyConfig`, `SelfHostGenerate` | install before validate, cron against boot; a generator that stops half-way | - | - |

What remains: step 10. Every safety invariant and every action property that a
passing run checks is stated by a theorem; the four liveness properties are
not, and cannot be (section 6).

## 3. The modules and the code

### ConnectionExhaustion: one worker Lambda

`threads` worker threads share `total_held`, which is read and written under a
lock, and nothing else. The lock is released before a socket is opened, so
what a check of the counter allowed is counted later, when the check is stale.
An action is the code between two points where another thread can be seen:

| Code (`connection_exhaustion.py`, `connection_worker`) | Action |
|---|---|
| `while time.time() < end_time` | `LoopTest` |
| read of the counter under the lock, choice of fill, churn or sleep | `ReadTotal` |
| head of the batch loop, second check under the lock | `BatchCheck` |
| `socket.socket()` in `open_and_handshake` | `OpenPool`, `OpenChurn` |
| connect, `PING`, `+PONG` | `HandshakeOk`, `HandshakeFail`, `ChurnDone` |
| `total_held += 1` under the lock | `CountHeld` |
| `finally`: close without the lock, then subtract and store the result | `CloseHeld`, `ReleaseHeld` |
| `t.join(timeout=duration + 60)` thread after thread, the sum, the return | `HandlerJoin`, `HandlerReturn` |

`socket.socket()` stands before the `try` of `open_and_handshake`, so `EMFILE`
is not a failed handshake: it leaves the worker's loop by an exception, and
`OpenSocket` sends the worker to `closing`. The sandbox is external: the lowest
free descriptor, the kill at the function's timeout (`LambdaTimeout`), and the
freeze after the return. Descriptors are numbers up to `FdLimit`; the clock is
whole seconds, advanced by `Tick`.

### Failover: invocations that race on a replication group

Each invocation makes its checks on one description of the group
(`Preflight`, with `ChecksPass` for the checks (a) to (d)), calls
`test_failover` (`TriggerAccepted`, `TriggerRefused`) and polls (`Poll`,
`PollTimeout`). Every exit goes through one of three except clauses that answer
400 or 500 with `failover_initiated = False` (`Fail`). The group is external:
it accepts a failover only when idle; an accepted one does not show in the
status until it begins (`pending`); a change nobody here asked for may begin at
any time between the checks and the trigger. Checks (b) and (c) see the members
of the target node group, each of a kind (`MemberKinds`): only a member whose
role is `replica` is asked for its lag, and one whose lag is absent or not a
number passes, as in the code.

### UnlinkScan and RedisCleanup: removing the keys

The same loop is written three times in the code. `UnlinkScan` is that loop,
over a set of keys that others change: `ScanCollect` puts a key into the batch,
`ScanFlush` unlinks and counts a full one and then may stop for lack of time,
`ScanEnd` unlinks the rest, `ScanError` is an exception with part of the
pipeline applied. SCAN is external and modelled by its documented guarantee:
a key that is there from the first to the last call is returned, another may be
or not, and a key may be returned twice. `owed` is what must still be returned;
`old` (the keys there since the beginning) and `unlinked` (what was really
removed) are history for the properties.

`RedisCleanup` is the clean-up Lambda: the connection and the detection of a
cluster, whose failure counts as "no cluster" (`Connect`), the loop, the
response. Beside it keys are written and expire at any moment. Its operators
have names of their own (`stage`, `CleanupSpec`, `ScanStep` ...), so that one
module of proofs can extend both `RedisCleanup` and `MemoryStress`.

### MemoryStress: filling by phases, then the same loop

The handler starts the writers of a phase (`PhaseStart`, with the integer
division of the shortfall in `Share`), joins each (`Join`), adds up the results
that are there (`Sum`), tops the memory up with further writers while
`used_memory` is short of the target (`FillCheck`, `FillJoin`), reads
`used_memory` again for the next phase (`PhaseEnd`), and cleans up with the loop of
`UnlinkScan`. Flat mode (`_legacy_run`) starts its writers once. A writer is
`memory_worker`: it opens a client, writes by pipelines, and each pipeline is
applied or raises with a part applied. The key of a writer is `<<id, index>>`
and `id` restarts at 0 in every phase, as in the code, so a phase writes over
the keys of the last one: that is what the top-up is needed for. Threads of
different phases may therefore share an id; a thread itself is
`<<phase, id, attempt>>`, attempt 0 for a phase's worker. A join that
times out moves the thread to `abandoned`; it goes on.

Memory is counted in bytes. The handler plans in whole values (`Shortfall` and
the division by `value` in `PhaseStart`, `FillKeys` in a top-up: at least one),
the server adds `cost` for a stored key, which is at least `value`; keys of an
earlier invocation (`leftover`) and other data (`before`) may be there when it
starts. `config` is the environment of the invocation, chosen once in `Init` and
never changed, so that one run considers several. INFO is the answer of one
node, as in the code.

Two properties say a little less than one would first write, because the first
form is false. `RampWithinTarget` bounds the values stored, not the memory: what
the keys cost beyond their values is planned by nobody, and a top-up for a gap
smaller than a value writes one all the same; and as a ramp whose targets
decrease does not shrink the memory, the bound is by the highest target so far,
or what an earlier invocation had left. The ids of the top-ups begin at 900
(`FillId`): with more than 900 workers, or keys left by the top-ups of an earlier
invocation, a top-up writes over keys that are there and may add nothing, so
`PhaseReachesTarget` has the condition `IdsApart`.

### HeldPool and ConnectionOrchestrator: a fleet of workers

`HeldPool` is what one worker Lambda promises: a pool that grows by one
connection at a time, never beyond `Capacity`, drops some, and is empty for
good when the worker is over. `ConnectionExhaustion` implements it
(`KeepsPoolPromise`, with the open descriptors for `held` and `SocketPeak` for
`Capacity`).

`ConnectionOrchestrator` composes one `HeldPool` for each run of an event. Its
handler reads INFO with retries (`InfoBefore`, `InfoFails`, `InfoGivesUp`),
divides the target and caps it (`WorkerTarget`), invokes worker after worker,
where a call that raises may have been queued all the same (`InvokeOk`,
`InvokeRefused`, `InvokeLost`), sleeps `duration + 60` from its last invoke
(`Sleep`, `Wake`) and reads INFO again. Lambda is external: an accepted `Event`
runs one to `MaxCopies` times and starts up to `MaxLate` after it was queued.
`FleetBound` bounds each run, and the whole fleet when no event ran twice: every
further run of an event may add a pool of its own.

### Ledger and TpcB: the transactions

`TpcB` is `tpcb_staged_worker` of `stress_test/cpu_stress.py` on several
connections, beside the clean-up Lambda. One statement is two steps: the lock
of the table (`LockTable`), which queues behind a waiting `DROP`, and that of
the row with its write (`WriteRow`). `Commit`, `CommitLost` (the server
committed, the answer did not arrive) and `Fail` (roll-back and raise) end a
transaction. All writes are increments made in the database, so a table is the
sum of its balances. `Ledger` is the specification above it: a transfer enters
all tables at once, a table may be dropped. Inserting the history last is a
statement like the others.

### DbAccess, PgbenchSchema, AuroraInject, AuroraLab: one Aurora cluster

`DbAccess` is a Lambda process at the database: the secret cached for the life
of the process (`FetchSecret`), the log-in that a rotation may refuse, and
connections that a crash breaks. `PgbenchSchema` has the check of
`ensure_pgbench_schema` (`Check`, which any `psycopg2.Error` fails, on an open
connection as on a lost one), the statements of `_create_pgbench_tables` one by
one under autocommit (`Create`), each of which may raise (`CreateFails`: a
warning in the log, and `False` to the caller, who goes on without the tables
and answers 200), and the clean-up, counting and dropping table after table
(`CleanCount`, `CleanDrop`, `CleanSkip`). `outcomes` is the history of what each
call came to. `AuroraInject` is `execute_injection`: connect, run the query,
fetch its row, and the classification of errors by their class:
`OperationalError`, which a live connection raises too, and `OtherError`. The
crash that a query asks for comes some time after it, or never (`Crash`), so a
crash Lambda may answer with a row. `AuroraLab` is all of them on one cluster;
what a crash does to the others' connections is `BreakConnections`.

### PhasedRun, CpuBurn, MixedWorkload, ValkeyPhases: phases on Valkey

`PhasedRun` is what `cpu_stress.py` and `mixed_workload.py` share: the
connectivity check whose result is ignored (`Ping`), the start of all threads
of all phases (`Launch`), joins with one deadline for the phases and a timeout
each in the flat mode (`NextJoinBy`), and a thread until its loop. `CpuBurn`
adds the script, the duty sleep that may be negative (`SleepRaises`), the
`except` and the `finally` that stores over it. `MixedWorkload` adds the
open-loop schedule (`Send`, `Schedule`), the samples, and the two steps of the
outer `finally` (`Extend`, `StoreCounts`); the handler's report reads results
and samples one after the other (`CountOps`, `CountErrors`, `CountSamples`)
while threads left behind may still end. `ValkeyPhases` chooses by the
environment.

### StagedRun and AuroraStages: phases on Aurora

`StagedRun` is the frame of the three Aurora stress Lambdas: a slot for each
thread of a phase, joins with a timeout of their own, the sums of the slots
(`Amounts`: what the threads did, and their errors), the function's timeout.
`StagedConnections` has the cumulative counts (`NewThreads`) and a thread that
opens a batch, by attempts of which some fail, and holds it by naps (`HoldTest`,
`Nap`, `NapRaises`: the clock is read twice). In `StagedMemory` the handler
opens the missing idle connections one after the other (`OpenIdle`), each of
which may take long and keep it from the next phase, and starts the sessions,
which sleep in the database until the run ends; those that build arrays can do
so only if there is none to declare (`BuildArrays`, section 5). `StagedCpu` has
the four kinds of threads of a phase and their slots (`CpuPlan`). `AuroraStages` chooses by the setting. A CPU operation here is one
step; what it is in the database is `TpcB`.

## 4. What the runs check

| Run | Bounds | What it shows |
|---|---|---|
| `ConnScarce` | 2 threads, target 2, batch 2, churn, 3 descriptors (the peak is 5) | Threads die of `EMFILE` while they hold sockets. The counter is the number of sockets counted and not given back at every moment (`CounterExact`); each open descriptor belongs to a thread that will close it (`NoSocketLost`); a response with every result means an empty pool (`CompleteResponseMeansDrained`); after `end_time` every worker ends (`WorkersWindDown`) |
| `ConnFill` | 3 threads, target 2, batch 2, 5 descriptors (peak 4), no join grace | Three stale checks at once: the overshoot is at most threads - 1 (`OvershootBound`); with the descriptors of the peak no worker leaves its loop early (`PoolKeptUntilEnd`); the invocation implements `HeldPool` (`KeepsPoolPromise`) |
| `FailoverSafe` | 3 invocations, up to 3 members of any kind, 2 polls | A response that claims a failover comes from the invocation that started it (`InitiatedMeansAccepted`); one that answers 200 after it saw the group in transition has waited for its own failover, not for another change that came between its checks, its trigger and its polls (`WaitedMeansComplete`); each invocation answers, even if the group never leaves its transition (`AlwaysAnswers`) |
| `CleanupCluster` | 4 keys on 2 nodes, batch 2, 2 writes, 1 repeat | A full sweep removes every key that was there when it began; `keys_deleted` covers what was removed |
| `MemoryRamp` | 12 environments, 9 bytes of memory and values of 2, 2 faults, 1 thread left behind, 2 top-ups | A phase ends at or above its target unless a top-up failed or its keys were there already (`PhaseReachesTarget`); the values stored pass the highest target so far by less than one of them while no thread was left behind (`RampWithinTarget`); the report covers the keys (`ReportCoversKeys`); the clean-up leaves none when all threads were joined (`NothingLeftBehind`) |
| `FleetPlateau` | 2 workers with 2 threads, cap 1 each, events run up to 2 times and up to 1 late, 2 attempts | No run holds more than the cap and its threads' overshoot, and the fleet no more than the effective total and the overshoot when no event runs twice (`FleetBound`); INFO afterwards shows a drained server if the delays stay under the grace (`AfterReadsDrained`); a worker listed without error ran (`ListedWorkersRan`); the handler returns (`OrchestratorReturns`) |
| `BooksBalance` | 2 workers, 2 accounts, 1 teller, 1 branch, 2 transactions each, the clean-up | The tables agree after every commit, roll-back, lost answer and drop (`BooksAgree`); nobody waits in a circle (`WaitsForward`); a result misses at most its last transaction and then says error (`ResultMatchesServer`); the transaction implements `Ledger` (`EntersAtOnce`); every worker ends (`WorkersEnd`) |
| `AuroraFaults` | 2 creators, the clean-up, a crash and a disk fault Lambda, in four scenarios | Creators that meet at every statement leave no half-made schema unless one failed or was cut off (`HalfMadeMeansFailure`); `dropped_tables` is true (`ListedTablesAreGone`); answers of fault Lambdas are true (`AnswersAreTrue`); a process is refused only after a rotation (`RefusedOnlyAfterRotation`) |
| `PhasedValkey` | 6 environments of up to 3 threads and 3 ticks, 3 attempts, jitter 1, 2 samples | The handler returns in time although threads hang (`ReturnsInTime`); a thread that is over has reported what it counted (`ResultsSayWhatRan`); a stalled server is not flooded (`NoCatchUp`); a report is consistent beside threads left behind (`ReportAddsUp`) |
| `AuroraStages` | 6 settings of up to 3 phases, 2 operations, limit of 5 ticks | The totals of the response, errors included, are those of the threads that left a result; the others died of a negative sleep or were waited for in vain through the whole run and its grace (`ReportIsComplete`); `peak_concurrent` is an upper bound when counts do not decrease (`PeakAsReported`); no load ends before its time without an error (`LoadIsKept`) |
| `FailoverNotInitiated` | 2 invocations, up to 2 members | A counterexample, section 5 |
| `MemoryLeftKeys` | one environment, no fault, 1 thread left behind | A counterexample, section 5 |

Why the bounds are enough. The races of `ConnectionExhaustion` are between a
thread that checked and one that counts: two threads show each of them, three
show that they add up. A target of two lets a batch be larger than the rest,
equal and smaller; three descriptors let a thread fail with a socket in its
list and without one. `FailoverSafe` needs a second invocation to compete for
the trigger, a third whose failover follows on the first's, and members enough
to be too few and enough; two polls tell "again" from "the last". `CleanupCluster` has a full batch, a rest, and a node the plain client
does not see. `MemoryRamp` has phases that start from zero, overwrite, and are
already at the target, pipelines that end with a short batch, gaps that hold
values exactly, with a rest, and not even one, keys that cost more than their
value, and keys left before, under a worker's id and under a top-up's.
`FleetPlateau` has a cap below the wanted share, a duplicate and a late start;
one worker more only adds to the sum. In `BooksBalance` two workers meet on a
row and on different rows, with the clean-up between their statements; a circle
of waiting, if there were one, would need two. `AuroraFaults` splits its
interleavings into scenarios (two creators and the clean-up; two creators, one
of them twice; a creator and the clean-up under a crash; warm processes across a
rotation) because all at once is beyond TLC. `PhasedValkey` has phases one after the other, two threads in one phase,
a batch of two, an interval longer than a tick, and more batches than samples.
`AuroraStages` has counts that grow, shrink and stay, arrays that can be built and that cannot, and idle connections that hold up the next phase. What each run shows on
the small instance is proved for every value in section 6 where it says so.

The named bounds: `MaxRepeats` (keys one iteration returns twice or beyond its
guarantee), `MaxWrites` (keys written beside the clean-up), `MaxPolls` (the
quotient of `MAX_WAIT_SECONDS` and `POLL_INTERVAL_SECONDS`), `MaxFaults` and
`MaxTimeouts` (exceptions, joins that give up), `MaxFills` (5 in the code),
`MaxMemory`, `LambdaLimit`, `FdLimit`, `MaxCopies`, `MaxLate` and `MaxLag` (runs
of an event, its delay, the orchestrator's own), `MaxTx` and `MaxOps`
(transactions and operations of a worker), `todo` of a scenario (invocations of
a Lambda), `MaxJitter`, `MaxSamples` (100000 in the code). `CHECK_DEADLOCK FALSE` stands in the runs of
`CleanupCluster`, `MemoryRamp`, `MemoryLeftKeys` and `AuroraFaults` because an invocation that
has answered does nothing more. The other modules have an explicit final step
instead, so a deadlock there would be reported: in `TpcB` that would be
transactions that wait for one another.

Fairness. `FairSpec` of `ConnectionExhaustion` assumes, while the handler runs,
that the operating system schedules each thread and each handshake ends
(`settimeout` bounds connect, send and receive), and that the clock reaches
`end_time`; nothing of the clock after that, and nothing of the threads after
the handler returned, because Lambda freezes the sandbox. `FairSpec` of
`Failover` assumes that each API call returns or raises and each sleep ends;
nothing of the replication group, which may stay in transition for ever.
`FairSpec` of `ConnectionOrchestrator` assumes that each call of the handler
answers or raises (boto3 and the client have timeouts), that the queue delivers
and that workers end (their function's timeout sees to it). `FairSpec` of
`TpcB` assumes that the phase ends, and that the database carries out a
statement, a commit or a `DROP` that nothing blocks, or fails it when its table
is gone; no error is assumed, and the clean-up need not run. The phase modules
state no liveness: their threads may hang for ever, and `ReturnsInTime` bounds
what the handler does about it.

## 5. Disagreements between the code and its documentation

Two are shown by a run:

* `FailoverNotInitiated`: `failover.py` reserves 400 for pre-flight checks
  (line 8) and tells in `failover_initiated` whether a failover was started
  (lines 164-167). The `except RuntimeError` of lines 250-260 serves the checks
  and the polling alike: a failover that was started and takes longer than the
  deadline is reported as 400 with `failover_initiated = False`. The same goes
  for a `ClientError` while polling (lines 236-249). An operator who believes
  the answer retries a failover that is running.
* `MemoryLeftKeys`: `variables.tf:172` says that memory stress "automatically
  unlinks all stress keys before returning". A join that times out (341, 385,
  202) leaves a daemon thread writing while the clean-up scans. What it writes
  behind the cursor stays, and the response reports the clean-up as done.

Met while modelling, and described by the models without a run of their own:

* The held pool passes `CONNECTION_TARGET_TOTAL` by up to threads - 1, as the
  lock is not held while a socket is opened (`OvershootBound` is the bound that
  does hold), and `EMFILE` ends a thread, which then drops all its sockets
  before the test is over.
* A batch does not look at the clock, so sockets are opened after `end_time`.
* The first poll of a failover may still see `available` from before it, and
  then answers 200 before anything happened.
* A clean-up stopped for lack of time, or made through a client that sees one
  node only, still answers `complete`.
* In a sharded cluster `used_memory` is that of one node, so a ramp may miss
  its target: `PhaseReachesTarget` has the condition `OneNode`.
* The comment at `memory_stress.py:41-44` promises that with
  `CLUSTER_MODE=false` all traffic, clean-up included, stays on the configured
  endpoint; the clean-up (482-490) tries a client of the whole cluster first,
  whatever that variable says.
* `EC/src/cpu_stress.py` calls the phased mode its default; without
  `CPU_PHASE_DURATIONS` it runs flat. The result of the connectivity check is
  used by nobody, in both phased Lambdas: a run whose server does not answer
  goes on.
* An open-loop thread tests the clock, then sleeps to its next slot: its last
  batch may go out up to an interval after its phase. The list of latencies may
  grow between the reads of the percentiles, while threads left behind end.
  `math.ceil(99.9 / 100 * n)` is one too high where the product is a whole
  number that floating point exceeds (n = 1000, 2000, 3000).
* In the flat mode and in all Aurora Lambdas each join has the whole timeout:
  several hung threads keep the handler beyond the function's limit, and then
  there is no response.
* `connected_after` of the orchestrator is read when the workers are over: it
  shows a drained server and never the plateau, and it does not if workers
  started later than the 60 seconds of grace. `effective_total` ignores failed
  invokes.
* `SELECT 1 FROM pgbench_accounts LIMIT 1` succeeds on a table that is empty or
  half of a schema, so a crash between two statements leaves a schema that later
  checks accept (`HalfMadeMeansFailure` says where it can come from). Who failed
  has it in the log only: `ensure_pgbench_schema` answers `False` (78-80),
  `cpu_stress.py` (296-301) takes its series workers instead of the TPC-B ones,
  and the response is 200 with a mode that says `tpcb_like` (412) all the same.
* Any `psycopg2.Error` of that check, a cancelled statement or a lost connection
  included, makes the invocation drop the tables and create them again: a lone
  one can take a complete schema away, and a failed creation leaves it half
  made.
* The clean-up takes any database error for a table that does not exist, and
  may answer that the database is clean when it lost its connection.
* A crash fault answers `crash_injected`, "connection dropped as expected —
  instance crashed" (`aurora_inject/common.py:103`; the README, 108-109, speaks of
  "a connection drop during a crash fault"), after any `OperationalError`: one
  that a live connection raises before the query has run, or the crash of
  another Lambda. `AnswersAreTrue` says what does hold.
* `conn_hold_seconds` is "Seconds to hold connections before closing"
  (`variables.tf:344-348`). `connect_hold_worker` takes it and does not read it:
  a connection is held to the end of the run, as the comment at
  `connection_exhaustion.py:25-26` says (`LoadIsKept`).
* A thread of that Lambda that dies of a negative sleep leaves no result: the
  connections it opened and its errors are missing from the response
  (`ReportIsComplete`).
* The array sessions of the Aurora memory stress join their declarations with
  commas and do not end them (`AU/src/stress_test/memory_stress.py:83`, 90), which PL/pgSQL cannot
  parse: with any array to declare (the default is 3, and `variables.tf:320-321`
  calls them held "simultaneously") each such session fails at once and is in
  `array_agg_errors`. No memory is held by it.
* `failover.py:11` asks every replica in the node group for a lag of at most 30
  seconds; the code passes over a member whose `CurrentRole` is not `replica`,
  one that has none included (104-106).
* A memory ramp passes its target by the overhead of its keys and up to one
  value (`max(1, gap // value_size_bytes)`, `EC/src/memory_stress.py:369`). Keys that an earlier
  invocation left under the ids of the top-ups make it miss the target:
  it writes over them, and they were counted already.
* The Aurora README lets the password be "plaintext or KMS base64"; the code
  always decodes and decrypts it.
* A commit whose answer is lost is in the tables and not in the count, and
  the worker reports an error (`ResultMatchesServer`).
* Phase counts that decrease do not stop threads: the connections open are then
  more than the response says (`PeakAsReported` has the condition
  `NonDecreasing`). A negative `time.sleep` leaves a slot empty.

## 6. What is proved

A theorem holds for every value of the constants: any number of threads,
workers, phases, keys, invocations and failures. The theorems assume the named
assumptions on the constants, which TLC evaluates on every run, and no other:

* counts, durations and limits are natural numbers; batch sizes, pipelines,
  numbers of workers and of threads are positive; sets of clients are finite
  and disjoint; the function's limit is later than `end_time`; outside cluster
  mode one node holds all keys;
* a list with an entry per phase has one for each, and there is a phase
  (`RunAssumption`, `MixedAssumption`, `MemoryAssumption`, `StagedRunAssumption`
  and those of the three staged Lambdas). The Valkey handlers refuse other
  settings before they start a thread. The Aurora handlers take the entries by
  index, so that a list that is too short raises `IndexError` and there is no
  response: such settings are not modelled;
* `MaxFills \in 2..10`. The code has 5; with more than 10 the ids of a phase's
  top-ups would run into those of the next phase (`FillId`), and with one only
  the gap that is smaller than a value would stay.
* a stored key costs at least its value (`MemoryAssumption`), and what an earlier
  invocation left are keys the Lambda writes (`LeftoverAssumption`).

`PoolHeldToTheEnd` has one hypothesis more, `FdLimit >= SocketPeak`.

Sums over threads, phases and workers are folds of the community modules.
`SumLemmas` proves what the other modules need of them: a sum over a finite set
does not depend on the order (`SumIsAdds`, `SumRemove`), changes with one
summand (`SumChange`), is bounded (`SumBound`, `SumMonotone`, `SumCapped`). As
the induction theorems of the library cannot be instantiated, the induction is
by a least counterexample: a set of natural numbers that is not empty has a
least element (`LeastNumber`).

| Module | Theorems | From |
|---|---|---|
| `ConnectionExhaustionProofs` | `TypeCorrect`, `Overshoot`, `NoneLost`, `CounterAlwaysExact`, `PoolPromiseKept`, `PoolHeldToTheEnd`, `CompleteMeansDrained`, `WindsDownWithinSteps` | `TypeInv`, `OwnInv` |
| `OrchestratorProofs` | `ReadsDrained`, `ListedRan`, `FleetIsBounded`; `ReturnsWithinCalls` | `FleetInv`; `CallsInv` |
| `StressKeysProofs` | `CleanupTypeCorrect`, `SweepIsComplete`, `CountIsCovering`; `TargetIsReached`, `RampStaysWithin`, `ReportCovers`, `NothingStays` | `CleanupInv`; `MemoryInv` |
| `FailoverProofs` | `FailoverTypeCorrect`, `CompleteAfterWaiting`, `ClaimsAreTrue`, `AnswersWithinCalls` | `FailoverInv` |
| `TpcBProofs` | `TpcBTypeCorrect`, `BooksAlwaysAgree`, `ResultsAlwaysMatch`, `NobodyWaitsInACircle`, `TransactionsAreTransfers`, `SomeoneAlwaysGoesOn`, `EndsWithinSteps` | `TpcBInv` |
| `AuroraProofs` | `AnswersAlwaysTrue`, `RefusalMeansRotation`, `ListedAlwaysGone`, `HalfMadeNeedsFailure`; `ResponseIsComplete`, `LoadLasts`, `PeakIsBounded` | `InjectInv`, `SchemaInv`, `HalfInv`; `StagesInv`, `JoinsInv`, `PeakInv` |
| `ValkeyPhasesProofs` | `ResultsAlwaysSayWhatRan`, `NeverCatchesUp`, `HandlerReturnsInTime`, `ReportAlwaysAddsUp` | `ResultsInv`, `PaceInv`, `TimeInv`, `ReportInv` |

`StressKeysProofs` and `AuroraProofs` each hold the theorems of two
specifications, which share lemmas (the loop over the keys) or the cluster;
`AuroraStages` calls its specification `StagesSpec` for that reason.

### The arguments

*Connection exhaustion.* `TypeOK` is not inductive: "`left` is at least 0" needs
that a worker opening a socket has iterations left, and "`held` holds
descriptors" that its socket is one (`LocalsOK`). For `Overshoot`, a thread
enters `InFlight` only by a check that saw `total_held < Target`, when at most
threads - 1 others are in flight; `CountHeld` moves one unit from them to the
counter; nothing else raises the sum. `OwnInv`: the descriptors in the lists of
the threads, and those being opened, are disjoint and are just the open ones.
The counter is then the size of the set of pairs of a thread and a socket it
has counted. For `PoolPromiseKept` (`Spec => KeepsPoolPromise`, the refinement
of `HeldPool`) an injection of the open descriptors into the counted ones, those
in flight and those being churned bounds them by `SocketPeak`, and each step is
a `Grow`, a `Drop`, an `End` or a stutter. Below the peak a descriptor is free,
so `EMFILE` cannot happen (`PoolHeldToTheEnd`).

*Orchestrator.* `FleetInv`: a worker that runs is due by its start and its time,
a start comes at most `MaxLate` after the event was queued, and what INFO saw
open belongs to a run that is queued or due after the sleep (`LateRun`). So
nothing can be seen when every run started in time. The bound of the fleet is
the sum of the bounds of its runs, of which each event has at most one.

*Clean-up.* One lemma for each step of the loop, and for a write and a removal
by somebody else, that it keeps `ScanInv(K)`: the types; `OldKeysFound`, that a
key of `old` within the scope is still owed or in the batch; `CountCovers`, that
`deleted` is at least `unlinked`. `OldKeysFound` is the strengthening: the
property only speaks of the loop's end, when nothing is owed and the batch is
unlinked. A batch has at most as many different keys as its length
(`CountIsCovering`). `CleanupInv` adds that a response repeats the loop's final
state.

*Memory stress.* None of the four properties is inductive; `MemoryInv` has a part
for each, all of them over the awaited threads (those the handler is joining):

* `JoinInv`: while no join has timed out, only awaited threads are at work;
* `RampInv`: the values stored and what the awaited threads have still to write
  together stay within the targets and one value. The shares of a phase add up
  to its shortfall, whatever the remainder of the division (`SharesAddUp`); a
  batch takes from what is left at least what it adds, also when it fails
  half-way. As a key costs at least its value, what the handler plans from
  `used_memory` is never more than what the values leave room for;
* `ReportInv`: the keys that were not there at the start are at most those
  reported so far and those the awaited threads have counted, unless one of
  these has an error that is still to be told (`Untold`);
* `SweepInv`: during the last loop, all keys are among those it began with,
  since nobody writes any more;
* `FillInv`: a phase ends at its target or after a second top-up; a top-up shares
  its id with no other thread and with no key left before (`FillIdsAlone`), so
  each of its batches adds as many keys as it has, and the target is less than
  one value further away than what it has still to write. That leaves a gap for
  the second one, whose one value fills it.

*Fail-over.* `FailoverInv`: the types, and for each handler where its own failover
is. One that polls had its trigger accepted, and its failover is over, waits to
begin (then the status is still `available`) or runs; so one that has seen
another status has seen its own failover run, or run out. When the status is
`available` again it is over, as nothing else can begin before it is.

*Transactions.* `TpcBInv`: the types; which tables and rows a transaction holds
at each statement; where the `DROP` is; a commit writes all tables that are left.
Both kinds of waiting go to a later statement, and a `DROP` that waits locks no
other table (`NobodyWaitsInACircle`). `TransactionsAreTransfers` is the
refinement `Spec => EntersAtOnce` of `Ledger`.

*Aurora faults and schema.* `InjectInv` follows a query from the database to the
answer: a Lambda at the fetch has its query run, and one whose own crash has
taken its connection can only get an `OperationalError`. For
`HalfMadeNeedsFailure`, `HalfInv` says where the tables come from: as long as
there was no clean-up and no creation has failed or was cut off (`AllWell`), a
table that is empty has a Lambda between its `CREATE` and its fill, and one that
is gone a Lambda between its `DROP` and its `CREATE`, or it never was, and then
nothing was. A Lambda that is last at a table is the one at work on it, so one
that succeeds leaves nothing half-made behind. `ListedAlwaysGone` rests on
`SchemaInv`: who creates has taken the schema for missing (`CreatorInv`), so
without such a Lambda nobody makes a table again that was dropped.

*Valkey phases.* `ResultsInv`: before it connects a thread has counted nothing,
and its slot is final once it is over. `PaceInv`: `next_send` is at least the
time of the last stall plus one interval per batch since; `NoCatchUp` does not
mention `next_send` and is not inductive. `TimeInv`: the join under way ends by
`joinBy`, which all joins share or, in the flat mode, each moves on by one
deadline. `MixInv` (the case "mixed" of `ReportInv`) follows the numbers from a
thread to the report: a thread has a sample for each batch counted, up to the
limit; the phase's list is the sum of what its threads handed over, which goes
before their slot; each of the three numbers of a report is at most what stood
in the slots, or the list, when it was read, and exactly that when no thread of
the phase was left behind. Capping each thread's samples and adding gives at
least the capped sum (`SumCapped`).

*Aurora phases.* `StagesInv`: a slot belongs to one thread and holds what that
thread has counted, its errors too, so that the sums of the slots are the sums
over the threads that left a result, and a thread that is over has reached its
time or reports an error. `JoinsInv`: a join that the handler has left behind was
of a thread that is over, or ran out, and no join ends before the run and its
grace are over, as it begins with them to go.
`PeakInv`: a holder opens at most its batch, and there are as many holders as
the current phase asks for, as long as the counts do not decrease.

*What liveness rests on.* Each of the four liveness properties has a theorem
about a number that counts down: each step of the handler or worker takes at
least one off, no step of anybody else adds to it, and it is zero only at the
end. The theorems say so as `[]` of a bound and `[][...]_vars` of the decrease:

| Liveness property | Theorem | The number is at most |
|---|---|---|
| `AlwaysAnswers` | `AnswersWithinCalls` | `MaxPolls + 3` |
| `OrchestratorReturns` | `ReturnsWithinCalls` | `WorkerCount + 2 * Attempts + 2` |
| `WorkersWindDown` | `WindsDownWithinSteps`, after `end_time` | `4 * BatchSize + 5` |
| `WorkersEnd` | `EndsWithinSteps`, after the phase | 10 |

`WindsDownWithinSteps` is also what the orchestrator's `WindDown` stands for: of
those steps at most `BatchSize` are handshakes, each as long as its timeout. Transactions
may wait for one another; `SomeoneAlwaysGoesOn` takes the worker of the greatest
`Rank` among those in a transaction, which by `WaitsForward` waits for nobody.
It speaks of the guards of the steps (`CanGoOn`, `DropCanRun`), as `ENABLED` is
out of the prover's reach.

### Only model-checked

The four liveness properties themselves: `WorkersWindDown`, `AlwaysAnswers`,
`OrchestratorReturns` and `WorkersEnd` (liveness under fairness and `ENABLED` are
out of the prover's reach, so that the steps above are taken at all is left to
TLC). The two runs of section 5 are counterexamples. No
module declares a RECURSIVE operator.

## 7. What is not modelled

The proxies' boot scripts and the self-host generator (step 10), and for good:
statistics, the latencies' values and percentiles, the CloudWatch metrics and
the INFO numbers of the responses; the sizes of the Aurora memory sessions;
formatting of keys and payloads; in Valkey memory stress the phase clocks (a
phase may last any time), a cost that differs from key to key and `used_memory`
that moves by itself, with client buffers or other data; an `UPDATE` that meets a table
being re-created and changes no row (`TpcB` starts from a complete schema, and
tables only go); Terraform, Terragrunt, Packer and workflows; stateless code
(the Lua filters, `common.py`'s clients, the CI checks) and interactive code
(the Argo CD installer). `PROJECT.json` gives the reason with each. External
parts are modelled by what the code relies on: the Lambda sandbox and its event
queue, the replication group, SCAN, `maxmemory`, the `MOVED` error, expiry and
eviction, PostgreSQL's locks, autocommit and `DROP`, Secrets Manager, and
connections that break.
