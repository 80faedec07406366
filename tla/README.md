# A TLA+ verification of bibr

bibr turns scholarly PDFs into structured exports. Its extraction code is
sequential text processing; what is hard to get right lives around it: the HTTP
service (`bibr serve`) with its asynchronous jobs, uploads and shared job store,
the batching of model calls, the breakers and limiters in front of outside
services, and the resumable batch runs. This directory models those parts in
TLA+, checks them with TLC and proves the central results with TLAPS.

## 1. Inventory

All paths are below `src/bibr`.

| part | state it keeps | operations | what is hard about it |
|---|---|---|---|
| in-process job store, `serve/jobs.py` `MemoryJobStore` | records, their finish times | `create`, `get`, `discard`, `set_running`, `cancel`, `set_succeeded`, `set_failed`, retention | two retention budgets, TTL, the cap of active jobs |
| job dispatch, `serve/jobs.py` `JobDispatcher`, `_run_job`, `register_job_routes` | queue, running jobs, fingerprint index, workers | POST, DELETE, worker loop, `submit`, `_release_stale`, `close` | everything interleaves at every `await`; requests are cancelled; shutdown |
| uploads, `serve/ingress.py` `UploadStore`, `InferenceDispatchTracker` | files, leases, inference tasks | `persist`, `sweep_stale`, `remove`, `dispatch`, `discard`, `close` | the duty to remove a file is handed from route to queue to worker to task |
| shared job store, `serve/jobs_redis.py` | records, active set, leases; per replica the jobs it owns | the same calls as Lua scripts, the heartbeat | lost replies, retries, lapsed leases, dead replicas |
| upload admission, `serve/admission.py` | two slot counters | `admit`, `release_spool`, `detach_inflight` | one release of each slot on every way out |
| batching, `serve/batching.py`, `pipeline/inference_batcher.py` | queue, collector, futures | `submit`, `close`, the collector | cancelled callers, poisoned batches, stopping in the middle of a batch |
| outbound calls, `utils/circuit_breaker.py`, `utils/rate_limiter.py` | breaker state, probe, waiters; window of timestamps | enter/exit, `acquire` | one probe, late answers, hand-over of the timer |
| batch ledger, `batch/ledger.py`, `batch/runner.py` | an append-only file | `start`, `record`, `plan` | kills between two lines and in the middle of one |
| remote batch, `batch/remote.py` | tasks, in-flight gate | `process`, `run`, `_drain` | lost replies, retries, cancellation, deadline |
| checkpoints, `pipeline/artifacts.py`, `pipeline/stages/{core_checkpoint,enrich,export}.py`, `local/artifacts.py` | core file, sidecar, public file, run state | checkpoint, enrich, export, resume | each write can fail or be the last one |
| pipeline and its models, `pipeline/pipeline.py`, `resources.py` | lazily created shared models | `ensure_*`, shutdown | concurrent first uses, cancelled creation |

How they interact: a POST creates a record in the *store*, writes its *upload*,
and queues the job in the *dispatcher*; a worker claims the record, hands the
upload to the *tracker*, whose inference task runs the pipeline (with its
batchers, breakers and limiters) and removes the upload; the worker records the
outcome. DELETE, the duplicate check, the stale-upload sweep and the shutdown
hook act on the same state at any suspension point. A remote batch is a client
of these routes.

What makes each part correct: the store keeps its cap and budgets, and an
outcome once told gives way at most to that of the job's own run; the dispatcher runs every accepted job at most once and
never a cancelled one, and ends every one of them; every upload has exactly one
party left to remove it, and is there when it is read; the shared store gives
back the slots of dead replicas; a slot, a future, a breaker's probe and a
limiter's turn are given back on every way out; a batch run counts every paper
once and resumes what was cut short; a public export is never a mix.

`PROJECT.json` lists every component, modelled or not, and every hazard at the
line where it bites.

## 2. Modules

| module | models | state and actions |
|---|---|---|
| `MemoryJobStore` | class `MemoryJobStore` | `status`, `finishedAt`, `clock`, `aged`; one action per method. `Purge` is the tail of every method that calls `_purge_locked` |
| `JobLifecycle` | what a client may see of jobs | abstract specification: `Accept`, `Withdraw`, `Answer`, `Start`, `End`, `ForgetOutcomes` |
| `JobDispatch` | the routes, `JobDispatcher`, `_run_job`, tracker and upload store of one replica, composed with the store (it EXTENDS `MemoryJobStore` and conjoins the store's actions) | per POST `post`, `seen`, `todo`; per DELETE `del`; the queue `waiting`; per worker `pc`, `held`; `byPrint`, `printed` (fingerprints); `file`, `leased` (uploads); `task`, `verdict` (inference); `blind` (jobs whose run and record have parted); `late` (jobs whose outcome may still reach a shared store); `closer`, `killed`, `toRecord`, `toDiscard` (shutdown) |
| `RedisJobStore` | class `RedisJobStore` on every replica and its Lua scripts | the server's `record`, `active`, `lease`; per job its replica's `at` and the outstanding `call`; `owned`, `renewal` (heartbeat), `late` (commands given up on), `up` |
| `SharedLifecycle` | what a client may see of jobs when replicas share the store | abstract specification: `Accept`, `Refuse`, `Start`, `StartUnclaimed`, `Cancel`, `Abandon`, `End`, `Withdraw`, `ForgetOutcomes` |
| `EventLoops`, `CircuitBreaker`, `RateLimiter`, `OutboundCalls` | `utils/circuit_breaker.py` and `utils/rate_limiter.py`, composed as `CloudOcrClient.recognize` does | breaker `state`, `age`, `probe`, `registered`, per caller `spot`; limiter `window`, `armed`, `line`, per caller `turn`; per call `at`, `attempt` |
| `Ledger`, `BatchRun` | `batch/ledger.py`, `batch/runner.py` | `lines` of each paper, `torn`; per run `pc`, `mode`, `place` of each paper, `stale`; `lock`, `export` |
| `RemoteExecutor` | `batch/remote.py` against a serve | `main` loop, `stop`, `late`, `gate`; per paper `at`, `tries`, `why`, `outcome`, `recorded`; the serve's `job` |
| `Batching` | `serve/batching.py`, `pipeline/inference_batcher.py` (`kind` says which) | per generation `collector`, `queue`, `batch`, `last`; per caller `future`, `got`; `task`, `open`, `closing`, `closed` |
| `MC...` | instances for TLC | constants only |
| `MemoryJobStore_proofs` | theorems about the store | |
| `JobDispatch_proofs`, `JobOwnership_proofs` | theorems about a replica: its dispatcher and records and that it implements `JobLifecycle`; who owns its uploads and its slots, and that it calls the in-process store as that store assumes | |
| `RedisJobStore_proofs`, `OutboundCalls_proofs`, `BatchRun_proofs`, `RemoteExecutor_proofs`, `Batching_proofs` | theorems about the shared store, the breaker and the limiter, the batch runs, the remote executor and the batchers | |

### MemoryJobStore

Every method holds one `asyncio.Lock` and never suspends under it, so it is one
action. Finish times are ranks of a logical clock because the monotonic clock
only orders finished jobs. `Age` lets the TTL pass for a job and for every job
that finished before it; the purge in the next call then removes them. The
code's eviction loop pops the oldest job while what remains is over a budget;
`Evicted` says the same without a loop: both budgets only shrink as jobs leave,
so a job goes exactly when the jobs that finished no earlier are over budget.

### JobDispatch

An action is what a handler does between two suspension points. Awaiting the
in-process store does not suspend (an uncontended lock, no I/O), awaiting a
shared store does: `Shared` selects, and `Turn`, `AnyTurn`, `MidStep` keep the
event loop with a handler that does not suspend. With `Shared`, the record of a
job changes without this replica (`Elsewhere`): another one cancels it
(`RemoteCancel`), a create elsewhere finds its lease lapsed and fails it as lost
(`RemoteLoses`), it expires or is evicted by the outcomes of others
(`RemoteForgets`), and an outcome whose worker has given up arrives after all
(`LateOutcome`). `Outages` lets calls fail. `DiskFaults` lets
the removal of an upload fail. A request may be cancelled wherever it suspends
(`PostAborts`). A POST is named by the id of the job it would create, so its
upload, record and task are functions on `Jobs`.

Conventions worth knowing when reading it against the code:

- `start()` creates the workers at the first submit, which also wakes them: the
  model starts with the workers asleep.
- `closer` orders the shutdown as the hooks of `register_job_routes` do: the
  dispatcher, then the store, the tracker, the uploads.
- A worker's `_run_job` is `Take`, `Claim`, `Skip` or `Dispatch`, `Receive`,
  `Record`, `Release`; the inference task is `Consume`, `TaskEnds`,
  `TaskRemoves` and outlives its worker.
- `blind` is a history variable: the jobs whose record may have parted from their
  run, because the store did not answer `set_running` or did not confirm the
  outcome, or because another replica ended or dropped the record of a running
  job. The code lets such a job run on and record its outcome, without asking for
  a status. `OnlyClaimedJobsRun` leaves these jobs out, and `OnlyItsRunRevises`
  allows just that revision: `OwnOutcome`, the worker that holds the job recording
  it, or its late command.
- `late` are the jobs with an outcome that may still reach the store after its
  worker has stopped waiting for it (a timeout, a cancellation). A late create or
  discard leaves or drops a record nobody reads here; `RedisJobStore` has the late
  commands of every kind. The finish times of a shared store are of no
  consequence to a replica, so a late outcome takes the rank of its arrival.
- `TimePasses` is the TTL of the in-process store; a shared one drops its records
  itself (`RemoteForgets`).

### RedisJobStore

A script runs atomically in the server, so it is one step (`Runs`); the reply is
another (`Answered`), and it may not come (`TimesOut`, `Retries`, `GivesUp`).
A command whose caller gave up may still run later (`late`, `RunsLate`), which
is why a retried transition can meet its own effect. `Lapses` is the expiry of
a lease, `Expires` that of a record, `Dies` the loss of a replica. Finish times
come from the clocks of different hosts, so the oldest outcome is any outcome.
The byte budget is in `MemoryJobStore` only. `blind` is the same history
variable as in `JobDispatch`.

### CircuitBreaker, RateLimiter, OutboundCalls

Both utilities are shared by tasks of several event loops (the pipeline runs
`asyncio.run` per call in places), so a loop may end with a caller inside, on
the timer or as the probe (`LoopEnds`). The breaker is entered and left without
a suspension except for the wait on an event, the limiter acts from one wait of
its condition to the next. Time is the `age` of the open state and slots that
age out of the `window`. A caller in `OutboundCalls` makes an attempt, waits for
its turn, enters the breaker, is answered, and tries again after a backoff; it
may be cancelled at each of these awaits.

### Ledger, BatchRun

The ledger is kept as the sequence of lines of each paper, because reading it
never compares lines of two papers. `Attempts`, `Unsettled`, `PicksUp` are the
loops of `attempts` and `plan` as set comprehensions. `BatchRun` is several
processes that run the same batch on one out dir over and over: `Begin` notes
the state of the file, `Plan` reads it, `TakeLock` plans again if it changed
(`stale`), and everything after that holds the lock. A process is killed by a
paper (`KilledByPaper`), or from outside at any point, also in the middle of an
append (`Killed`, `AppendTorn`). Inputs do not change between runs.

### RemoteExecutor

One task per paper in flight and the main loop; each action is what happens
between two awaits. The serve is an environment that takes, runs, finishes and
forgets jobs at will (`JobStep`) or never does. Counters of polls and errors are
choices: a task may give a job up at any look (`GivesUpJob`). The job status
"adrift" marks a queued job whose id or DELETE was lost on the way: a client
cannot know of it, and `NoOrphans` says that those are the only ones left
behind. The second Ctrl-C is a KeyboardInterrupt that `asyncio.run` turns into
a cancellation while the loop waits; a third one is left out. `OutcomeRefused` is
an `on_outcome` that raises (the ledger cannot be written, or that Ctrl-C comes
while it runs): some of what was due is recorded, the run ends in "failed", and
the tasks still in flight are cancelled behind a closed client, so the jobs they
knew of are left to themselves.

### Batching

The two classes differ in how they stop (a cancelled collector, a mark in the
queue), in what a failed batch means and in who may come after `close`; the rest
is shared. A collector belongs to an event loop, a new one is a new generation.
The model function answers an item with the item itself, so that an answer that
reaches the wrong caller shows.

## 3. Runs

| run | instance | what it shows |
|---|---|---|
| `MemoryJobStore` | 4 jobs, cap 2, count budget 3, byte budget 2, results of 1, 1, 2 and 3 bytes | the cap and both budgets always hold; eviction is oldest first and spares the job that just finished |
| `NewestResultKept` (violation) | the same | the documented promise that the newest *result* is kept is broken: a failed or cancelled job that finishes later counts as the newest and lets the result go |
| `JobDispatchMemory` | in-process store, 3 jobs, 2 of them duplicates, 2 workers, cap 2 | types, ownership of uploads and of slots, one run per upload, that the replica implements `JobLifecycle`, and that it calls the store as `MemoryJobStore` assumes (`CallsStoreAsAssumed`) |
| `JobDispatchShared` | shared store with outages and disk faults, 2 jobs that are duplicates, 2 workers, cap 1 | uploads are there when read, the index names held jobs only, nothing is held twice, only claimed jobs run, and an outcome gives way only to that of the job's own run, whatever other replicas do to the records |
| `JobDispatchLive` | in-process store, 2 jobs, 1 worker, no symmetry | every accepted job ends and shutdown terminates |
| `OneRunPerUpload` (violation) | shared store, 3 duplicates, 1 worker | with a store that suspends, two uploads of the same paper can both be queued: the check reads the index before the await and submits after it |
| `SlotsAreOwned` (violation) | in-process store, disk faults, 2 jobs, 1 worker | a rejected upload that cannot be unlinked leaves its record active for good: `_discard_submission` removes the upload first and never gets to the record |
| `redis_store` | 2 replicas (one may die), one job each, cap 1, one retained outcome, one late command | the cap over replicas, leases of running jobs, bounded outcomes, that the shared store implements `SharedLifecycle` (outcomes stand, refusals only at the cap), every slot comes back |
| `outbound_calls` | 3 callers on 2 loops, one of which may end, 2 attempts, threshold 2, one slot per window | half-open has its probe, only a live probe reopens, no turn is lost, every call ends |
| `batch_run` | 2 papers, a local and a remote process, 2 unsettled failures allowed, one fault, one flagged run; one paper kills every local run | an ok verdict has its export, results stand, a killer takes its neighbours once, the batch settles |
| `remote_executor` | 2 papers, 1 retry, gate 1 to 2 | one outcome per started paper (at most one in a run that fails on `on_outcome`), no orphaned job, the run ends |
| `batching` | 3 callers (one with a poisoned item), batches of 2, 3 collectors | everybody gets the answer to the own item, every submission is settled |

Why these bounds are enough: two workers and three jobs give every pair of
actors that can meet on a job (POST, DELETE, worker, task, shutdown), a queue at
its cap with a stale entry, and a duplicate that meets a job queued, held and
ended. In the run with faults (3.5 million states) two jobs and
cap 1 are a duplicate and its original, each of which another replica may take
away at any point. In the store run one result is larger than the byte budget alone and
one fits it exactly. In `redis_store` the two jobs compete
for the one slot and for the one retained outcome, and one late command is a
retry that meets its own effect; the store itself treats jobs alike. Three
callers are a probe, a waiter on the same loop and one on another; a threshold
of 2 tells a success that resets the count from one that does not. Two batch
processes race for the lock, and `MaxUnsettled = 2` (3 in the code) lets the
killer fail once, be run alone, and be given up; one fault meets each of its
steps. Two papers and one retry of the remote executor put one paper into each
state while the other is in any. Batches of 2 with 3 callers leave one behind in
the queue. `SYMMETRY` permutes the workers and the jobs of the same
paper in safety runs only. The logical
clock of the store ends with the jobs; the bounds by name are `MaxLate`,
`MaxFaults`, `MaxFlagged` and `MaxGenerations`.

Which properties need which setting, as the runs found out:

- `HeldUploadIsTrackers`, `OneRunPerUpload` and the open part of
  `UploadsAreOwned` hold with the in-process store only: with a shared one a
  worker can be cancelled while it claims a job, and the look at the index is
  interleaved with other submits.
- The queue stays within `JOBS_MAX_ACTIVE` with the in-process store, where the
  loop of `_release_stale` is never entered: that is proved (`QueueCorrect`) and
  no run checks it. For the shared store, which the loop is for, the bound its
  docstring gives (`jobs.py:624`) does not hold: a store that does not answer
  ends the loop, and a job that another replica declared lost while its POST was
  still writing the upload joins the queue without holding a slot. TLC finds both
  (the second with three jobs). What the loop must not do, remove the upload of a
  job that a worker has taken meanwhile, is `UploadsAreThere`.
- `SlotsAreOwned` holds with the in-process store and without disk faults.
- `CallsStoreAsAssumed` (a replica's steps are steps of `StoreSpec`) is about the
  in-process store: a job that runs blind may end in a record that the store on
  its own would only see queued or ended. `StoreTypeOK` is checked where the
  store is called, as a conjunct of `TypeOK` of `JobDispatch`.
- `ImplementsLifecycle` needs `JOBS_MAX_RETAINED` of at least 1 (a count budget
  of 0 forgets a job as it finishes) and the in-process store: over a shared one
  an outcome may change (`OnlyItsRunRevises` says how), which `JobLifecycle` does
  not allow and `SharedLifecycle` does.

Fairness (`JobDispatchLive`). The event loop runs every ready handler in turn,
and what a handler awaits completes: a store call, a file operation, and an
inference because LitServe bounds the time of a request. A handler that waits
for its turn is enabled again and again, not always, so fairness is strong. A
client owes nothing: no POST or DELETE has to come, and a shutdown need not.
Worker and task are separate so that a worker that waits for a task needs that
task's fairness, and a cancellation that a dependency swallows
(`CancellationConsumed`) is never required to happen.

The other liveness runs. `redis_store` (`SlotsComeBack`): a replica that lives
goes on with its jobs, a retry budget runs out, a lease nobody renews lapses by
its TTL, refused clients ask again; no heartbeat, no late command and no answer
of a client is required. `outbound_calls` (`CallsEnd`): time passes and a call on
a running loop goes on; entering the breaker is strongly fair, since the breaker
opens and closes while the caller waits for its turn on the loop. `batch_run`
(`BatchSettles`): a run goes on until it ends or dies and the command is run
again; faults and flags are bounded, so from some point on runs are plain.
`remote_executor` (`RunEnds`): requests and sleeps end (all have timeouts); the
serve owes nothing, and neither Ctrl-C nor deadline has to come. `batching`
(`Answered`): the model function returns and a cancelled task ends.

Three things these runs made plain and that the properties are stated around:

- `GpuBatcher.close` ("fail any still-pending submissions", `batching.py:186`)
  settles only what is queued: callers whose entries the collector had taken
  wait for ever unless their own task is cancelled, and so do those in a queue
  that a submit replaces while `close` waits. `LeftByClose` names them.
- A `--force` run that is killed between the write of an export and its verdict
  leaves an export that the last ok line does not describe, though
  `ledger.py:409` says a killed attempt never replaced it. `OkHasExport`
  therefore asks for an export of that attempt or a later one.
- A remote verdict after a killed local attempt closes that attempt's started
  line (`ledger.py:358`): its number is used again, so numbers do not always
  increase as `docs/guides/batch.md:92` says, and the kill is not counted as a
  crash. `Numbered` in `BatchRun_proofs` is what does hold.

`SharedLifecycle` lets the two verdicts that tell a client to submit again ("lost"
and the shutdown's) give way to the outcome of a job that ran after all; the
store writes it on purpose. `OnlyItsRunRevises` is the same statement from the
replica's side: which of its steps, and of its late commands, may do so.

What a property leaves out on purpose is said at its hazard in `PROJECT.json`: a
job that runs although it was cancelled, because its claim went unanswered; a
late success that closes a breaker; the first job of a paper whose submit reply
was lost. They are what the code does, so no property calls them wrong.

## 4. Proofs

`MemoryJobStore_proofs` proves for every set of jobs and every value of the
settings, from `StoreAssumption` (finite `Jobs`, natural budgets):

| theorem | statement |
|---|---|
| `StoreTypeCorrect` | `StoreSpec => []StoreTypeOK`, with the relation between status, finish time and age |
| `CapCorrect` | `StoreSpec => []CapRespected` |
| `RetentionCorrect` | `StoreSpec => []RetentionBounded` |
| `ForgetsOldestCorrect` | `StoreSpec => ForgetsOldestFirst` |
| `JustFinishedCorrect` | `StoreSpec => JustFinishedIsKept` |

The inductive invariant is `StoreInv`: the typing invariant and `ClockIsAhead`
(no job finished after the clock's rank). The typing invariant alone does not
carry the last theorem: that the job which has just finished is the newest, and
so is spared by both budgets, needs the clock to be ahead. `PurgeForgetsFinished`
says what a purge may change and all of them rest on it; `PurgeBoundsRetention`
finds the oldest job that survives (`OldestExists`, by the well-founded order of
the naturals): the jobs no older than it are all that survive, and they are
within both budgets because it was not evicted.

The byte budget is a sum that the library computes by a recursive fold, so its
proof has to say what that fold computes. `TotalsExist` shows that a function
with the fold's equation exists on the sets of jobs, by taking a smallest set
size without one; with it `BytesTotals` unfolds the sum, `BytesOfOneMore` shows
that adding a job adds its size whichever job the fold takes first, again from a
smallest counterexample, and `BytesGrow` that a larger set has no fewer bytes.
None of these uses induction as a rule. Then a set that is over a budget
stays over it as jobs join (`OverBudgetGrows`), which is why evicting from the
oldest is the same as `Evicted`, and why an evicted job's elders go with it.
`ForgetsOldestCorrect` needs one fact more about a state: the jobs whose TTL has
passed finished before all others (`AgedAreOldest`).

The proofs about `JobDispatch` hold for any jobs and workers and any settings,
from the same assumption and `DispatchAssumption`:

| theorem | statement |
|---|---|
| `DispatchTypeCorrect` | `Spec => []TypeOK` |
| `HeldOnceCorrect` | `Spec => []HeldOnce` |
| `FingerprintsCorrect` | `Spec => []FingerprintsAreHeld` |
| `OnlyClaimedCorrect` | `Spec => OnlyClaimedJobsRun` |
| `RevisionsCorrect` | `Spec => OnlyItsRunRevises` |
| `LifecycleCorrect` | `~Shared`, `MaxRetained > 0`: `Spec => ImplementsLifecycle` |
| `UploadsThereCorrect` | `Spec => []UploadsAreThere` |
| `UploadsOwnedCorrect` | `Spec => []UploadsAreOwned` |
| `HeldUploadCorrect` | `~Shared`: `Spec => []HeldUploadIsTrackers` |
| `SlotsCorrect` | `~Shared`, `~DiskFaults`: `Spec => []SlotsAreOwned` |
| `OneRunCorrect` | `~Shared`: `Spec => []OneRunPerUpload` |
| `QueueCorrect`, `ActiveCapCorrect` | `~Shared`: `Spec => [](QueueBounded /\ NoAdmitting)`, `[]CapRespected` |
| `StoreCallsCorrect` | `~Shared`: `Spec => CallsStoreAsAssumed`, that is `StoreSpec` |
| `RetentionOfReplica` | `~Shared`: `Spec => []RetentionBounded`, `ForgetsOldestFirst`, `JustFinishedIsKept` |

Those that assume `~Shared` are about the in-process store: the runs
`OneRunPerUpload` and `SlotsAreOwned` show what a shared store does to
the first two of them. `DiskFaults` costs `SlotsAreOwned` because a discarded
submission whose upload cannot be removed keeps its record.

None of these is inductive. `DispatchInv` adds to what the runs check:
`HeldAreAccepted` (only an accepted POST's job is in the dispatcher, so no job
joins twice), `HoldsByState` (a worker holds a job exactly in the middle of its
turn), `DrainedIsEmpty` (nothing joins after the shutdown has drained queue and
workers), `ClaimedRuns` (from claim to outcome the record of a job outside `blind`
says running), that `late` jobs are `blind`, and `ClearingHasHead`. `ClaimedRuns` is
what carries the two action properties: the only party that may revise the record
of a job is its own worker, by `HeldOnce` there is one, and it finds a finished
record only of a blind job. `ElsewhereKeeps` says how little of the replica a
change made elsewhere touches.

The argument for uploads (`UploadInv`) follows the duty to remove one:
`SubmittedIsThere` while a POST has it, `NotYetDispatched` (once a task exists
the job is past the queue and past its worker's claim) and `ReleasedIsOut` (who
removes a released job's upload knows that the job can never come back).

`OwnerInv` says who removes it in the end. `OwnerMoves` lists what may become of
each kind of owner (the POST, the queue, a worker, the task, a release): it keeps
the upload, hands it to the next kind or gives up the lease. `ShutdownOrder` (only
the shutdown cancels, and it takes over records and uploads only after it has
drained the dispatcher), `AwaitsTask` and `DoneIsUnleased` are what the hand-over
from a cancelled worker to the tracker rests on.

For the refinement, `LifeInv` adds that nobody touches a record before its POST
is answered (`PendingQueued`) and that the shutdown fails answered jobs only.
Every step then does one of six things to the records (`LifeMoves`), and each is
a step of `JobLifecycle`; that a finishing job keeps its outcome in the step that
finishes it is `NewestSurvives` of the store.

The slots. With the in-process store a handler that awaits a store call runs on,
so at most one handler is between two of its steps (`OneMidStep`, from
`TurnsExclude`). Hence a POST decides on the index as it looked it up
(`CheckingSeesIndex`), and the index leads to every active job
(`IndexLeadsToActive`, which gives `OneRunPerUpload`: an index has one entry per
fingerprint). A record of a waiting job is stale only while the DELETE that
ended it is about to take it out (`WaitingAreQueued`, `ReleasedHaveEnded`), so
at a POST's turn every waiting job is active and so is its own: the queue is
shorter than the cap (`QueueFits`) and the loop over stale jobs is never entered
(`NoAdmitting`). A worker skips or lets go only of a job that has ended
(`TakenNotRunning`, `SkippedHaveEnded`), and the shutdown finds no job it must
discard running (`DiscardedNotRunning`): whoever gives an active job up hands it
on, which is `SlotsAreOwned`.

The store under the replica. The theorems of `MemoryJobStore` are for callers
that discard queued jobs only, let only running ones succeed and fail active
ones only. `StoreCallsCorrect`
shows that the replica is such a caller: who discards a record has a POST whose
job is queued (`PendingQueued`), who records an outcome holds a job that
`ClaimedRuns` says is running, and a shutdown fails active jobs. With it the
store's theorems become theorems about the replica (`RetentionOfReplica`)
without a second proof.

The actions are met in summary lemmas only (`RecordSteps`, `DispatcherSteps`,
`ReplicaSteps`, `UploadSteps`, `OwnerSteps`, `LifeSteps`, `StatusSteps`, `PostSteps`,
`PlaceSteps`, `StoreSteps`): each says what any step may do to one part of the state, and the
invariants are proved from the summaries.

### The shared store, the breaker and limiter, the batches, the batchers

| module | theorem | statement |
|---|---|---|
| `RedisJobStore_proofs` | `StoreTypes`, `CapHolds`, `HeldHolds`, `BoundHolds` | `Spec => []TypeOK`, `[]CapOverReplicas`, `[]HeldIsOwned`, `[]OutcomesBounded` |
| | `SharedLifecycleCorrect` | `Spec => ImplementsSharedLifecycle` |
| | `OutcomesHold` | `Spec => Lifecycle!OutcomesStand` |
| `OutboundCalls_proofs` | `WaitersHaveAProbeAlways` | `Spec => []WaitersHaveAProbe` |
| | `OnlyProbeReopensAlways` | `Spec => OnlyProbeReopens` |
| | `TurnIsNotLostAlways` | `Spec => []TurnIsNotLost` |
| | `TypeCorrect` | `Spec => []TypeOK`, with the limits of its counters |
| `BatchRun_proofs` | `OkHasExportAlways` | `Spec => []OkHasExport` |
| | `ResultsStandAlways` | `Spec => ResultsStand` |
| | `NeighboursSparedAlways` | `Spec => []NeighboursSpared` |
| | `TypeCorrect` | `Spec => []TypeOK` |
| `RemoteExecutor_proofs` | `RecordedOnceAlways`, `NoOrphansAlways` | `Spec => []RecordedOnce`, `[]NoOrphans` |
| `Batching_proofs` | `OwnAnswerAlways`, `BatchesFit` | `Spec => []OwnAnswer`; every batch holds callers only, at most `MaxBatch` |

They hold for any jobs, replicas, callers, loops, papers, processes and collectors, from the
assumptions named in the modules.

`RedisJobStore_proofs`. The cap is inductive with `SlotsMatch` (a slot belongs to
an active or an expired record, a lease to an active one): a create counts what
it keeps before it adds. `HeldIsOwned` and the refinement need to know what a
late command can still do: `Unborn` (a create that may run late has not run) and
the invariants about claims say that no command given up on can move a record
that a later one has settled. Each script is then one action of
`SharedLifecycle`, whoever sends it and however late it runs (`ScriptImplements`):
a create is `Accept` or `Refuse` (the slots it counts are exactly the live jobs
it does not declare lost), a transition moves its job on while it forgets
outcomes, everything the replicas do among themselves is a stutter. That no
outcome is revised follows from the abstract specification alone
(`OutcomesHold`).

`OutboundCalls_proofs`. `WaitersHaveAProbe` is inductive with the types. The
limiter never touches the breaker, so a step of the system is a step of the
breaker by one running caller, the end of a loop or the clock (`SystemSteps`).
`TurnIsNotLost` needs `LimiterInv`, which ties the three things the limiter keeps
together: the line of a loop holds exactly its callers that wait, each once, and
`timer_armed` is set exactly while one of its callers has the timer. With that,
whoever leaves the line (`HandOver`) wakes a caller that waits, and one that finds
the window full parks only when another of its loop is on the timer (`Parks`).
The type invariant has bounds in it that a step could break: `Counts` says that
the failures never pass the threshold, the window never holds more than
`MaxRequests`, and a call that may still try again has an attempt left.

`BatchRun_proofs`. `Holds` (who works has the lock), `Numbered` (no line of a
paper is later than its next attempt), and `Progress`, which says what a run may
still assume: a paper being processed locally has its started line as the last
line, a written export is of the attempt its verdict will name, and a plan that
is not stale takes up no ok paper without `--force`. Whoever writes has the lock,
so every other plan is stale by then (`OthersAreStale`).
`NeighboursSpared` counts the attempts without a verdict at the end of a
ledger, and a count alone is not inductive: a run may be about to add one.
`SparedInv` adds who may: whoever has started and has no verdict yet is alone in
its chunk or was started together with the whole chunk (`Together`), so the
count of a paper that kills nobody is one more than the faults allow only while
the run that has it in hand can still write its verdict (`Spared`).
`TrailOfStart` and `TrailOfVerdict` say what an appended line does to the count.

`RemoteExecutor_proofs`. A paper is `recorded` exactly when its outcome was, and
only tasks that have ended can be, also in a run that fails on an outcome
(`OutcomeRefusedSteps`); a queued job is always known to a task that will poll,
fetch or delete it.

`Batching_proofs`. A batch is filtered when it is called (`Active`, the entries
whose future is pending), and the results are handed out by position in the
filtered batch, while the futures are settled one by one. `ActiveProperties`
says that `Active` lists the pending entries in the order of the batch
(`RanksAreDense`: their ranks have no gaps), so position n of the answer belongs
to the caller at position n (`ScatterIsOwn`). The rest is that a batch never
holds the stop mark (`ReadyProperties`, which finds where a gathering stops) and
never grows beyond its limit (`Fits`). `Active` picks entries by their
rank in place of the library's `SelectSeq`, which no prover here can unfold.

### What is only model-checked

Every safety property and action property that a passing run checks is also a
theorem. Liveness under fairness is out of this prover's reach, and stays with
TLC: `AcceptedJobsEnd`, `CloseTerminates`, `SlotsComeBack`, `CallsEnd`,
`BatchSettles`, `RunEnds`, `Answered`.

## 5. What is left

1. `BatchRun` over `RemoteExecutor` in place of its nondeterministic remote
   runs, and `RemoteExecutor` over `JobLifecycle` in place of its serve.
2. The slots of `serve/admission.py`, the Redis rate limiter, and the four
   writes of a checkpointed export.

## 6. Not modelled

Extraction, document model, readers and export schema: sequential functions of
one document, by far the larger part of the code; what they compute is text,
out of a finite model's reach, and their unit tests are the right tool. Local
model servers, OCR engines, HTTP clients: processes and I/O. Configuration,
command line, demo. Checkpoints of the pipeline: each file is written
atomically, and whether a set of them agrees depends on the contents. Shared
models of the pipeline: who may release one depends on the settings of every
stage.

In the modelled parts: the status and result routes (reads),
`JobDispatcher.join`, a dispatcher created anew after `close`, a second
cancellation of a request that is cleaning up; result bodies and the byte budget
of the shared store; the Redis rate limiter and the semaphore; manifests,
preflight, inputs that change between batch runs, reports and tables; batch runs
on a filesystem without locks, which go on unguarded after a warning
(`runner.py:180`); a third Ctrl-C.
