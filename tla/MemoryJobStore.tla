--------------------------- MODULE MemoryJobStore ---------------------------
(***************************************************************************)
(* The in-process job store of bibr serve (class MemoryJobStore in         *)
(* bibr/serve/jobs.py): job records, the active-job cap and the retention  *)
(* of finished jobs.  Every method runs under one asyncio.Lock and never   *)
(* suspends while it holds it, so each method is one atomic action here.   *)
(*                                                                         *)
(* A job is an element of Jobs; a POST that gets as far as `create' takes  *)
(* a fresh one.  The two things told apart about a failed job are whether  *)
(* it was cancelled while queued (error_code job_cancelled, 410) or failed *)
(* in any other way.  Finish times are ranks of a logical clock: the       *)
(* monotonic clock only ever orders finished jobs.                         *)
(***************************************************************************)
EXTENDS Naturals, FiniteSets, FiniteSetsExt

CONSTANTS
    Jobs,             \* job ids (uuid4 hex in the code)
    MaxActive,        \* JOBS_MAX_ACTIVE
    MaxRetained,      \* JOBS_MAX_RETAINED
    MaxRetainedBytes, \* JOBS_MAX_RETAINED_BYTES; 0 disables the byte budget
    ResultSize        \* encoded bytes of the result each job would have

ASSUME StoreAssumption ==
    /\ IsFiniteSet(Jobs)
    /\ MaxActive \in Nat
    /\ MaxRetained \in Nat
    /\ MaxRetainedBytes \in Nat
    /\ ResultSize \in [Jobs -> Nat]

VARIABLES
    status,      \* status[j]: the record of j, "none" before create, "gone" after
    finishedAt,  \* finishedAt[j]: rank at which j finished, 0 while it has not
    clock,       \* the last rank handed out
    aged         \* finished jobs older than JOBS_TTL_SECONDS, not purged yet

storeVars == <<status, finishedAt, clock, aged>>

ActiveStatuses == {"queued", "running"}
FinishedStatuses == {"succeeded", "failed", "cancelled"}
Statuses == ActiveStatuses \cup FinishedStatuses \cup {"none", "gone"}

InStatus(st, S) == {j \in Jobs : st[j] \in S}
ActiveJobs == InStatus(status, ActiveStatuses)
FinishedJobs == InStatus(status, FinishedStatuses)

-----------------------------------------------------------------------------
(* Retention.  The code evicts the oldest finished job while what remains   *)
(* is over a budget.  Both budgets only shrink as jobs leave, so a job is   *)
(* evicted exactly when the jobs that finished no earlier are over budget.  *)

RetainedSize(st, j) == IF st[j] = "succeeded" THEN ResultSize[j] ELSE 0

Bytes(st, F) == MapThenSumSet(LAMBDA j : RetainedSize(st, j), F)

\* Mutants: the count budget off by one, and no exemption for the newest job.
OverBudgetLate(st, F) == Cardinality(F) > MaxRetained + 1
OverBudgetAlone(st, F) ==
    Cardinality(F) > MaxRetained \/ (MaxRetainedBytes > 0 /\ Bytes(st, F) > MaxRetainedBytes)

OverBudget(st, F) ==
    \/ Cardinality(F) > MaxRetained
    \/ /\ MaxRetainedBytes > 0
       /\ Cardinality(F) > 1
       /\ Bytes(st, F) > MaxRetainedBytes

\* Mutant: the largest results are evicted first.
EvictedLargestFirst(st, at, live) ==
    {j \in live : OverBudget(st, {k \in live : RetainedSize(st, k) <= RetainedSize(st, j)})}

Evicted(st, at, live) ==
    {j \in live : OverBudget(st, {k \in live : at[k] >= at[j]})}

Purge(st, at, old) ==
    LET live == InStatus(st, FinishedStatuses) \ old
        dropped == old \cup Evicted(st, at, live)
    IN  /\ status' = [j \in Jobs |-> IF j \in dropped THEN "gone" ELSE st[j]]
        /\ finishedAt' = [j \in Jobs |-> IF j \in dropped THEN 0 ELSE at[j]]
        /\ aged' = {}

\* Mutant: finished_mono is not set.
FinishUntimed(j, verdict) ==
    clock' = clock + 1 /\ Purge([status EXCEPT ![j] = verdict], finishedAt, aged \ {j})

\* What every terminal transition does to the record it finishes.
Finish(j, verdict) ==
    /\ clock' = clock + 1
    /\ Purge([status EXCEPT ![j] = verdict],
             [finishedAt EXCEPT ![j] = clock + 1],
             aged \ {j})

-----------------------------------------------------------------------------
(* The store's methods.                                                     *)

\* Mutant: the cap admits one job too many.
HasRoomForOneMore == Cardinality(ActiveJobs) <= MaxActive

HasRoom == Cardinality(ActiveJobs) < MaxActive

Create(j) ==
    /\ status[j] = "none" /\ HasRoom
    /\ Purge([status EXCEPT ![j] = "queued"], finishedAt, aged)
    /\ UNCHANGED clock

\* create, get and cancel purge whatever their outcome: `create' past the cap
\* raises JobCapacityError, `get' reads, `cancel' leaves a job that is not queued.
PurgeOnly ==
    /\ Purge(status, finishedAt, aged)
    /\ UNCHANGED clock

CreateRefused ==
    /\ ~HasRoom
    /\ PurgeOnly

Discard(j) ==
    /\ status' = [status EXCEPT ![j] = "gone"]
    /\ finishedAt' = [finishedAt EXCEPT ![j] = 0]
    /\ aged' = aged \ {j}
    /\ UNCHANGED clock

\* Mutant: a job that is no longer queued is claimed all the same.
SetRunningAnyway(j) ==
    /\ status' = [status EXCEPT ![j] = IF @ = "queued" THEN "running" ELSE @]
    /\ UNCHANGED <<finishedAt, clock, aged>>

\* set_running returns True exactly when this action is enabled.
SetRunning(j) ==
    /\ status[j] = "queued"
    /\ status' = [status EXCEPT ![j] = "running"]
    /\ UNCHANGED <<finishedAt, clock, aged>>

CancelQueued(j) ==
    /\ status[j] = "queued"
    /\ Finish(j, "cancelled")

SetSucceeded(j) ==
    IF status[j] \in {"none", "gone"}
    THEN UNCHANGED storeVars
    ELSE Finish(j, "succeeded")

\* Mutant: the status a caller requires is not looked at.
SetFailedAnyway(j, required) ==
    IF status[j] \in {"none", "gone"} THEN UNCHANGED storeVars ELSE Finish(j, "failed")

\* `required' is the set of statuses the caller lets the transition start from.
SetFailed(j, required) ==
    IF status[j] \in required
    THEN Finish(j, "failed")
    ELSE UNCHANGED storeVars

AnyStatus == ActiveStatuses \cup FinishedStatuses

\* Time passes: j and every job that finished before it outlive the TTL.
Age(j) ==
    /\ status[j] \in FinishedStatuses
    /\ j \notin aged
    /\ aged' = aged \cup {k \in FinishedJobs : finishedAt[k] <= finishedAt[j]}
    /\ UNCHANGED <<status, finishedAt, clock>>

-----------------------------------------------------------------------------
(* The store on its own, under the calls its one process makes: a job is    *)
(* finished by the runner that claimed it or by the shutdown that gives it  *)
(* up, and discarded by the POST that created it.                           *)

StoreInit ==
    /\ status = [j \in Jobs |-> "none"]
    /\ finishedAt = [j \in Jobs |-> 0]
    /\ clock = 0
    /\ aged = {}

StoreNext ==
    \/ CreateRefused
    \/ PurgeOnly
    \/ \E j \in Jobs :
        \/ Create(j)
        \/ status[j] = "queued" /\ Discard(j)
        \/ SetRunning(j)
        \/ CancelQueued(j)
        \/ status[j] = "running" /\ SetSucceeded(j)
        \/ status[j] \in ActiveStatuses /\ SetFailed(j, {status[j]})
        \/ Age(j)

StoreSpec == StoreInit /\ [][StoreNext]_storeVars

-----------------------------------------------------------------------------
(* Properties.                                                              *)

StoreTypeOK ==
    /\ status \in [Jobs -> Statuses]
    /\ finishedAt \in [Jobs -> Nat]
    /\ clock \in Nat
    /\ aged \subseteq FinishedJobs
    /\ \A j \in Jobs : (finishedAt[j] > 0) <=> (j \in FinishedJobs)

\* Queued and running jobs never exceed JOBS_MAX_ACTIVE, whatever is cancelled,
\* discarded, finished and purged in between (MemoryJobStore.create).
CapRespected == Cardinality(ActiveJobs) <= MaxActive

\* What the store keeps of finished jobs stays within both budgets at every
\* moment, not only right after a purge; one job may exceed the byte budget
\* alone (MemoryJobStore._purge_locked).
CountBounded == Cardinality(FinishedJobs) <= MaxRetained

BytesBounded ==
    \/ MaxRetainedBytes = 0
    \/ Cardinality(FinishedJobs) <= 1
    \/ Bytes(status, FinishedJobs) <= MaxRetainedBytes

RetentionBounded == CountBounded /\ BytesBounded

\* No purge forgets a job while it keeps one that finished earlier
\* (the sort by finished_mono in _purge_locked).
ForgetsOldestFirst ==
    [][\A j, k \in FinishedJobs :
          (status'[j] = "gone" /\ finishedAt[k] < finishedAt[j])
              => status'[k] = "gone"]_storeVars

\* A job that finishes is still there for its client when the transition that
\* finished it returns: neither budget evicts it (with JOBS_MAX_RETAINED >= 1).
JustFinishedIsKept ==
    [][MaxRetained > 0 =>
         \A j \in ActiveJobs :
             (clock' # clock /\ status'[j] # status[j]) => status'[j] # "gone"]_storeVars

\* The documented promise about results (config.py, JOBS_MAX_RETAINED_BYTES: "the
\* newest result is always kept so that an export larger than the budget can
\* still be fetched once"): retention never evicts the newest succeeded job
\* that has not outlived the TTL.
NewestResult == {j \in FinishedJobs \ aged :
                   /\ status[j] = "succeeded"
                   /\ \A k \in FinishedJobs \ aged :
                         status[k] = "succeeded" => finishedAt[k] <= finishedAt[j]}

NewestResultKept ==
    [][\A j \in NewestResult :
          (\A k \in Jobs : status'[k] = "succeeded" => status[k] = "succeeded")
              => status'[j] # "gone"]_storeVars
=============================================================================
