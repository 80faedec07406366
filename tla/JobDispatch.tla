---------------------------- MODULE JobDispatch ----------------------------
(***************************************************************************)
(* The asynchronous job API of one bibr serve replica: the POST and DELETE *)
(* handlers of register_job_routes, the JobDispatcher with its workers,    *)
(* the InferenceDispatchTracker and the upload files they hand to each     *)
(* other (bibr/serve/jobs.py, bibr/serve/ingress.py), on top of the store  *)
(* of MemoryJobStore.                                                      *)
(*                                                                         *)
(* All of it runs on one event loop: an action is what a handler does      *)
(* between two points at which it suspends.  With the in-process store an  *)
(* awaited store call does not suspend; with a shared store it does, and   *)
(* other replicas act on the same records.  Shared selects between them.   *)
(*                                                                         *)
(* Each POST is identified with the job id it would create, so the upload  *)
(* of a POST, its record and its inference task are all indexed by Jobs.   *)
(***************************************************************************)
EXTENDS MemoryJobStore, Sequences, SequencesExt

CONSTANTS
    Workers,      \* the dispatcher's worker tasks (JOBS_MAX_RUNNING of them)
    Fingerprints, \* what upload_fingerprint returns: file, name and options
    FingerprintOf, \* FingerprintOf[j]: that of the upload of POST j
    Dedupe,       \* JOBS_DEDUPE_INFLIGHT
    Shared,       \* the store is shared between replicas (JOBS_STORE=redis)
    Outages,      \* a shared store may fail to answer
    DiskFaults,   \* removing an upload may fail
    NoJob

ASSUME DispatchAssumption ==
    /\ FingerprintOf \in [Jobs -> Fingerprints]
    /\ Dedupe \in BOOLEAN
    /\ Shared \in BOOLEAN
    /\ Outages \in BOOLEAN /\ (Outages => Shared)
    /\ DiskFaults \in BOOLEAN
    /\ NoJob \notin Jobs

VARIABLES
    post,      \* post[j]: where the handler of POST j stands
    seen,      \* seen[j]: the job whose status POST j reads as a duplicate
    todo,      \* todo[j]: waiting jobs POST j has still to look at (_release_stale)
    del,       \* del[j]: where a handler of DELETE j stands
    waiting,   \* JobDispatcher._waiting, oldest first
    pc,        \* pc[w]: where worker w stands
    held,      \* held[w]: the job worker w took (_running), or NoJob
    byPrint,   \* JobDispatcher._by_fingerprint
    printed,   \* the keys of JobDispatcher._fingerprint_of
    file,      \* uploads on disk
    leased,    \* UploadStore._leased_uploads
    task,      \* task[j]: the tracker's inference task for job j
    verdict,   \* verdict[j]: how that task ended
    closer,    \* where the shutdown hook stands
    killed,    \* workers with an undelivered cancellation
    blind,     \* jobs whose run and record have parted: their claim was not answered,
               \* another replica ended the record, or their worker left too early
    late,      \* jobs whose outcome may still reach a shared store after all
    toRecord,  \* jobs the shutdown hook has still to fail
    toDiscard  \* jobs whose uploads the shutdown hook has still to remove

postVars == <<post, seen, todo>>
workerVars == <<pc, held, killed, blind, late>>
printVars == <<byPrint, printed>>
diskVars == <<file, leased>>
taskVars == <<task, verdict>>
closeVars == <<closer, toRecord, toDiscard>>
vars == <<storeVars, postVars, del, waiting, workerVars, printVars, diskVars,
          taskVars, closeVars>>

PostStates == {"idle", "created", "writing", "stored", "checking", "admitting",
               "clearing", "dropping", "discarding", "accepted", "refused"}
WorkerStates == {"ready", "blocked", "taken", "claimed", "skipping", "awaiting",
                 "finishing", "recorded", "cancelled", "stopped"}
TaskStates == {"none", "dispatched", "inferring", "removing", "done"}
Verdicts == {"none", "ok", "error", "lost"}
CloserStates == {"open", "cancelling", "recording", "discarding", "closed", "down"}

Closed == closer # "open"
IsWaiting(j) == \E i \in 1..Len(waiting) : waiting[i] = j
IsHeld(j) == \E w \in Workers : held[w] = j

\* The queue without job k, which it holds at most once.
Without(k) ==
    IF IsWaiting(k)
    THEN RemoveAt(waiting, CHOOSE i \in 1..Len(waiting) : waiting[i] = k)
    ELSE waiting

-----------------------------------------------------------------------------
(* The event loop.  A handler that awaits the in-process store runs on.     *)

MidStep ==
    {<<"post", j>> : j \in {k \in Jobs : post[k] = "checking"}}
    \cup {<<"delete", j>> : j \in {k \in Jobs : del[k] = "releasing"}}
    \cup {<<"worker", w>> : w \in {v \in Workers :
                                     pc[v] \in {"taken", "claimed", "recorded"}}}

Turn(handler) == Shared \/ MidStep \subseteq {handler}
AnyTurn == Shared \/ MidStep = {}

-----------------------------------------------------------------------------
(* Helpers of the dispatcher and of the upload store.                       *)

\* Mutant: the index keeps the entry of a job that is no longer held.
ForgetHalf(j) == printed' = printed \ {j} /\ UNCHANGED byPrint

\* The dispatcher forgets job j's fingerprint, unless a later job took it over.
Forget(j) ==
    /\ printed' = printed \ {j}
    /\ byPrint' = [byPrint EXCEPT ![FingerprintOf[j]] =
                       IF j \in printed /\ @ = j THEN NoJob ELSE @]

\* Mutant: submit does not set the event.
WakeNobody == UNCHANGED pc

\* Setting the event wakes every worker that waits on it.
WakeWorkers ==
    pc' = [w \in Workers |-> IF pc[w] = "blocked" THEN "ready" ELSE pc[w]]

\* Job j joins the queue, or is refused by a dispatcher closed meanwhile.
Enqueue(j) ==
    \/ /\ ~Closed
       /\ waiting' = Append(waiting, j)
       /\ IF Dedupe
          THEN /\ byPrint' = [byPrint EXCEPT ![FingerprintOf[j]] = j]
               /\ printed' = printed \cup {j}
          ELSE UNCHANGED printVars
       /\ WakeWorkers
       /\ post' = [post EXCEPT ![j] = "accepted"]
       /\ UNCHANGED <<held, killed, blind, late, todo>>
    \/ /\ Closed
       /\ post' = [post EXCEPT ![j] = "dropping"]
       /\ UNCHANGED <<waiting, workerVars, printVars, todo>>

\* JobDispatcher.submit: a queue at the cap is first cleared of stale jobs.
Admit(j) ==
    IF Len(waiting) >= MaxActive
    THEN /\ post' = [post EXCEPT ![j] = "admitting"]
         /\ todo' = [todo EXCEPT ![j] = waiting]
         /\ UNCHANGED <<waiting, workerVars, printVars>>
    ELSE Enqueue(j)

\* Mutant: the lease outlives the file.
UnlinksOnly(j) == file' = file \ {j} /\ UNCHANGED leased

\* UploadStore.remove gives the lease up even when it cannot unlink the file.
Unlinks(j) ==
    /\ file' = file \ {j}
    /\ leased' = leased \ {j}

UnlinkFails(j) ==
    /\ DiskFaults /\ j \in file
    /\ leased' = leased \ {j}
    /\ UNCHANGED file

RemoveUpload(j) == Unlinks(j) \/ UnlinkFails(j)

\* The store transition that ends the run of job j.  A result that cannot be
\* rendered fails it; a lost task is recorded by _record_abandoned.
Outcome(j) ==
    \/ verdict[j] = "ok" /\ SetSucceeded(j)
    \/ verdict[j] \in {"ok", "error"} /\ SetFailed(j, AnyStatus)
    \/ verdict[j] = "lost" /\ SetFailed(j, ActiveStatuses)

-----------------------------------------------------------------------------
(* POST /papers/jobs                                                        *)

PostCreate(j) ==
    /\ post[j] = "idle" /\ closer = "open" /\ AnyTurn
    /\ \/ Create(j) /\ post' = [post EXCEPT ![j] = "created"]
       \/ CreateRefused /\ post' = [post EXCEPT ![j] = "refused"]
       \/ Outages /\ UNCHANGED storeVars /\ post' = [post EXCEPT ![j] = "refused"]
    /\ UNCHANGED <<seen, todo, del, waiting, workerVars, printVars, diskVars,
                   taskVars, closeVars>>

\* Mutant: the sweep does not look at the leases.
SweepableByAge == file

\* What sweep_stale may find old enough to remove.
Sweepable == file \ leased

\* persist: sweep what nobody leases, lease a new upload and start writing it.
PostPersist(j) ==
    /\ post[j] = "created" /\ closer # "down" /\ AnyTurn
    /\ \E swept \in SUBSET Sweepable : file' = (file \ swept) \cup {j}
    /\ leased' = leased \cup {j}
    /\ post' = [post EXCEPT ![j] = "writing"]
    /\ UNCHANGED <<storeVars, seen, todo, del, waiting, workerVars, printVars,
                   taskVars, closeVars>>

PostStored(j) ==
    /\ post[j] = "writing" /\ AnyTurn
    /\ post' = [post EXCEPT ![j] = "stored"]
    /\ UNCHANGED <<storeVars, seen, todo, del, waiting, workerVars, printVars,
                   diskVars, taskVars, closeVars>>

\* The upload is empty, too large or does not fit the disk: persist removes it.
PostPersistFails(j) ==
    /\ post[j] = "writing" /\ AnyTurn
    /\ RemoveUpload(j)
    /\ post' = [post EXCEPT ![j] = "discarding"]
    /\ UNCHANGED <<storeVars, seen, todo, del, waiting, workerVars, printVars,
                   taskVars, closeVars>>

\* Look the fingerprint up; with nothing to compare with, submit at once.
PostLookup(j) ==
    /\ post[j] = "stored" /\ closer = "open" /\ AnyTurn
    /\ \/ /\ Dedupe /\ byPrint[FingerprintOf[j]] # NoJob
          /\ seen' = [seen EXCEPT ![j] = byPrint[FingerprintOf[j]]]
          /\ post' = [post EXCEPT ![j] = "checking"]
          /\ UNCHANGED <<todo, waiting, workerVars, printVars>>
       \/ /\ ~Dedupe \/ byPrint[FingerprintOf[j]] = NoJob
          /\ Admit(j)
          /\ UNCHANGED seen
    /\ UNCHANGED <<storeVars, del, diskVars, taskVars, closeVars>>

\* Mutant: only a queued job counts as a duplicate.
StillActiveIfQueued(j) == status[j] = "queued"

StillActive(j) == status[j] \in ActiveStatuses

\* The duplicate is still active: answer with it and drop this copy.  It has
\* ended since: run the upload afresh.
PostDecide(j) ==
    /\ post[j] = "checking" /\ Turn(<<"post", j>>)
    /\ PurgeOnly
    /\ seen' = [seen EXCEPT ![j] = NoJob]
    /\ IF StillActive(seen[j])
       THEN /\ post' = [post EXCEPT ![j] = "dropping"]
            /\ UNCHANGED <<todo, waiting, workerVars, printVars>>
       ELSE Admit(j)
    /\ UNCHANGED <<del, diskVars, taskVars, closeVars>>

\* _release_stale looks at one waiting job and releases it if its record is
\* no longer queued (read and test are one step: only "queued" can go stale).
\* A store that does not answer ends the loop.
PostLookAt(j) ==
    /\ post[j] = "admitting" /\ todo[j] # <<>> /\ AnyTurn
    /\ LET k == Head(todo[j]) IN
       \/ /\ IsWaiting(k) /\ status[k] # "queued"
          /\ waiting' = Without(k)
          /\ Forget(k)
          /\ post' = [post EXCEPT ![j] = "clearing"]
          /\ UNCHANGED todo
          /\ PurgeOnly
       \/ /\ ~IsWaiting(k) \/ status[k] = "queued"
          /\ todo' = [todo EXCEPT ![j] = Tail(@)]
          /\ UNCHANGED <<post, waiting, printVars>>
          /\ PurgeOnly
       \/ /\ Outages
          /\ todo' = [todo EXCEPT ![j] = <<>>]
          /\ UNCHANGED <<storeVars, post, waiting, printVars>>
    /\ UNCHANGED <<seen, del, workerVars, diskVars, taskVars, closeVars>>

\* The upload of the job just released is removed; then the loop goes on.
PostCleared(j) ==
    /\ post[j] = "clearing" /\ AnyTurn
    /\ \/ /\ Unlinks(Head(todo[j]))
          /\ todo' = [todo EXCEPT ![j] = Tail(@)]
          /\ post' = [post EXCEPT ![j] = "admitting"]
       \/ /\ UnlinkFails(Head(todo[j]))
          /\ todo' = [todo EXCEPT ![j] = <<>>]
          /\ post' = [post EXCEPT ![j] = "dropping"]
    /\ UNCHANGED <<storeVars, seen, del, waiting, workerVars, printVars, taskVars,
                   closeVars>>

PostAdmitted(j) ==
    /\ post[j] = "admitting" /\ todo[j] = <<>> /\ AnyTurn
    /\ Enqueue(j)
    /\ UNCHANGED <<storeVars, seen, del, diskVars, taskVars, closeVars>>

\* The request fails or is cancelled at a suspension point before it is queued.
\* With a shared store it may end before `create' has answered: then nobody
\* discards the record.
PostAborts(j) ==
    /\ \/ post[j] \in {"created", "writing", "stored", "admitting", "clearing"} /\ AnyTurn
       \/ post[j] = "checking" /\ Shared
    /\ \/ /\ post[j] = "created"
          /\ post' = [post EXCEPT ![j] = "discarding"]
          /\ UNCHANGED diskVars
       \/ /\ post[j] = "created" /\ Shared
          /\ post' = [post EXCEPT ![j] = "refused"]
          /\ UNCHANGED diskVars
       \/ /\ post[j] = "writing"
          /\ RemoveUpload(j)
          /\ post' = [post EXCEPT ![j] = "discarding"]
       \/ /\ post[j] \in {"stored", "checking", "admitting"}
          /\ post' = [post EXCEPT ![j] = "dropping"]
          /\ UNCHANGED diskVars
       \/ /\ post[j] = "clearing"
          /\ RemoveUpload(Head(todo[j]))
          /\ post' = [post EXCEPT ![j] = "dropping"]
    /\ seen' = [seen EXCEPT ![j] = NoJob]
    /\ todo' = [todo EXCEPT ![j] = <<>>]
    /\ UNCHANGED <<storeVars, del, waiting, workerVars, printVars, taskVars, closeVars>>

\* _discard_submission: remove the upload, then the record; an upload that
\* cannot be removed ends it before the record is.
PostDrop(j) ==
    /\ post[j] = "dropping" /\ AnyTurn
    /\ \/ Unlinks(j) /\ post' = [post EXCEPT ![j] = "discarding"]
       \/ UnlinkFails(j) /\ post' = [post EXCEPT ![j] = "refused"]
    /\ UNCHANGED <<storeVars, seen, todo, del, waiting, workerVars, printVars,
                   taskVars, closeVars>>

PostDiscard(j) ==
    /\ post[j] = "discarding" /\ AnyTurn
    /\ Discard(j) \/ (Outages /\ UNCHANGED storeVars)
    /\ post' = [post EXCEPT ![j] = "refused"]
    /\ UNCHANGED <<seen, todo, del, waiting, workerVars, printVars, diskVars,
                   taskVars, closeVars>>

Post(j) ==
    \/ PostCreate(j) \/ PostPersist(j) \/ PostStored(j) \/ PostPersistFails(j)
    \/ PostLookup(j) \/ PostDecide(j) \/ PostLookAt(j) \/ PostCleared(j)
    \/ PostAdmitted(j) \/ PostAborts(j) \/ PostDrop(j) \/ PostDiscard(j)

-----------------------------------------------------------------------------
(* DELETE /papers/jobs/{id}; only the answer to a POST tells a client the id. *)

Delete(j) ==
    /\ post[j] = "accepted" /\ del[j] = "idle" /\ closer # "down" /\ AnyTurn
    /\ \/ /\ CancelQueued(j)
          /\ del' = [del EXCEPT ![j] = "releasing"]
       \/ /\ status[j] # "queued"
          /\ PurgeOnly
          /\ del' = [del EXCEPT ![j] = IF Shared \/ status'[j] = "cancelled"
                                       THEN "releasing" ELSE "idle"]
    /\ UNCHANGED <<postVars, waiting, workerVars, printVars, diskVars, taskVars,
                   closeVars>>

\* A shared store reads the record back, which may be gone by then.
SeenCancelled(j) == Shared => status[j] = "cancelled"

\* release_cancelled, up to the removal of the upload.
DeleteRelease(j) ==
    /\ del[j] = "releasing" /\ Turn(<<"delete", j>>)
    /\ \/ /\ SeenCancelled(j)
          /\ Forget(j)
          /\ waiting' = Without(j)
          /\ del' = [del EXCEPT ![j] = IF IsWaiting(j) THEN "dropping" ELSE "idle"]
       \/ /\ Outages \/ ~SeenCancelled(j)
          /\ del' = [del EXCEPT ![j] = "idle"]
          /\ UNCHANGED <<waiting, printVars>>
    /\ UNCHANGED <<storeVars, postVars, workerVars, diskVars, taskVars, closeVars>>

DeleteDrop(j) ==
    /\ del[j] = "dropping" /\ AnyTurn
    /\ RemoveUpload(j)
    /\ del' = [del EXCEPT ![j] = "idle"]
    /\ UNCHANGED <<storeVars, postVars, waiting, workerVars, printVars, taskVars,
                   closeVars>>

-----------------------------------------------------------------------------
(* What happens to a shared record without this replica: nobody here is told. *)

\* Another replica cancels a job that waits here: only the record changes.
RemoteCancel(j) ==
    /\ Shared /\ closer # "down"
    /\ post[j] = "accepted"
    /\ CancelQueued(j)
    /\ UNCHANGED <<postVars, del, waiting, workerVars, printVars, diskVars,
                   taskVars, closeVars>>

\* A worker that runs a job whose record is taken away does not notice.
PartsFromItsRun(j) ==
    /\ blind' = IF status[j] = "running" THEN blind \cup {j} ELSE blind
    /\ UNCHANGED <<postVars, del, waiting, pc, held, killed, late, printVars, diskVars,
                   taskVars, closeVars>>

\* A create on another replica finds that the lease of job j lapsed (this one could
\* not renew it in time) and fails the job as lost.
RemoteLoses(j) ==
    /\ Shared /\ closer # "down"
    /\ status[j] \in ActiveStatuses
    /\ status' = [status EXCEPT ![j] = "failed"]
    /\ finishedAt' = [finishedAt EXCEPT ![j] = clock + 1]
    /\ clock' = clock + 1
    /\ UNCHANGED aged
    /\ PartsFromItsRun(j)

\* The record's expiry runs out, or another replica's outcomes evict it.
RemoteForgets(j) ==
    /\ Shared /\ closer # "down"
    /\ status[j] \notin {"none", "gone"}
    /\ Discard(j)
    /\ PartsFromItsRun(j)

\* An outcome its worker no longer waits for reaches the store after all.
LateOutcome(j) ==
    /\ Shared /\ closer # "down"
    /\ j \in late
    /\ Outcome(j)
    /\ late' = late \ {j}
    /\ UNCHANGED <<postVars, del, waiting, pc, held, killed, blind, printVars, diskVars,
                   taskVars, closeVars>>

Elsewhere(j) ==
    RemoteCancel(j) \/ RemoteLoses(j) \/ RemoteForgets(j) \/ LateOutcome(j)

-----------------------------------------------------------------------------
(* The dispatcher's workers.                                                *)

HoldNothing(w) == held' = [held EXCEPT ![w] = NoJob]
WorkerAt(w, state) == w \notin killed /\ pc[w] = state
WorkerGoes(w, state) == pc' = [pc EXCEPT ![w] = state]

\* The worker gives up on the outcome of job j, which may be on its way.
GivesUp(j) == blind' = blind \cup {j} /\ late' = late \cup {j}

\* _next_job on an empty queue: wait for the next submit.
Sleep(w) ==
    /\ WorkerAt(w, "ready") /\ waiting = <<>> /\ AnyTurn
    /\ WorkerGoes(w, "blocked")
    /\ UNCHANGED <<storeVars, postVars, del, waiting, held, killed, blind, late, printVars,
                   diskVars, taskVars, closeVars>>

\* Mutant: the job a worker takes stays in the queue.
NotPopped == waiting

Popped == Tail(waiting)

Take(w) ==
    /\ WorkerAt(w, "ready") /\ waiting # <<>> /\ AnyTurn
    /\ WorkerGoes(w, "taken")
    /\ held' = [held EXCEPT ![w] = Head(waiting)]
    /\ waiting' = Popped
    /\ UNCHANGED <<storeVars, postVars, del, killed, blind, late, printVars, diskVars, taskVars,
                   closeVars>>

\* set_running; a shared store that does not answer, whether it has moved the
\* record or not, lets the job run.
Claim(w) ==
    /\ WorkerAt(w, "taken") /\ Turn(<<"worker", w>>)
    /\ \/ /\ SetRunning(held[w])
          /\ WorkerGoes(w, "claimed")
          /\ UNCHANGED blind
       \/ /\ Outages
          /\ SetRunning(held[w]) \/ UNCHANGED storeVars
          /\ WorkerGoes(w, "claimed")
          /\ blind' = blind \cup {held[w]}
       \/ /\ status[held[w]] # "queued"
          /\ WorkerGoes(w, "skipping")
          /\ UNCHANGED <<storeVars, blind>>
    /\ UNCHANGED <<postVars, del, waiting, held, killed, late, printVars, diskVars,
                   taskVars, closeVars>>

\* The job was cancelled while it waited: only its upload is left to remove.
Skip(w) ==
    /\ WorkerAt(w, "skipping") /\ AnyTurn
    /\ RemoveUpload(held[w])
    /\ WorkerGoes(w, "recorded")
    /\ UNCHANGED <<storeVars, postVars, del, waiting, held, killed, blind, late, printVars,
                   taskVars, closeVars>>

\* tracker.submit starts the inference task; from here the upload is its own.
Dispatch(w) ==
    /\ WorkerAt(w, "claimed") /\ Turn(<<"worker", w>>)
    /\ task' = [task EXCEPT ![held[w]] = "dispatched"]
    /\ WorkerGoes(w, "awaiting")
    /\ UNCHANGED <<storeVars, postVars, del, waiting, held, killed, blind, late, printVars,
                   diskVars, verdict, closeVars>>

Receive(w) ==
    /\ WorkerAt(w, "awaiting") /\ AnyTurn
    /\ task[held[w]] = "done"
    /\ WorkerGoes(w, "finishing")
    /\ UNCHANGED <<storeVars, postVars, del, waiting, held, killed, blind, late, printVars,
                   diskVars, taskVars, closeVars>>

\* The worker records the outcome, or gives up on a store that does not answer.
Record(w) ==
    /\ WorkerAt(w, "finishing") /\ AnyTurn
    /\ \/ Outcome(held[w]) /\ UNCHANGED <<blind, late>>
       \/ Outages /\ UNCHANGED storeVars /\ GivesUp(held[w])
    /\ WorkerGoes(w, "recorded")
    /\ UNCHANGED <<postVars, del, waiting, held, killed, printVars, diskVars, taskVars,
                   closeVars>>

\* Mutant: the loop does not look whether the dispatcher was closed.
AfterTurnAgain == "ready"

AfterTurn == IF Closed THEN "stopped" ELSE "ready"

\* The end of one turn of the worker's loop, which a closed dispatcher leaves.
Release(w) ==
    /\ WorkerAt(w, "recorded") /\ Turn(<<"worker", w>>)
    /\ HoldNothing(w)
    /\ Forget(held[w])
    /\ WorkerGoes(w, AfterTurn)
    /\ UNCHANGED <<storeVars, postVars, del, waiting, killed, blind, late, diskVars, taskVars,
                   closeVars>>

\* The shutdown's cancellation reaches the worker where it is suspended.  A job
\* it has taken stays in _running; a removal under way in a thread completes, and
\* so may a command under way to a shared store.
WorkerCancelled(w) ==
    /\ w \in killed /\ AnyTurn
    /\ killed' = killed \ {w}
    /\ WorkerGoes(w, IF pc[w] \in {"ready", "blocked"} THEN "stopped" ELSE "cancelled")
    /\ IF pc[w] = "skipping" THEN RemoveUpload(held[w]) ELSE UNCHANGED diskVars
    /\ IF Shared /\ pc[w] = "finishing" THEN GivesUp(held[w]) ELSE UNCHANGED <<blind, late>>
    /\ UNCHANGED <<storeVars, postVars, del, waiting, held, printVars, taskVars, closeVars>>

\* "A dependency may consume cancellation while finishing a request."
CancellationConsumed(w) ==
    /\ w \in killed /\ pc[w] \in {"awaiting", "finishing"} /\ AnyTurn
    /\ killed' = killed \ {w}
    /\ UNCHANGED <<storeVars, postVars, del, waiting, pc, held, blind, late, printVars,
                   diskVars, taskVars, closeVars>>

WorkerRuns(w) ==
    \/ Sleep(w) \/ Take(w) \/ Claim(w) \/ Skip(w) \/ Dispatch(w)
    \/ Receive(w) \/ Record(w) \/ Release(w) \/ WorkerCancelled(w)

-----------------------------------------------------------------------------
(* The tracker's inference task of job j.  It outlives the worker that      *)
(* awaits it, and removes the upload whatever happens.                      *)

\* The LitServe worker process reads the upload and removes it.
Consume(j) ==
    /\ task[j] = "dispatched"
    /\ task' = [task EXCEPT ![j] = "inferring"]
    /\ file' = file \ {j}
    /\ UNCHANGED <<storeVars, postVars, del, waiting, workerVars, printVars, leased,
                   verdict, closeVars>>

\* The dispatch returns, raises or is cancelled, also before the upload was read.
TaskEnds(j) ==
    /\ task[j] \in {"dispatched", "inferring"} /\ AnyTurn
    /\ task' = [task EXCEPT ![j] = "removing"]
    /\ \E v \in {"ok", "error", "lost"} :
          /\ v = "ok" => task[j] = "inferring"
          /\ verdict' = [verdict EXCEPT ![j] = v]
    /\ UNCHANGED <<storeVars, postVars, del, waiting, workerVars, printVars,
                   diskVars, closeVars>>

TaskRemoves(j) ==
    /\ task[j] = "removing" /\ AnyTurn
    /\ \/ Unlinks(j) /\ UNCHANGED verdict
       \/ UnlinkFails(j) /\ verdict' = [verdict EXCEPT ![j] = "error"]
    /\ task' = [task EXCEPT ![j] = "done"]
    /\ UNCHANGED <<storeVars, postVars, del, waiting, workerVars, printVars,
                   closeVars>>

Task(j) == Consume(j) \/ TaskEnds(j) \/ TaskRemoves(j)

-----------------------------------------------------------------------------
(* Shutdown: the dispatcher closes first, then the tracker and the uploads. *)

CloseBegins ==
    /\ closer = "open" /\ AnyTurn
    /\ closer' = "cancelling"
    /\ killed' = Workers
    /\ UNCHANGED <<storeVars, postVars, del, waiting, pc, held, blind, late, printVars,
                   diskVars, taskVars, toRecord, toDiscard>>

\* Every worker has ended: take over what they held and what still waits.
CloseDrains ==
    /\ closer = "cancelling" /\ AnyTurn
    /\ \A w \in Workers : w \notin killed /\ pc[w] \in {"cancelled", "stopped"}
    /\ LET queued == {j \in Jobs : IsWaiting(j)}
           dropped == {j \in Jobs : IsHeld(j)} \cup queued
       IN  /\ toRecord' = dropped
           /\ toDiscard' = queued
           /\ printed' = printed \ dropped
           /\ byPrint' = [f \in Fingerprints |->
                            IF byPrint[f] \in dropped \cap printed
                            THEN NoJob ELSE byPrint[f]]
    /\ waiting' = <<>>
    /\ held' = [w \in Workers |-> NoJob]
    /\ closer' = "recording"
    /\ UNCHANGED <<storeVars, postVars, del, pc, killed, blind, late, diskVars, taskVars>>

\* Mutant: a held job is failed only while queued, like a waiting one.
RequiredQueued(j) == {"queued"}

Required(j) == IF j \in toDiscard THEN {"queued"} ELSE ActiveStatuses

\* _record_abandoned: a held job may be in either active status, a waiting one
\* is failed only while queued.
CloseRecords(j) ==
    /\ closer = "recording" /\ j \in toRecord /\ AnyTurn
    /\ SetFailed(j, Required(j))
    /\ toRecord' = toRecord \ {j}
    /\ UNCHANGED <<postVars, del, waiting, workerVars, printVars, diskVars, taskVars,
                   closer, toDiscard>>

\* A shared store that does not answer in time ends the recording.
CloseGivesUp ==
    /\ Outages /\ closer = "recording" /\ toRecord # {}
    /\ toRecord' = {}
    /\ UNCHANGED <<storeVars, postVars, del, waiting, workerVars, printVars,
                   diskVars, taskVars, closer, toDiscard>>

CloseRecorded ==
    /\ closer = "recording" /\ toRecord = {} /\ AnyTurn
    /\ closer' = "discarding"
    /\ UNCHANGED <<storeVars, postVars, del, waiting, workerVars, printVars,
                   diskVars, taskVars, toRecord, toDiscard>>

CloseDiscards(j) ==
    /\ closer = "discarding" /\ j \in toDiscard /\ AnyTurn
    /\ \/ Unlinks(j) /\ toDiscard' = toDiscard \ {j}
       \/ UnlinkFails(j) /\ toDiscard' = {}
    /\ UNCHANGED <<storeVars, postVars, del, waiting, workerVars, printVars,
                   taskVars, closer, toRecord>>

CloseEnds ==
    /\ closer = "discarding" /\ toDiscard = {} /\ AnyTurn
    /\ closer' = "closed"
    /\ UNCHANGED <<storeVars, postVars, del, waiting, workerVars, printVars,
                   diskVars, taskVars, toRecord, toDiscard>>

\* The tracker has ended its tasks and no request is in progress any more: the
\* upload store drops its leases and every file of its root.
UploadsClose ==
    /\ closer = "closed" /\ AnyTurn
    /\ \A j \in Jobs : /\ task[j] \in {"none", "done"}
                       /\ post[j] \in {"idle", "accepted", "refused"}
                       /\ del[j] = "idle"
    /\ closer' = "down"
    /\ file' = {} /\ leased' = {}
    /\ UNCHANGED <<storeVars, postVars, del, waiting, workerVars, printVars,
                   taskVars, toRecord, toDiscard>>

CloseRuns ==
    \/ CloseDrains \/ CloseRecorded \/ CloseEnds \/ UploadsClose
    \/ \E j \in Jobs : CloseRecords(j) \/ CloseDiscards(j)

-----------------------------------------------------------------------------
Init ==
    /\ StoreInit
    /\ post = [j \in Jobs |-> "idle"]
    /\ seen = [j \in Jobs |-> NoJob]
    /\ todo = [j \in Jobs |-> <<>>]
    /\ del = [j \in Jobs |-> "idle"]
    /\ waiting = <<>>
    \* `start' creates the workers at the first submit, which wakes them here
    /\ pc = [w \in Workers |-> "blocked"]
    /\ held = [w \in Workers |-> NoJob]
    /\ killed = {} /\ blind = {} /\ late = {}
    /\ byPrint = [f \in Fingerprints |-> NoJob]
    /\ printed = {}
    /\ file = {} /\ leased = {}
    /\ task = [j \in Jobs |-> "none"]
    /\ verdict = [j \in Jobs |-> "none"]
    /\ closer = "open" /\ toRecord = {} /\ toDiscard = {}

\* A shared store expires its records itself: RemoteForgets.
TimePasses(j) ==
    /\ ~Shared /\ Age(j)
    /\ UNCHANGED <<postVars, del, waiting, workerVars, printVars, diskVars, taskVars,
                   closeVars>>

Down == closer = "down" /\ UNCHANGED vars

Next ==
    \/ \E j \in Jobs :
        \/ Post(j) \/ Delete(j) \/ DeleteRelease(j) \/ DeleteDrop(j)
        \/ Elsewhere(j) \/ Task(j) \/ TimePasses(j)
    \/ \E w \in Workers : WorkerRuns(w) \/ CancellationConsumed(w)
    \/ CloseBegins \/ CloseRuns \/ CloseGivesUp
    \/ Down

Spec == Init /\ [][Next]_vars

(* The event loop runs every handler that is ready, in turn, and each awaited *)
(* thing but a client's request completes: inference because LitServe bounds  *)
(* a request's time.  A handler loses its turn to others again and again, so  *)
(* the fairness is strong.                                                    *)
Fairness ==
    /\ \A w \in Workers : SF_vars(WorkerRuns(w))
    /\ \A j \in Jobs :
        /\ SF_vars(Task(j))
        /\ SF_vars(PostDecide(j) \/ PostDrop(j) \/ PostDiscard(j) \/ PostAborts(j))
        /\ SF_vars(DeleteRelease(j) \/ DeleteDrop(j))
    /\ SF_vars(CloseRuns)

FairSpec == Spec /\ Fairness

-----------------------------------------------------------------------------
(* Properties.                                                              *)

TypeOK ==
    /\ StoreTypeOK
    /\ post \in [Jobs -> PostStates]
    /\ seen \in [Jobs -> Jobs \cup {NoJob}]
    /\ todo \in [Jobs -> Seq(Jobs)]
    /\ del \in [Jobs -> {"idle", "releasing", "dropping"}]
    /\ waiting \in Seq(Jobs)
    /\ pc \in [Workers -> WorkerStates]
    /\ held \in [Workers -> Jobs \cup {NoJob}]
    /\ killed \subseteq Workers
    /\ blind \subseteq Jobs /\ late \subseteq Jobs
    /\ byPrint \in [Fingerprints -> Jobs \cup {NoJob}]
    /\ printed \subseteq Jobs
    /\ file \subseteq Jobs /\ leased \subseteq Jobs
    /\ task \in [Jobs -> TaskStates]
    /\ verdict \in [Jobs -> Verdicts]
    /\ closer \in CloserStates
    /\ toRecord \subseteq Jobs /\ toDiscard \subseteq Jobs

\* Who is answerable for the upload of job j: its POST, the queue, the worker
\* that took it, its inference task, a DELETE or the shutdown that will remove it.
UploadOwner(j) ==
    \/ post[j] \in {"writing", "stored", "checking", "admitting", "clearing", "dropping"}
    \/ IsWaiting(j)
    \/ \E w \in Workers : held[w] = j /\ pc[w] \in {"taken", "claimed", "skipping"}
    \/ task[j] \in {"dispatched", "inferring", "removing"}
    \/ del[j] = "dropping"
    \/ \E k \in Jobs : post[k] = "clearing" /\ Head(todo[k]) = j
    \/ j \in toDiscard

\* No upload is leaked: a leased one always has somebody left who removes it,
\* through cancels, duplicates, aborted requests and shutdown (the hand-over from
\* route to queue to worker to tracker), and an unleased one is in reach of
\* the sweep.  A shared store loses this at shutdown: see HeldUploadIsTrackers.
UploadsAreOwned ==
    \A j \in leased : UploadOwner(j) \/ (Closed /\ (Shared \/ DiskFaults))

\* "A held job's upload belongs to the tracker" (JobDispatcher.close): when the
\* shutdown takes over a job from a worker it cancelled, either the upload is gone
\* or the job's inference task is there to remove it.
HeldUploadIsTrackers ==
    \A w \in Workers :
        pc[w] = "cancelled" /\ held[w] \in leased
            => task[held[w]] \in {"dispatched", "inferring", "removing"}

\* Nobody removes an upload that is still to be read: the queue holds only jobs
\* whose upload is on disk, and so does an inference that has not read it
\* (release_cancelled, _release_stale, sweep_stale against the worker).
UploadsAreThere ==
    \A j \in Jobs :
        (\/ IsWaiting(j)
         \/ task[j] = "dispatched"
         \/ \E w \in Workers : held[w] = j /\ pc[w] \in {"taken", "claimed"})
            => j \in file \cap leased

\* A job is at most once in the dispatcher: in the queue or with one worker.
HeldOnce ==
    /\ \A i, k \in 1..Len(waiting) : waiting[i] = waiting[k] => i = k
    /\ \A j \in Jobs : ~(IsWaiting(j) /\ IsHeld(j))
    /\ \A v, w \in Workers : held[v] = held[w] /\ held[v] # NoJob => v = w

\* The fingerprint index names only jobs the dispatcher still holds, so no upload
\* is answered with a job nobody will run (_forget_fingerprint on every way out).
FingerprintsAreHeld ==
    \A f \in Fingerprints :
        byPrint[f] # NoJob =>
            /\ IsWaiting(byPrint[f]) \/ IsHeld(byPrint[f])
            /\ FingerprintOf[byPrint[f]] = f
            /\ byPrint[f] \in printed

\* JOBS_DEDUPE_INFLIGHT: "a POST whose file (sha256), filename and options match a
\* job this replica still has queued or running returns that job instead of
\* queueing the paper again" (jobs.py): no two jobs it holds are duplicates
\* of each other while both are active.
ActiveHere(j) == status[j] \in ActiveStatuses /\ (IsWaiting(j) \/ IsHeld(j))
OneRunPerUpload ==
    Dedupe => \A j, k \in Jobs :
        ActiveHere(j) /\ ActiveHere(k) /\ FingerprintOf[j] = FingerprintOf[k] => j = k

\* Every slot of the cap is somebody's: an active record belongs to a POST that
\* will queue or discard it, to the dispatcher or to the shutdown that fails it.
\* So no slot is lost for good and, once the dispatcher is closed, no accepted
\* job is left queued or running (_discard_submission, JobDispatcher.close).
SlotsAreOwned ==
    \A j \in ActiveJobs :
        \/ post[j] \notin {"idle", "accepted", "refused"}
        \/ IsWaiting(j) \/ IsHeld(j) \/ j \in toRecord

\* A cancelled job never runs, however the DELETE and the worker interleave:
\* inference starts only for a job whose record says running, unless the store
\* did not answer when its worker claimed it (JobStore.set_running) or another
\* replica has ended the record since.
OnlyClaimedJobsRun ==
    [][\A j \in Jobs \ blind :
          task'[j] = "dispatched" /\ task[j] # "dispatched"
              => status[j] = "running"]_vars

\* The step puts the outcome of job j's own run over a record that has parted from it:
\* in time by its worker, or late.
OwnOutcome(j) ==
    /\ j \in blind
    /\ \/ \E w \in Workers : held[w] = j /\ pc[w] = "finishing" /\ pc'[w] = "recorded"
       \/ j \in late \ late'

\* What a client was told stands, but for the outcome of the job's own run: the
\* guarded and unguarded terminal transitions of worker, DELETE and shutdown never
\* revise each other (a shutdown does not fail what a DELETE cancelled), and only a run
\* that the store did not answer, or whose job another replica ended meanwhile (the
\* create script of jobs_redis.py declares it lost), still puts its outcome over the
\* record, once (set_succeeded and set_failed without a required status).
OnlyItsRunRevises ==
    [][\A j \in FinishedJobs : status'[j] \in {status[j], "gone"} \/ OwnOutcome(j)]_vars

\* Every accepted job ends, by running, being cancelled or being failed at
\* shutdown: no wake-up of a worker is lost and no job is stranded in the queue.
AcceptedJobsEnd ==
    \A j \in Jobs : post[j] = "accepted" ~> status[j] \in FinishedStatuses \cup {"gone"}

\* Shutdown always ends: no worker outlives the close it waits for.
CloseTerminates == closer = "cancelling" ~> closer = "closed"

-----------------------------------------------------------------------------
(* What all of this promises a client: JobLifecycle.                        *)

ClientView(j) ==
    CASE status[j] = "none" -> "unknown"
      [] status[j] = "cancelled" -> "failed"
      [] status[j] = "gone" -> "forgotten"
      [] OTHER -> status[j]

Lifecycle == INSTANCE JobLifecycle
                WITH state <- [j \in Jobs |-> ClientView(j)],
                     answered <- {j \in Jobs : post[j] = "accepted"}

\* The replica keeps the promises of JobLifecycle (with a store that answers and
\* JOBS_MAX_RETAINED >= 1).
ImplementsLifecycle == Lifecycle!Spec

\* What MemoryJobStore assumes of its callers is what they do (StoreNext), so what
\* it guarantees on its own it guarantees here: only running jobs succeed, only
\* active ones fail, each once, whoever of worker, DELETE and shutdown gets there
\* first, and only queued records are discarded (set_failed and its
\* required_statuses, _discard_submission).
CallsStoreAsAssumed == StoreSpec
=============================================================================
