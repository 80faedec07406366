------------------------- MODULE JobOwnership_proofs ------------------------
(***************************************************************************)
(* Proof that what the replica of JobDispatch hands on always has an owner *)
(* and is owned once, for any number of jobs and workers.                  *)
(*                                                                         *)
(* The uploads: nobody removes one that is still to be read                *)
(* (UploadsAreThere) and a leased one always has somebody left who removes *)
(* it (UploadsAreOwned, HeldUploadIsTrackers), with a shared store, its    *)
(* outages and disk faults included.  UploadSteps, OwnerSteps and EndSteps *)
(* say what a step may do to an upload and to its owners.                  *)
(*                                                                         *)
(* The slots of a replica on the in-process store: every active record has *)
(* somebody who ends it (SlotsAreOwned), no two jobs run one upload        *)
(* (OneRunPerUpload) and the queue stays within the cap (QueueBounded),    *)
(* so that submit never has to clear it of stale jobs.                     *)
(* All of it rests on whose turn it is (MidSteps): a handler that awaits   *)
(* the in-process store runs on, so nobody acts between two of its steps.  *)
(* StatusSteps, PostSteps and PlaceSteps say what a step may do then.      *)
(* Such a replica calls the store only as MemoryJobStore assumes           *)
(* (CallsStoreAsAssumed), so the store's own guarantees hold under it.     *)
(***************************************************************************)
EXTENDS JobDispatch_proofs

-----------------------------------------------------------------------------
(* The inductive invariant.                                                 *)

OnDisk(j) == j \in file \cap leased

\* A POST has its upload on disk from persist until it hands it over.
Submitting == {"writing", "stored", "checking", "admitting", "clearing"}
SubmittedIsThere == \A j \in Jobs : post[j] \in Submitting => OnDisk(j)

\* Job j has left the queue for good and only its upload is left to remove:
\* after a DELETE, a release of stale jobs or the shutdown.
Clearing(k, j) == post[k] = "clearing" /\ Head(todo[k]) = j
Released(j) == del[j] = "dropping" \/ (\E k \in Jobs : Clearing(k, j)) \/ j \in toDiscard

ReleasedIsOut ==
    \A j \in Jobs : Released(j) => ~InDispatcher(j) /\ task[j] = "none" /\ post[j] = "accepted"

\* Once there is a task for a job, the job is on its way out of the dispatcher.
NotYetDispatched ==
    \A j \in Jobs : task[j] # "none" =>
        /\ ~IsWaiting(j) /\ post[j] = "accepted"
        /\ \A w \in Workers : held[w] = j => pc[w] \notin {"taken", "claimed", "skipping"}

UploadInv ==
    /\ DispatchInv
    /\ SubmittedIsThere /\ ReleasedIsOut /\ NotYetDispatched /\ UploadsAreThere

-----------------------------------------------------------------------------
(* What a step may do to the upload, the task and the POST of job j.        *)

\* Who may remove the upload or give up its lease.
Removes(j) ==
    \/ post[j] \in {"writing", "dropping"} /\ post'[j] \notin Submitting \cup {"accepted"}
    \/ Released(j)
    \/ \E w \in Workers : /\ held[w] = j /\ pc[w] = "skipping"
                          /\ pc'[w] \notin {"taken", "claimed", "skipping"}
    \/ task[j] \in {"dispatched", "removing"} /\ task'[j] \in {"inferring", "done"}
    \/ /\ closer = "closed" /\ UNCHANGED <<post, task>>
       /\ task[j] \in {"none", "done"} /\ post[j] \notin Submitting

UploadMoves(j) ==
    /\ OnDisk(j) => OnDisk(j)' \/ Removes(j)
    /\ \/ task'[j] = task[j]
       \/ task[j] \notin {"none", "done"} /\ task'[j] \in {"inferring", "removing", "done"}
       \/ /\ task'[j] = "dispatched"
          /\ \E w \in Workers : held[w] = j /\ pc[w] = "claimed" /\ pc'[w] = "awaiting"
    /\ \/ post'[j] = post[j]
       \/ post'[j] \in Submitting /\ (post[j] \in Submitting \/ OnDisk(j)')
       \/ post'[j] = "accepted" /\ post[j] \in Submitting
       \/ post'[j] \notin Submitting \cup {"accepted"}
    /\ Released(j)' => Released(j) \/ (IsWaiting(j) /\ (Leaves(j) \/ CloseDrains))

LEMMA UploadSteps ==
  ASSUME UploadInv, [Next]_vars
  PROVE  \A j \in Jobs : UploadMoves(j)
<1>a. /\ post \in [Jobs -> PostStates] /\ todo \in [Jobs -> Seq(Jobs)]
      /\ del \in [Jobs -> {"idle", "releasing", "dropping"}]
      /\ task \in [Jobs -> TaskStates]
      /\ pc \in [Workers -> WorkerStates] /\ held \in [Workers -> Jobs \cup {NoJob}]
      /\ file \subseteq Jobs /\ leased \subseteq Jobs /\ toDiscard \subseteq Jobs
  BY DEF UploadInv, DispatchInv, TypeOK
<1> DEFINE Fine == \A j \in Jobs : UploadMoves(j)
<1> SUFFICES Fine
  OBVIOUS
<1> USE DEF UploadMoves, Released, Clearing, Submitting, Removes, OnDisk,
            postVars, workerVars, taskVars, diskVars, closeVars
<1>b. ASSUME UNCHANGED <<post, todo, del, diskVars, task, toDiscard>> PROVE Fine
  BY <1>b
<1>1. ASSUME NEW k \in Jobs, Post(k) PROVE Fine
  <2>1. CASE PostCreate(k) \/ PostPersist(k) \/ PostStored(k)
    BY <1>a, <2>1 DEF PostCreate, PostPersist, PostStored, Sweepable
  <2>2. CASE PostPersistFails(k) \/ PostDrop(k) \/ PostDiscard(k)
    BY <1>a, <2>2 DEF PostPersistFails, PostDrop, PostDiscard, RemoveUpload, Unlinks, UnlinkFails
  <2>3. ASSUME Admit(k) \/ Enqueue(k), post[k] \in {"stored", "checking", "admitting"},
               UNCHANGED <<del, diskVars, task, toDiscard>>
        PROVE  Fine
    <3>1. /\ \E e \in {"admitting", "accepted", "dropping"} : post' = [post EXCEPT ![k] = e]
          /\ todo' = todo \/ todo' = [todo EXCEPT ![k] = waiting]
      BY <2>3 DEF Admit, Enqueue
    <3>2. PICK e \in {"admitting", "accepted", "dropping"} : post' = [post EXCEPT ![k] = e]
      BY <3>1
    <3>3. ASSUME NEW j \in Jobs, j # k PROVE UploadMoves(j)
      BY <1>a, <2>3, <3>1, <3>2, <3>3
    <3>4. UploadMoves(k)
      BY <1>a, <2>3, <3>1, <3>2
    <3> QED
      BY <3>3, <3>4
  <2>4. CASE PostLookup(k)
    BY <1>a, <2>3, <2>4 DEF PostLookup
  <2>5. CASE PostDecide(k)
    BY <1>a, <2>3, <2>5 DEF PostDecide
  <2>6. CASE PostAdmitted(k)
    BY <2>3, <2>6 DEF PostAdmitted
  <2>7. CASE PostLookAt(k)
    BY <1>a, <2>7 DEF PostLookAt, Leaves
  <2>8. CASE PostCleared(k)
    <3>1. /\ post[k] = "clearing" /\ UNCHANGED <<seen, del, waiting, printVars, taskVars, closeVars>>
          /\ todo' = [todo EXCEPT ![k] = Tail(todo[k])] \/ todo' = [todo EXCEPT ![k] = <<>>]
          /\ post' = [post EXCEPT ![k] = "admitting"] \/ post' = [post EXCEPT ![k] = "dropping"]
          /\ \A j \in Jobs : OnDisk(j) => OnDisk(j)' \/ j = Head(todo[k])
      BY <1>a, <2>8 DEF PostCleared, Unlinks, UnlinkFails
    <3>2. ASSUME NEW j \in Jobs PROVE Released(j)' => Released(j)
      BY <1>a, <3>1, <3>2
    <3>3. ASSUME NEW j \in Jobs, OnDisk(j), ~OnDisk(j)' PROVE Released(j)
      BY <1>a, <3>1, <3>3
    <3>4. ASSUME NEW j \in Jobs PROVE post'[j] = post[j] \/ (j = k /\ post'[j] \in {"admitting", "dropping"})
      BY <1>a, <3>1, <3>4
    <3> QED
      BY <3>1, <3>2, <3>3, <3>4
  <2>9. CASE PostAborts(k)
    BY <1>a, <2>9 DEF PostAborts, RemoveUpload, Unlinks, UnlinkFails
  <2> QED
    BY <1>1, <2>1, <2>2, <2>4, <2>5, <2>6, <2>7, <2>8, <2>9 DEF Post
<1>2. ASSUME NEW k \in Jobs, Delete(k) \/ DeleteDrop(k) PROVE Fine
  BY <1>a, <1>2 DEF Delete, DeleteDrop, RemoveUpload, Unlinks, UnlinkFails
<1>3. ASSUME NEW k \in Jobs, DeleteRelease(k) PROVE Fine
  BY <1>a, <1>3 DEF DeleteRelease, Leaves
<1>4. ASSUME NEW k \in Jobs, Task(k) PROVE Fine
  BY <1>a, <1>4 DEF Task, Consume, TaskEnds, TaskRemoves, Unlinks, UnlinkFails
<1>5. ASSUME NEW k \in Jobs, Elsewhere(k) \/ TimePasses(k) \/ CloseRecords(k) PROVE Fine
  BY <1>b, <1>5, ElsewhereKeeps DEF TimePasses, CloseRecords
<1>6. ASSUME NEW w \in Workers, Skip(w) \/ WorkerCancelled(w) PROVE Fine
  BY <1>a, <1>6 DEF Skip, WorkerCancelled, WorkerAt, WorkerGoes, RemoveUpload, Unlinks,
                    UnlinkFails
<1>7. ASSUME NEW w \in Workers, Dispatch(w) PROVE Fine
  BY <1>a, <1>7 DEF Dispatch, WorkerAt, WorkerGoes
<1>8. ASSUME NEW w \in Workers,
             \/ Sleep(w) \/ Take(w) \/ Claim(w) \/ Receive(w) \/ Record(w) \/ Release(w)
             \/ CancellationConsumed(w)
      PROVE  Fine
  BY <1>b, <1>8 DEF Sleep, Take, Claim, Receive, Record, Release, CancellationConsumed
<1>9. CASE CloseDrains
  BY <1>a, <1>9 DEF CloseDrains
<1>10. ASSUME NEW k \in Jobs, CloseDiscards(k) PROVE Fine
  BY <1>a, <1>10 DEF CloseDiscards, Unlinks, UnlinkFails
<1>11. CASE UploadsClose
  BY <1>a, <1>11 DEF UploadsClose
<1>12. CASE \/ CloseBegins \/ CloseRecorded \/ CloseEnds \/ CloseGivesUp \/ Down
            \/ UNCHANGED vars
  BY <1>b, <1>12 DEF CloseBegins, CloseRecorded, CloseEnds, CloseGivesUp, Down, vars
<1> QED
  BY <1>1, <1>2, <1>3, <1>4, <1>5, <1>6, <1>7, <1>8, <1>9, <1>10, <1>11, <1>12
  DEF Next, CloseRuns, WorkerRuns

\* A job gets into the queue from its POST, and to a worker from the queue.
LEMMA Entries ==
  ASSUME UploadInv, [Next]_vars, NEW j \in Jobs
  PROVE  /\ IsWaiting(j)' => IsWaiting(j) \/ (post[j] # "accepted" /\ post'[j] = "accepted")
         /\ \A w \in Workers : held'[w] = j => held[w] = j \/ IsWaiting(j)
<1>a. /\ waiting \in Seq(Jobs) /\ NoRepeats(waiting)
      /\ held \in [Workers -> Jobs \cup {NoJob}]
  BY DEF UploadInv, DispatchInv, TypeOK, HeldOnce, NoRepeats
<1>b. DispatcherMoves
  BY DispatcherSteps DEF UploadInv
<1>c. IsWaiting(j) <=> InQueue(waiting, j)
  BY DEF IsWaiting, InQueue
<1>d. IsWaiting(j)' <=> InQueue(waiting', j)
  BY DEF IsWaiting, InQueue
<1>1. CASE UNCHANGED <<waiting, held, printVars>>
  BY <1>1, <1>c, <1>d
<1>2. ASSUME NEW k \in Jobs, Joins(k)
      PROVE  /\ IsWaiting(j)' => IsWaiting(j) \/ (post[j] # "accepted" /\ post'[j] = "accepted")
             /\ held' = held
  BY <1>2, <1>a, <1>c, <1>d, AppendToQueue DEF Joins
<1>3. ASSUME NEW k \in Jobs, Leaves(k) PROVE (IsWaiting(j)' => IsWaiting(j)) /\ held' = held
  BY <1>3, <1>a, <1>c, <1>d, WithoutProperties DEF Leaves
<1>4. ASSUME NEW w \in Workers, Take(w)
      PROVE  /\ IsWaiting(j)' => IsWaiting(j)
             /\ \A v \in Workers : held'[v] = j => held[v] = j \/ IsWaiting(j)
  <2>1. /\ waiting # <<>> /\ waiting' = Tail(waiting)
        /\ held' = [held EXCEPT ![w] = Head(waiting)]
    BY <1>4 DEF Take, Popped
  <2> QED
    BY <2>1, <1>a, <1>c, <1>d, TailOfQueue
<1>5. ASSUME NEW w \in Workers, LetsGo(w)
      PROVE  /\ IsWaiting(j)' => IsWaiting(j)
             /\ \A v \in Workers : held'[v] = j => held[v] = j
  BY <1>5, <1>a, <1>c, <1>d, DispatchAssumption DEF LetsGo, HoldNothing
<1>6. CASE CloseDrains
  BY <1>6, <1>d, DispatchAssumption DEF CloseDrains, InQueue
<1> QED
  BY <1>b, <1>1, <1>2, <1>3, <1>4, <1>5, <1>6 DEF DispatcherMoves

-----------------------------------------------------------------------------
(* The invariant is inductive.                                              *)

\* What the invariant says of one job.
LEMMA JobFacts ==
  ASSUME UploadInv, NEW j \in Jobs
  PROVE  /\ IsWaiting(j) \/ IsHeld(j) => post[j] = "accepted"
         /\ ~(IsWaiting(j) /\ IsHeld(j))
         /\ \A v, w \in Workers : held[v] = j /\ held[w] = j => v = w
         /\ IsWaiting(j) \/ IsHeld(j) => closer # "closed"
         /\ Released(j) => ~IsWaiting(j) /\ ~IsHeld(j) /\ task[j] = "none" /\ post[j] = "accepted"
<1>1. j # NoJob
  BY DispatchAssumption
<1>2. closer = "closed" => ~IsWaiting(j) /\ ~IsHeld(j)
  BY <1>1 DEF UploadInv, DispatchInv, DrainedIsEmpty, Drained, IsWaiting, IsHeld
<1> QED
  BY <1>1, <1>2 DEF UploadInv, DispatchInv, HeldAreAccepted, HeldOnce, InDispatcher, ReleasedIsOut

LEMMA DispatchedInductive ==
  ASSUME UploadInv, [Next]_vars, NEW j \in Jobs, task'[j] # "none"
  PROVE  /\ ~IsWaiting(j)' /\ post'[j] = "accepted"
         /\ \A w \in Workers : held'[w] = j => pc'[w] \notin {"taken", "claimed", "skipping"}
<1>a. AcceptedStay /\ ReplicaMoves /\ UploadMoves(j)
  BY DispatcherSteps, ReplicaSteps, UploadSteps DEF UploadInv
<1>b. \A w \in Workers : pc[w] \in {"ready", "blocked"} => held[w] # j
  BY DispatchAssumption DEF UploadInv, DispatchInv, HoldsByState
<1>c. \A w \in Workers : WorkerMoves(w)
  BY <1>a DEF ReplicaMoves
<1>1. CASE task[j] # "none"
  <2>1. /\ ~IsWaiting(j) /\ post[j] = "accepted"
        /\ \A w \in Workers : held[w] = j => pc[w] \notin {"taken", "claimed", "skipping"}
    BY <1>1 DEF UploadInv, NotYetDispatched
  <2>2. ~IsWaiting(j)' /\ \A w \in Workers : held'[w] = j => held[w] = j
    BY <2>1, Entries
  <2> QED
    BY <1>a, <1>b, <1>c, <2>1, <2>2 DEF WorkerMoves, AcceptedStay
<1>2. CASE task[j] = "none"
  <2>1. PICK w \in Workers : held[w] = j /\ pc[w] = "claimed" /\ pc'[w] = "awaiting"
    BY <1>a, <1>2 DEF UploadMoves
  <2>2. ~IsWaiting(j) /\ post[j] = "accepted" /\ \A v \in Workers : held[v] = j => v = w
    BY <2>1, JobFacts DEF IsHeld
  <2>3. ~IsWaiting(j)' /\ \A v \in Workers : held'[v] = j => v = w
    BY <2>2, Entries
  <2> QED
    BY <1>a, <2>1, <2>2, <2>3 DEF AcceptedStay
<1> QED
  BY <1>1, <1>2

LEMMA ReleasedInductive ==
  ASSUME UploadInv, [Next]_vars, NEW j \in Jobs, Released(j)'
  PROVE  ~InDispatcher(j)' /\ task'[j] = "none" /\ post'[j] = "accepted"
<1>a. AcceptedStay /\ UploadMoves(j)
  BY DispatcherSteps, UploadSteps DEF UploadInv
<1>1. CASE Released(j)
  <2>1. ~IsWaiting(j) /\ ~IsHeld(j) /\ task[j] = "none" /\ post[j] = "accepted"
    BY <1>1, JobFacts
  <2>2. ~IsWaiting(j)' /\ ~IsHeld(j)'
    BY <2>1, Entries DEF IsHeld
  <2> QED
    BY <1>a, <2>1, <2>2 DEF InDispatcher, UploadMoves, AcceptedStay, IsHeld
<1>2. CASE IsWaiting(j) /\ (Leaves(j) \/ CloseDrains)
  <2>1. ~IsHeld(j) /\ task[j] = "none" /\ post[j] = "accepted"
    BY <1>2, JobFacts DEF UploadInv, NotYetDispatched
  <2>2. ~IsWaiting(j)' /\ ~IsHeld(j)'
    <3>1. CASE Leaves(j)
      <4>1. waiting \in Seq(Jobs) /\ NoRepeats(waiting)
        BY DEF UploadInv, DispatchInv, TypeOK, HeldOnce, NoRepeats
      <4>2. ~InQueue(waiting', j) /\ held' = held
        BY <3>1, <4>1, WithoutProperties DEF Leaves
      <4> QED
        BY <2>1, <4>2 DEF IsWaiting, InQueue, IsHeld
    <3>2. CASE CloseDrains
      BY <3>2, DispatchAssumption DEF CloseDrains, IsWaiting, IsHeld
    <3> QED
      BY <1>2, <3>1, <3>2
  <2> QED
    BY <1>a, <2>1, <2>2 DEF InDispatcher, UploadMoves, AcceptedStay, IsHeld
<1> QED
  BY <1>a, <1>1, <1>2 DEF UploadMoves

LEMMA SubmittedInductive ==
  ASSUME UploadInv, [Next]_vars, NEW j \in Jobs, post'[j] \in Submitting
  PROVE  OnDisk(j)'
<1>1. AcceptedStay /\ UploadMoves(j)
  BY DispatcherSteps, UploadSteps DEF UploadInv
<1>2. post[j] # "accepted"
  BY <1>1 DEF AcceptedStay, Submitting
<1>3. ~Released(j) /\ ~IsHeld(j) /\ task[j] = "none"
  BY <1>2, JobFacts DEF UploadInv, NotYetDispatched
<1>4. CASE post[j] \in Submitting
  BY <1>1, <1>3, <1>4 DEF UploadMoves, Removes, UploadInv, SubmittedIsThere, IsHeld
<1>5. CASE post[j] \notin Submitting
  BY <1>1, <1>5 DEF UploadMoves, Submitting
<1> QED
  BY <1>4, <1>5

LEMMA ThereInductive ==
  ASSUME UploadInv, [Next]_vars, NEW j \in Jobs,
         \/ IsWaiting(j)'
         \/ task'[j] = "dispatched"
         \/ \E w \in Workers : held'[w] = j /\ pc'[w] \in {"taken", "claimed"}
  PROVE  OnDisk(j)'
<1>a. AcceptedStay /\ ReplicaMoves /\ UploadMoves(j)
  BY DispatcherSteps, ReplicaSteps, UploadSteps DEF UploadInv
<1>b. \A w \in Workers : pc[w] \in {"ready", "blocked"} => held[w] # j
  BY DispatchAssumption DEF UploadInv, DispatchInv, HoldsByState
<1>c. \A w \in Workers : WorkerMoves(w)
  BY <1>a DEF ReplicaMoves
<1>1. \/ IsWaiting(j)
      \/ post[j] \in Submitting /\ post'[j] = "accepted"
      \/ task[j] = "dispatched" /\ task'[j] = "dispatched"
      \/ \E w \in Workers : held[w] = j /\ pc[w] \in {"taken", "claimed"}
  <2>1. CASE IsWaiting(j)'
    BY <1>a, <2>1, Entries DEF UploadMoves, Submitting
  <2>2. CASE task'[j] = "dispatched"
    BY <1>a, <2>2 DEF UploadMoves
  <2>3. ASSUME NEW w \in Workers, held'[w] = j, pc'[w] \in {"taken", "claimed"}
        PROVE  IsWaiting(j) \/ (held[w] = j /\ pc[w] \in {"taken", "claimed"})
    BY <1>b, <1>c, <2>3, Entries DEF WorkerMoves
  <2> QED
    BY <2>1, <2>2, <2>3
<1>2. OnDisk(j)
  BY <1>1 DEF UploadInv, SubmittedIsThere, UploadsAreThere, OnDisk
<1>3. ~Removes(j)
  <2>1. CASE post[j] \in Submitting /\ post'[j] = "accepted"
    <3>1. ~Released(j) /\ ~IsHeld(j) /\ task[j] = "none"
      BY <2>1, JobFacts DEF UploadInv, NotYetDispatched, Submitting
    <3> QED
      BY <2>1, <3>1 DEF Removes, IsHeld
  <2>2. CASE IsWaiting(j) \/ \E w \in Workers : held[w] = j /\ pc[w] \in {"taken", "claimed"}
    <3>1. ~Released(j) /\ task[j] = "none" /\ post[j] = "accepted" /\ closer # "closed"
      BY <2>2, JobFacts DEF UploadInv, NotYetDispatched, IsHeld
    <3>2. \A v \in Workers : held[v] = j => pc[v] # "skipping"
      BY <2>2, JobFacts DEF IsHeld
    <3> QED
      BY <3>1, <3>2 DEF Removes
  <2>3. CASE task[j] = "dispatched" /\ task'[j] = "dispatched"
    <3>1. ~Released(j)
      BY <2>3, JobFacts
    <3>2. /\ post[j] = "accepted"
          /\ \A v \in Workers : held[v] = j => pc[v] # "skipping"
      BY <2>3 DEF UploadInv, NotYetDispatched
    <3> QED
      BY <2>3, <3>1, <3>2 DEF Removes
  <2> QED
    BY <1>1, <2>1, <2>2, <2>3
<1> QED
  BY <1>a, <1>2, <1>3 DEF UploadMoves

LEMMA UploadInvInit ==
  ASSUME Init
  PROVE  UploadInv
<1>1. SubmittedIsThere /\ ReleasedIsOut /\ NotYetDispatched /\ UploadsAreThere
  BY DispatchAssumption
  DEF Init, SubmittedIsThere, Submitting, ReleasedIsOut, Released, Clearing, NotYetDispatched,
      UploadsAreThere, IsWaiting
<1> QED
  BY <1>1, DispatchInvInit DEF UploadInv

LEMMA UploadInvInductive ==
  ASSUME UploadInv, [Next]_vars
  PROVE  UploadInv'
<1>1. DispatchInv'
  BY DispatchInvInductive DEF UploadInv
<1>2. SubmittedIsThere'
  BY SubmittedInductive DEF SubmittedIsThere
<1>3. ReleasedIsOut'
  BY ReleasedInductive DEF ReleasedIsOut
<1>4. NotYetDispatched'
  BY DispatchedInductive DEF NotYetDispatched
<1>5. UploadsAreThere'
  BY ThereInductive DEF UploadsAreThere, OnDisk
<1> QED
  BY <1>1, <1>2, <1>3, <1>4, <1>5 DEF UploadInv


\* Nobody removes an upload that is still to be read: not the sweep of another POST,
\* not the release of stale jobs, not a DELETE, not the shutdown, whatever they
\* interleave with (sweep_stale, _release_stale, release_cancelled against the
\* worker's hand-over to the tracker).
THEOREM UploadsThereCorrect == Spec => []UploadsAreThere
<1> QED
  BY UploadInvInit, UploadInvInductive, PTL DEF Spec, UploadInv

-----------------------------------------------------------------------------
(* Who removes an upload in the end.                                        *)

PostOwns(j) == post[j] \in Submitting \cup {"dropping"}
WorkerOwns(j) == \E w \in Workers : held[w] = j /\ pc[w] \in {"taken", "claimed", "skipping"}
TaskOwns(j) == task[j] \in {"dispatched", "inferring", "removing"}

LEMMA OwnerParts ==
  ASSUME NEW j \in Jobs
  PROVE  UploadOwner(j) <=>
            PostOwns(j) \/ IsWaiting(j) \/ WorkerOwns(j) \/ TaskOwns(j) \/ Released(j)
  BY DEF UploadOwner, PostOwns, Submitting, WorkerOwns, TaskOwns, Released, Clearing

\* Only the shutdown cancels workers, and only once it has drained the dispatcher are
\* there records and uploads it has to settle.
ShutdownOrder ==
    /\ killed # {} => Closed
    /\ toDiscard # {} \/ toRecord # {} => Drained

\* A task that is over has given the upload's lease up.
DoneIsUnleased == \A j \in Jobs : task[j] = "done" => j \notin leased

\* A worker that awaits an outcome awaits that of a task.
AwaitsTask ==
    \A w \in Workers : pc[w] \in {"awaiting", "finishing"} => task[held[w]] # "none"

\* A worker that has left its loop by itself holds nothing.
StoppedHoldNothing == \A w \in Workers : pc[w] = "stopped" => held[w] = NoJob

OwnerInv ==
    /\ UploadInv
    /\ ShutdownOrder /\ DoneIsUnleased /\ AwaitsTask /\ StoppedHoldNothing
    /\ UploadsAreOwned
    /\ ~Shared => HeldUploadIsTrackers

\* Whoever has an upload keeps it, hands it on or gives up its lease.  The shutdown
\* of a shared store's replica may cut a worker short, and a removal that fails
\* ends that of the waiting jobs.
OwnerMoves(j) ==
    /\ j \in leased' => j \in leased \/ (post[j] = "created" /\ PostOwns(j)')
    /\ PostOwns(j) => PostOwns(j)' \/ IsWaiting(j)' \/ j \notin leased'
    /\ IsWaiting(j) => IsWaiting(j)' \/ WorkerOwns(j)' \/ Released(j)'
    /\ WorkerOwns(j) => \/ WorkerOwns(j)' \/ TaskOwns(j)' \/ j \notin leased'
                        \/ Closed' /\ Shared
    /\ TaskOwns(j) => TaskOwns(j)' \/ j \notin leased'
    /\ Released(j) => Released(j)' \/ j \notin leased' \/ (Closed' /\ DiskFaults)
    /\ task'[j] = "done" => task[j] = "done" \/ j \notin leased'

\* What a worker leaves behind it: a task when it goes on to wait, nothing when its loop
\* ends, and nothing to remove when it is cancelled, but for a shared store's replica.
EndMoves(w) ==
    /\ pc'[w] = "cancelled" /\ held'[w] # NoJob =>
        /\ held'[w] = held[w]
        /\ \/ pc[w] \in {"cancelled", "stopped", "awaiting", "finishing"}
           \/ held[w] \notin leased' \/ Shared
    /\ pc[w] = "claimed" /\ pc'[w] = "awaiting" => task'[held[w]] = "dispatched"
    /\ pc'[w] = "stopped" => held'[w] = NoJob \/ (pc[w] = "stopped" /\ held'[w] = held[w])

\* Nobody but the shutdown cancels, and it does not reopen the dispatcher.
LEMMA ShutdownSteps ==
  ASSUME TypeOK, ShutdownOrder, [Next]_vars
  PROVE  ShutdownOrder' /\ (Closed => Closed')
<1> USE DEF TypeOK, ShutdownOrder, Closed, Drained, CloserStates, postVars, workerVars, closeVars
<1>a. ASSUME UNCHANGED <<killed, closer, toRecord, toDiscard>> PROVE ShutdownOrder' /\ (Closed => Closed')
  BY <1>a
<1>1. ASSUME NEW j \in Jobs, Post(j) PROVE UNCHANGED <<killed, closer, toRecord, toDiscard>>
  <2>1. ASSUME Admit(j) \/ Enqueue(j) PROVE UNCHANGED killed
    BY <2>1 DEF Admit, Enqueue
  <2>2. CASE PostLookup(j) \/ PostDecide(j) \/ PostAdmitted(j)
    BY <2>1, <2>2 DEF PostLookup, PostDecide, PostAdmitted
  <2>3. CASE PostCreate(j) \/ PostPersist(j) \/ PostStored(j) \/ PostPersistFails(j)
    BY <2>3 DEF PostCreate, PostPersist, PostStored, PostPersistFails
  <2>4. CASE PostLookAt(j) \/ PostCleared(j) \/ PostAborts(j) \/ PostDrop(j) \/ PostDiscard(j)
    BY <2>4 DEF PostLookAt, PostCleared, PostAborts, PostDrop, PostDiscard
  <2> QED
    BY <1>1, <2>2, <2>3, <2>4 DEF Post
<1>2. ASSUME NEW j \in Jobs,
             \/ Delete(j) \/ DeleteRelease(j) \/ DeleteDrop(j) \/ Elsewhere(j)
             \/ Task(j) \/ TimePasses(j)
      PROVE  UNCHANGED <<killed, closer, toRecord, toDiscard>>
  BY <1>2, ElsewhereKeeps DEF Delete, DeleteRelease, DeleteDrop, Task, Consume, TaskEnds,
                              TaskRemoves, TimePasses
<1>3. ASSUME NEW j \in Jobs, CloseRecords(j) \/ CloseDiscards(j)
      PROVE  ShutdownOrder' /\ (Closed => Closed')
  BY <1>3 DEF CloseRecords, CloseDiscards
<1>4. ASSUME NEW w \in Workers, WorkerRuns(w) \/ CancellationConsumed(w)
      PROVE  killed' \subseteq killed /\ UNCHANGED <<closer, toRecord, toDiscard>>
  BY <1>4 DEF WorkerRuns, Sleep, Take, Claim, Skip, Dispatch, Receive, Record, Release,
              WorkerCancelled, CancellationConsumed
<1>5. CASE CloseBegins \/ CloseDrains \/ CloseRecorded \/ CloseEnds \/ UploadsClose \/ CloseGivesUp
  BY <1>5 DEF CloseBegins, CloseDrains, CloseRecorded, CloseEnds, UploadsClose, CloseGivesUp
<1>6. CASE Down \/ UNCHANGED vars
  BY <1>6 DEF Down, vars
<1> QED
  BY <1>a, <1>1, <1>2, <1>3, <1>4, <1>5, <1>6 DEF Next, CloseRuns

LEMMA OwnerSteps ==
  ASSUME UploadInv, ShutdownOrder, [Next]_vars
  PROVE  \A j \in Jobs : OwnerMoves(j)
<1>a. /\ post \in [Jobs -> PostStates] /\ todo \in [Jobs -> Seq(Jobs)]
      /\ del \in [Jobs -> {"idle", "releasing", "dropping"}]
      /\ task \in [Jobs -> TaskStates] /\ waiting \in Seq(Jobs) /\ NoRepeats(waiting)
      /\ pc \in [Workers -> WorkerStates] /\ held \in [Workers -> Jobs \cup {NoJob}]
      /\ leased \subseteq Jobs /\ toDiscard \subseteq Jobs
  BY DEF UploadInv, DispatchInv, TypeOK, HeldOnce, NoRepeats
<1> DEFINE Fine == \A j \in Jobs : OwnerMoves(j)
<1> SUFFICES Fine
  OBVIOUS
<1> USE DEF OwnerMoves, PostOwns, WorkerOwns, TaskOwns, Released, Clearing, Submitting,
            postVars, workerVars, taskVars, diskVars, closeVars
<1>b. ASSUME UNCHANGED <<post, todo, del, waiting, pc, held, leased, task, toDiscard>>
      PROVE  Fine
  BY <1>b DEF IsWaiting
<1>c. \A j \in Jobs : IsWaiting(j) <=> InQueue(waiting, j)
  BY DEF IsWaiting, InQueue
<1>d. \A j \in Jobs : IsWaiting(j)' <=> InQueue(waiting', j)
  BY DEF IsWaiting, InQueue
<1>e. waiting' = waiting => \A j \in Jobs : IsWaiting(j) => IsWaiting(j)'
  BY DEF IsWaiting
<1>f. \A k \in Jobs : /\ InQueue(Append(waiting, k), k)
                      /\ \A j \in Jobs : InQueue(waiting, j) => InQueue(Append(waiting, k), j)
  BY <1>a, AppendToQueue
<1>g. \A k, j \in Jobs : InQueue(Without(k), j) <=> InQueue(waiting, j) /\ j # k
  BY <1>a, WithoutProperties
<1>1. ASSUME NEW k \in Jobs, Post(k) PROVE Fine
  <2>1. CASE PostCreate(k) \/ PostPersist(k) \/ PostStored(k)
    BY <1>a, <1>e, <2>1 DEF PostCreate, PostPersist, PostStored
  <2>2. CASE PostPersistFails(k) \/ PostDrop(k) \/ PostDiscard(k)
    BY <1>a, <1>e, <2>2 DEF PostPersistFails, PostDrop, PostDiscard, RemoveUpload, Unlinks, UnlinkFails
  <2>3. ASSUME Admit(k) \/ Enqueue(k), post[k] \in {"stored", "checking", "admitting"},
               UNCHANGED <<del, diskVars, task, toDiscard>>
        PROVE  Fine
    <3>1. /\ \/ post' = [post EXCEPT ![k] = "accepted"] /\ waiting' = Append(waiting, k)
             \/ \E e \in {"admitting", "dropping"} :
                   post' = [post EXCEPT ![k] = e] /\ waiting' = waiting
          /\ todo' = todo \/ todo' = [todo EXCEPT ![k] = waiting]
          /\ held' = held
          /\ \A w \in Workers : pc'[w] = pc[w] \/ pc[w] = "blocked"
      BY <1>a, <2>3 DEF Admit, Enqueue, WakeWorkers
    <3>2. \A j \in Jobs : IsWaiting(j) => IsWaiting(j)'
      BY <1>c, <1>d, <1>f, <3>1
    <3>3. PostOwns(k)' \/ IsWaiting(k)'
      BY <1>a, <1>d, <1>f, <3>1
    <3>4. \A j \in Jobs : j # k => post'[j] = post[j] /\ todo'[j] = todo[j]
      BY <1>a, <3>1
    <3>5. \A j \in Jobs : Clearing(j, k) => j # k
      BY <2>3
    <3>6. \A j \in Jobs : Released(j) => Released(j)'
      BY <2>3, <3>4
    <3>7. \A j \in Jobs : WorkerOwns(j) => WorkerOwns(j)'
      BY <3>1
    <3> QED
      BY <2>3, <3>2, <3>3, <3>4, <3>6, <3>7
  <2>4. ASSUME NEW e \in {"checking", "dropping"}, post' = [post EXCEPT ![k] = e],
                post[k] \in {"stored", "checking"},
                UNCHANGED <<todo, waiting, workerVars, del, diskVars, task, toDiscard>>
         PROVE  Fine
    BY <1>a, <1>e, <2>4
  <2>5. CASE PostLookup(k)
    <3>1. post[k] = "stored" /\ UNCHANGED <<del, diskVars, task, toDiscard>>
      BY <2>5 DEF PostLookup
    <3>2. \/ Admit(k)
          \/ /\ post' = [post EXCEPT ![k] = "checking"]
             /\ UNCHANGED <<todo, waiting, workerVars>>
      BY <2>5 DEF PostLookup
    <3> QED
      BY <2>3, <2>4, <3>1, <3>2
  <2>6. CASE PostDecide(k)
    <3>1. post[k] = "checking" /\ UNCHANGED <<del, diskVars, task, toDiscard>>
      BY <2>6 DEF PostDecide
    <3>2. \/ Admit(k)
          \/ /\ post' = [post EXCEPT ![k] = "dropping"]
             /\ UNCHANGED <<todo, waiting, workerVars>>
      BY <2>6 DEF PostDecide
    <3> QED
      BY <2>3, <2>4, <3>1, <3>2
  <2>7. CASE PostAdmitted(k)
    <3>1. /\ post[k] = "admitting" /\ UNCHANGED <<del, diskVars, task, toDiscard>>
          /\ Enqueue(k)
      BY <2>7 DEF PostAdmitted
    <3> QED
      BY <2>3, <3>1
  <2>8. CASE PostLookAt(k)
    <3>1. /\ post[k] = "admitting" /\ UNCHANGED <<del, diskVars, task, toDiscard, workerVars>>
          /\ \/ /\ waiting' = Without(Head(todo[k])) /\ Head(todo[k]) \in Jobs
                /\ post' = [post EXCEPT ![k] = "clearing"] /\ todo' = todo
             \/ waiting' = waiting /\ post' = post /\ todo'[k] # todo[k]
             \/ waiting' = waiting /\ post' = post
          /\ \A j \in Jobs : j # k => todo'[j] = todo[j]
      BY <1>a, <2>8, HeadTailProperties DEF PostLookAt
    <3>2. \A j \in Jobs : j # k => post'[j] = post[j] /\ todo'[j] = todo[j]
      BY <1>a, <3>1
    <3>3. \A j \in Jobs : Released(j) => Released(j)'
      BY <3>1, <3>2
    <3>4. \A j \in Jobs : IsWaiting(j) => IsWaiting(j)' \/ Released(j)'
      <4>1. CASE waiting' = waiting
        BY <1>e, <4>1
      <4>2. CASE /\ waiting' = Without(Head(todo[k])) /\ Head(todo[k]) \in Jobs
                 /\ post' = [post EXCEPT ![k] = "clearing"] /\ todo' = todo
        <5>1. Clearing(k, Head(todo[k]))'
          BY <1>a, <4>2
        <5> QED
          BY <1>c, <1>d, <1>g, <4>2, <5>1
      <4> QED
        BY <3>1, <4>1, <4>2
    <3>5. \A j \in Jobs : PostOwns(j) => PostOwns(j)'
      BY <1>a, <3>1, <3>2
    <3> QED
      BY <3>1, <3>3, <3>4, <3>5
  <2>9. ASSUME post[k] \in Submitting, post'[k] \in {"admitting", "dropping", "discarding", "refused"},
                post'[k] \in {"admitting", "dropping"} \/ k \notin leased' \/ post[k] = "created",
                \A j \in Jobs : j # k => post'[j] = post[j] /\ todo'[j] = todo[j],
                post[k] = "clearing" => Head(todo[k]) \notin leased',
                leased' \subseteq leased,
                UNCHANGED <<del, task, toDiscard, workerVars, waiting>>
         PROVE  Fine
    <3>1. \A j \in Jobs : Released(j) => Released(j)' \/ j \notin leased'
      BY <2>9
    <3> QED
      BY <1>e, <2>9, <3>1
  <2>10. CASE PostCleared(k)
    <3>1. /\ post[k] = "clearing" /\ UNCHANGED <<del, task, toDiscard, workerVars, waiting>>
          /\ \A j \in Jobs : j # k => post'[j] = post[j] /\ todo'[j] = todo[j]
          /\ post'[k] \in {"admitting", "dropping"}
          /\ leased' = leased \ {Head(todo[k])}
      BY <1>a, <2>10 DEF PostCleared, Unlinks, UnlinkFails
    <3> QED
      BY <2>9, <3>1
  <2>11. CASE PostAborts(k)
    <3>1. /\ UNCHANGED <<del, task, toDiscard, workerVars, waiting>>
          /\ \A j \in Jobs : j # k => post'[j] = post[j] /\ todo'[j] = todo[j]
      BY <1>a, <2>11 DEF PostAborts
    <3>2. \/ /\ post[k] = "created" /\ leased' = leased
          \/ post[k] = "writing" /\ post'[k] = "discarding" /\ leased' = leased \ {k}
          \/ /\ post[k] \in {"stored", "checking", "admitting"} /\ post'[k] = "dropping"
             /\ leased' = leased
          \/ /\ post[k] = "clearing" /\ post'[k] = "dropping"
             /\ leased' = leased \ {Head(todo[k])}
      BY <1>a, <2>11 DEF PostAborts, RemoveUpload, Unlinks, UnlinkFails
    <3>3. CASE post[k] = "created"
      <4>1. leased' = leased /\ ~PostOwns(k) /\ \A j \in Jobs : Clearing(k, j) => FALSE
        BY <3>2, <3>3
      <4>2. \A j \in Jobs : Released(j) => Released(j)'
        BY <3>1, <3>3
      <4> QED
        BY <1>e, <3>1, <4>1, <4>2
    <3> QED
      BY <2>9, <3>1, <3>2, <3>3
  <2> QED
    BY <1>1, <2>1, <2>2, <2>5, <2>6, <2>7, <2>8, <2>10, <2>11 DEF Post
<1>2. ASSUME NEW k \in Jobs, Delete(k) \/ DeleteDrop(k) PROVE Fine
  BY <1>a, <1>e, <1>2 DEF Delete, DeleteDrop, RemoveUpload, Unlinks, UnlinkFails
<1>3. ASSUME NEW k \in Jobs, DeleteRelease(k) PROVE Fine
  BY <1>a, <1>c, <1>d, <1>e, <1>g, <1>3 DEF DeleteRelease
<1>4. ASSUME NEW k \in Jobs, Task(k) PROVE Fine
  BY <1>a, <1>e, <1>4 DEF Task, Consume, TaskEnds, TaskRemoves, Unlinks, UnlinkFails
<1>5. ASSUME NEW k \in Jobs, Elsewhere(k) \/ TimePasses(k) \/ CloseRecords(k) PROVE Fine
  BY <1>b, <1>5, ElsewhereKeeps DEF TimePasses, CloseRecords
<1>6. ASSUME NEW w \in Workers, Take(w) PROVE Fine
  <2>1. /\ waiting # <<>> /\ waiting' = Tail(waiting) /\ pc[w] = "ready"
        /\ held' = [held EXCEPT ![w] = Head(waiting)] /\ pc' = [pc EXCEPT ![w] = "taken"]
        /\ UNCHANGED <<post, todo, del, leased, task, toDiscard>>
    BY <1>6 DEF Take, Popped, WorkerAt, WorkerGoes
  <2>2. \A j \in Jobs : InQueue(waiting, j) => InQueue(waiting', j) \/ j = Head(waiting)
    BY <1>a, <2>1, TailOfQueue
  <2> QED
    BY <1>a, <1>c, <1>d, <2>1, <2>2
<1>7. ASSUME NEW w \in Workers, Skip(w) PROVE Fine
  BY <1>a, <1>e, <1>7 DEF Skip, WorkerAt, WorkerGoes, RemoveUpload, Unlinks, UnlinkFails
<1>8. ASSUME NEW w \in Workers, WorkerCancelled(w) PROVE Fine
  <2>1. Closed /\ closer' = closer
    BY <1>8 DEF WorkerCancelled, ShutdownOrder
  <2>2. Shared \/ pc[w] \notin {"taken", "claimed"}
    BY <1>8 DEF WorkerCancelled, AnyTurn, MidStep
  <2> QED
    BY <1>a, <1>e, <1>8, <2>1, <2>2 DEF WorkerCancelled, WorkerGoes, RemoveUpload, Unlinks,
                                        UnlinkFails, Closed
<1>9. ASSUME NEW w \in Workers, Dispatch(w) PROVE Fine
  BY <1>a, <1>e, <1>9 DEF Dispatch, WorkerAt, WorkerGoes
<1>10. ASSUME NEW w \in Workers, Release(w) PROVE Fine
  BY <1>a, <1>e, <1>10 DEF Release, HoldNothing, AfterTurn, WorkerAt, WorkerGoes
<1>11. ASSUME NEW w \in Workers,
             \/ Sleep(w) \/ Claim(w) \/ Receive(w) \/ Record(w) \/ CancellationConsumed(w)
      PROVE  Fine
  BY <1>a, <1>e, <1>11 DEF Sleep, Claim, Receive, Record, CancellationConsumed, WorkerAt, WorkerGoes
<1>12. CASE CloseDrains
  <2>1. toDiscard = {} /\ \A j \in Jobs : ~WorkerOwns(j)
    BY <1>12 DEF CloseDrains, ShutdownOrder, Drained
  <2>2. /\ UNCHANGED <<post, todo, del, leased, task>>
        /\ \A j \in Jobs : IsWaiting(j) => j \in toDiscard'
    BY <1>12 DEF CloseDrains
  <2> QED
    BY <2>1, <2>2
<1>13. ASSUME NEW k \in Jobs, CloseDiscards(k) PROVE Fine
  BY <1>a, <1>e, <1>13 DEF CloseDiscards, Unlinks, UnlinkFails, Closed
<1>14. CASE UploadsClose
  BY <1>a, <1>e, <1>14 DEF UploadsClose
<1>15. CASE \/ CloseBegins \/ CloseRecorded \/ CloseEnds \/ CloseGivesUp \/ Down
            \/ UNCHANGED vars
  BY <1>b, <1>15 DEF CloseBegins, CloseRecorded, CloseEnds, CloseGivesUp, Down, vars
<1> QED
  BY <1>1, <1>2, <1>3, <1>4, <1>5, <1>6, <1>7, <1>8, <1>9, <1>10, <1>11, <1>12, <1>13, <1>14, <1>15
  DEF Next, CloseRuns, WorkerRuns

LEMMA EndSteps ==
  ASSUME UploadInv, [Next]_vars
  PROVE  \A w \in Workers : EndMoves(w)
<1>a. pc \in [Workers -> WorkerStates] /\ held \in [Workers -> Jobs \cup {NoJob}]
  BY DEF UploadInv, DispatchInv, TypeOK
<1>b. \A w \in Workers : pc[w] \in {"ready", "blocked"} => held[w] = NoJob
  BY DEF UploadInv, DispatchInv, HoldsByState
<1>9. \A w \in Workers : pc[w] = "claimed" => held[w] \in Jobs
  BY <1>a DEF UploadInv, DispatchInv, HoldsByState, Holding
<1> DEFINE Fine == \A w \in Workers : EndMoves(w)
<1> SUFFICES Fine
  OBVIOUS
<1> USE DEF EndMoves, postVars, workerVars, closeVars
<1>c. ASSUME UNCHANGED <<pc, held>> PROVE Fine
  BY <1>c
<1>1. ASSUME NEW j \in Jobs, Post(j) PROVE Fine
  <2>1. ASSUME Admit(j) \/ Enqueue(j) PROVE Fine
    BY <1>a, <2>1 DEF Admit, Enqueue, WakeWorkers
  <2>2. CASE PostLookup(j) \/ PostDecide(j) \/ PostAdmitted(j)
    BY <1>c, <2>1, <2>2 DEF PostLookup, PostDecide, PostAdmitted
  <2>3. CASE PostCreate(j) \/ PostPersist(j) \/ PostStored(j) \/ PostPersistFails(j)
    BY <1>c, <2>3 DEF PostCreate, PostPersist, PostStored, PostPersistFails
  <2>4. CASE PostLookAt(j) \/ PostCleared(j) \/ PostAborts(j) \/ PostDrop(j) \/ PostDiscard(j)
    BY <1>c, <2>4 DEF PostLookAt, PostCleared, PostAborts, PostDrop, PostDiscard
  <2> QED
    BY <1>1, <2>2, <2>3, <2>4 DEF Post
<1>2. ASSUME NEW j \in Jobs,
             \/ Delete(j) \/ DeleteRelease(j) \/ DeleteDrop(j) \/ Elsewhere(j)
             \/ Task(j) \/ TimePasses(j) \/ CloseRecords(j) \/ CloseDiscards(j)
      PROVE  Fine
  BY <1>c, <1>2, ElsewhereKeeps
  DEF Delete, DeleteRelease, DeleteDrop, Task, Consume, TaskEnds, TaskRemoves, TimePasses,
      CloseRecords, CloseDiscards
<1>3. ASSUME NEW w \in Workers, WorkerCancelled(w) PROVE Fine
  <2>1. Shared \/ pc[w] \notin {"taken", "claimed", "recorded"}
    BY <1>3 DEF WorkerCancelled, AnyTurn, MidStep
  <2>2. pc[w] = "skipping" => held[w] \notin leased'
    BY <1>3 DEF WorkerCancelled, RemoveUpload, Unlinks, UnlinkFails
  <2>3. /\ \A v \in Workers : v # w => pc'[v] = pc[v]
        /\ held' = held
        /\ pc'[w] = "cancelled" => pc[w] \notin {"ready", "blocked"}
        /\ pc'[w] = "stopped" => pc[w] \in {"ready", "blocked"}
        /\ pc'[w] \in {"cancelled", "stopped"}
    BY <1>a, <1>3 DEF WorkerCancelled, WorkerGoes
  <2>4. \A v \in Workers \ {w} : EndMoves(v)
    BY <2>3
  <2>5. EndMoves(w)
    BY <1>a, <1>b, <2>1, <2>2, <2>3 DEF WorkerStates
  <2> QED
    BY <2>4, <2>5
<1>4. ASSUME NEW w \in Workers, Release(w) PROVE Fine
  BY <1>a, <1>4 DEF Release, HoldNothing, AfterTurn, WorkerGoes
<1>5. ASSUME NEW w \in Workers, Take(w) PROVE Fine
  BY <1>a, <1>5 DEF Take, WorkerGoes
<1>6. ASSUME NEW w \in Workers,
             \/ Sleep(w) \/ Claim(w) \/ Skip(w) \/ Receive(w) \/ Record(w)
             \/ CancellationConsumed(w)
      PROVE  Fine
  BY <1>a, <1>6 DEF Sleep, Claim, Skip, Receive, Record, CancellationConsumed, WorkerAt, WorkerGoes
<1>10. ASSUME NEW w \in Workers, Dispatch(w) PROVE Fine
  BY <1>a, <1>9, <1>10, <1>b DEF Dispatch, WorkerAt, WorkerGoes, UploadInv, DispatchInv, TypeOK
<1>7. CASE CloseDrains
  BY <1>7 DEF CloseDrains
<1>8. CASE \/ CloseBegins \/ CloseRecorded \/ CloseEnds \/ UploadsClose
           \/ CloseGivesUp \/ Down \/ UNCHANGED vars
  BY <1>c, <1>8 DEF CloseBegins, CloseRecorded, CloseEnds, UploadsClose, CloseGivesUp, Down, vars
<1> QED
  BY <1>1, <1>2, <1>3, <1>4, <1>5, <1>6, <1>7, <1>8, <1>10 DEF Next, CloseRuns, WorkerRuns

\* Ownership is handed on, whatever the step.
LEMMA OwnedInductive ==
  ASSUME OwnerInv, [Next]_vars
  PROVE  UploadsAreOwned' /\ ShutdownOrder' /\ DoneIsUnleased'
<1>a. ShutdownOrder' /\ (Closed => Closed')
  BY ShutdownSteps DEF OwnerInv, UploadInv, DispatchInv
<1>b. \A j \in Jobs : OwnerMoves(j)
  BY OwnerSteps DEF OwnerInv
<1>c. leased' \subseteq Jobs
  BY DispatchInvInductive DEF OwnerInv, UploadInv, DispatchInv, TypeOK
<1>1. ASSUME NEW j \in leased' PROVE UploadOwner(j)' \/ (Closed' /\ (Shared \/ DiskFaults))
  <2>1. j \in Jobs
    BY <1>1, <1>c
  <2>2. UploadOwner(j) <=>
            PostOwns(j) \/ IsWaiting(j) \/ WorkerOwns(j) \/ TaskOwns(j) \/ Released(j)
    BY <2>1, OwnerParts
  <2>3. PostOwns(j)' \/ IsWaiting(j)' \/ WorkerOwns(j)' \/ TaskOwns(j)' \/ Released(j)'
          => UploadOwner(j)'
    BY <2>1 DEF UploadOwner, PostOwns, Submitting, WorkerOwns, TaskOwns, Released, Clearing,
                IsWaiting
  <2>4. OwnerMoves(j)
    BY <1>b, <2>1
  <2> QED
    BY <1>a, <1>1, <2>2, <2>3, <2>4 DEF OwnerInv, UploadsAreOwned, OwnerMoves
<1>2. ASSUME NEW j \in Jobs, task'[j] = "done" PROVE j \notin leased'
  <2>1. post[j] = "created" => task[j] = "none"
    BY DEF OwnerInv, UploadInv, NotYetDispatched
  <2>2. OwnerMoves(j)
    BY <1>b
  <2>3. task[j] = "done" => j \notin leased
    BY DEF OwnerInv, DoneIsUnleased
  <2> QED
    BY <1>2, <2>1, <2>2, <2>3 DEF OwnerMoves
<1> QED
  BY <1>a, <1>1, <1>2 DEF UploadsAreOwned, DoneIsUnleased

\* Who awaits a task finds it there, and a worker that stops by itself holds nothing.
LEMMA AwaitsInductive ==
  ASSUME OwnerInv, [Next]_vars
  PROVE  AwaitsTask' /\ StoppedHoldNothing'
<1>a. /\ \A w \in Workers : WorkerMoves(w) /\ EndMoves(w)
      /\ \A j \in Jobs : UploadMoves(j)
  BY ReplicaSteps, EndSteps, UploadSteps DEF ReplicaMoves, OwnerInv, UploadInv
<1>1. ASSUME NEW w \in Workers, pc'[w] \in {"awaiting", "finishing"}
      PROVE  task'[held'[w]] # "none"
  <2>1. /\ held'[w] = held[w] /\ pc[w] \in {"claimed", "awaiting", "finishing"}
        /\ pc[w] = "claimed" => pc'[w] = "awaiting"
    BY <1>a, <1>1 DEF WorkerMoves
  <2>2. held[w] \in Jobs
    BY <2>1 DEF OwnerInv, UploadInv, DispatchInv, HoldsByState, Holding, TypeOK
  <2>3. CASE pc[w] # "claimed"
    BY <1>a, <2>1, <2>2, <2>3 DEF UploadMoves, OwnerInv, AwaitsTask
  <2>4. CASE pc[w] = "claimed"
    BY <1>a, <1>1, <2>1, <2>4 DEF EndMoves
  <2> QED
    BY <2>1, <2>3, <2>4
<1>2. ASSUME NEW w \in Workers, pc'[w] = "stopped" PROVE held'[w] = NoJob
  BY <1>a, <1>2 DEF EndMoves, OwnerInv, StoppedHoldNothing
<1> QED
  BY <1>1, <1>2 DEF AwaitsTask, StoppedHoldNothing

\* Who is cancelled leaves the upload to the tracker or has removed it.
LEMMA HeldUploadInductive ==
  ASSUME OwnerInv, [Next]_vars, ~Shared
  PROVE  HeldUploadIsTrackers'
<1> SUFFICES ASSUME NEW w \in Workers, pc'[w] = "cancelled", held'[w] \in leased'
             PROVE  task'[held'[w]] \in {"dispatched", "inferring", "removing"}
  BY DEF HeldUploadIsTrackers
<1> DEFINE j == held[w]
<1>a. OwnerInv /\ UploadInv /\ DispatchInv
  BY DEF OwnerInv, UploadInv
<1>1. held'[w] = j /\ j \in Jobs /\ j \in leased'
      /\ pc[w] \in {"cancelled", "awaiting", "finishing"}
  <2>1. leased' \subseteq Jobs
    BY <1>a, DispatchInvInductive DEF DispatchInv, TypeOK
  <2>2. held'[w] \in Jobs /\ held'[w] # NoJob
    BY <2>1, DispatchAssumption
  <2>3. EndMoves(w)
    BY <1>a, EndSteps
  <2> QED
    BY <1>a, <2>2, <2>3 DEF EndMoves, OwnerInv, StoppedHoldNothing
<1>2. OwnerMoves(j)
  BY <1>1, <1>a, OwnerSteps DEF OwnerInv
<1>3. j \in leased
  <2>1. post[j] = "accepted"
    BY <1>1, <1>a DEF DispatchInv, HeldAreAccepted, InDispatcher, IsHeld
  <2> QED
    BY <1>1, <1>2, <2>1 DEF OwnerMoves
<1>4. TaskOwns(j)
  <2>1. task[j] \in TaskStates
    BY <1>1, <1>a DEF DispatchInv, TypeOK
  <2> QED
    BY <1>1, <1>3, <2>1 DEF OwnerInv, HeldUploadIsTrackers, AwaitsTask, DoneIsUnleased, TaskOwns,
                            TaskStates
<1> QED
  BY <1>1, <1>2, <1>4 DEF OwnerMoves, TaskOwns

LEMMA OwnerInvHolds == Spec => []OwnerInv
<1>1. Init => OwnerInv
  <2>1. ASSUME Init
        PROVE  /\ ShutdownOrder /\ DoneIsUnleased /\ AwaitsTask /\ StoppedHoldNothing
               /\ UploadsAreOwned /\ HeldUploadIsTrackers
    BY <2>1 DEF Init, ShutdownOrder, DoneIsUnleased, AwaitsTask, StoppedHoldNothing,
                UploadsAreOwned, HeldUploadIsTrackers
  <2> QED
    BY <2>1, UploadInvInit DEF OwnerInv
<1>2. OwnerInv /\ [Next]_vars => OwnerInv'
  BY UploadInvInductive, OwnedInductive, AwaitsInductive, HeldUploadInductive DEF OwnerInv
<1> QED
  BY <1>1, <1>2, PTL DEF Spec

\* No upload is leaked: whoever holds a lease still has somebody to remove the file,
\* through every hand-over from route to queue to worker to tracker, but for a
\* shutdown with a shared store or a disk that fails.
THEOREM UploadsOwnedCorrect == Spec => []UploadsAreOwned
<1> QED
  BY OwnerInvHolds, PTL DEF OwnerInv

\* With the store of one process, "a held job's upload belongs to the tracker": the
\* shutdown finds the upload of a job it takes over gone or with its inference task.
THEOREM HeldUploadCorrect ==
  ASSUME ~Shared
  PROVE  Spec => []HeldUploadIsTrackers
<1>1. OwnerInv => HeldUploadIsTrackers
  BY DEF OwnerInv
<1> QED
  BY <1>1, OwnerInvHolds, PTL

-----------------------------------------------------------------------------
(* A replica on the in-process store.                                       *)

Over == FinishedStatuses \cup {"gone"}

\* One handler at a time is between two steps that do not suspend.
OneMidStep == \A x, y \in MidStep : x = y

\* The queue never gets to the cap, so submit never looks for stale jobs.
NoAdmitting == \A j \in Jobs : post[j] \notin {"admitting", "clearing"}

\* Only a DELETE makes a waiting job's record stale, and lets go of it at once.
WaitingAreQueued == \A j \in Jobs : IsWaiting(j) => status[j] = "queued" \/ del[j] = "releasing"
ReleasedHaveEnded == \A j \in Jobs : del[j] = "releasing" => status[j] \in Over

AcceptedExist == \A j \in Jobs : post[j] = "accepted" => status[j] # "none"
TakenNotRunning == \A w \in Workers : pc[w] = "taken" => status[held[w]] # "running"
SkippedHaveEnded ==
    \A w \in Workers : pc[w] \in {"skipping", "recorded"} => status[held[w]] \in Over
DiscardedNotRunning == \A j \in toDiscard : status[j] # "running"

\* The queue stays within JOBS_MAX_ACTIVE.
QueueBounded == Len(waiting) <= MaxActive

\* The index leads to every active job, and a POST that has looked a job up in it finds
\* it unchanged when it decides.
IndexLeadsToActive == Dedupe => \A j \in Jobs : ActiveHere(j) => byPrint[FingerprintOf[j]] = j
CheckingSeesIndex ==
    \A j \in Jobs : post[j] = "checking" => seen[j] = byPrint[FingerprintOf[j]]

\* What the steps are described from.
LocalBase == UploadInv /\ ShutdownOrder /\ LifeInv /\ NoAdmitting /\ OneMidStep

LocalInv ==
    /\ LocalBase
    /\ WaitingAreQueued /\ ReleasedHaveEnded
    /\ AcceptedExist /\ TakenNotRunning /\ SkippedHaveEnded /\ DiscardedNotRunning
    /\ CapRespected /\ QueueBounded
    /\ IndexLeadsToActive /\ CheckingSeesIndex
    /\ ~DiskFaults => SlotsAreOwned

-----------------------------------------------------------------------------
(* What a step may do to a record.                                          *)

StatusMoves(j) ==
    \/ Keeps(j)
    \/ /\ status[j] = "none" /\ status'[j] = "queued" /\ HasRoom
       /\ post[j] = "idle" /\ post'[j] = "created" /\ \A k \in Jobs \ {j} : Keeps(k)
    \/ status'[j] = "gone" /\ post[j] = "discarding" /\ post'[j] = "refused"
    \/ /\ status[j] = "queued" /\ status'[j] = "running"
       /\ \E w \in Workers : held[w] = j /\ pc[w] = "taken" /\ pc'[w] = "claimed"
    \/ status'[j] \in Over /\ post[j] = "accepted" /\ del'[j] = "releasing"
    \/ /\ status'[j] \in Over
       /\ \E w \in Workers : held[w] = j /\ pc[w] = "finishing" /\ pc'[w] = "recorded"
    \/ status'[j] \in Over /\ j \in toRecord

LEMMA FinishIsOver ==
  ASSUME StoreInv, NEW j \in Jobs, NEW outcome \in FinishedStatuses, Finish(j, outcome)
  PROVE  status'[j] \in Over /\ \A k \in Jobs \ {j} : Keeps(k)
<1> DEFINE st == [status EXCEPT ![j] = outcome]
           at == [finishedAt EXCEPT ![j] = clock + 1]
<1>1. /\ st \in [Jobs -> Statuses] /\ at \in [Jobs -> Nat]
      /\ aged \ {j} \in SUBSET InStatus(st, FinishedStatuses)
      /\ Purge(st, at, aged \ {j}) /\ st[j] = outcome
  BY FinishPurges DEF StoreInv, StoreTypeOK
<1> HIDE DEF st, at
<1>2. status'[j] = st[j] \/ status'[j] = "gone"
  BY <1>1, PurgeForgetsFinished
<1> QED
  BY <1>1, <1>2, FinishMoves DEF Over

LEMMA CreateQueues ==
  ASSUME StoreInv, NEW j \in Jobs, Create(j)
  PROVE  status'[j] = "queued" /\ HasRoom
<1> DEFINE st == [status EXCEPT ![j] = "queued"]
<1>1. /\ st \in [Jobs -> Statuses] /\ finishedAt \in [Jobs -> Nat] /\ HasRoom
      /\ aged \in SUBSET InStatus(st, FinishedStatuses)
      /\ Purge(st, finishedAt, aged) /\ st[j] = "queued"
  BY DEF Create, StoreInv, StoreTypeOK, Statuses, ActiveStatuses, FinishedStatuses, FinishedJobs,
         InStatus
<1> HIDE DEF st
<1> QED
  BY <1>1, PurgeForgetsFinished DEF FinishedStatuses

LEMMA StatusSteps ==
  ASSUME LocalBase, ~Shared, [Next]_vars
  PROVE  (\A j \in Jobs : StatusMoves(j)) /\ blind' = blind
<1>a. /\ StoreInv /\ post \in [Jobs -> PostStates] /\ status \in [Jobs -> Statuses]
      /\ del \in [Jobs -> {"idle", "releasing", "dropping"}]
      /\ pc \in [Workers -> WorkerStates] /\ held \in [Workers -> Jobs \cup {NoJob}] /\ ~Outages
  BY DispatchAssumption DEF LocalBase, LifeInv, UploadInv, DispatchInv, TypeOK, StoreInv, StoreTypeOK
<1> DEFINE Fine == (\A j \in Jobs : StatusMoves(j)) /\ blind' = blind
<1> SUFFICES Fine
  OBVIOUS
<1> USE DEF StatusMoves, workerVars
<1>b. ASSUME UNCHANGED storeVars \/ PurgeOnly, UNCHANGED blind PROVE Fine
  BY <1>a, <1>b, PurgeOnlyMoves DEF storeVars, Keeps
<1>1. ASSUME NEW j \in Jobs, Post(j) PROVE Fine
  <2>1. CASE PostCreate(j)
    <3>1. CASE Create(j) /\ post' = [post EXCEPT ![j] = "created"]
      <4>1. status[j] = "none" /\ \A k \in Jobs \ {j} : Keeps(k)
        BY <1>a, <3>1, CreateMoves
      <4>2. status'[j] = "queued" /\ HasRoom
        BY <1>a, <3>1, CreateQueues
      <4> QED
        BY <1>a, <2>1, <3>1, <4>1, <4>2 DEF PostCreate
    <3> QED
      BY <1>b, <2>1, <3>1 DEF PostCreate, CreateRefused
  <2>2. CASE PostPersist(j) \/ PostStored(j) \/ PostPersistFails(j)
    BY <1>b, <2>2 DEF PostPersist, PostStored, PostPersistFails
  <2>3. ASSUME Admit(j) \/ Enqueue(j) PROVE UNCHANGED blind
    BY <2>3 DEF Admit, Enqueue
  <2>4. CASE PostLookup(j) \/ PostDecide(j) \/ PostAdmitted(j)
    BY <1>b, <2>3, <2>4 DEF PostLookup, PostDecide, PostAdmitted
  <2>5. CASE PostLookAt(j) \/ PostCleared(j) \/ PostAborts(j) \/ PostDrop(j)
    BY <1>b, <2>5 DEF PostLookAt, PostCleared, PostAborts, PostDrop
  <2>6. CASE PostDiscard(j)
    <3>1. Discard(j) /\ post' = [post EXCEPT ![j] = "refused"] /\ post[j] = "discarding"
      BY <1>a, <2>6 DEF PostDiscard
    <3>2. status'[j] = "gone" /\ \A k \in Jobs \ {j} : Keeps(k)
      BY <1>a, <3>1, StoreCalls
    <3> QED
      BY <1>a, <2>6, <3>1, <3>2 DEF PostDiscard
  <2> QED
    BY <1>1, <2>1, <2>2, <2>4, <2>5, <2>6 DEF Post
<1>2. ASSUME NEW j \in Jobs, Delete(j) PROVE Fine
  <2>1. CASE CancelQueued(j) /\ del' = [del EXCEPT ![j] = "releasing"]
    <3>1. status'[j] \in Over /\ \A k \in Jobs \ {j} : Keeps(k)
      BY <1>a, <2>1, FinishIsOver DEF CancelQueued, FinishedStatuses
    <3> QED
      BY <1>2, <1>a, <2>1, <3>1 DEF Delete
  <2> QED
    BY <1>2, <1>b, <2>1 DEF Delete
<1>3. ASSUME NEW j \in Jobs,
             DeleteRelease(j) \/ DeleteDrop(j) \/ Elsewhere(j) \/ Task(j) \/ CloseDiscards(j)
      PROVE  Fine
  BY <1>3, <1>b, ElsewhereKeeps DEF DeleteRelease, DeleteDrop, Task, Consume, TaskEnds, TaskRemoves,
                                    CloseDiscards
<1>4. ASSUME NEW j \in Jobs, TimePasses(j) PROVE Fine
  BY <1>4, <1>a, StoreCalls DEF TimePasses
<1>5. ASSUME NEW w \in Workers, WorkerRuns(w) \/ CancellationConsumed(w) PROVE Fine
  <2>a. pc[w] \in Holding => held[w] \in Jobs
    BY <1>a DEF LocalBase, LifeInv, UploadInv, DispatchInv, HoldsByState
  <2>1. CASE Claim(w)
    <3>1. /\ held[w] \in Jobs /\ pc[w] = "taken" /\ UNCHANGED blind
          /\ \/ SetRunning(held[w]) /\ pc'[w] = "claimed"
             \/ UNCHANGED storeVars
      BY <1>a, <2>a, <2>1 DEF Claim, WorkerAt, WorkerGoes, Holding
    <3> QED
      BY <1>a, <1>b, <3>1, StoreCalls
  <2>2. CASE Record(w)
    <3>1. held[w] \in Jobs /\ pc[w] = "finishing" /\ pc'[w] = "recorded" /\ UNCHANGED blind
      BY <1>a, <2>a, <2>2 DEF Record, WorkerAt, WorkerGoes, Holding
    <3>2. \/ UNCHANGED storeVars
          \/ \E v \in FinishedStatuses : Finish(held[w], v)
      BY <2>2 DEF Record, Outcome, SetSucceeded, SetFailed, FinishedStatuses
    <3> QED
      BY <1>a, <1>b, <3>1, <3>2, FinishIsOver
  <2>3. CASE Sleep(w) \/ Take(w) \/ Skip(w) \/ Dispatch(w)
    BY <1>b, <2>3 DEF Sleep, Take, Skip, Dispatch
  <2>4. CASE Receive(w) \/ Release(w) \/ WorkerCancelled(w) \/ CancellationConsumed(w)
    BY <1>b, <2>4 DEF Receive, Release, WorkerCancelled, CancellationConsumed
  <2> QED
    BY <1>5, <2>1, <2>2, <2>3, <2>4 DEF WorkerRuns
<1>6. ASSUME NEW j \in Jobs, CloseRecords(j) PROVE Fine
  <2>1. /\ j \in toRecord /\ UNCHANGED blind
        /\ UNCHANGED storeVars \/ Finish(j, "failed")
    BY <1>6 DEF CloseRecords, SetFailed
  <2> QED
    BY <1>a, <1>b, <2>1, FinishIsOver DEF FinishedStatuses
<1>7. CASE \/ CloseBegins \/ CloseDrains \/ CloseRecorded \/ CloseEnds \/ UploadsClose
           \/ CloseGivesUp \/ Down \/ UNCHANGED vars
  BY <1>7, <1>b DEF CloseBegins, CloseDrains, CloseRecorded, CloseEnds, UploadsClose,
                    CloseGivesUp, Down, vars
<1> QED
  BY <1>1, <1>2, <1>3, <1>4, <1>5, <1>6, <1>7 DEF Next, CloseRuns

-----------------------------------------------------------------------------
(* Whose turn it is.                                                        *)

Quiet ==
    /\ \A j \in Jobs : post[j] # "checking" /\ del[j] # "releasing"
    /\ \A w \in Workers : pc[w] \notin {"taken", "claimed", "recorded"}

\* A step of one handler is not taken while another is between two of its own.
LEMMA TurnsExclude ==
  ASSUME ~Shared
  PROVE  /\ AnyTurn => Quiet
         /\ \A j \in Jobs : Turn(<<"post", j>>) =>
               /\ \A k \in Jobs : del[k] # "releasing" /\ (post[k] = "checking" => k = j)
               /\ \A w \in Workers : pc[w] \notin {"taken", "claimed", "recorded"}
         /\ \A j \in Jobs : Turn(<<"delete", j>>) =>
               /\ \A k \in Jobs : post[k] # "checking" /\ (del[k] = "releasing" => k = j)
               /\ \A w \in Workers : pc[w] \notin {"taken", "claimed", "recorded"}
         /\ \A w \in Workers : Turn(<<"worker", w>>) =>
               /\ \A k \in Jobs : post[k] # "checking" /\ del[k] # "releasing"
               /\ \A v \in Workers : pc[v] \in {"taken", "claimed", "recorded"} => v = w
<1> DEFINE Here(h) ==
      /\ \A k \in Jobs : post[k] = "checking" => h = <<"post", k>>
      /\ \A k \in Jobs : del[k] = "releasing" => h = <<"delete", k>>
      /\ \A v \in Workers : pc[v] \in {"taken", "claimed", "recorded"} => h = <<"worker", v>>
<1>1. AnyTurn => Quiet
  BY DEF AnyTurn, MidStep, Quiet
<1>2. \A h : Turn(h) => Here(h)
  BY DEF Turn, MidStep
<1> QED
  BY <1>1, <1>2

LEMMA OneHandler ==
  ASSUME NEW h,
         \A k \in Jobs : post'[k] = "checking" => h = <<"post", k>>,
         \A k \in Jobs : del'[k] = "releasing" => h = <<"delete", k>>,
         \A v \in Workers : pc'[v] \in {"taken", "claimed", "recorded"} => h = <<"worker", v>>
  PROVE  OneMidStep'
  BY DEF OneMidStep, MidStep

LEMMA MidSteps ==
  ASSUME TypeOK, OneMidStep, ~Shared, [Next]_vars
  PROVE  OneMidStep'
<1>a. /\ post \in [Jobs -> PostStates] /\ del \in [Jobs -> {"idle", "releasing", "dropping"}]
      /\ pc \in [Workers -> WorkerStates] /\ ~Outages
  BY DispatchAssumption DEF TypeOK
<1> USE DEF postVars, workerVars, Quiet
<1>b. ASSUME UNCHANGED <<post, del, pc>> PROVE OneMidStep'
  BY <1>b DEF OneMidStep, MidStep
<1>c. ASSUME Quiet, UNCHANGED post,
             \A k \in Jobs : del'[k] = "releasing" => del[k] = "releasing",
             \A w \in Workers : pc'[w] \in {"taken", "claimed", "recorded"} => pc'[w] = pc[w]
      PROVE  OneMidStep'
  BY <1>c DEF OneMidStep, MidStep
<1>1. ASSUME NEW j \in Jobs, Post(j) PROVE OneMidStep'
  <2> DEFINE h == <<"post", j>>
             Alone == /\ \A k \in Jobs \ {j} : post'[k] # "checking"
                      /\ \A k \in Jobs : del'[k] # "releasing"
                      /\ \A w \in Workers : pc'[w] \notin {"taken", "claimed", "recorded"}
  <2>1. Turn(h) /\ UNCHANGED del
    BY <1>1, DispatchAssumption
    DEF Post, PostCreate, PostPersist, PostStored, PostPersistFails, PostLookup, PostDecide,
        PostLookAt, PostCleared, PostAdmitted, PostAborts, PostDrop, PostDiscard, AnyTurn, Turn
  <2>2. /\ \A k \in Jobs : del[k] # "releasing" /\ (post[k] = "checking" => k = j)
        /\ \A w \in Workers : pc[w] \notin {"taken", "claimed", "recorded"}
    BY <2>1, TurnsExclude
  <2>3. ASSUME Admit(j) \/ Enqueue(j)
        PROVE  /\ \A k \in Jobs \ {j} : post'[k] = post[k]
               /\ \A w \in Workers : pc'[w] \in {"taken", "claimed", "recorded"} => pc'[w] = pc[w]
    BY <1>a, <2>3 DEF Admit, Enqueue, WakeWorkers
  <2>4. /\ \A k \in Jobs \ {j} : post'[k] = post[k]
        /\ \A w \in Workers : pc'[w] \in {"taken", "claimed", "recorded"} => pc'[w] = pc[w]
    <3>1. CASE PostLookup(j) \/ PostDecide(j) \/ PostAdmitted(j)
      BY <1>a, <2>3, <3>1 DEF PostLookup, PostDecide, PostAdmitted
    <3>2. CASE PostCreate(j) \/ PostPersist(j) \/ PostStored(j) \/ PostPersistFails(j)
      BY <1>a, <3>2 DEF PostCreate, PostPersist, PostStored, PostPersistFails
    <3>3. CASE PostLookAt(j) \/ PostCleared(j) \/ PostAborts(j)
      BY <1>a, <3>3 DEF PostLookAt, PostCleared, PostAborts
    <3>4. CASE PostDrop(j) \/ PostDiscard(j)
      BY <1>a, <3>4 DEF PostDrop, PostDiscard
    <3> QED
      BY <1>1, <3>1, <3>2, <3>3, <3>4 DEF Post
  <2>5. Alone
    BY <2>1, <2>2, <2>4
  <2>6. \A k \in Jobs : post'[k] = "checking" => h = <<"post", k>>
    BY <2>5
  <2> QED
    BY <2>5, <2>6, OneHandler
<1>2. ASSUME NEW j \in Jobs, Delete(j) PROVE OneMidStep'
  <2> DEFINE h == <<"delete", j>>
  <2>1. Quiet /\ UNCHANGED <<post, pc>> /\ \A k \in Jobs \ {j} : del'[k] = del[k]
    BY <1>a, <1>2, TurnsExclude DEF Delete
  <2>2. \A k \in Jobs : del'[k] = "releasing" => h = <<"delete", k>>
    BY <2>1
  <2> QED
    BY <2>1, <2>2, OneHandler
<1>3. ASSUME NEW j \in Jobs, DeleteRelease(j) PROVE OneMidStep'
  <2> DEFINE h == <<"delete", j>>
  <2>1. /\ UNCHANGED <<post, pc>> /\ \A k \in Jobs : del'[k] = "releasing" => k = j
        /\ \A k \in Jobs : post[k] # "checking"
        /\ \A w \in Workers : pc[w] \notin {"taken", "claimed", "recorded"}
    BY <1>a, <1>3, TurnsExclude DEF DeleteRelease
  <2>2. \A k \in Jobs : del'[k] = "releasing" => h = <<"delete", k>>
    BY <2>1
  <2> QED
    BY <2>1, <2>2, OneHandler
<1>4. ASSUME NEW j \in Jobs,
             DeleteDrop(j) \/ Elsewhere(j) \/ TaskEnds(j) \/ TaskRemoves(j) \/ CloseRecords(j)
             \/ CloseDiscards(j)
      PROVE  OneMidStep'
  BY <1>a, <1>b, <1>c, <1>4, TurnsExclude, ElsewhereKeeps
  DEF DeleteDrop, TaskEnds, TaskRemoves, CloseRecords, CloseDiscards
<1>5. ASSUME NEW j \in Jobs, Consume(j) \/ TimePasses(j) PROVE OneMidStep'
  BY <1>b, <1>5 DEF Consume, TimePasses
<1>6. ASSUME NEW w \in Workers, WorkerRuns(w) \/ CancellationConsumed(w) PROVE OneMidStep'
  <2> DEFINE h == <<"worker", w>>
  <2>1. Turn(h) /\ UNCHANGED <<post, del>> /\ \A v \in Workers \ {w} : pc'[v] = pc[v]
    BY <1>a, <1>6
    DEF WorkerRuns, Sleep, Take, Claim, Skip, Dispatch, Receive, Record, Release, WorkerCancelled,
        CancellationConsumed, WorkerGoes, AnyTurn, Turn
  <2>2. /\ \A k \in Jobs : post[k] # "checking" /\ del[k] # "releasing"
        /\ \A v \in Workers : pc[v] \in {"taken", "claimed", "recorded"} => v = w
    BY <2>1, TurnsExclude
  <2>3. \A v \in Workers : pc'[v] \in {"taken", "claimed", "recorded"} => h = <<"worker", v>>
    BY <2>1, <2>2
  <2> QED
    BY <2>1, <2>2, <2>3, OneHandler
<1>7. CASE \/ CloseBegins \/ CloseDrains \/ CloseRecorded \/ CloseEnds \/ UploadsClose
           \/ CloseGivesUp \/ Down \/ UNCHANGED vars
  BY <1>7, <1>b DEF CloseBegins, CloseDrains, CloseRecorded, CloseEnds, UploadsClose,
                    CloseGivesUp, Down, vars
<1> QED
  BY <1>1, <1>2, <1>3, <1>4, <1>5, <1>6, <1>7 DEF Next, Task, CloseRuns

-----------------------------------------------------------------------------
(* What a step may do to a POST.                                            *)

\* A job is accepted in the turn of its POST, and only where the queue has room and the
\* index leads to no active duplicate.
PostMoves(j) ==
    /\ post[j] \notin Pending /\ post'[j] \in Pending => status'[j] = "queued"
    /\ post[j] \in Pending /\ post'[j] \notin Pending =>
          \/ post'[j] = "accepted" /\ IsWaiting(j)'
          \/ status'[j] = "gone" \/ DiskFaults
    /\ post[j] # "accepted" /\ post'[j] = "accepted" =>
          /\ post[j] \in {"stored", "checking"} /\ Turn(<<"post", j>>)
          /\ Len(waiting) < MaxActive
          /\ Dedupe =>
                /\ byPrint' = [byPrint EXCEPT ![FingerprintOf[j]] = j]
                /\ \/ byPrint[FingerprintOf[j]] = NoJob
                   \/ post[j] = "checking" /\ ~StillActive(seen[j])
    /\ post'[j] \in {"admitting", "clearing"} =>
          /\ post[j] \in {"stored", "checking"} /\ Turn(<<"post", j>>)
          /\ ~(Len(waiting) < MaxActive)

LEMMA PostSteps ==
  ASSUME LocalBase, ~Shared, [Next]_vars
  PROVE  \A j \in Jobs : PostMoves(j)
<1>a. /\ StoreInv /\ post \in [Jobs -> PostStates] /\ ~Outages /\ waiting \in Seq(Jobs)
      /\ Len(waiting) \in Nat /\ MaxActive \in Nat
  BY DispatchAssumption, StoreAssumption DEF LocalBase, LifeInv, DispatchInv, TypeOK, StoreInv
<1>b. \A k \in Jobs : post[k] \notin {"admitting", "clearing"}
  BY DEF LocalBase, NoAdmitting
<1> DEFINE Fine == \A j \in Jobs : PostMoves(j)
<1> SUFFICES Fine
  OBVIOUS
<1> USE DEF PostMoves, Pending, postVars
<1>c. ASSUME UNCHANGED post PROVE Fine
  BY <1>b, <1>c
<1>1. ASSUME NEW j \in Jobs, Post(j) PROVE Fine
  <2>1. ASSUME \A k \in Jobs \ {j} : post'[k] = post[k], PostMoves(j) PROVE Fine
    <3>1. \A k \in Jobs \ {j} : PostMoves(k)
      BY <1>b, <2>1
    <3> QED
      BY <2>1, <3>1
  <2>2. CASE PostCreate(j)
    <3>1. Create(j) => status'[j] = "queued"
      BY <1>a, CreateQueues
    <3> QED
      BY <1>a, <2>1, <2>2, <3>1 DEF PostCreate
  <2>3. CASE PostPersist(j) \/ PostStored(j) \/ PostPersistFails(j)
    BY <1>a, <2>1, <2>3 DEF PostPersist, PostStored, PostPersistFails
  <2>4. ASSUME Admit(j), Turn(<<"post", j>>),
               \/ post[j] = "stored" /\ (~Dedupe \/ byPrint[FingerprintOf[j]] = NoJob)
               \/ post[j] = "checking" /\ ~StillActive(seen[j])
        PROVE  Fine
    <3>1. CASE ~(Len(waiting) < MaxActive)
      <4>1. post' = [post EXCEPT ![j] = "admitting"]
        BY <1>a, <2>4, <3>1 DEF Admit
      <4> QED
        BY <1>a, <2>1, <2>4, <3>1, <4>1
    <3>2. CASE Len(waiting) < MaxActive
      <4>1. Enqueue(j)
        BY <1>a, <2>4, <3>2 DEF Admit
      <4>2. CASE post' = [post EXCEPT ![j] = "dropping"]
        BY <1>a, <2>1, <2>4, <4>2
      <4>3. CASE post' # [post EXCEPT ![j] = "dropping"]
        <5>1. /\ post' = [post EXCEPT ![j] = "accepted"] /\ waiting' = Append(waiting, j)
              /\ Dedupe => byPrint' = [byPrint EXCEPT ![FingerprintOf[j]] = j]
          BY <4>1, <4>3 DEF Enqueue
        <5>2. IsWaiting(j)'
          BY <1>a, <5>1, AppendToQueue DEF IsWaiting, InQueue
        <5> QED
          BY <1>a, <2>1, <2>4, <3>2, <5>1, <5>2
      <4> QED
        BY <4>2, <4>3
    <3> QED
      BY <3>1, <3>2
  <2>5. CASE PostLookup(j)
    <3>1. CASE post' = [post EXCEPT ![j] = "checking"]
      BY <1>a, <2>1, <2>5, <3>1 DEF PostLookup
    <3>2. Turn(<<"post", j>>)
      BY <2>5 DEF PostLookup, AnyTurn, Turn
    <3>3. /\ post[j] = "stored"
          /\ \/ post' = [post EXCEPT ![j] = "checking"]
             \/ (~Dedupe \/ byPrint[FingerprintOf[j]] = NoJob) /\ Admit(j)
      BY <2>5 DEF PostLookup
    <3>4. CASE Admit(j) /\ (~Dedupe \/ byPrint[FingerprintOf[j]] = NoJob)
      BY <2>4, <3>2, <3>3, <3>4
    <3> HIDE DEF Fine
    <3> QED
      BY <3>1, <3>3, <3>4
  <2>6. CASE PostDecide(j)
    <3>1. CASE post' = [post EXCEPT ![j] = "dropping"]
      BY <1>a, <2>1, <2>6, <3>1 DEF PostDecide
    <3> QED
      BY <2>4, <2>6, <3>1 DEF PostDecide
  <2>7. CASE PostAborts(j)
    <3>1. post[j] \in {"created", "writing", "stored"}
      BY <1>b, <2>7 DEF PostAborts
    <3>2. post' = [post EXCEPT ![j] = "discarding"] \/ post' = [post EXCEPT ![j] = "dropping"]
      BY <1>b, <2>7 DEF PostAborts
    <3> QED
      BY <1>a, <2>1, <3>1, <3>2
  <2>8. CASE PostDrop(j)
    BY <1>a, <2>1, <2>8 DEF PostDrop, UnlinkFails
  <2>9. CASE PostDiscard(j)
    <3>1. Discard(j) /\ post[j] = "discarding" /\ post' = [post EXCEPT ![j] = "refused"]
      BY <1>a, <2>9 DEF PostDiscard
    <3>2. status'[j] = "gone"
      BY <1>a, <3>1, StoreCalls
    <3> QED
      BY <1>a, <2>1, <3>1, <3>2
  <2>10. ~PostLookAt(j) /\ ~PostCleared(j) /\ ~PostAdmitted(j)
    BY <1>b DEF PostLookAt, PostCleared, PostAdmitted
  <2> QED
    BY <1>1, <2>2, <2>3, <2>5, <2>6, <2>7, <2>8, <2>9, <2>10 DEF Post
<1>2. ASSUME NEW j \in Jobs,
             \/ Delete(j) \/ DeleteRelease(j) \/ DeleteDrop(j) \/ Elsewhere(j)
             \/ Task(j) \/ TimePasses(j) \/ CloseRecords(j) \/ CloseDiscards(j)
      PROVE  Fine
  BY <1>c, <1>2, ElsewhereKeeps
  DEF Delete, DeleteRelease, DeleteDrop, Task, Consume, TaskEnds, TaskRemoves, TimePasses,
      CloseRecords, CloseDiscards
<1>3. ASSUME NEW w \in Workers, WorkerRuns(w) \/ CancellationConsumed(w) PROVE Fine
  BY <1>c, <1>3 DEF WorkerRuns, Sleep, Take, Claim, Skip, Dispatch, Receive, Record, Release,
                    WorkerCancelled, CancellationConsumed
<1>4. CASE \/ CloseBegins \/ CloseDrains \/ CloseRecorded \/ CloseEnds \/ UploadsClose
           \/ CloseGivesUp \/ Down \/ UNCHANGED vars
  BY <1>c, <1>4 DEF CloseBegins, CloseDrains, CloseRecorded, CloseEnds, UploadsClose,
                    CloseGivesUp, Down, vars
<1> QED
  BY <1>1, <1>2, <1>3, <1>4 DEF Next, CloseRuns

-----------------------------------------------------------------------------
(* What a step may do to the queue, a DELETE, a worker and the shutdown.    *)

\* Only a DELETE takes a job from the queue for good, and a worker lets go of a job only
\* after it has recorded an outcome.
LocalMoves ==
    \/ UNCHANGED <<waiting, held, printVars>>
    \/ \E j \in Jobs : Joins(j) \/ (Leaves(j) /\ del[j] = "releasing")
    \/ \E w \in Workers : Take(w) \/ (LetsGo(w) /\ pc[w] = "recorded")
    \/ CloseDrains

PlaceMoves(j) ==
    /\ del'[j] = "releasing" => del[j] = "releasing" \/ status'[j] \in Over
    /\ del[j] = "releasing" => del'[j] = "releasing" \/ Leaves(j)
    /\ j \in toRecord => \/ j \in toRecord' \/ status'[j] \in Over \/ status'[j] = "none"
                         \/ j \in toDiscard /\ status[j] = "running"
    /\ j \in toDiscard' => j \in toDiscard \/ (IsWaiting(j) /\ UNCHANGED status)

HoldingMoves(w) ==
    /\ pc[w] = "taken" => pc'[w] \in {"taken", "claimed", "skipping"}
    /\ pc[w] = "taken" /\ pc'[w] = "skipping" => status[held[w]] # "queued" /\ UNCHANGED status
    /\ pc[w] = "finishing" /\ pc'[w] = "recorded" => status'[held[w]] \in Over
    /\ pc[w] # "taken" /\ pc'[w] = "taken" => IsWaiting(held'[w]) /\ UNCHANGED status

CheckingMoves(j) ==
    post'[j] = "checking" =>
        /\ UNCHANGED byPrint
        /\ seen'[j] = byPrint[FingerprintOf[j]] \/ (post[j] = "checking" /\ seen'[j] = seen[j])

PlaceFine ==
    /\ LocalMoves
    /\ \A j \in Jobs : PlaceMoves(j) /\ CheckingMoves(j)
    /\ \A w \in Workers : HoldingMoves(w)

LEMMA PlaceSteps ==
  ASSUME LocalBase, ~Shared, [Next]_vars
  PROVE  PlaceFine
<1>a. /\ StoreInv /\ status \in [Jobs -> Statuses] /\ post \in [Jobs -> PostStates]
      /\ del \in [Jobs -> {"idle", "releasing", "dropping"}]
      /\ pc \in [Workers -> WorkerStates] /\ held \in [Workers -> Jobs \cup {NoJob}]
      /\ waiting \in Seq(Jobs) /\ ~Outages /\ seen \in [Jobs -> Jobs \cup {NoJob}]
  BY DispatchAssumption DEF LocalBase, LifeInv, DispatchInv, TypeOK, StoreInv, StoreTypeOK
<1>b. \A j \in Jobs : post[j] \notin {"admitting", "clearing"}
  BY DEF LocalBase, NoAdmitting
<1> USE DEF PlaceMoves, HoldingMoves, CheckingMoves, postVars, workerVars, closeVars, taskVars
<1>c. ASSUME UNCHANGED <<waiting, held, printVars, del, pc, seen, post, toRecord, toDiscard>>
      PROVE  PlaceFine
  BY <1>c DEF PlaceFine, LocalMoves, printVars
<1>1. ASSUME NEW j \in Jobs, Post(j) PROVE PlaceFine
  <2>1. Turn(<<"post", j>>) /\ UNCHANGED <<del, held, toRecord, toDiscard>>
    <3>1. CASE PostCreate(j) \/ PostPersist(j) \/ PostStored(j) \/ PostPersistFails(j)
      BY <3>1 DEF PostCreate, PostPersist, PostStored, PostPersistFails, AnyTurn, Turn
    <3>2. CASE PostLookup(j) \/ PostDecide(j) \/ PostAdmitted(j)
      BY <3>2 DEF PostLookup, PostDecide, PostAdmitted, Admit, Enqueue, AnyTurn, Turn
    <3>3. CASE PostLookAt(j) \/ PostCleared(j) \/ PostAborts(j) \/ PostDrop(j) \/ PostDiscard(j)
      BY <3>3, DispatchAssumption
      DEF PostLookAt, PostCleared, PostAborts, PostDrop, PostDiscard, AnyTurn, Turn
    <3> QED
      BY <1>1, <3>1, <3>2, <3>3 DEF Post
  <2>2. /\ \A k \in Jobs : del[k] # "releasing" /\ (post[k] = "checking" => k = j)
        /\ \A w \in Workers : pc[w] # "taken"
    BY <2>1, TurnsExclude
  <2>3. ASSUME Admit(j) \/ Enqueue(j), post[j] # "accepted"
        PROVE  /\ UNCHANGED <<waiting, held, printVars>> \/ Joins(j)
               /\ \A w \in Workers : pc'[w] = pc[w] \/ pc'[w] = "ready"
               /\ \E to \in {"admitting", "accepted", "dropping"} : post' = [post EXCEPT ![j] = to]
    BY <1>a, <2>3 DEF Admit, Enqueue, Joins, WakeWorkers
  <2>4. /\ UNCHANGED <<waiting, held, printVars>> \/ Joins(j)
        /\ \A w \in Workers : pc'[w] = pc[w] \/ pc'[w] = "ready"
        /\ \/ \E to \in PostStates \ {"checking"} : post' = [post EXCEPT ![j] = to]
           \/ /\ post' = [post EXCEPT ![j] = "checking"] /\ UNCHANGED byPrint
              /\ seen' = [seen EXCEPT ![j] = byPrint[FingerprintOf[j]]]
    <3> USE DEF PostStates, printVars
    <3>1. CASE PostCreate(j) \/ PostPersist(j) \/ PostStored(j) \/ PostPersistFails(j)
      BY <3>1 DEF PostCreate, PostPersist, PostStored, PostPersistFails
    <3>2. CASE PostLookup(j)
      BY <2>3, <3>2 DEF PostLookup
    <3>3. CASE PostDecide(j) \/ PostAdmitted(j)
      BY <2>3, <3>3 DEF PostDecide, PostAdmitted
    <3>4. CASE PostAborts(j) \/ PostDrop(j) \/ PostDiscard(j)
      BY <3>4 DEF PostAborts, PostDrop, PostDiscard
    <3>5. ~PostLookAt(j) /\ ~PostCleared(j)
      BY <1>b DEF PostLookAt, PostCleared
    <3> QED
      BY <1>1, <3>1, <3>2, <3>3, <3>4, <3>5 DEF Post
  <2>5. LocalMoves
    BY <2>4 DEF LocalMoves
  <2>6. \A k \in Jobs : CheckingMoves(k)
    BY <1>a, <2>2, <2>4
  <2>7. \A k \in Jobs : PlaceMoves(k)
    BY <2>1, <2>2
  <2>8. \A w \in Workers : HoldingMoves(w)
    BY <2>2, <2>4
  <2> QED
    BY <2>5, <2>6, <2>7, <2>8 DEF PlaceFine
<1>2. ASSUME NEW j \in Jobs, Delete(j) PROVE PlaceFine
  <2>1. Quiet /\ UNCHANGED <<waiting, held, printVars, pc, post, toRecord, toDiscard>>
    BY <1>2, TurnsExclude DEF Delete, printVars
  <2>2. del'[j] = "releasing" => status'[j] \in Over
    <3>1. CancelQueued(j) => status'[j] \in Over
      BY <1>a, FinishIsOver DEF CancelQueued, FinishedStatuses
    <3>2. Shared \/ status'[j] = "cancelled" => status'[j] \in Over
      BY DEF Over, FinishedStatuses
    <3> QED
      BY <1>2, <1>a, <3>1, <3>2 DEF Delete
  <2>3. \A k \in Jobs \ {j} : del'[k] = del[k]
    BY <1>2, <1>a DEF Delete
  <2> QED
    BY <2>1, <2>2, <2>3 DEF PlaceFine, LocalMoves, Quiet
<1>3. ASSUME NEW j \in Jobs, DeleteRelease(j) PROVE PlaceFine
  <2>1. /\ Leaves(j) /\ del[j] = "releasing" /\ del'[j] # "releasing"
        /\ UNCHANGED <<pc, post, toRecord, toDiscard>>
        /\ \A k \in Jobs \ {j} : del'[k] = del[k]
    BY <1>3, <1>a DEF DeleteRelease, SeenCancelled, Leaves
  <2>2. \A k \in Jobs : post[k] # "checking"
    BY <1>3, TurnsExclude DEF DeleteRelease
  <2> QED
    BY <2>1, <2>2 DEF PlaceFine, LocalMoves
<1>4. ASSUME NEW j \in Jobs, DeleteDrop(j) PROVE PlaceFine
  BY <1>4, <1>a DEF DeleteDrop, PlaceFine, LocalMoves, printVars
<1>5. ASSUME NEW j \in Jobs, Elsewhere(j) \/ Task(j) \/ TimePasses(j) PROVE PlaceFine
  BY <1>5, <1>c, ElsewhereKeeps DEF Task, Consume, TaskEnds, TaskRemoves, TimePasses
<1>6. ASSUME NEW w \in Workers, WorkerRuns(w) \/ CancellationConsumed(w) PROVE PlaceFine
  <2>1. /\ \A v \in Workers \ {w} : pc'[v] = pc[v]
        /\ UNCHANGED <<del, post, toRecord, toDiscard>>
    BY <1>6, <1>a
    DEF WorkerRuns, Sleep, Take, Claim, Skip, Dispatch, Receive, Record, Release, WorkerCancelled,
        CancellationConsumed, WorkerGoes
  <2>2. \A k \in Jobs : post[k] # "checking"
    <3>1. Turn(<<"worker", w>>)
      BY <1>6
      DEF WorkerRuns, Sleep, Take, Claim, Skip, Dispatch, Receive, Record, Release, WorkerCancelled,
          CancellationConsumed, AnyTurn, Turn
    <3> QED
      BY <3>1, TurnsExclude
  <2>3. ASSUME LocalMoves, HoldingMoves(w) PROVE PlaceFine
    BY <2>1, <2>2, <2>3 DEF PlaceFine
  <2>a. pc[w] \in Holding => held[w] \in Jobs
    BY <1>a DEF LocalBase, LifeInv, DispatchInv, HoldsByState
  <2>4. CASE Take(w)
    <3>1. /\ pc[w] = "ready" /\ pc'[w] = "taken" /\ held'[w] = Head(waiting) /\ UNCHANGED status
          /\ waiting # <<>>
      BY <1>a, <2>4 DEF Take, WorkerAt, WorkerGoes, storeVars
    <3>2. IsWaiting(Head(waiting))
      BY <1>a, <3>1, TailOfQueue DEF IsWaiting, InQueue
    <3> QED
      BY <2>3, <2>4, <3>1, <3>2 DEF LocalMoves
  <2>5. CASE Release(w)
    <3>1. LetsGo(w) /\ pc[w] = "recorded" /\ pc'[w] \in {"ready", "stopped"}
      BY <1>a, <2>a, <2>5 DEF Release, LetsGo, WorkerAt, WorkerGoes, Holding, AfterTurn
    <3> QED
      BY <2>3, <3>1 DEF LocalMoves
  <2>6. ASSUME UNCHANGED <<waiting, held, printVars>> PROVE LocalMoves
    BY <2>6 DEF LocalMoves
  <2>7. CASE Claim(w)
    <3>1. /\ pc[w] = "taken" /\ pc'[w] \in {"claimed", "skipping"}
          /\ pc'[w] = "skipping" => status[held[w]] # "queued" /\ UNCHANGED status
          /\ UNCHANGED <<waiting, held, printVars>>
      BY <1>a, <2>7 DEF Claim, WorkerAt, WorkerGoes, storeVars, printVars
    <3> QED
      BY <2>3, <2>6, <3>1
  <2>8. CASE Record(w)
    <3>1. /\ pc[w] = "finishing" /\ UNCHANGED <<waiting, held, printVars>> /\ held[w] \in Jobs
          /\ pc'[w] = "recorded"
      BY <1>a, <2>a, <2>8 DEF Record, WorkerAt, WorkerGoes, printVars, Holding
    <3>2. status[held[w]] = "running"
      BY <3>1 DEF LocalBase, LifeInv, DispatchInv, ClaimedRuns
    <3>3. \E v \in FinishedStatuses : Finish(held[w], v)
      BY <1>a, <2>8, <3>2
      DEF Record, Outcome, SetSucceeded, SetFailed, AnyStatus, ActiveStatuses, FinishedStatuses
    <3>4. status'[held[w]] \in Over
      BY <1>a, <3>1, <3>3, FinishIsOver
    <3> QED
      BY <2>3, <2>6, <3>1, <3>4
  <2>9. CASE Sleep(w) \/ Skip(w) \/ Dispatch(w) \/ Receive(w) \/ CancellationConsumed(w)
    <3>1. /\ UNCHANGED <<waiting, held, printVars>>
          /\ \/ pc[w] # "taken" /\ pc'[w] # "taken" /\ (pc[w] = "finishing" => pc'[w] # "recorded")
             \/ pc'[w] = pc[w]
      BY <1>a, <2>9 DEF Sleep, Skip, Dispatch, Receive, CancellationConsumed, WorkerAt, WorkerGoes,
                        printVars
    <3> QED
      BY <2>3, <2>6, <3>1
  <2>10. CASE WorkerCancelled(w)
    <3>1. /\ UNCHANGED <<waiting, held, printVars>>
          /\ pc'[w] \in {"stopped", "cancelled"}
      BY <1>a, <2>10 DEF WorkerCancelled, WorkerGoes, printVars
    <3>2. pc[w] # "taken"
      BY <2>10, TurnsExclude DEF WorkerCancelled, Quiet
    <3> QED
      BY <2>3, <2>6, <3>1, <3>2
  <2> QED
    BY <1>6, <2>4, <2>5, <2>7, <2>8, <2>9, <2>10 DEF WorkerRuns
<1>7. CASE CloseDrains
  <2>1. Quiet /\ UNCHANGED <<del, pc, post, status>> /\ toDiscard' = {j \in Jobs : IsWaiting(j)}
    BY <1>7, TurnsExclude DEF CloseDrains, storeVars
  <2>2. toRecord = {}
    BY <1>7 DEF CloseDrains, LocalBase, ShutdownOrder, Drained
  <2> QED
    BY <1>7, <2>1, <2>2 DEF PlaceFine, LocalMoves, Quiet
<1>8. ASSUME NEW j \in Jobs, CloseRecords(j) PROVE PlaceFine
  <2>1. /\ j \in toRecord /\ Quiet /\ toRecord' = toRecord \ {j}
        /\ UNCHANGED <<waiting, held, printVars, del, pc, post, toDiscard>>
    BY <1>8, TurnsExclude DEF CloseRecords, printVars
  <2>2. \/ status'[j] \in Over \/ status'[j] = "none"
        \/ j \in toDiscard /\ status[j] = "running"
    <3>1. CASE status[j] \in Required(j)
      BY <1>8, <1>a, <3>1, FinishIsOver DEF CloseRecords, SetFailed, FinishedStatuses
    <3>2. CASE status[j] \notin Required(j)
      BY <1>8, <1>a, <3>2
      DEF CloseRecords, SetFailed, Required, storeVars, Statuses, ActiveStatuses, FinishedStatuses, Over
    <3> QED
      BY <3>1, <3>2
  <2> QED
    BY <2>1, <2>2 DEF PlaceFine, LocalMoves, Quiet
<1>9. ASSUME NEW j \in Jobs, CloseDiscards(j) PROVE PlaceFine
  <2>1. /\ Quiet /\ toDiscard' \subseteq toDiscard
        /\ UNCHANGED <<waiting, held, printVars, del, pc, post, toRecord>>
    BY <1>9, TurnsExclude DEF CloseDiscards, printVars
  <2> QED
    BY <2>1 DEF PlaceFine, LocalMoves, Quiet
<1>10. CASE CloseBegins \/ CloseRecorded \/ CloseEnds \/ UploadsClose \/ CloseGivesUp
  BY <1>10, <1>a, <1>c DEF CloseBegins, CloseRecorded, CloseEnds, UploadsClose, CloseGivesUp
<1>11. CASE Down \/ UNCHANGED vars
  BY <1>11, <1>c DEF Down, vars
<1> QED
  BY <1>1, <1>2, <1>3, <1>4, <1>5, <1>6, <1>7, <1>8, <1>9, <1>10, <1>11 DEF Next, CloseRuns

-----------------------------------------------------------------------------
(* The invariant is inductive.                                              *)

\* A job that has ended stays so, and only a worker's claim makes one run.
LEMMA EndedStay ==
  ASSUME LocalInv, ~Shared, [Next]_vars, NEW j \in Jobs
  PROVE  /\ status[j] \in Over => status'[j] \in Over
         /\ status[j] # "none" => status'[j] # "none"
         /\ status'[j] = "running" =>
               status[j] = "running" \/ \E w \in Workers : held[w] = j /\ pc[w] = "taken" /\ pc'[w] = "claimed"
         /\ status'[j] \in ActiveStatuses => status[j] \in ActiveStatuses \/ post'[j] = "created"
<1>1. StatusMoves(j)
  BY StatusSteps DEF LocalInv
<1> QED
  BY <1>1 DEF StatusMoves, Keeps, Over, FinishedStatuses, ActiveStatuses

\* What the invariant says of one job.
LEMMA PlaceFacts ==
  ASSUME LocalInv, NEW j \in Jobs
  PROVE  /\ IsWaiting(j) \/ IsHeld(j) \/ j \in toRecord => post[j] = "accepted"
         /\ ~(IsWaiting(j) /\ IsHeld(j))
         /\ \A v, w \in Workers : held[v] = j /\ held[w] = j => v = w
         /\ j \in toRecord \/ j \in toDiscard => ~IsWaiting(j) /\ ~IsHeld(j)
         /\ post[j] \in Pending => status[j] = "queued"
<1>1. UploadInv /\ RecordsAnswered /\ PendingQueued
  BY DEF LocalInv, LocalBase, LifeInv
<1>2. j \in toRecord \/ j \in toDiscard => Drained
  BY DEF LocalInv, LocalBase, ShutdownOrder
<1>3. Drained => ~IsWaiting(j) /\ ~IsHeld(j)
  BY DispatchAssumption, <1>1 DEF UploadInv, DispatchInv, DrainedIsEmpty, IsWaiting, IsHeld
<1> QED
  BY <1>1, <1>2, <1>3, JobFacts DEF RecordsAnswered, PendingQueued

\* Until its POST is answered a record stays queued, or goes with the POST.
LEMMA PendingStays ==
  ASSUME LocalInv, ~Shared, [Next]_vars, NEW j \in Jobs, post[j] \in Pending
  PROVE  status'[j] = "queued" \/ post'[j] = "refused"
<1>1. StatusMoves(j) /\ status[j] = "queued" /\ ~IsHeld(j) /\ j \notin toRecord
      /\ post[j] # "accepted"
  BY StatusSteps, PlaceFacts DEF LocalInv, Pending
<1> QED
  BY <1>1 DEF StatusMoves, Keeps, IsHeld, FinishedStatuses

LEMMA PendingInductive ==
  ASSUME LocalInv, ~Shared, [Next]_vars
  PROVE  PendingQueued' /\ AcceptedExist'
<1> SUFFICES ASSUME NEW j \in Jobs
             PROVE  /\ post'[j] \in Pending => status'[j] = "queued"
                    /\ post'[j] = "accepted" => status'[j] # "none"
  BY DEF PendingQueued, AcceptedExist
<1>1. PostMoves(j)
  BY PostSteps DEF LocalInv
<1>2. post[j] = "accepted" => status'[j] # "none"
  BY EndedStay DEF LocalInv, AcceptedExist
<1>3. "refused" \notin Pending /\ "stored" \in Pending /\ "checking" \in Pending
  BY DEF Pending
<1> QED
  BY <1>1, <1>2, <1>3, PendingStays DEF PostMoves

LEMMA LifeLocal ==
  ASSUME LocalInv, ~Shared, [Next]_vars
  PROVE  LifeInv'
<1>1. LifeInv /\ blind' = blind
  BY StatusSteps DEF LocalInv, LocalBase
<1> QED
  BY <1>1, PendingInductive, RecordingInductive, DispatchInvInductive DEF LifeInv

LEMMA WaitingInductive ==
  ASSUME LocalInv, ~Shared, [Next]_vars
  PROVE  WaitingAreQueued' /\ ReleasedHaveEnded'
<1>1. ASSUME NEW j \in Jobs, del'[j] = "releasing" PROVE status'[j] \in Over
  <2>1. PlaceMoves(j)
    BY PlaceSteps DEF LocalInv, PlaceFine
  <2> QED
    BY <1>1, <2>1, EndedStay DEF PlaceMoves, LocalInv, ReleasedHaveEnded
<1>2. ASSUME NEW j \in Jobs, IsWaiting(j)' PROVE status'[j] = "queued" \/ del'[j] = "releasing"
  <2>1. IsWaiting(j) \/ (post[j] # "accepted" /\ post'[j] = "accepted")
    BY <1>2, Entries DEF LocalInv, LocalBase
  <2>2. CASE post[j] # "accepted" /\ post'[j] = "accepted"
    <3>1. post[j] \in Pending
      BY <2>2, PostSteps DEF LocalInv, PostMoves, Pending
    <3> QED
      BY <2>2, <3>1, PendingStays
  <2>3. CASE IsWaiting(j) /\ del[j] = "releasing"
    <3>1. PlaceMoves(j)
      BY PlaceSteps DEF LocalInv, PlaceFine
    <3>2. ~Leaves(j)
      <4>1. waiting \in Seq(Jobs) /\ NoRepeats(waiting)
        BY DEF LocalInv, LocalBase, UploadInv, DispatchInv, TypeOK, HeldOnce, NoRepeats
      <4>2. InQueue(waiting', j)
        BY <1>2 DEF IsWaiting, InQueue
      <4> QED
        BY <4>1, <4>2, WithoutProperties DEF Leaves
    <3> QED
      BY <2>3, <3>1, <3>2 DEF PlaceMoves
  <2>4. CASE IsWaiting(j) /\ del[j] # "releasing"
    <3>1. StatusMoves(j) /\ status[j] = "queued" /\ ~IsHeld(j) /\ j \notin toRecord
          /\ post[j] = "accepted"
      BY <2>4, StatusSteps, PlaceFacts DEF LocalInv, WaitingAreQueued
    <3> QED
      BY <3>1 DEF StatusMoves, Keeps, IsHeld, FinishedStatuses
  <2> QED
    BY <2>1, <2>2, <2>3, <2>4
<1> QED
  BY <1>1, <1>2 DEF WaitingAreQueued, ReleasedHaveEnded

LEMMA RunningInductive ==
  ASSUME LocalInv, ~Shared, [Next]_vars
  PROVE  TakenNotRunning' /\ SkippedHaveEnded' /\ DiscardedNotRunning'
<1>a. \A w \in Workers : pc[w] \in Holding => held[w] \in Jobs
  BY DEF LocalInv, LocalBase, LifeInv, DispatchInv, HoldsByState, TypeOK
<1>b. \A j \in Jobs : IsWaiting(j) => status[j] # "running"
  BY DEF LocalInv, WaitingAreQueued, ReleasedHaveEnded, Over, FinishedStatuses
<1>c. status \in [Jobs -> Statuses] /\ toDiscard' \subseteq Jobs
  <2>1. DispatchInv /\ DispatchInv'
    BY DispatchInvInductive DEF LocalInv, LocalBase, LifeInv
  <2> QED
    BY <2>1 DEF DispatchInv, TypeOK, StoreTypeOK
<1>1. ASSUME NEW w \in Workers
      PROVE  /\ pc'[w] = "taken" => status'[held'[w]] # "running"
             /\ pc'[w] \in {"skipping", "recorded"} => status'[held'[w]] \in Over
  <2>1. WorkerMoves(w) /\ HoldingMoves(w)
    BY ReplicaSteps, PlaceSteps DEF LocalInv, LocalBase, LifeInv, ReplicaMoves, PlaceFine
  <2>2. CASE pc[w] # "taken" /\ pc'[w] = "taken"
    <3>1. /\ held'[w] \in Jobs /\ IsWaiting(held'[w]) /\ UNCHANGED status
      BY <2>1, <2>2 DEF WorkerMoves, HoldingMoves
    <3> QED
      BY <1>b, <2>2, <3>1
  <2>3. CASE pc[w] = "taken" /\ pc'[w] = "taken"
    <3>1. held'[w] = held[w] /\ held[w] \in Jobs /\ status[held[w]] # "running"
      BY <1>a, <2>1, <2>3 DEF WorkerMoves, LocalInv, TakenNotRunning, Holding
    <3>2. \A v \in Workers : held[v] = held[w] => v = w
      BY <3>1, PlaceFacts
    <3> QED
      BY <2>3, <3>1, <3>2, EndedStay
  <2>4. CASE pc[w] = "taken" /\ pc'[w] = "skipping"
    <3>1. /\ held'[w] = held[w] /\ held[w] \in Jobs /\ status[held[w]] # "running"
          /\ status[held[w]] # "queued" /\ UNCHANGED status
      BY <1>a, <2>1, <2>4 DEF WorkerMoves, HoldingMoves, LocalInv, TakenNotRunning, Holding
    <3>2. status[held[w]] # "none"
      BY <3>1, PlaceFacts DEF LocalInv, AcceptedExist, IsHeld
    <3> QED
      BY <1>c, <2>4, <3>1, <3>2 DEF Statuses, ActiveStatuses, Over
  <2>5. CASE pc[w] = "finishing" /\ pc'[w] = "recorded"
    BY <2>1, <2>5 DEF WorkerMoves, HoldingMoves
  <2>6. CASE pc[w] \in {"skipping", "recorded"} /\ pc'[w] \in {"skipping", "recorded"}
    <3>1. held'[w] = held[w] /\ held[w] \in Jobs /\ status[held[w]] \in Over
      BY <1>a, <2>1, <2>6 DEF WorkerMoves, LocalInv, SkippedHaveEnded, Holding
    <3> QED
      BY <2>6, <3>1, EndedStay
  <2> QED
    BY <2>1, <2>2, <2>3, <2>4, <2>5, <2>6 DEF WorkerMoves, HoldingMoves
<1>2. ASSUME NEW j \in Jobs, j \in toDiscard' PROVE status'[j] # "running"
  <2>1. PlaceMoves(j)
    BY PlaceSteps DEF LocalInv, PlaceFine
  <2>2. CASE j \in toDiscard
    <3>1. status[j] # "running" /\ ~IsHeld(j)
      BY <2>2, PlaceFacts DEF LocalInv, DiscardedNotRunning
    <3> QED
      BY <3>1, EndedStay DEF IsHeld
  <2>3. CASE j \notin toDiscard
    BY <1>2, <1>b, <2>1, <2>3 DEF PlaceMoves
  <2> QED
    BY <2>2, <2>3
<1> QED
  BY <1>1, <1>2, <1>c DEF TakenNotRunning, SkippedHaveEnded, DiscardedNotRunning

\* A queue of active jobs leaves room for another one.
LEMMA QueueFits ==
  ASSUME waiting \in Seq(Jobs), NoRepeats(waiting), CapRespected,
         \A k \in Jobs : IsWaiting(k) => k \in ActiveJobs,
         NEW j \in ActiveJobs, ~IsWaiting(j)
  PROVE  Len(waiting) < MaxActive
<1> DEFINE queued == {waiting[i] : i \in 1..Len(waiting)}
           at == [i \in 1..Len(waiting) |-> waiting[i]]
<1>1. Len(waiting) \in Nat /\ \A i \in 1..Len(waiting) : waiting[i] \in Jobs
  OBVIOUS
<1>2. at \in Bijection(1..Len(waiting), queued)
  BY DEF NoRepeats, Bijection, Injection, Surjection, IsInjective
<1>3. Cardinality(queued) = Len(waiting)
  <2>1. ExistsBijection(1..Len(waiting), queued)
    BY <1>2 DEF ExistsBijection
  <2> HIDE DEF queued
  <2> QED
    BY <1>1, <2>1, FS_CountingElements
<1>4. queued \cup {j} \in SUBSET ActiveJobs /\ j \notin queued /\ ActiveJobs \in SUBSET Jobs
  BY <1>1 DEF IsWaiting, ActiveJobs, InStatus
<1> HIDE DEF queued
<1>5. /\ IsFiniteSet(queued) /\ Cardinality(ActiveJobs) \in Nat
      /\ Cardinality(queued \cup {j}) <= Cardinality(ActiveJobs)
  <2>1. /\ IsFiniteSet(queued \cup {j}) /\ Cardinality(ActiveJobs) \in Nat
        /\ Cardinality(queued \cup {j}) <= Cardinality(ActiveJobs)
    BY <1>4, JobSets
  <2>2. queued \in SUBSET (queued \cup {j})
    OBVIOUS
  <2> QED
    BY <2>1, <2>2, FS_Subset
<1>6. Cardinality(queued \cup {j}) = Cardinality(queued) + 1
  BY <1>4, <1>5, FS_AddElement
<1> QED
  BY <1>1, <1>3, <1>5, <1>6, StoreAssumption DEF CapRespected

LEMMA QueueInductive ==
  ASSUME LocalInv, ~Shared, [Next]_vars
  PROVE  NoAdmitting' /\ QueueBounded' /\ CapRespected'
<1>a. /\ waiting \in Seq(Jobs) /\ NoRepeats(waiting) /\ Len(waiting) \in Nat
      /\ Len(waiting) <= MaxActive /\ MaxActive \in Nat
  BY StoreAssumption
  DEF LocalInv, LocalBase, UploadInv, DispatchInv, TypeOK, HeldOnce, NoRepeats, QueueBounded
<1>1. ASSUME NEW j \in Jobs PROVE post'[j] \notin {"admitting", "clearing"}
  <2> SUFFICES ASSUME post[j] \in {"stored", "checking"}, Turn(<<"post", j>>)
               PROVE  Len(waiting) < MaxActive
    BY PostSteps DEF LocalInv, PostMoves
  <2>1. \A k \in Jobs : IsWaiting(k) => status[k] = "queued"
    BY TurnsExclude DEF LocalInv, WaitingAreQueued
  <2>2. status[j] = "queued" /\ ~IsWaiting(j)
    BY PlaceFacts DEF Pending
  <2>3. j \in ActiveJobs /\ \A k \in Jobs : IsWaiting(k) => k \in ActiveJobs
    BY <2>1, <2>2 DEF ActiveJobs, InStatus, ActiveStatuses
  <2> QED
    BY <1>a, <2>2, <2>3, QueueFits DEF LocalInv
<1>2. QueueBounded'
  <2>1. Len(waiting') <= MaxActive
    <3>1. CASE UNCHANGED waiting
      BY <1>a, <3>1
    <3>2. ASSUME NEW j \in Jobs, Joins(j) PROVE Len(waiting') <= MaxActive
      <4>1. Len(waiting) < MaxActive /\ waiting' = Append(waiting, j)
        BY <3>2, PostSteps DEF LocalInv, PostMoves, Joins
      <4>2. Len(Append(waiting, j)) = Len(waiting) + 1
        BY <1>a
      <4> QED
        BY <1>a, <4>1, <4>2
    <3>3. ASSUME NEW j \in Jobs, Leaves(j) PROVE Len(waiting') <= MaxActive
      <4>1. Without(j) \in Seq(Jobs) /\ Len(Without(j)) <= Len(waiting) /\ waiting' = Without(j)
        BY <1>a, <3>3, WithoutProperties DEF Leaves
      <4>2. Len(Without(j)) \in Nat
        BY <4>1
      <4> QED
        BY <1>a, <4>1, <4>2
    <3>4. ASSUME NEW w \in Workers, Take(w) PROVE Len(waiting') <= MaxActive
      <4>1. waiting # <<>> /\ waiting' = Tail(waiting)
        BY <3>4 DEF Take, Popped
      <4>2. Len(Tail(waiting)) = Len(waiting) - 1
        BY <1>a, <4>1
      <4> QED
        BY <1>a, <4>1, <4>2
    <3>5. CASE CloseDrains
      BY <1>a, <3>5 DEF CloseDrains
    <3> QED
      BY <3>1, <3>2, <3>3, <3>4, <3>5, PlaceSteps DEF LocalInv, PlaceFine, LocalMoves, LetsGo
  <2> QED
    BY <2>1 DEF QueueBounded
<1>3. CapRespected'
  <2>1. \A j \in Jobs : StatusMoves(j)
    BY StatusSteps DEF LocalInv
  <2>2. CASE HasRoom /\ \E j \in Jobs : \A k \in Jobs \ {j} : Keeps(k)
    <3>1. \E j \in Jobs : ActiveJobs' \subseteq ActiveJobs \cup {j}
      BY <2>2 DEF Keeps, ActiveJobs, InStatus, ActiveStatuses, FinishedStatuses
    <3> QED
      BY <2>2, <3>1, CapMoves DEF LocalInv
  <2>3. CASE ~(HasRoom /\ \E j \in Jobs : \A k \in Jobs \ {j} : Keeps(k))
    <3>1. \A j \in Jobs : status'[j] \in ActiveStatuses => status[j] \in ActiveStatuses
      BY <2>1, <2>3 DEF StatusMoves, Keeps, Over, ActiveStatuses, FinishedStatuses
    <3>2. ActiveJobs' \subseteq ActiveJobs
      BY <3>1 DEF ActiveJobs, InStatus
    <3> QED
      BY <3>2, CapMoves DEF LocalInv
  <2> QED
    BY <2>2, <2>3
<1> QED
  BY <1>1, <1>2, <1>3 DEF NoAdmitting

LEMMA IndexInductive ==
  ASSUME LocalInv, ~Shared, [Next]_vars
  PROVE  IndexLeadsToActive' /\ CheckingSeesIndex'
<1>a. /\ byPrint \in [Fingerprints -> Jobs \cup {NoJob}] /\ waiting \in Seq(Jobs)
      /\ NoRepeats(waiting) /\ FingerprintOf \in [Jobs -> Fingerprints] /\ NoJob \notin Jobs
      /\ held \in [Workers -> Jobs \cup {NoJob}]
  BY DispatchAssumption
  DEF LocalInv, LocalBase, UploadInv, DispatchInv, TypeOK, HeldOnce, NoRepeats
<1>1. CheckingSeesIndex'
  <2> SUFFICES ASSUME NEW j \in Jobs, post'[j] = "checking"
               PROVE  seen'[j] = byPrint'[FingerprintOf[j]]
    BY DEF CheckingSeesIndex
  <2>1. CheckingMoves(j)
    BY PlaceSteps DEF LocalInv, PlaceFine
  <2> QED
    BY <2>1 DEF CheckingMoves, LocalInv, CheckingSeesIndex
<1>2. ASSUME Dedupe, NEW j \in Jobs, ActiveHere(j)'
      PROVE  byPrint'[FingerprintOf[j]] = j
  <2>a. status'[j] \in ActiveStatuses /\ (IsWaiting(j)' \/ IsHeld(j)')
    BY <1>2 DEF ActiveHere
  <2>b. \A k \in Jobs : k # j /\ Forget(k) /\ byPrint[FingerprintOf[j]] = j
                           => byPrint'[FingerprintOf[j]] = j
    BY <1>a DEF Forget
  <2>1. CASE ~(IsWaiting(j) \/ IsHeld(j))
    <3>1. post[j] # "accepted" /\ post'[j] = "accepted"
      BY <2>1, <2>a, Entries DEF LocalInv, LocalBase, IsHeld
    <3>2. byPrint' = [byPrint EXCEPT ![FingerprintOf[j]] = j]
      BY <1>2, <3>1, PostSteps DEF LocalInv, PostMoves
    <3> QED
      BY <1>a, <3>2
  <2>2. CASE IsWaiting(j) \/ IsHeld(j)
    <3>1. post[j] = "accepted"
      BY <2>2, PlaceFacts
    <3>2. status[j] \in ActiveStatuses
      <4>1. post'[j] # "created"
        BY <3>1, DispatcherSteps DEF LocalInv, LocalBase, LifeInv, AcceptedStay
      <4> QED
        BY <4>1, <2>a, EndedStay
    <3>3. byPrint[FingerprintOf[j]] = j
      BY <1>2, <2>2, <3>2 DEF LocalInv, IndexLeadsToActive, ActiveHere
    <3>4. status[j] \notin Over
      BY <3>2 DEF Over, ActiveStatuses, FinishedStatuses
    <3>5. CASE UNCHANGED printVars
      BY <3>3, <3>5 DEF printVars
    <3>6. ASSUME NEW k \in Jobs, Joins(k) PROVE byPrint'[FingerprintOf[j]] = j
      <4>1. /\ byPrint' = [byPrint EXCEPT ![FingerprintOf[k]] = k]
            /\ \/ byPrint[FingerprintOf[k]] = NoJob
               \/ post[k] = "checking" /\ ~StillActive(seen[k])
        BY <1>2, <3>6, PostSteps DEF LocalInv, PostMoves, Joins
      <4>2. FingerprintOf[k] # FingerprintOf[j]
        <5>1. CASE byPrint[FingerprintOf[k]] = NoJob
          BY <1>a, <3>3, <5>1
        <5>2. CASE post[k] = "checking" /\ ~StillActive(seen[k])
          <6>1. seen[k] = byPrint[FingerprintOf[k]]
            BY <5>2 DEF LocalInv, CheckingSeesIndex
          <6> QED
            BY <3>2, <3>3, <5>2, <6>1 DEF StillActive
        <5> QED
          BY <4>1, <5>1, <5>2
      <4> QED
        BY <1>a, <3>3, <4>1, <4>2
    <3>7. ASSUME NEW k \in Jobs, Leaves(k), del[k] = "releasing"
          PROVE  byPrint'[FingerprintOf[j]] = j
      <4>1. k # j
        BY <3>4, <3>7 DEF LocalInv, ReleasedHaveEnded
      <4> QED
        BY <2>b, <3>3, <3>7, <4>1 DEF Leaves
    <3>8. ASSUME NEW w \in Workers, LetsGo(w), pc[w] = "recorded"
          PROVE  byPrint'[FingerprintOf[j]] = j
      <4>1. held[w] # j
        BY <3>4, <3>8 DEF LocalInv, SkippedHaveEnded
      <4> QED
        BY <2>b, <3>3, <3>8, <4>1 DEF LetsGo
    <3>9. ~CloseDrains
      <4>1. CloseDrains => ~IsWaiting(j)' /\ ~IsHeld(j)'
        BY <1>a DEF CloseDrains, IsWaiting, IsHeld
      <4> QED
        BY <4>1, <2>a
    <3>10. \A w \in Workers : Take(w) => UNCHANGED printVars
      BY DEF Take
    <3> QED
      BY <3>5, <3>6, <3>7, <3>8, <3>9, <3>10, PlaceSteps DEF LocalInv, PlaceFine, LocalMoves
  <2> QED
    BY <2>1, <2>2
<1> QED
  BY <1>1, <1>2 DEF IndexLeadsToActive

\* Where a job goes that leaves the queue or a worker's hands.
LEMMA NextPlace ==
  ASSUME LocalInv, ~Shared, [Next]_vars, NEW j \in Jobs
  PROVE  /\ IsWaiting(j) => \/ IsWaiting(j)' \/ IsHeld(j)' \/ j \in toRecord'
                            \/ del[j] = "releasing"
         /\ IsHeld(j) => \/ IsHeld(j)' \/ j \in toRecord'
                         \/ \E w \in Workers : held[w] = j /\ pc[w] = "recorded"
<1>a. waiting \in Seq(Jobs) /\ NoRepeats(waiting) /\ held \in [Workers -> Jobs \cup {NoJob}]
      /\ \A w \in Workers : pc[w] = "ready" => held[w] = NoJob
  BY DEF LocalInv, LocalBase, UploadInv, DispatchInv, TypeOK, HeldOnce, NoRepeats, HoldsByState
<1>b. (IsWaiting(j) <=> InQueue(waiting, j)) /\ (IsWaiting(j)' <=> InQueue(waiting', j))
  BY DEF IsWaiting, InQueue
<1>c. held' = held => (IsHeld(j) => IsHeld(j)')
  BY DEF IsHeld
<1>1. CASE UNCHANGED <<waiting, held>>
  BY <1>1, <1>b, <1>c
<1>2. ASSUME NEW k \in Jobs, Joins(k) PROVE (IsWaiting(j) => IsWaiting(j)') /\ held' = held
  BY <1>2, <1>a, <1>b, AppendToQueue DEF Joins
<1>3. ASSUME NEW k \in Jobs, Leaves(k) PROVE (IsWaiting(j) => IsWaiting(j)' \/ j = k) /\ held' = held
  BY <1>3, <1>a, <1>b, WithoutProperties DEF Leaves
<1>4. ASSUME NEW w \in Workers, Take(w)
      PROVE  (IsWaiting(j) => IsWaiting(j)' \/ IsHeld(j)') /\ (IsHeld(j) => IsHeld(j)')
  <2>1. /\ waiting # <<>> /\ waiting' = Tail(waiting) /\ pc[w] = "ready"
        /\ held' = [held EXCEPT ![w] = Head(waiting)]
    BY <1>4 DEF Take, Popped, WorkerAt
  <2>2. IsWaiting(j) => IsWaiting(j)' \/ held'[w] = j
    BY <2>1, <1>a, <1>b, TailOfQueue
  <2>3. IsHeld(j) => IsHeld(j)'
    BY <2>1, <1>a, DispatchAssumption DEF IsHeld
  <2> QED
    BY <2>2, <2>3 DEF IsHeld
<1>5. ASSUME NEW w \in Workers, LetsGo(w) PROVE waiting' = waiting /\ (IsHeld(j) => IsHeld(j)' \/ held[w] = j)
  BY <1>5, <1>a DEF LetsGo, HoldNothing, IsHeld
<1>6. CASE CloseDrains
  BY <1>6 DEF CloseDrains
<1> QED
  BY <1>1, <1>2, <1>3, <1>4, <1>5, <1>6, <1>b, <1>c, PlaceSteps DEF LocalInv, PlaceFine, LocalMoves

LEMMA SlotsInductive ==
  ASSUME LocalInv, ~Shared, ~DiskFaults, [Next]_vars
  PROVE  SlotsAreOwned'
<1> DEFINE Owner(j) == \/ post[j] \notin {"idle", "accepted", "refused"}
                       \/ IsWaiting(j) \/ IsHeld(j) \/ j \in toRecord
<1> SUFFICES ASSUME NEW j \in ActiveJobs' PROVE Owner(j)'
  BY DEF SlotsAreOwned
<1>1. /\ j \in Jobs /\ status'[j] \in ActiveStatuses /\ post[j] \in PostStates
      /\ status'[j] \notin Over /\ status'[j] # "gone" /\ status'[j] # "none"
  BY DEF ActiveJobs, InStatus, LocalInv, LocalBase, UploadInv, DispatchInv, TypeOK, ActiveStatuses,
         FinishedStatuses, Over
<1>2. status[j] \notin Over
  BY <1>1, EndedStay
<1>3. CASE status[j] \notin ActiveStatuses
  BY <1>1, <1>3, EndedStay
<1>4. CASE status[j] \in ActiveStatuses
  <2>1. Owner(j)
    BY <1>1, <1>4 DEF LocalInv, SlotsAreOwned, ActiveJobs, InStatus
  <2>2. CASE post[j] \notin {"idle", "accepted", "refused"}
    <3>1. post[j] \in Pending
      BY <1>1, <2>2 DEF PostStates, Pending
    <3>2. PostMoves(j)
      BY <1>1, PostSteps DEF LocalInv
    <3>3. post'[j] \in Pending \/ IsWaiting(j)'
      BY <1>1, <3>1, <3>2 DEF PostMoves
    <3> QED
      BY <3>3 DEF Pending
  <2>3. CASE IsWaiting(j) \/ IsHeld(j)
    <3>1. del[j] # "releasing" /\ ~\E w \in Workers : held[w] = j /\ pc[w] = "recorded"
      BY <1>1, <1>2 DEF LocalInv, ReleasedHaveEnded, SkippedHaveEnded
    <3> QED
      BY <1>1, <2>3, <3>1, NextPlace
  <2>4. CASE j \in toRecord
    <3>1. PlaceMoves(j) /\ ~(j \in toDiscard /\ status[j] = "running")
      BY <1>1, PlaceSteps DEF LocalInv, PlaceFine, DiscardedNotRunning
    <3> QED
      BY <1>1, <2>4, <3>1 DEF PlaceMoves
  <2> QED
    BY <2>1, <2>2, <2>3, <2>4
<1> QED
  BY <1>3, <1>4

LEMMA LocalInvInit ==
  ASSUME Init
  PROVE  LocalInv
<1>1. UploadInv
  BY UploadInvInit
<1>2. waiting = <<>> /\ (\A j : ~IsWaiting(j)) /\ (\A j \in Jobs : ~IsHeld(j)) /\ ActiveJobs = {}
  BY DispatchAssumption
  DEF Init, StoreInit, IsWaiting, IsHeld, ActiveJobs, InStatus, ActiveStatuses
<1>3. LifeInv
  BY DispatchInvInit DEF Init, LifeInv, PendingQueued, Pending, RecordsAnswered
<1>4. ShutdownOrder /\ NoAdmitting /\ OneMidStep
  BY DEF Init, ShutdownOrder, NoAdmitting, OneMidStep, MidStep
<1>5. WaitingAreQueued /\ IndexLeadsToActive /\ SlotsAreOwned
  BY <1>2 DEF WaitingAreQueued, IndexLeadsToActive, ActiveHere, SlotsAreOwned
<1>6. /\ ReleasedHaveEnded /\ AcceptedExist /\ TakenNotRunning /\ SkippedHaveEnded
      /\ DiscardedNotRunning /\ CheckingSeesIndex
  BY DEF Init, ReleasedHaveEnded, AcceptedExist, TakenNotRunning, SkippedHaveEnded,
         DiscardedNotRunning, CheckingSeesIndex
<1>7. CapRespected /\ QueueBounded
  <2>1. Len(<<>>) = 0
    OBVIOUS
  <2> QED
    BY <1>2, <2>1, FS_EmptySet, StoreAssumption DEF CapRespected, QueueBounded
<1> QED
  BY <1>1, <1>3, <1>4, <1>5, <1>6, <1>7 DEF LocalInv, LocalBase

LEMMA LocalInvHolds ==
  ASSUME ~Shared
  PROVE  Spec => []LocalInv
<1>1. ASSUME LocalInv, [Next]_vars PROVE LocalInv'
  <2>1. LocalBase'
    BY <1>1, UploadInvInductive, ShutdownSteps, LifeLocal, QueueInductive, MidSteps
    DEF LocalInv, LocalBase, UploadInv, DispatchInv
  <2> QED
    BY <1>1, <2>1, WaitingInductive, PendingInductive, RunningInductive, QueueInductive,
       IndexInductive, SlotsInductive
    DEF LocalInv
<1> QED
  BY <1>1, LocalInvInit, PTL DEF Spec

-----------------------------------------------------------------------------
(* The theorems.                                                            *)

\* With the in-process store every slot of the cap is somebody's, whatever is cancelled,
\* discarded, deduplicated and shut down: an active record always has its POST, the
\* queue, a worker or the shutdown to end it (a removal that fails may leave one behind).
THEOREM SlotsCorrect ==
  ASSUME ~Shared, ~DiskFaults
  PROVE  Spec => []SlotsAreOwned
<1> QED
  BY LocalInvHolds, PTL DEF LocalInv

\* With the in-process store no two jobs of the replica run the same upload: the answer to
\* a duplicate is decided on the index as it is when the job is queued.
THEOREM OneRunCorrect ==
  ASSUME ~Shared
  PROVE  Spec => []OneRunPerUpload
<1>1. LocalInv => OneRunPerUpload
  BY DEF LocalInv, IndexLeadsToActive, OneRunPerUpload
<1> QED
  BY <1>1, LocalInvHolds, PTL

\* With the in-process store the queue, and the uploads it keeps on disk, stay within
\* JOBS_MAX_ACTIVE without the loop of _release_stale: a waiting job counts as active
\* until it is released, so the POST that submit admits never finds a full queue.
THEOREM QueueCorrect ==
  ASSUME ~Shared
  PROVE  Spec => [](QueueBounded /\ NoAdmitting)
<1> QED
  BY LocalInvHolds, PTL DEF LocalInv, LocalBase

\* With the in-process store the cap holds of the records under the calls the API makes.
THEOREM ActiveCapCorrect ==
  ASSUME ~Shared
  PROVE  Spec => []CapRespected
<1> QED
  BY LocalInvHolds, PTL DEF LocalInv

-----------------------------------------------------------------------------
(* The store under the replica's calls.                                     *)

\* Whatever a replica does to its records is a step of the store on its own.
LEMMA StoreSteps ==
  ASSUME LifeInv, ~Shared, [Next]_vars
  PROVE  [StoreNext]_storeVars
<1> DEFINE Fine == StoreNext \/ UNCHANGED storeVars
<1> SUFFICES Fine
  OBVIOUS
<1>a. held \in [Workers -> Jobs \cup {NoJob}] /\ ~Outages
  BY DispatchAssumption DEF LifeInv, DispatchInv, TypeOK
<1>b. ASSUME PurgeOnly PROVE Fine
  BY <1>b DEF StoreNext
<1>c. ASSUME NEW j \in Jobs, NEW S, status[j] \in ActiveStatuses \/ S \subseteq ActiveStatuses,
             SetFailed(j, S)
      PROVE  Fine
  BY <1>c DEF SetFailed, StoreNext
<1>1. ASSUME NEW j \in Jobs, Post(j) PROVE Fine
  <2>1. CASE PostCreate(j)
    BY <2>1, <1>b DEF PostCreate, CreateRefused, StoreNext
  <2>2. CASE PostDecide(j) \/ PostLookAt(j)
    BY <2>2, <1>b DEF PostDecide, PostLookAt
  <2>3. CASE PostDiscard(j)
    <3>1. status[j] = "queued"
      BY <2>3 DEF PostDiscard, LifeInv, PendingQueued, Pending
    <3> QED
      BY <2>3, <3>1 DEF PostDiscard, StoreNext
  <2>4. CASE PostPersist(j) \/ PostStored(j) \/ PostPersistFails(j) \/ PostLookup(j)
    BY <2>4 DEF PostPersist, PostStored, PostPersistFails, PostLookup
  <2>5. CASE PostCleared(j) \/ PostAdmitted(j) \/ PostAborts(j) \/ PostDrop(j)
    BY <2>5 DEF PostCleared, PostAdmitted, PostAborts, PostDrop
  <2> QED
    BY <1>1, <2>1, <2>2, <2>3, <2>4, <2>5 DEF Post
<1>2. ASSUME NEW j \in Jobs, Delete(j) \/ Elsewhere(j) PROVE Fine
  BY <1>2, <1>b, ElsewhereKeeps DEF Delete, StoreNext
<1>3. ASSUME NEW j \in Jobs, DeleteRelease(j) \/ DeleteDrop(j) \/ Task(j) \/ CloseDiscards(j)
      PROVE  Fine
  BY <1>3 DEF DeleteRelease, DeleteDrop, Task, Consume, TaskEnds, TaskRemoves, CloseDiscards
<1>4. ASSUME NEW j \in Jobs, TimePasses(j) PROVE Fine
  BY <1>4 DEF TimePasses, StoreNext
<1>5. ASSUME NEW w \in Workers, WorkerRuns(w) \/ CancellationConsumed(w) PROVE Fine
  <2>a. pc[w] \in Holding => held[w] \in Jobs
    BY <1>a DEF LifeInv, DispatchInv, HoldsByState
  <2>1. CASE Claim(w)
    BY <1>a, <2>a, <2>1 DEF Claim, WorkerAt, Holding, StoreNext
  <2>2. CASE Record(w)
    <3>1. held[w] \in Jobs /\ status[held[w]] = "running"
      BY <2>a, <2>2 DEF Record, WorkerAt, Holding, LifeInv, DispatchInv, ClaimedRuns
    <3>2. CASE SetSucceeded(held[w])
      BY <3>1, <3>2 DEF StoreNext
    <3>3. ASSUME NEW S, SetFailed(held[w], S) PROVE Fine
      BY <1>c, <3>1, <3>3 DEF ActiveStatuses
    <3> QED
      BY <1>a, <2>2, <3>2, <3>3 DEF Record, Outcome
  <2>3. CASE Sleep(w) \/ Take(w) \/ Skip(w) \/ Dispatch(w)
    BY <2>3 DEF Sleep, Take, Skip, Dispatch
  <2>4. CASE Receive(w) \/ Release(w) \/ WorkerCancelled(w) \/ CancellationConsumed(w)
    BY <2>4 DEF Receive, Release, WorkerCancelled, CancellationConsumed
  <2> QED
    BY <1>5, <2>1, <2>2, <2>3, <2>4 DEF WorkerRuns
<1>6. ASSUME NEW j \in Jobs, CloseRecords(j) PROVE Fine
  <2>1. SetFailed(j, Required(j)) /\ Required(j) \subseteq ActiveStatuses
    BY <1>6 DEF CloseRecords, Required, ActiveStatuses
  <2> QED
    BY <1>c, <2>1
<1>7. CASE \/ CloseBegins \/ CloseDrains \/ CloseRecorded \/ CloseEnds \/ UploadsClose
           \/ CloseGivesUp \/ Down \/ UNCHANGED vars
  BY <1>7 DEF CloseBegins, CloseDrains, CloseRecorded, CloseEnds, UploadsClose, CloseGivesUp,
              Down, vars
<1> QED
  BY <1>1, <1>2, <1>3, <1>4, <1>5, <1>6, <1>7 DEF Next, CloseRuns

\* The in-process store is called as MemoryJobStore assumes: POST, DELETE, workers and
\* shutdown together are an environment of the store that StoreNext describes.
THEOREM StoreCallsCorrect ==
  ASSUME ~Shared
  PROVE  Spec => CallsStoreAsAssumed
<1>1. ASSUME LocalInv, [Next]_vars PROVE [StoreNext]_storeVars
  BY <1>1, StoreSteps, DispatchAssumption DEF LocalInv, LocalBase
<1>2. Init => StoreInit
  BY DEF Init
<1> QED
  BY <1>1, <1>2, LocalInvHolds, PTL DEF Spec, StoreSpec, CallsStoreAsAssumed

\* So a replica keeps what the store promises on its own: both retention budgets, the
\* order of forgetting, and the job that has just finished.
THEOREM RetentionOfReplica ==
  ASSUME ~Shared
  PROVE  Spec => []RetentionBounded /\ ForgetsOldestFirst /\ JustFinishedIsKept
<1> QED
  BY StoreCallsCorrect, RetentionCorrect, ForgetsOldestCorrect, JustFinishedCorrect, PTL
  DEF CallsStoreAsAssumed
=============================================================================
