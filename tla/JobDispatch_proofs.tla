------------------------- MODULE JobDispatch_proofs -------------------------
(***************************************************************************)
(* Proofs about JobDispatch for any number of jobs and workers and any     *)
(* settings, with and without a shared store, outages and disk faults.     *)
(*                                                                         *)
(* The long list of actions is met in summaries only: RecordSteps says     *)
(* what a step may do to a record, DispatcherSteps to the queue, to what   *)
(* is held and to the fingerprint index, ReplicaSteps to a worker.  The    *)
(* invariants are proved from these.                                       *)
(*                                                                         *)
(* The last part proves that the replica keeps what the job API promises   *)
(* its clients (JobLifecycle), with a store of its own of which retention  *)
(* keeps at least one job: a step of the replica maps to one of            *)
(* JobLifecycle by what it does to the records and to the answered POSTs   *)
(* (LifeMoves).                                                            *)
(***************************************************************************)
EXTENDS JobDispatch, MemoryJobStore_proofs, SequenceTheorems

-----------------------------------------------------------------------------
(* The queue.                                                               *)

InQueue(s, j) == \E i \in 1..Len(s) : s[i] = j
NoRepeats(s) == \A i, k \in 1..Len(s) : s[i] = s[k] => i = k

\* A job joins the end of the queue.
LEMMA AppendToQueue ==
  ASSUME NEW s \in Seq(Jobs), NEW j \in Jobs
  PROVE  /\ Append(s, j) \in Seq(Jobs)
         /\ \A k : InQueue(Append(s, j), k) <=> InQueue(s, k) \/ k = j
         /\ NoRepeats(s) /\ ~InQueue(s, j) => NoRepeats(Append(s, j))
<1>1. /\ Append(s, j) \in Seq(Jobs) /\ Len(s) \in Nat
      /\ Len(Append(s, j)) = Len(s) + 1
      /\ Append(s, j)[Len(s) + 1] = j
      /\ \A i \in 1..Len(s) : Append(s, j)[i] = s[i]
  OBVIOUS
<1> QED
  BY <1>1 DEF InQueue, NoRepeats

\* The head of the queue leaves it.
LEMMA TailOfQueue ==
  ASSUME NEW s \in Seq(Jobs), s # <<>>
  PROVE  /\ Tail(s) \in Seq(Jobs) /\ Head(s) \in Jobs
         /\ InQueue(s, Head(s))
         /\ \A k : InQueue(s, k) <=> InQueue(Tail(s), k) \/ k = Head(s)
         /\ NoRepeats(s) => NoRepeats(Tail(s)) /\ ~InQueue(Tail(s), Head(s))
<1>1. /\ Tail(s) \in Seq(Jobs) /\ Head(s) \in Jobs /\ Head(s) = s[1]
      /\ Len(s) \in Nat /\ Len(s) >= 1 /\ Len(Tail(s)) = Len(s) - 1
      /\ \A i \in 1..Len(Tail(s)) : Tail(s)[i] = s[i + 1]
  BY HeadTailProperties, EmptySeq
<1>2. \A i \in 1..Len(s) : i = 1 \/ (i - 1 \in 1..Len(Tail(s)) /\ Tail(s)[i - 1] = s[i])
  BY <1>1
<1>3. \A i \in 1..Len(Tail(s)) : i + 1 \in 1..Len(s) /\ i + 1 # 1
  BY <1>1
<1>4. InQueue(s, Head(s))
  BY <1>1 DEF InQueue
<1>5. \A k : InQueue(s, k) => InQueue(Tail(s), k) \/ k = Head(s)
  BY <1>1, <1>2 DEF InQueue
<1>6. \A k : InQueue(Tail(s), k) => InQueue(s, k)
  BY <1>1, <1>3 DEF InQueue
<1>7. ASSUME NoRepeats(s) PROVE NoRepeats(Tail(s)) /\ ~InQueue(Tail(s), Head(s))
  <2>1. NoRepeats(Tail(s))
    BY <1>1, <1>3, <1>7 DEF NoRepeats
  <2>2. ~InQueue(Tail(s), Head(s))
    BY <1>1, <1>3, <1>7 DEF NoRepeats, InQueue
  <2> QED
    BY <2>1, <2>2
<1> QED
  BY <1>1, <1>4, <1>5, <1>6, <1>7

\* A job leaves the queue from any place in it (Without, if it waits).
LEMMA RemoveFromQueue ==
  ASSUME NEW s \in Seq(Jobs), NEW n \in 1..Len(s), NoRepeats(s)
  PROVE  /\ RemoveAt(s, n) \in Seq(Jobs)
         /\ Len(RemoveAt(s, n)) = Len(s) - 1 /\ NoRepeats(RemoveAt(s, n))
         /\ \A k : InQueue(RemoveAt(s, n), k) <=> InQueue(s, k) /\ k # s[n]
<1> DEFINE a == SubSeq(s, 1, n - 1)
           b == SubSeq(s, n + 1, Len(s))
           r == RemoveAt(s, n)
<1>1. /\ Len(s) \in Nat /\ \A i \in 1..Len(s) : s[i] \in Jobs
  BY LenProperties
<1>2. /\ a \in Seq(Jobs) /\ Len(a) = n - 1
      /\ \A i \in 1..(n - 1) : a[i] = s[i]
  BY <1>1, SubSeqProperties, 1 \in Int, n - 1 \in Int
<1>3. /\ b \in Seq(Jobs) /\ Len(b) = Len(s) - n
      /\ \A i \in 1..(Len(s) - n) : b[i] = s[n + i]
  BY <1>1, SubSeqProperties, n + 1 \in Int, Len(s) \in Int
<1>4. r = a \o b
  BY DEF RemoveAt
<1> HIDE DEF a, b, r
<1>5. /\ r \in Seq(Jobs) /\ Len(r) = Len(s) - 1
      /\ \A i \in 1..(Len(s) - 1) : r[i] = IF i < n THEN s[i] ELSE s[i + 1]
  <2>1. /\ r \in Seq(Jobs) /\ Len(r) = Len(a) + Len(b)
        /\ \A i \in 1..(Len(a) + Len(b)) : r[i] = IF i <= Len(a) THEN a[i] ELSE b[i - Len(a)]
    BY <1>2, <1>3, <1>4, ConcatProperties
  <2>2. Len(a) + Len(b) = Len(s) - 1
    BY <1>1, <1>2, <1>3
  <2>3. ASSUME NEW i \in 1..(Len(s) - 1)
        PROVE  r[i] = IF i < n THEN s[i] ELSE s[i + 1]
    <3>1. CASE i < n
      BY <1>1, <1>2, <2>1, <2>2, <3>1
    <3>2. CASE ~(i < n)
      <4>1. i - Len(a) \in 1..(Len(s) - n) /\ ~(i <= Len(a)) /\ n + (i - Len(a)) = i + 1
        BY <1>1, <1>2, <3>2
      <4> QED
        BY <1>3, <2>1, <2>2, <3>2, <4>1
    <3> QED
      BY <3>1, <3>2
  <2> QED
    BY <2>1, <2>2, <2>3
<1>6. NoRepeats(r)
  BY <1>1, <1>5 DEF NoRepeats
<1>7. \A k : InQueue(r, k) => InQueue(s, k) /\ k # s[n]
  BY <1>1, <1>5 DEF NoRepeats, InQueue
<1>8. ASSUME NEW i \in 1..Len(s), i # n PROVE InQueue(r, s[i])
  <2>1. CASE i < n
    BY <1>1, <1>5, <2>1 DEF InQueue
  <2>2. CASE i > n
    <3>1. i - 1 \in 1..Len(r) /\ r[i - 1] = s[i]
      BY <1>1, <1>5, <2>2
    <3> QED
      BY <3>1 DEF InQueue
  <2> QED
    BY <1>1, <1>8, <2>1, <2>2
<1> QED
  BY <1>5, <1>6, <1>7, <1>8 DEF r, InQueue

\* The queue without a job that may wait in it.
LEMMA WithoutProperties ==
  ASSUME waiting \in Seq(Jobs), NoRepeats(waiting), NEW j \in Jobs
  PROVE  /\ Without(j) \in Seq(Jobs)
         /\ Len(Without(j)) <= Len(waiting) /\ NoRepeats(Without(j))
         /\ \A k : InQueue(Without(j), k) <=> InQueue(waiting, k) /\ k # j
<1>1. CASE IsWaiting(j)
  <2> DEFINE n == CHOOSE i \in 1..Len(waiting) : waiting[i] = j
  <2>1. n \in 1..Len(waiting) /\ waiting[n] = j
    BY <1>1 DEF IsWaiting
  <2>2. Without(j) = RemoveAt(waiting, n)
    BY <1>1 DEF Without
  <2> HIDE DEF n
  <2> QED
    BY <2>1, <2>2, RemoveFromQueue
<1>2. CASE ~IsWaiting(j)
  BY <1>2 DEF Without, IsWaiting, InQueue
<1> QED
  BY <1>1, <1>2

-----------------------------------------------------------------------------
(* The inductive invariant.                                                 *)

InDispatcher(j) == IsWaiting(j) \/ IsHeld(j)

\* Only accepted jobs get into the dispatcher, so no POST queues one twice.
HeldAreAccepted == \A j \in Jobs : InDispatcher(j) => post[j] = "accepted"

\* A worker holds a job from the moment it takes it until it lets it go.
Holding == {"taken", "claimed", "skipping", "awaiting", "finishing", "recorded"}
HoldsByState ==
    \A w \in Workers :
        /\ pc[w] \in {"ready", "blocked"} => held[w] = NoJob
        /\ pc[w] \in Holding => held[w] # NoJob

\* Once the shutdown has drained the dispatcher it stays empty.
Drained == closer \notin {"open", "cancelling"}
DrainedIsEmpty ==
    Drained => /\ waiting = <<>>
               /\ \A w \in Workers : held[w] = NoJob /\ pc[w] \in {"cancelled", "stopped"}

\* From its claim to its outcome a job's record says running, unless the store did
\* not answer the claim or another replica took the record away (blind).
ClaimedRuns ==
    \A w \in Workers :
        pc[w] \in {"claimed", "awaiting", "finishing"} /\ held[w] \notin blind
            => status[held[w]] = "running"

\* A POST that has released a stale job still has it at the head of its list.
ClearingHasHead == \A j \in Jobs : post[j] = "clearing" => todo[j] # <<>>

DispatchInv ==
    /\ TypeOK /\ ClockIsAhead /\ ClearingHasHead
    /\ HeldOnce /\ FingerprintsAreHeld
    /\ HeldAreAccepted /\ HoldsByState /\ DrainedIsEmpty /\ ClaimedRuns
    /\ late \subseteq blind

-----------------------------------------------------------------------------
(* What a step may do to a record.                                          *)

\* A purge may forget a finished record; nothing else happens to it by itself.
Keeps(j) == status'[j] = status[j] \/ (status[j] \in FinishedStatuses /\ status'[j] = "gone")

LEMMA FinishMoves ==
  ASSUME StoreInv, NEW j \in Jobs, NEW outcome \in FinishedStatuses, Finish(j, outcome)
  PROVE  StoreInv' /\ \A k \in Jobs \ {j} : Keeps(k)
<1> DEFINE st == [status EXCEPT ![j] = outcome]
           at == [finishedAt EXCEPT ![j] = clock + 1]
<1>1. /\ st \in [Jobs -> Statuses] /\ at \in [Jobs -> Nat]
      /\ aged \ {j} \in SUBSET InStatus(st, FinishedStatuses)
      /\ Purge(st, at, aged \ {j})
  BY FinishPurges
<1>2. \A k \in Jobs \ {j} : st[k] = status[k]
  BY DEF StoreInv, StoreTypeOK
<1> HIDE DEF st, at
<1>3. \A k \in Jobs : status'[k] = st[k] \/ (st[k] \in FinishedStatuses /\ status'[k] = "gone")
  BY <1>1, PurgeForgetsFinished
<1> QED
  BY <1>2, <1>3, FinishPreserves DEF Keeps

LEMMA PurgeOnlyMoves ==
  ASSUME StoreInv, PurgeOnly
  PROVE  StoreInv' /\ \A k \in Jobs : Keeps(k)
<1>1. /\ status \in [Jobs -> Statuses] /\ finishedAt \in [Jobs -> Nat]
      /\ aged \in SUBSET InStatus(status, FinishedStatuses)
      /\ Purge(status, finishedAt, aged) /\ clock' = clock
  BY DEF PurgeOnly, StoreInv, StoreTypeOK, FinishedJobs
<1> QED
  BY <1>1, PurgeForgetsFinished, PurgePreserves DEF Keeps

LEMMA CreateMoves ==
  ASSUME StoreInv, NEW j \in Jobs, Create(j)
  PROVE  StoreInv' /\ status[j] = "none" /\ \A k \in Jobs \ {j} : Keeps(k)
<1> DEFINE st == [status EXCEPT ![j] = "queued"]
<1>1. /\ st \in [Jobs -> Statuses] /\ finishedAt \in [Jobs -> Nat]
      /\ Purge(st, finishedAt, aged) /\ clock' = clock /\ status[j] = "none"
      /\ aged \in SUBSET InStatus(st, FinishedStatuses)
      /\ \A k \in Jobs : st[k] \in FinishedStatuses <=> status[k] \in FinishedStatuses
  BY DEF Create, StoreInv, StoreTypeOK, Statuses, ActiveStatuses, FinishedStatuses, FinishedJobs,
         InStatus
<1>2. \A k \in Jobs \ {j} : st[k] = status[k]
  BY DEF StoreInv, StoreTypeOK
<1> HIDE DEF st
<1>3. \A k \in Jobs : status'[k] = st[k] \/ (st[k] \in FinishedStatuses /\ status'[k] = "gone")
  BY <1>1, PurgeForgetsFinished
<1> QED
  BY <1>1, <1>2, <1>3, PurgePreserves DEF Keeps

\* Every call of the store, in any state a replica may call it in.
LEMMA StoreCalls ==
  ASSUME StoreInv, NEW j \in Jobs
  PROVE  /\ Discard(j) => StoreInv' /\ status'[j] = "gone" /\ \A k \in Jobs \ {j} : Keeps(k)
         /\ SetRunning(j) => /\ StoreInv' /\ status[j] = "queued" /\ status'[j] = "running"
                             /\ \A k \in Jobs \ {j} : Keeps(k)
         /\ CancelQueued(j) => StoreInv' /\ status[j] = "queued" /\ \A k \in Jobs \ {j} : Keeps(k)
         /\ SetSucceeded(j) => StoreInv' /\ \A k \in Jobs \ {j} : Keeps(k)
         /\ \A S : SetFailed(j, S) =>
               StoreInv' /\ (Keeps(j) \/ status[j] \in S) /\ \A k \in Jobs \ {j} : Keeps(k)
         /\ Age(j) => StoreInv' /\ \A k \in Jobs : Keeps(k)
<1>0. ASSUME UNCHANGED storeVars PROVE StoreInv' /\ \A k \in Jobs : Keeps(k)
  BY <1>0 DEF storeVars, StoreInv, StoreTypeOK, ClockIsAhead, FinishedJobs, InStatus, Keeps
<1>1. ASSUME Discard(j)
      PROVE  StoreInv' /\ status'[j] = "gone" /\ \A k \in Jobs \ {j} : Keeps(k)
  BY <1>1 DEF Discard, StoreInv, StoreTypeOK, ClockIsAhead, FinishedJobs, InStatus, Statuses,
              FinishedStatuses, ActiveStatuses, Keeps
<1>2. ASSUME SetRunning(j)
      PROVE  /\ StoreInv' /\ status[j] = "queued" /\ status'[j] = "running"
             /\ \A k \in Jobs \ {j} : Keeps(k)
  BY <1>2 DEF SetRunning, StoreInv, StoreTypeOK, ClockIsAhead, FinishedJobs, InStatus, Statuses,
              FinishedStatuses, ActiveStatuses, Keeps
<1>3. ASSUME CancelQueued(j)
      PROVE  StoreInv' /\ status[j] = "queued" /\ \A k \in Jobs \ {j} : Keeps(k)
  BY <1>3, FinishMoves DEF CancelQueued, FinishedStatuses
<1>4. ASSUME SetSucceeded(j) PROVE StoreInv' /\ \A k \in Jobs \ {j} : Keeps(k)
  BY <1>0, <1>4, FinishMoves DEF SetSucceeded, FinishedStatuses
<1>5. ASSUME NEW S, SetFailed(j, S)
      PROVE  StoreInv' /\ (Keeps(j) \/ status[j] \in S) /\ \A k \in Jobs \ {j} : Keeps(k)
  BY <1>0, <1>5, FinishMoves DEF SetFailed, FinishedStatuses
<1>6. ASSUME Age(j) PROVE StoreInv' /\ \A k \in Jobs : Keeps(k)
  BY <1>6 DEF Age, StoreInv, StoreTypeOK, ClockIsAhead, FinishedJobs, InStatus, Keeps
<1> QED
  BY <1>1, <1>2, <1>3, <1>4, <1>5, <1>6

\* A create on another replica fails a job whose lease lapsed.
LEMMA RemoteLosesMoves ==
  ASSUME StoreInv, NEW j \in Jobs, RemoteLoses(j)
  PROVE  StoreInv' /\ status[j] \in ActiveStatuses /\ \A k \in Jobs \ {j} : Keeps(k)
  BY DEF RemoteLoses, StoreInv, StoreTypeOK, ClockIsAhead, FinishedJobs, InStatus, Statuses,
         FinishedStatuses, ActiveStatuses, Keeps

\* The outcome of a run, recorded in time or late.
LEMMA OutcomeMoves ==
  ASSUME StoreInv, NEW j \in Jobs, Outcome(j)
  PROVE  StoreInv' /\ \A k \in Jobs \ {j} : Keeps(k)
  BY StoreCalls DEF Outcome

\* What happens to a shared record without this replica changes only the record, and
\* what is remembered of its run.
LEMMA ElsewhereKeeps ==
  ASSUME NEW j \in Jobs, Elsewhere(j)
  PROVE  /\ Shared /\ blind \subseteq blind' /\ late' \subseteq late
         /\ blind' \subseteq blind \cup {j}
         /\ UNCHANGED <<postVars, del, waiting, pc, held, killed, printVars, diskVars, taskVars,
                        closeVars>>
  BY DEF Elsewhere, RemoteCancel, RemoteLoses, RemoteForgets, LateOutcome, PartsFromItsRun,
         workerVars

\* What a step of the replica, or of another one, may do to the record of job j.
RecordMoves(j) ==
    \/ Keeps(j)
    \/ status[j] \in {"none", "queued"}
    \/ post[j] = "discarding" /\ status'[j] = "gone"
    \/ closer = "recording" /\ status[j] \in ActiveStatuses
    \/ \E w \in Workers : held[w] = j /\ pc[w] = "finishing" /\ pc'[w] = "recorded"
    \/ Shared /\ (j \in late \ late' \/ (status[j] = "running" /\ j \in blind'))

LEMMA RecordSteps ==
  ASSUME DispatchInv, [Next]_vars
  PROVE  StoreInv' /\ \A j \in Jobs : RecordMoves(j)
<1> DEFINE Fine == StoreInv' /\ \A k \in Jobs : RecordMoves(k)
<1> SUFFICES Fine
  OBVIOUS
<1>a. StoreInv
  BY DEF DispatchInv, TypeOK, StoreInv
<1>b. \A w \in Workers : held[w] # NoJob => held[w] \in Jobs
  BY DEF DispatchInv, TypeOK
<1>c. ASSUME UNCHANGED storeVars PROVE Fine
  BY <1>a, <1>c DEF storeVars, StoreInv, StoreTypeOK, ClockIsAhead, FinishedJobs, InStatus,
                    RecordMoves, Keeps
<1>d. ASSUME PurgeOnly PROVE Fine
  BY <1>a, <1>d, PurgeOnlyMoves DEF RecordMoves
<1>1. ASSUME NEW j \in Jobs, Post(j) PROVE Fine
  <2>1. CASE PostCreate(j)
    <3>1. CASE Create(j)
      BY <1>a, <3>1, CreateMoves DEF RecordMoves
    <3> QED
      BY <1>c, <1>d, <2>1, <3>1 DEF PostCreate, CreateRefused
  <2>2. CASE PostDecide(j) \/ PostLookAt(j)
    BY <1>c, <1>d, <2>2 DEF PostDecide, PostLookAt
  <2>3. CASE PostDiscard(j)
    <3>1. CASE Discard(j)
      BY <1>a, <2>3, <3>1, StoreCalls DEF PostDiscard, RecordMoves
    <3> QED
      BY <1>c, <2>3, <3>1 DEF PostDiscard
  <2>4. CASE PostPersist(j) \/ PostStored(j) \/ PostPersistFails(j) \/ PostLookup(j)
    BY <1>c, <2>4 DEF PostPersist, PostStored, PostPersistFails, PostLookup
  <2>5. CASE PostCleared(j) \/ PostAdmitted(j) \/ PostAborts(j) \/ PostDrop(j)
    BY <1>c, <2>5 DEF PostCleared, PostAdmitted, PostAborts, PostDrop
  <2> QED
    BY <1>1, <2>1, <2>2, <2>3, <2>4, <2>5 DEF Post
<1>2. ASSUME NEW j \in Jobs, Delete(j) \/ Elsewhere(j) PROVE Fine
  <2>1. CASE CancelQueued(j)
    BY <1>a, <2>1, StoreCalls DEF RecordMoves
  <2>2. CASE RemoteLoses(j)
    <3>1. \/ status[j] = "queued"
          \/ Shared /\ status[j] = "running" /\ j \in blind'
      BY <2>2 DEF RemoteLoses, PartsFromItsRun, ActiveStatuses
    <3> QED
      BY <1>a, <2>2, <3>1, RemoteLosesMoves DEF RecordMoves
  <2>3. CASE RemoteForgets(j)
    <3>1. /\ StoreInv' /\ status'[j] = "gone" /\ \A k \in Jobs \ {j} : Keeps(k)
      BY <1>a, <2>3, StoreCalls DEF RemoteForgets
    <3>2. \/ status[j] \in FinishedStatuses \cup {"queued"}
          \/ Shared /\ status[j] = "running" /\ j \in blind'
      BY <1>a, <2>3 DEF RemoteForgets, PartsFromItsRun, StoreInv, StoreTypeOK, Statuses,
                        FinishedStatuses, ActiveStatuses
    <3> QED
      BY <3>1, <3>2 DEF RecordMoves, Keeps
  <2>4. CASE LateOutcome(j)
    <3>1. Shared /\ j \in late \ late' /\ Outcome(j)
      BY <2>4 DEF LateOutcome
    <3> QED
      BY <1>a, <3>1, OutcomeMoves DEF RecordMoves
  <2> QED
    BY <1>2, <1>d, <2>1, <2>2, <2>3, <2>4 DEF Delete, Elsewhere, RemoteCancel
<1>3. ASSUME NEW j \in Jobs, DeleteRelease(j) \/ DeleteDrop(j) \/ Task(j) PROVE Fine
  BY <1>3, <1>c DEF DeleteRelease, DeleteDrop, Task, Consume, TaskEnds, TaskRemoves
<1>4. ASSUME NEW j \in Jobs, TimePasses(j) PROVE Fine
  BY <1>4, <1>a, StoreCalls DEF TimePasses, RecordMoves
<1>5. ASSUME NEW w \in Workers, WorkerRuns(w) \/ CancellationConsumed(w) PROVE Fine
  <2>1. CASE Claim(w)
    <3>1. held[w] \in Jobs
      BY <1>b, <2>1 DEF Claim, WorkerAt, DispatchInv, HoldsByState, Holding
    <3>2. CASE SetRunning(held[w])
      BY <1>a, <3>1, <3>2, StoreCalls DEF RecordMoves
    <3> QED
      BY <1>c, <2>1, <3>2 DEF Claim
  <2>2. CASE Record(w)
    <3>1. held[w] \in Jobs /\ pc[w] = "finishing" /\ pc'[w] = "recorded"
      BY <1>b, <2>2 DEF Record, WorkerAt, WorkerGoes, DispatchInv, HoldsByState, Holding, TypeOK
    <3>2. CASE Outcome(held[w])
      BY <1>a, <3>1, <3>2, OutcomeMoves DEF RecordMoves
    <3> QED
      BY <1>c, <2>2, <3>2 DEF Record
  <2>3. CASE Sleep(w) \/ Take(w) \/ Skip(w) \/ Dispatch(w)
    BY <1>c, <2>3 DEF Sleep, Take, Skip, Dispatch
  <2>4. CASE Receive(w) \/ Release(w) \/ WorkerCancelled(w) \/ CancellationConsumed(w)
    BY <1>c, <2>4 DEF Receive, Release, WorkerCancelled, CancellationConsumed
  <2> QED
    BY <1>5, <2>1, <2>2, <2>3, <2>4 DEF WorkerRuns
<1>6. ASSUME NEW j \in Jobs, CloseRecords(j) PROVE Fine
  <2>1. SetFailed(j, Required(j)) /\ closer = "recording"
    BY <1>6 DEF CloseRecords
  <2>2. Required(j) \subseteq ActiveStatuses
    BY DEF Required, ActiveStatuses
  <2> QED
    BY <1>a, <2>1, <2>2, StoreCalls DEF RecordMoves
<1>7. ASSUME NEW j \in Jobs, CloseDiscards(j) PROVE Fine
  BY <1>7, <1>c DEF CloseDiscards
<1>8. ASSUME \/ CloseBegins \/ CloseDrains \/ CloseRecorded \/ CloseEnds \/ UploadsClose
             \/ CloseGivesUp \/ Down
      PROVE  Fine
  BY <1>8, <1>c DEF CloseBegins, CloseDrains, CloseRecorded, CloseEnds, UploadsClose,
                    CloseGivesUp, Down, vars
<1>9. CASE UNCHANGED vars
  BY <1>9, <1>c DEF vars
<1> QED
  BY <1>1, <1>2, <1>3, <1>4, <1>5, <1>6, <1>7, <1>8, <1>9 DEF Next, CloseRuns

-----------------------------------------------------------------------------
(* Typing.                                                                  *)

\* Changing a function at one argument keeps its type.
LEMMA ExceptTyped ==
  ASSUME NEW D, NEW R, NEW f \in [D -> R], NEW i, NEW e \in R
  PROVE  [f EXCEPT ![i] = e] \in [D -> R]
  OBVIOUS

\* What submit does to the types, whether it queues the job, is refused, or starts
\* to look at a full queue.
LEMMA AdmitTypes ==
  ASSUME TypeOK, NEW j \in Jobs, Admit(j) \/ Enqueue(j)
  PROVE  /\ post' \in [Jobs -> PostStates] /\ todo' \in [Jobs -> Seq(Jobs)]
         /\ waiting' \in Seq(Jobs) /\ pc' \in [Workers -> WorkerStates]
         /\ UNCHANGED <<held, killed, blind, late>>
         /\ byPrint' \in [Fingerprints -> Jobs \cup {NoJob}] /\ printed' \subseteq Jobs
<1>1. CASE Enqueue(j)
  <2>1. todo' = todo /\ (waiting' = Append(waiting, j) \/ waiting' = waiting)
    BY <1>1 DEF Enqueue
  <2>2. waiting' \in Seq(Jobs) /\ todo' \in [Jobs -> Seq(Jobs)]
    BY <2>1, AppendToQueue DEF TypeOK
  <2>3. post \in [Jobs -> PostStates] /\ pc \in [Workers -> WorkerStates]
    BY DEF TypeOK
  <2>4. post' \in [Jobs -> PostStates] /\ pc' \in [Workers -> WorkerStates]
    BY <1>1, <2>3 DEF Enqueue, WakeWorkers, PostStates, WorkerStates, workerVars
  <2>5. UNCHANGED <<held, killed, blind, late>>
    BY <1>1 DEF Enqueue, workerVars
  <2>6. \/ byPrint' = [byPrint EXCEPT ![FingerprintOf[j]] = j] /\ printed' = printed \cup {j}
        \/ byPrint' = byPrint /\ printed' = printed
    BY <1>1 DEF Enqueue, printVars
  <2>7. byPrint \in [Fingerprints -> Jobs \cup {NoJob}] /\ printed \subseteq Jobs
    BY DEF TypeOK
  <2>8. byPrint' \in [Fingerprints -> Jobs \cup {NoJob}]
    BY <2>6, <2>7, ExceptTyped
  <2>9. printed' \subseteq Jobs
    BY <2>6, <2>7
  <2> QED
    BY <2>2, <2>4, <2>5, <2>8, <2>9
<1>2. CASE ~Enqueue(j)
  <2>1. post' = [post EXCEPT ![j] = "admitting"] /\ todo' = [todo EXCEPT ![j] = waiting]
        /\ UNCHANGED <<waiting, workerVars, printVars>>
    BY <1>2 DEF Admit
  <2>2. todo' \in [Jobs -> Seq(Jobs)] /\ post' \in [Jobs -> PostStates]
    BY <2>1, ExceptTyped DEF TypeOK, PostStates
  <2> QED
    BY <2>1, <2>2 DEF TypeOK, workerVars, printVars
<1> QED
  BY <1>1, <1>2

LEMMA TypeInductive ==
  ASSUME DispatchInv, [Next]_vars
  PROVE  TypeOK'
<1>a. StoreTypeOK'
  BY RecordSteps DEF StoreInv
<1>b. TypeOK
  BY DEF DispatchInv
<1> USE <1>a, <1>b DEF postVars, workerVars, printVars, diskVars, taskVars, closeVars
<1>1. ASSUME NEW j \in Jobs, Post(j) PROVE TypeOK'
  <2> USE DEF PostStates
  <2>1. CASE PostCreate(j) \/ PostPersist(j) \/ PostStored(j)
    BY <2>1 DEF PostCreate, PostPersist, PostStored, TypeOK
  <2>2. CASE PostPersistFails(j) \/ PostDrop(j) \/ PostDiscard(j)
    BY <2>2 DEF PostPersistFails, PostDrop, PostDiscard, RemoveUpload, Unlinks, UnlinkFails,
                TypeOK
  <2>3. CASE PostLookup(j)
    <3>1. CASE Admit(j)
      BY <2>3, <3>1, AdmitTypes, DispatchAssumption DEF PostLookup, TypeOK
    <3>2. CASE ~Admit(j)
      <4>1. /\ seen' = [seen EXCEPT ![j] = byPrint[FingerprintOf[j]]]
            /\ byPrint[FingerprintOf[j]] \in Jobs \cup {NoJob}
            /\ post' = [post EXCEPT ![j] = "checking"]
            /\ UNCHANGED <<todo, waiting, workerVars, printVars, storeVars, del, diskVars,
                           taskVars, closeVars>>
        BY <2>3, <3>2, DispatchAssumption DEF PostLookup, TypeOK
      <4>2. /\ seen' \in [Jobs -> Jobs \cup {NoJob}] /\ post' \in [Jobs -> PostStates]
        BY <4>1, ExceptTyped DEF TypeOK
      <4> QED
        BY <4>1, <4>2 DEF TypeOK
    <3> QED
      BY <3>1, <3>2
  <2>4. CASE PostDecide(j)
    <3>1. CASE Admit(j)
      BY <2>4, <3>1, AdmitTypes DEF PostDecide, TypeOK
    <3>2. CASE ~Admit(j)
      BY <2>4, <3>2 DEF PostDecide, TypeOK
    <3> QED
      BY <3>1, <3>2
  <2>5. CASE PostLookAt(j)
    <3>1. Tail(todo[j]) \in Seq(Jobs) /\ Head(todo[j]) \in Jobs /\ <<>> \in Seq(Jobs)
      BY <2>5, HeadTailProperties DEF PostLookAt, TypeOK
    <3>2. CASE waiting' = Without(Head(todo[j])) /\ Forget(Head(todo[j]))
      <4>1. waiting' \in Seq(Jobs)
        BY <3>1, <3>2, WithoutProperties DEF DispatchInv, HeldOnce, NoRepeats, TypeOK
      <4>2. byPrint' \in [Fingerprints -> Jobs \cup {NoJob}] /\ printed' \subseteq Jobs
        BY <3>1, <3>2 DEF Forget, TypeOK
      <4>3. /\ [todo EXCEPT ![j] = Tail(todo[j])] \in [Jobs -> Seq(Jobs)]
            /\ [todo EXCEPT ![j] = <<>>] \in [Jobs -> Seq(Jobs)]
            /\ [post EXCEPT ![j] = "clearing"] \in [Jobs -> PostStates]
        BY <3>1, ExceptTyped DEF TypeOK
      <4>4. post' \in [Jobs -> PostStates] /\ todo' \in [Jobs -> Seq(Jobs)]
        BY <2>5, <4>3 DEF PostLookAt, TypeOK
      <4> QED
        BY <2>5, <4>1, <4>2, <4>4 DEF PostLookAt, TypeOK
    <3>3. CASE ~(waiting' = Without(Head(todo[j])) /\ Forget(Head(todo[j])))
      <4>1. /\ todo' = [todo EXCEPT ![j] = Tail(todo[j])] \/ todo' = [todo EXCEPT ![j] = <<>>]
            /\ UNCHANGED <<post, waiting, printVars, seen, del, workerVars, diskVars, taskVars,
                           closeVars>>
        BY <2>5, <3>3 DEF PostLookAt
      <4>2. todo' \in [Jobs -> Seq(Jobs)]
        BY <3>1, <4>1, ExceptTyped DEF TypeOK
      <4> QED
        BY <4>1, <4>2 DEF TypeOK
    <3> QED
      BY <3>2, <3>3
  <2>6. CASE PostCleared(j)
    <3>1. Tail(todo[j]) \in Seq(Jobs) /\ Head(todo[j]) \in Jobs /\ <<>> \in Seq(Jobs)
      BY <2>6, HeadTailProperties DEF PostCleared, DispatchInv, ClearingHasHead, TypeOK
    <3>2. todo' \in [Jobs -> Seq(Jobs)]
      BY <2>6, <3>1, ExceptTyped DEF PostCleared, TypeOK
    <3>3. post' \in [Jobs -> PostStates] /\ file' \subseteq Jobs /\ leased' \subseteq Jobs
      BY <2>6 DEF PostCleared, Unlinks, UnlinkFails, TypeOK
    <3> QED
      BY <2>6, <3>2, <3>3 DEF PostCleared, TypeOK
  <2>7. CASE PostAdmitted(j)
    <3>1. UNCHANGED todo
      BY <2>7 DEF PostAdmitted, Enqueue
    <3> QED
      BY <2>7, <3>1, AdmitTypes DEF PostAdmitted, TypeOK
  <2>8. CASE PostAborts(j)
    <3>1. <<>> \in Seq(Jobs)
      OBVIOUS
    <3> QED
      BY <2>8, <3>1 DEF PostAborts, RemoveUpload, Unlinks, UnlinkFails, TypeOK
  <2> QED
    BY <1>1, <2>1, <2>2, <2>3, <2>4, <2>5, <2>6, <2>7, <2>8 DEF Post
<1>2. ASSUME NEW j \in Jobs, Delete(j) \/ DeleteDrop(j) PROVE TypeOK'
  BY <1>2 DEF Delete, DeleteDrop, RemoveUpload, Unlinks, UnlinkFails, TypeOK
<1>11. ASSUME NEW j \in Jobs, Elsewhere(j) PROVE TypeOK'
  BY <1>11, ElsewhereKeeps DEF TypeOK
<1>3. ASSUME NEW j \in Jobs, DeleteRelease(j) PROVE TypeOK'
  <2>1. Without(j) \in Seq(Jobs)
    BY WithoutProperties DEF DispatchInv, HeldOnce, NoRepeats, TypeOK
  <2> QED
    BY <1>3, <2>1 DEF DeleteRelease, Forget, TypeOK
<1>4. ASSUME NEW j \in Jobs, Task(j) \/ TimePasses(j) PROVE TypeOK'
  <2>1. CASE Consume(j)
    BY <2>1 DEF Consume, TypeOK, TaskStates
  <2>2. CASE TaskEnds(j)
    BY <2>2 DEF TaskEnds, TypeOK, TaskStates, Verdicts
  <2>3. CASE TaskRemoves(j)
    BY <2>3 DEF TaskRemoves, Unlinks, UnlinkFails, TypeOK, TaskStates, Verdicts
  <2>4. CASE TimePasses(j)
    BY <2>4 DEF TimePasses, TypeOK
  <2> QED
    BY <1>4, <2>1, <2>2, <2>3, <2>4 DEF Task
<1>5. ASSUME NEW w \in Workers, WorkerRuns(w) \/ CancellationConsumed(w) PROVE TypeOK'
  <2> USE DEF WorkerGoes, WorkerStates
  <2>1. CASE Take(w)
    <3>1. Tail(waiting) \in Seq(Jobs) /\ Head(waiting) \in Jobs
      BY <2>1, HeadTailProperties DEF Take, TypeOK
    <3> QED
      BY <2>1, <3>1 DEF Take, Popped, TypeOK
  <2>2. CASE Claim(w)
    <3>1. held[w] \in Jobs
      BY <2>2 DEF Claim, WorkerAt, DispatchInv, HoldsByState, Holding, TypeOK
    <3> QED
      BY <2>2, <3>1 DEF Claim, TypeOK
  <2>3. CASE Skip(w) \/ Sleep(w) \/ Receive(w)
    BY <2>3 DEF Skip, Sleep, Receive, RemoveUpload, Unlinks, UnlinkFails, TypeOK
  <2>7. CASE Record(w)
    <3>1. held[w] \in Jobs
      BY <2>7 DEF Record, WorkerAt, DispatchInv, HoldsByState, Holding, TypeOK
    <3> QED
      BY <2>7, <3>1 DEF Record, GivesUp, TypeOK
  <2>4. CASE Dispatch(w)
    BY <2>4 DEF Dispatch, TypeOK, TaskStates
  <2>5. CASE Release(w)
    BY <2>5 DEF Release, HoldNothing, AfterTurn, Forget, TypeOK
  <2>6. CASE CancellationConsumed(w)
    BY <2>6 DEF CancellationConsumed, TypeOK
  <2>8. CASE WorkerCancelled(w)
    <3>1. pc[w] = "finishing" => held[w] \in Jobs
      BY DEF DispatchInv, HoldsByState, Holding, TypeOK
    <3>2. blind' \subseteq Jobs /\ late' \subseteq Jobs
      BY <2>8, <3>1 DEF WorkerCancelled, GivesUp, TypeOK
    <3>3. file' \subseteq Jobs /\ leased' \subseteq Jobs
      BY <2>8 DEF WorkerCancelled, RemoveUpload, Unlinks, UnlinkFails, TypeOK
    <3>4. pc' \in [Workers -> WorkerStates] /\ killed' \subseteq Workers
      BY <2>8 DEF WorkerCancelled, TypeOK
    <3> QED
      BY <2>8, <3>2, <3>3, <3>4 DEF WorkerCancelled, TypeOK
  <2> QED
    BY <1>5, <2>1, <2>2, <2>3, <2>4, <2>5, <2>6, <2>7, <2>8 DEF WorkerRuns
<1>6. ASSUME CloseDrains PROVE TypeOK'
  BY <1>6 DEF CloseDrains, TypeOK, CloserStates
<1>7. ASSUME NEW j \in Jobs, CloseRecords(j) \/ CloseDiscards(j) PROVE TypeOK'
  BY <1>7 DEF CloseRecords, CloseDiscards, Unlinks, UnlinkFails, TypeOK
<1>8. ASSUME CloseBegins \/ CloseRecorded \/ CloseEnds \/ CloseGivesUp PROVE TypeOK'
  BY <1>8 DEF CloseBegins, CloseRecorded, CloseEnds, CloseGivesUp, TypeOK, CloserStates
<1>9. ASSUME UploadsClose PROVE TypeOK'
  BY <1>9 DEF UploadsClose, TypeOK, CloserStates
<1>10. CASE Down \/ UNCHANGED vars
  BY <1>10 DEF Down, vars, TypeOK
<1> QED
  BY <1>1, <1>2, <1>3, <1>4, <1>5, <1>6, <1>7, <1>8, <1>9, <1>10, <1>11 DEF Next, CloseRuns

-----------------------------------------------------------------------------
(* What a step may do to the queue, to what the workers hold and to the     *)
(* fingerprint index.                                                       *)

Joins(j) ==
    /\ post[j] # "accepted" /\ post'[j] = "accepted" /\ ~Closed
    /\ waiting' = Append(waiting, j) /\ held' = held
    /\ \/ UNCHANGED printVars
       \/ /\ byPrint' = [byPrint EXCEPT ![FingerprintOf[j]] = j]
          /\ printed' = printed \cup {j}

Leaves(j) == waiting' = Without(j) /\ held' = held /\ Forget(j)

LetsGo(w) == held[w] \in Jobs /\ HoldNothing(w) /\ waiting' = waiting /\ Forget(held[w])

DispatcherMoves ==
    \/ UNCHANGED <<waiting, held, printVars>>
    \/ \E j \in Jobs : Joins(j) \/ Leaves(j)
    \/ \E w \in Workers : Take(w) \/ LetsGo(w)
    \/ CloseDrains

AcceptedStay == \A j \in Jobs : post[j] = "accepted" => post'[j] = "accepted"

LEMMA DispatcherSteps ==
  ASSUME DispatchInv, [Next]_vars
  PROVE  DispatcherMoves /\ AcceptedStay
<1>a. post \in [Jobs -> PostStates]
  BY DEF DispatchInv, TypeOK
<1> USE DEF postVars, workerVars, printVars
<1>b. ASSUME UNCHANGED <<waiting, held, printVars>>, UNCHANGED post
      PROVE  DispatcherMoves /\ AcceptedStay
  BY <1>b DEF DispatcherMoves, AcceptedStay
<1>1. ASSUME NEW j \in Jobs, Post(j) PROVE DispatcherMoves /\ AcceptedStay
  <2>1. ASSUME post[j] # "accepted", Enqueue(j) PROVE DispatcherMoves /\ AcceptedStay
    BY <1>a, <2>1 DEF Enqueue, DispatcherMoves, Joins, AcceptedStay
  <2>2. ASSUME post[j] # "accepted", Admit(j) PROVE DispatcherMoves /\ AcceptedStay
    BY <1>a, <2>1, <2>2 DEF Admit, DispatcherMoves, AcceptedStay
  <2>3. CASE PostCreate(j) \/ PostPersist(j) \/ PostStored(j) \/ PostPersistFails(j)
    BY <1>a, <2>3 DEF PostCreate, PostPersist, PostStored, PostPersistFails, DispatcherMoves,
                      AcceptedStay
  <2>4. CASE PostLookup(j) \/ PostDecide(j) \/ PostAdmitted(j)
    BY <1>a, <2>1, <2>2, <2>4 DEF PostLookup, PostDecide, PostAdmitted, DispatcherMoves,
                                  AcceptedStay
  <2>5. CASE PostLookAt(j)
    <3>1. Head(todo[j]) \in Jobs
      BY <2>5, HeadTailProperties DEF PostLookAt, DispatchInv, TypeOK
    <3> QED
      BY <1>a, <2>5, <3>1 DEF PostLookAt, DispatcherMoves, Leaves, AcceptedStay
  <2>6. CASE PostCleared(j) \/ PostAborts(j) \/ PostDrop(j) \/ PostDiscard(j)
    BY <1>a, <2>6 DEF PostCleared, PostAborts, PostDrop, PostDiscard, DispatcherMoves, AcceptedStay
  <2> QED
    BY <1>1, <2>3, <2>4, <2>5, <2>6 DEF Post
<1>2. ASSUME NEW j \in Jobs, DeleteRelease(j) PROVE DispatcherMoves /\ AcceptedStay
  BY <1>2 DEF DeleteRelease, DispatcherMoves, Leaves, AcceptedStay
<1>3. ASSUME NEW j \in Jobs,
             Delete(j) \/ DeleteDrop(j) \/ Elsewhere(j) \/ Task(j) \/ TimePasses(j)
      PROVE  DispatcherMoves /\ AcceptedStay
  BY <1>3, <1>b, ElsewhereKeeps DEF Delete, DeleteDrop, Task, Consume, TaskEnds, TaskRemoves,
                                    TimePasses
<1>4. ASSUME NEW w \in Workers, Take(w) PROVE DispatcherMoves /\ AcceptedStay
  BY <1>4 DEF Take, DispatcherMoves, AcceptedStay
<1>5. ASSUME NEW w \in Workers, Release(w) PROVE DispatcherMoves /\ AcceptedStay
  BY <1>5 DEF Release, WorkerAt, DispatchInv, HoldsByState, Holding, TypeOK, DispatcherMoves,
              LetsGo, AcceptedStay
<1>6. ASSUME NEW w \in Workers,
             \/ Sleep(w) \/ Claim(w) \/ Skip(w) \/ Dispatch(w) \/ Receive(w) \/ Record(w)
             \/ WorkerCancelled(w) \/ CancellationConsumed(w)
      PROVE  DispatcherMoves /\ AcceptedStay
  BY <1>6, <1>b DEF Sleep, Claim, Skip, Dispatch, Receive, Record, WorkerCancelled,
                    CancellationConsumed
<1>7. CASE CloseDrains
  BY <1>7 DEF CloseDrains, DispatcherMoves, AcceptedStay
<1>8. ASSUME NEW j \in Jobs, CloseRecords(j) \/ CloseDiscards(j)
      PROVE  DispatcherMoves /\ AcceptedStay
  BY <1>8, <1>b DEF CloseRecords, CloseDiscards
<1>9. CASE CloseBegins \/ CloseRecorded \/ CloseEnds \/ UploadsClose \/ CloseGivesUp
  BY <1>9, <1>b DEF CloseBegins, CloseRecorded, CloseEnds, UploadsClose, CloseGivesUp
<1>10. CASE Down \/ UNCHANGED vars
  BY <1>10, <1>b DEF Down, vars
<1> QED
  BY <1>1, <1>2, <1>3, <1>4, <1>5, <1>6, <1>7, <1>8, <1>9, <1>10 DEF Next, CloseRuns, WorkerRuns

\* Where a job is after such a step: only Joins brings one in, only Leaves, LetsGo
\* and the shutdown take one out.
LEMMA DispatcherHolds ==
  ASSUME DispatchInv, [Next]_vars
  PROVE  HeldOnce' /\ HeldAreAccepted' /\ FingerprintsAreHeld'
<1> DEFINE Fine == HeldOnce' /\ HeldAreAccepted' /\ FingerprintsAreHeld'
<1> SUFFICES Fine
  OBVIOUS
<1>a. /\ waiting \in Seq(Jobs) /\ held \in [Workers -> Jobs \cup {NoJob}]
      /\ byPrint \in [Fingerprints -> Jobs \cup {NoJob}] /\ printed \subseteq Jobs
  BY DEF DispatchInv, TypeOK
<1>b. /\ NoRepeats(waiting)
      /\ \A j \in Jobs : ~(InQueue(waiting, j) /\ IsHeld(j))
      /\ \A v, w \in Workers : held[v] = held[w] /\ held[v] # NoJob => v = w
      /\ \A j \in Jobs : InQueue(waiting, j) \/ IsHeld(j) => post[j] = "accepted"
      /\ \A f \in Fingerprints : byPrint[f] # NoJob =>
            /\ InQueue(waiting, byPrint[f]) \/ IsHeld(byPrint[f])
            /\ FingerprintOf[byPrint[f]] = f /\ byPrint[f] \in printed
  BY DEF DispatchInv, HeldOnce, HeldAreAccepted, FingerprintsAreHeld, InDispatcher, IsWaiting,
         InQueue, NoRepeats
<1>c. DispatcherMoves /\ AcceptedStay
  BY DispatcherSteps
<1>d. ASSUME /\ NoRepeats(waiting')
             /\ \A j \in Jobs : ~(InQueue(waiting', j) /\ IsHeld(j)')
             /\ \A v, w \in Workers : held'[v] = held'[w] /\ held'[v] # NoJob => v = w
             /\ \A j \in Jobs : InQueue(waiting', j) \/ IsHeld(j)' => post'[j] = "accepted"
             /\ \A f \in Fingerprints : byPrint'[f] # NoJob =>
                   /\ InQueue(waiting', byPrint'[f]) \/ \E w \in Workers : held'[w] = byPrint'[f]
                   /\ FingerprintOf[byPrint'[f]] = f /\ byPrint'[f] \in printed'
      PROVE  Fine
  BY <1>d DEF HeldOnce, HeldAreAccepted, FingerprintsAreHeld, InDispatcher, IsWaiting, IsHeld,
              InQueue, NoRepeats
<1> HIDE DEF Fine
<1> USE DEF IsHeld, AcceptedStay
<1>1. CASE UNCHANGED <<waiting, held, printVars>>
  <2>1. waiting' = waiting /\ held' = held /\ byPrint' = byPrint /\ printed' = printed
    BY <1>1 DEF printVars
  <2>2. \A j \in Jobs : InQueue(waiting, j) \/ IsHeld(j) => post'[j] = "accepted"
    BY <1>b, <1>c
  <2>3. \A k : IsHeld(k)' <=> IsHeld(k)
    BY <2>1
  <2>4. \A f \in Fingerprints : byPrint'[f] # NoJob =>
           InQueue(waiting', byPrint'[f]) \/ \E w \in Workers : held'[w] = byPrint'[f]
    BY <1>b, <2>1
  <2> QED
    BY <1>b, <1>d, <2>1, <2>2, <2>3, <2>4
<1>2. ASSUME NEW j \in Jobs, Joins(j) PROVE Fine
  <2>1. /\ waiting' = Append(waiting, j) /\ held' = held
        /\ post[j] # "accepted" /\ post'[j] = "accepted"
    BY <1>2 DEF Joins
  <2>2. ~InQueue(waiting, j) /\ ~IsHeld(j)
    BY <1>b, <2>1
  <2>3. NoRepeats(waiting') /\ \A k : InQueue(waiting', k) <=> InQueue(waiting, k) \/ k = j
    BY <1>a, <1>b, <2>1, <2>2, AppendToQueue
  <2>4. \A f \in Fingerprints : \/ byPrint'[f] = byPrint[f]
                                \/ byPrint'[f] = j /\ f = FingerprintOf[j] /\ j \in printed'
    BY <1>a, <1>2 DEF Joins, printVars
  <2>5. printed \subseteq printed'
    BY <1>2 DEF Joins, printVars
  <2> QED
    BY <1>b, <1>c, <1>d, <2>1, <2>2, <2>3, <2>4, <2>5
<1>3. ASSUME NEW j \in Jobs, Forget(j)
      PROVE  \A f \in Fingerprints : byPrint'[f] # NoJob =>
                /\ byPrint'[f] = byPrint[f] /\ byPrint[f] # j
                /\ FingerprintOf[byPrint'[f]] = f /\ byPrint'[f] \in printed'
  BY <1>3, <1>a, <1>b DEF Forget
<1>4. ASSUME NEW j \in Jobs, Leaves(j) PROVE Fine
  <2>1. waiting' = Without(j) /\ held' = held /\ Forget(j)
    BY <1>4 DEF Leaves
  <2>2. NoRepeats(waiting') /\ \A k : InQueue(waiting', k) <=> InQueue(waiting, k) /\ k # j
    BY <1>a, <1>b, <2>1, WithoutProperties
  <2>3. \A f \in Fingerprints : byPrint'[f] # NoJob =>
           InQueue(waiting', byPrint'[f]) \/ IsHeld(byPrint'[f])
    BY <1>3, <1>b, <2>1, <2>2
  <2> QED
    BY <1>3, <1>b, <1>c, <1>d, <2>1, <2>2, <2>3
<1>5. ASSUME NEW w \in Workers, Take(w) PROVE Fine
  <2>1. /\ waiting # <<>> /\ waiting' = Tail(waiting) /\ UNCHANGED <<printVars, post>>
        /\ held' = [held EXCEPT ![w] = Head(waiting)] /\ pc[w] = "ready"
    BY <1>5 DEF Take, Popped, WorkerAt, postVars
  <2>2. /\ Head(waiting) \in Jobs /\ InQueue(waiting, Head(waiting))
        /\ NoRepeats(waiting') /\ ~InQueue(waiting', Head(waiting))
        /\ \A k : InQueue(waiting, k) <=> InQueue(waiting', k) \/ k = Head(waiting)
    BY <1>a, <1>b, <2>1, TailOfQueue
  <2>3. held[w] = NoJob
    BY <2>1 DEF DispatchInv, HoldsByState
  <2>4. \A v \in Workers : held'[v] = IF v = w THEN Head(waiting) ELSE held[v]
    BY <1>a, <2>1
  <2>5. \A f \in Fingerprints : byPrint'[f] = byPrint[f] /\ printed' = printed
    BY <2>1 DEF printVars
  <2>6. \A k \in Jobs : InQueue(waiting', k) => k # Head(waiting) /\ ~IsHeld(k)
    BY <1>b, <2>2
  <2>7. \A k \in Jobs : InQueue(waiting', k) \/ IsHeld(k)' => InQueue(waiting, k) \/ IsHeld(k)
    BY <2>2, <2>4
  <2>8. \A k : (InQueue(waiting, k) \/ IsHeld(k)) /\ k # NoJob
               => InQueue(waiting', k) \/ \E v \in Workers : held'[v] = k
    BY <2>2, <2>3, <2>4
  <2>9. \A u, v \in Workers : held'[u] = held'[v] /\ held'[u] # NoJob => u = v
    BY <1>b, <2>2, <2>4
  <2>10. \A k \in Jobs : ~(InQueue(waiting', k) /\ IsHeld(k)')
    BY <2>4, <2>6
  <2> QED
    BY <1>b, <1>c, <1>d, <2>2, <2>5, <2>7, <2>8, <2>9, <2>10
<1>6. ASSUME NEW w \in Workers, LetsGo(w) PROVE Fine
  <2>1. held[w] \in Jobs /\ waiting' = waiting /\ Forget(held[w])
    BY <1>6 DEF LetsGo
  <2>2. \A v \in Workers : held'[v] = IF v = w THEN NoJob ELSE held[v]
    BY <1>6, <1>a DEF LetsGo, HoldNothing
  <2>3. \A k \in Jobs : IsHeld(k)' <=> IsHeld(k) /\ k # held[w]
    BY <1>b, <2>1, <2>2, DispatchAssumption
  <2>4. \A f \in Fingerprints : byPrint'[f] # NoJob =>
           InQueue(waiting', byPrint'[f]) \/ \E v \in Workers : held'[v] = byPrint'[f]
    BY <1>3, <1>b, <2>1, <2>2
  <2>5. \A u, v \in Workers : held'[u] = held'[v] /\ held'[u] # NoJob => u = v
    BY <1>b, <2>2
  <2> QED
    BY <1>3, <1>b, <1>c, <1>d, <2>1, <2>3, <2>4, <2>5
<1>7. CASE CloseDrains
  <2>1. waiting' = <<>> /\ \A w \in Workers : held'[w] = NoJob
    BY <1>7 DEF CloseDrains
  <2>2. \A k : ~InQueue(waiting', k)
    BY <2>1 DEF InQueue
  <2>3. \A f \in Fingerprints : byPrint'[f] = NoJob
    BY <1>7, <1>a, <1>b DEF CloseDrains, IsWaiting, InQueue
  <2>4. \A k \in Jobs : ~IsHeld(k)'
    BY <2>1, DispatchAssumption
  <2>5. NoRepeats(waiting')
    BY <2>1 DEF NoRepeats
  <2>6. \A u, v \in Workers : held'[u] = held'[v] /\ held'[u] # NoJob => u = v
    BY <2>1
  <2> QED
    BY <1>d, <2>2, <2>3, <2>4, <2>5, <2>6
<1> QED
  BY <1>1, <1>2, <1>4, <1>5, <1>6, <1>7, <1>c DEF DispatcherMoves

-----------------------------------------------------------------------------
(* What a step may do to a worker, to an inference task and to a POST.      *)

\* A worker's loop, its cancellation and the shutdown that empties its hands.
WorkerMoves(w) ==
    \/ pc'[w] = pc[w] /\ held'[w] = held[w]
    \/ /\ pc[w] \in {"ready", "blocked"} /\ pc'[w] \in {"ready", "blocked"}
       /\ held'[w] = held[w]
    \/ pc[w] = "ready" /\ pc'[w] = "taken" /\ held'[w] \in Jobs
    \/ /\ pc[w] = "taken" /\ pc'[w] = "claimed" /\ held'[w] = held[w]
       /\ status'[held[w]] = "running" \/ held[w] \in blind'
    \/ /\ <<pc[w], pc'[w]>> \in {<<"taken", "skipping">>, <<"claimed", "awaiting">>,
                                 <<"awaiting", "finishing">>, <<"finishing", "recorded">>,
                                 <<"skipping", "recorded">>}
       /\ held'[w] = held[w]
    \/ pc[w] = "recorded" /\ pc'[w] \in {"ready", "stopped"} /\ held'[w] = NoJob
    \/ pc'[w] \in {"cancelled", "stopped"} /\ held'[w] \in {held[w], NoJob}

\* Only a worker starts an inference, only the shutdown drains the dispatcher, and
\* a job whose run and record have parted is remembered.
ReplicaMoves ==
    /\ \A w \in Workers : WorkerMoves(w)
    /\ blind \subseteq blind' /\ late' \subseteq late \cup blind'
    /\ Drained' => Drained \/ CloseDrains
    /\ \A j \in Jobs : task'[j] = "dispatched" /\ task[j] # "dispatched" =>
          \E w \in Workers : held[w] = j /\ pc[w] = "claimed"

LEMMA ReplicaSteps ==
  ASSUME DispatchInv, [Next]_vars
  PROVE  ReplicaMoves
<1>a. /\ pc \in [Workers -> WorkerStates] /\ held \in [Workers -> Jobs \cup {NoJob}]
      /\ task \in [Jobs -> TaskStates] /\ status \in [Jobs -> Statuses]
  BY DEF DispatchInv, TypeOK, StoreTypeOK
<1> USE DEF postVars, workerVars, taskVars, closeVars, Drained
<1>b. ASSUME UNCHANGED <<workerVars, task>>, closer' = closer \/ CloseBegins \/ Drained
      PROVE  ReplicaMoves
  BY <1>b DEF ReplicaMoves, WorkerMoves, CloseBegins
<1>1. ASSUME NEW j \in Jobs, Post(j) PROVE ReplicaMoves
  <2>1. ASSUME Enqueue(j), UNCHANGED <<task, closer>> PROVE ReplicaMoves
    BY <1>a, <2>1 DEF Enqueue, WakeWorkers, ReplicaMoves, WorkerMoves
  <2>2. ASSUME Admit(j), UNCHANGED <<task, closer>> PROVE ReplicaMoves
    BY <1>b, <2>1, <2>2 DEF Admit
  <2>3. CASE PostLookup(j) \/ PostDecide(j) \/ PostAdmitted(j)
    BY <1>b, <2>1, <2>2, <2>3 DEF PostLookup, PostDecide, PostAdmitted
  <2>4. CASE PostCreate(j) \/ PostPersist(j) \/ PostStored(j) \/ PostPersistFails(j)
    BY <1>b, <2>4 DEF PostCreate, PostPersist, PostStored, PostPersistFails
  <2>5. CASE PostLookAt(j) \/ PostCleared(j) \/ PostAborts(j) \/ PostDrop(j) \/ PostDiscard(j)
    BY <1>b, <2>5 DEF PostLookAt, PostCleared, PostAborts, PostDrop, PostDiscard
  <2> QED
    BY <1>1, <2>3, <2>4, <2>5 DEF Post
<1>2. ASSUME NEW j \in Jobs,
             Delete(j) \/ DeleteRelease(j) \/ DeleteDrop(j) \/ TimePasses(j)
      PROVE  ReplicaMoves
  BY <1>2, <1>b DEF Delete, DeleteRelease, DeleteDrop, TimePasses
<1>10. ASSUME NEW j \in Jobs, Elsewhere(j) PROVE ReplicaMoves
  BY <1>10, ElsewhereKeeps DEF ReplicaMoves, WorkerMoves
<1>3. ASSUME NEW j \in Jobs, Task(j) PROVE ReplicaMoves
  BY <1>3, <1>a DEF Task, Consume, TaskEnds, TaskRemoves, ReplicaMoves, WorkerMoves
<1>4. ASSUME NEW w \in Workers, WorkerRuns(w) \/ CancellationConsumed(w) PROVE ReplicaMoves
  <2> USE DEF WorkerGoes, WorkerAt, ReplicaMoves, WorkerMoves
  <2>1. CASE Claim(w)
    <3>1. held[w] \in Jobs
      BY <1>a, <2>1 DEF Claim, DispatchInv, HoldsByState, Holding
    <3>2. \/ status'[held[w]] = "running" \/ held[w] \in blind'
          \/ pc'[w] = "skipping"
      BY <1>a, <2>1, <3>1 DEF Claim, SetRunning
    <3> QED
      BY <1>a, <2>1, <3>2 DEF Claim
  <2>2. CASE Take(w)
    <3>1. Head(waiting) \in Jobs
      BY <2>2, HeadTailProperties DEF Take, DispatchInv, TypeOK
    <3> QED
      BY <1>a, <2>2, <3>1 DEF Take
  <2>3. CASE Dispatch(w)
    BY <1>a, <2>3 DEF Dispatch
  <2>4. CASE Release(w)
    BY <1>a, <2>4 DEF Release, HoldNothing, AfterTurn
  <2>5. CASE Sleep(w) \/ Skip(w) \/ Receive(w) \/ Record(w)
    BY <1>a, <2>5 DEF Sleep, Skip, Receive, Record, GivesUp
  <2>6. CASE WorkerCancelled(w) \/ CancellationConsumed(w)
    BY <1>a, <2>6 DEF WorkerCancelled, CancellationConsumed, GivesUp
  <2> QED
    BY <1>4, <2>1, <2>2, <2>3, <2>4, <2>5, <2>6 DEF WorkerRuns
<1>5. CASE CloseDrains
  BY <1>5, <1>a DEF CloseDrains, ReplicaMoves, WorkerMoves
<1>6. ASSUME NEW j \in Jobs, CloseRecords(j) \/ CloseDiscards(j) PROVE ReplicaMoves
  BY <1>6, <1>b DEF CloseRecords, CloseDiscards
<1>7. CASE CloseBegins
  BY <1>7 DEF CloseBegins, ReplicaMoves, WorkerMoves
<1>8. CASE CloseRecorded \/ CloseEnds \/ UploadsClose \/ CloseGivesUp
  BY <1>8, <1>b DEF CloseRecorded, CloseEnds, UploadsClose, CloseGivesUp
<1>9. CASE Down \/ UNCHANGED vars
  BY <1>9, <1>b DEF Down, vars
<1> QED
  BY <1>1, <1>2, <1>3, <1>4, <1>5, <1>6, <1>7, <1>8, <1>9, <1>10 DEF Next, CloseRuns

\* A POST gets to "clearing" only from the head of its list, and leaves the list
\* alone while it is there.
LEMMA ClearingSteps ==
  ASSUME DispatchInv, [Next]_vars
  PROVE  ClearingHasHead'
<1>a. post \in [Jobs -> PostStates] /\ todo \in [Jobs -> Seq(Jobs)]
  BY DEF DispatchInv, TypeOK
<1>b. \A k \in Jobs : post[k] = "clearing" => todo[k] # <<>>
  BY DEF DispatchInv, ClearingHasHead
<1> USE DEF ClearingHasHead, postVars
<1>1. ASSUME NEW j \in Jobs, Post(j) PROVE ClearingHasHead'
  <2>1. ASSUME Admit(j) \/ Enqueue(j) PROVE ClearingHasHead'
    BY <1>a, <1>b, <2>1 DEF Admit, Enqueue
  <2>2. CASE PostLookup(j)
    BY <1>a, <1>b, <2>1, <2>2 DEF PostLookup
  <2>3. CASE PostDecide(j)
    BY <1>a, <1>b, <2>1, <2>3 DEF PostDecide
  <2>4. CASE PostAdmitted(j)
    BY <2>1, <2>4 DEF PostAdmitted
  <2>5. CASE PostLookAt(j)
    BY <1>a, <1>b, <2>5 DEF PostLookAt
  <2>6. CASE PostCreate(j) \/ PostPersist(j) \/ PostStored(j) \/ PostPersistFails(j)
    BY <1>a, <1>b, <2>6 DEF PostCreate, PostPersist, PostStored, PostPersistFails
  <2>7. CASE PostCleared(j) \/ PostAborts(j) \/ PostDrop(j) \/ PostDiscard(j)
    BY <1>a, <1>b, <2>7 DEF PostCleared, PostAborts, PostDrop, PostDiscard
  <2> QED
    BY <1>1, <2>2, <2>3, <2>4, <2>5, <2>6, <2>7 DEF Post
<1>2. ASSUME UNCHANGED postVars PROVE ClearingHasHead'
  BY <1>b, <1>2
<1>3. ASSUME NEW j \in Jobs,
             \/ Delete(j) \/ DeleteRelease(j) \/ DeleteDrop(j) \/ Elsewhere(j)
             \/ Task(j) \/ TimePasses(j) \/ CloseRecords(j) \/ CloseDiscards(j)
      PROVE  ClearingHasHead'
  BY <1>2, <1>3, ElsewhereKeeps DEF Delete, DeleteRelease, DeleteDrop, Task, Consume, TaskEnds,
                    TaskRemoves, TimePasses, CloseRecords, CloseDiscards
<1>4. ASSUME NEW w \in Workers, WorkerRuns(w) \/ CancellationConsumed(w) PROVE ClearingHasHead'
  BY <1>2, <1>4 DEF WorkerRuns, Sleep, Take, Claim, Skip, Dispatch, Receive, Record, Release,
                    WorkerCancelled, CancellationConsumed
<1>5. CASE \/ CloseBegins \/ CloseDrains \/ CloseRecorded \/ CloseEnds \/ UploadsClose
           \/ CloseGivesUp \/ Down \/ UNCHANGED vars
  BY <1>2, <1>5 DEF CloseBegins, CloseDrains, CloseRecorded, CloseEnds, UploadsClose,
                    CloseGivesUp, Down, vars
<1> QED
  BY <1>1, <1>3, <1>4, <1>5 DEF Next, CloseRuns

-----------------------------------------------------------------------------
(* The invariant is inductive.                                              *)

LEMMA HoldingInductive ==
  ASSUME DispatchInv, [Next]_vars
  PROVE  HoldsByState'
<1> SUFFICES ASSUME NEW w \in Workers
             PROVE  /\ pc'[w] \in {"ready", "blocked"} => held'[w] = NoJob
                    /\ pc'[w] \in Holding => held'[w] # NoJob
  BY DEF HoldsByState
<1>1. WorkerMoves(w)
  BY ReplicaSteps DEF ReplicaMoves
<1>2. /\ pc[w] \in {"ready", "blocked"} => held[w] = NoJob
      /\ pc[w] \in Holding => held[w] # NoJob
  BY DEF DispatchInv, HoldsByState
<1> QED
  BY <1>1, <1>2, DispatchAssumption DEF WorkerMoves, Holding

\* Nothing gets into a drained dispatcher: submit refuses a closed one, and its
\* workers have ended.
LEMMA DrainedInductive ==
  ASSUME DispatchInv, [Next]_vars
  PROVE  DrainedIsEmpty'
<1> DEFINE Empty == waiting = <<>>
           Idle == \A w \in Workers : held[w] = NoJob /\ pc[w] \in {"cancelled", "stopped"}
<1> SUFFICES ASSUME Drained' PROVE Empty' /\ Idle'
  BY DEF DrainedIsEmpty
<1>1. DispatcherMoves /\ ReplicaMoves
  BY DispatcherSteps, ReplicaSteps
<1>2. CASE CloseDrains
  BY <1>2 DEF CloseDrains
<1>3. CASE Drained
  <2>1. Empty /\ Idle
    BY <1>3 DEF DispatchInv, DrainedIsEmpty
  <2>2. Idle'
    BY <1>1, <2>1 DEF ReplicaMoves, WorkerMoves
  <2>3. \A j \in Jobs : ~Joins(j)
    BY <1>3 DEF Joins, Closed, Drained
  <2>4. \A j \in Jobs : Without(j) = <<>>
    BY <2>1 DEF Without, IsWaiting
  <2>5. Empty'
    BY <1>1, <2>1, <2>3, <2>4 DEF DispatcherMoves, Leaves, LetsGo, Take, CloseDrains
  <2> QED
    BY <2>2, <2>5
<1> QED
  BY <1>1, <1>2, <1>3 DEF ReplicaMoves

LEMMA ClaimedInductive ==
  ASSUME DispatchInv, [Next]_vars
  PROVE  ClaimedRuns'
<1> SUFFICES ASSUME NEW w \in Workers, pc'[w] \in {"claimed", "awaiting", "finishing"},
                    held'[w] \notin blind'
             PROVE  status'[held'[w]] = "running"
  BY DEF ClaimedRuns
<1>1. WorkerMoves(w) /\ blind \subseteq blind'
  BY ReplicaSteps DEF ReplicaMoves
<1>2. CASE pc[w] = "taken"
  BY <1>1, <1>2 DEF WorkerMoves
<1>3. CASE pc[w] # "taken"
  <2>1. pc[w] \in {"claimed", "awaiting", "finishing"} /\ held'[w] = held[w]
    BY <1>1, <1>3 DEF WorkerMoves
  <2>2. status[held[w]] = "running"
    BY <1>1, <2>1 DEF DispatchInv, ClaimedRuns
  <2>3. held[w] \in Jobs
    BY <2>1 DEF DispatchInv, HoldsByState, Holding, TypeOK
  <2>4. RecordMoves(held[w])
    BY <2>3, RecordSteps
  <2>5. post[held[w]] = "accepted"
    BY <2>3 DEF DispatchInv, HeldAreAccepted, InDispatcher, IsHeld
  <2>6. closer # "recording"
    BY <2>1 DEF DispatchInv, DrainedIsEmpty, Drained
  <2>7. \A v \in Workers : held[v] = held[w] => v = w
    BY <2>3, DispatchAssumption DEF DispatchInv, HeldOnce
  <2>8. held[w] \notin late /\ held[w] \notin blind'
    BY <1>1, <2>1 DEF DispatchInv
  <2> QED
    BY <2>1, <2>2, <2>4, <2>5, <2>6, <2>7, <2>8 DEF RecordMoves, Keeps, FinishedStatuses
<1> QED
  BY <1>2, <1>3

LEMMA DispatchInvInit ==
  ASSUME Init
  PROVE  DispatchInv
<1>1. StoreTypeOK /\ ClockIsAhead
  BY StoreAssumption DEF Init, StoreInit, StoreTypeOK, ClockIsAhead, FinishedJobs, InStatus,
                         Statuses, FinishedStatuses, ActiveStatuses
<1>2. TypeOK
  <2>1. <<>> \in Seq(Jobs)
    OBVIOUS
  <2> QED
    BY <1>1, <2>1 DEF Init, TypeOK, PostStates, WorkerStates, TaskStates, Verdicts, CloserStates
<1>3. waiting = <<>> /\ (\A j : ~IsWaiting(j)) /\ \A j \in Jobs : ~IsHeld(j)
  BY DispatchAssumption DEF Init, IsWaiting, IsHeld
<1>4. HeldOnce /\ HeldAreAccepted /\ FingerprintsAreHeld
  BY <1>3 DEF Init, HeldOnce, HeldAreAccepted, InDispatcher, FingerprintsAreHeld
<1>5. HoldsByState /\ DrainedIsEmpty /\ ClaimedRuns /\ ClearingHasHead
  BY DEF Init, HoldsByState, Holding, DrainedIsEmpty, Drained, ClaimedRuns, ClearingHasHead
<1>6. late \subseteq blind
  BY DEF Init
<1> QED
  BY <1>1, <1>2, <1>4, <1>5, <1>6 DEF DispatchInv

\* Who gives up on an outcome is remembered.
LEMMA LateInductive ==
  ASSUME DispatchInv, [Next]_vars
  PROVE  late' \subseteq blind'
  BY ReplicaSteps DEF DispatchInv, ReplicaMoves

LEMMA DispatchInvInductive ==
  ASSUME DispatchInv, [Next]_vars
  PROVE  DispatchInv'
  BY TypeInductive, RecordSteps, DispatcherHolds, ClearingSteps, HoldingInductive,
     DrainedInductive, ClaimedInductive, LateInductive DEF DispatchInv, StoreInv

LEMMA DispatchInvHolds == Spec => []DispatchInv
<1> QED
  BY DispatchInvInductive, DispatchInvInit, PTL DEF Spec

-----------------------------------------------------------------------------
(* The theorems.                                                            *)

\* Every variable keeps its type: in particular a released or popped job is always
\* one of the queue (_release_stale, _next_job).
THEOREM DispatchTypeCorrect == Spec => []TypeOK
<1> QED
  BY DispatchInvHolds, PTL DEF DispatchInv

\* However POST, DELETE, the workers and the shutdown interleave, a job is never in
\* the queue twice, never both queued and held, never held by two workers: no
\* paper is run twice and no upload is handed to two tasks.
THEOREM HeldOnceCorrect == Spec => []HeldOnce
<1> QED
  BY DispatchInvHolds, PTL DEF DispatchInv

\* Every way out of the dispatcher takes the job's entry out of the fingerprint
\* index, unless a later job has taken it over (_forget_fingerprint): no upload is
\* answered with a job this replica no longer holds.
THEOREM FingerprintsCorrect == Spec => []FingerprintsAreHeld
<1> QED
  BY DispatchInvHolds, PTL DEF DispatchInv

\* No cancelled job runs: between a worker's claim and its dispatch no DELETE, purge
\* or shutdown changes the record, and a job whose record another replica ended
\* meanwhile is remembered.
THEOREM OnlyClaimedCorrect == Spec => OnlyClaimedJobsRun
<1>1. ASSUME DispatchInv, [Next]_vars
      PROVE  [\A j \in Jobs \ blind :
                task'[j] = "dispatched" /\ task[j] # "dispatched" => status[j] = "running"]_vars
  BY <1>1, ReplicaSteps DEF ReplicaMoves, DispatchInv, ClaimedRuns
<1> QED
  BY <1>1, DispatchInvHolds, PTL DEF Spec, OnlyClaimedJobsRun

\* An outcome gives way only to that of the job's own run, and only if the store did
\* not answer that run or another replica declared the job lost meanwhile: no DELETE,
\* no shutdown and no other replica's create revises it, nor does a worker whose claim
\* and record stood.
THEOREM RevisionsCorrect == Spec => OnlyItsRunRevises
<1>1. ASSUME DispatchInv, [Next]_vars
      PROVE  [\A j \in FinishedJobs :
                 status'[j] \in {status[j], "gone"} \/ OwnOutcome(j)]_vars
  <2> SUFFICES ASSUME NEW j \in FinishedJobs, status'[j] \notin {status[j], "gone"}
               PROVE  OwnOutcome(j)
    OBVIOUS
  <2>1. j \in Jobs /\ status[j] \in FinishedStatuses
    BY DEF FinishedJobs, InStatus
  <2>2. \/ \E w \in Workers : held[w] = j /\ pc[w] = "finishing" /\ pc'[w] = "recorded"
        \/ j \in late \ late'
    BY <1>1, <2>1, RecordSteps DEF RecordMoves, Keeps, FinishedStatuses, ActiveStatuses
  <2>3. \A w \in Workers : held[w] = j /\ pc[w] = "finishing" => j \in blind
    BY <1>1, <2>1 DEF DispatchInv, ClaimedRuns, FinishedStatuses
  <2>4. j \in late => j \in blind
    BY <1>1 DEF DispatchInv
  <2> QED
    BY <2>2, <2>3, <2>4 DEF OwnOutcome
<1> QED
  BY <1>1, DispatchInvHolds, PTL DEF Spec, OnlyItsRunRevises

-----------------------------------------------------------------------------
(* The promises to a client: JobLifecycle.                                 *)

Answered == {j \in Jobs : post[j] = "accepted"}

\* A POST that has created its record and not yet answered or given up.
Pending == {"created", "writing", "stored", "checking", "admitting", "clearing", "dropping",
            "discarding"}

\* Nobody else touches the record of a job before its POST is answered.
PendingQueued == \A j \in Jobs : post[j] \in Pending => status[j] = "queued"

\* The shutdown fails only jobs a client was answered with.
RecordsAnswered == \A j \in toRecord : post[j] = "accepted"

LifeInv == DispatchInv /\ PendingQueued /\ RecordsAnswered /\ blind = {}

-----------------------------------------------------------------------------
(* What a step may do to the records and to the answers.                    *)

OthersKeep(j) == \A k \in Jobs \ {j} : Keeps(k)
SameAnswers == \A k \in Jobs : post[k] = "accepted" <=> post'[k] = "accepted"

Accepts(j) == /\ status[j] = "none" /\ status'[j] = "queued"
              /\ Cardinality(ActiveJobs) < MaxActive /\ SameAnswers
Withdraws(j) == /\ status[j] = "queued" /\ status'[j] = "gone" /\ post[j] # "accepted"
                /\ post'[j] \notin Pending /\ SameAnswers
Answers(j) == /\ status[j] = "queued" /\ status'[j] = "queued"
              /\ post[j] # "accepted" /\ post'[j] = "accepted"
              /\ \A k \in Jobs \ {j} : post[k] = "accepted" <=> post'[k] = "accepted"
Starts(j) == /\ status[j] = "queued" /\ status'[j] = "running"
             /\ post[j] = "accepted" /\ SameAnswers
Ends(j) == /\ \/ status[j] = "running" /\ status'[j] \in {"succeeded", "failed"}
              \/ status[j] = "queued" /\ status'[j] \in {"failed", "cancelled"}
           /\ post[j] = "accepted" /\ SameAnswers

LifeMoves ==
    \/ SameAnswers /\ \A k \in Jobs : Keeps(k)
    \/ \E j \in Jobs : /\ OthersKeep(j)
                       /\ Accepts(j) \/ Withdraws(j) \/ Answers(j) \/ Starts(j) \/ Ends(j)

\* A job that finishes keeps its outcome in the same step (_purge_locked).
LEMMA FinishEnds ==
  ASSUME LifeInv, MaxRetained > 0, NEW j \in Jobs, NEW outcome \in FinishedStatuses,
         Finish(j, outcome), SameAnswers, post[j] = "accepted",
         \/ status[j] = "running" /\ outcome \in {"succeeded", "failed"}
         \/ status[j] = "queued" /\ outcome \in {"failed", "cancelled"}
  PROVE  LifeMoves
<1>1. StoreInv
  BY DEF LifeInv, DispatchInv, TypeOK, StoreInv
<1>2. status'[j] = outcome /\ OthersKeep(j)
  BY <1>1, NewestSurvives, FinishMoves DEF OthersKeep
<1> QED
  BY <1>2 DEF LifeMoves, Ends

LEMMA LifeSteps ==
  ASSUME LifeInv, ~Shared, MaxRetained > 0, [Next]_vars
  PROVE  /\ LifeMoves /\ blind' = blind
         /\ \A j \in Jobs : post'[j] \in Pending => post[j] \in Pending \/ status'[j] = "queued"
<1>a. /\ post \in [Jobs -> PostStates] /\ held \in [Workers -> Jobs \cup {NoJob}]
      /\ StoreInv /\ status \in [Jobs -> Statuses]
  BY DEF LifeInv, DispatchInv, TypeOK, StoreInv, StoreTypeOK
<1>b. \A w \in Workers : pc[w] \in Holding =>
         held[w] \in Jobs /\ post[held[w]] = "accepted"
  BY <1>a DEF LifeInv, DispatchInv, HoldsByState, HeldAreAccepted, InDispatcher, IsHeld
<1>c. \A j \in Jobs : post[j] \in Pending => status[j] = "queued"
  BY DEF LifeInv, PendingQueued
<1>h. ~Outages /\ \A j \in Jobs : ~Elsewhere(j)
  BY ElsewhereKeeps, DispatchAssumption
<1> DEFINE Stays == \A j \in Jobs : post'[j] \in Pending =>
                                       post[j] \in Pending \/ status'[j] = "queued"
           Fine == LifeMoves /\ blind' = blind /\ Stays
<1> SUFFICES Fine
  OBVIOUS
<1> USE DEF postVars, workerVars
<1>d. ASSUME UNCHANGED storeVars \/ PurgeOnly PROVE \A k \in Jobs : Keeps(k)
  BY <1>a, <1>d, PurgeOnlyMoves DEF storeVars, Keeps
<1>e. ASSUME SameAnswers, \A k \in Jobs : Keeps(k), UNCHANGED blind, Stays PROVE Fine
  BY <1>e DEF LifeMoves
<1>f. ASSUME UNCHANGED post PROVE SameAnswers /\ Stays
  BY <1>f DEF SameAnswers
<1>g. ASSUME UNCHANGED <<storeVars, post, blind>> PROVE Fine
  BY <1>d, <1>e, <1>f, <1>g
<1>1. ASSUME NEW j \in Jobs, Post(j) PROVE Fine
  <2> USE DEF Pending, SameAnswers
  <2>1. CASE PostCreate(j)
    <3>1. CASE Create(j) /\ post' = [post EXCEPT ![j] = "created"]
      <4>1. status[j] = "none" /\ OthersKeep(j)
        BY <1>a, <3>1, CreateMoves DEF OthersKeep
      <4>2. status'[j] = "queued" /\ Cardinality(ActiveJobs) < MaxActive
        <5> DEFINE st == [status EXCEPT ![j] = "queued"]
        <5>1. /\ st \in [Jobs -> Statuses] /\ finishedAt \in [Jobs -> Nat]
              /\ aged \in SUBSET InStatus(st, FinishedStatuses)
              /\ Purge(st, finishedAt, aged) /\ st[j] = "queued"
              /\ Cardinality(ActiveJobs) < MaxActive
          BY <1>a, <3>1 DEF Create, HasRoom, StoreInv, StoreTypeOK, Statuses, ActiveStatuses,
                            FinishedStatuses, FinishedJobs, InStatus
        <5> HIDE DEF st
        <5> QED
          BY <5>1, PurgeForgetsFinished DEF FinishedStatuses
      <4> QED
        BY <1>a, <2>1, <3>1, <4>1, <4>2 DEF PostCreate, LifeMoves, Accepts
    <3>2. CASE ~(Create(j) /\ post' = [post EXCEPT ![j] = "created"])
      BY <1>a, <1>d, <1>e, <2>1, <3>2 DEF PostCreate, CreateRefused
    <3> QED
      BY <3>1, <3>2
  <2>2. CASE PostPersist(j) \/ PostStored(j) \/ PostPersistFails(j)
    BY <1>a, <1>d, <1>e, <2>2 DEF PostPersist, PostStored, PostPersistFails
  <2>3. ASSUME Enqueue(j), post[j] \in {"stored", "checking", "admitting"},
               UNCHANGED storeVars \/ PurgeOnly
        PROVE  Fine
    <3>1. status[j] = "queued" /\ \A k \in Jobs : Keeps(k)
      BY <1>c, <1>d, <2>3
    <3>2. status'[j] = "queued" /\ OthersKeep(j) /\ UNCHANGED blind
      BY <2>3, <3>1 DEF Keeps, FinishedStatuses, OthersKeep, Enqueue
    <3>3. CASE post' = [post EXCEPT ![j] = "accepted"]
      BY <1>a, <2>3, <3>1, <3>2, <3>3 DEF LifeMoves, Answers
    <3>4. CASE post' = [post EXCEPT ![j] = "dropping"]
      BY <1>a, <1>e, <2>3, <3>1, <3>2, <3>4
    <3> QED
      BY <2>3, <3>3, <3>4 DEF Enqueue
  <2>4. ASSUME Admit(j), post[j] \in {"stored", "checking", "admitting"},
               UNCHANGED storeVars \/ PurgeOnly
        PROVE  Fine
    <3>1. CASE post' = [post EXCEPT ![j] = "admitting"] /\ UNCHANGED blind
      BY <1>a, <1>d, <1>e, <2>4, <3>1
    <3> QED
      BY <2>3, <2>4, <3>1 DEF Admit
  <2>5. CASE PostLookup(j)
    <3>1. CASE post' = [post EXCEPT ![j] = "checking"] /\ UNCHANGED blind
      BY <1>a, <1>d, <1>e, <2>5, <3>1 DEF PostLookup
    <3> QED
      BY <2>4, <2>5, <3>1 DEF PostLookup
  <2>6. CASE PostDecide(j)
    <3>1. CASE post' = [post EXCEPT ![j] = "dropping"] /\ UNCHANGED blind
      BY <1>a, <1>d, <1>e, <2>6, <3>1 DEF PostDecide
    <3> QED
      BY <2>4, <2>6, <3>1 DEF PostDecide
  <2>7. CASE PostAdmitted(j)
    BY <2>3, <2>7 DEF PostAdmitted
  <2>8. CASE PostLookAt(j)
    BY <1>a, <1>d, <1>e, <2>8 DEF PostLookAt
  <2>9. CASE PostCleared(j) \/ PostAborts(j) \/ PostDrop(j)
    BY <1>a, <1>d, <1>e, <2>9 DEF PostCleared, PostAborts, PostDrop
  <2>10. CASE PostDiscard(j)
    <3>1. Discard(j) /\ post' = [post EXCEPT ![j] = "refused"] /\ post[j] = "discarding"
      BY <1>h, <2>10 DEF PostDiscard
    <3>2. status[j] = "queued" /\ status'[j] = "gone" /\ OthersKeep(j)
      BY <1>a, <1>c, <3>1, StoreCalls DEF OthersKeep
    <3> QED
      BY <1>a, <2>10, <3>1, <3>2 DEF PostDiscard, LifeMoves, Withdraws
  <2> QED
    BY <1>1, <2>1, <2>2, <2>5, <2>6, <2>7, <2>8, <2>9, <2>10 DEF Post
<1>2. ASSUME NEW j \in Jobs, Delete(j) PROVE Fine
  <2>1. UNCHANGED <<post, blind>> /\ post[j] = "accepted"
    BY <1>2 DEF Delete
  <2>2. CASE CancelQueued(j)
    BY <1>f, <2>1, <2>2, FinishEnds DEF CancelQueued, FinishedStatuses
  <2> QED
    BY <1>2, <1>d, <1>e, <1>f, <2>1, <2>2 DEF Delete
<1>3. ASSUME NEW j \in Jobs,
             DeleteRelease(j) \/ DeleteDrop(j) \/ Task(j) \/ CloseDiscards(j)
      PROVE  Fine
  BY <1>3, <1>g DEF DeleteRelease, DeleteDrop, Task, Consume, TaskEnds, TaskRemoves, CloseDiscards
<1>4. ASSUME NEW j \in Jobs, TimePasses(j) PROVE Fine
  BY <1>4, <1>a, <1>e, <1>f, StoreCalls DEF TimePasses
<1>5. ASSUME NEW w \in Workers, WorkerRuns(w) \/ CancellationConsumed(w) PROVE Fine
  <2>1. CASE Claim(w)
    <3>1. held[w] \in Jobs /\ post[held[w]] = "accepted" /\ UNCHANGED <<post, blind>>
      BY <1>b, <1>h, <2>1 DEF Claim, WorkerAt, Holding
    <3>2. CASE SetRunning(held[w])
      BY <1>a, <1>f, <3>1, <3>2, StoreCalls DEF LifeMoves, Starts, OthersKeep
    <3> QED
      BY <1>g, <2>1, <3>1, <3>2 DEF Claim
  <2>2. CASE Record(w)
    <3>1. /\ held[w] \in Jobs /\ post[held[w]] = "accepted" /\ UNCHANGED <<post, blind>>
          /\ status[held[w]] = "running" /\ Outcome(held[w])
      BY <1>b, <1>h, <2>2 DEF Record, WorkerAt, Holding, LifeInv, DispatchInv, ClaimedRuns
    <3>2. CASE SetSucceeded(held[w])
      BY <1>f, <1>g, <3>1, <3>2, FinishEnds DEF SetSucceeded, FinishedStatuses
    <3>3. ASSUME NEW S, SetFailed(held[w], S) PROVE Fine
      BY <1>f, <1>g, <3>1, <3>3, FinishEnds DEF SetFailed, FinishedStatuses
    <3> QED
      BY <3>1, <3>2, <3>3 DEF Outcome
  <2>3. CASE Sleep(w) \/ Take(w) \/ Skip(w) \/ Dispatch(w)
    BY <1>g, <2>3 DEF Sleep, Take, Skip, Dispatch
  <2>4. CASE Receive(w) \/ Release(w) \/ WorkerCancelled(w) \/ CancellationConsumed(w)
    BY <1>g, <2>4 DEF Receive, Release, WorkerCancelled, CancellationConsumed
  <2> QED
    BY <1>5, <2>1, <2>2, <2>3, <2>4 DEF WorkerRuns
<1>6. ASSUME NEW j \in Jobs, CloseRecords(j) PROVE Fine
  <2>1. /\ post[j] = "accepted" /\ SetFailed(j, Required(j)) /\ UNCHANGED <<post, blind>>
        /\ Required(j) \subseteq {"queued", "running"}
    BY <1>6 DEF CloseRecords, LifeInv, RecordsAnswered, Required, ActiveStatuses
  <2> QED
    BY <1>f, <1>g, <2>1, FinishEnds DEF SetFailed, FinishedStatuses
<1>7. CASE \/ CloseBegins \/ CloseDrains \/ CloseRecorded \/ CloseEnds \/ UploadsClose
           \/ CloseGivesUp \/ Down \/ UNCHANGED vars
  BY <1>7, <1>g DEF CloseBegins, CloseDrains, CloseRecorded, CloseEnds, UploadsClose,
                    CloseGivesUp, Down, vars
<1> QED
  BY <1>1, <1>2, <1>3, <1>4, <1>5, <1>6, <1>7, <1>h DEF Next, CloseRuns

LEMMA RecordingInductive ==
  ASSUME LifeInv, [Next]_vars
  PROVE  RecordsAnswered'
<1>a. \A j \in Jobs : InDispatcher(j) => post[j] = "accepted"
  BY DEF LifeInv, DispatchInv, HeldAreAccepted
<1>b. AcceptedStay /\ toRecord \subseteq Jobs
  BY DispatcherSteps DEF LifeInv, DispatchInv, TypeOK
<1>c. ASSUME toRecord' \subseteq toRecord PROVE RecordsAnswered'
  BY <1>b, <1>c DEF AcceptedStay, LifeInv, RecordsAnswered
<1> USE DEF closeVars
<1>1. ASSUME NEW j \in Jobs, Post(j) PROVE UNCHANGED toRecord
  <2>1. CASE PostCreate(j) \/ PostPersist(j) \/ PostStored(j) \/ PostPersistFails(j)
    BY <2>1 DEF PostCreate, PostPersist, PostStored, PostPersistFails
  <2>2. CASE PostLookup(j) \/ PostDecide(j) \/ PostLookAt(j) \/ PostCleared(j)
    BY <2>2 DEF PostLookup, PostDecide, PostLookAt, PostCleared
  <2>3. CASE PostAdmitted(j) \/ PostAborts(j) \/ PostDrop(j) \/ PostDiscard(j)
    BY <2>3 DEF PostAdmitted, PostAborts, PostDrop, PostDiscard
  <2> QED
    BY <1>1, <2>1, <2>2, <2>3 DEF Post
<1>2. ASSUME NEW j \in Jobs,
             \/ Delete(j) \/ DeleteRelease(j) \/ DeleteDrop(j) \/ Elsewhere(j)
             \/ Task(j) \/ TimePasses(j) \/ CloseRecords(j) \/ CloseDiscards(j)
      PROVE  toRecord' \subseteq toRecord
  BY <1>2, ElsewhereKeeps DEF Delete, DeleteRelease, DeleteDrop, Task, Consume, TaskEnds,
              TaskRemoves, TimePasses, CloseRecords, CloseDiscards
<1>3. ASSUME NEW w \in Workers, WorkerRuns(w) \/ CancellationConsumed(w)
      PROVE  UNCHANGED toRecord
  BY <1>3 DEF WorkerRuns, Sleep, Take, Claim, Skip, Dispatch, Receive, Record, Release,
              WorkerCancelled, CancellationConsumed
<1>4. CASE CloseDrains
  BY <1>4, <1>a, <1>b DEF CloseDrains, RecordsAnswered, AcceptedStay, InDispatcher
<1>5. ASSUME \/ CloseBegins \/ CloseRecorded \/ CloseEnds \/ UploadsClose \/ CloseGivesUp
             \/ Down \/ UNCHANGED vars
      PROVE  toRecord' \subseteq toRecord
  BY <1>5 DEF CloseBegins, CloseRecorded, CloseEnds, UploadsClose, CloseGivesUp, Down, vars
<1> QED
  BY <1>c, <1>1, <1>2, <1>3, <1>4, <1>5 DEF Next, CloseRuns

LEMMA LifeInductive ==
  ASSUME LifeInv, ~Shared, MaxRetained > 0, [Next]_vars
  PROVE  LifeInv'
<1>1. LifeMoves /\ blind' = blind /\ AcceptedStay
  BY LifeSteps, DispatcherSteps DEF LifeInv
<1>2. PendingQueued'
  <2> SUFFICES ASSUME NEW j \in Jobs, post'[j] \in Pending PROVE status'[j] = "queued"
    BY DEF PendingQueued
  <2>1. CASE post[j] \in Pending
    <3>1. status[j] = "queued" /\ post[j] # "accepted" /\ post'[j] # "accepted"
      BY <2>1 DEF LifeInv, PendingQueued, Pending
    <3>2. Keeps(j) => status'[j] = "queued"
      BY <3>1 DEF Keeps, FinishedStatuses
    <3> QED
      BY <1>1, <3>1, <3>2 DEF LifeMoves, OthersKeep, Accepts, Withdraws, Answers, Starts, Ends
  <2> QED
    BY <2>1, LifeSteps
<1> QED
  BY <1>1, <1>2, RecordingInductive, DispatchInvInductive DEF LifeInv

-----------------------------------------------------------------------------
(* The refinement.                                                          *)

View == [j \in Jobs |-> ClientView(j)]

LEMMA ViewOf ==
  ASSUME StoreTypeOK, NEW j \in Jobs
  PROVE  /\ ClientView(j) = "unknown" <=> status[j] = "none"
         /\ ClientView(j) = "queued" <=> status[j] = "queued"
         /\ ClientView(j) = "running" <=> status[j] = "running"
         /\ ClientView(j) = "succeeded" <=> status[j] = "succeeded"
         /\ ClientView(j) = "failed" <=> status[j] \in {"failed", "cancelled"}
         /\ ClientView(j) = "forgotten" <=> status[j] = "gone"
  BY DEF StoreTypeOK, Statuses, ActiveStatuses, FinishedStatuses, ClientView

\* What a record does that nobody calls for is what JobLifecycle lets an outcome do.
LEMMA KeepsOrForgets ==
  ASSUME StoreTypeOK, StoreTypeOK', NEW S \in SUBSET Jobs, \A k \in S : Keeps(k)
  PROVE  \E F \in SUBSET Lifecycle!Over : /\ F \subseteq S
            /\ \A k \in S : View'[k] = IF k \in F THEN "forgotten" ELSE View[k]
<1> DEFINE F == {k \in S : status[k] \in FinishedStatuses /\ status'[k] = "gone"}
<1>1. F \in SUBSET Lifecycle!Over
  BY DEF Lifecycle!Over, FinishedStatuses, ClientView
<1>2. ASSUME NEW k \in S, k \in F PROVE View'[k] = "forgotten"
  BY <1>2 DEF View, ClientView
<1>3. ASSUME NEW k \in S, k \notin F PROVE View'[k] = View[k]
  <2>1. status'[k] = status[k]
    BY <1>3 DEF Keeps
  <2> QED
    BY <2>1 DEF View, ClientView
<1> WITNESS F \in SUBSET Lifecycle!Over
<1> QED
  BY <1>1, <1>2, <1>3

LEMMA LifeRefines ==
  ASSUME LifeInv, LifeInv', LifeMoves
  PROVE  Lifecycle!Next
<1>a. StoreTypeOK /\ StoreTypeOK'
  BY DEF LifeInv, DispatchInv, TypeOK
<1>1. CASE SameAnswers /\ \A k \in Jobs : Keeps(k)
  <2>1. PICK F \in SUBSET Lifecycle!Over :
               \A k \in Jobs : View'[k] = IF k \in F THEN "forgotten" ELSE View[k]
    BY <1>a, <1>1, KeepsOrForgets
  <2>2. View' = [k \in Jobs |-> IF k \in F THEN "forgotten" ELSE View[k]]
    BY <2>1 DEF View
  <2>3. Answered' = Answered
    BY <1>1 DEF Answered, SameAnswers
  <2>4. Lifecycle!ForgetOutcomes
    BY <2>2, <2>3 DEF Lifecycle!ForgetOutcomes, View, Answered
  <2> QED
    BY <2>4 DEF Lifecycle!Next
<1>2. ASSUME NEW j \in Jobs, OthersKeep(j),
             Accepts(j) \/ Withdraws(j) \/ Answers(j) \/ Starts(j) \/ Ends(j)
      PROVE  Lifecycle!Next
  <2>1. PICK F \in SUBSET Lifecycle!Over :
               /\ F \subseteq Jobs \ {j}
               /\ \A k \in Jobs \ {j} : View'[k] = IF k \in F THEN "forgotten" ELSE View[k]
    BY <1>a, <1>2, KeepsOrForgets DEF OthersKeep
  <2>2. View' = [k \in Jobs |-> IF k = j THEN View'[j]
                                ELSE IF k \in F THEN "forgotten" ELSE View[k]]
    BY <2>1 DEF View
  <2>3. Lifecycle!MoveOn(j, View'[j])
    BY <2>2 DEF Lifecycle!MoveOn, View
  <2>4. SameAnswers => Answered' = Answered
    BY DEF Answered, SameAnswers
  <2>5. View[j] = ClientView(j) /\ View'[j] = ClientView(j)' /\ (j \in Answered <=> post[j] = "accepted")
    BY DEF View, Answered
  <2>6. CASE Accepts(j)
    <3>1. View[j] = "unknown" /\ View'[j] = "queued"
      BY <2>5, <2>6 DEF Accepts, ClientView
    <3>2. Lifecycle!Live = ActiveJobs
      <4>1. \A k \in Jobs : ClientView(k) \in {"queued", "running"} <=> status[k] \in ActiveStatuses
        BY <1>a, ViewOf DEF ActiveStatuses
      <4> QED
        BY <4>1 DEF Lifecycle!Live, ActiveJobs, InStatus
    <3>3. Lifecycle!Cardinality(ActiveJobs) = Cardinality(ActiveJobs)
      BY DEF Lifecycle!Cardinality, Cardinality
    <3>4. Lifecycle!Accept(j)
      BY <2>3, <2>4, <2>6, <3>1, <3>2, <3>3 DEF Lifecycle!Accept, Accepts, View, Answered
    <3> QED
      BY <3>4 DEF Lifecycle!Next
  <2>7. CASE Withdraws(j)
    <3>1. View[j] = "queued" /\ View'[j] = "forgotten" /\ j \notin Answered
      BY <2>5, <2>7 DEF Withdraws, ClientView
    <3>2. Lifecycle!Withdraw(j)
      BY <2>3, <2>4, <2>7, <3>1 DEF Lifecycle!Withdraw, Withdraws, View, Answered
    <3> QED
      BY <3>2 DEF Lifecycle!Next
  <2>8. CASE Answers(j)
    <3>1. View[j] = "queued" /\ View'[j] = "queued" /\ j \notin Answered
      BY <2>5, <2>8 DEF Answers, ClientView
    <3>2. Answered' = Answered \cup {j}
      BY <2>8 DEF Answers, Answered
    <3>3. Lifecycle!Answer(j)
      BY <2>3, <3>1, <3>2 DEF Lifecycle!Answer, View, Answered
    <3> QED
      BY <3>3 DEF Lifecycle!Next
  <2>9. CASE Starts(j)
    <3>1. View[j] = "queued" /\ View'[j] = "running" /\ j \in Answered
      BY <2>5, <2>9 DEF Starts, ClientView
    <3>2. Lifecycle!Start(j)
      BY <2>3, <2>4, <2>9, <3>1 DEF Lifecycle!Start, Starts, View, Answered
    <3> QED
      BY <3>2 DEF Lifecycle!Next
  <2>10. CASE Ends(j)
    <3>1. /\ j \in Answered
          /\ \/ View[j] = "running" /\ View'[j] \in {"succeeded", "failed"}
             \/ View[j] = "queued" /\ View'[j] = "failed"
      BY <2>5, <2>10 DEF Ends, ClientView
    <3>2. Lifecycle!End(j)
      BY <2>3, <2>4, <2>10, <3>1 DEF Lifecycle!End, Ends, View, Answered
    <3> QED
      BY <3>2 DEF Lifecycle!Next
  <2> QED
    BY <1>2, <2>6, <2>7, <2>8, <2>9, <2>10
<1> QED
  BY <1>1, <1>2 DEF LifeMoves

\* A client never sees more than MaxActive live jobs, an outcome without an answered
\* POST, an accepted job withdrawn or an outcome revised: JobLifecycle, which a
\* replica with a store of its own keeps unless that retains nothing.
THEOREM LifecycleCorrect ==
  ASSUME ~Shared, MaxRetained > 0
  PROVE  Spec => ImplementsLifecycle
<1>1. Init => LifeInv /\ Lifecycle!Init
  BY DispatchInvInit
  DEF Init, StoreInit, LifeInv, PendingQueued, Pending, RecordsAnswered, Lifecycle!Init, ClientView
<1>2. LifeInv /\ [Next]_vars => LifeInv'
  BY LifeInductive
<1>3. LifeInv /\ LifeInv' /\ [Next]_vars => Lifecycle!Next
  BY LifeSteps, LifeRefines
<1> QED
  BY <1>1, <1>2, <1>3, PTL DEF Spec, ImplementsLifecycle, Lifecycle!Spec
=============================================================================
