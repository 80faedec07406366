------------------------------ MODULE Batching ------------------------------
(* The two micro-batchers: GpuBatcher (serve/batching.py) and                 *)
(* InferenceBatcher (pipeline/inference_batcher.py).  Callers queue an item   *)
(* with a future and wait; a collector task takes batches, runs the model     *)
(* function in a thread and resolves the futures.  A collector is bound to    *)
(* its event loop and its queue: a new one is a new generation.               *)
EXTENDS Naturals, SequencesExt

CONSTANTS Callers, Poison,   \* the callers whose item the function rejects
          MaxBatch,          \* max_batch_size
          MaxGenerations,    \* bound: collectors started
          NoOne, Stop        \* no caller; the _STOP mark

ASSUME BatchingAssumption ==
    /\ Poison \subseteq Callers /\ MaxBatch \in Nat \ {0} /\ MaxGenerations \in Nat
    /\ NoOne \notin Callers /\ Stop \notin Callers

VARIABLES
    kind,      \* which batcher: "gpu" or "inference"
    gen,       \* the newest generation
    task,      \* _collector is set
    open,      \* _queue is set
    closing,   \* GpuBatcher.close, one call at a time, waits for the collector it cancelled
    closed,    \* InferenceBatcher._closed
    collector, \* where the collector of a generation is
    queue,     \* its queue
    batch,     \* the entries it holds
    last,      \* it has taken the stop mark: stop_after_batch
    future,    \* the state of a caller's future
    got        \* the caller whose result it was given

own == <<collector, queue, batch, last>>
answers == <<future, got>>
vars == <<kind, gen, task, open, closing, closed, own, answers>>

Generations == 1 .. MaxGenerations
Pending(c) == future[c] = "pending"

-----------------------------------------------------------------------------
(* submit                                                                   *)

Working(g) == collector[g] \notin {"none", "ended", "cancelled"}

\* The batcher has a queue and a collector of the running loop.
Running == gen > 0 /\ task /\ open /\ Working(gen)

\* _ensure_collector and start: no await in them.  What a dead collector left is the
\* futures of its dead loop.
Submit(c) ==
    /\ future[c] = "none"
    /\ IF closed
       THEN future' = [future EXCEPT ![c] = "refused"] /\ UNCHANGED <<gen, task, open, own>>
       ELSE LET g == IF Running THEN gen ELSE gen + 1 IN
            /\ g \in Generations /\ gen' = g /\ task' = TRUE /\ open' = TRUE
            /\ collector' = IF Running THEN collector ELSE [collector EXCEPT ![g] = "waiting"]
            /\ queue' = [queue EXCEPT ![g] = Append(@, c)]
            /\ future' = [future EXCEPT ![c] = "pending"]
            /\ UNCHANGED <<batch, last>>
    /\ UNCHANGED <<kind, closing, closed, got>>

\* A caller stops waiting.
GivesUp(c) ==
    /\ Pending(c) /\ future' = [future EXCEPT ![c] = "cancelled"]
    /\ UNCHANGED <<kind, gen, task, open, closing, closed, own, got>>

-----------------------------------------------------------------------------
(* _run, _collect                                                           *)

\* Entries a collector takes without waiting: up to the size cap, or to the stop mark.
Ready(g, room) ==
    LET marks == {i \in DOMAIN queue[g] : queue[g][i] = Stop}
        n == IF marks = {} THEN Len(queue[g]) ELSE Min(marks) - 1
    IN SubSeq(queue[g], 1, Min({n, room}))

\* The mark ends the gathering of a batch that has room for more.
MeetsStop(g, room) ==
    LET n == Len(Ready(g, room)) IN n < room /\ n < Len(queue[g])

\* The batch as _run_batch filters it: who is still waiting, in the order of the batch.
Active(entries) ==
    LET waits == {i \in DOMAIN entries : Pending(entries[i])}
        nth(k) == CHOOSE i \in waits : Cardinality({j \in waits : j <= i}) = k
    IN [k \in 1 .. Cardinality(waits) |-> entries[nth(k)]]

\* Mutant: the stop mark ends the collector at once, with the batch it has gathered.
DropsAtStop(g, stops) == [collector EXCEPT ![g] = IF stops THEN "ended" ELSE "gathering"]

\* The stop mark is remembered while the batch runs.
Gathering(g, stops) == [collector EXCEPT ![g] = "gathering"]

\* The first entry, with what is queued behind it; later, what has come meanwhile.
Gather(g) ==
    /\ collector[g] \in {"waiting", "gathering"} /\ queue[g] # <<>> /\ ~last[g]
    /\ LET room == MaxBatch - Len(batch[g])
           taken == Ready(g, room)
           stops == MeetsStop(g, room)
       IN /\ room > 0
          /\ batch' = [batch EXCEPT ![g] = @ \o taken]
          /\ queue' = [queue EXCEPT ![g] =
                         SubSeq(@, Len(taken) + 1 + IF stops THEN 1 ELSE 0, Len(@))]
          /\ last' = [last EXCEPT ![g] = stops]
          /\ collector' = Gathering(g, stops)
    /\ UNCHANGED <<kind, gen, task, open, closing, closed, answers>>

\* A collector goes back to its queue, or ends.
Onward(g) == [collector EXCEPT ![g] = IF last[g] THEN "ended" ELSE "waiting"]

\* The batch is full, the time is up or the mark was met: call the function, in a thread,
\* for those who still wait.
Call(g) ==
    /\ collector[g] = "gathering"
    /\ batch' = [batch EXCEPT ![g] = Active(@)]
    /\ collector' = IF Active(batch[g]) = <<>> THEN Onward(g)
                    ELSE [collector EXCEPT ![g] = "calling"]
    /\ UNCHANGED <<kind, gen, task, open, closing, closed, queue, last, answers>>

-----------------------------------------------------------------------------
(* _run_batch                                                               *)

\* Mutant: the results are matched with the callers that still wait.
ScatterToWaiting(entries, results) ==
    LET to == Active(entries)
    IN [c \in Callers |->
          IF \E i \in DOMAIN to : to[i] = c
          THEN results[CHOOSE i \in DOMAIN to : to[i] = c] ELSE got[c]]

\* zip(batch, results, strict=True), skipping the futures that are done.
Scatter(entries, results) ==
    [c \in Callers |->
        IF Pending(c) /\ \E i \in DOMAIN entries : entries[i] = c
        THEN results[CHOOSE i \in DOMAIN entries : entries[i] = c] ELSE got[c]]

Resolve(cs, state) ==
    future' = [c \in Callers |-> IF c \in cs /\ Pending(c) THEN state ELSE future[c]]

Done(g) == batch' = [batch EXCEPT ![g] = <<>>] /\ collector' = Onward(g)

\* The function answers: the result of an item stands for the item.
CallSucceeds(g) ==
    /\ collector[g] = "calling" /\ Range(batch[g]) \cap Poison = {}
    /\ Resolve(Range(batch[g]), "result") /\ got' = Scatter(batch[g], batch[g])
    /\ Done(g)
    /\ UNCHANGED <<kind, gen, task, open, closing, closed, queue, last>>

\* Mutant: a failed batch fails everyone in it.
FailsTogether(g) == TRUE

\* GpuBatcher reruns the items of a failed batch one at a time.
FailsAsOne(g) == kind = "inference" \/ Len(batch[g]) = 1

\* The function raises: for an item it rejects, or for a batch too large for the card.
CallFails(g) ==
    /\ collector[g] = "calling"
    /\ Range(batch[g]) \cap Poison # {} \/ Len(batch[g]) > 1
    /\ IF FailsAsOne(g)
       THEN Resolve(Range(batch[g]), "error") /\ Done(g)
       ELSE /\ collector' = [collector EXCEPT ![g] = "alone"]
            /\ UNCHANGED <<future, batch>>
    /\ UNCHANGED <<kind, gen, task, open, closing, closed, queue, last, got>>

\* The next item of a failed batch, unless its caller is gone.
Alone(g) ==
    /\ collector[g] = "alone"
    /\ LET c == Head(batch[g])
       IN /\ Resolve({c}, IF c \in Poison THEN "error" ELSE "result")
          /\ got' = IF c \in Poison THEN got ELSE Scatter(<<c>>, <<c>>)
    /\ batch' = [batch EXCEPT ![g] = Tail(@)]
    /\ collector' = IF Len(batch[g]) = 1 THEN Onward(g) ELSE collector
    /\ UNCHANGED <<kind, gen, task, open, closing, closed, queue, last>>

-----------------------------------------------------------------------------
(* close, and the end of the event loop                                     *)

\* InferenceBatcher.close: the mark goes behind all that was submitted.
CloseInference ==
    /\ kind = "inference" /\ ~closed /\ closed' = TRUE
    /\ queue' = IF gen = 0 THEN queue ELSE [queue EXCEPT ![gen] = Append(@, Stop)]
    /\ UNCHANGED <<kind, gen, task, open, closing, collector, batch, last, answers>>

\* GpuBatcher.close: cancel the collector, wherever it is, and wait for it.
CloseGpu ==
    /\ kind = "gpu" /\ task /\ ~closing
    /\ closing' = TRUE /\ task' = FALSE
    /\ collector' = [collector EXCEPT ![gen] = IF Working(gen) THEN "cancelled" ELSE @]
    /\ UNCHANGED <<kind, gen, open, closed, queue, batch, last, answers>>

\* Then cancel what is queued, also behind a collector a submit has started meanwhile.
CloseGpuEnds ==
    /\ closing /\ closing' = FALSE /\ open' = FALSE
    /\ Resolve(Range(queue[gen]), "cancelled")
    /\ queue' = [queue EXCEPT ![gen] = <<>>]
    /\ UNCHANGED <<kind, gen, task, closed, collector, batch, last, got>>

\* asyncio.run cancels the collectors and the callers of its loop; a new loop may follow.
LoopEnds ==
    /\ gen \in 1 .. MaxGenerations - 1
    /\ collector' = [g \in Generations |-> IF g <= gen THEN "ended" ELSE collector[g]]
    /\ Resolve(Callers, "cancelled") /\ closing' = FALSE
    /\ UNCHANGED <<kind, gen, task, open, closed, queue, batch, last, got>>

-----------------------------------------------------------------------------
Init ==
    /\ kind \in {"gpu", "inference"} /\ gen = 0
    /\ task = FALSE /\ open = FALSE /\ closing = FALSE /\ closed = FALSE
    /\ collector = [g \in Generations |-> "none"]
    /\ queue = [g \in Generations |-> <<>>] /\ batch = [g \in Generations |-> <<>>]
    /\ last = [g \in Generations |-> FALSE]
    /\ future = [c \in Callers |-> "none"] /\ got = [c \in Callers |-> NoOne]

Collector(g) == Gather(g) \/ Call(g) \/ CallSucceeds(g) \/ CallFails(g) \/ Alone(g)

Next ==
    \/ \E c \in Callers : Submit(c) \/ GivesUp(c)
    \/ \E g \in Generations : Collector(g)
    \/ CloseInference \/ CloseGpu \/ CloseGpuEnds \/ LoopEnds

Spec == Init /\ [][Next]_vars

\* The model function returns, and a cancelled task ends.
FairSpec ==
    Spec /\ WF_vars(CloseGpuEnds) /\ \A g \in Generations : WF_vars(Collector(g))

-----------------------------------------------------------------------------
\* A caller gets the result of its own item, whoever left the batch while it ran; and in
\* a GpuBatcher the error of its own item only (_run_batch).
OwnAnswer ==
    \A c \in Callers :
        /\ got[c] = IF future[c] = "result" THEN c ELSE NoOne
        /\ kind = "gpu" /\ future[c] = "error" => c \in Poison

\* Whom GpuBatcher.close forgets: the entries its collector had taken, and those of a
\* queue that a submit replaced while close waited.
LeftByClose(c) ==
    \E g \in Generations :
        /\ collector[g] = "cancelled"
        /\ c \in Range(batch[g]) \cup (IF g = gen THEN {} ELSE Range(queue[g]))

\* Every other submission is answered or cancelled, also one that is queued while a batch
\* runs, while close() waits or just before the stop mark (_run, _collect, close).
Answered == \A c \in Callers : Pending(c) ~> ~Pending(c) \/ LeftByClose(c)
=============================================================================
