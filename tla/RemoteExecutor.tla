--------------------------- MODULE RemoteExecutor ---------------------------
(* batch/remote.py: papers sent as jobs to a serve, with adaptive concurrency, *)
(* retries, and a best-effort DELETE of every job the executor walks away     *)
(* from.  One task per paper in flight; every await is a point where another  *)
(* task, the main loop or the serve goes on.                                  *)
EXTENDS Naturals, FiniteSets

CONSTANTS Papers,
          Retries,           \* --retries
          InitialGate, LowGate, HighGate

ASSUME ExecutorAssumption ==
    /\ Retries \in Nat /\ LowGate \in Nat \ {0}
    /\ InitialGate \in LowGate .. HighGate /\ HighGate \in Nat

VARIABLES
    main,      \* where run() is
    stop,      \* the stop event
    late,      \* the deadline has passed
    gate,      \* AdaptiveGate.size
    at,        \* where a paper's task is
    tries,     \* attempts made
    timedOut,  \* the papers that had their second chance after a 504
    why,       \* what the DELETE of a paper's job is for
    outcome,   \* what a task returned
    recorded,  \* calls of on_outcome
    job        \* the job the serve made last for a paper

taskVars == <<at, tries, timedOut, why, outcome>>
vars == <<main, stop, late, gate, taskVars, recorded, job>>

\* "accepted": the serve made the job, its answer is on the way.
Places == {"pending", "submitting", "accepted", "polling", "fetching", "asking",
           "walking", "backoff", "done", "cancelled", "recorded"}

PapersAt(places) == {p \in Papers : at[p] \in places}
InFlight == PapersAt(Places \ {"pending", "done", "cancelled", "recorded"})

MoveTo(p, place) == at' = [at EXCEPT ![p] = place]

\* The papers' jobs are left to themselves: the answer to an upload or a DELETE was lost,
\* or the DELETE could not be sent.
CutOff(papers) ==
    job' = [p \in Papers |-> IF p \in papers /\ job[p] = "queued" THEN "adrift" ELSE job[p]]

Shrunk == IF gate > LowGate THEN gate - 1 ELSE LowGate
Grown == IF gate < HighGate THEN gate + 1 ELSE HighGate

-----------------------------------------------------------------------------
(* process: one paper                                                       *)

Returns(p, result) ==
    /\ MoveTo(p, "done") /\ outcome' = [outcome EXCEPT ![p] = result]
    /\ UNCHANGED <<tries, timedOut, why>>

\* TransientError: wait and try again, or give up with the last one.
RetryOrGiveUp(p) ==
    IF tries[p] <= Retries
    THEN MoveTo(p, "backoff") /\ UNCHANGED <<tries, timedOut, why, outcome>>
    ELSE Returns(p, "crash")

Transient(p, shrinks) ==
    RetryOrGiveUp(p) /\ gate' = IF shrinks THEN Shrunk ELSE gate

\* PermanentError: a refused token is one as well.
Permanent(p, result) == Returns(p, result) /\ UNCHANGED gate

\* The attempt is given up with a job at the serve: DELETE it first.
WalkAway(p, reason) ==
    /\ MoveTo(p, "walking") /\ why' = [why EXCEPT ![p] = reason]
    /\ UNCHANGED <<gate, tries, timedOut, outcome>>

\* Mutant: the count of errors and the deadline start anew at every look.
NeverGivesUp(p) == FALSE

\* Too many errors, too long a wait, a 4xx, an unreadable answer.
GivesUpJob(p) == \E reason \in {"transient", "failed", "auth"} : WalkAway(p, reason)

Again(p) ==
    /\ at[p] = "backoff"
    /\ MoveTo(p, "submitting") /\ tries' = [tries EXCEPT ![p] = @ + 1]
    /\ UNCHANGED <<main, stop, late, gate, timedOut, why, outcome, recorded, job>>

\* The serve takes the upload.
Accepts(p) ==
    /\ at[p] = "submitting"
    /\ MoveTo(p, "accepted") /\ job' = [job EXCEPT ![p] = "queued"]
    /\ UNCHANGED <<main, stop, late, gate, tries, timedOut, why, outcome, recorded>>

\* 202, or an answer that does not come, or one without a job id: the job is not known.
Submitted(p) ==
    /\ at[p] = "accepted"
    /\ \/ MoveTo(p, "polling") /\ UNCHANGED <<gate, tries, timedOut, why, outcome, job>>
       \/ (Transient(p, TRUE) \/ Permanent(p, "failed")) /\ CutOff({p})
    /\ UNCHANGED <<main, stop, late, recorded>>

\* 429: the queue is full; wait and ask again, until submit_wait_budget is spent.
QueueFull(p) ==
    /\ at[p] = "submitting" /\ gate' = LowGate
    /\ UNCHANGED taskVars \/ RetryOrGiveUp(p)
    /\ UNCHANGED <<main, stop, late, recorded, job>>

\* No connection, 5xx; or 4xx, a refused token, an unreadable file.
Refused(p) ==
    /\ at[p] = "submitting"
    /\ \/ Transient(p, TRUE)
       \/ \E result \in {"failed", "auth"} : Permanent(p, result)
    /\ UNCHANGED <<main, stop, late, recorded, job>>

\* _poll: the job is over, lost, or asking for it fails once too often or too long.
Polled(p) ==
    /\ at[p] = "polling"
    /\ \/ job[p] = "succeeded" /\ MoveTo(p, "fetching")
          /\ UNCHANGED <<gate, tries, timedOut, why, outcome>>
       \/ job[p] = "failed" /\ MoveTo(p, "asking")
          /\ UNCHANGED <<gate, tries, timedOut, why, outcome>>
       \/ job[p] = "gone" /\ Transient(p, FALSE)
       \/ GivesUpJob(p)
    /\ UNCHANGED <<main, stop, late, recorded, job>>

\* _fetch_result, and the check of the export
Fetched(p) ==
    /\ at[p] = "fetching"
    /\ \/ /\ job[p] = "succeeded"
          /\ Returns(p, "ok") /\ gate' = Grown
       \/ job[p] = "succeeded" /\ Permanent(p, "failed")
       \/ job[p] = "gone" /\ Transient(p, FALSE)
       \/ GivesUpJob(p)
    /\ UNCHANGED <<main, stop, late, recorded, job>>

\* A failed job: a 504 has one more chance, an outage is transient, the rest is the paper.
Asked(p) ==
    /\ at[p] = "asking"
    /\ \/ /\ p \notin timedOut /\ tries[p] <= Retries
          /\ timedOut' = timedOut \cup {p} /\ MoveTo(p, "backoff")
          /\ UNCHANGED <<gate, tries, why, outcome>>
       \/ Transient(p, TRUE)
       \/ \E result \in {"failed", "auth"} : Permanent(p, result)
    /\ UNCHANGED <<main, stop, late, recorded, job>>

\* The DELETE is answered, or given up after CANCEL_TIMEOUT; then the task goes on.
Walked(p) ==
    /\ at[p] = "walking"
    /\ \/ job' = [job EXCEPT ![p] = IF @ = "queued" THEN "gone" ELSE @]
       \/ CutOff({p})
    /\ CASE why[p] = "transient" -> Transient(p, TRUE)
         [] why[p] = "cancelled" -> /\ MoveTo(p, "cancelled")
                                    /\ UNCHANGED <<gate, tries, timedOut, why, outcome>>
         [] OTHER -> Permanent(p, why[p])
    /\ UNCHANGED <<main, stop, late, recorded>>

Task(p) ==
    \/ Again(p) \/ Accepts(p) \/ Submitted(p) \/ QueueFull(p) \/ Refused(p)
    \/ Polled(p) \/ Fetched(p) \/ Asked(p) \/ Walked(p)

-----------------------------------------------------------------------------
(* run                                                                      *)

RecordAll(papers) ==
    recorded' = [p \in Papers |-> recorded[p] + IF p \in papers THEN 1 ELSE 0]

Room(flying) == IF gate > Cardinality(flying) THEN gate - Cardinality(flying) ELSE 0

\* The papers a turn of the loop starts: as many as the gate has room for, none after
\* the deadline or a stop.
Launchable(flying, stopped) ==
    LET waiting == PapersAt({"pending"})
    IN IF stopped \/ late THEN {{}}
       ELSE {c \in SUBSET waiting : \/ Cardinality(c) = Room(flying)
                                    \/ c = waiting /\ Cardinality(c) < Room(flying)}

Started(c, places) == [p \in Papers |-> IF p \in c THEN "submitting" ELSE places[p]]
Collected(places) == [p \in Papers |-> IF at[p] = "done" THEN "recorded" ELSE places[p]]

\* wait_ready answers and the loop begins; or the serve is never ready, and no paper is
\* started.
Ready ==
    /\ main = "starting"
    /\ \E c \in Launchable({}, stop) \cup {{}} :
          /\ at' = Started(c, at) /\ tries' = [p \in Papers |-> IF p \in c THEN 1 ELSE 0]
          /\ main' = IF c = {} THEN "over" ELSE "looping"
    /\ UNCHANGED <<stop, late, gate, timedOut, why, outcome, recorded, job>>

\* Ctrl-C ends the wait.  A turn of the loop: record what is done, then start more; or,
\* after a stop or with a refused token, drain what is in flight.
Turn ==
    /\ main = "looping" /\ (stop \/ PapersAt({"done"}) # {})
    /\ RecordAll(PapersAt({"done"}))
    /\ stop' = (stop \/ \E p \in PapersAt({"done"}) : outcome[p] = "auth")
    /\ \E c \in Launchable(InFlight, stop') :
          /\ at' = Started(c, Collected(at))
          /\ tries' = [p \in Papers |-> IF p \in c THEN 1 ELSE tries[p]]
          /\ main' = IF InFlight \cup c = {} THEN "over"
                     ELSE IF stop' THEN "draining" ELSE "looping"
    /\ UNCHANGED <<late, gate, timedOut, why, outcome, job>>

\* The first Ctrl-C; the deadline for submissions.
CtrlC ==
    /\ main \in {"starting", "looping"} /\ ~stop /\ stop' = TRUE
    /\ UNCHANGED <<main, late, gate, taskVars, recorded, job>>

DeadlinePasses ==
    /\ main \in {"starting", "looping"} /\ ~late /\ late' = TRUE
    /\ UNCHANGED <<main, stop, gate, taskVars, recorded, job>>

\* Mutant: the job is deleted on errors, not on a cancellation.
KnowsNothing == {}

\* A task whose job is known catches its first cancellation to DELETE the job; one that
\* is cancelled in the DELETE, or before it knows the job, just ends.
Knows == {"polling", "fetching"}

Cancelled(papers) ==
    [p \in Papers |-> IF p \notin papers THEN at[p]
                      ELSE IF at[p] \in Knows THEN "walking" ELSE "cancelled"]

\* The jobs no DELETE will reach.
OutOfReach == PapersAt({"accepted", "walking"})

\* _drain: the grace time is over, or every paper was done before.  What is done is
\* recorded, the rest is cancelled.
Drained ==
    /\ main = "draining"
    /\ RecordAll(PapersAt({"done"}))
    /\ at' = Collected(Cancelled(InFlight))
    /\ why' = [p \in Papers |-> IF p \in InFlight THEN "cancelled" ELSE why[p]]
    /\ CutOff(OutOfReach)
    /\ main' = IF InFlight = {} THEN "over" ELSE "gathering"
    /\ UNCHANGED <<stop, late, gate, tries, timedOut, outcome>>

\* The second Ctrl-C, while the loop waits: asyncio.run cancels run and every task, and
\* run cancels the tasks once more, which may hit the DELETE the first one began.
SecondCtrlC ==
    /\ stop /\ main \in {"looping", "draining", "gathering"}
    /\ \E twice \in SUBSET PapersAt(Knows) :
          /\ at' = [p \in Papers |-> IF p \in twice THEN "cancelled"
                                     ELSE Cancelled(InFlight)[p]]
          /\ CutOff(OutOfReach \cup twice)
    /\ why' = [p \in Papers |-> IF p \in InFlight THEN "cancelled" ELSE why[p]]
    /\ main' = "unwinding"
    /\ UNCHANGED <<stop, late, gate, tries, timedOut, outcome, recorded>>

\* Mutant: a task that was done when run was cancelled gets no outcome.
OnlyCancelled == PapersAt({"cancelled"})

Last == PapersAt({"done", "cancelled"})

\* Every cancelled task has ended, and its paper is recorded as interrupted; with it
\* one that was done when the second Ctrl-C came.
Gathered ==
    /\ main \in {"gathering", "unwinding"} /\ InFlight = {}
    /\ at' = [p \in Papers |-> IF p \in Last THEN "recorded" ELSE at[p]]
    /\ outcome' = [p \in Papers |-> IF p \in Last THEN "interrupted" ELSE outcome[p]]
    /\ RecordAll(Last)
    /\ main' = "over"
    /\ UNCHANGED <<stop, late, gate, tries, timedOut, why, job>>

\* What run is about to hand to on_outcome.
Due == IF main \in {"looping", "draining"} THEN PapersAt({"done"})
       ELSE IF InFlight = {} THEN Last ELSE {}

\* on_outcome raises when some of it is recorded (the ledger cannot be written, the
\* second Ctrl-C comes just then): run ends with the error and closes the client, and
\* the tasks asyncio.run cancels behind it reach the serve no more.
OutcomeRefused ==
    /\ main \in {"looping", "draining", "gathering", "unwinding"}
    /\ \E noted \in (SUBSET Due) \ {Due} :
          /\ RecordAll(noted)
          /\ at' = [p \in Papers |-> IF p \in noted THEN "recorded"
                                     ELSE IF p \in InFlight THEN "cancelled" ELSE at[p]]
          /\ outcome' = [p \in Papers |->
                            IF p \in noted /\ main \in {"gathering", "unwinding"}
                            THEN "interrupted" ELSE outcome[p]]
          /\ stop' = (stop \/ (main = "looping" /\ \E p \in noted : outcome[p] = "auth"))
    /\ CutOff(InFlight)
    /\ main' = "failed"
    /\ UNCHANGED <<late, gate, tries, timedOut, why>>

-----------------------------------------------------------------------------
(* The serve                                                                *)

\* The task of a paper will still learn of its job, follow it or delete it.
Follows(p) == at[p] \in {"accepted", "polling", "fetching", "asking", "walking"}

\* A job is taken up, ends, is swept away.  One nobody follows makes no difference.
JobStep(p) ==
    /\ Follows(p)
    /\ \E next \in {"running", "succeeded", "failed", "gone"} :
          /\ \/ job[p] = "queued" /\ next \in {"running", "gone"}
             \/ job[p] = "running" /\ next # "running"
             \/ job[p] \in {"succeeded", "failed"} /\ next = "gone"
          /\ job' = [job EXCEPT ![p] = next]
    /\ UNCHANGED <<main, stop, late, gate, taskVars, recorded>>

-----------------------------------------------------------------------------
Init ==
    /\ main = "starting" /\ stop = FALSE /\ late = FALSE /\ gate = InitialGate
    /\ at = [p \in Papers |-> "pending"] /\ tries = [p \in Papers |-> 0]
    /\ timedOut = {} /\ why = [p \in Papers |-> "none"]
    /\ outcome = [p \in Papers |-> "none"] /\ recorded = [p \in Papers |-> 0]
    /\ job = [p \in Papers |-> "none"]

Main == Turn \/ Drained \/ Gathered

Next ==
    \/ \E p \in Papers : Task(p) \/ JobStep(p)
    \/ Ready \/ Main \/ OutcomeRefused \/ CtrlC \/ SecondCtrlC \/ DeadlinePasses

Spec == Init /\ [][Next]_vars

\* Requests, sleeps and the grace time end; the serve need not get on with any job.
FairSpec == Spec /\ WF_vars(Ready) /\ WF_vars(Main) /\ \A p \in Papers : WF_vars(Task(p))

-----------------------------------------------------------------------------
\* Each paper that was started gets one outcome, also one whose task ends while a
\* Ctrl-C, the drain or the second Ctrl-C is under way (run's on_outcome calls).  Only a
\* run that fails on one of them leaves papers without, and none of them gets two.
RecordedOnce ==
    /\ \A p \in Papers : recorded[p] <= 1
    /\ main = "over" => \A p \in Papers : tries[p] > 0 => recorded[p] = 1

\* A job waits at the serve for nobody only when the answer to its upload or its DELETE
\* was lost, a Ctrl-C cut one of them off or the run failed with its client: no other
\* retry, timeout, drain or cancellation leaves one behind (_attempt's except clause).
NoOrphans == \A p \in Papers : job[p] = "queued" => Follows(p)

\* Whatever the serve does, the run ends: every loop over a job, an upload and a
\* download has its limit.
RunEnds == (main = "looping") ~> (main \in {"over", "failed"})
=============================================================================
