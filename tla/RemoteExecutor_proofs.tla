----------------------- MODULE RemoteExecutor_proofs ------------------------
(***************************************************************************)
(* Proofs about RemoteExecutor for any number of papers, any retries and   *)
(* any gate: a paper that was started gets one outcome, and no job is left *)
(* in the queue of the serve by a path the executor could have deleted it  *)
(* on.                                                                     *)
(*                                                                         *)
(* Steps of one task (OneTask) and steps of the run over all papers are    *)
(* treated apart: a task changes one entry of at and job and no outcome is *)
(* recorded; a step of the run never makes a job.                          *)
(***************************************************************************)
EXTENDS RemoteExecutor, TLAPS

Mains == {"starting", "looping", "draining", "gathering", "unwinding", "over",
          "failed"}
JobStates == {"none", "queued", "running", "succeeded", "failed", "gone", "adrift"}

TypeInv ==
    /\ main \in Mains /\ stop \in BOOLEAN /\ late \in BOOLEAN
    /\ at \in [Papers -> Places] /\ tries \in [Papers -> Nat]
    /\ recorded \in [Papers -> Nat] /\ job \in [Papers -> JobStates]
    /\ why \in [Papers -> {"none", "transient", "failed", "auth", "cancelled"}]

\* What an awaited answer says of the job, and that nobody is missed out.
JobOf(p) ==
    /\ at[p] = "asking" => job[p] \in {"failed", "gone"}
    /\ job[p] = "queued" => Follows(p)

Waiting == {"pending", "done", "cancelled", "recorded"}

OutcomeOf(p) ==
    /\ recorded[p] = IF at[p] = "recorded" THEN 1 ELSE 0
    /\ at[p] = "pending" => tries[p] = 0
    /\ main = "starting" => at[p] = "pending"
    /\ main = "over" => at[p] \in {"pending", "recorded"}
    /\ main \in {"looping", "draining"} =>
          at[p] # "cancelled" /\ (at[p] = "walking" => why[p] # "cancelled")

ExecutorInv == TypeInv /\ \A p \in Papers : JobOf(p) /\ OutcomeOf(p)

-----------------------------------------------------------------------------
(* The first state satisfies the invariant, and the invariant gives the     *)
(* properties.                                                              *)

LEMMA InitInv == Init => ExecutorInv
<1> SUFFICES ASSUME Init PROVE ExecutorInv
    OBVIOUS
<1>1. TypeInv
    BY DEF Init, TypeInv, Mains, JobStates, Places
<1>2. ASSUME NEW p \in Papers PROVE JobOf(p) /\ OutcomeOf(p)
    BY <1>2 DEF Init, JobOf, OutcomeOf
<1> QED
    BY <1>1, <1>2 DEF ExecutorInv

LEMMA InvGivesNoOrphans == ExecutorInv => NoOrphans
BY DEF ExecutorInv, JobOf, NoOrphans

LEMMA InvGivesRecordedOnce == ExecutorInv => RecordedOnce
<1> SUFFICES ASSUME ExecutorInv PROVE RecordedOnce
    OBVIOUS
<1> USE DEF ExecutorInv, TypeInv, OutcomeOf
<1>1. ASSUME NEW p \in Papers PROVE recorded[p] <= 1
    BY <1>1
<1>2. ASSUME main = "over", NEW p \in Papers, tries[p] > 0 PROVE recorded[p] = 1
    BY <1>2
<1> QED
    BY <1>1, <1>2 DEF RecordedOnce

-----------------------------------------------------------------------------
(* One task.                                                                *)

\* A step of the task of one paper, or of its job, that keeps what the paper's part of the
\* invariant says.
OneTask(p) ==
    /\ UNCHANGED <<main, stop, late, recorded>>
    /\ at[p] \notin Waiting /\ at'[p] \in Places \ {"pending", "recorded"}
    /\ at' = [at EXCEPT ![p] = at'[p]] /\ job' = [job EXCEPT ![p] = job'[p]]
    /\ why' = [why EXCEPT ![p] = why'[p]] /\ tries' = [tries EXCEPT ![p] = tries'[p]]
    /\ job'[p] \in JobStates /\ tries'[p] \in Nat
    /\ why'[p] \in {"none", "transient", "failed", "auth", "cancelled"}
    /\ JobOf(p)'
    /\ at'[p] = "cancelled" => at[p] = "walking" /\ why[p] = "cancelled"
    /\ at'[p] = "walking" => why'[p] # "cancelled" \/ (at[p] = "walking" /\ why[p] = "cancelled")

LEMMA OneTaskKeeps ==
    ASSUME ExecutorInv, NEW p \in Papers, OneTask(p) PROVE ExecutorInv'
<1> USE DEF ExecutorInv
<1>1. TypeInv'
    BY DEF OneTask, TypeInv
<1>2. ASSUME NEW q \in Papers PROVE JobOf(q)'
    BY <1>2 DEF OneTask, TypeInv, JobOf, Follows
<1>3. ASSUME NEW q \in Papers PROVE OutcomeOf(q)'
    BY <1>3 DEF OneTask, TypeInv, OutcomeOf, Waiting, Mains
<1> QED
    BY <1>1, <1>2, <1>3

\* What becomes of a task whose attempt has failed.
LEMMA GivenUp ==
    ASSUME TypeInv, NEW p \in Papers,
           \/ \E shrinks \in BOOLEAN : Transient(p, shrinks)
           \/ RetryOrGiveUp(p)
           \/ \E result : Permanent(p, result)
    PROVE  /\ at' = [at EXCEPT ![p] = at'[p]] /\ at'[p] \in {"backoff", "done"}
           /\ UNCHANGED <<tries, why>>
BY DEF Transient, RetryOrGiveUp, Permanent, Returns, MoveTo, TypeInv

LEMMA WalkedAway ==
    ASSUME TypeInv, NEW p \in Papers, GivesUpJob(p)
    PROVE  /\ at' = [at EXCEPT ![p] = "walking"]
           /\ why' = [why EXCEPT ![p] = why'[p]]
           /\ why'[p] \in {"transient", "failed", "auth"} /\ UNCHANGED tries
BY DEF GivesUpJob, WalkAway, MoveTo, TypeInv

LEMMA CutOffOne ==
    ASSUME TypeInv, NEW p \in Papers, CutOff({p})
    PROVE  /\ job' = [job EXCEPT ![p] = job'[p]] /\ job'[p] \in JobStates \ {"queued"}
           /\ job[p] # "queued" => job'[p] = job[p]
BY DEF CutOff, TypeInv, JobStates

LEMMA TaskSteps ==
    ASSUME ExecutorInv, NEW p \in Papers, Task(p) PROVE OneTask(p) \/ UNCHANGED vars
<1> USE DEF ExecutorInv
<1> TypeInv /\ JobOf(p)
    OBVIOUS
<1>1. CASE Again(p)
    BY <1>1 DEF Again, MoveTo, OneTask, Waiting, Places, TypeInv, JobOf, Follows
<1>2. CASE Accepts(p)
    BY <1>2 DEF Accepts, MoveTo, OneTask, Waiting, Places, TypeInv, JobStates, JobOf, Follows
<1>3. CASE Submitted(p)
    <2>1. CASE MoveTo(p, "polling") /\ UNCHANGED <<gate, tries, timedOut, why, outcome, job>>
        BY <1>3, <2>1 DEF Submitted, MoveTo, OneTask, Waiting, Places, TypeInv, JobOf, Follows
    <2>2. CASE (Transient(p, TRUE) \/ Permanent(p, "failed")) /\ CutOff({p})
        BY <1>3, <2>2, GivenUp, CutOffOne
        DEF Submitted, OneTask, Waiting, Places, TypeInv, JobOf, Follows
    <2> QED
        BY <1>3, <2>1, <2>2 DEF Submitted
<1>4. CASE QueueFull(p)
    <2>1. CASE UNCHANGED taskVars
        BY <1>4, <2>1
        DEF QueueFull, OneTask, Waiting, Places, TypeInv, JobOf, Follows, taskVars
    <2>2. CASE RetryOrGiveUp(p)
        BY <1>4, <2>2, GivenUp DEF QueueFull, OneTask, Waiting, Places, TypeInv, JobOf, Follows
    <2> QED
        BY <1>4, <2>1, <2>2 DEF QueueFull
<1>5. CASE Refused(p)
    BY <1>5, GivenUp DEF Refused, OneTask, Waiting, Places, TypeInv, JobOf, Follows
<1>6. CASE Polled(p)
    <2>1. CASE GivesUpJob(p)
        BY <1>6, <2>1, WalkedAway DEF Polled, OneTask, Waiting, Places, TypeInv, JobOf, Follows
    <2>2. CASE job[p] = "gone" /\ Transient(p, FALSE)
        BY <1>6, <2>2, GivenUp DEF Polled, OneTask, Waiting, Places, TypeInv, JobOf, Follows
    <2>3. CASE ~GivesUpJob(p) /\ ~(job[p] = "gone" /\ Transient(p, FALSE))
        BY <1>6, <2>3 DEF Polled, MoveTo, OneTask, Waiting, Places, TypeInv, JobOf, Follows
    <2> QED
        BY <2>1, <2>2, <2>3
<1>7. CASE Fetched(p)
    <2>1. CASE GivesUpJob(p)
        BY <1>7, <2>1, WalkedAway DEF Fetched, OneTask, Waiting, Places, TypeInv, JobOf, Follows
    <2>2. CASE job[p] \in {"gone", "succeeded"} /\ (Transient(p, FALSE) \/ Permanent(p, "failed"))
        BY <1>7, <2>2, GivenUp DEF Fetched, OneTask, Waiting, Places, TypeInv, JobOf, Follows
    <2>3. CASE job[p] = "succeeded" /\ Returns(p, "ok")
        BY <1>7, <2>3
        DEF Fetched, Returns, MoveTo, OneTask, Waiting, Places, TypeInv, JobOf, Follows
    <2> QED
        BY <1>7, <2>1, <2>2, <2>3 DEF Fetched
<1>8. CASE Asked(p)
    <2>1. CASE MoveTo(p, "backoff") /\ UNCHANGED <<gate, tries, why, outcome>>
        BY <1>8, <2>1 DEF Asked, MoveTo, OneTask, Waiting, Places, TypeInv, JobOf, Follows
    <2>2. CASE Transient(p, TRUE) \/ \E result \in {"failed", "auth"} : Permanent(p, result)
        BY <1>8, <2>2, GivenUp DEF Asked, OneTask, Waiting, Places, TypeInv, JobOf, Follows
    <2> QED
        BY <1>8, <2>1, <2>2 DEF Asked
<1>9. CASE Walked(p)
    <2>1. /\ job' = [job EXCEPT ![p] = job'[p]] /\ job'[p] \in JobStates \ {"queued"}
        BY <1>9, CutOffOne DEF Walked, TypeInv, JobStates
    <2>2. CASE why[p] = "cancelled" /\ MoveTo(p, "cancelled") /\ UNCHANGED <<tries, why>>
        BY <1>9, <2>1, <2>2 DEF Walked, MoveTo, OneTask, Waiting, Places, TypeInv, JobOf, Follows
    <2>3. CASE Transient(p, TRUE) \/ \E result : Permanent(p, result)
        BY <1>9, <2>1, <2>3, GivenUp
        DEF Walked, OneTask, Waiting, Places, TypeInv, JobOf, Follows
    <2> QED
        BY <1>9, <2>2, <2>3 DEF Walked
<1> QED
    BY <1>1, <1>2, <1>3, <1>4, <1>5, <1>6, <1>7, <1>8, <1>9 DEF Task

LEMMA JobSteps ==
    ASSUME ExecutorInv, NEW p \in Papers, JobStep(p) PROVE OneTask(p)
<1> TypeInv /\ JobOf(p)
    BY DEF ExecutorInv
<1>1. /\ job' = [job EXCEPT ![p] = job'[p]]
      /\ job'[p] \in {"running", "succeeded", "failed", "gone"}
      /\ at[p] = "asking" => job'[p] \in {"failed", "gone"}
    BY DEF JobStep, TypeInv, JobOf
<1> QED
    BY <1>1 DEF JobStep, Follows, taskVars, OneTask, TypeInv, JobStates, Waiting, Places, JobOf

-----------------------------------------------------------------------------
(* The run.                                                                 *)

LEMMA ReadySteps == ASSUME ExecutorInv, Ready PROVE ExecutorInv'
<1> USE DEF ExecutorInv
<1>1. PICK c \in SUBSET Papers :
         /\ c \subseteq PapersAt({"pending"})
         /\ at' = Started(c, at) /\ tries' = [p \in Papers |-> IF p \in c THEN 1 ELSE 0]
         /\ main' = IF c = {} THEN "over" ELSE "looping"
    BY DEF Ready, Launchable, PapersAt
<1>2. TypeInv'
    BY <1>1 DEF Ready, Started, TypeInv, Places, Mains
<1>3. ASSUME NEW p \in Papers PROVE JobOf(p)' /\ OutcomeOf(p)'
    BY <1>1, <1>3 DEF Ready, Started, TypeInv, JobOf, OutcomeOf, Follows
<1> QED
    BY <1>2, <1>3

LEMMA TurnSteps == ASSUME ExecutorInv, Turn PROVE ExecutorInv'
<1> USE DEF ExecutorInv
<1>1. PICK c \in SUBSET Papers :
         /\ c \subseteq PapersAt({"pending"})
         /\ at' = Started(c, Collected(at))
         /\ tries' = [p \in Papers |-> IF p \in c THEN 1 ELSE tries[p]]
         /\ main' = IF InFlight \cup c = {} THEN "over"
                    ELSE IF stop' THEN "draining" ELSE "looping"
    BY DEF Turn, Launchable, PapersAt
<1>2. TypeInv'
    BY <1>1 DEF Turn, Started, Collected, RecordAll, TypeInv, Places, Mains
<1>3. ASSUME NEW p \in Papers PROVE JobOf(p)'
    BY <1>1, <1>3 DEF Turn, Started, Collected, PapersAt, TypeInv, JobOf, Follows
<1>4. ASSUME NEW p \in Papers PROVE OutcomeOf(p)'
    <2>1. main' = "over" => p \notin c /\ p \notin InFlight
        BY <1>1, <1>4
    <2>2. p \notin InFlight => at[p] \in Waiting
        BY <1>4 DEF InFlight, PapersAt, Waiting, TypeInv
    <2> QED
        BY <1>1, <1>4, <2>1, <2>2
        DEF Turn, Started, Collected, RecordAll, PapersAt, Waiting, TypeInv, OutcomeOf
<1> QED
    BY <1>2, <1>3, <1>4

LEMMA DrainedSteps == ASSUME ExecutorInv, Drained PROVE ExecutorInv'
<1> USE DEF ExecutorInv
<1>1. TypeInv'
    BY DEF Drained, Collected, Cancelled, RecordAll, CutOff, TypeInv, Places, Mains, JobStates
<1>2. ASSUME NEW p \in Papers PROVE JobOf(p)'
    BY <1>2 DEF Drained, Collected, Cancelled, CutOff, OutOfReach, Knows, InFlight, PapersAt,
                TypeInv, JobOf, Follows, Places
<1>3. ASSUME NEW p \in Papers PROVE OutcomeOf(p)'
    <2>1. p \notin InFlight <=> at[p] \in Waiting
        BY <1>3 DEF InFlight, PapersAt, Waiting, TypeInv
    <2>2. main' = "over" => p \notin InFlight
        BY <1>3 DEF Drained
    <2> QED
        BY <1>3, <2>1, <2>2 DEF Drained, Collected, Cancelled, RecordAll, PapersAt, Waiting,
                                TypeInv, OutcomeOf
<1> QED
    BY <1>1, <1>2, <1>3

LEMMA SecondCtrlCSteps == ASSUME ExecutorInv, SecondCtrlC PROVE ExecutorInv'
<1> USE DEF ExecutorInv
<1>1. PICK twice \in SUBSET PapersAt(Knows) :
         /\ at' = [p \in Papers |-> IF p \in twice THEN "cancelled"
                                    ELSE Cancelled(InFlight)[p]]
         /\ CutOff(OutOfReach \cup twice)
    BY DEF SecondCtrlC
<1>2. TypeInv'
    BY <1>1 DEF SecondCtrlC, Cancelled, CutOff, TypeInv, Places, Mains, JobStates
<1>3. ASSUME NEW p \in Papers PROVE JobOf(p)'
    BY <1>1, <1>3 DEF SecondCtrlC, Cancelled, CutOff, OutOfReach, Knows, InFlight, PapersAt,
                      TypeInv, JobOf, Follows, Places
<1>4. ASSUME NEW p \in Papers PROVE OutcomeOf(p)'
    <2>1. p \notin InFlight <=> at[p] \in Waiting
        BY <1>4 DEF InFlight, PapersAt, Waiting, TypeInv
    <2> QED
        BY <1>1, <1>4, <2>1 DEF SecondCtrlC, Cancelled, PapersAt, Knows, Waiting, TypeInv,
                                OutcomeOf
<1> QED
    BY <1>2, <1>3, <1>4

LEMMA GatheredSteps == ASSUME ExecutorInv, Gathered PROVE ExecutorInv'
<1> USE DEF ExecutorInv
<1>1. TypeInv'
    BY DEF Gathered, RecordAll, TypeInv, Places, Mains
<1>2. ASSUME NEW p \in Papers PROVE JobOf(p)'
    BY <1>2 DEF Gathered, Last, PapersAt, TypeInv, JobOf, Follows
<1>3. ASSUME NEW p \in Papers PROVE OutcomeOf(p)'
    <2>1. at[p] \in Waiting
        BY <1>3 DEF Gathered, InFlight, PapersAt, Waiting, TypeInv
    <2> QED
        BY <1>3, <2>1 DEF Gathered, Last, RecordAll, PapersAt, Waiting, TypeInv, OutcomeOf
<1> QED
    BY <1>1, <1>2, <1>3

LEMMA OutcomeRefusedSteps == ASSUME ExecutorInv, OutcomeRefused PROVE ExecutorInv'
<1> USE DEF ExecutorInv
<1>1. PICK noted \in SUBSET Due :
         /\ RecordAll(noted)
         /\ at' = [p \in Papers |-> IF p \in noted THEN "recorded"
                                    ELSE IF p \in InFlight THEN "cancelled" ELSE at[p]]
         /\ stop' \in BOOLEAN
    BY DEF OutcomeRefused, TypeInv
<1>2. noted \subseteq PapersAt({"done", "cancelled"})
    BY <1>1 DEF Due, Last, PapersAt
<1>3. TypeInv'
    BY <1>1 DEF OutcomeRefused, RecordAll, CutOff, TypeInv, Places, Mains, JobStates
<1>4. ASSUME NEW p \in Papers PROVE JobOf(p)'
    BY <1>1, <1>2, <1>4 DEF OutcomeRefused, CutOff, InFlight, PapersAt, TypeInv, JobOf, Follows,
                            Places
<1>5. ASSUME NEW p \in Papers PROVE OutcomeOf(p)'
    <2>1. p \notin InFlight <=> at[p] \in Waiting
        BY <1>5 DEF InFlight, PapersAt, Waiting, TypeInv
    <2> QED
        BY <1>1, <1>2, <1>5, <2>1 DEF OutcomeRefused, RecordAll, PapersAt, Waiting, TypeInv,
                                      OutcomeOf
<1> QED
    BY <1>3, <1>4, <1>5

-----------------------------------------------------------------------------
LEMMA NextInv == ASSUME ExecutorInv, [Next]_vars PROVE ExecutorInv'
<1>1. CASE UNCHANGED vars
    BY <1>1 DEF ExecutorInv, TypeInv, JobOf, OutcomeOf, Follows, vars, taskVars
<1>2. ASSUME NEW p \in Papers, Task(p) PROVE ExecutorInv'
    BY <1>1, <1>2, TaskSteps, OneTaskKeeps
<1>3. ASSUME NEW p \in Papers, JobStep(p) PROVE ExecutorInv'
    BY <1>3, JobSteps, OneTaskKeeps
<1>4. CASE CtrlC \/ DeadlinePasses
    BY <1>4 DEF CtrlC, DeadlinePasses, ExecutorInv, TypeInv, JobOf, OutcomeOf, Follows, taskVars
<1> QED
    BY <1>1, <1>2, <1>3, <1>4, ReadySteps, TurnSteps, DrainedSteps, SecondCtrlCSteps,
       GatheredSteps, OutcomeRefusedSteps DEF Next, Main

LEMMA InvHolds == Spec => []ExecutorInv
<1>1. Init => ExecutorInv
    BY InitInv
<1>2. ExecutorInv /\ [Next]_vars => ExecutorInv'
    BY NextInv
<1> QED
    BY <1>1, <1>2, PTL DEF Spec

\* Every paper that was started gets one outcome, whatever Ctrl-C, the deadline and the
\* drain cut short, and none gets two when the run fails on one (on_outcome).
THEOREM RecordedOnceAlways == Spec => []RecordedOnce
BY InvHolds, InvGivesRecordedOnce, PTL

\* No path that could delete a queued job leaves it at the serve (_attempt).
THEOREM NoOrphansAlways == Spec => []NoOrphans
BY InvHolds, InvGivesNoOrphans, PTL
=============================================================================
