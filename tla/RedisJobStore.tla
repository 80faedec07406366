--------------------------- MODULE RedisJobStore ----------------------------
(* The shared job store: class RedisJobStore on every replica, and the Redis  *)
(* scripts it calls.  A script is one step of the server.  Its reply may be   *)
(* lost, the command may run after its caller gave up on it, leases lapse,    *)
(* and replicas die.  The byte budget is left out (MemoryJobStore has it).    *)
EXTENDS Naturals, FiniteSets

CONSTANTS Jobs, Replicas,
          Home,          \* the replica that receives the POST of a job
          Fragile,       \* the replicas that may die
          MaxActive,     \* JOBS_MAX_ACTIVE
          MaxRetained,   \* JOBS_MAX_RETAINED
          MaxLate        \* bound: commands given up on that may still run

ASSUME RedisAssumption ==
    /\ IsFiniteSet(Jobs) /\ Home \in [Jobs -> Replicas] /\ Fragile \subseteq Replicas
    /\ MaxActive \in Nat /\ MaxRetained \in Nat /\ MaxLate \in Nat

VARIABLES
    record,    \* the status in the job's hash
    active,    \* the set of active ids, which the cap counts
    lease,     \* the jobs whose lease key exists
    up,        \* the replicas that live
    owned,     \* the jobs of which some replica keeps the id in _owned
    renewal,   \* per replica, the ids in the renewal it has sent
    at,        \* where the replica of a job is with it
    call,      \* its outstanding command: "none", "out", or the reply "yes" or "no"
    late,      \* commands given up on that have not run yet
    blind      \* history: jobs that run although set_running got no answer

serverVars == <<record, active, lease>>
runnerVars == <<at, call>>
vars == <<serverVars, runnerVars, up, owned, renewal, late, blind>>

Running == {"queued", "running"}
Outcomes == {"ended", "abandoned", "cancelled", "lost"}
Statuses == {"none", "gone"} \cup Running \cup Outcomes
Ending == {"finishing", "abandonRunning", "abandonQueued"}
Stages == {"idle", "creating", "queued", "claiming", "executing", "discarding", "done", "dead"}
          \cup Ending
Commands == [stage : Stages, job : Jobs]

Exists(j) == record[j] \notin {"none", "gone"}

-----------------------------------------------------------------------------
(* The scripts.  "ok" is the reply.                                         *)

\* Mutant: a job whose lease lapsed is failed and keeps its slot.
KeptIfLost == {k \in active : Exists(k)}

\* The ids that keep a slot: the record exists and its lease has not lapsed.
Kept == {k \in active : Exists(k) /\ k \in lease}

CreateScript(j, ok) ==
    LET lost == {k \in active \ Kept : Exists(k)} IN
    /\ ok <=> Cardinality(Kept) < MaxActive
    /\ active' = IF ok THEN Kept \cup {j} ELSE Kept
    /\ lease' = IF ok THEN lease \cup {j} ELSE lease
    /\ record' = [k \in Jobs |-> IF k \in lost THEN "lost"
                                 ELSE IF ok /\ k = j THEN "queued" ELSE record[k]]

\* Mutant: a job that is no longer queued is claimed as well.
RunningScriptAnyStatus(j, ok) ==
    /\ ok <=> Exists(j)
    /\ record' = IF ok THEN [record EXCEPT ![j] = "running"] ELSE record
    /\ UNCHANGED <<active, lease>>

\* Mutant: the claim writes a status that is none of the store's.
RunningScriptOddStatus(j, ok) ==
    /\ ok <=> record[j] = "queued"
    /\ record' = IF ok THEN [record EXCEPT ![j] = "started"] ELSE record
    /\ UNCHANGED <<active, lease>>

RunningScript(j, ok) ==
    /\ ok <=> record[j] = "queued"
    /\ record' = IF ok THEN [record EXCEPT ![j] = "running"] ELSE record
    /\ UNCHANGED <<active, lease>>

\* Mutant: a record that is gone is written again.
WrittenAlways(j) == TRUE

Written(j) == Exists(j)

\* Mutant: the budget is checked before the finished job is counted.
KeepsOneMore(kept, finished) ==
    \/ Cardinality(kept) = MaxRetained + 1
    \/ kept = finished /\ Cardinality(finished) <= MaxRetained

KeepsRest(kept, finished) ==
    \/ Cardinality(kept) = MaxRetained
    \/ kept = finished /\ Cardinality(finished) < MaxRetained

\* Mutant: the slot is given back before the required status is looked at.
FinishScriptSlotFirst(j, to, required, ok) ==
    /\ ok <=> record[j] \in required
    /\ active' = active \ {j} /\ lease' = lease \ {j}
    /\ record' = [record EXCEPT ![j] = IF ok THEN to ELSE record[j]]

\* The finish transition: give the slot and the lease back, write the outcome if the
\* record is there, and drop finished jobs beyond the budget, oldest first: the finish
\* times come from the clocks of different hosts, so any of them may be the oldest.
FinishScript(j, to, required, ok) ==
    /\ ok <=> record[j] \in required
    /\ IF ~ok THEN UNCHANGED serverVars
       ELSE LET written == IF Written(j) THEN [record EXCEPT ![j] = to] ELSE record
                finished == {k \in Jobs : written[k] \in Outcomes}
            IN /\ active' = active \ {j}
               /\ lease' = lease \ {j}
               /\ \E kept \in SUBSET finished :
                     /\ KeepsRest(kept, finished)
                     /\ record' = [k \in Jobs |-> IF k \in finished \ kept THEN "gone"
                                                  ELSE written[k]]

DiscardPipe(j, ok) ==
    /\ ok
    /\ active' = active \ {j} /\ lease' = lease \ {j}
    /\ record' = [record EXCEPT ![j] = IF Exists(j) THEN "gone" ELSE record[j]]

\* The command a replica sends for job j at a stage.
Script(stage, j, ok) ==
    \/ stage = "creating" /\ CreateScript(j, ok)
    \/ stage = "claiming" /\ RunningScript(j, ok)
    \/ stage = "discarding" /\ DiscardPipe(j, ok)
    \/ stage = "finishing" /\ FinishScript(j, "ended", Statuses, ok)
    \/ stage = "abandonRunning" /\ FinishScript(j, "abandoned", {"running"}, ok)
    \/ stage = "abandonQueued" /\ FinishScript(j, "abandoned", {"queued"}, ok)

Move(j, stage) == at' = [at EXCEPT ![j] = stage]
Send(j, stage) == Move(j, stage) /\ call' = [call EXCEPT ![j] = "out"]
SettleAt(j, stage) == Move(j, stage) /\ call' = [call EXCEPT ![j] = "none"]
LetGo(j) == owned' = owned \ {j}

-----------------------------------------------------------------------------
(* What a replica does with a job.                                          *)

\* create(): only the answer tells the replica the job is its own.
Post(j) ==
    /\ at[j] = "idle" /\ Home[j] \in up
    /\ Send(j, "creating")
    /\ UNCHANGED <<serverVars, up, owned, renewal, late, blind>>

\* A refused or undeliverable upload: discard() lets go of the job first.
Discard(j) ==
    /\ at[j] = "queued"
    /\ Send(j, "discarding") /\ LetGo(j)
    /\ UNCHANGED <<serverVars, up, renewal, late, blind>>

Claim(j) ==
    /\ at[j] = "queued"
    /\ Send(j, "claiming")
    /\ UNCHANGED <<serverVars, up, owned, renewal, late, blind>>

\* set_succeeded or set_failed; every attempt writes the same outcome.
Finish(j) ==
    /\ at[j] = "executing"
    /\ Send(j, "finishing")
    /\ UNCHANGED <<serverVars, up, owned, renewal, late, blind>>

\* A command given up on may run later, if it has not run yet.
MayRunLate(S) ==
    \E lost \in SUBSET {[stage |-> at[j], job |-> j] : j \in {k \in S : call[k] = "out"}} :
        /\ Cardinality(late \cup lost) <= MaxLate
        /\ late' = late \cup lost

\* _record_abandoned: the shutdown fails a waiting job only if it is still queued,
\* and a held one (its last command may still be out) from running, then from queued.
Abandon(j) ==
    /\ \/ at[j] = "queued" /\ Send(j, "abandonQueued") /\ UNCHANGED owned
       \/ at[j] \in {"claiming", "executing"} /\ Send(j, "abandonRunning") /\ UNCHANGED owned
       \/ at[j] = "finishing" /\ Send(j, "abandonRunning") /\ LetGo(j)
    /\ MayRunLate({j})
    /\ UNCHANGED <<serverVars, up, renewal, blind>>

\* The server runs the outstanding command.
Runs(j) ==
    /\ call[j] = "out"
    /\ \E ok \in BOOLEAN : /\ Script(at[j], j, ok)
                           /\ call' = [call EXCEPT ![j] = IF ok THEN "yes" ELSE "no"]
    /\ UNCHANGED <<at, up, owned, renewal, late, blind>>

\* The second half of _record_abandoned for a held job; otherwise the job is done with.
AfterEnding(j) ==
    IF at[j] = "abandonRunning" THEN Send(j, "abandonQueued")
                                ELSE SettleAt(j, "done")

\* The reply arrives.
Answered(j) ==
    /\ call[j] \in {"yes", "no"}
    /\ \/ /\ at[j] = "creating" /\ call[j] = "yes"
          /\ SettleAt(j, "queued") /\ owned' = owned \cup {j}
       \/ /\ at[j] = "creating" /\ call[j] = "no"      \* 429: the client asks again
          /\ SettleAt(j, "idle")
          /\ UNCHANGED owned
       \/ /\ at[j] = "claiming" /\ call[j] = "yes"
          /\ SettleAt(j, "executing")
          /\ UNCHANGED owned
       \/ /\ at[j] = "claiming" /\ call[j] = "no"      \* cancelled, lost or evicted: skip it
          /\ SettleAt(j, "done") /\ LetGo(j)
       \/ /\ at[j] = "discarding"
          /\ SettleAt(j, "done")
          /\ UNCHANGED owned
       \/ at[j] \in Ending /\ AfterEnding(j) /\ LetGo(j)
    /\ UNCHANGED <<serverVars, up, renewal, late, blind>>

\* The reply does not come in time.  The caller of create answers 503 and knows no
\* id; set_running says "run it"; discard leaves the rest to the lease.
TimesOut(j) ==
    /\ call[j] # "none" /\ at[j] \in {"creating", "claiming", "discarding"}
    /\ MayRunLate({j})
    /\ SettleAt(j, IF at[j] = "claiming" THEN "executing" ELSE "done")
    /\ blind' = IF at[j] = "claiming" THEN blind \cup {j} ELSE blind
    /\ UNCHANGED <<serverVars, up, owned, renewal>>

\* A transition is sent again while TRANSITION_RETRY_SECONDS last.
Retries(j) ==
    /\ call[j] # "none" /\ at[j] \in Ending
    /\ MayRunLate({j})
    /\ call' = [call EXCEPT ![j] = "out"]
    /\ UNCHANGED <<serverVars, at, up, owned, renewal, blind>>

\* Mutant: a transition that could not be recorded keeps its job.
GivesUpKeeping(j) ==
    /\ call[j] # "none" /\ at[j] \in Ending
    /\ MayRunLate({j}) /\ AfterEnding(j)
    /\ UNCHANGED <<serverVars, up, owned, renewal, blind>>

\* Then the job is dropped and its lease lapses.
GivesUp(j) ==
    /\ call[j] # "none" /\ at[j] \in Ending
    /\ MayRunLate({j}) /\ AfterEnding(j) /\ LetGo(j)
    /\ UNCHANGED <<serverVars, up, renewal, blind>>

-----------------------------------------------------------------------------
(* Heartbeat, other replicas, faults, time.                                 *)

RenewSend(r) ==
    /\ r \in up /\ renewal[r] = {}
    /\ renewal' = [renewal EXCEPT ![r] = {j \in owned : Home[j] = r}]
    /\ UNCHANGED <<serverVars, runnerVars, up, owned, late, blind>>

\* Mutant: a lease that lapsed in a blip is not restored, its job is let go.
StillActiveIfLeased == active \cap lease

StillActive == active

\* Leases of active jobs are renewed or restored; the ids that are not active are
\* dropped when the reply arrives.
RenewRuns(r) ==
    /\ renewal[r] # {}
    /\ lease' = lease \cup (renewal[r] \cap StillActive)
    /\ \/ owned' = owned \ (renewal[r] \ StillActive)
       \/ owned' = owned                          \* the reply is lost
    /\ renewal' = [renewal EXCEPT ![r] = {}]
    /\ UNCHANGED <<record, active, runnerVars, up, late, blind>>

RenewFails(r) ==
    /\ renewal[r] # {}
    /\ renewal' = [renewal EXCEPT ![r] = {}]
    /\ UNCHANGED <<serverVars, runnerVars, up, owned, late, blind>>

\* A DELETE on any replica.  On the owner it also takes the job from the queue;
\* elsewhere, or when its reply is lost, the owner learns of it when it claims the job.
Cancels(j) ==
    /\ record[j] = "queued"
    /\ FinishScript(j, "cancelled", {"queued"}, TRUE)
    /\ \/ UNCHANGED <<owned, at>>
       \/ /\ Home[j] \in up /\ LetGo(j)
          /\ at' = IF at[j] = "queued" THEN [at EXCEPT ![j] = "done"] ELSE at
    /\ UNCHANGED <<call, up, renewal, late, blind>>

RunsLate(c) ==
    /\ c \in late
    /\ late' = late \ {c}
    /\ \E ok \in BOOLEAN : Script(c.stage, c.job, ok)
    /\ UNCHANGED <<runnerVars, up, owned, renewal, blind>>

\* A lease lapses when nobody renews it, or during an outage.
Lapses(j) ==
    /\ j \in lease
    /\ lease' = lease \ {j}
    /\ UNCHANGED <<record, active, runnerVars, up, owned, renewal, late, blind>>

\* Redis drops a finished record after JOBS_TTL_SECONDS, and an active record after the
\* safety TTL of a day: only one that nobody leases, owns or has a command out for.
Expires(j) ==
    /\ \/ record[j] \in Outcomes
       \/ /\ record[j] \in Running /\ j \notin lease \cup owned /\ call[j] = "none"
          /\ \A r \in Replicas : j \notin renewal[r]
    /\ record' = [record EXCEPT ![j] = "gone"]
    /\ UNCHANGED <<active, lease, runnerVars, up, owned, renewal, late, blind>>

Dies(r) ==
    LET mine == {j \in Jobs : Home[j] = r} IN
    /\ r \in Fragile \cap up
    /\ up' = up \ {r}
    /\ owned' = owned \ mine
    /\ renewal' = [renewal EXCEPT ![r] = {}]
    /\ MayRunLate(mine)
    /\ at' = [j \in Jobs |-> IF j \in mine /\ at[j] # "done" THEN "dead" ELSE at[j]]
    /\ call' = [j \in Jobs |-> IF j \in mine THEN "none" ELSE call[j]]
    /\ UNCHANGED <<serverVars, blind>>

-----------------------------------------------------------------------------
Init ==
    /\ record = [j \in Jobs |-> "none"] /\ active = {} /\ lease = {}
    /\ up = Replicas /\ owned = {} /\ renewal = [r \in Replicas |-> {}]
    /\ at = [j \in Jobs |-> "idle"] /\ call = [j \in Jobs |-> "none"]
    /\ late = {} /\ blind = {}

Replica(j) ==
    \/ Post(j) \/ Discard(j) \/ Claim(j) \/ Finish(j) \/ Abandon(j)
    \/ Runs(j) \/ Answered(j) \/ TimesOut(j) \/ Retries(j) \/ GivesUp(j)
    \/ Cancels(j) \/ Lapses(j) \/ Expires(j)

Next ==
    \/ \E j \in Jobs : Replica(j)
    \/ \E r \in Replicas : RenewSend(r) \/ RenewRuns(r) \/ RenewFails(r) \/ Dies(r)
    \/ \E c \in late : RunsLate(c)

Spec == Init /\ [][Next]_vars

\* A replica goes on with its jobs, a retry budget runs out, a lease nobody renews
\* lapses, and clients that were refused ask again.
FairSpec ==
    /\ Spec
    /\ \A j \in Jobs :
         /\ WF_vars(Claim(j)) /\ WF_vars(Finish(j)) /\ WF_vars(Runs(j))
         /\ WF_vars(Answered(j)) /\ WF_vars(Post(j))
         /\ WF_vars(GivesUp(j))
         /\ WF_vars(j \notin owned /\ Lapses(j))

-----------------------------------------------------------------------------
TypeOK ==
    /\ record \in [Jobs -> Statuses]
    /\ active \subseteq Jobs /\ lease \subseteq Jobs
    /\ up \subseteq Replicas /\ owned \subseteq Jobs
    /\ renewal \in [Replicas -> SUBSET Jobs]
    /\ at \in [Jobs -> Stages] /\ call \in [Jobs -> {"none", "out", "yes", "no"}]
    /\ late \subseteq Commands /\ blind \subseteq Jobs

\* The cap holds over all replicas: every queued or running record is counted, the
\* count is never over JOBS_MAX_ACTIVE, and only counted jobs have leases.
CapOverReplicas ==
    /\ \A j \in Jobs : record[j] \in Running => j \in active
    /\ lease \subseteq active
    /\ Cardinality(active) <= MaxActive

\* A job that a live replica still has to run or to end is among those whose leases
\* it renews, as long as its record is active: neither the replies of the heartbeat
\* nor lost replies make a replica stop renewing the lease under its job.
HeldIsOwned ==
    \A j \in Jobs :
        at[j] \in {"queued", "claiming", "executing", "finishing"} /\ record[j] \in Running
            => j \in owned

\* JOBS_MAX_RETAINED bounds the outcomes that replicas record; jobs failed as lost
\* come on top until the next transition.
OutcomesBounded ==
    Cardinality({j \in Jobs : record[j] \in Outcomes \ {"lost"}}) <= MaxRetained

Wanted == \E j \in Jobs : Home[j] \in up /\ at[j] \in {"idle", "creating"}

\* No slot is lost for good: while clients ask for one, every slot is given back,
\* also that of a dead replica, of a create whose reply was lost and of a job whose
\* outcome could not be recorded.
SlotsComeBack == \A j \in Jobs : []<>~(j \in active /\ Wanted)

-----------------------------------------------------------------------------
(* What all of this promises a client: SharedLifecycle.                     *)

ClientView(j) ==
    CASE record[j] = "none" -> "unknown"
      [] record[j] = "gone" -> "forgotten"
      [] OTHER -> record[j]

Lifecycle == INSTANCE SharedLifecycle
                WITH state <- [j \in Jobs |-> ClientView(j)], unclaimed <- blind

\* Whatever is retried, runs late, lapses or dies: a poll on any replica shows a job as
\* SharedLifecycle lets it go on.  No outcome is revised, a forgotten record is not
\* written again, a cancelled job does not run, and an upload is refused only at the cap.
ImplementsSharedLifecycle == Lifecycle!Spec

=============================================================================
