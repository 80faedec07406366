-------------------------- MODULE SharedLifecycle ---------------------------
(***************************************************************************)
(* What the job API promises a client when several replicas share a store  *)
(* (bibr/serve/jobs_redis.py, docs/guides/deployment.md), without replicas,*)
(* commands, leases and heartbeats:                                        *)
(*   - at most MaxActive jobs are queued or running, and an upload is      *)
(*     refused only when that many are;                                    *)
(*   - only an upload declares jobs lost, and only queued or running ones; *)
(*   - one job at a time moves on, and an outcome is forgotten or stands:  *)
(*     only the two that tell a client to submit again may give way to the *)
(*     outcome of a job that ran after all.                                *)
(* A job that runs although its claim was not answered is the exception to *)
(* the last promise; it is in `unclaimed'.                                 *)
(***************************************************************************)
EXTENDS Naturals, FiniteSets

CONSTANTS Jobs, MaxActive

VARIABLES
    state,       \* what a status poll on any replica shows of each job
    unclaimed    \* jobs whose replica runs them though set_running got no answer

sharedVars == <<state, unclaimed>>

Live == {j \in Jobs : state[j] \in {"queued", "running"}}
Over == {j \in Jobs : state[j] \in {"ended", "abandoned", "cancelled", "lost"}}

\* Job j moves on while outcomes are forgotten, its own not excepted.
MoveOn(j, next) ==
    /\ \E F \in SUBSET (Over \cup {j}) :
          state' = [k \in Jobs |-> IF k \in F THEN "forgotten"
                                   ELSE IF k = j THEN next ELSE state[k]]
    /\ UNCHANGED unclaimed

Accept(j) ==
    /\ state[j] = "unknown"
    /\ \E L \in SUBSET Live :
          /\ Cardinality(Live \ L) < MaxActive
          /\ state' = [k \in Jobs |-> IF k = j THEN "queued"
                                      ELSE IF k \in L THEN "lost" ELSE state[k]]
    /\ UNCHANGED unclaimed

Refuse ==
    /\ \E L \in SUBSET Live :
          /\ Cardinality(Live \ L) >= MaxActive
          /\ state' = [k \in Jobs |-> IF k \in L THEN "lost" ELSE state[k]]
    /\ UNCHANGED unclaimed

Start(j) ==
    /\ state[j] = "queued"
    /\ state' = [state EXCEPT ![j] = "running"]
    /\ UNCHANGED unclaimed

StartUnclaimed(j) ==
    /\ unclaimed' = unclaimed \cup {j}
    /\ UNCHANGED state

Cancel(j) == state[j] = "queued" /\ MoveOn(j, "cancelled")

Abandon(j) == j \in Live /\ MoveOn(j, "abandoned")

End(j) ==
    /\ \/ state[j] \in {"running", "ended", "abandoned", "lost"}
       \/ j \in unclaimed /\ state[j] \in {"queued", "cancelled"}
    /\ MoveOn(j, "ended")

\* An upload that is refused after all, or a record that outlived its replica by a day.
Withdraw(j) ==
    /\ j \in Live
    /\ state' = [state EXCEPT ![j] = "forgotten"]
    /\ UNCHANGED unclaimed

ForgetOutcomes ==
    /\ \E F \in SUBSET Over :
          state' = [k \in Jobs |-> IF k \in F THEN "forgotten" ELSE state[k]]
    /\ UNCHANGED unclaimed

Init == state = [j \in Jobs |-> "unknown"] /\ unclaimed = {}

Next ==
    \/ \E j \in Jobs : \/ Accept(j) \/ Start(j) \/ StartUnclaimed(j)
                       \/ Cancel(j) \/ Abandon(j) \/ End(j) \/ Withdraw(j)
    \/ Refuse \/ ForgetOutcomes

Spec == Init /\ [][Next]_sharedVars

-----------------------------------------------------------------------------
Stands(j) ==
    /\ state[j] = "forgotten" => state'[j] = "forgotten"
    /\ state[j] = "ended" => state'[j] \in {"ended", "forgotten"}
    /\ state[j] = "cancelled" /\ j \notin unclaimed => state'[j] \in {"cancelled", "forgotten"}
    /\ state[j] \in {"lost", "abandoned"} => state'[j] \in {state[j], "ended", "forgotten"}

\* What a client was told stands, whatever is retried or runs late: an outcome is not
\* revised, a cancelled job does not come back (unless it runs because set_running
\* was not answered), a forgotten record is not written again.  Only the two verdicts
\* that say "lost, submit again" may give way to the outcome of a job that ran after all.
OutcomesStand == [][\A j \in Jobs : Stands(j)]_sharedVars

=============================================================================
