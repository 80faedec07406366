---------------------------- MODULE JobLifecycle ----------------------------
(***************************************************************************)
(* What the asynchronous job API promises its clients (the routes' answers *)
(* in bibr/serve/jobs.py and docs/reference/rest-api.md), without queue,   *)
(* workers, uploads or retention budgets:                                  *)
(*   - at most MaxActive jobs are queued or running;                       *)
(*   - a job moves on from queued to running to an outcome, and an outcome *)
(*     is only ever forgotten, never revised;                              *)
(*   - a job runs or fails only once a client was answered with its id,    *)
(*     and a job a client was answered with is not withdrawn: before it    *)
(*     has an outcome its record does not disappear.                       *)
(***************************************************************************)
EXTENDS Naturals, FiniteSets

CONSTANTS Jobs, MaxActive

VARIABLES
    state,     \* what a status poll shows of each job
    answered   \* jobs whose POST was answered 202 with their own id

Live == {j \in Jobs : state[j] \in {"queued", "running"}}
Over == {j \in Jobs : state[j] \in {"succeeded", "failed"}}

\* Job j moves on while the outcomes of other jobs may be forgotten.
MoveOn(j, next) ==
    \E F \in SUBSET Over :
        state' = [k \in Jobs |-> IF k = j THEN next
                                 ELSE IF k \in F THEN "forgotten" ELSE state[k]]

Accept(j) ==
    /\ state[j] = "unknown" /\ Cardinality(Live) < MaxActive
    /\ MoveOn(j, "queued")
    /\ UNCHANGED answered

Withdraw(j) ==
    /\ state[j] = "queued" /\ j \notin answered
    /\ MoveOn(j, "forgotten")
    /\ UNCHANGED answered

Answer(j) ==
    /\ state[j] = "queued" /\ j \notin answered
    /\ MoveOn(j, "queued")
    /\ answered' = answered \cup {j}

Start(j) ==
    /\ state[j] = "queued" /\ j \in answered
    /\ MoveOn(j, "running")
    /\ UNCHANGED answered

End(j) ==
    /\ j \in answered
    /\ \/ state[j] = "running" /\ (MoveOn(j, "succeeded") \/ MoveOn(j, "failed"))
       \/ state[j] = "queued" /\ MoveOn(j, "failed")
    /\ UNCHANGED answered

ForgetOutcomes ==
    /\ \E F \in SUBSET Over :
          state' = [k \in Jobs |-> IF k \in F THEN "forgotten" ELSE state[k]]
    /\ UNCHANGED answered

Init ==
    /\ state = [j \in Jobs |-> "unknown"]
    /\ answered = {}

Next ==
    \/ \E j \in Jobs : Accept(j) \/ Withdraw(j) \/ Answer(j) \/ Start(j) \/ End(j)
    \/ ForgetOutcomes

Spec == Init /\ [][Next]_<<state, answered>>
=============================================================================
