-------------------------- MODULE MCRedisJobStore ---------------------------
(* Two jobs on two replicas, one of which may die.                          *)
EXTENDS RedisJobStore, TLC

CONSTANTS j1, j2, r1, r2

MCJobs == {j1, j2}
MCReplicas == {r1, r2}
MCHome == (j1 :> r1) @@ (j2 :> r2)

=============================================================================
