-------------------------- MODULE MCMemoryJobStore --------------------------
(* Instance of MemoryJobStore: four jobs, one of them with a result that is *)
(* larger than the byte budget on its own.                                  *)
EXTENDS MemoryJobStore, TLC

CONSTANTS j1, j2, j3, j4

MCJobs == {j1, j2, j3, j4}
MCResultSize == (j1 :> 3) @@ (j2 :> 1) @@ (j3 :> 1) @@ (j4 :> 2)
=============================================================================
