----------------------------- MODULE MCBatchRun -----------------------------
(* Two papers, one of which kills the local run, and two processes that run   *)
(* the batch: one local, one through a serve.                                 *)
EXTENDS BatchRun, TLC

CONSTANTS p1, p2, here, there

MCPapers == {p1, p2}
MCRuns == {here, there}
MCExecutorOf == (here :> "local") @@ (there :> "remote")
MCFates == (p1 :> {"crash"}) @@ (p2 :> {"ok", "failed"})
MCSizeOf == (here :> 2) @@ (there :> 1)

=============================================================================
