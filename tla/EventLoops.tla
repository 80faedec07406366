----------------------------- MODULE EventLoops -----------------------------
(* The tasks that call an outside service, and the event loops they run on.   *)
(* A loop may end (asyncio.run returns, its thread leaves it) with tasks on it.*)
CONSTANTS Callers, Loops, LoopOf

ASSUME LoopAssumption == LoopOf \in [Callers -> Loops]

VARIABLE running   \* the loops that run

=============================================================================
