--------------------------- MODULE CircuitBreaker ---------------------------
(* utils/circuit_breaker.py: one breaker shared by callers on several event   *)
(* loops (threads).  Every critical section holds the thread lock and never   *)
(* awaits, so each is one step; between two of them anything may happen.      *)
EXTENDS EventLoops, Naturals

CONSTANTS NoCaller, FailureThreshold

ASSUME BreakerAssumption ==
    NoCaller \notin Callers /\ FailureThreshold \in Nat \ {0}

VARIABLES
    state,       \* _state
    failures,    \* _failure_count
    age,         \* of _last_failure_time: within the dedup window, within reset_timeout, older
    probe,       \* _probe_task
    registered,  \* the loops with an event in _probe_events
    spot         \* where a caller is with the breaker

breakerVars == <<state, failures, age, probe, registered>>

Ages == {"fresh", "recent", "old"}
Spots == {"out", "asking", "waiting", "signalled", "inside"}
Results == {"success", "failure", "clientError", "cancelled"}

\* At a lock: about to look at the state for the first time, or again.
Asks(c) == spot[c] \in {"asking", "signalled"}

\* Mutant: the waiters on other loops are not woken.
SignalledHere(c) == [d \in Callers |-> IF spot[d] = "waiting" /\ LoopOf[d] = LoopOf[c]
                                       THEN "signalled" ELSE spot[d]]

\* The spots after caller c has set every registered event.
Signalled(c) == [d \in Callers |-> IF spot[d] = "waiting" THEN "signalled" ELSE spot[d]]

\* _signal_waiters, while caller c moves to a new spot.
SignalWaiters(c, to) ==
    /\ spot' = [Signalled(c) EXCEPT ![c] = to]
    /\ registered' = {} /\ probe' = NoCaller

\* Mutant: a probe that did not answer for reset_timeout counts as dead.
ProbeIsSlow == TRUE

\* Mutant: a probe whose loop has ended is still expected to answer.
ProbeIsLost == probe = NoCaller \/ (spot[probe] # "inside" /\ LoopOf[probe] \in running)

\* No probe can still report.
ProbeIsDead == probe = NoCaller \/ spot[probe] # "inside" \/ LoopOf[probe] \notin running

-----------------------------------------------------------------------------
(* __aenter__                                                               *)

PassClosed(c) ==
    /\ Asks(c) /\ state = "closed"
    /\ spot' = [spot EXCEPT ![c] = "inside"]
    /\ UNCHANGED breakerVars

\* The reset time is over, or half-open without a probe.
NeedsProbe == \/ state = "open" /\ age = "old"
              \/ state = "halfOpen" /\ probe = NoCaller

StartProbe(c) ==
    /\ Asks(c) /\ NeedsProbe
    /\ state' = "halfOpen" /\ probe' = c /\ failures' = 0
    /\ spot' = [spot EXCEPT ![c] = "inside"]
    /\ UNCHANGED <<age, registered>>

\* CircuitOpenError
Rejected(c) ==
    /\ Asks(c) /\ state = "open" /\ age # "old"
    /\ spot' = [spot EXCEPT ![c] = "out"]
    /\ UNCHANGED breakerVars

Waits(c) ==
    /\ Asks(c) /\ state = "halfOpen" /\ probe # NoCaller
    /\ registered' = registered \cup {LoopOf[c]}
    /\ spot' = [spot EXCEPT ![c] = "waiting"]
    /\ UNCHANGED <<state, failures, age, probe>>

\* The wait times out: fail fast if the probe is dead, then look again.
PatienceEnds(c) ==
    /\ spot[c] = "waiting"
    /\ IF ProbeIsDead
       THEN /\ state' = "open" /\ age' = "fresh"
            /\ SignalWaiters(c, "asking")
            /\ UNCHANGED failures
       ELSE /\ spot' = [spot EXCEPT ![c] = "asking"]
            /\ UNCHANGED breakerVars

\* A caller is cancelled before it got in.
StopsWaiting(c) ==
    /\ spot[c] \in {"asking", "waiting", "signalled"}
    /\ spot' = [spot EXCEPT ![c] = "out"]
    /\ UNCHANGED breakerVars

-----------------------------------------------------------------------------
(* __aexit__                                                                *)

Leaves(c) == spot' = [spot EXCEPT ![c] = "out"]

Closes(c) ==
    /\ state' = "closed" /\ failures' = 0
    /\ SignalWaiters(c, "out") /\ UNCHANGED age

\* Mutant: a cancelled probe keeps the time of the last failure.
ReopensUnstamped(c) ==
    /\ state' = "open"
    /\ SignalWaiters(c, "out") /\ UNCHANGED <<failures, age>>

\* A cancelled probe says nothing about the service; it gives the turn up.
Reopens(c) ==
    /\ state' = "open" /\ age' = "fresh"
    /\ SignalWaiters(c, "out") /\ UNCHANGED failures

\* A failure counts once per dedup window; only the probe may end the half-open state.
Fails(c) ==
    LET counted == failures = 0 \/ age # "fresh"
        count == IF counted THEN failures + 1 ELSE failures
    IN /\ failures' = IF count > FailureThreshold THEN FailureThreshold ELSE count
       /\ age' = IF counted THEN "fresh" ELSE age
       /\ IF probe = c
          THEN state' = "open" /\ SignalWaiters(c, "out")
          ELSE /\ state' = IF state # "halfOpen" /\ count >= FailureThreshold
                           THEN "open" ELSE state
               /\ Leaves(c) /\ UNCHANGED <<probe, registered>>

Exit(c, result) ==
    /\ spot[c] = "inside"
    /\ \/ result = "success" /\ Closes(c)
       \/ result = "clientError" /\ probe = c /\ Closes(c)
       \/ result = "cancelled" /\ probe = c /\ Reopens(c)
       \/ result \in {"clientError", "cancelled"} /\ probe # c /\ Leaves(c) /\ UNCHANGED breakerVars
       \/ result = "failure" /\ Fails(c)

\* The clock moves on.
Ageing ==
    /\ age # "old"
    /\ age' = IF age = "fresh" THEN "recent" ELSE "old"
    /\ UNCHANGED <<state, failures, probe, registered>>

BreakerInit ==
    /\ state = "closed" /\ failures = 0 /\ age = "old"
    /\ probe = NoCaller /\ registered = {}
    /\ spot = [c \in Callers |-> "out"]
    /\ running = Loops

-----------------------------------------------------------------------------
BreakerTypeOK ==
    /\ state \in {"closed", "open", "halfOpen"}
    /\ failures \in 0 .. FailureThreshold /\ age \in Ages
    /\ probe \in Callers \cup {NoCaller} /\ registered \subseteq Loops
    /\ spot \in [Callers -> Spots] /\ running \subseteq Loops

\* Half-open is a promise: exactly then a probe is named, a probe on a loop that runs
\* is inside the breaker (it will report), and a caller that waits waits on a
\* registered event, which the report sets.
WaitersHaveAProbe ==
    /\ state = "halfOpen" <=> probe # NoCaller
    /\ probe # NoCaller /\ LoopOf[probe] \in running => spot[probe] = "inside"
    /\ \A c \in Callers : spot[c] = "waiting" =>
          state = "halfOpen" /\ LoopOf[c] \in registered

\* Nobody but a live probe takes the half-open state back to open, whatever late
\* failures of other calls come in and however long the waiters have waited; and a
\* breaker that opens has its reset time before it.
OnlyProbeReopens ==
    [][state # "open" /\ state' = "open" =>
         /\ age' # "old"
         /\ \/ state = "closed"
            \/ spot[probe] = "inside" /\ spot'[probe] = "out"
            \/ LoopOf[probe] \notin running]_breakerVars

=============================================================================
