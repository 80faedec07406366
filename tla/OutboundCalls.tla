--------------------------- MODULE OutboundCalls ----------------------------
(* Calls to an outside service as CloudOcrClient.recognize makes them: every  *)
(* attempt takes a slot of the rate limiter, then goes through the breaker;   *)
(* callers are cancelled and event loops end at any point.                    *)
EXTENDS CircuitBreaker, RateLimiter

CONSTANTS MaxAttempts,   \* _MAX_RETRIES
          Stopping       \* the loops that may end with calls on them

ASSUME CallAssumption == MaxAttempts \in Nat \ {0} /\ Stopping \subseteq Loops

VARIABLES
    at,       \* where a call is
    attempt   \* which attempt it makes

vars == <<breakerVars, limiterVars, spot, running, at, attempt>>

Places == {"idle", "limiting", "breaking", "backoff", "done", "gone"}

Runs(c) == LoopOf[c] \in running
MoveTo(c, place) == at' = [at EXCEPT ![c] = place]

\* The next attempt asks for a slot.
Attempt(c) ==
    /\ at[c] \in {"idle", "backoff"} /\ Runs(c)
    /\ MoveTo(c, "limiting") /\ attempt' = [attempt EXCEPT ![c] = @ + 1]
    /\ turn' = [turn EXCEPT ![c] = "checking"]
    /\ UNCHANGED <<breakerVars, spot, running, window, armed, line>>

\* It waits in the limiter, or has its slot and goes on to the breaker.
Acquires(c) ==
    /\ at[c] = "limiting" /\ Runs(c)
    /\ \/ Park(c) /\ UNCHANGED <<at, spot>>
       \/ TakeSlot(c) /\ MoveTo(c, "breaking") /\ spot' = [spot EXCEPT ![c] = "asking"]
    /\ UNCHANGED <<breakerVars, running, attempt>>

Fires(c) ==
    /\ Runs(c) /\ TimerFires(c)
    /\ UNCHANGED <<breakerVars, spot, running, at, attempt>>

\* An open breaker is not worth a retry: the call ends.
Enters(c) ==
    /\ Runs(c)
    /\ \/ PassClosed(c) /\ UNCHANGED at
       \/ StartProbe(c) /\ UNCHANGED at
       \/ Rejected(c) /\ MoveTo(c, "done")
    /\ UNCHANGED <<limiterVars, running, attempt>>

WaitsForProbe(c) ==
    /\ Runs(c) /\ Waits(c)
    /\ UNCHANGED <<limiterVars, running, at, attempt>>

Patience(c) ==
    /\ Runs(c) /\ PatienceEnds(c)
    /\ UNCHANGED <<limiterVars, running, at, attempt>>

\* The service answers or the call times out.  An error may be worth another attempt
\* (a timeout, 429, 5xx) or not.
Answered(c) ==
    /\ Runs(c)
    /\ \E result \in Results \ {"cancelled"} :
          /\ Exit(c, result)
          /\ \/ result # "success" /\ attempt[c] < MaxAttempts /\ MoveTo(c, "backoff")
             \/ MoveTo(c, "done")
    /\ UNCHANGED <<limiterVars, running, attempt>>

\* The task that makes the call is cancelled, wherever it waits.
Cancelled(c) ==
    /\ Runs(c) /\ MoveTo(c, "done")
    /\ \/ at[c] = "limiting" /\ GivesUpTurn(c) /\ UNCHANGED <<breakerVars, spot>>
       \/ at[c] = "breaking" /\ StopsWaiting(c) /\ UNCHANGED limiterVars
       \/ at[c] = "breaking" /\ Exit(c, "cancelled") /\ UNCHANGED limiterVars
       \/ at[c] = "backoff" /\ UNCHANGED <<breakerVars, spot, limiterVars>>
    /\ UNCHANGED <<running, attempt>>

\* A loop ends with its calls where they are: no __aexit__, no hand-over.
LoopEnds(l) ==
    /\ l \in Stopping \cap running
    /\ running' = running \ {l}
    /\ at' = [c \in Callers |-> IF LoopOf[c] = l /\ at[c] # "done" THEN "gone" ELSE at[c]]
    /\ spot' = [c \in Callers |-> IF LoopOf[c] = l THEN "out" ELSE spot[c]]
    /\ turn' = [c \in Callers |-> IF LoopOf[c] = l THEN "out" ELSE turn[c]]
    /\ line' = [line EXCEPT ![l] = <<>>] /\ armed' = armed \ {l}
    /\ UNCHANGED <<breakerVars, window, attempt>>

Time ==
    \/ Ageing /\ UNCHANGED <<limiterVars, spot, running, at, attempt>>
    \/ SlotAgesOut /\ UNCHANGED <<breakerVars, spot, running, at, attempt>>

Init ==
    /\ BreakerInit /\ LimiterInit
    /\ at = [c \in Callers |-> "idle"] /\ attempt = [c \in Callers |-> 0]

Call(c) ==
    \/ Attempt(c) \/ Acquires(c) \/ Fires(c) \/ Enters(c) \/ WaitsForProbe(c)
    \/ Patience(c) \/ Answered(c) \/ Cancelled(c)

Next == (\E c \in Callers : Call(c)) \/ (\E l \in Loops : LoopEnds(l)) \/ Time

Spec == Init /\ [][Next]_vars

\* What the loop of a caller does of itself.
Proceeds(c) ==
    \/ at[c] = "backoff" /\ Attempt(c)
    \/ Acquires(c) \/ Fires(c) \/ WaitsForProbe(c) \/ Patience(c) \/ Answered(c)

\* Time passes, timers fire, a loop runs what is ready, and a call ends (its timeout).
\* A caller whose way in is open time and again takes it: looking again takes a loop
\* turn, the reset time of a breaker is seconds.
FairSpec ==
    /\ Spec
    /\ WF_vars(Ageing /\ UNCHANGED <<limiterVars, spot, running, at, attempt>>)
    /\ WF_vars(SlotAgesOut /\ UNCHANGED <<breakerVars, spot, running, at, attempt>>)
    /\ \A c \in Callers : WF_vars(Proceeds(c)) /\ SF_vars(Enters(c))

-----------------------------------------------------------------------------
TypeOK ==
    /\ BreakerTypeOK /\ LimiterTypeOK
    /\ at \in [Callers -> Places] /\ attempt \in [Callers -> 0 .. MaxAttempts]

\* Every call ends: with an answer, rejected or cancelled, or with its loop.  No lost
\* turn, probe without a verdict or event on a dead loop keeps it waiting.
CallsEnd == \A c \in Callers : at[c] = "limiting" ~> at[c] \in {"done", "gone"}

=============================================================================
