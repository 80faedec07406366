---------------------------- MODULE RateLimiter -----------------------------
(* AsyncLocalRateLimiter of utils/rate_limiter.py: a sliding window shared by *)
(* all loops, and one condition per loop.  The condition's lock is never held *)
(* across another await, so a caller acts from one wait to the next in a step.*)
EXTENDS EventLoops, Naturals, Sequences, SequencesExt

CONSTANT MaxRequests   \* slots per window

ASSUME LimiterAssumption == MaxRequests \in Nat \ {0}

VARIABLES
    window,   \* the slots taken and not aged out: _timestamps
    armed,    \* the loops whose timer_armed is set
    line,     \* per loop, the waiters of the condition that are not notified
    turn      \* where a caller is in acquire()

limiterVars == <<window, armed, line, turn>>

Turns == {"out", "checking", "parked", "told", "timer", "fired"}

Line(c) == line[LoopOf[c]]

\* The line once c has left it, if it is in it: a caller waits in one place.
LineWithout(c) ==
    IF \E i \in DOMAIN Line(c) : Line(c)[i] = c
    THEN RemoveAt(Line(c), CHOOSE i \in DOMAIN Line(c) : Line(c)[i] = c)
    ELSE Line(c)

\* Where a waiter is once it is notified.
Notified(d) == IF turn[d] = "timer" THEN "fired" ELSE "told"

\* cond.notify(1) by caller c, which goes to a new place.
NotifyOne(c, left, to) ==
    /\ turn' = [turn EXCEPT ![c] = to,
                            ![IF left = <<>> THEN c ELSE Head(left)] =
                                IF left = <<>> THEN to ELSE Notified(Head(left))]
    /\ line' = [line EXCEPT ![LoopOf[c]] = IF left = <<>> THEN left ELSE Tail(left)]

\* A caller looks at the window: it has just come, or woken.  The one whose timer it
\* was gives the timer up first.
ArmedAfter(c) == armed \ (IF turn[c] = "fired" THEN {LoopOf[c]} ELSE {})

Looks(c) == turn[c] \in {"checking", "told", "fired"}

\* Mutant: a slot is taken of a full window.
TakeSlotAnyway(c) ==
    /\ Looks(c)
    /\ window' = window + 1
    /\ armed' = ArmedAfter(c)
    /\ NotifyOne(c, Line(c), "out")

\* Mutant: the turn is not handed on with the slot.
TakeSlotQuietly(c) ==
    /\ Looks(c) /\ window < MaxRequests
    /\ window' = window + 1
    /\ armed' = ArmedAfter(c)
    /\ turn' = [turn EXCEPT ![c] = "out"]
    /\ UNCHANGED line

TakeSlot(c) ==
    /\ Looks(c) /\ window < MaxRequests
    /\ window' = window + 1
    /\ armed' = ArmedAfter(c)
    /\ NotifyOne(c, Line(c), "out")

\* The window is full: sleep until it is not, or wait for the one that does.
Park(c) ==
    /\ Looks(c) /\ window = MaxRequests
    /\ armed' = ArmedAfter(c) \cup {LoopOf[c]}
    /\ turn' = [turn EXCEPT ![c] = IF LoopOf[c] \in ArmedAfter(c) THEN "parked" ELSE "timer"]
    /\ line' = [line EXCEPT ![LoopOf[c]] = Append(@, c)]
    /\ UNCHANGED window

TimerFires(c) ==
    /\ turn[c] = "timer"
    /\ turn' = [turn EXCEPT ![c] = "fired"]
    /\ line' = [line EXCEPT ![LoopOf[c]] = LineWithout(c)]
    /\ UNCHANGED <<window, armed>>

\* Mutant: a caller that is cancelled swallows the turn it may have been given.
GivesUpTurnQuietly(c) ==
    /\ turn[c] # "out"
    /\ armed' = armed \ (IF turn[c] \in {"timer", "fired"} THEN {LoopOf[c]} ELSE {})
    /\ turn' = [turn EXCEPT ![c] = "out"]
    /\ line' = [line EXCEPT ![LoopOf[c]] = LineWithout(c)]
    /\ UNCHANGED window

\* A caller is cancelled while it waits, told or not: it wakes the next one.
GivesUpTurn(c) ==
    /\ turn[c] # "out"
    /\ armed' = armed \ (IF turn[c] \in {"timer", "fired"} THEN {LoopOf[c]} ELSE {})
    /\ IF turn[c] = "checking" THEN turn' = [turn EXCEPT ![c] = "out"] /\ UNCHANGED line
                               ELSE NotifyOne(c, LineWithout(c), "out")
    /\ UNCHANGED window

\* The oldest slot leaves the window.
SlotAgesOut ==
    /\ window > 0
    /\ window' = window - 1
    /\ UNCHANGED <<armed, line, turn>>

LimiterInit ==
    /\ window = 0 /\ armed = {}
    /\ line = [l \in Loops |-> <<>>]
    /\ turn = [c \in Callers |-> "out"]

-----------------------------------------------------------------------------
LimiterTypeOK ==
    /\ window \in 0 .. MaxRequests /\ armed \subseteq Loops
    /\ line \in [Loops -> Seq(Callers)] /\ turn \in [Callers -> Turns]

\* A parked caller never sleeps alone: on its loop somebody sleeps on the timer or is
\* on its way to look at the window, and hands the turn on; and at most one caller of
\* a loop has the timer.
TurnIsNotLost ==
    \A c \in Callers :
        /\ turn[c] = "parked" =>
              \E d \in Callers : LoopOf[d] = LoopOf[c] /\ turn[d] \in {"timer", "fired", "told"}
        /\ \A d \in Callers \ {c} : LoopOf[d] = LoopOf[c] =>
              ~(turn[c] \in {"timer", "fired"} /\ turn[d] \in {"timer", "fired"})

=============================================================================
