------------------------ MODULE OutboundCalls_proofs ------------------------
(***************************************************************************)
(* Proofs about the breaker and the limiter under the calls of             *)
(* OutboundCalls, for any number of callers, event loops and attempts:     *)
(* half-open always has a probe that will report or a dead one that a      *)
(* waiter finds out, only a live probe takes half-open back to open, and   *)
(* no caller sleeps in the limiter without one that will wake it; and the  *)
(* counters of both stay within their limits (Counts).                     *)
(*                                                                         *)
(* The limiter does not touch the breaker's state: a step of the system is *)
(* a step of the breaker for one running caller, the end of a loop, the    *)
(* clock, or leaves the breaker alone (SystemSteps).                       *)
(***************************************************************************)
EXTENDS OutboundCalls, SequenceTheorems, TLAPS

BreakerTypes ==
    /\ state \in {"closed", "open", "halfOpen"} /\ age \in Ages
    /\ probe \in Callers \cup {NoCaller} /\ registered \subseteq Loops
    /\ spot \in [Callers -> Spots] /\ running \subseteq Loops

BreakerInv == BreakerTypes /\ WaitersHaveAProbe

allBreakerVars == <<breakerVars, spot, running>>

\* What a running caller may do with the breaker.
BreakerStep(c) ==
    \/ PassClosed(c) \/ StartProbe(c) \/ Rejected(c) \/ Waits(c) \/ PatienceEnds(c)
    \/ StopsWaiting(c) \/ \E result \in Results : Exit(c, result)

\* A caller gets its slot and asks for the breaker.
AsksNow(c) == at[c] = "limiting" /\ spot' = [spot EXCEPT ![c] = "asking"] /\ UNCHANGED breakerVars

\* What the end of a loop does to the breaker: nothing, but its callers are gone.
LoopLeaves(l) ==
    /\ l \in running /\ running' = running \ {l}
    /\ spot' = [c \in Callers |-> IF LoopOf[c] = l THEN "out" ELSE spot[c]]
    /\ UNCHANGED breakerVars

AtTypes == at \in [Callers -> Places]

\* A caller in the limiter is not in the breaker.
Apart == \A c \in Callers : at[c] \in {"idle", "limiting", "backoff"} => spot[c] = "out"

-----------------------------------------------------------------------------
(* The steps of the breaker.                                                *)

LEMMA EntrySteps ==
    ASSUME BreakerInv, NEW c \in Callers, LoopOf[c] \in running, running' = running,
           PassClosed(c) \/ StartProbe(c) \/ Rejected(c) \/ Waits(c) \/ StopsWaiting(c)
    PROVE  BreakerInv'
<1> USE LoopAssumption, BreakerAssumption
        DEF BreakerInv, BreakerTypes, WaitersHaveAProbe, Spots, Ages, Asks
<1>1. CASE PassClosed(c)
    BY <1>1 DEF PassClosed, breakerVars
<1>2. CASE StartProbe(c)
    BY <1>2 DEF StartProbe, NeedsProbe
<1>3. CASE Rejected(c)
    BY <1>3 DEF Rejected, breakerVars
<1>4. CASE Waits(c)
    BY <1>4 DEF Waits
<1>5. CASE StopsWaiting(c)
    BY <1>5 DEF StopsWaiting, breakerVars
<1> QED
    BY <1>1, <1>2, <1>3, <1>4, <1>5

\* A verdict clears the half-open state: nobody waits any more.
LEMMA VerdictSteps ==
    ASSUME BreakerInv, NEW c \in Callers, NEW to \in {"out", "asking"},
           running' = running, SignalWaiters(c, to),
           state' \in {"closed", "open"}, age' \in Ages
    PROVE  BreakerInv'
<1> USE LoopAssumption, BreakerAssumption
        DEF BreakerInv, BreakerTypes, WaitersHaveAProbe, Spots
<1>1. spot' = [d \in Callers |-> IF d = c THEN to
                                ELSE IF spot[d] = "waiting" THEN "signalled" ELSE spot[d]]
    BY DEF SignalWaiters, Signalled
<1> QED
    BY <1>1 DEF SignalWaiters

LEMMA PatienceSteps ==
    ASSUME BreakerInv, NEW c \in Callers, LoopOf[c] \in running, running' = running,
           PatienceEnds(c)
    PROVE  BreakerInv'
<1>1. CASE ProbeIsDead
    BY <1>1, VerdictSteps DEF PatienceEnds, Ages
<1>2. CASE ~ProbeIsDead
    BY <1>2 DEF PatienceEnds, ProbeIsDead, BreakerInv, BreakerTypes, WaitersHaveAProbe, Spots,
                breakerVars
<1> QED
    BY <1>1, <1>2

LEMMA ExitSteps ==
    ASSUME BreakerInv, NEW c \in Callers, LoopOf[c] \in running, running' = running,
           NEW result \in Results, Exit(c, result)
    PROVE  BreakerInv'
<1>1. CASE Closes(c) \/ Reopens(c)
    BY <1>1, VerdictSteps DEF Closes, Reopens, Ages, BreakerInv, BreakerTypes
<1>2. CASE probe # c /\ Leaves(c) /\ UNCHANGED breakerVars
    BY <1>2 DEF Leaves, breakerVars, BreakerInv, BreakerTypes, WaitersHaveAProbe, Spots
<1>3. CASE Fails(c)
    <2>1. age' \in Ages
        BY <1>3 DEF Fails, Ages, BreakerInv, BreakerTypes
    <2>2. CASE probe = c
        BY <1>3, <2>1, <2>2, VerdictSteps DEF Fails
    <2>3. CASE probe # c
        BY <1>3, <2>1, <2>3
        DEF Fails, Leaves, BreakerInv, BreakerTypes, WaitersHaveAProbe, Spots
    <2> QED
        BY <2>2, <2>3
<1> QED
    BY <1>1, <1>2, <1>3 DEF Exit

LEMMA BreakerSteps ==
    ASSUME BreakerInv, NEW c \in Callers, LoopOf[c] \in running, running' = running,
           BreakerStep(c)
    PROVE  BreakerInv'
BY EntrySteps, PatienceSteps, ExitSteps DEF BreakerStep

LEMMA LoopSteps == ASSUME BreakerInv, NEW l \in Loops, LoopLeaves(l) PROVE BreakerInv'
BY LoopAssumption DEF LoopLeaves, BreakerInv, BreakerTypes, WaitersHaveAProbe, Spots, breakerVars

-----------------------------------------------------------------------------
(* The system.                                                              *)

\* A step of the system, as the breaker sees it.
SystemStep ==
    \/ UNCHANGED allBreakerVars
    \/ \E c \in Callers : LoopOf[c] \in running /\ running' = running /\ BreakerStep(c)
    \/ \E c \in Callers : running' = running /\ AsksNow(c)
    \/ \E l \in Loops : LoopLeaves(l)
    \/ Ageing /\ UNCHANGED <<spot, running>>

LEMMA SystemSteps == ASSUME [Next]_vars PROVE SystemStep
<1>1. ASSUME NEW c \in Callers, Call(c) PROVE SystemStep
    <2>1. CASE Attempt(c) \/ Fires(c)
        BY <2>1 DEF Attempt, Fires, SystemStep, allBreakerVars
    <2>2. CASE Acquires(c)
        <3>1. CASE UNCHANGED spot
            BY <2>2, <3>1 DEF Acquires, SystemStep, allBreakerVars
        <3>2. CASE spot' = [spot EXCEPT ![c] = "asking"]
            BY <2>2, <3>2 DEF Acquires, SystemStep, AsksNow
        <3> QED
            BY <2>2, <3>1, <3>2 DEF Acquires
    <2>3. CASE Enters(c)
        BY <2>3 DEF Enters, Runs, SystemStep, BreakerStep
    <2>4. CASE WaitsForProbe(c) \/ Patience(c)
        BY <2>4 DEF WaitsForProbe, Patience, Runs, SystemStep, BreakerStep
    <2>5. CASE Answered(c)
        BY <2>5 DEF Answered, Runs, SystemStep, BreakerStep
    <2>6. CASE Cancelled(c)
        BY <2>6 DEF Cancelled, Runs, SystemStep, BreakerStep, allBreakerVars, Results
    <2> QED
        BY <1>1, <2>1, <2>2, <2>3, <2>4, <2>5, <2>6 DEF Call
<1>2. ASSUME NEW l \in Loops, LoopEnds(l) PROVE SystemStep
    BY <1>2 DEF LoopEnds, LoopLeaves, SystemStep
<1>3. CASE Time
    BY <1>3 DEF Time, SystemStep, allBreakerVars
<1>4. CASE UNCHANGED vars
    BY <1>4 DEF vars, SystemStep, allBreakerVars
<1> QED
    BY <1>1, <1>2, <1>3, <1>4 DEF Next

\* Whoever enters the breaker has left the limiter, and is out of it before the next
\* attempt.
LEMMA ApartSteps ==
    ASSUME BreakerTypes, AtTypes, Apart, [Next]_vars PROVE AtTypes' /\ Apart'
<1> USE DEF AtTypes, Apart, BreakerTypes
<1>1. ASSUME NEW c \in Callers, Call(c) PROVE AtTypes' /\ Apart'
    <2>1. CASE Attempt(c) \/ Acquires(c) \/ Fires(c)
        BY <2>1 DEF Attempt, Acquires, Fires, MoveTo, Places
    <2>2. CASE Enters(c) \/ WaitsForProbe(c)
        BY <2>2 DEF Enters, WaitsForProbe, PassClosed, StartProbe, Rejected, Waits, Asks, MoveTo,
                    Places
    <2>3. CASE Patience(c)
        <3>1. \A d \in Callers : spot'[d] # spot[d] => spot[d] = "waiting"
            BY <2>3 DEF Patience, PatienceEnds, SignalWaiters, Signalled
        <3> QED
            BY <2>3, <3>1 DEF Patience
    <2>4. CASE Answered(c)
        <3>1. /\ spot[c] = "inside" /\ spot'[c] = "out"
              /\ \A d \in Callers \ {c} : spot'[d] # spot[d] => spot[d] = "waiting"
            BY <2>4 DEF Answered, Exit, Closes, Reopens, Fails, Leaves, SignalWaiters, Signalled
        <3>2. at' = [at EXCEPT ![c] = at'[c]] /\ at'[c] \in Places
            BY <2>4 DEF Answered, MoveTo, Places
        <3> QED
            BY <3>1, <3>2
    <2>5. CASE Cancelled(c)
        <3>1. \A d \in Callers \ {c} : spot'[d] # spot[d] => spot[d] = "waiting"
            BY <2>5 DEF Cancelled, StopsWaiting, Exit, Closes, Reopens, Fails, Leaves,
                        SignalWaiters, Signalled
        <3> QED
            BY <2>5, <3>1 DEF Cancelled, MoveTo, Places
    <2> QED
        BY <1>1, <2>1, <2>2, <2>3, <2>4, <2>5 DEF Call
<1>2. ASSUME NEW l \in Loops, LoopEnds(l) PROVE AtTypes' /\ Apart'
    BY <1>2 DEF LoopEnds, Places
<1>3. CASE Time \/ UNCHANGED vars
    BY <1>3 DEF Time, vars
<1> QED
    BY <1>1, <1>2, <1>3 DEF Next

CallInv == BreakerInv /\ AtTypes /\ Apart

LEMMA CallInvHolds == Spec => []CallInv
<1>1. Init => CallInv
    BY BreakerAssumption
    DEF Init, BreakerInit, CallInv, BreakerInv, BreakerTypes, WaitersHaveAProbe, AtTypes, Apart,
        Ages, Spots, Places
<1>2. CallInv /\ [Next]_vars => CallInv'
    <2> SUFFICES ASSUME CallInv, [Next]_vars PROVE BreakerInv'
        BY ApartSteps DEF CallInv, BreakerInv
    <2>1. CASE UNCHANGED allBreakerVars
        BY <2>1 DEF CallInv, BreakerInv, BreakerTypes, WaitersHaveAProbe, allBreakerVars,
                    breakerVars
    <2>2. ASSUME NEW c \in Callers, running' = running, AsksNow(c) PROVE BreakerInv'
        <3>1. spot[c] = "out"
            BY <2>2 DEF AsksNow, CallInv, Apart
        <3> QED
            BY <2>2, <3>1 DEF AsksNow, CallInv, BreakerInv, BreakerTypes, WaitersHaveAProbe,
                              breakerVars, Spots
    <2>3. CASE Ageing /\ UNCHANGED <<spot, running>>
        BY <2>3 DEF Ageing, CallInv, BreakerInv, BreakerTypes, WaitersHaveAProbe, Ages
    <2> QED
        BY <2>1, <2>2, <2>3, SystemSteps, BreakerSteps, LoopSteps DEF SystemStep, CallInv
<1> QED
    BY <1>1, <1>2, PTL DEF Spec

\* Half-open is a promise kept to every waiter, whatever is cancelled and whichever loop
\* ends.
THEOREM WaitersHaveAProbeAlways == Spec => []WaitersHaveAProbe
<1>1. CallInv => WaitersHaveAProbe
    BY DEF CallInv, BreakerInv
<1> QED
    BY <1>1, CallInvHolds, PTL

-----------------------------------------------------------------------------
(* Who opens the breaker.                                                   *)

OpenedByProbe ==
    state # "open" /\ state' = "open" =>
        /\ age' # "old"
        /\ \/ state = "closed"
           \/ spot[probe] = "inside" /\ spot'[probe] = "out"
           \/ LoopOf[probe] \notin running

LEMMA OpeningSteps ==
    ASSUME BreakerInv, NEW c \in Callers, LoopOf[c] \in running, BreakerStep(c)
    PROVE  OpenedByProbe
<1> USE DEF OpenedByProbe
<1>1. CASE PassClosed(c) \/ StartProbe(c) \/ Rejected(c) \/ Waits(c) \/ StopsWaiting(c)
    BY <1>1 DEF PassClosed, StartProbe, Rejected, Waits, StopsWaiting, breakerVars
<1>2. CASE PatienceEnds(c)
    BY <1>2 DEF PatienceEnds, ProbeIsDead, BreakerInv, WaitersHaveAProbe, breakerVars
<1>3. ASSUME NEW result \in Results, Exit(c, result) PROVE OpenedByProbe
    <2>1. spot[c] = "inside" /\ spot'[c] = "out"
        BY <1>3 DEF Exit, Closes, Reopens, Fails, Leaves, SignalWaiters, Signalled, BreakerInv,
                    BreakerTypes
    <2>2. CASE Closes(c) \/ (Leaves(c) /\ UNCHANGED breakerVars)
        BY <2>2 DEF Closes, breakerVars
    <2>3. CASE probe = c /\ Reopens(c)
        BY <2>1, <2>3 DEF Reopens
    <2>4. CASE Fails(c)
        BY <2>1, <2>4 DEF Fails, BreakerInv, BreakerTypes
    <2> QED
        BY <1>3, <2>2, <2>3, <2>4 DEF Exit
<1> QED
    BY <1>1, <1>2, <1>3 DEF BreakerStep

\* Late failures of other calls and impatient waiters leave a live probe its half-open
\* state, and an open breaker always has its reset time before it.
THEOREM OnlyProbeReopensAlways == Spec => OnlyProbeReopens
<1>1. CallInv /\ [Next]_vars => [OpenedByProbe]_breakerVars
    <2> SUFFICES ASSUME CallInv, [Next]_vars PROVE [OpenedByProbe]_breakerVars
        OBVIOUS
    <2>1. CASE \E c \in Callers : LoopOf[c] \in running /\ running' = running /\ BreakerStep(c)
        BY <2>1, OpeningSteps DEF CallInv
    <2>2. CASE Ageing /\ UNCHANGED <<spot, running>>
        BY <2>2 DEF Ageing, OpenedByProbe
    <2> QED
        BY <2>1, <2>2, SystemSteps DEF SystemStep, AsksNow, LoopLeaves, allBreakerVars
<1>2. CallInv /\ [Next]_vars =>
        [state # "open" /\ state' = "open" =>
            /\ age' # "old"
            /\ \/ state = "closed"
               \/ spot[probe] = "inside" /\ spot'[probe] = "out"
               \/ LoopOf[probe] \notin running]_breakerVars
    BY <1>1 DEF OpenedByProbe
<1> QED
    BY <1>2, CallInvHolds, PTL DEF Spec, OnlyProbeReopens
-----------------------------------------------------------------------------
(* The limiter: who waits in the line of a loop, and who sleeps for it.     *)

On(s, c) == \E i \in DOMAIN s : s[i] = c
Once(s) == s \in Seq(Callers) /\ \A i, j \in DOMAIN s : s[i] = s[j] => i = j

Waiting(c) == turn[c] \in {"parked", "timer"}
Sleeps(c) == turn[c] \in {"timer", "fired"}

LimiterInv ==
    /\ turn \in [Callers -> Turns] /\ armed \subseteq Loops
    /\ line \in [Loops -> Seq(Callers)] /\ \A l \in Loops : Once(line[l])
    /\ \A l \in Loops, c \in Callers : On(line[l], c) <=> LoopOf[c] = l /\ Waiting(c)
    /\ \A l \in Loops : l \in armed <=> \E c \in Callers : LoopOf[c] = l /\ Sleeps(c)
    /\ TurnIsNotLost

\* A call is in the limiter exactly between asking for a slot and having it.
InLimiter == \A c \in Callers : turn[c] # "out" <=> at[c] = "limiting"

LEMMA OnceRemoved ==
    ASSUME NEW s, Once(s), NEW k \in DOMAIN s
    PROVE  /\ Once(RemoveAt(s, k))
           /\ \A c \in Callers : On(RemoveAt(s, k), c) <=> On(s, c) /\ c # s[k]
<1> DEFINE r == RemoveAt(s, k)
<1>1. s \in Seq(Callers) /\ k \in 1 .. Len(s) /\ Len(s) \in Nat
    BY DEF Once
<1>2. /\ r \in Seq(Callers) /\ Len(r) = Len(s) - 1
      /\ \A i \in 1 .. Len(r) : r[i] = IF i < k THEN s[i] ELSE s[i + 1]
    <2> DEFINE a == SubSeq(s, 1, k - 1)
               b == SubSeq(s, k + 1, Len(s))
    <2>1. /\ a \in Seq(Callers) /\ Len(a) = k - 1
          /\ \A i \in 1 .. k - 1 : a[i] = s[i]
        <3>1. /\ 1 \in Int /\ k - 1 \in Int /\ \A i \in 1 .. k - 1 : s[i] \in Callers
            BY <1>1
        <3> HIDE DEF a
        <3>2. /\ a \in Seq(Callers) /\ Len(a) = IF 1 <= k - 1 THEN (k - 1) - 1 + 1 ELSE 0
              /\ \A i \in 1 .. (k - 1) - 1 + 1 : a[i] = s[1 + i - 1]
            BY <3>1, SubSeqProperties DEF a
        <3> QED
            BY <1>1, <3>2
    <2>2. /\ b \in Seq(Callers) /\ Len(b) = Len(s) - k
          /\ \A i \in 1 .. Len(s) - k : b[i] = s[k + i]
        <3>1. /\ k + 1 \in Int /\ Len(s) \in Int /\ \A i \in k + 1 .. Len(s) : s[i] \in Callers
            BY <1>1
        <3> HIDE DEF b
        <3>2. /\ b \in Seq(Callers)
              /\ Len(b) = IF k + 1 <= Len(s) THEN Len(s) - (k + 1) + 1 ELSE 0
              /\ \A i \in 1 .. Len(s) - (k + 1) + 1 : b[i] = s[k + 1 + i - 1]
            BY <3>1, SubSeqProperties DEF b
        <3> QED
            BY <1>1, <3>2
    <2>3. r = a \o b
        BY DEF RemoveAt
    <2> HIDE DEF a, b, r
    <2>4. /\ r \in Seq(Callers) /\ Len(r) = Len(a) + Len(b)
          /\ \A i \in 1 .. Len(a) + Len(b) : r[i] = IF i <= Len(a) THEN a[i] ELSE b[i - Len(a)]
        BY <2>1, <2>2, <2>3, ConcatProperties
    <2>5. Len(r) = Len(s) - 1
        BY <1>1, <2>1, <2>2, <2>4
    <2>6. ASSUME NEW i \in 1 .. Len(s) - 1 PROVE r[i] = IF i < k THEN s[i] ELSE s[i + 1]
        <3>1. r[i] = IF i <= k - 1 THEN a[i] ELSE b[i - (k - 1)]
            <4>1. i \in 1 .. Len(a) + Len(b)
                BY <1>1, <2>1, <2>2
            <4> QED
                BY <2>1, <2>4, <4>1
        <3>2. CASE i < k
            BY <1>1, <2>1, <3>1, <3>2
        <3>3. CASE i >= k
            <4>1. i - (k - 1) \in 1 .. Len(s) - k /\ k + (i - (k - 1)) = i + 1 /\ ~(i <= k - 1)
                BY <1>1, <3>3
            <4> QED
                BY <1>1, <2>2, <3>1, <3>3, <4>1
        <3> QED
            BY <1>1, <3>2, <3>3
    <2> QED
        BY <2>4, <2>5, <2>6
<1> DEFINE from(i) == IF i < k THEN i ELSE i + 1
<1>3. \A i \in 1 .. Len(r) : r[i] = s[from(i)]
    BY <1>2
<1>4. \A i \in 1 .. Len(r) : from(i) \in 1 .. Len(s) /\ from(i) # k
    BY <1>1, <1>2
<1>5. \A i, j \in 1 .. Len(r) : from(i) = from(j) => i = j
    BY <1>1, <1>2
<1>6. \A i, j \in 1 .. Len(s) : s[i] = s[j] => i = j
    BY <1>1 DEF Once
<1> HIDE DEF from, r
<1>7. Once(r)
    <2>1. DOMAIN r = 1 .. Len(r)
        BY <1>2
    <2> QED
        BY <1>2, <1>3, <1>4, <1>5, <1>6, <2>1 DEF Once
<1>8. ASSUME NEW c \in Callers, On(r, c) PROVE On(s, c) /\ c # s[k]
    <2>1. PICK i \in 1 .. Len(r) : r[i] = c
        BY <1>2, <1>8 DEF On
    <2> QED
        BY <1>1, <1>3, <1>4, <1>6, <2>1 DEF On
<1>9. ASSUME NEW c \in Callers, On(s, c), c # s[k] PROVE On(r, c)
    <2>1. PICK i \in 1 .. Len(s) : s[i] = c
        BY <1>1, <1>9 DEF On
    <2>2. CASE i < k
        BY <1>1, <1>2, <2>1, <2>2 DEF On
    <2>3. CASE i > k
        <3>1. i - 1 \in 1 .. Len(r) /\ r[i - 1] = c
            BY <1>1, <1>2, <2>1, <2>3
        <3> QED
            BY <1>2, <3>1 DEF On
    <2> QED
        BY <1>1, <1>9, <2>1, <2>2, <2>3
<1> QED
    BY <1>7, <1>8, <1>9 DEF r

LEMMA OnceTail ==
    ASSUME NEW s, Once(s), s # <<>>
    PROVE  /\ Head(s) \in Callers /\ On(s, Head(s)) /\ Once(Tail(s))
           /\ \A c \in Callers : On(Tail(s), c) <=> On(s, c) /\ c # Head(s)
<1>1. /\ s \in Seq(Callers) /\ Len(s) \in Nat \ {0} /\ Head(s) = s[1] /\ 1 \in DOMAIN s
      /\ Tail(s) \in Seq(Callers) /\ Len(Tail(s)) = Len(s) - 1
      /\ \A i \in 1 .. Len(Tail(s)) : Tail(s)[i] = s[i + 1]
    BY HeadTailProperties DEF Once
<1>2. Once(Tail(s))
    BY <1>1 DEF Once
<1>3. ASSUME NEW c \in Callers, On(Tail(s), c) PROVE On(s, c) /\ c # Head(s)
    BY <1>1, <1>3 DEF On, Once
<1>4. ASSUME NEW c \in Callers, On(s, c), c # Head(s) PROVE On(Tail(s), c)
    <2>1. PICK i \in 1 .. Len(s) : s[i] = c
        BY <1>1, <1>4 DEF On
    <2>2. i - 1 \in 1 .. Len(Tail(s)) /\ Tail(s)[i - 1] = c
        BY <1>1, <1>4, <2>1
    <2> QED
        BY <1>1, <2>2 DEF On
<1> QED
    BY <1>1, <1>2, <1>3, <1>4 DEF On

LEMMA OnceAppended ==
    ASSUME NEW s, Once(s), NEW d \in Callers, ~On(s, d)
    PROVE  /\ Once(Append(s, d))
           /\ \A c \in Callers : On(Append(s, d), c) <=> On(s, c) \/ c = d
<1>1. /\ s \in Seq(Callers) /\ Len(s) \in Nat
      /\ Append(s, d) \in Seq(Callers) /\ Len(Append(s, d)) = Len(s) + 1
      /\ \A i \in 1 .. Len(s) : Append(s, d)[i] = s[i]
      /\ Append(s, d)[Len(s) + 1] = d
    BY AppendProperties DEF Once
<1> QED
    BY <1>1 DEF Once, On

LEMMA LineLeft ==
    ASSUME LimiterInv, NEW c \in Callers
    PROVE  /\ Once(LineWithout(c))
           /\ \A d \in Callers : On(LineWithout(c), d) <=> On(Line(c), d) /\ d # c
<1>1. Once(Line(c))
    BY LoopAssumption DEF LimiterInv, Line
<1>2. CASE On(Line(c), c)
    <2> DEFINE k == CHOOSE i \in DOMAIN Line(c) : Line(c)[i] = c
    <2>1. k \in DOMAIN Line(c) /\ Line(c)[k] = c
        BY <1>2 DEF On
    <2>2. LineWithout(c) = RemoveAt(Line(c), k)
        BY <1>2 DEF On, LineWithout
    <2> HIDE DEF k
    <2> QED
        BY <1>1, <2>1, <2>2, OnceRemoved
<1>3. CASE ~On(Line(c), c)
    BY <1>1, <1>3 DEF On, LineWithout
<1> QED
    BY <1>2, <1>3

\* A caller leaves and wakes the first of the others in line.
LEMMA HandOver ==
    ASSUME LimiterInv, NEW c \in Callers, NEW left, Once(left),
           \A d \in Callers : On(left, d) <=> On(Line(c), d) /\ d # c,
           armed' = armed \ (IF Sleeps(c) THEN {LoopOf[c]} ELSE {}),
           NotifyOne(c, left, "out")
    PROVE  LimiterInv'
<1>0. LoopOf[c] \in Loops /\ "out" \in Turns /\ LoopOf \in [Callers -> Loops]
    BY LoopAssumption DEF Turns
<1>1. \A d \in Callers : On(left, d) <=> LoopOf[d] = LoopOf[c] /\ Waiting(d) /\ d # c
    BY <1>0 DEF LimiterInv, Line
<1>2. ASSUME NEW h \in Callers, NEW rest, Once(rest),
             line' = [line EXCEPT ![LoopOf[c]] = rest],
             turn' \in [Callers -> Turns], turn'[c] = "out",
             \A d \in Callers \ {c, h} : turn'[d] = turn[d],
             h # c => /\ LoopOf[h] = LoopOf[c] /\ Waiting(h)
                      /\ turn'[h] = IF turn[h] = "timer" THEN "fired" ELSE "told",
             \A d \in Callers : On(rest, d) <=> On(left, d) /\ d # h,
             h = c => \A d \in Callers : ~On(left, d)
      PROVE  LimiterInv'
    <2>1. armed' \subseteq Loops /\ line' \in [Loops -> Seq(Callers)]
        BY <1>0, <1>2 DEF LimiterInv, Once
    <2>2. \A l \in Loops : Once(line'[l])
        BY <1>0, <1>2 DEF LimiterInv
    <2>3. \A d \in Callers : Waiting(d)' <=> Waiting(d) /\ d # c /\ d # h
        BY <1>2 DEF Waiting
    <2>4. \A d \in Callers : Sleeps(d)' <=> Sleeps(d) /\ d # c
        BY <1>2 DEF Sleeps, Waiting
    <2>5. ASSUME NEW l \in Loops, NEW d \in Callers
          PROVE  On(line'[l], d) <=> LoopOf[d] = l /\ Waiting(d)'
        <3>1. CASE l = LoopOf[c]
            <4>1. On(line'[l], d) <=> On(left, d) /\ d # h
                BY <1>0, <1>2, <3>1 DEF LimiterInv
            <4> QED
                BY <1>1, <2>3, <3>1, <4>1
        <3>2. CASE l # LoopOf[c]
            <4>1. line'[l] = line[l] /\ (LoopOf[d] = l => d # c /\ d # h)
                BY <1>0, <1>2, <2>5, <3>2 DEF LimiterInv
            <4> QED
                BY <2>3, <2>5, <4>1 DEF LimiterInv
        <3> QED
            BY <3>1, <3>2
    <2>6. ASSUME NEW d \in Callers, NEW e \in Callers \ {d}, LoopOf[d] = LoopOf[e],
                 Sleeps(d), Sleeps(e)
          PROVE  FALSE
        BY <2>6 DEF LimiterInv, TurnIsNotLost, Sleeps
    <2>7. ASSUME NEW l \in Loops
          PROVE  l \in armed' <=> \E d \in Callers : LoopOf[d] = l /\ Sleeps(d)'
        <3>1. l \in armed <=> \E d \in Callers : LoopOf[d] = l /\ Sleeps(d)
            BY <2>7 DEF LimiterInv
        <3>2. CASE Sleeps(c) /\ l = LoopOf[c]
            BY <2>4, <2>6, <3>2
        <3>3. CASE ~(Sleeps(c) /\ l = LoopOf[c])
            BY <2>4, <3>1, <3>3
        <3> QED
            BY <3>2, <3>3
    <2>8. ASSUME NEW d \in Callers, turn'[d] = "parked"
          PROVE  \E e \in Callers : LoopOf[e] = LoopOf[d] /\ turn'[e] \in {"timer", "fired", "told"}
        <3>1. turn[d] = "parked" /\ d # c /\ d # h
            BY <1>2, <2>8
        <3>2. PICK e \in Callers : LoopOf[e] = LoopOf[d] /\ turn[e] \in {"timer", "fired", "told"}
            BY <3>1 DEF LimiterInv, TurnIsNotLost
        <3>3. CASE LoopOf[d] = LoopOf[c]
            <4>1. On(left, d)
                BY <1>1, <3>1, <3>3 DEF Waiting
            <4> QED
                BY <1>2, <3>3, <4>1
        <3>4. CASE LoopOf[d] # LoopOf[c]
            BY <1>2, <3>2, <3>4
        <3> QED
            BY <3>3, <3>4
    <2>9. TurnIsNotLost'
        BY <2>4, <2>6, <2>8 DEF TurnIsNotLost, Sleeps
    <2> QED
        BY <1>2, <2>1, <2>2, <2>5, <2>7, <2>9 DEF LimiterInv
<1>3. CASE left = <<>>
    <2>1. \A d \in Callers : ~On(left, d)
        BY <1>3 DEF On
    <2>2. /\ line' = [line EXCEPT ![LoopOf[c]] = left]
          /\ turn' = [turn EXCEPT ![c] = "out"]
        BY <1>3 DEF NotifyOne, LimiterInv
    <2>3. turn' \in [Callers -> Turns] /\ turn'[c] = "out"
          /\ \A d \in Callers \ {c} : turn'[d] = turn[d]
        BY <1>0, <2>2 DEF LimiterInv
    <2> QED
        BY <1>2, <2>1, <2>2, <2>3
<1>4. CASE left # <<>>
    <2> DEFINE h == Head(left)
    <2>1. /\ h \in Callers /\ On(left, h) /\ Once(Tail(left))
          /\ \A d \in Callers : On(Tail(left), d) <=> On(left, d) /\ d # h
        BY <1>4, OnceTail
    <2>2. LoopOf[h] = LoopOf[c] /\ Waiting(h) /\ h # c
        BY <1>1, <2>1
    <2>3. /\ line' = [line EXCEPT ![LoopOf[c]] = Tail(left)]
          /\ turn' = [turn EXCEPT ![c] = "out", ![h] = Notified(h)]
        BY <1>4 DEF NotifyOne
    <2> HIDE DEF h
    <2>4. turn' \in [Callers -> Turns] /\ turn'[c] = "out" /\ turn'[h] = Notified(h)
          /\ \A d \in Callers \ {c, h} : turn'[d] = turn[d]
        BY <1>0, <2>1, <2>2, <2>3 DEF LimiterInv, Notified, Turns
    <2> QED
        BY <1>2, <2>1, <2>2, <2>3, <2>4 DEF Notified
<1> QED
    BY <1>3, <1>4

\* A caller finds the window full: it waits in line, and is on the timer unless another
\* caller of its loop is.
LEMMA Parks ==
    ASSUME LimiterInv, NEW c \in Callers, Park(c)
    PROVE  LimiterInv'
<1>0. LoopOf[c] \in Loops /\ {"parked", "timer"} \subseteq Turns /\ LoopOf \in [Callers -> Loops]
    BY LoopAssumption DEF Turns
<1>1. Looks(c) /\ ~Waiting(c) /\ (Sleeps(c) <=> turn[c] = "fired")
    BY DEF Park, Looks, Waiting, Sleeps
<1>2. ~On(Line(c), c) /\ Once(Line(c))
    BY <1>0, <1>1 DEF LimiterInv, Line
<1>3. LoopOf[c] \in ArmedAfter(c) <=>
        \E d \in Callers \ {c} : LoopOf[d] = LoopOf[c] /\ Sleeps(d)
    BY <1>0, <1>1 DEF ArmedAfter, LimiterInv, TurnIsNotLost, Sleeps
<1>4. /\ turn' \in [Callers -> Turns]
      /\ \A d \in Callers \ {c} : turn'[d] = turn[d]
      /\ turn'[c] = IF LoopOf[c] \in ArmedAfter(c) THEN "parked" ELSE "timer"
    BY <1>0 DEF Park, LimiterInv
<1>5. /\ Once(Append(Line(c), c))
      /\ \A d \in Callers : On(Append(Line(c), c), d) <=> On(Line(c), d) \/ d = c
    BY <1>2, OnceAppended
<1>6. line' = [line EXCEPT ![LoopOf[c]] = Append(Line(c), c)]
    BY DEF Park, Line
<1>7. armed' \subseteq Loops /\ line' \in [Loops -> Seq(Callers)] /\ \A l \in Loops : Once(line'[l])
    BY <1>0, <1>5, <1>6 DEF LimiterInv, Once, Park, ArmedAfter
<1>8. \A d \in Callers : Waiting(d)' <=> Waiting(d) \/ d = c
    BY <1>4 DEF Waiting
<1>9. \A d \in Callers : Sleeps(d)' <=> IF d = c THEN LoopOf[c] \notin ArmedAfter(c) ELSE Sleeps(d)
    BY <1>4 DEF Sleeps
<1>10. ASSUME NEW l \in Loops, NEW d \in Callers
       PROVE  On(line'[l], d) <=> LoopOf[d] = l /\ Waiting(d)'
    <2>1. CASE l = LoopOf[c]
        <3>1. On(line'[l], d) <=> On(line[l], d) \/ d = c
            BY <1>0, <1>5, <1>6, <2>1 DEF LimiterInv, Line
        <3> QED
            BY <1>8, <1>10, <2>1, <3>1 DEF LimiterInv
    <2>2. CASE l # LoopOf[c]
        <3>1. line'[l] = line[l] /\ (LoopOf[d] = l => d # c)
            BY <1>0, <1>6, <1>10, <2>2 DEF LimiterInv
        <3> QED
            BY <1>8, <1>10, <3>1 DEF LimiterInv
    <2> QED
        BY <2>1, <2>2
<1>11. ASSUME NEW l \in Loops
       PROVE  l \in armed' <=> \E d \in Callers : LoopOf[d] = l /\ Sleeps(d)'
    <2>1. CASE l = LoopOf[c]
        <3>1. l \in armed'
            BY <2>1 DEF Park
        <3>2. \E d \in Callers : LoopOf[d] = l /\ Sleeps(d)'
            BY <1>3, <1>9, <2>1
        <3> QED
            BY <3>1, <3>2
    <2>2. CASE l # LoopOf[c]
        <3>1. l \in armed' <=> l \in armed
            BY <2>2 DEF Park, ArmedAfter
        <3>2. \A d \in Callers : LoopOf[d] = l => (Sleeps(d)' <=> Sleeps(d))
            BY <1>9, <2>2
        <3> QED
            BY <1>11, <3>1, <3>2 DEF LimiterInv
    <2> QED
        BY <2>1, <2>2
<1>12. ASSUME NEW d \in Callers, turn'[d] = "parked"
       PROVE  \E e \in Callers : LoopOf[e] = LoopOf[d] /\ turn'[e] \in {"timer", "fired", "told"}
    <2>1. CASE LoopOf[d] = LoopOf[c]
        <3>1. PICK e \in Callers : LoopOf[e] = LoopOf[c] /\ Sleeps(e)'
            BY <1>3, <1>9
        <3> QED
            BY <2>1, <3>1 DEF Sleeps
    <2>2. CASE LoopOf[d] # LoopOf[c]
        <3>1. turn[d] = "parked"
            BY <1>4, <1>12, <2>2
        <3>2. PICK e \in Callers : LoopOf[e] = LoopOf[d] /\ turn[e] \in {"timer", "fired", "told"}
            BY <3>1 DEF LimiterInv, TurnIsNotLost
        <3> QED
            BY <1>4, <2>2, <3>2
    <2> QED
        BY <2>1, <2>2
<1>13. ASSUME NEW d \in Callers, NEW e \in Callers \ {d}, LoopOf[e] = LoopOf[d],
              Sleeps(d)', Sleeps(e)'
       PROVE  FALSE
    <2>1. d # c /\ e # c
        BY <1>3, <1>9, <1>13
    <2> QED
        BY <1>9, <1>13, <2>1 DEF LimiterInv, TurnIsNotLost, Sleeps
<1>14. TurnIsNotLost'
    BY <1>12, <1>13 DEF TurnIsNotLost, Sleeps
<1> QED
    BY <1>4, <1>7, <1>10, <1>11, <1>14 DEF LimiterInv

LEMMA TakesSlot ==
    ASSUME LimiterInv, NEW c \in Callers, TakeSlot(c)
    PROVE  LimiterInv'
<1>1. ~Waiting(c) /\ (Sleeps(c) <=> turn[c] = "fired")
    BY DEF TakeSlot, Looks, Waiting, Sleeps
<1>2. Once(Line(c)) /\ ~On(Line(c), c)
    BY <1>1, LoopAssumption DEF LimiterInv, Line
<1>3. \A d \in Callers : On(Line(c), d) <=> On(Line(c), d) /\ d # c
    BY <1>2
<1>4. armed' = armed \ (IF Sleeps(c) THEN {LoopOf[c]} ELSE {})
    BY <1>1 DEF TakeSlot, ArmedAfter
<1>5. NotifyOne(c, Line(c), "out")
    BY DEF TakeSlot
<1> QED
    BY <1>2, <1>3, <1>4, <1>5, HandOver

\* A caller whose state of sleep and place in line a step does not change, or which it
\* takes out of the line while it stays on the timer.
LEMMA TurnStays ==
    ASSUME LimiterInv, NEW c \in Callers, armed' = armed,
           turn' \in [Callers -> Turns], \A d \in Callers \ {c} : turn'[d] = turn[d],
           Sleeps(c)' <=> Sleeps(c), turn[c] = "told" => turn'[c] = "told", turn'[c] # "parked",
           line' \in [Loops -> Seq(Callers)], \A l \in Loops : Once(line'[l]),
           \A l \in Loops, d \in Callers :
                On(line'[l], d) <=> On(line[l], d) /\ (d = c => Waiting(c)'),
           Waiting(c)' => Waiting(c)
    PROVE  LimiterInv'
<1>1. \A d \in Callers : Sleeps(d)' <=> Sleeps(d)
    BY DEF Sleeps
<1>2. \A d \in Callers : Waiting(d)' <=> Waiting(d) /\ (d = c => Waiting(c)')
    BY DEF Waiting
<1>3. \A l \in Loops, d \in Callers : On(line'[l], d) <=> LoopOf[d] = l /\ Waiting(d)'
    BY <1>2 DEF LimiterInv
<1>4. \A l \in Loops : l \in armed' <=> \E d \in Callers : LoopOf[d] = l /\ Sleeps(d)'
    BY <1>1 DEF LimiterInv
<1>5. ASSUME NEW d \in Callers, turn'[d] = "parked"
      PROVE  \E e \in Callers : LoopOf[e] = LoopOf[d] /\ turn'[e] \in {"timer", "fired", "told"}
    <2>1. PICK e \in Callers : LoopOf[e] = LoopOf[d] /\ turn[e] \in {"timer", "fired", "told"}
        BY <1>5 DEF LimiterInv, TurnIsNotLost
    <2>2. turn'[e] \in {"timer", "fired", "told"}
        BY <1>1, <2>1 DEF Sleeps
    <2> QED
        BY <2>1, <2>2
<1>6. TurnIsNotLost'
    BY <1>1, <1>5 DEF LimiterInv, TurnIsNotLost, Sleeps
<1> QED
    BY <1>3, <1>4, <1>6 DEF LimiterInv

LEMMA FiresTimer ==
    ASSUME LimiterInv, NEW c \in Callers, TimerFires(c)
    PROVE  LimiterInv'
<1>0. LoopOf[c] \in Loops /\ "fired" \in Turns
    BY LoopAssumption DEF Turns
<1>1. /\ turn[c] = "timer" /\ turn' \in [Callers -> Turns] /\ turn'[c] = "fired"
      /\ \A d \in Callers \ {c} : turn'[d] = turn[d]
      /\ armed' = armed /\ line' = [line EXCEPT ![LoopOf[c]] = LineWithout(c)]
    BY <1>0 DEF TimerFires, LimiterInv
<1>2. Waiting(c) /\ ~Waiting(c)' /\ Sleeps(c) /\ Sleeps(c)'
    BY <1>1 DEF Waiting, Sleeps
<1>3. line' \in [Loops -> Seq(Callers)] /\ \A l \in Loops : Once(line'[l])
    BY <1>0, <1>1, LineLeft DEF LimiterInv, Once
<1>4. ASSUME NEW l \in Loops, NEW d \in Callers
      PROVE  On(line'[l], d) <=> On(line[l], d) /\ d # c
    <2>1. CASE l = LoopOf[c]
        BY <1>0, <1>1, <2>1, LineLeft DEF LimiterInv, Line
    <2>2. CASE l # LoopOf[c]
        <3>1. line'[l] = line[l] /\ (On(line[l], d) => d # c)
            BY <1>0, <1>1, <2>2 DEF LimiterInv
        <3> QED
            BY <3>1
    <2> QED
        BY <2>1, <2>2
<1> QED
    BY <1>1, <1>2, <1>3, <1>4, TurnStays

LEMMA GivesUp ==
    ASSUME LimiterInv, NEW c \in Callers, GivesUpTurn(c)
    PROVE  LimiterInv'
<1>1. CASE turn[c] = "checking"
    <2>1. /\ turn' = [turn EXCEPT ![c] = "out"] /\ line' = line
          /\ armed' = armed /\ ~Sleeps(c) /\ ~Waiting(c)
        BY <1>1 DEF GivesUpTurn, Sleeps, Waiting, LimiterInv
    <2>2. /\ turn' \in [Callers -> Turns] /\ turn'[c] = "out"
          /\ \A d \in Callers \ {c} : turn'[d] = turn[d]
        BY <2>1 DEF LimiterInv, Turns
    <2>3. ~Sleeps(c)' /\ ~Waiting(c)'
        BY <2>2 DEF Sleeps, Waiting
    <2>4. \A l \in Loops, d \in Callers : On(line'[l], d) <=> On(line[l], d) /\ d # c
        BY <2>1 DEF LimiterInv
    <2>5. line' \in [Loops -> Seq(Callers)] /\ \A l \in Loops : Once(line'[l])
        BY <2>1 DEF LimiterInv
    <2> QED
        BY <1>1, <2>1, <2>2, <2>3, <2>4, <2>5, TurnStays
<1>2. CASE turn[c] # "checking"
    <2>1. armed' = armed \ (IF Sleeps(c) THEN {LoopOf[c]} ELSE {})
        BY DEF GivesUpTurn, Sleeps
    <2>2. NotifyOne(c, LineWithout(c), "out")
        BY <1>2 DEF GivesUpTurn
    <2> QED
        BY <2>1, <2>2, LineLeft, HandOver
<1> QED
    BY <1>1, <1>2

LEMMA StartsChecking ==
    ASSUME LimiterInv, NEW c \in Callers, turn[c] = "out", turn' = [turn EXCEPT ![c] = "checking"],
           UNCHANGED <<armed, line>>
    PROVE  LimiterInv'
<1>1. /\ turn' \in [Callers -> Turns] /\ turn'[c] = "checking"
      /\ \A d \in Callers \ {c} : turn'[d] = turn[d]
    BY DEF LimiterInv, Turns
<1>2. ~Sleeps(c) /\ ~Waiting(c) /\ ~Sleeps(c)' /\ ~Waiting(c)'
    BY <1>1 DEF Sleeps, Waiting
<1>3. \A l \in Loops, d \in Callers : On(line'[l], d) <=> On(line[l], d) /\ d # c
    BY <1>2 DEF LimiterInv
<1>4. line' \in [Loops -> Seq(Callers)] /\ \A l \in Loops : Once(line'[l])
    BY DEF LimiterInv
<1> QED
    BY <1>1, <1>2, <1>3, <1>4, TurnStays

LEMMA LimiterLoopEnds ==
    ASSUME LimiterInv, NEW l \in Loops, LoopEnds(l)
    PROVE  LimiterInv'
<1>1. /\ armed' = armed \ {l} /\ line' = [line EXCEPT ![l] = <<>>]
      /\ turn' \in [Callers -> Turns]
      /\ \A d \in Callers : turn'[d] = IF LoopOf[d] = l THEN "out" ELSE turn[d]
    BY DEF LoopEnds, LimiterInv, Turns
<1>2. \A d \in Callers : /\ Waiting(d)' <=> Waiting(d) /\ LoopOf[d] # l
                         /\ Sleeps(d)' <=> Sleeps(d) /\ LoopOf[d] # l
    BY <1>1 DEF Waiting, Sleeps
<1>3. Once(<<>>) /\ \A d \in Callers : ~On(<<>>, d)
    BY DEF Once, On
<1>4. line' \in [Loops -> Seq(Callers)] /\ \A k \in Loops : Once(line'[k])
    BY <1>1, <1>3 DEF LimiterInv, Once
<1>5. ASSUME NEW k \in Loops, NEW d \in Callers
      PROVE  On(line'[k], d) <=> LoopOf[d] = k /\ Waiting(d)'
    <2>1. CASE k = l
        BY <1>1, <1>2, <1>3, <2>1 DEF LimiterInv
    <2>2. CASE k # l
        <3>1. line'[k] = line[k]
            BY <1>1, <2>2 DEF LimiterInv
        <3> QED
            BY <1>2, <1>5, <2>2, <3>1 DEF LimiterInv
    <2> QED
        BY <2>1, <2>2
<1>6. \A k \in Loops : k \in armed' <=> \E d \in Callers : LoopOf[d] = k /\ Sleeps(d)'
    BY <1>1, <1>2 DEF LimiterInv
<1>7. TurnIsNotLost'
    BY <1>1 DEF LimiterInv, TurnIsNotLost
<1> QED
    BY <1>1, <1>4, <1>5, <1>6, <1>7 DEF LimiterInv

\* Every step of the system is one of the limiter's for one caller, the end of a loop, or
\* leaves the limiter's callers alone.
LimiterStep(c) ==
    \/ Park(c) \/ TakeSlot(c) \/ TimerFires(c) \/ GivesUpTurn(c)
    \/ turn[c] = "out" /\ turn' = [turn EXCEPT ![c] = "checking"] /\ UNCHANGED <<armed, line>>

LEMMA LimiterSteps ==
    ASSUME InLimiter, [Next]_vars
    PROVE  \/ \E c \in Callers : LimiterStep(c)
           \/ \E l \in Loops : LoopEnds(l)
           \/ UNCHANGED <<armed, line, turn>>
<1> USE DEF limiterVars
<1>1. ASSUME NEW c \in Callers, Call(c)
      PROVE  (\E d \in Callers : LimiterStep(d)) \/ UNCHANGED <<armed, line, turn>>
    <2>1. CASE Attempt(c)
        BY <2>1 DEF Attempt, LimiterStep, InLimiter
    <2>2. CASE Acquires(c) \/ Fires(c) \/ Cancelled(c)
        BY <2>2 DEF Acquires, Fires, Cancelled, LimiterStep
    <2>3. CASE Enters(c) \/ WaitsForProbe(c) \/ Patience(c) \/ Answered(c)
        BY <2>3 DEF Enters, WaitsForProbe, Patience, Answered
    <2> QED
        BY <1>1, <2>1, <2>2, <2>3 DEF Call
<1>2. CASE Time
    BY <1>2 DEF Time, SlotAgesOut
<1>3. CASE UNCHANGED vars
    BY <1>3 DEF vars
<1> QED
    BY <1>1, <1>2, <1>3 DEF Next

LEMMA LimiterStepsKeep ==
    ASSUME LimiterInv, InLimiter, [Next]_vars
    PROVE  LimiterInv'
<1>1. ASSUME NEW c \in Callers, LimiterStep(c) PROVE LimiterInv'
    BY <1>1, Parks, TakesSlot, FiresTimer, GivesUp, StartsChecking DEF LimiterStep
<1>2. ASSUME NEW l \in Loops, LoopEnds(l) PROVE LimiterInv'
    BY <1>2, LimiterLoopEnds
<1>3. CASE UNCHANGED <<armed, line, turn>>
    BY <1>3 DEF LimiterInv, TurnIsNotLost, Waiting, Sleeps
<1> QED
    BY <1>1, <1>2, <1>3, LimiterSteps

\* The caller that is woken was in the limiter and stays there.
LEMMA OthersStayIn ==
    ASSUME LimiterInv, NEW c \in Callers, NEW left, Once(left),
           \A d \in Callers : On(left, d) => On(Line(c), d) /\ d # c,
           NotifyOne(c, left, "out")
    PROVE  turn'[c] = "out" /\ \A d \in Callers \ {c} : turn'[d] # "out" <=> turn[d] # "out"
<1>1. CASE left = <<>>
    BY <1>1 DEF NotifyOne, LimiterInv
<1>2. CASE left # <<>>
    <2> DEFINE h == Head(left)
    <2>1. h \in Callers /\ On(left, h)
        BY <1>2, OnceTail
    <2>2. turn' = [turn EXCEPT ![c] = "out", ![h] = Notified(h)]
        BY <1>2 DEF NotifyOne
    <2> HIDE DEF h
    <2>3. h # c /\ Waiting(h)
        BY <2>1, LoopAssumption DEF LimiterInv, Line
    <2> QED
        BY <2>1, <2>2, <2>3 DEF Waiting, Notified, LimiterInv
<1> QED
    BY <1>1, <1>2

LEMMA InLimiterKept ==
    ASSUME LimiterInv, InLimiter, CallInv, [Next]_vars
    PROVE  InLimiter'
<1> USE DEF CallInv
<1>1. ASSUME NEW c \in Callers, Call(c) PROVE InLimiter'
    <2>1. CASE Attempt(c)
        BY <2>1 DEF Attempt, MoveTo, InLimiter, LimiterInv, AtTypes
    <2>2. CASE Acquires(c)
        <3>1. CASE Park(c) /\ at' = at
            <4>1. at[c] = "limiting" /\ turn'[c] # "out" /\ \A d \in Callers \ {c} : turn'[d] = turn[d]
                BY <2>2, <3>1 DEF Acquires, Park, LimiterInv
            <4> QED
                BY <3>1, <4>1 DEF InLimiter
        <3>2. CASE TakeSlot(c) /\ MoveTo(c, "breaking")
            <4>1. Once(Line(c)) /\ NotifyOne(c, Line(c), "out")
                BY <3>2, LoopAssumption DEF LimiterInv, Line, TakeSlot
            <4>2. \A d \in Callers : On(Line(c), d) => d # c
                BY <3>2, LoopAssumption DEF LimiterInv, Line, TakeSlot, Looks, Waiting
            <4>3. turn'[c] = "out" /\ \A d \in Callers \ {c} : turn'[d] # "out" <=> turn[d] # "out"
                BY <4>1, <4>2, OthersStayIn
            <4> QED
                BY <3>2, <4>3 DEF MoveTo, InLimiter, AtTypes
        <3> QED
            BY <2>2, <3>1, <3>2 DEF Acquires
    <2>3. CASE Fires(c)
        BY <2>3 DEF Fires, TimerFires, InLimiter, LimiterInv
    <2>4. CASE Enters(c) \/ WaitsForProbe(c) \/ Patience(c) \/ Answered(c)
        <3>1. turn' = turn /\ at[c] # "limiting" /\ (at' = at \/ MoveTo(c, "done") \/ MoveTo(c, "backoff"))
            BY <2>4 DEF Enters, WaitsForProbe, Patience, Answered, PassClosed, StartProbe, Rejected,
                        Waits, Asks, PatienceEnds, Exit, Apart, limiterVars
        <3> QED
            BY <3>1 DEF MoveTo, InLimiter, AtTypes
    <2>5. CASE Cancelled(c)
        <3>1. CASE at[c] = "limiting" /\ GivesUpTurn(c)
            <4>1. turn'[c] = "out" /\ \A d \in Callers \ {c} : turn'[d] # "out" <=> turn[d] # "out"
                <5>1. CASE turn[c] = "checking"
                    BY <3>1, <5>1 DEF GivesUpTurn, LimiterInv
                <5>2. CASE turn[c] # "checking"
                    BY <3>1, <5>2, LineLeft, OthersStayIn DEF GivesUpTurn
                <5> QED
                    BY <5>1, <5>2
            <4> QED
                BY <2>5, <4>1 DEF Cancelled, MoveTo, InLimiter, AtTypes, BreakerInv
        <3>2. CASE at[c] # "limiting" /\ turn' = turn
            BY <2>5, <3>2 DEF Cancelled, MoveTo, InLimiter, AtTypes
        <3> QED
            BY <2>5, <3>1, <3>2 DEF Cancelled, limiterVars
    <2> QED
        BY <1>1, <2>1, <2>2, <2>3, <2>4, <2>5 DEF Call
<1>2. ASSUME NEW l \in Loops, LoopEnds(l) PROVE InLimiter'
    BY <1>2 DEF LoopEnds, InLimiter, LimiterInv, AtTypes
<1>3. CASE Time
    BY <1>3 DEF Time, SlotAgesOut, limiterVars, InLimiter
<1>4. CASE UNCHANGED vars
    BY <1>4 DEF vars, limiterVars, InLimiter
<1> QED
    BY <1>1, <1>2, <1>3, <1>4 DEF Next

LEMMA LimiterInvHolds == Spec => [](LimiterInv /\ InLimiter)
<1>1. Init => LimiterInv /\ InLimiter
    <2> SUFFICES ASSUME Init PROVE LimiterInv /\ InLimiter
        OBVIOUS
    <2>1. /\ armed = {} /\ turn \in [Callers -> Turns] /\ line \in [Loops -> Seq(Callers)]
          /\ \A l \in Loops : line[l] = <<>>
          /\ \A c \in Callers : turn[c] = "out" /\ at[c] = "idle"
        BY DEF Init, LimiterInit, Turns
    <2>2. Once(<<>>) /\ \A c \in Callers : ~On(<<>>, c)
        BY DEF Once, On
    <2>3. \A l \in Loops : Once(line[l]) /\ \A c \in Callers : ~On(line[l], c)
        BY <2>1, <2>2
    <2> QED
        BY <2>1, <2>2, <2>3 DEF LimiterInv, InLimiter, TurnIsNotLost, Waiting, Sleeps
<1>2. LimiterInv /\ InLimiter /\ CallInv /\ [Next]_vars => LimiterInv' /\ InLimiter'
    BY LimiterStepsKeep, InLimiterKept
<1> QED
    BY <1>1, <1>2, CallInvHolds, PTL DEF Spec

\* However turns are taken, timed out, handed on or given up, and whichever loops end, no
\* caller of the limiter is left asleep alone on its loop.
THEOREM TurnIsNotLostAlways == Spec => []TurnIsNotLost
<1>1. LimiterInv => TurnIsNotLost
    BY DEF LimiterInv
<1> QED
    BY <1>1, LimiterInvHolds, PTL

-----------------------------------------------------------------------------
(* The counters.                                                            *)

\* An attempt is left to every call that makes another one.
Counts ==
    /\ failures \in 0 .. FailureThreshold /\ window \in 0 .. MaxRequests
    /\ attempt \in [Callers -> 0 .. MaxAttempts]
    /\ \A c \in Callers : at[c] \in {"idle", "backoff"} => attempt[c] < MaxAttempts

LEMMA FailuresCounted ==
    ASSUME CallInv, failures \in 0 .. FailureThreshold, [Next]_vars
    PROVE  failures' \in 0 .. FailureThreshold
<1> USE BreakerAssumption
<1>1. ASSUME NEW c \in Callers, BreakerStep(c) PROVE failures' \in 0 .. FailureThreshold
    <2>1. CASE Fails(c)
        BY <2>1 DEF Fails
    <2> QED
        BY <1>1, <2>1 DEF BreakerStep, PassClosed, StartProbe, Rejected, Waits, PatienceEnds,
           StopsWaiting, Exit, Closes, Reopens, breakerVars
<1> QED
    BY <1>1, SystemSteps DEF SystemStep, AsksNow, LoopLeaves, Ageing, allBreakerVars, breakerVars

\* A slot is taken of a window that is not full, and one in use ages out.
LEMMA WindowCounted ==
    ASSUME window \in 0 .. MaxRequests, [Next]_vars PROVE window' \in 0 .. MaxRequests
<1> USE LimiterAssumption DEF limiterVars
<1>1. ASSUME NEW c \in Callers, Call(c) PROVE window' \in 0 .. MaxRequests
    <2>1. CASE Acquires(c)
        BY <2>1 DEF Acquires, Park, TakeSlot
    <2>2. CASE Attempt(c) \/ Fires(c) \/ Cancelled(c)
        BY <2>2 DEF Attempt, Fires, TimerFires, Cancelled, GivesUpTurn
    <2>3. CASE Enters(c) \/ WaitsForProbe(c) \/ Patience(c) \/ Answered(c)
        BY <2>3 DEF Enters, WaitsForProbe, Patience, Answered
    <2> QED
        BY <1>1, <2>1, <2>2, <2>3 DEF Call
<1>2. ASSUME NEW l \in Loops, LoopEnds(l) PROVE window' \in 0 .. MaxRequests
    BY <1>2 DEF LoopEnds
<1>3. CASE Time \/ UNCHANGED vars
    BY <1>3 DEF Time, SlotAgesOut, vars
<1> QED
    BY <1>1, <1>2, <1>3 DEF Next

LEMMA AttemptsCounted ==
    ASSUME AtTypes, Counts, [Next]_vars
    PROVE  /\ attempt' \in [Callers -> 0 .. MaxAttempts]
           /\ \A c \in Callers : at'[c] \in {"idle", "backoff"} => attempt'[c] < MaxAttempts
<1> USE CallAssumption DEF AtTypes, Counts
<1> DEFINE Goal == /\ attempt' \in [Callers -> 0 .. MaxAttempts]
                   /\ \A c \in Callers :
                          at'[c] \in {"idle", "backoff"} => attempt'[c] < MaxAttempts
<1>1. ASSUME NEW c \in Callers, Call(c) PROVE Goal
    <2>1. CASE Attempt(c)
        BY <2>1 DEF Attempt, MoveTo
    <2>2. CASE Acquires(c) \/ Fires(c) \/ Enters(c) \/ Cancelled(c)
        BY <2>2 DEF Acquires, Fires, Enters, Cancelled, MoveTo
    <2>3. CASE WaitsForProbe(c) \/ Patience(c)
        BY <2>3 DEF WaitsForProbe, Patience
    <2>4. CASE Answered(c)
        BY <2>4 DEF Answered, MoveTo
    <2> QED
        BY <1>1, <2>1, <2>2, <2>3, <2>4 DEF Call
<1>2. ASSUME NEW l \in Loops, LoopEnds(l) PROVE Goal
    BY <1>2 DEF LoopEnds
<1>3. CASE Time \/ UNCHANGED vars
    BY <1>3 DEF Time, vars
<1> QED
    BY <1>1, <1>2, <1>3 DEF Next

\* A call makes at most MaxAttempts attempts, the window holds at most MaxRequests slots,
\* and the records of breaker and limiter stay well formed, whichever loops end.
THEOREM TypeCorrect == Spec => []TypeOK
<1>1. Init => Counts
    BY BreakerAssumption, LimiterAssumption, CallAssumption
    DEF Init, BreakerInit, LimiterInit, Counts
<1>2. CallInv /\ Counts /\ [Next]_vars => Counts'
    BY FailuresCounted, WindowCounted, AttemptsCounted DEF Counts, CallInv
<1>3. CallInv /\ LimiterInv /\ Counts => TypeOK
    BY DEF CallInv, BreakerInv, BreakerTypes, AtTypes, LimiterInv, Counts, TypeOK, BreakerTypeOK,
           LimiterTypeOK
<1> QED
    BY <1>1, <1>2, <1>3, CallInvHolds, LimiterInvHolds, PTL DEF Spec

=============================================================================
