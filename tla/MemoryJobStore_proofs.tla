----------------------- MODULE MemoryJobStore_proofs -----------------------
(***************************************************************************)
(* Proofs about MemoryJobStore for any set of jobs and any caps and        *)
(* budgets.  Everything rests on what a purge may do to a record           *)
(* (PurgeForgetsFinished): leave it alone or forget a finished job.  The   *)
(* byte budget needs what the library's fold computes (BytesGrow).         *)
(***************************************************************************)
EXTENDS MemoryJobStore, Folds, FiniteSetTheorems, WellFoundedInduction, TLAPS

\* The part of the inductive invariant no run states on its own: finish times
\* are ranks the clock has handed out, so a job that finishes now is the newest.
ClockIsAhead == \A j \in Jobs : finishedAt[j] <= clock

StoreInv == StoreTypeOK /\ ClockIsAhead

\* Sets of jobs are finite, and smaller sets have no more elements.
LEMMA JobSets ==
  ASSUME NEW S \in SUBSET Jobs, NEW T \in SUBSET S
  PROVE  /\ IsFiniteSet(S) /\ IsFiniteSet(T)
         /\ Cardinality(S) \in Nat /\ Cardinality(T) \in Nat
         /\ Cardinality(T) <= Cardinality(S)
  BY StoreAssumption, FS_Subset, FS_CardinalityType

\* A purge keeps a record as it is or forgets a finished job (_purge_locked).
LEMMA PurgeForgetsFinished ==
  ASSUME NEW st \in [Jobs -> Statuses], NEW at \in [Jobs -> Nat],
         NEW old \in SUBSET InStatus(st, FinishedStatuses),
         Purge(st, at, old)
  PROVE  /\ status' \in [Jobs -> Statuses]
         /\ finishedAt' \in [Jobs -> Nat]
         /\ aged' = {}
         /\ \A j \in Jobs :
               \/ status'[j] = st[j] /\ finishedAt'[j] = at[j]
               \/ /\ st[j] \in FinishedStatuses
                  /\ status'[j] = "gone" /\ finishedAt'[j] = 0
<1> DEFINE live == InStatus(st, FinishedStatuses) \ old
           dropped == old \cup Evicted(st, at, live)
<1>1. dropped \subseteq InStatus(st, FinishedStatuses)
  BY DEF Evicted
<1>2. /\ status' = [j \in Jobs |-> IF j \in dropped THEN "gone" ELSE st[j]]
      /\ finishedAt' = [j \in Jobs |-> IF j \in dropped THEN 0 ELSE at[j]]
      /\ aged' = {}
  BY DEF Purge
<1> HIDE DEF dropped
<1> QED
  BY <1>1, <1>2 DEF InStatus, Statuses

\* Every method of the store either ends in a purge of some records, or leaves the
\* finished jobs alone but for one it discards.
LEMMA FinishPurges ==
  ASSUME StoreInv, NEW j \in Jobs, NEW verdict \in FinishedStatuses, Finish(j, verdict)
  PROVE  LET st == [status EXCEPT ![j] = verdict]
             at == [finishedAt EXCEPT ![j] = clock + 1]
         IN  /\ st \in [Jobs -> Statuses] /\ at \in [Jobs -> Nat]
             /\ aged \ {j} \in SUBSET InStatus(st, FinishedStatuses)
             /\ Purge(st, at, aged \ {j})
             /\ clock' = clock + 1
  BY DEF Finish, StoreInv, StoreTypeOK, FinishedJobs, InStatus, Statuses

LEMMA FinishPreserves ==
  ASSUME StoreInv, NEW j \in Jobs, NEW verdict \in FinishedStatuses, Finish(j, verdict)
  PROVE  StoreInv'
<1> DEFINE st == [status EXCEPT ![j] = verdict]
           at == [finishedAt EXCEPT ![j] = clock + 1]
<1>1. /\ st \in [Jobs -> Statuses] /\ at \in [Jobs -> Nat]
      /\ aged \ {j} \in SUBSET InStatus(st, FinishedStatuses)
      /\ Purge(st, at, aged \ {j})
      /\ clock' = clock + 1
  BY FinishPurges
<1>2. \A k \in Jobs : (at[k] > 0) <=> (st[k] \in FinishedStatuses)
  BY DEF StoreInv, StoreTypeOK, FinishedJobs, InStatus
<1>3. \A k \in Jobs : at[k] <= clock + 1
  BY DEF StoreInv, StoreTypeOK, ClockIsAhead
<1> HIDE DEF st, at
<1>4. /\ status' \in [Jobs -> Statuses] /\ finishedAt' \in [Jobs -> Nat] /\ aged' = {}
      /\ \A k \in Jobs :
            \/ status'[k] = st[k] /\ finishedAt'[k] = at[k]
            \/ st[k] \in FinishedStatuses /\ status'[k] = "gone" /\ finishedAt'[k] = 0
  BY <1>1, PurgeForgetsFinished
<1> QED
  BY <1>1, <1>2, <1>3, <1>4
  DEF StoreInv, StoreTypeOK, ClockIsAhead, FinishedJobs, InStatus, FinishedStatuses

\* A purge on its own, or after a new record was queued.
LEMMA PurgePreserves ==
  ASSUME StoreInv, NEW st \in [Jobs -> Statuses],
         \A k \in Jobs : st[k] \in FinishedStatuses <=> status[k] \in FinishedStatuses,
         Purge(st, finishedAt, aged), clock' = clock
  PROVE  StoreInv'
<1>1. /\ finishedAt \in [Jobs -> Nat]
      /\ aged \in SUBSET InStatus(st, FinishedStatuses)
      /\ \A k \in Jobs : (finishedAt[k] > 0) <=> (st[k] \in FinishedStatuses)
      /\ \A k \in Jobs : finishedAt[k] <= clock
      /\ clock \in Nat
  BY DEF StoreInv, StoreTypeOK, ClockIsAhead, FinishedJobs, InStatus
<1>2. /\ status' \in [Jobs -> Statuses] /\ finishedAt' \in [Jobs -> Nat] /\ aged' = {}
      /\ \A k \in Jobs :
            \/ status'[k] = st[k] /\ finishedAt'[k] = finishedAt[k]
            \/ st[k] \in FinishedStatuses /\ status'[k] = "gone" /\ finishedAt'[k] = 0
  BY <1>1, PurgeForgetsFinished
<1> QED
  BY <1>1, <1>2
  DEF StoreInv, StoreTypeOK, ClockIsAhead, FinishedJobs, InStatus, FinishedStatuses

LEMMA StoreInvInductive ==
  ASSUME StoreInv, [StoreNext]_storeVars
  PROVE  StoreInv'
<1> USE DEF StoreInv
<1>1. ASSUME NEW j \in Jobs, Create(j) PROVE StoreInv'
  <2> DEFINE st == [status EXCEPT ![j] = "queued"]
  <2>1. /\ st \in [Jobs -> Statuses] /\ Purge(st, finishedAt, aged) /\ clock' = clock
        /\ \A k \in Jobs : st[k] \in FinishedStatuses <=> status[k] \in FinishedStatuses
    BY <1>1 DEF Create, StoreTypeOK, Statuses, ActiveStatuses, FinishedStatuses
  <2> HIDE DEF st
  <2> QED BY <2>1, PurgePreserves
<1>2. ASSUME PurgeOnly PROVE StoreInv'
  BY <1>2, PurgePreserves DEF PurgeOnly, StoreTypeOK
<1>3. ASSUME NEW j \in Jobs, status[j] = "queued", Discard(j) PROVE StoreInv'
  BY <1>3 DEF Discard, StoreTypeOK, ClockIsAhead, FinishedJobs, InStatus, Statuses,
              FinishedStatuses, ActiveStatuses
<1>4. ASSUME NEW j \in Jobs, SetRunning(j) PROVE StoreInv'
  BY <1>4 DEF SetRunning, StoreTypeOK, ClockIsAhead, FinishedJobs, InStatus, Statuses,
              FinishedStatuses, ActiveStatuses
<1>5. ASSUME NEW j \in Jobs, CancelQueued(j) PROVE StoreInv'
  BY <1>5, FinishPreserves DEF CancelQueued, FinishedStatuses
<1>6. ASSUME NEW j \in Jobs, SetSucceeded(j) PROVE StoreInv'
  BY <1>6, FinishPreserves
  DEF SetSucceeded, FinishedStatuses, storeVars, StoreTypeOK, ClockIsAhead, FinishedJobs, InStatus
<1>7. ASSUME NEW j \in Jobs, SetFailed(j, {status[j]}) PROVE StoreInv'
  BY <1>7, FinishPreserves DEF SetFailed, FinishedStatuses
<1>8. ASSUME NEW j \in Jobs, Age(j) PROVE StoreInv'
  BY <1>8 DEF Age, StoreTypeOK, ClockIsAhead, FinishedJobs, InStatus
<1>9. ASSUME UNCHANGED storeVars PROVE StoreInv'
  BY <1>9 DEF storeVars, StoreTypeOK, ClockIsAhead, FinishedJobs, InStatus
<1> QED
  BY <1>1, <1>2, <1>3, <1>4, <1>5, <1>6, <1>7, <1>8, <1>9 DEF StoreNext, CreateRefused

\* Records are well typed and exactly the finished jobs have a finish time.
THEOREM StoreTypeCorrect == StoreSpec => []StoreTypeOK
<1>1. StoreInit => StoreInv
  BY StoreAssumption DEF StoreInit, StoreInv, StoreTypeOK, ClockIsAhead, FinishedJobs, InStatus,
                         Statuses, FinishedStatuses, ActiveStatuses
<1>2. StoreInv /\ [StoreNext]_storeVars => StoreInv'
  BY StoreInvInductive
<1>3. StoreInv => StoreTypeOK
  BY DEF StoreInv
<1> QED
  BY <1>1, <1>2, <1>3, PTL DEF StoreSpec

-----------------------------------------------------------------------------
(* The cap: only `create' makes a job active, and it looks at the cap first. *)

\* No step but a Create adds an active job.
LEMMA OnlyCreateActivates ==
  ASSUME StoreInv, [StoreNext]_storeVars
  PROVE  \/ ActiveJobs' \subseteq ActiveJobs
         \/ HasRoom /\ \E j \in Jobs : ActiveJobs' \subseteq ActiveJobs \cup {j}
<1> USE DEF ActiveJobs, InStatus
<1>1. ASSUME NEW j \in Jobs, NEW verdict \in FinishedStatuses, Finish(j, verdict)
      PROVE  ActiveJobs' \subseteq ActiveJobs
  <2> DEFINE st == [status EXCEPT ![j] = verdict]
             at == [finishedAt EXCEPT ![j] = clock + 1]
  <2>1. /\ st \in [Jobs -> Statuses] /\ at \in [Jobs -> Nat]
        /\ aged \ {j} \in SUBSET InStatus(st, FinishedStatuses)
        /\ Purge(st, at, aged \ {j})
    BY <1>1, FinishPurges
  <2>2. \A k \in Jobs : st[k] \in ActiveStatuses => status[k] \in ActiveStatuses
    BY DEF StoreInv, StoreTypeOK, ActiveStatuses, FinishedStatuses
  <2> HIDE DEF st, at
  <2>3. \A k \in Jobs : status'[k] = st[k] \/ status'[k] = "gone"
    BY <2>1, PurgeForgetsFinished
  <2> QED
    BY <2>2, <2>3 DEF ActiveStatuses
<1>2. ASSUME NEW j \in Jobs, Create(j)
      PROVE  HasRoom /\ \E k \in Jobs : ActiveJobs' \subseteq ActiveJobs \cup {k}
  <2> DEFINE st == [status EXCEPT ![j] = "queued"]
  <2>1. st \in [Jobs -> Statuses] /\ finishedAt \in [Jobs -> Nat]
    BY DEF StoreInv, StoreTypeOK, Statuses, ActiveStatuses
  <2>2. aged \in SUBSET InStatus(st, FinishedStatuses) /\ Purge(st, finishedAt, aged)
    BY <1>2 DEF Create, StoreInv, StoreTypeOK, FinishedJobs, FinishedStatuses
  <2>3. \A k \in Jobs \ {j} : st[k] = status[k]
    BY DEF StoreInv, StoreTypeOK
  <2> HIDE DEF st
  <2>4. \A k \in Jobs : status'[k] = st[k] \/ status'[k] = "gone"
    BY <2>1, <2>2, PurgeForgetsFinished
  <2>5. ActiveJobs' \subseteq ActiveJobs \cup {j}
    BY <2>3, <2>4 DEF ActiveStatuses
  <2> QED
    BY <1>2, <2>5 DEF Create
<1>3. ASSUME PurgeOnly PROVE ActiveJobs' \subseteq ActiveJobs
  <2>1. \A k \in Jobs : status'[k] = status[k] \/ status'[k] = "gone"
    BY <1>3, PurgeForgetsFinished DEF PurgeOnly, StoreInv, StoreTypeOK, FinishedJobs
  <2> QED
    BY <2>1 DEF ActiveStatuses
<1>4. ASSUME NEW j \in Jobs, Discard(j) \/ SetRunning(j)
      PROVE  ActiveJobs' \subseteq ActiveJobs
  BY <1>4 DEF Discard, SetRunning, StoreInv, StoreTypeOK, ActiveStatuses
<1>5. ASSUME NEW j \in Jobs, CancelQueued(j) \/ SetSucceeded(j) \/ SetFailed(j, {status[j]})
      PROVE  ActiveJobs' \subseteq ActiveJobs
  BY <1>1, <1>5 DEF CancelQueued, SetSucceeded, SetFailed, FinishedStatuses, storeVars
<1>6. ASSUME (\E j \in Jobs : Age(j)) \/ UNCHANGED storeVars
      PROVE  ActiveJobs' \subseteq ActiveJobs
  BY <1>6 DEF Age, storeVars
<1> QED
  BY <1>2, <1>3, <1>4, <1>5, <1>6 DEF StoreNext, CreateRefused

\* A step that activates at most one job, and only where there is room.
LEMMA CapMoves ==
  ASSUME CapRespected,
         \/ ActiveJobs' \subseteq ActiveJobs
         \/ HasRoom /\ \E j \in Jobs : ActiveJobs' \subseteq ActiveJobs \cup {j}
  PROVE  CapRespected'
<1>1. ActiveJobs \in SUBSET Jobs /\ ActiveJobs' \in SUBSET Jobs
  BY DEF ActiveJobs, InStatus
<1>2. ASSUME ActiveJobs' \subseteq ActiveJobs PROVE CapRespected'
  BY <1>1, <1>2, JobSets, StoreAssumption DEF CapRespected
<1>3. ASSUME HasRoom, NEW j \in Jobs, ActiveJobs' \subseteq ActiveJobs \cup {j}
      PROVE  CapRespected'
  <2>1. /\ IsFiniteSet(ActiveJobs) /\ Cardinality(ActiveJobs) \in Nat
    BY <1>1, JobSets
  <2>2. Cardinality(ActiveJobs \cup {j}) \in {Cardinality(ActiveJobs), Cardinality(ActiveJobs) + 1}
    BY <2>1, FS_AddElement, Zenon
  <2>3. ActiveJobs \cup {j} \in SUBSET Jobs
    BY <1>1
  <2>4. /\ Cardinality(ActiveJobs') <= Cardinality(ActiveJobs \cup {j})
        /\ Cardinality(ActiveJobs') \in Nat /\ Cardinality(ActiveJobs \cup {j}) \in Nat
    BY <1>3, <2>3, JobSets
  <2> QED
    BY <1>3, <2>1, <2>2, <2>4, StoreAssumption DEF HasRoom, CapRespected
<1> QED
  BY <1>2, <1>3

\* JOBS_MAX_ACTIVE is never exceeded (MemoryJobStore.create).
THEOREM CapCorrect == StoreSpec => []CapRespected
<1>1. StoreInit => StoreInv /\ CapRespected
  <2>1. StoreInit => StoreInv
    BY StoreAssumption DEF StoreInit, StoreInv, StoreTypeOK, ClockIsAhead, FinishedJobs,
                           InStatus, Statuses, FinishedStatuses, ActiveStatuses
  <2>2. StoreInit => ActiveJobs = {}
    BY DEF StoreInit, ActiveJobs, InStatus, ActiveStatuses
  <2> QED
    BY <2>1, <2>2, FS_EmptySet, StoreAssumption DEF CapRespected
<1>2. ASSUME StoreInv, CapRespected, [StoreNext]_storeVars
      PROVE  StoreInv' /\ CapRespected'
  BY <1>2, CapMoves, OnlyCreateActivates, StoreInvInductive
<1> QED
  BY <1>1, <1>2, PTL DEF StoreSpec

-----------------------------------------------------------------------------
(* Retention.                                                               *)

\* A non-empty set of naturals has a least element.
LEMMA LeastNatural ==
  ASSUME NEW T \in SUBSET Nat, T # {}
  PROVE  \E m \in T : \A n \in T : n >= m
<1>1. \E m \in T : \A n \in T : <<n, m>> \notin OpToRel(<, Nat)
  BY WFMin, NatLessThanWellFounded, Zenon
<1>2. PICK m \in T : \A n \in T : <<n, m>> \notin OpToRel(<, Nat)
  BY <1>1, Zenon
<1>3. \A n \in T : ~ (n < m)
  BY <1>2, Zenon DEF OpToRel
<1> QED
  BY <1>3

\* A non-empty set of jobs has one that finished no later than the others.
LEMMA OldestExists ==
  ASSUME NEW at \in [Jobs -> Nat], NEW S \in SUBSET Jobs, S # {}
  PROVE  \E j \in S : \A k \in S : at[k] >= at[j]
<1> DEFINE T == {at[k] : k \in S}
<1>1. T \in SUBSET Nat /\ T # {}
  OBVIOUS
<1> HIDE DEF T
<1>2. PICK m \in T : \A n \in T : n >= m
  BY <1>1, LeastNatural
<1> QED
  BY <1>2 DEF T

-----------------------------------------------------------------------------
(* The byte budget.  Bytes is a fold of the library over a set; what it      *)
(* computes is found by least counterexamples in the size of the set.        *)

\* The job the fold takes out of S first.
Taken(S) == CHOOSE j \in S : TRUE

\* total adds up the sizes of every set of at most n jobs, in the fold's order.
Totals(st, total, n) ==
  \A S \in SUBSET Jobs :
     Cardinality(S) <= n =>
        total[S] = IF S = {} THEN 0 ELSE RetainedSize(st, Taken(S)) + total[S \ {Taken(S)}]

\* A job can be taken out of a set that has one, and leaves a smaller set.
LEMMA TakeOne ==
  ASSUME NEW S \in SUBSET Jobs, NEW j \in S
  PROVE  /\ S \ {j} \in SUBSET Jobs
         /\ Cardinality(S) \in Nat \ {0}
         /\ Cardinality(S \ {j}) = Cardinality(S) - 1
<1>1. IsFiniteSet(S) /\ Cardinality(S) \in Nat
  BY JobSets
<1>2. Cardinality(S \ {j}) = Cardinality(S) - 1
  BY <1>1, FS_RemoveElement, Zenon
<1>3. Cardinality(S \ {j}) \in Nat
  BY JobSets
<1> QED
  BY <1>1, <1>2, <1>3

LEMMA TakenIsMember ==
  ASSUME NEW S, S # {}
  PROVE  Taken(S) \in S
  BY DEF Taken

LEMMA SizesAreNatural ==
  ASSUME NEW st, NEW j \in Jobs
  PROVE  RetainedSize(st, j) \in Nat
  BY StoreAssumption DEF RetainedSize

LEMMA TotalsExist ==
  ASSUME NEW st
  PROVE  \A n \in Nat : \E total \in [SUBSET Jobs -> Nat] : Totals(st, total, n)
<1> DEFINE missing == {n \in Nat : ~ \E total \in [SUBSET Jobs -> Nat] : Totals(st, total, n)}
<1> SUFFICES ASSUME missing # {} PROVE FALSE
  OBVIOUS
<1>1. PICK n \in missing : \A m \in missing : m >= n
  BY LeastNatural
<1>2. ASSUME NEW total \in [SUBSET Jobs -> Nat],
             \A S \in SUBSET Jobs : Cardinality(S) < n =>
               total[S] = IF S = {} THEN 0 ELSE RetainedSize(st, Taken(S)) + total[S \ {Taken(S)}]
      PROVE  FALSE
  <2> DEFINE next == [S \in SUBSET Jobs |->
                        IF S = {} THEN 0 ELSE RetainedSize(st, Taken(S)) + total[S \ {Taken(S)}]]
  <2>1. next \in [SUBSET Jobs -> Nat]
    <3>1. ASSUME NEW S \in SUBSET Jobs, S # {}
          PROVE  RetainedSize(st, Taken(S)) + total[S \ {Taken(S)}] \in Nat
      <4>1. Taken(S) \in Jobs /\ S \ {Taken(S)} \in SUBSET Jobs
        BY <3>1, TakenIsMember
      <4>2. RetainedSize(st, Taken(S)) \in Nat /\ total[S \ {Taken(S)}] \in Nat
        BY <1>2, <4>1, SizesAreNatural
      <4> QED
        BY <4>2
    <3> QED
      BY <3>1
  <2>2. ASSUME NEW S \in SUBSET Jobs, Cardinality(S) <= n
        PROVE  next[S] = IF S = {} THEN 0
                         ELSE RetainedSize(st, Taken(S)) + next[S \ {Taken(S)}]
    <3>1. CASE S = {}
      BY <3>1
    <3>2. CASE S # {}
      <4>1. Taken(S) \in S
        BY <3>2, TakenIsMember
      <4>2. S \ {Taken(S)} \in SUBSET Jobs /\ Cardinality(S \ {Taken(S)}) < n
        BY <2>2, <4>1, TakeOne
      <4> DEFINE rest == S \ {Taken(S)}
      <4>3. total[rest] = next[rest]
        BY <1>2, <4>2
      <4> HIDE DEF rest, next
      <4>4. next[S] = RetainedSize(st, Taken(S)) + total[rest]
        BY <3>2 DEF next, rest
      <4> QED
        BY <3>2, <4>3, <4>4 DEF rest
    <3> QED
      BY <3>1, <3>2
  <2> HIDE DEF next
  <2>3. Totals(st, next, n)
    BY <2>2 DEF Totals
  <2> QED
    BY <1>1, <2>1, <2>3
<1>3. CASE n = 0
  <2>1. [S \in SUBSET Jobs |-> 0] \in [SUBSET Jobs -> Nat]
    OBVIOUS
  <2>2. \A S \in SUBSET Jobs : ~ (Cardinality(S) < n)
    BY <1>3, JobSets
  <2> QED
    BY <1>2, <2>1, <2>2
<1>4. CASE n # 0
  <2>1. n - 1 \in Nat /\ n - 1 \notin missing
    <3>1. n \in Nat
      OBVIOUS
    <3> HIDE DEF missing
    <3> QED
      BY <1>1, <1>4, <3>1
  <2>2. PICK total \in [SUBSET Jobs -> Nat] : Totals(st, total, n - 1)
    BY <2>1
  <2>3. \A S \in SUBSET Jobs : Cardinality(S) < n => Cardinality(S) <= n - 1
    BY <1>1, JobSets
  <2> QED
    BY <1>2, <2>2, <2>3 DEF Totals
<1> QED
  BY <1>3, <1>4

\* What the fold computes, as one function of every set of jobs.
LEMMA BytesTotals ==
  ASSUME NEW st
  PROVE  \E total \in [SUBSET Jobs -> Nat] :
            /\ \A S \in SUBSET Jobs : Bytes(st, S) = total[S]
            /\ \A S \in SUBSET Jobs :
                  total[S] = IF S = {} THEN 0
                             ELSE RetainedSize(st, Taken(S)) + total[S \ {Taken(S)}]
<1> DEFINE Fold(F, f) ==
             f = [S \in SUBSET F |->
                    IF S = {} THEN 0 ELSE RetainedSize(st, Taken(S)) + f[S \ {Taken(S)}]]
<1>1. PICK total \in [SUBSET Jobs -> Nat] : Totals(st, total, Cardinality(Jobs))
  BY JobSets, TotalsExist
<1>2. \A S \in SUBSET Jobs :
        total[S] = IF S = {} THEN 0 ELSE RetainedSize(st, Taken(S)) + total[S \ {Taken(S)}]
  BY <1>1, JobSets DEF Totals
<1>3. ASSUME NEW F \in SUBSET Jobs
      PROVE  Bytes(st, F) = total[F]
  <2>1. Bytes(st, F) = (CHOOSE f : Fold(F, f))[F]
    BY DEF Bytes, MapThenSumSet, MapThenFoldSet, Taken
  <2>2. Fold(F, [S \in SUBSET F |-> total[S]])
    <3> DEFINE part == [S \in SUBSET F |-> total[S]]
    <3>1. ASSUME NEW S \in SUBSET F
          PROVE  part[S] = IF S = {} THEN 0 ELSE RetainedSize(st, Taken(S)) + part[S \ {Taken(S)}]
      <4>1. S \in SUBSET Jobs /\ S \ {Taken(S)} \in SUBSET F
        OBVIOUS
      <4>2. part[S] = total[S] /\ part[S \ {Taken(S)}] = total[S \ {Taken(S)}]
        BY <4>1
      <4> HIDE DEF part
      <4> QED
        BY <1>2, <4>1, <4>2
    <3>2. part = [S \in SUBSET F |-> part[S]]
      OBVIOUS
    <3> HIDE DEF part
    <3>3. [S \in SUBSET F |-> part[S]]
            = [S \in SUBSET F |->
                 IF S = {} THEN 0 ELSE RetainedSize(st, Taken(S)) + part[S \ {Taken(S)}]]
      BY <3>1
    <3>4. Fold(F, part)
      BY <3>2, <3>3
    <3> QED
      BY <3>4 DEF part
  <2>3. PICK f : f = (CHOOSE g : Fold(F, g)) /\ Fold(F, f)
    <3>1. \E g : Fold(F, g)
      BY <2>2
    <3> HIDE DEF Fold
    <3> QED
      BY <3>1, Zenon
  <2>4. \A S \in SUBSET F :
          f[S] = IF S = {} THEN 0 ELSE RetainedSize(st, Taken(S)) + f[S \ {Taken(S)}]
    BY <2>3
  <2> DEFINE wrong == {n \in Nat : \E S \in SUBSET F : Cardinality(S) = n /\ f[S] # total[S]}
  <2>5. wrong = {}
    <3> SUFFICES ASSUME wrong # {} PROVE FALSE
      OBVIOUS
    <3>1. PICK n \in wrong : \A m \in wrong : m >= n
      BY LeastNatural
    <3>2. PICK S \in SUBSET F : Cardinality(S) = n /\ f[S] # total[S]
      OBVIOUS
    <3>3. S # {} /\ S \in SUBSET Jobs
      BY <1>2, <2>4, <3>2
    <3> DEFINE rest == S \ {Taken(S)}
    <3>4. /\ rest \in SUBSET F /\ rest \in SUBSET Jobs
          /\ Cardinality(rest) \in Nat /\ Cardinality(rest) < n
      BY <3>2, <3>3, TakenIsMember, TakeOne
    <3>5. f[rest] = total[rest]
      <4>1. n \in Nat
        OBVIOUS
      <4>2. Cardinality(rest) \notin wrong
        <5> HIDE DEF wrong, rest
        <5> QED
          BY <3>1, <3>4, <4>1
      <4> QED
        BY <3>4, <4>2
    <3> QED
      BY <1>2, <2>4, <3>2, <3>3, <3>5
  <2>6. f[F] = total[F]
    BY <2>5, JobSets
  <2> QED
    BY <2>1, <2>3, <2>6
<1> QED
  BY <1>2, <1>3

LEMMA BytesAreNatural ==
  ASSUME NEW st
  PROVE  /\ \A S \in SUBSET Jobs : Bytes(st, S) \in Nat
         /\ Bytes(st, {}) = 0
<1>1. PICK total \in [SUBSET Jobs -> Nat] :
         /\ \A S \in SUBSET Jobs : Bytes(st, S) = total[S]
         /\ \A S \in SUBSET Jobs :
               total[S] = IF S = {} THEN 0
                          ELSE RetainedSize(st, Taken(S)) + total[S \ {Taken(S)}]
  BY BytesTotals
<1>2. {} \in SUBSET Jobs /\ total[{}] = 0
  BY <1>1
<1> QED
  BY <1>1, <1>2

\* Which job is counted first does not matter.
LEMMA BytesOfOneMore ==
  ASSUME NEW st, NEW S \in SUBSET Jobs, NEW j \in S
  PROVE  /\ Bytes(st, S) \in Nat /\ Bytes(st, S \ {j}) \in Nat
         /\ Bytes(st, S) = RetainedSize(st, j) + Bytes(st, S \ {j})
<1>1. PICK total \in [SUBSET Jobs -> Nat] :
         /\ \A F \in SUBSET Jobs : Bytes(st, F) = total[F]
         /\ \A F \in SUBSET Jobs :
               total[F] = IF F = {} THEN 0
                          ELSE RetainedSize(st, Taken(F)) + total[F \ {Taken(F)}]
  BY BytesTotals
<1> DEFINE Splits(F) == \A x \in F : total[F] = RetainedSize(st, x) + total[F \ {x}]
           wrong == {n \in Nat : \E F \in SUBSET Jobs : Cardinality(F) = n /\ ~ Splits(F)}
<1>2. ASSUME wrong # {} PROVE FALSE
  <2>1. PICK n \in wrong : \A m \in wrong : m >= n
    BY <1>2, LeastNatural
  <2>2. PICK F \in SUBSET Jobs : Cardinality(F) = n /\ ~ Splits(F)
    OBVIOUS
  <2>3. \A G \in SUBSET Jobs : Cardinality(G) < n => Splits(G)
    <3>1. n \in Nat
      OBVIOUS
    <3>2. \A G \in SUBSET Jobs : Cardinality(G) \notin wrong => Splits(G)
      BY JobSets
    <3> HIDE DEF wrong, Splits
    <3> QED
      BY <2>1, <3>1, <3>2, JobSets
  <2>4. PICK x \in F : total[F] # RetainedSize(st, x) + total[F \ {x}]
    BY <2>2
  <2> DEFINE first == Taken(F)
  <2>5. first \in F /\ total[F] = RetainedSize(st, first) + total[F \ {first}]
    BY <1>1, <2>4, TakenIsMember
  <2> HIDE DEF first, wrong
  <2>6. first # x
    BY <2>4, <2>5
  <2>7. /\ F \ {first} \in SUBSET Jobs /\ Cardinality(F \ {first}) < n
        /\ F \ {x} \in SUBSET Jobs /\ Cardinality(F \ {x}) < n
    BY <2>2, <2>4, <2>5, TakeOne
  <2>8. /\ total[F \ {first}] = RetainedSize(st, x) + total[(F \ {first}) \ {x}]
        /\ total[F \ {x}] = RetainedSize(st, first) + total[(F \ {x}) \ {first}]
    <3>1. x \in F \ {first} /\ first \in F \ {x}
      BY <2>4, <2>5, <2>6
    <3>2. Splits(F \ {first}) /\ Splits(F \ {x})
      BY <2>3, <2>7
    <3> QED
      BY <3>1, <3>2
  <2>9. (F \ {first}) \ {x} = (F \ {x}) \ {first}
    OBVIOUS
  <2> DEFINE rest == total[(F \ {x}) \ {first}]
  <2>10. /\ RetainedSize(st, x) \in Nat /\ RetainedSize(st, first) \in Nat
         /\ rest \in Nat
    <3>1. (F \ {x}) \ {first} \in SUBSET Jobs
      OBVIOUS
    <3> QED
      BY <2>4, <2>5, <3>1, SizesAreNatural
  <2> HIDE DEF rest
  <2>11. /\ total[F \ {first}] = RetainedSize(st, x) + rest
         /\ total[F \ {x}] = RetainedSize(st, first) + rest
    BY <2>8, <2>9 DEF rest
  <2> QED
    BY <2>4, <2>5, <2>10, <2>11
<1>3. Splits(S)
  <2>1. Cardinality(S) \in Nat /\ Cardinality(S) \notin wrong
    BY <1>2, JobSets
  <2> QED
    BY <2>1
<1>4. S \ {j} \in SUBSET Jobs
  OBVIOUS
<1> QED
  BY <1>1, <1>3, <1>4

\* Fewer and smaller results take no more bytes.
LEMMA BytesGrow ==
  ASSUME NEW st, NEW was, NEW S \in SUBSET Jobs, NEW T \in SUBSET S,
         \A j \in T : RetainedSize(st, j) <= RetainedSize(was, j)
  PROVE  /\ Bytes(st, T) \in Nat /\ Bytes(was, S) \in Nat
         /\ Bytes(st, T) <= Bytes(was, S)
<1>1. /\ \A F \in SUBSET Jobs : Bytes(st, F) \in Nat /\ Bytes(was, F) \in Nat
      /\ Bytes(st, {}) = 0 /\ Bytes(was, {}) = 0
  BY BytesAreNatural
<1> DEFINE
     Fits(F) == \A G \in SUBSET F :
                   (\A j \in G : RetainedSize(st, j) <= RetainedSize(was, j))
                      => Bytes(st, G) <= Bytes(was, F)
     wrong == {n \in Nat : \E F \in SUBSET Jobs : Cardinality(F) = n /\ ~ Fits(F)}
<1>2. ASSUME wrong # {} PROVE FALSE
  <2>1. PICK n \in wrong : \A m \in wrong : m >= n
    BY <1>2, LeastNatural
  <2>2. PICK F \in SUBSET Jobs : Cardinality(F) = n /\ ~ Fits(F)
    OBVIOUS
  <2>3. \A E \in SUBSET Jobs : Cardinality(E) < n => Fits(E)
    <3>1. n \in Nat
      OBVIOUS
    <3>2. \A E \in SUBSET Jobs : Cardinality(E) \notin wrong => Fits(E)
      BY JobSets
    <3> HIDE DEF wrong, Fits
    <3> QED
      BY <2>1, <3>1, <3>2, JobSets
  <2>4. PICK G \in SUBSET F : /\ \A j \in G : RetainedSize(st, j) <= RetainedSize(was, j)
                              /\ ~ (Bytes(st, G) <= Bytes(was, F))
    BY <2>2
  <2> HIDE DEF wrong
  <2>5. F # {}
    BY <1>1, <2>4
  <2>6. PICK x \in F : TRUE
    BY <2>5
  <2>7. /\ F \ {x} \in SUBSET Jobs /\ G \ {x} \in SUBSET (F \ {x})
        /\ Fits(F \ {x})
    BY <2>2, <2>3, TakeOne
  <2>8. Bytes(st, G \ {x}) <= Bytes(was, F \ {x})
    BY <2>4, <2>7
  <2>9. /\ Bytes(was, F) = RetainedSize(was, x) + Bytes(was, F \ {x})
        /\ x \in G => Bytes(st, G) = RetainedSize(st, x) + Bytes(st, G \ {x})
        /\ x \notin G => G \ {x} = G
    BY BytesOfOneMore
  <2>10. /\ RetainedSize(was, x) \in Nat /\ RetainedSize(st, x) \in Nat
         /\ Bytes(was, F \ {x}) \in Nat /\ Bytes(st, G \ {x}) \in Nat
    <3>1. F \ {x} \in SUBSET Jobs /\ G \ {x} \in SUBSET Jobs
      OBVIOUS
    <3> QED
      BY <1>1, <3>1, SizesAreNatural
  <2>11. CASE x \in G
    <3>1. RetainedSize(st, x) <= RetainedSize(was, x)
      BY <2>4, <2>11
    <3> QED
      BY <2>4, <2>8, <2>9, <2>10, <2>11, <3>1
  <2>12. CASE x \notin G
    BY <2>4, <2>8, <2>9, <2>10, <2>12
  <2> QED
    BY <2>11, <2>12
<1>3. Fits(S)
  <2>1. Cardinality(S) \in Nat /\ Cardinality(S) \notin wrong
    BY <1>2, JobSets
  <2> QED
    BY <2>1
<1> QED
  BY <1>1, <1>3

\* A budget that some jobs are over is not met by more of them.
LEMMA OverBudgetGrows ==
  ASSUME NEW st, NEW S \in SUBSET Jobs, NEW T \in SUBSET S, OverBudget(st, T)
  PROVE  OverBudget(st, S)
<1>1. /\ Cardinality(T) \in Nat /\ Cardinality(S) \in Nat
      /\ Cardinality(T) <= Cardinality(S)
  BY JobSets
<1>2. /\ Bytes(st, T) \in Nat /\ Bytes(st, S) \in Nat
      /\ Bytes(st, T) <= Bytes(st, S)
  <2>1. \A j \in T : RetainedSize(st, j) <= RetainedSize(st, j)
    BY SizesAreNatural
  <2> QED
    BY <2>1, BytesGrow
<1> QED
  BY <1>1, <1>2, StoreAssumption DEF OverBudget

\* Fewer jobs with the records they had are within a budget that all are within.
LEMMA BudgetKept ==
  ASSUME NEW st, NEW S \in SUBSET Jobs, ~ OverBudget(st, S),
         FinishedJobs' \in SUBSET S, \A j \in FinishedJobs' : status'[j] = st[j]
  PROVE  RetentionBounded'
<1>1. /\ Cardinality(FinishedJobs') \in Nat /\ Cardinality(S) \in Nat
      /\ Cardinality(FinishedJobs') <= Cardinality(S)
  BY JobSets
<1>2. /\ Bytes(status', FinishedJobs') \in Nat /\ Bytes(st, S) \in Nat
      /\ Bytes(status', FinishedJobs') <= Bytes(st, S)
  <2>1. \A j \in FinishedJobs' : RetainedSize(status', j) <= RetainedSize(st, j)
    <3>1. \A j \in FinishedJobs' : RetainedSize(st, j) \in Nat
      BY SizesAreNatural
    <3> QED
      BY <3>1 DEF RetainedSize
  <2> HIDE DEF FinishedJobs
  <2> QED
    BY <2>1, BytesGrow
<1> QED
  BY <1>1, <1>2, StoreAssumption DEF RetentionBounded, CountBounded, BytesBounded, OverBudget

\* Both budgets hold of what any purge leaves (_purge_locked).
LEMMA PurgeBoundsRetention ==
  ASSUME NEW st \in [Jobs -> Statuses], NEW at \in [Jobs -> Nat],
         NEW old \in SUBSET InStatus(st, FinishedStatuses),
         Purge(st, at, old)
  PROVE  RetentionBounded'
<1> DEFINE live == InStatus(st, FinishedStatuses) \ old
           kept == FinishedJobs'
<1>1. /\ kept \in SUBSET (live \ Evicted(st, at, live)) /\ live \in SUBSET Jobs
      /\ \A j \in kept : status'[j] = st[j]
  BY DEF FinishedJobs, InStatus, Purge, FinishedStatuses
<1>2. CASE kept = {}
  <2>1. ~ OverBudget(st, {})
    BY FS_EmptySet, StoreAssumption DEF OverBudget
  <2> QED
    BY <1>1, <1>2, <2>1, BudgetKept
<1>3. CASE kept # {}
  <2>1. PICK j \in kept : \A k \in kept : at[k] >= at[j]
    BY <1>1, <1>3, OldestExists
  <2> DEFINE since == {k \in live : at[k] >= at[j]}
  <2>2. ~ OverBudget(st, since)
    BY <1>1, <2>1 DEF Evicted
  <2>3. kept \in SUBSET since /\ since \in SUBSET Jobs
    BY <1>1, <2>1
  <2> QED
    BY <1>1, <2>2, <2>3, BudgetKept
<1> QED
  BY <1>2, <1>3

\* JOBS_MAX_RETAINED and JOBS_MAX_RETAINED_BYTES bound what is kept at every
\* moment, not only after a purge (MemoryJobStore._purge_locked).
THEOREM RetentionCorrect == StoreSpec => []RetentionBounded
<1>1. StoreInit => StoreInv /\ RetentionBounded
  <2>1. StoreInit => StoreInv
    BY StoreAssumption DEF StoreInit, StoreInv, StoreTypeOK, ClockIsAhead, FinishedJobs,
                           InStatus, Statuses, FinishedStatuses, ActiveStatuses
  <2>2. StoreInit => FinishedJobs = {}
    BY DEF StoreInit, FinishedJobs, InStatus, FinishedStatuses
  <2> QED
    BY <2>1, <2>2, FS_EmptySet, StoreAssumption DEF RetentionBounded, CountBounded, BytesBounded
<1>2. ASSUME StoreInv, RetentionBounded, [StoreNext]_storeVars
      PROVE  StoreInv' /\ RetentionBounded'
  <2>1. ASSUME NEW j \in Jobs, NEW verdict \in FinishedStatuses, Finish(j, verdict)
        PROVE  RetentionBounded'
    <3> DEFINE st == [status EXCEPT ![j] = verdict]
               at == [finishedAt EXCEPT ![j] = clock + 1]
    <3>1. /\ st \in [Jobs -> Statuses] /\ at \in [Jobs -> Nat]
          /\ aged \ {j} \in SUBSET InStatus(st, FinishedStatuses)
          /\ Purge(st, at, aged \ {j})
      BY <1>2, <2>1, FinishPurges
    <3> HIDE DEF st, at
    <3> QED
      BY <3>1, PurgeBoundsRetention
  <2>2. ASSUME NEW j \in Jobs, Create(j) PROVE RetentionBounded'
    <3> DEFINE st == [status EXCEPT ![j] = "queued"]
    <3>1. /\ st \in [Jobs -> Statuses] /\ finishedAt \in [Jobs -> Nat]
          /\ aged \in SUBSET InStatus(st, FinishedStatuses)
          /\ Purge(st, finishedAt, aged)
      BY <1>2, <2>2 DEF Create, StoreInv, StoreTypeOK, FinishedJobs, InStatus, Statuses,
                        FinishedStatuses, ActiveStatuses
    <3> HIDE DEF st
    <3> QED
      BY <3>1, PurgeBoundsRetention
  <2>3. ASSUME PurgeOnly PROVE RetentionBounded'
    BY <1>2, <2>3, PurgeBoundsRetention DEF PurgeOnly, StoreInv, StoreTypeOK, FinishedJobs
  <2>4. ASSUME FinishedJobs' \subseteq FinishedJobs,
               \A j \in FinishedJobs' : status'[j] = status[j]
        PROVE  RetentionBounded'
    <3>1. FinishedJobs \in SUBSET Jobs /\ ~ OverBudget(status, FinishedJobs)
      <4>1. FinishedJobs \in SUBSET Jobs
        BY DEF FinishedJobs, InStatus
      <4>2. Cardinality(FinishedJobs) \in Nat /\ Bytes(status, FinishedJobs) \in Nat
        BY <4>1, JobSets, BytesAreNatural
      <4> QED
        BY <1>2, <4>1, <4>2, StoreAssumption
        DEF RetentionBounded, CountBounded, BytesBounded, OverBudget
    <3> QED
      BY <2>4, <3>1, BudgetKept
  <2>5. ASSUME NEW j \in Jobs,
               (status[j] = "queued" /\ Discard(j)) \/ SetRunning(j) \/ Age(j)
        PROVE  RetentionBounded'
    <3>1. \A k \in FinishedJobs' : k \in FinishedJobs /\ status'[k] = status[k]
      BY <1>2, <2>5 DEF Discard, SetRunning, Age, StoreInv, StoreTypeOK, FinishedJobs, InStatus,
                        FinishedStatuses
    <3> QED
      BY <2>4, <3>1
  <2>6. ASSUME UNCHANGED storeVars PROVE RetentionBounded'
    <3>1. FinishedJobs' = FinishedJobs /\ status' = status
      BY <2>6 DEF storeVars, FinishedJobs, InStatus
    <3> QED
      BY <2>4, <3>1
  <2>7. ASSUME NEW j \in Jobs, CancelQueued(j) \/ SetSucceeded(j) \/ SetFailed(j, {status[j]})
        PROVE  RetentionBounded'
    BY <2>1, <2>6, <2>7 DEF CancelQueued, SetSucceeded, SetFailed, FinishedStatuses
  <2> QED
    BY <1>2, <2>2, <2>3, <2>5, <2>6, <2>7, StoreInvInductive DEF StoreNext, CreateRefused
<1> QED
  BY <1>1, <1>2, PTL DEF StoreSpec

-----------------------------------------------------------------------------
(* The order of forgetting.                                                 *)

\* The jobs that have outlived the TTL are the oldest: it runs out in the order
\* in which they finished.
AgedAreOldest ==
  \A j \in aged : \A k \in FinishedJobs : finishedAt[k] <= finishedAt[j] => k \in aged

\* A purge that forgets a job forgets whatever finished before it.
LEMMA PurgeForgetsOldest ==
  ASSUME NEW st \in [Jobs -> Statuses], NEW at \in [Jobs -> Nat],
         NEW old \in SUBSET InStatus(st, FinishedStatuses),
         Purge(st, at, old),
         NEW j \in InStatus(st, FinishedStatuses), status'[j] = "gone",
         NEW k \in InStatus(st, FinishedStatuses), at[k] < at[j],
         j \in old => k \in old
  PROVE  status'[k] = "gone"
<1> DEFINE live == InStatus(st, FinishedStatuses) \ old
           since(i) == {i2 \in live : at[i2] >= at[i]}
<1>1. /\ status' = [i \in Jobs |-> IF i \in old \cup Evicted(st, at, live) THEN "gone" ELSE st[i]]
      /\ j \in Jobs /\ k \in Jobs /\ st[j] # "gone"
  BY DEF Purge, InStatus, FinishedStatuses
<1>2. CASE k \in old
  BY <1>1, <1>2
<1>3. CASE k \notin old
  <2>1. j \in live /\ k \in live /\ j \in Evicted(st, at, live)
    BY <1>1, <1>3
  <2>2. OverBudget(st, since(j))
    BY <2>1 DEF Evicted
  <2>3. since(j) \in SUBSET since(k) /\ since(k) \in SUBSET Jobs
    BY <1>1 DEF InStatus
  <2>4. OverBudget(st, since(k))
    BY <2>2, <2>3, OverBudgetGrows
  <2>5. k \in Evicted(st, at, live)
    BY <2>1, <2>4 DEF Evicted
  <2> QED
    BY <1>1, <2>5
<1> QED
  BY <1>2, <1>3

\* What a step of the store does to the finished jobs: nothing, or a purge of
\* records in which they are as they were.
LEMMA StepsPurge ==
  ASSUME StoreInv, StoreNext
  PROVE  \/ /\ \A j \in FinishedJobs : status'[j] = status[j] /\ finishedAt'[j] = finishedAt[j]
            /\ FinishedJobs' \subseteq FinishedJobs
            /\ \/ aged' = aged
               \/ \E j \in FinishedJobs :
                     aged' = aged \cup {k \in FinishedJobs : finishedAt[k] <= finishedAt[j]}
         \/ /\ aged' = {}
            /\ \E st \in [Jobs -> Statuses], at \in [Jobs -> Nat] :
                  /\ Purge(st, at, aged)
                  /\ \A j \in FinishedJobs : st[j] = status[j] /\ at[j] = finishedAt[j]
<1> DEFINE Purges == \E st \in [Jobs -> Statuses], at \in [Jobs -> Nat] :
                        /\ Purge(st, at, aged)
                        /\ \A j \in FinishedJobs : st[j] = status[j] /\ at[j] = finishedAt[j]
           Quiet == /\ \A j \in FinishedJobs : status'[j] = status[j] /\ finishedAt'[j] = finishedAt[j]
                    /\ FinishedJobs' \subseteq FinishedJobs
                    /\ aged' = aged
<1>1. ASSUME NEW j \in Jobs, NEW verdict \in FinishedStatuses, status[j] \in ActiveStatuses,
             Finish(j, verdict)
      PROVE  Purges
  <2> DEFINE st == [status EXCEPT ![j] = verdict]
             at == [finishedAt EXCEPT ![j] = clock + 1]
  <2>1. /\ st \in [Jobs -> Statuses] /\ at \in [Jobs -> Nat] /\ Purge(st, at, aged \ {j})
    BY <1>1, FinishPurges
  <2>2. j \notin FinishedJobs /\ aged \ {j} = aged
    BY <1>1 DEF StoreInv, StoreTypeOK, FinishedJobs, InStatus, ActiveStatuses, FinishedStatuses
  <2>3. \A k \in FinishedJobs : st[k] = status[k] /\ at[k] = finishedAt[k]
    BY <2>2 DEF StoreInv, StoreTypeOK, FinishedJobs, InStatus
  <2> HIDE DEF st, at
  <2> QED
    BY <2>1, <2>2, <2>3
<1>2. ASSUME NEW j \in Jobs, Create(j) PROVE Purges
  <2> DEFINE st == [status EXCEPT ![j] = "queued"]
  <2>1. /\ st \in [Jobs -> Statuses] /\ finishedAt \in [Jobs -> Nat]
        /\ Purge(st, finishedAt, aged)
        /\ \A k \in FinishedJobs : st[k] = status[k] /\ finishedAt[k] = finishedAt[k]
    BY <1>2 DEF Create, StoreInv, StoreTypeOK, FinishedJobs, InStatus, Statuses,
                FinishedStatuses, ActiveStatuses
  <2> HIDE DEF st
  <2> QED
    BY <2>1
<1>3. ASSUME PurgeOnly PROVE Purges
  BY <1>3 DEF PurgeOnly, StoreInv, StoreTypeOK
<1>4. ASSUME NEW j \in Jobs, (status[j] = "queued" /\ Discard(j)) \/ SetRunning(j)
      PROVE  Quiet
  BY <1>4 DEF Discard, SetRunning, StoreInv, StoreTypeOK, FinishedJobs, InStatus,
              FinishedStatuses
<1>5. ASSUME NEW j \in Jobs, Age(j)
      PROVE  /\ j \in FinishedJobs /\ status' = status /\ finishedAt' = finishedAt
             /\ aged' = aged \cup {k \in FinishedJobs : finishedAt[k] <= finishedAt[j]}
             /\ FinishedJobs' = FinishedJobs
  BY <1>5 DEF Age, FinishedJobs, InStatus
<1>6. Purges => aged' = {}
  BY DEF Purge
<1>7. ASSUME NEW j \in Jobs,
             \/ CancelQueued(j)
             \/ status[j] = "running" /\ SetSucceeded(j)
             \/ status[j] \in ActiveStatuses /\ SetFailed(j, {status[j]})
      PROVE  Purges
  <2>1. \E verdict \in FinishedStatuses : status[j] \in ActiveStatuses /\ Finish(j, verdict)
    BY <1>7 DEF CancelQueued, SetSucceeded, SetFailed, ActiveStatuses, FinishedStatuses
  <2> QED
    BY <1>1, <2>1
<1> HIDE DEF Purges, Quiet
<1>8. \/ Quiet \/ Purges \/ \E j \in Jobs : Age(j)
  BY <1>2, <1>3, <1>4, <1>7 DEF StoreNext, CreateRefused
<1> QED
  BY <1>5, <1>6, <1>8 DEF Purges, Quiet

\* Retention forgets in the order in which jobs finished, whatever their results
\* weigh (MemoryJobStore._purge_locked).
THEOREM ForgetsOldestCorrect == StoreSpec => ForgetsOldestFirst
<1>1. StoreInit => StoreInv /\ AgedAreOldest
  BY StoreAssumption DEF StoreInit, StoreInv, StoreTypeOK, ClockIsAhead, FinishedJobs, InStatus,
                         Statuses, FinishedStatuses, ActiveStatuses, AgedAreOldest
<1>2. ASSUME StoreInv, AgedAreOldest, [StoreNext]_storeVars
      PROVE  StoreInv' /\ AgedAreOldest'
  <2>1. CASE UNCHANGED storeVars
    BY <1>2, <2>1, StoreInvInductive DEF storeVars, AgedAreOldest, FinishedJobs, InStatus
  <2>2. CASE StoreNext
    <3>1. ASSUME aged' = {} PROVE AgedAreOldest'
      BY <3>1 DEF AgedAreOldest
    <3>2. ASSUME /\ \A j \in FinishedJobs : finishedAt'[j] = finishedAt[j]
                 /\ FinishedJobs' \subseteq FinishedJobs
                 /\ \/ aged' = aged
                    \/ \E j \in FinishedJobs :
                          aged' = aged \cup {k \in FinishedJobs : finishedAt[k] <= finishedAt[j]}
          PROVE  AgedAreOldest'
      <4>1. /\ aged \subseteq FinishedJobs
            /\ \A k \in FinishedJobs : finishedAt[k] \in Nat
        BY <1>2 DEF StoreInv, StoreTypeOK, FinishedJobs, InStatus
      <4> HIDE DEF FinishedJobs
      <4> QED
        BY <1>2, <3>2, <4>1 DEF AgedAreOldest
    <3> QED
      BY <1>2, <2>2, <3>1, <3>2, StepsPurge, StoreInvInductive
  <2> QED
    BY <1>2, <2>1, <2>2
<1>3. ASSUME StoreInv, AgedAreOldest, [StoreNext]_storeVars
      PROVE  [\A j, k \in FinishedJobs :
                (status'[j] = "gone" /\ finishedAt[k] < finishedAt[j])
                    => status'[k] = "gone"]_storeVars
  <2> SUFFICES ASSUME StoreNext, NEW j \in FinishedJobs, NEW k \in FinishedJobs,
                      status'[j] = "gone", finishedAt[k] < finishedAt[j]
               PROVE  status'[k] = "gone"
    BY <1>3
  <2>1. /\ j \in Jobs /\ status[j] # "gone" /\ status[j] \in FinishedStatuses
        /\ k \in Jobs /\ status[k] \in FinishedStatuses
        /\ finishedAt[j] \in Nat /\ finishedAt[k] \in Nat
    BY <1>3 DEF FinishedJobs, InStatus, FinishedStatuses, StoreInv, StoreTypeOK
  <2>2. PICK st \in [Jobs -> Statuses], at \in [Jobs -> Nat] :
           /\ Purge(st, at, aged)
           /\ \A i \in FinishedJobs : st[i] = status[i] /\ at[i] = finishedAt[i]
    BY <1>3, <2>1, StepsPurge
  <2>3. /\ aged \in SUBSET InStatus(st, FinishedStatuses)
        /\ j \in InStatus(st, FinishedStatuses) /\ k \in InStatus(st, FinishedStatuses)
    BY <1>3, <2>1, <2>2 DEF StoreInv, StoreTypeOK, FinishedJobs, InStatus
  <2>4. at[k] < at[j] /\ (j \in aged => k \in aged)
    BY <1>3, <2>1, <2>2 DEF AgedAreOldest
  <2> QED
    BY <2>2, <2>3, <2>4, PurgeForgetsOldest
<1> QED
  BY <1>1, <1>2, <1>3, PTL DEF StoreSpec, ForgetsOldestFirst

\* Neither budget evicts the job that has just finished.
LEMMA NewestSurvives ==
  ASSUME StoreInv, MaxRetained > 0,
         NEW j \in Jobs, NEW verdict \in FinishedStatuses, Finish(j, verdict)
  PROVE  /\ clock' = clock + 1
         /\ \A k \in Jobs \ {j} :
               status'[k] = status[k] \/ status[k] \in FinishedStatuses
         /\ status'[j] = verdict
<1> DEFINE st == [status EXCEPT ![j] = verdict]
           at == [finishedAt EXCEPT ![j] = clock + 1]
           live == InStatus(st, FinishedStatuses) \ (aged \ {j})
<1>1. /\ st \in [Jobs -> Statuses] /\ at \in [Jobs -> Nat]
      /\ aged \ {j} \in SUBSET InStatus(st, FinishedStatuses)
      /\ Purge(st, at, aged \ {j}) /\ clock' = clock + 1
  BY FinishPurges
<1>2. /\ st[j] = verdict
      /\ \A k \in Jobs \ {j} : st[k] = status[k]
  BY DEF StoreInv, StoreTypeOK
<1>3. {k \in live : at[k] >= at[j]} = {j}
  BY DEF StoreInv, StoreTypeOK, ClockIsAhead, InStatus
<1> HIDE DEF st, at
<1>4. ~OverBudget(st, {j})
  BY FS_Singleton, StoreAssumption DEF OverBudget
<1>5. status'[j] = st[j]
  <2>1. j \notin Evicted(st, at, live)
    BY <1>3, <1>4 DEF Evicted
  <2> QED
    BY <1>1, <2>1 DEF Purge
<1>6. \A k \in Jobs : status'[k] = st[k] \/ st[k] \in FinishedStatuses
  BY <1>1, PurgeForgetsFinished
<1> QED
  BY <1>1, <1>2, <1>5, <1>6

\* A job that finishes is still there when the transition returns.
THEOREM JustFinishedCorrect == StoreSpec => JustFinishedIsKept
<1>1. StoreSpec => []StoreInv
  <2>1. StoreInit => StoreInv
    BY StoreAssumption DEF StoreInit, StoreInv, StoreTypeOK, ClockIsAhead, FinishedJobs,
                           InStatus, Statuses, FinishedStatuses, ActiveStatuses
  <2> QED
    BY <2>1, StoreInvInductive, PTL DEF StoreSpec
<1>2. ASSUME StoreInv, [StoreNext]_storeVars
      PROVE  [MaxRetained > 0 =>
                \A j \in ActiveJobs :
                    (clock' # clock /\ status'[j] # status[j]) => status'[j] # "gone"]_storeVars
  <2> SUFFICES ASSUME MaxRetained > 0, NEW j \in ActiveJobs,
                      StoreNext, clock' # clock, status'[j] # status[j]
               PROVE  status'[j] # "gone"
    BY <1>2
  <2>1. PICK k \in Jobs, verdict \in FinishedStatuses : Finish(k, verdict)
    BY DEF StoreNext, CreateRefused, Create, PurgeOnly, Discard, SetRunning, CancelQueued,
           SetSucceeded, SetFailed, Age, storeVars, FinishedStatuses
  <2>2. status[j] \notin FinishedStatuses /\ j \in Jobs
    BY DEF ActiveJobs, InStatus, ActiveStatuses, FinishedStatuses
  <2> QED
    BY <1>2, <2>1, <2>2, NewestSurvives DEF FinishedStatuses
<1> QED
  BY <1>1, <1>2, PTL DEF StoreSpec, JustFinishedIsKept
=============================================================================
