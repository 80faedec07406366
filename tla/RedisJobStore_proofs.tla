------------------------ MODULE RedisJobStore_proofs ------------------------
(***************************************************************************)
(* Proofs about RedisJobStore for any number of jobs and replicas and any  *)
(* number of late commands: the cap holds over all replicas, a replica     *)
(* keeps renewing the lease of a job it works on, the outcomes are         *)
(* bounded, and the shared store implements SharedLifecycle, so what a     *)
(* client was told stands.                                                 *)
(*                                                                         *)
(* Each script is looked at twice: what it may do to the record, the slot  *)
(* and the lease of any job (CreateSteps, FinishSteps, ScriptSteps), and   *)
(* which step of SharedLifecycle it is (CreateImplements, FinishImplements,*)
(* DropImplements, ScriptImplements).                                      *)
(***************************************************************************)
EXTENDS RedisJobStore, FiniteSetTheorems, TLAPS

-----------------------------------------------------------------------------
(* The inductive invariant.                                                 *)

Late(stage, j) == [stage |-> stage, job |-> j] \in late

\* What the scripts alone keep true of the server's keys.
ServerTypes == record \in [Jobs -> Statuses] /\ active \subseteq Jobs /\ lease \subseteq Jobs
SlotsMatch ==
    \A j \in Jobs : /\ j \in active => record[j] \in Running \cup {"gone"}
                    /\ j \in lease => record[j] \in Running
ServerInv == ServerTypes /\ SlotsMatch /\ CapOverReplicas /\ OutcomesBounded

\* A slot whose record has expired belongs to a job nobody works on or renews.
ForgottenSlot(j) ==
    j \in active /\ record[j] = "gone" =>
        /\ j \notin owned /\ at[j] \in {"done", "dead"}
        /\ \A r \in Replicas : j \notin renewal[r]

\* A create that may still run has not run before.
Unborn(j) ==
    /\ \/ at[j] = "idle"
       \/ at[j] = "creating" /\ call[j] \in {"out", "no"}
       \/ Late("creating", j)
       => record[j] = "none"
    /\ Late("creating", j) => at[j] \in {"done", "dead"}

\* A job that runs was claimed, unless set_running got no answer.
RunsClaimed(j) ==
    /\ j \notin blind
    /\ \/ at[j] \in {"executing", "finishing"}
       \/ at[j] = "claiming" /\ call[j] = "yes"
       \/ Late("finishing", j)
    => record[j] \notin {"none", "queued", "cancelled"}

\* A replica that waits for an answer has a command out.
Asking(j) == at[j] \notin {"idle", "queued", "executing", "done", "dead"} => call[j] # "none"

Held(j) ==
    at[j] \in {"queued", "claiming", "executing", "finishing"} /\ record[j] \in Running
        => j \in owned

JobInv(j) == ForgottenSlot(j) /\ Unborn(j) /\ RunsClaimed(j) /\ Asking(j) /\ Held(j)

StoreInv == TypeOK /\ ServerInv /\ \A j \in Jobs : JobInv(j)

-----------------------------------------------------------------------------
(* What a script may do.                                                    *)

\* The changes a record may go through; born: the script is a create of that job.
Turns(k, born) ==
    \/ record'[k] = record[k]
    \/ born /\ record[k] = "none" /\ record'[k] = "queued"
    \/ record[k] = "queued" /\ record'[k] \in {"running", "cancelled"}
    \/ record[k] \in Running /\ record'[k] \in {"abandoned", "lost"}
    \/ record[k] \notin {"none", "gone"} /\ record'[k] = "gone"
    \/ record[k] \notin {"none", "gone", "queued", "cancelled"} /\ record'[k] = "ended"
    \/ k \in blind /\ record[k] \notin {"none", "gone"} /\ record'[k] = "ended"

Served(j, born) ==
    /\ ServerInv'
    /\ \A k \in Jobs :
         /\ Turns(k, k = j /\ born)
         /\ k \in lease' => k \in lease \/ (k = j /\ born)
         /\ k \in active' => k \in active \/ (k = j /\ born)
         /\ k \in active' /\ record'[k] = "gone" => record[k] = "gone"

LEMMA CreateSteps ==
  ASSUME ServerInv, NEW j \in Jobs, NEW ok \in BOOLEAN, record[j] = "none", CreateScript(j, ok)
  PROVE  Served(j, ok)
<1>1. Kept \subseteq active /\ j \notin Kept
  BY DEF Kept, Exists
<1>2. IsFiniteSet(active) /\ IsFiniteSet(Kept) /\ Cardinality(Kept) \in Nat
      /\ Cardinality(active) \in Nat /\ Cardinality(Kept) <= Cardinality(active)
  BY <1>1, RedisAssumption, FS_Subset, FS_CardinalityType DEF ServerInv, ServerTypes
<1>3. Cardinality(Kept \cup {j}) = Cardinality(Kept) + 1
  BY <1>1, <1>2, FS_AddElement
<1>4. Cardinality(active') <= MaxActive
  <2>1. CASE ok
    <3>1. active' = Kept \cup {j} /\ Cardinality(Kept) < MaxActive
      BY <2>1 DEF CreateScript
    <3> QED BY <3>1, <1>2, <1>3, RedisAssumption
  <2>2. CASE ~ok
    BY <2>2, <1>2, RedisAssumption DEF CreateScript, ServerInv, CapOverReplicas
  <2> QED BY <2>1, <2>2
<1>5. ASSUME NEW k \in Jobs
      PROVE  /\ Turns(k, k = j /\ ok)
             /\ record'[k] \in Statuses
             /\ record'[k] \in Outcomes \ {"lost"} <=> record[k] \in Outcomes \ {"lost"}
             /\ k \in lease' => k \in lease \/ (k = j /\ ok)
             /\ k \in active' => k \in active \/ (k = j /\ ok)
             /\ k \in active' => record'[k] \in Running
             /\ record'[k] \in Running => k \in active'
             /\ k \in lease' => record'[k] \in Running
  <2>a. /\ active' = IF ok THEN Kept \cup {j} ELSE Kept
        /\ lease' = IF ok THEN lease \cup {j} ELSE lease
        /\ j \notin active /\ j \notin lease
    BY DEF CreateScript, ServerInv, SlotsMatch, CapOverReplicas, Running
  <2>1. CASE k = j
    <3>1. record'[j] = IF ok THEN "queued" ELSE "none"
      BY <2>a DEF CreateScript
    <3>2. Turns(j, ok)
      <4>1. CASE ok
        BY <3>1, <4>1 DEF Turns
      <4>2. CASE ~ok
        BY <3>1, <4>2 DEF Turns
      <4> QED BY <4>1, <4>2
    <3>3. Turns(k, k = j /\ ok)
      BY <2>1, <3>2, Zenon
    <3>4. CASE ok
      BY <2>1, <2>a, <3>1, <3>3, <3>4 DEF Running, Outcomes, Statuses
    <3>5. CASE ~ok
      BY <1>1, <2>1, <2>a, <3>1, <3>3, <3>5 DEF Running, Outcomes, Statuses
    <3> QED BY <3>4, <3>5
  <2>2. CASE k # j
    <3>1. /\ k \in active' <=> k \in Kept
          /\ k \in lease' <=> k \in lease
      BY <2>2, <2>a
    <3>4. k \in lease /\ k \in active => k \in Kept
      BY DEF Kept, Exists, ServerInv, SlotsMatch, Running
    <3>2. record'[k] = IF k \in active \ Kept /\ Exists(k) THEN "lost" ELSE record[k]
      BY <2>2 DEF CreateScript
    <3>3. CASE k \in active \ Kept /\ Exists(k)
      BY <3>1, <3>2, <3>3
         DEF Exists, ServerInv, SlotsMatch, Turns, Kept, Running, Outcomes, Statuses
    <3>5. CASE ~(k \in active \ Kept /\ Exists(k))
      BY <3>1, <3>2, <3>4, <3>5
         DEF Exists, ServerInv, ServerTypes, SlotsMatch, CapOverReplicas, Turns, Kept,
             Running, Outcomes, Statuses
    <3> QED BY <3>3, <3>5
  <2> QED BY <2>1, <2>2
<1>6. {k \in Jobs : record'[k] \in Outcomes \ {"lost"}} = {k \in Jobs : record[k] \in Outcomes \ {"lost"}}
  BY <1>5
<1>7. ServerTypes'
  BY <1>1, <1>5 DEF CreateScript, ServerInv, ServerTypes
<1>8. OutcomesBounded'
  BY <1>6 DEF OutcomesBounded, ServerInv
<1>9. SlotsMatch' /\ CapOverReplicas'
  BY <1>4, <1>5, <1>7 DEF ServerTypes, SlotsMatch, CapOverReplicas
<1>10. ServerInv'
  BY <1>7, <1>8, <1>9 DEF ServerInv
<1>11. \A k \in Jobs : k \in active' => record'[k] # "gone"
  BY <1>5 DEF Running
<1> QED
  BY <1>5, <1>10, <1>11 DEF Served

LEMMA FinishSteps ==
  ASSUME ServerInv, NEW j \in Jobs, NEW ok \in BOOLEAN,
         NEW to \in Outcomes \ {"lost"}, NEW required,
         record[j] \in required /\ Exists(j) =>
            \/ to = "abandoned" /\ record[j] \in Running
            \/ to = "cancelled" /\ record[j] = "queued"
            \/ to = "ended" /\ (record[j] \notin {"queued", "cancelled"} \/ j \in blind),
         FinishScript(j, to, required, ok)
  PROVE  Served(j, FALSE) /\ (ok /\ Exists(j) => record'[j] \in {to, "gone"})
<1>1. CASE ~ok
  BY <1>1 DEF FinishScript, serverVars, Served, ServerInv, ServerTypes, SlotsMatch,
     CapOverReplicas, OutcomesBounded, Turns
<1>2. CASE ok
  <2> DEFINE written == IF Written(j) THEN [record EXCEPT ![j] = to] ELSE record
             finished == {k \in Jobs : written[k] \in Outcomes}
  <2>1. PICK kept \in SUBSET finished :
           /\ KeepsRest(kept, finished)
           /\ record' = [k \in Jobs |-> IF k \in finished \ kept THEN "gone" ELSE written[k]]
    BY <1>2 DEF FinishScript
  <2>2. active' = active \ {j} /\ lease' = lease \ {j} /\ record[j] \in required
    BY <1>2 DEF FinishScript
  <2>3. written \in [Jobs -> Statuses]
    BY DEF ServerInv, ServerTypes, Statuses
  <2>4. {k \in Jobs : record'[k] \in Outcomes \ {"lost"}} \subseteq kept
    BY <2>1, <2>3 DEF Outcomes
  <2>5. Cardinality(kept) <= MaxRetained
    BY <2>1, RedisAssumption, FS_Subset, FS_CardinalityType DEF KeepsRest
  <2>6. Cardinality({k \in Jobs : record'[k] \in Outcomes \ {"lost"}}) <= MaxRetained
    <3>1. IsFiniteSet(kept)
      BY RedisAssumption, FS_Subset
    <3>2. /\ Cardinality({k \in Jobs : record'[k] \in Outcomes \ {"lost"}}) <= Cardinality(kept)
          /\ Cardinality({k \in Jobs : record'[k] \in Outcomes \ {"lost"}}) \in Nat
          /\ Cardinality(kept) \in Nat
      BY <2>4, <3>1, FS_Subset, FS_CardinalityType
    <3> QED BY <3>2, <2>5, RedisAssumption
  <2>7. Cardinality(active') <= MaxActive
    <3>1. IsFiniteSet(active)
      BY RedisAssumption, FS_Subset DEF ServerInv, ServerTypes
    <3>2. Cardinality(active') <= Cardinality(active) /\ Cardinality(active') \in Nat
          /\ Cardinality(active) \in Nat
      BY <2>2, <3>1, FS_Subset, FS_CardinalityType
    <3> QED BY <3>2, RedisAssumption DEF ServerInv, CapOverReplicas
  <2>8. ASSUME NEW k \in Jobs
        PROVE  /\ Turns(k, FALSE)
               /\ record'[k] \in Statuses
               /\ k \in active' => record'[k] \in Running \cup {"gone"}
               /\ k \in lease' => record'[k] \in Running
               /\ record'[k] \in Running => k \in active'
               /\ k \in active' /\ record'[k] = "gone" => record[k] = "gone"
    <3>1. record'[k] = IF k \in finished \ kept THEN "gone" ELSE written[k]
      BY <2>1
    <3>2. CASE k = j
      <4>1. CASE ~Exists(j)
        BY <4>1, <3>1, <3>2, <2>2, <2>3
           DEF Written, Exists, Turns, Outcomes, Statuses, Running
      <4>2. CASE Exists(j)
        <5>1. written[k] = to
          BY <4>2, <3>2 DEF Written, ServerInv, ServerTypes
        <5> QED
          BY <5>1, <4>2, <3>1, <3>2, <2>2 DEF Exists, Turns, Outcomes, Statuses, Running
      <4> QED BY <4>1, <4>2
    <3>3. CASE k # j
      <4>1. written[k] = record[k]
        BY <3>3 DEF ServerInv, ServerTypes
      <4> QED
        BY <4>1, <3>1, <3>3, <2>2
           DEF ServerInv, ServerTypes, SlotsMatch, CapOverReplicas, Turns, Outcomes, Statuses, Running
    <3> QED BY <3>2, <3>3
  <2>9. ServerInv'
    BY <2>1, <2>2, <2>6, <2>7, <2>8
       DEF ServerInv, ServerTypes, SlotsMatch, CapOverReplicas, OutcomesBounded
  <2>10. Exists(j) => record'[j] \in {to, "gone"}
    BY <2>1 DEF Written, ServerInv, ServerTypes
  <2> QED
    BY <2>2, <2>8, <2>9, <2>10 DEF Served
<1> QED BY <1>1, <1>2

LEMMA ScriptSteps ==
  ASSUME ServerInv, NEW j \in Jobs, NEW ok \in BOOLEAN, NEW stage \in Stages,
         Script(stage, j, ok),
         stage = "creating" => record[j] = "none",
         stage = "finishing" /\ j \notin blind => record[j] \notin {"queued", "cancelled"}
  PROVE  /\ Served(j, stage = "creating" /\ ok)
         /\ stage = "claiming" /\ ok => record'[j] = "running"
         /\ stage = "creating" /\ ~ok => record'[j] = "none"
<1>1. CASE stage = "creating"
  <2>1. CreateScript(j, ok)
    BY <1>1 DEF Script
  <2>2. Served(j, ok)
    BY <1>1, <2>1, CreateSteps
  <2>3. ~ok => record'[j] = "none"
    BY <1>1, <2>1 DEF CreateScript, Exists
  <2>4. Served(j, stage = "creating" /\ ok)
    <3>1. CASE ok
      BY <1>1, <2>2, <3>1 DEF Served, Turns
    <3>2. CASE ~ok
      BY <1>1, <2>2, <3>2 DEF Served, Turns
    <3> QED BY <3>1, <3>2
  <2> QED BY <1>1, <2>3, <2>4
<1>2. ASSUME Served(j, FALSE), stage # "creating", stage = "claiming" /\ ok => record'[j] = "running"
      PROVE  /\ Served(j, stage = "creating" /\ ok)
             /\ stage = "claiming" /\ ok => record'[j] = "running"
             /\ stage = "creating" /\ ~ok => record'[j] = "none"
  BY <1>2 DEF Served, Turns
<1>3. CASE stage = "claiming"
  <2>1. RunningScript(j, ok)
    BY <1>3 DEF Script
  <2>2. active' = active /\ lease' = lease
    BY <2>1 DEF RunningScript
  <2>3. record' \in [Jobs -> Statuses] /\ (ok => record'[j] = "running")
        /\ \A k \in Jobs : \/ record'[k] = record[k]
                           \/ record[k] = "queued" /\ record'[k] = "running"
    BY <2>1 DEF RunningScript, ServerInv, ServerTypes, Statuses, Running
  <2>4. {k \in Jobs : record'[k] \in Outcomes \ {"lost"}} = {k \in Jobs : record[k] \in Outcomes \ {"lost"}}
    BY <2>3 DEF Outcomes
  <2>5. ServerInv'
    BY <2>2, <2>3, <2>4
       DEF ServerInv, ServerTypes, SlotsMatch, CapOverReplicas, OutcomesBounded, Running
  <2> QED
    BY <1>2, <1>3, <2>2, <2>3, <2>5 DEF Served, Turns
<1>4. CASE stage = "discarding"
  <2>1. DiscardPipe(j, ok)
    BY <1>4 DEF Script
  <2>2. active' = active \ {j} /\ lease' = lease \ {j}
    BY <2>1 DEF DiscardPipe
  <2>3. record' \in [Jobs -> Statuses]
        /\ \A k \in Jobs : /\ k # j => record'[k] = record[k]
                           /\ \/ record'[k] = record[k]
                              \/ Exists(k) /\ record'[k] = "gone"
        /\ record'[j] \notin Running \cup Outcomes
    BY <2>1 DEF DiscardPipe, ServerInv, ServerTypes, Statuses, Running, Outcomes, Exists
  <2> DEFINE Told == {k \in Jobs : record[k] \in Outcomes \ {"lost"}}
  <2>4. OutcomesBounded'
    <3>1. Told' \subseteq Told
      BY <2>3 DEF Outcomes
    <3>2. IsFiniteSet(Told) /\ Cardinality(Told) <= MaxRetained
      BY RedisAssumption, FS_Subset DEF ServerInv, OutcomesBounded
    <3>3. Cardinality(Told') \in Nat /\ Cardinality(Told) \in Nat
          /\ Cardinality(Told') <= Cardinality(Told)
      BY <3>1, <3>2, FS_Subset, FS_CardinalityType
    <3> QED BY <3>2, <3>3, RedisAssumption DEF OutcomesBounded
  <2>5. Cardinality(active') <= MaxActive
    <3>1. IsFiniteSet(active)
      BY RedisAssumption, FS_Subset DEF ServerInv, ServerTypes
    <3>2. Cardinality(active') <= Cardinality(active) /\ Cardinality(active') \in Nat
          /\ Cardinality(active) \in Nat
      BY <2>2, <3>1, FS_Subset, FS_CardinalityType
    <3> QED BY <3>2, RedisAssumption DEF ServerInv, CapOverReplicas
  <2>6. ServerInv'
    BY <2>2, <2>3, <2>4, <2>5
       DEF ServerInv, ServerTypes, SlotsMatch, CapOverReplicas, Exists, Running
  <2> QED
    <3>1. \A k \in Jobs : Turns(k, FALSE)
      BY <2>3 DEF Turns, Exists
    <3>2. Served(j, FALSE)
      BY <2>2, <2>3, <2>6, <3>1 DEF Served, Turns
    <3> QED BY <1>2, <1>4, <3>2
<1>5. CASE stage \in Ending
  <2>1. \/ stage = "finishing" /\ FinishScript(j, "ended", Statuses, ok)
        \/ FinishScript(j, "abandoned", {"running"}, ok)
        \/ FinishScript(j, "abandoned", {"queued"}, ok)
    BY <1>5 DEF Script, Ending
  <2>2. {"ended", "abandoned"} \subseteq Outcomes \ {"lost"}
    BY DEF Outcomes
  <2>3. ASSUME stage = "finishing" /\ FinishScript(j, "ended", Statuses, ok)
        PROVE  Served(j, FALSE)
    <3>1. record[j] \notin {"queued", "cancelled"} \/ j \in blind
      BY <2>3
    <3> QED BY <2>2, <2>3, <3>1, FinishSteps
  <2>4. ASSUME FinishScript(j, "abandoned", {"running"}, ok)
        PROVE  Served(j, FALSE)
    <3>1. record[j] \in {"running"} => record[j] \in Running
      BY DEF Running
    <3> QED BY <2>2, <2>4, <3>1, FinishSteps
  <2>5. ASSUME FinishScript(j, "abandoned", {"queued"}, ok)
        PROVE  Served(j, FALSE)
    <3>1. record[j] \in {"queued"} => record[j] \in Running
      BY DEF Running
    <3> QED BY <2>2, <2>5, <3>1, FinishSteps
  <2>6. Served(j, FALSE)
    BY <2>1, <2>3, <2>4, <2>5
  <2> QED BY <1>2, <1>5, <2>6 DEF Ending
<1> QED
  BY <1>1, <1>3, <1>4, <1>5 DEF Script, Ending

-----------------------------------------------------------------------------
(* What a step of the system may do.                                        *)

LateTypes == late \subseteq Commands

\* The commands that MayRunLate adds are those that were out.
LEMMA LateSteps ==
  ASSUME TypeOK, NEW S \in SUBSET Jobs, MayRunLate(S)
  PROVE  /\ LateTypes'
         /\ \A j \in Jobs, stage \in Stages :
              /\ Late(stage, j) => Late(stage, j)'
              /\ Late(stage, j)' => \/ Late(stage, j)
                                    \/ j \in S /\ call[j] = "out" /\ at[j] = stage
<1>1. PICK lost \in SUBSET {[stage |-> at[j], job |-> j] : j \in {k \in S : call[k] = "out"}} :
         late' = late \cup lost
  BY DEF MayRunLate
<1>2. \A c \in lost : \E j \in S : c = [stage |-> at[j], job |-> j] /\ call[j] = "out"
  BY <1>1
<1>3. LateTypes'
  BY <1>1, <1>2 DEF LateTypes, Commands, TypeOK
<1>4. ASSUME NEW j \in Jobs, NEW stage \in Stages
      PROVE  /\ Late(stage, j) => Late(stage, j)'
             /\ Late(stage, j)' => \/ Late(stage, j)
                                   \/ j \in S /\ call[j] = "out" /\ at[j] = stage
  <2>1. [stage |-> stage, job |-> j] \in lost => j \in S /\ call[j] = "out" /\ at[j] = stage
    BY <1>2
  <2> QED BY <1>1, <2>1 DEF Late
<1> QED BY <1>3, <1>4

\* The part of TypeOK that is about the replicas.
LocalTypes ==
    /\ up \subseteq Replicas /\ owned \subseteq Jobs
    /\ renewal \in [Replicas -> SUBSET Jobs]
    /\ at \in [Jobs -> Stages] /\ call \in [Jobs -> {"none", "out", "yes", "no"}]
    /\ LateTypes /\ blind \subseteq Jobs

\* Nothing a replica knows of job k changes, or only that it lets go of a renewal.
Untouched(k) ==
    /\ at'[k] = at[k] /\ call'[k] = call[k]
    /\ (Late("creating", k)' => Late("creating", k))
    /\ (Late("finishing", k)' => Late("finishing", k))
    /\ (k \in owned <=> k \in owned')
    /\ (k \in blind <=> k \in blind')
    /\ \A r \in Replicas : k \in renewal'[r] => k \in renewal[r] \cup owned

LEMMA UntouchedSteps ==
  ASSUME StoreInv, UNCHANGED serverVars, NEW k \in Jobs, Untouched(k)
  PROVE  JobInv(k)'
BY DEF StoreInv, JobInv, ForgottenSlot, Unborn, RunsClaimed, Asking, Held, Untouched, serverVars

LEMMA ServedSteps ==
  ASSUME StoreInv, NEW j \in Jobs, NEW born \in BOOLEAN, Served(j, born),
         NEW k \in Jobs, k # j \/ ~born, Untouched(k)
  PROVE  JobInv(k)'
<1>1. Turns(k, FALSE)
  BY DEF Served, Turns
<1>2. /\ k \in active' => k \in active
      /\ k \in active' /\ record'[k] = "gone" => record[k] = "gone"
  BY DEF Served
<1> QED
  BY <1>1, <1>2 DEF StoreInv, JobInv, ForgottenSlot, Unborn, RunsClaimed, Asking, Held, Untouched,
     Turns, Running

LEMMA StoreSteps ==
  ASSUME StoreInv, [Next]_vars
  PROVE  StoreInv'
<1> USE DEF runnerVars
<1>t. TypeOK /\ ServerInv /\ LocalTypes
  BY DEF StoreInv, TypeOK, LocalTypes, LateTypes
<1>a. ASSUME UNCHANGED serverVars, LocalTypes', \A k \in Jobs : JobInv(k)'
      PROVE  StoreInv'
  BY <1>a, <1>t DEF StoreInv, TypeOK, LocalTypes, LateTypes, ServerInv, ServerTypes, SlotsMatch,
     CapOverReplicas, OutcomesBounded, Turns, serverVars
\* Nothing but the place of job j and its command changes.
<1>b. ASSUME NEW j \in Jobs, UNCHANGED serverVars, LocalTypes', JobInv(j)',
             \A k \in Jobs \ {j} : Untouched(k)
      PROVE  StoreInv'
  BY <1>a, <1>b, UntouchedSteps
<1>1. ASSUME NEW j \in Jobs, Post(j) PROVE StoreInv'
  <2>1. LocalTypes' /\ \A k \in Jobs \ {j} : Untouched(k)
    BY <1>t, <1>1 DEF Post, Send, Move, LocalTypes, LateTypes, Stages, Ending, Untouched, Late
  <2>2. JobInv(j)'
    BY <1>t, <1>1 DEF Post, Send, Move, LocalTypes, StoreInv, JobInv, ForgottenSlot, Unborn,
       RunsClaimed, Asking, Held, serverVars, Late
  <2> QED BY <1>1, <1>b, <2>1, <2>2 DEF Post
<1>2. ASSUME NEW j \in Jobs, Discard(j) PROVE StoreInv'
  <2>1. LocalTypes' /\ \A k \in Jobs \ {j} : Untouched(k)
    BY <1>t, <1>2
       DEF Discard, Send, Move, LetGo, LocalTypes, LateTypes, Stages, Ending, Untouched, Late
  <2>2. JobInv(j)'
    BY <1>t, <1>2 DEF Discard, Send, Move, LetGo, LocalTypes, StoreInv, JobInv, ForgottenSlot,
       Unborn, RunsClaimed, Asking, Held, serverVars, Late
  <2> QED BY <1>2, <1>b, <2>1, <2>2 DEF Discard
<1>3. ASSUME NEW j \in Jobs, Claim(j) PROVE StoreInv'
  <2>1. LocalTypes' /\ \A k \in Jobs \ {j} : Untouched(k)
    BY <1>t, <1>3 DEF Claim, Send, Move, LocalTypes, LateTypes, Stages, Ending, Untouched, Late
  <2>2. JobInv(j)'
    BY <1>t, <1>3 DEF Claim, Send, Move, LocalTypes, StoreInv, JobInv, ForgottenSlot, Unborn,
       RunsClaimed, Asking, Held, serverVars, Late
  <2> QED BY <1>3, <1>b, <2>1, <2>2 DEF Claim
<1>4. ASSUME NEW j \in Jobs, Finish(j) PROVE StoreInv'
  <2>1. LocalTypes' /\ \A k \in Jobs \ {j} : Untouched(k)
    BY <1>t, <1>4 DEF Finish, Send, Move, LocalTypes, LateTypes, Stages, Ending, Untouched, Late
  <2>2. JobInv(j)'
    BY <1>t, <1>4 DEF Finish, Send, Move, LocalTypes, StoreInv, JobInv, ForgottenSlot, Unborn,
       RunsClaimed, Asking, Held, serverVars, Late
  <2> QED BY <1>4, <1>b, <2>1, <2>2 DEF Finish
<1>5. ASSUME NEW j \in Jobs, Abandon(j) PROVE StoreInv'
  <2>1. /\ LateTypes'
        /\ \A k \in Jobs, stage \in Stages :
             /\ Late(stage, k) => Late(stage, k)'
             /\ Late(stage, k)' => Late(stage, k) \/ (k = j /\ call[k] = "out" /\ at[k] = stage)
    BY <1>t, <1>5, LateSteps DEF Abandon
  <2>2. LocalTypes' /\ \A k \in Jobs \ {j} : Untouched(k)
    BY <1>t, <1>5, <2>1
       DEF Abandon, Send, Move, LetGo, LocalTypes, Stages, Ending, Untouched
  <2>3. Late("finishing", j)' => Late("finishing", j) \/ at[j] = "finishing"
    BY <2>1 DEF Stages, Ending
  <2>4. Late("creating", j)' => Late("creating", j) \/ at[j] = "creating"
    BY <2>1 DEF Stages, Ending
  <2>5. JobInv(j)'
    BY <1>t, <1>5, <2>3, <2>4 DEF Abandon, Send, Move, LetGo, LocalTypes, StoreInv, JobInv,
       ForgottenSlot, Unborn, RunsClaimed, Asking, Held, serverVars
  <2> QED BY <1>5, <1>b, <2>2, <2>5 DEF Abandon
<1>6. ASSUME NEW j \in Jobs, Answered(j) PROVE StoreInv'
  <2>1. LocalTypes' /\ \A k \in Jobs \ {j} : Untouched(k)
    BY <1>t, <1>6 DEF Answered, AfterEnding, Send, SettleAt, Move, LetGo, LocalTypes, LateTypes,
       Stages, Ending, Untouched, Late
  <2>2. JobInv(j)'
    <3>1. CASE at[j] \in {"creating", "claiming", "discarding"}
      BY <1>t, <1>6, <3>1 DEF Answered, Send, SettleAt, Move, LetGo, Ending, LocalTypes, StoreInv,
         JobInv, ForgottenSlot, Unborn, RunsClaimed, Asking, Held, serverVars, Late
    <3>2. CASE at[j] \in Ending
      BY <1>t, <1>6, <3>2 DEF Answered, AfterEnding, Send, SettleAt, Move, LetGo, Ending,
         LocalTypes, StoreInv, JobInv, ForgottenSlot, Unborn, RunsClaimed, Asking, Held, serverVars, Late
    <3> QED BY <1>6, <3>1, <3>2 DEF Answered
  <2> QED BY <1>6, <1>b, <2>1, <2>2 DEF Answered
<1>7. ASSUME NEW j \in Jobs, TimesOut(j) PROVE StoreInv'
  <2>1. /\ LateTypes'
        /\ \A k \in Jobs, stage \in Stages :
             /\ Late(stage, k) => Late(stage, k)'
             /\ Late(stage, k)' => Late(stage, k) \/ (k = j /\ call[k] = "out" /\ at[k] = stage)
    BY <1>t, <1>7, LateSteps DEF TimesOut
  <2>2. LocalTypes' /\ \A k \in Jobs \ {j} : Untouched(k)
    BY <1>t, <1>7, <2>1
       DEF TimesOut, SettleAt, Move, LocalTypes, Stages, Ending, Untouched
  <2>3. Late("finishing", j)' => Late("finishing", j)
    BY <1>7, <2>1 DEF TimesOut, Stages, Ending
  <2>4. Late("creating", j)' => Late("creating", j) \/ (at[j] = "creating" /\ call[j] = "out")
    BY <2>1 DEF Stages, Ending
  <2>5. JobInv(j)'
    BY <1>t, <1>7, <2>3, <2>4 DEF TimesOut, SettleAt, Move, LocalTypes, StoreInv, JobInv,
       ForgottenSlot, Unborn, RunsClaimed, Asking, Held, serverVars
  <2> QED BY <1>7, <1>b, <2>2, <2>5 DEF TimesOut
<1>8. ASSUME NEW j \in Jobs, Retries(j) PROVE StoreInv'
  <2>1. /\ LateTypes'
        /\ \A k \in Jobs, stage \in Stages :
             /\ Late(stage, k) => Late(stage, k)'
             /\ Late(stage, k)' => Late(stage, k) \/ (k = j /\ call[k] = "out" /\ at[k] = stage)
    BY <1>t, <1>8, LateSteps DEF Retries
  <2>2. LocalTypes' /\ \A k \in Jobs \ {j} : Untouched(k)
    BY <1>t, <1>8, <2>1 DEF Retries, LocalTypes, Stages, Ending, Untouched
  <2>3. Late("finishing", j)' => Late("finishing", j) \/ at[j] = "finishing"
    BY <2>1 DEF Stages, Ending
  <2>4. Late("creating", j)' => Late("creating", j)
    BY <1>8, <2>1 DEF Retries, Stages, Ending
  <2>5. JobInv(j)'
    BY <1>t, <1>8, <2>3, <2>4 DEF Retries, Ending, LocalTypes, StoreInv, JobInv, ForgottenSlot,
       Unborn, RunsClaimed, Asking, Held, serverVars
  <2> QED BY <1>8, <1>b, <2>2, <2>5 DEF Retries
<1>9. ASSUME NEW j \in Jobs, GivesUp(j) PROVE StoreInv'
  <2>1. /\ LateTypes'
        /\ \A k \in Jobs, stage \in Stages :
             /\ Late(stage, k) => Late(stage, k)'
             /\ Late(stage, k)' => Late(stage, k) \/ (k = j /\ call[k] = "out" /\ at[k] = stage)
    BY <1>t, <1>9, LateSteps DEF GivesUp
  <2>2. LocalTypes' /\ \A k \in Jobs \ {j} : Untouched(k)
    BY <1>t, <1>9, <2>1
       DEF GivesUp, AfterEnding, Send, SettleAt, Move, LetGo, LocalTypes, Stages, Ending, Untouched
  <2>3. Late("finishing", j)' => Late("finishing", j) \/ at[j] = "finishing"
    BY <2>1 DEF Stages, Ending
  <2>4. Late("creating", j)' => Late("creating", j)
    BY <1>9, <2>1 DEF GivesUp, Stages, Ending
  <2>5. JobInv(j)'
    BY <1>t, <1>9, <2>3, <2>4 DEF GivesUp, AfterEnding, Send, SettleAt, Move, LetGo, Ending,
       LocalTypes, StoreInv, JobInv, ForgottenSlot, Unborn, RunsClaimed, Asking, Held, serverVars
  <2> QED BY <1>9, <1>b, <2>2, <2>5 DEF GivesUp
<1>10. ASSUME NEW j \in Jobs, Runs(j) PROVE StoreInv'
  <2>1. PICK ok \in BOOLEAN : /\ Script(at[j], j, ok)
                              /\ call' = [call EXCEPT ![j] = IF ok THEN "yes" ELSE "no"]
    BY <1>10 DEF Runs
  <2>2. /\ call[j] = "out" /\ at[j] \in Stages /\ call \in [Jobs -> {"none", "out", "yes", "no"}]
        /\ UNCHANGED <<at, up, owned, renewal, late, blind>>
    BY <1>10, <1>t DEF Runs, LocalTypes
  <2>3. /\ Served(j, at[j] = "creating" /\ ok)
        /\ at[j] = "claiming" /\ ok => record'[j] = "running"
        /\ at[j] = "creating" /\ ~ok => record'[j] = "none"
    BY <1>t, <2>1, <2>2, ScriptSteps DEF StoreInv, JobInv, Unborn, RunsClaimed
  <2>4. call' \in [Jobs -> {"none", "out", "yes", "no"}] /\ call'[j] = (IF ok THEN "yes" ELSE "no")
        /\ \A k \in Jobs \ {j} : call'[k] = call[k]
    BY <2>1, <2>2
  <2>5. \A k \in Jobs \ {j} : Untouched(k)
    BY <2>2, <2>4 DEF Untouched, Late
  <2>6. \A k \in Jobs \ {j} : JobInv(k)'
    BY <2>3, <2>5, ServedSteps
  <2>7. /\ Turns(j, at[j] = "creating" /\ ok)
        /\ j \in active' /\ record'[j] = "gone" => record[j] = "gone"
        /\ j \in active' => j \in active \/ (at[j] = "creating" /\ ok)
    BY <2>3 DEF Served, Turns
  <2>8. JobInv(j)'
    BY <2>2, <2>3, <2>4, <2>7 DEF StoreInv, JobInv, ForgottenSlot, Unborn, RunsClaimed, Asking, Held,
       Turns, Running, Late
  <2>9. \A k \in Jobs : Turns(k, record[k] = "none")
    BY <2>3 DEF Served, Turns
  <2> QED
    BY <1>t, <2>2, <2>3, <2>4, <2>6, <2>8, <2>9
       DEF Served, StoreInv, TypeOK, ServerInv, ServerTypes, LocalTypes, LateTypes
<1>11. ASSUME NEW c \in late, RunsLate(c) PROVE StoreInv'
  <2>1. PICK j \in Jobs, stage \in Stages : c = [stage |-> stage, job |-> j]
    BY <1>t DEF LocalTypes, LateTypes, Commands
  <2>2. PICK ok \in BOOLEAN : Script(stage, j, ok)
    BY <1>11, <2>1 DEF RunsLate
  <2>3. late' = late \ {c} /\ UNCHANGED <<at, call, up, owned, renewal, blind>> /\ Late(stage, j)
    BY <1>11, <2>1 DEF RunsLate, Late
  <2>4. Served(j, stage = "creating" /\ ok)
    BY <1>t, <2>2, <2>3, ScriptSteps DEF StoreInv, JobInv, Unborn, RunsClaimed
  <2>5. \A k \in Jobs : Untouched(k)
    BY <2>3 DEF Untouched, Late
  <2>6. ASSUME NEW k \in Jobs, k # j \/ ~(stage = "creating" /\ ok) PROVE JobInv(k)'
    BY <2>4, <2>5, <2>6, ServedSteps
  <2>7. ASSUME stage = "creating", ok PROVE JobInv(j)'
    <3>1. ~Late("creating", j)' /\ at[j] \in {"done", "dead"} /\ record[j] = "none"
      BY <2>1, <2>3, <2>7 DEF Late, StoreInv, JobInv, Unborn
    <3>2. Turns(j, TRUE) /\ (record'[j] = "gone" /\ j \in active' => record[j] = "gone")
      BY <2>4, <2>7 DEF Served
    <3> QED
      BY <2>3, <2>5, <3>1, <3>2 DEF StoreInv, JobInv, ForgottenSlot, Unborn, RunsClaimed, Asking, Held,
         Untouched, Turns
  <2>8. \A k \in Jobs : JobInv(k)'
    BY <2>6, <2>7
  <2>9. \A k \in Jobs : Turns(k, record[k] = "none")
    BY <2>4 DEF Served, Turns
  <2> QED
    BY <1>t, <2>3, <2>4, <2>8, <2>9
       DEF Served, StoreInv, TypeOK, ServerInv, ServerTypes, LocalTypes, LateTypes
<1>12. ASSUME NEW j \in Jobs, Cancels(j) PROVE StoreInv'
  <2>1. /\ record[j] = "queued" /\ FinishScript(j, "cancelled", {"queued"}, TRUE)
        /\ UNCHANGED <<call, up, renewal, late, blind>>
        /\ owned' \in {owned, owned \ {j}}
        /\ at' \in {at, [at EXCEPT ![j] = "done"]}
        /\ owned' = owned \/ at'[j] \in {"done"} \/ at[j] # "queued"
    BY <1>12, <1>t DEF Cancels, LetGo, LocalTypes
  <2>2. Served(j, FALSE) /\ record'[j] \in {"cancelled", "gone"}
    <3>1. "cancelled" \in Outcomes \ {"lost"} /\ Exists(j)
      BY <2>1 DEF Outcomes, Exists
    <3> QED BY <1>t, <2>1, <3>1, FinishSteps
  <2>3. \A k \in Jobs \ {j} : Untouched(k)
    BY <2>1, <1>t DEF Untouched, Late, LocalTypes
  <2>4. \A k \in Jobs \ {j} : JobInv(k)'
    BY <2>2, <2>3, ServedSteps
  <2>5. j \in active' /\ record'[j] = "gone" => record[j] = "gone"
    BY <2>2 DEF Served
  <2>6. JobInv(j)'
    BY <1>t, <2>1, <2>2, <2>5 DEF StoreInv, JobInv, ForgottenSlot, Unborn, RunsClaimed, Asking, Held,
       Running, Late, LocalTypes
  <2>7. \A k \in Jobs : Turns(k, record[k] = "none")
    BY <2>2 DEF Served, Turns
  <2>8. LocalTypes'
    BY <1>t, <2>1 DEF LocalTypes, LateTypes, Stages
  <2> QED
    BY <1>t, <2>2, <2>4, <2>6, <2>7, <2>8
       DEF Served, StoreInv, TypeOK, ServerInv, ServerTypes, LocalTypes, LateTypes
<1>13. ASSUME NEW r \in Replicas, RenewSend(r) PROVE StoreInv'
  <2>1. LocalTypes'
    BY <1>t, <1>13 DEF RenewSend, LocalTypes, LateTypes
  <2>2. \A k \in Jobs : Untouched(k)
    BY <1>t, <1>13 DEF RenewSend, Untouched, Late, LocalTypes
  <2>3. UNCHANGED serverVars
    BY <1>13 DEF RenewSend
  <2>4. \A k \in Jobs : JobInv(k)'
    BY <2>2, <2>3, UntouchedSteps
  <2> QED BY <1>a, <2>1, <2>3, <2>4
<1>14. ASSUME NEW r \in Replicas, RenewFails(r) PROVE StoreInv'
  <2>1. LocalTypes'
    BY <1>t, <1>14 DEF RenewFails, LocalTypes, LateTypes
  <2>2. \A k \in Jobs : Untouched(k)
    BY <1>t, <1>14 DEF RenewFails, Untouched, Late, LocalTypes
  <2>3. UNCHANGED serverVars
    BY <1>14 DEF RenewFails
  <2>4. \A k \in Jobs : JobInv(k)'
    BY <2>2, <2>3, UntouchedSteps
  <2> QED BY <1>a, <2>1, <2>3, <2>4
<1>15. ASSUME NEW r \in Replicas, RenewRuns(r) PROVE StoreInv'
  <2>1. /\ UNCHANGED <<record, active, at, call, up, late, blind>>
        /\ lease' = lease \cup (renewal[r] \cap active)
        /\ owned' \subseteq owned /\ owned \ owned' \subseteq Jobs \ active
        /\ renewal' = [renewal EXCEPT ![r] = {}]
    BY <1>15, <1>t DEF RenewRuns, StillActive, LocalTypes
  <2>2. LocalTypes'
    BY <1>t, <2>1 DEF LocalTypes, LateTypes
  <2>3. \A k \in Jobs : JobInv(k)'
    BY <1>t, <2>1 DEF LocalTypes, StoreInv, JobInv, ForgottenSlot, Unborn, RunsClaimed, Asking, Held,
       Late, ServerInv, CapOverReplicas
  <2>4. \A k \in Jobs : k \in renewal[r] \cap active => record[k] \in Running
    BY <1>t DEF StoreInv, JobInv, ForgottenSlot, ServerInv, SlotsMatch
  <2>5. ServerInv'
    BY <1>t, <2>1, <2>4
       DEF ServerInv, ServerTypes, SlotsMatch, CapOverReplicas, OutcomesBounded
  <2> QED
    BY <2>1, <2>2, <2>3, <2>5, <1>t
       DEF StoreInv, TypeOK, ServerInv, ServerTypes, LocalTypes, LateTypes, Turns
<1>16. ASSUME NEW j \in Jobs, Lapses(j) PROVE StoreInv'
  <2>1. lease' = lease \ {j} /\ UNCHANGED <<record, active, at, call, up, owned, renewal, late, blind>>
    BY <1>16 DEF Lapses
  <2>2. LocalTypes' /\ ServerInv'
    BY <1>t, <2>1 DEF LocalTypes, LateTypes, ServerInv, ServerTypes, SlotsMatch, CapOverReplicas,
       OutcomesBounded
  <2>3. \A k \in Jobs : JobInv(k)'
    BY <2>1 DEF StoreInv, JobInv, ForgottenSlot, Unborn, RunsClaimed, Asking, Held, Late
  <2> QED
    BY <1>t, <2>1, <2>2, <2>3
       DEF StoreInv, TypeOK, ServerInv, ServerTypes, LocalTypes, LateTypes, Turns
<1>17. ASSUME NEW j \in Jobs, Expires(j) PROVE StoreInv'
  <2>1. /\ record' = [record EXCEPT ![j] = "gone"]
        /\ UNCHANGED <<active, lease, at, call, up, owned, renewal, late, blind>>
        /\ record \in [Jobs -> Statuses]
    BY <1>17, <1>t DEF Expires, ServerInv, ServerTypes
  <2>2. record'[j] = "gone" /\ \A k \in Jobs \ {j} : record'[k] = record[k]
    BY <2>1
  <2>3. /\ j \notin lease
        /\ \/ record[j] \in Outcomes /\ j \notin active
           \/ /\ record[j] \in Running /\ j \notin owned /\ call[j] = "none"
              /\ \A r \in Replicas : j \notin renewal[r]
    BY <1>17, <1>t DEF Expires, ServerInv, SlotsMatch, Running, Outcomes
  <2>4. j \in active => at[j] \in {"done", "dead"}
    BY <1>t, <2>3 DEF StoreInv, JobInv, Unborn, Asking, Held, LocalTypes, Stages, Ending, Running
  <2>5. \A k \in Jobs : JobInv(k)'
    <3>1. JobInv(j)'
      BY <2>1, <2>2, <2>3, <2>4 DEF StoreInv, JobInv, ForgottenSlot, Unborn, RunsClaimed, Asking,
         Held, Running, Outcomes, Late
    <3>2. ASSUME NEW k \in Jobs \ {j} PROVE JobInv(k)'
      BY <2>1, <2>2 DEF StoreInv, JobInv, ForgottenSlot, Unborn, RunsClaimed, Asking, Held, Late
    <3> QED BY <3>1, <3>2
  <2> DEFINE Told == {k \in Jobs : record[k] \in Outcomes \ {"lost"}}
  <2>6. OutcomesBounded'
    <3>1. Told' \subseteq Told
      BY <2>2 DEF Outcomes
    <3>2. IsFiniteSet(Told) /\ Cardinality(Told) <= MaxRetained
      BY <1>t, RedisAssumption, FS_Subset DEF ServerInv, OutcomesBounded
    <3>3. Cardinality(Told') \in Nat /\ Cardinality(Told) \in Nat
          /\ Cardinality(Told') <= Cardinality(Told)
      BY <3>1, <3>2, FS_Subset, FS_CardinalityType
    <3> QED BY <3>2, <3>3, RedisAssumption DEF OutcomesBounded
  <2>7. ServerInv'
    BY <1>t, <2>1, <2>2, <2>3, <2>6
       DEF ServerInv, ServerTypes, SlotsMatch, CapOverReplicas, Statuses, Running
  <2>8. \A k \in Jobs : Turns(k, record[k] = "none")
    BY <2>2, <2>3 DEF Turns, Running, Outcomes
  <2> QED
    BY <1>t, <2>1, <2>5, <2>7, <2>8
       DEF StoreInv, TypeOK, ServerInv, ServerTypes, LocalTypes, LateTypes
<1>18. ASSUME NEW r \in Replicas, Dies(r) PROVE StoreInv'
  <2> DEFINE mine == {j \in Jobs : Home[j] = r}
  <2>1. /\ UNCHANGED <<serverVars, blind>> /\ up' = up \ {r} /\ owned' = owned \ mine
        /\ renewal' = [renewal EXCEPT ![r] = {}]
        /\ MayRunLate(mine)
        /\ at' = [j \in Jobs |-> IF j \in mine /\ at[j] # "done" THEN "dead" ELSE at[j]]
        /\ call' = [j \in Jobs |-> IF j \in mine THEN "none" ELSE call[j]]
    BY <1>18 DEF Dies
  <2>2. /\ LateTypes'
        /\ \A k \in Jobs, stage \in Stages :
             /\ Late(stage, k) => Late(stage, k)'
             /\ Late(stage, k)' => \/ Late(stage, k)
                                   \/ k \in mine /\ call[k] = "out" /\ at[k] = stage
    BY <1>t, <2>1, LateSteps
  <2>3. LocalTypes'
    BY <1>t, <2>1, <2>2 DEF LocalTypes, Stages
  <2>4. \A k \in Jobs \ mine : Untouched(k)
    BY <1>t, <2>1, <2>2 DEF Untouched, LocalTypes, Stages, Ending
  <2>5. ASSUME NEW k \in mine PROVE JobInv(k)'
    <3>1. at'[k] \in {"done", "dead"} /\ (k \notin owned') /\ call'[k] = "none"
      BY <2>1
    <3>2. Late("finishing", k)' => Late("finishing", k) \/ at[k] = "finishing"
      BY <2>2 DEF Stages, Ending
    <3>3. Late("creating", k)' => Late("creating", k) \/ (at[k] = "creating" /\ call[k] = "out")
      BY <2>2 DEF Stages, Ending
    <3>4. \A q \in Replicas : k \in renewal'[q] => k \in renewal[q]
      BY <1>t, <2>1 DEF LocalTypes
    <3> QED
      BY <2>1, <3>1, <3>2, <3>3, <3>4 DEF StoreInv, JobInv, ForgottenSlot, Unborn, RunsClaimed,
         Asking, Held, serverVars
  <2>6. \A k \in Jobs : JobInv(k)'
    BY <2>1, <2>4, <2>5, UntouchedSteps
  <2> QED BY <1>a, <2>1, <2>3, <2>6
<1>19. ASSUME UNCHANGED vars PROVE StoreInv'
  <2>1. LocalTypes' /\ \A k \in Jobs : Untouched(k)
    BY <1>t, <1>19 DEF vars, serverVars, LocalTypes, LateTypes, Untouched, Late
  <2>2. UNCHANGED serverVars
    BY <1>19 DEF vars
  <2>3. \A k \in Jobs : JobInv(k)'
    BY <2>1, <2>2, UntouchedSteps
  <2> QED BY <1>a, <2>1, <2>2, <2>3
<1> QED
  BY <1>1, <1>2, <1>3, <1>4, <1>5, <1>6, <1>7, <1>8, <1>9, <1>10, <1>11, <1>12, <1>13, <1>14,
     <1>15, <1>16, <1>17, <1>18, <1>19 DEF Next, Replica

-----------------------------------------------------------------------------
LEMMA StoreInvInit == Init => StoreInv
<1> SUFFICES ASSUME Init PROVE StoreInv
  OBVIOUS
<1>1. Cardinality(active) = 0 /\ Cardinality({j \in Jobs : record[j] \in Outcomes \ {"lost"}}) = 0
  <2>1. active = {} /\ {j \in Jobs : record[j] \in Outcomes \ {"lost"}} = {}
    BY DEF Init, Outcomes
  <2> QED BY <2>1, FS_EmptySet
<1>2. TypeOK
  BY DEF Init, TypeOK, Statuses, Stages, Running
<1>3. ServerInv
  BY <1>1, <1>2, RedisAssumption DEF Init, TypeOK, ServerInv, ServerTypes, SlotsMatch,
     CapOverReplicas, OutcomesBounded, Running
<1>4. \A j \in Jobs : JobInv(j)
  BY DEF Init, JobInv, ForgottenSlot, Unborn, RunsClaimed, Asking, Held, Late
<1> QED BY <1>2, <1>3, <1>4 DEF StoreInv

\* The inductive invariant: the server's keys fit together and fit what the replicas
\* know, whatever runs twice, late or never (TypeOK is its first part).
THEOREM StoreInvHolds == Spec => []StoreInv
<1>1. StoreInv /\ [Next]_vars => StoreInv'
  BY StoreSteps
<1> QED
  BY <1>1, StoreInvInit, PTL DEF Spec

\* Every variable keeps its type.
THEOREM StoreTypes == Spec => []TypeOK
<1>1. StoreInv => TypeOK
  BY DEF StoreInv
<1> QED BY <1>1, StoreInvHolds, PTL

\* Every queued or running record is counted, and the count respects JOBS_MAX_ACTIVE,
\* whichever replicas create, finish, renew and die, and whatever runs late.
THEOREM CapHolds == Spec => []CapOverReplicas
<1>1. StoreInv => CapOverReplicas
  BY DEF StoreInv, ServerInv
<1> QED BY <1>1, StoreInvHolds, PTL

\* A replica goes on renewing the lease of every job it still works on.
THEOREM HeldHolds == Spec => []HeldIsOwned
<1>1. StoreInv => HeldIsOwned
  BY DEF StoreInv, JobInv, Held, HeldIsOwned
<1> QED BY <1>1, StoreInvHolds, PTL

\* No transition leaves more recorded outcomes than JOBS_MAX_RETAINED.
THEOREM BoundHolds == Spec => []OutcomesBounded
<1>1. StoreInv => OutcomesBounded
  BY DEF StoreInv, ServerInv
<1> QED BY <1>1, StoreInvHolds, PTL

-----------------------------------------------------------------------------
(* The refinement: each script is an action of SharedLifecycle.             *)

\* What clients see (the state of Lifecycle).
View == [j \in Jobs |-> ClientView(j)]

LEMMA Views ==
  ASSUME NEW j \in Jobs
  PROVE  /\ record[j] = "none" => ClientView(j) = "unknown"
         /\ record[j] = "gone" => ClientView(j) = "forgotten"
         /\ record[j] \notin {"none", "gone"} => ClientView(j) = record[j]
BY DEF ClientView

\* Seen by clients, the records that change are those in F (forgotten) and job j.
LEMMA ViewsMove ==
  ASSUME ServerTypes, ServerTypes', NEW j \in Jobs, NEW F \in SUBSET Jobs,
         NEW to \in Outcomes,
         record' = [k \in Jobs |-> IF k \in F THEN "gone" ELSE IF k = j THEN to ELSE record[k]]
  PROVE  View' = [k \in Jobs |-> IF k \in F THEN "forgotten" ELSE IF k = j THEN to ELSE View[k]]
<1>1. ASSUME NEW k \in Jobs
      PROVE  ClientView(k)' = IF k \in F THEN "forgotten" ELSE IF k = j THEN to ELSE ClientView(k)
  BY <1>1 DEF ClientView, Outcomes, ServerTypes
<1> QED
  BY <1>1 DEF View

LEMMA NothingMoves ==
  ASSUME ServerTypes, UNCHANGED <<record, blind>>
  PROVE  Lifecycle!Next
<1>1. \A k \in Jobs : ClientView(k)' = ClientView(k)
  BY DEF ClientView
<1>2. View' = [k \in Jobs |-> IF k \in {} THEN "forgotten" ELSE View[k]]
  BY <1>1 DEF View
<1>3. Lifecycle!ForgetOutcomes
  <2>1. {} \in SUBSET Lifecycle!Over
    OBVIOUS
  <2> QED
    BY <1>2, <2>1 DEF Lifecycle!ForgetOutcomes, View
<1> QED
  BY <1>3 DEF Lifecycle!Next

\* Active records are those that keep their slot and those that are lost.
LEMMA CreateImplements ==
  ASSUME ServerInv, ServerTypes', NEW j \in Jobs, NEW ok \in BOOLEAN, record[j] = "none",
         CreateScript(j, ok), UNCHANGED blind
  PROVE  Lifecycle!Next
<1> DEFINE L == {k \in active \ Kept : Exists(k)}
<1>1. /\ ok <=> Cardinality(Kept) < MaxActive
      /\ record' = [k \in Jobs |-> IF k \in L THEN "lost"
                                   ELSE IF ok /\ k = j THEN "queued" ELSE record[k]]
  BY DEF CreateScript
<1>2. Lifecycle!Live = {k \in Jobs : record[k] \in Running}
  BY Views DEF Lifecycle!Live, Running
<1>3. L \in SUBSET Lifecycle!Live /\ Lifecycle!Live \ L = Kept /\ j \notin L
  BY <1>2 DEF ServerInv, ServerTypes, SlotsMatch, CapOverReplicas, Kept, Exists, Running
<1>4. ASSUME NEW k \in Jobs
      PROVE  ClientView(k)' = IF k \in L THEN "lost"
                              ELSE IF ok /\ k = j THEN "queued" ELSE ClientView(k)
  BY <1>1, <1>4 DEF ClientView
<1>5. Cardinality(Kept) \in Nat
  BY RedisAssumption, FS_Subset, FS_CardinalityType DEF Kept, ServerInv, ServerTypes
<1>6. Lifecycle!Cardinality(Kept) = Cardinality(Kept)
  BY DEF Lifecycle!Cardinality, Cardinality
<1>7. CASE ok
  <2>1. View' = [k \in Jobs |-> IF k = j THEN "queued" ELSE IF k \in L THEN "lost" ELSE View[k]]
    BY <1>3, <1>4, <1>7 DEF View
  <2>2. View[j] = "unknown"
    BY Views DEF View
  <2>3. Lifecycle!Cardinality(Lifecycle!Live \ L) < MaxActive
    BY <1>1, <1>3, <1>6, <1>7
  <2>4. Lifecycle!Accept(j)
    BY <1>3, <2>1, <2>2, <2>3 DEF Lifecycle!Accept, View
  <2> QED
    BY <2>4 DEF Lifecycle!Next
<1>8. CASE ~ok
  <2>1. View' = [k \in Jobs |-> IF k \in L THEN "lost" ELSE View[k]]
    BY <1>4, <1>8 DEF View
  <2>2. Cardinality(Kept) >= MaxActive
    BY <1>1, <1>5, <1>8, RedisAssumption
  <2>3. Lifecycle!Cardinality(Lifecycle!Live \ L) >= MaxActive
    BY <1>3, <1>6, <2>2
  <2>4. Lifecycle!Refuse
    BY <1>3, <2>1, <2>3 DEF Lifecycle!Refuse, View
  <2> QED
    BY <2>4 DEF Lifecycle!Next
<1> QED
  BY <1>7, <1>8

\* A transition writes its outcome, or finds no record and evicts only.
LEMMA FinishImplements ==
  ASSUME ServerTypes, ServerTypes', NEW j \in Jobs, NEW to \in Outcomes, NEW required,
         FinishScript(j, to, required, TRUE), UNCHANGED blind
  PROVE  /\ Exists(j) => Lifecycle!MoveOn(j, to)
         /\ ~Exists(j) => Lifecycle!ForgetOutcomes
<1>1. Lifecycle!Over = {k \in Jobs : record[k] \in Outcomes}
  BY Views DEF Lifecycle!Over, Outcomes
<1> DEFINE written == IF Written(j) THEN [record EXCEPT ![j] = to] ELSE record
           finished == {k \in Jobs : written[k] \in Outcomes}
<1>2. PICK kept \in SUBSET finished :
         record' = [k \in Jobs |-> IF k \in finished \ kept THEN "gone" ELSE written[k]]
  BY DEF FinishScript
<1>3. ASSUME Exists(j) PROVE Lifecycle!MoveOn(j, to)
  <2>1. PICK F \in SUBSET (Lifecycle!Over \cup {j}) :
           record' = [k \in Jobs |-> IF k \in F THEN "gone" ELSE IF k = j THEN to ELSE record[k]]
    <3>1. written = [record EXCEPT ![j] = to]
      BY <1>3 DEF Written
    <3>2. finished \ kept \in SUBSET (Lifecycle!Over \cup {j})
      BY <1>1, <3>1 DEF ServerTypes
    <3>3. record' = [k \in Jobs |-> IF k \in finished \ kept THEN "gone"
                                    ELSE IF k = j THEN to ELSE record[k]]
      BY <1>2, <3>1 DEF ServerTypes
    <3> QED
      BY <3>2, <3>3
  <2>2. F \in SUBSET Jobs
    BY <1>1
  <2>3. View' = [k \in Jobs |-> IF k \in F THEN "forgotten" ELSE IF k = j THEN to ELSE View[k]]
    BY <2>1, <2>2, ViewsMove
  <2> QED
    BY <2>3 DEF Lifecycle!MoveOn, View
<1>4. ASSUME ~Exists(j) PROVE Lifecycle!ForgetOutcomes
  <2>1. PICK F \in SUBSET Lifecycle!Over :
           record' = [k \in Jobs |-> IF k \in F THEN "gone" ELSE record[k]]
    <3>1. written = record
      BY <1>4 DEF Written
    <3>2. finished \ kept \in SUBSET Lifecycle!Over
      BY <1>1, <3>1
    <3>3. record' = [k \in Jobs |-> IF k \in finished \ kept THEN "gone" ELSE record[k]]
      BY <1>2, <3>1
    <3> QED
      BY <3>2, <3>3
  <2>2. ASSUME NEW k \in Jobs
        PROVE  ClientView(k)' = IF k \in F THEN "forgotten" ELSE ClientView(k)
    BY <2>1, <2>2 DEF ClientView
  <2>3. View' = [k \in Jobs |-> IF k \in F THEN "forgotten" ELSE View[k]]
    BY <2>2 DEF View
  <2> QED
    BY <2>3 DEF Lifecycle!ForgetOutcomes, View
<1> QED
  BY <1>3, <1>4

\* One record goes, whatever drops it: an outcome is forgotten, an active one withdrawn.
LEMMA DropImplements ==
  ASSUME ServerTypes, NEW j \in Jobs, Exists(j), record' = [record EXCEPT ![j] = "gone"],
         UNCHANGED blind
  PROVE  Lifecycle!Next
<1>1. ASSUME NEW k \in Jobs
      PROVE  ClientView(k)' = IF k = j THEN "forgotten" ELSE ClientView(k)
  BY <1>1 DEF ClientView, ServerTypes
<1>2. CASE record[j] \in Running
  <2>1. View' = [View EXCEPT ![j] = "forgotten"]
    BY <1>1 DEF View
  <2>2. j \in Lifecycle!Live
    BY <1>2, Views DEF Lifecycle!Live, Running
  <2>3. Lifecycle!Withdraw(j)
    BY <2>1, <2>2 DEF Lifecycle!Withdraw, View
  <2> QED
    BY <2>3 DEF Lifecycle!Next
<1>3. CASE record[j] \in Outcomes
  <2>1. View' = [k \in Jobs |-> IF k \in {j} THEN "forgotten" ELSE View[k]]
    BY <1>1 DEF View
  <2>2. {j} \in SUBSET Lifecycle!Over
    BY <1>3, Views DEF Lifecycle!Over, Outcomes
  <2>3. Lifecycle!ForgetOutcomes
    BY <2>1, <2>2 DEF Lifecycle!ForgetOutcomes, View
  <2> QED
    BY <2>3 DEF Lifecycle!Next
<1> QED
  BY <1>2, <1>3 DEF Exists, ServerTypes, Statuses

\* What makes a script an action of SharedLifecycle is what the replicas know of the
\* record when they send it: a create finds none, an outcome a job that was claimed.
LEMMA ScriptImplements ==
  ASSUME ServerInv, ServerTypes', NEW j \in Jobs, NEW ok \in BOOLEAN, NEW stage \in Stages,
         Script(stage, j, ok), UNCHANGED blind,
         stage = "creating" => record[j] = "none",
         stage = "finishing" /\ j \notin blind => record[j] \notin {"queued", "cancelled"}
  PROVE  Lifecycle!Next
<1>t. ServerTypes
  BY DEF ServerInv
<1>s. UNCHANGED record => Lifecycle!Next
  BY <1>t, NothingMoves
<1>1. CASE stage = "creating"
  BY <1>1, CreateImplements DEF Script
<1>2. CASE stage = "claiming"
  <2>1. RunningScript(j, ok)
    BY <1>2 DEF Script
  <2>2. CASE ok
    <3>1. record[j] = "queued" /\ record' = [record EXCEPT ![j] = "running"]
      BY <2>1, <2>2 DEF RunningScript
    <3>2. ASSUME NEW k \in Jobs
          PROVE  ClientView(k)' = IF k = j THEN "running" ELSE ClientView(k)
      BY <1>t, <3>1, <3>2 DEF ClientView, ServerTypes
    <3>3. View' = [View EXCEPT ![j] = "running"]
      BY <3>2 DEF View
    <3>4. Lifecycle!Start(j)
      BY <3>1, <3>3, Views DEF Lifecycle!Start, View
    <3> QED
      BY <3>4 DEF Lifecycle!Next
  <2>3. CASE ~ok
    BY <1>s, <2>1, <2>3 DEF RunningScript
  <2> QED
    BY <2>2, <2>3
<1>3. CASE stage = "discarding"
  <2>1. record' = [record EXCEPT ![j] = IF Exists(j) THEN "gone" ELSE record[j]]
    BY <1>3 DEF Script, DiscardPipe
  <2>2. CASE Exists(j)
    BY <1>t, <2>1, <2>2, DropImplements
  <2>3. CASE ~Exists(j)
    BY <1>t, <1>s, <2>1, <2>3 DEF ServerTypes
  <2> QED
    BY <2>2, <2>3
<1>4. CASE stage \in Ending
  <2> DEFINE Ended == FinishScript(j, "ended", Statuses, ok)
             Failed(from) == FinishScript(j, "abandoned", {from}, ok)
  <2>1. (stage = "finishing" /\ Ended) \/ Failed("running") \/ Failed("queued")
    BY <1>4 DEF Script, Ending
  <2>2. ~ok => UNCHANGED record
    BY <2>1 DEF FinishScript, serverVars
  <2>3. ASSUME ok, stage = "finishing", Ended
        PROVE  Lifecycle!Next
    <3>1. FinishScript(j, "ended", Statuses, TRUE)
      BY <2>3
    <3>2. /\ Exists(j) => Lifecycle!MoveOn(j, "ended")
          /\ ~Exists(j) => Lifecycle!ForgetOutcomes
      BY <1>t, <3>1, FinishImplements DEF Outcomes
    <3>3. Exists(j) => Lifecycle!End(j)
      BY <1>t, <2>3, <3>2, Views DEF Lifecycle!End, Exists, ServerTypes, Statuses, Running, Outcomes
    <3> QED
      BY <3>2, <3>3 DEF Lifecycle!Next
  <2>4. ASSUME ok, NEW from \in Running, Failed(from)
        PROVE  Lifecycle!Next
    <3>1. FinishScript(j, "abandoned", {from}, TRUE)
      BY <2>4
    <3>2. record[j] \in Running /\ Exists(j)
      BY <3>1, <2>4 DEF FinishScript, Exists, Running
    <3>3. Lifecycle!MoveOn(j, "abandoned")
      BY <1>t, <3>1, <3>2, FinishImplements DEF Outcomes
    <3>4. Lifecycle!Abandon(j)
      BY <3>2, <3>3, Views DEF Lifecycle!Abandon, Lifecycle!Live, Running
    <3> QED
      BY <3>4 DEF Lifecycle!Next
  <2> QED
    BY <1>s, <2>1, <2>2, <2>3, <2>4 DEF Running
<1> QED
  BY <1>1, <1>2, <1>3, <1>4 DEF Script, Ending

LEMMA StepImplements ==
  ASSUME StoreInv, StoreInv', [Next]_vars
  PROVE  Lifecycle!Next
<1>t. ServerInv /\ ServerTypes /\ ServerTypes' /\ TypeOK
  BY DEF StoreInv, ServerInv
<1>s. UNCHANGED <<record, blind>> => Lifecycle!Next
  BY <1>t, NothingMoves
<1>1. ASSUME NEW j \in Jobs, Runs(j) PROVE Lifecycle!Next
  <2>1. PICK ok \in BOOLEAN : Script(at[j], j, ok)
    BY <1>1 DEF Runs
  <2>2. call[j] = "out" /\ UNCHANGED blind /\ at[j] \in Stages
    BY <1>1, <1>t DEF Runs, TypeOK
  <2>3. /\ at[j] = "creating" => record[j] = "none"
        /\ at[j] = "finishing" /\ j \notin blind => record[j] \notin {"queued", "cancelled"}
    BY <2>2 DEF StoreInv, JobInv, Unborn, RunsClaimed
  <2> QED
    BY <1>t, <2>1, <2>2, <2>3, ScriptImplements
<1>2. ASSUME NEW c \in late, RunsLate(c) PROVE Lifecycle!Next
  <2>1. PICK ok \in BOOLEAN : Script(c.stage, c.job, ok)
    BY <1>2 DEF RunsLate
  <2>2. c.stage \in Stages /\ c.job \in Jobs /\ UNCHANGED blind /\ Late(c.stage, c.job)
    BY <1>2, <1>t DEF RunsLate, TypeOK, Commands, Late
  <2>3. /\ c.stage = "creating" => record[c.job] = "none"
        /\ c.stage = "finishing" /\ c.job \notin blind
              => record[c.job] \notin {"queued", "cancelled"}
    BY <2>2 DEF StoreInv, JobInv, Unborn, RunsClaimed
  <2> QED
    BY <1>t, <2>1, <2>2, <2>3, ScriptImplements
<1>3. ASSUME NEW j \in Jobs, Cancels(j) PROVE Lifecycle!Next
  <2>1. /\ record[j] = "queued" /\ Exists(j) /\ UNCHANGED blind
        /\ FinishScript(j, "cancelled", {"queued"}, TRUE)
    BY <1>3 DEF Cancels, Exists
  <2>2. Lifecycle!MoveOn(j, "cancelled")
    BY <1>t, <2>1, FinishImplements DEF Outcomes
  <2>3. Lifecycle!Cancel(j)
    BY <2>1, <2>2, Views DEF Lifecycle!Cancel
  <2> QED
    BY <2>3 DEF Lifecycle!Next
<1>4. ASSUME NEW j \in Jobs, Expires(j) PROVE Lifecycle!Next
  <2>1. Exists(j) /\ record' = [record EXCEPT ![j] = "gone"] /\ UNCHANGED blind
    BY <1>4 DEF Expires, Exists, Running, Outcomes
  <2> QED
    BY <1>t, <2>1, DropImplements
<1>5. ASSUME NEW j \in Jobs, TimesOut(j) PROVE Lifecycle!Next
  <2>1. UNCHANGED record /\ blind' \in {blind, blind \cup {j}}
    BY <1>5 DEF TimesOut, serverVars
  <2>2. [k \in Jobs |-> ClientView(k)]' = [k \in Jobs |-> ClientView(k)]
    BY <2>1 DEF ClientView
  <2>3. CASE blind' = blind \cup {j}
    BY <2>2, <2>3 DEF Lifecycle!Next, Lifecycle!StartUnclaimed
  <2> QED
    BY <1>s, <2>1, <2>3
<1>6. ASSUME NEW j \in Jobs,
             \/ Post(j) \/ Discard(j) \/ Claim(j) \/ Finish(j) \/ Abandon(j) \/ Answered(j)
             \/ Retries(j) \/ GivesUp(j) \/ Lapses(j)
      PROVE  Lifecycle!Next
  <2>1. UNCHANGED <<record, blind>>
    BY <1>6 DEF Post, Discard, Claim, Finish, Abandon, Answered, Retries, GivesUp, Lapses, serverVars
  <2> QED
    BY <1>s, <2>1
<1>7. ASSUME NEW r \in Replicas, RenewSend(r) \/ RenewRuns(r) \/ RenewFails(r) \/ Dies(r)
      PROVE  Lifecycle!Next
  <2>1. UNCHANGED <<record, blind>>
    BY <1>7 DEF RenewSend, RenewRuns, RenewFails, Dies, serverVars
  <2> QED
    BY <1>s, <2>1
<1>8. CASE UNCHANGED vars
  BY <1>s, <1>8 DEF vars, serverVars
<1> QED
  BY <1>1, <1>2, <1>3, <1>4, <1>5, <1>6, <1>7, <1>8 DEF Next, Replica

\* The shared store implements SharedLifecycle: however many replicas create, finish and
\* die, whatever is retried or runs late and whenever leases lapse, a client sees jobs go
\* on as that module says, with JOBS_MAX_ACTIVE over all replicas.
THEOREM SharedLifecycleCorrect == Spec => ImplementsSharedLifecycle
<1>1. Init => Lifecycle!Init
  BY DEF Init, Lifecycle!Init, ClientView
<1>2. StoreInv /\ StoreInv' /\ [Next]_vars => Lifecycle!Next
  BY StepImplements
<1> QED
  BY <1>1, <1>2, StoreInvHolds, PTL DEF Spec, ImplementsSharedLifecycle, Lifecycle!Spec

\* What a client was told about its job is not revised, and a cancelled or forgotten
\* job does not come back: this follows from the abstract specification alone.
THEOREM OutcomesHold == Spec => Lifecycle!OutcomesStand
<1> DEFINE Stand == \A j \in Jobs : Lifecycle!Stands(j)
<1>1. ASSUME Lifecycle!Next PROVE Stand
  <2>1. ASSUME NEW j \in Jobs, NEW to, Lifecycle!MoveOn(j, to)
        PROVE  \A k \in Jobs : \/ View'[k] = View[k]
                               \/ k = j /\ View'[k] = to
                               \/ View'[k] = "forgotten"
    BY <2>1 DEF Lifecycle!MoveOn, View
  <2>2. ASSUME NEW j \in Jobs,
               Lifecycle!Cancel(j) \/ Lifecycle!Abandon(j) \/ Lifecycle!End(j)
        PROVE  Stand
    BY <2>1, <2>2 DEF Lifecycle!Cancel, Lifecycle!Abandon, Lifecycle!End, Lifecycle!Live,
       Lifecycle!Stands, View
  <2>3. ASSUME NEW j \in Jobs,
               \/ Lifecycle!Accept(j) \/ Lifecycle!Start(j) \/ Lifecycle!StartUnclaimed(j)
               \/ Lifecycle!Withdraw(j)
        PROVE  Stand
    BY <2>3 DEF Lifecycle!Accept, Lifecycle!Start, Lifecycle!StartUnclaimed, Lifecycle!Withdraw,
       Lifecycle!Live, Lifecycle!Stands, View
  <2>4. CASE Lifecycle!Refuse \/ Lifecycle!ForgetOutcomes
    BY <2>4 DEF Lifecycle!Refuse, Lifecycle!ForgetOutcomes, Lifecycle!Live, Lifecycle!Over,
       Lifecycle!Stands, View
  <2> QED
    BY <1>1, <2>2, <2>3, <2>4 DEF Lifecycle!Next
<1>2. Lifecycle!Spec => Lifecycle!OutcomesStand
  <2>1. [Lifecycle!Next]_Lifecycle!sharedVars => [Stand]_Lifecycle!sharedVars
    BY <1>1
  <2> QED
    BY <2>1, PTL DEF Lifecycle!Spec, Lifecycle!OutcomesStand
<1> QED
  BY <1>2, SharedLifecycleCorrect, PTL DEF ImplementsSharedLifecycle

=============================================================================
