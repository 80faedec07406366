--------------------------- MODULE BatchRun_proofs --------------------------
(***************************************************************************)
(* Proofs about BatchRun for any number of papers and of concurrent runs,  *)
(* chunk sizes, faults and flags: a paper the ledger calls ok has an export*)
(* that is no older, a result on the ledger is replaced under --force only,*)
(* and a paper that kills its run costs its neighbours one attempt.        *)
(*                                                                         *)
(* All rest on the lock (Holds), on the numbering of attempts (Numbered:   *)
(* the next attempt is at least as high as any line, though a remote       *)
(* verdict after a killed attempt closes its started line), and on what a  *)
(* plan may still assume about the ledger (Progress).                      *)
(***************************************************************************)
EXTENDS BatchRun, FiniteSetTheorems, SequenceTheorems, TLAPS

\* All lines of h are of attempt n or an earlier one.
UpTo(h, n) == \A i \in DOMAIN h : h[i].attempt <= n

\* The last line is the started line of the newest attempt.
Opened(h) == h # <<>> /\ IsStart(h[Len(h)]) /\ UpTo(h, h[Len(h)].attempt)

Untouched == {"out", "rest", "alone"}

BatchTypes ==
    /\ lines \in [Papers -> Seq(Line)]
    /\ pc \in [Runs -> Steps] /\ mode \in [Runs -> Modes]
    /\ place \in [Runs -> [Papers -> Places]]
    /\ lock \in Runs \cup {NoRun} /\ export \in [Papers -> Nat]

Holds == \A r \in Runs : pc[r] = "working" <=> lock = r

Numbered(p) == UpTo(lines[p], NextAttempt(lines[p]))

Exported(p) ==
    \A i \in DOMAIN lines[p] : lines[p][i].kind = "ok" => export[p] >= lines[p][i].attempt

\* The plan of r may be carried out as it is.
Good(r) == pc[r] = "working" \/ (pc[r] = "planned" /\ r \notin stale)

Progress(r, p) ==
    /\ pc[r] # "working" => place[r][p] \in Untouched
    /\ Local(r) /\ place[r][p] \notin Untouched \cup {"chunk"} => Opened(lines[p])
    /\ place[r][p] = "written" =>
          /\ export[p] = VerdictLine(lines[p], "ok", Local(r)).attempt
          /\ UpTo(lines[p], export[p])
    /\ Good(r) /\ place[r][p] # "out" /\ mode[r] # "force" => ~LatestIs(lines[p], {"ok"})

BatchInv ==
    /\ BatchTypes /\ Holds
    /\ \A p \in Papers : Numbered(p) /\ Exported(p)
    /\ \A r \in Runs : \A p \in Papers : Progress(r, p)

-----------------------------------------------------------------------------
(* Histories.                                                               *)

Attempted(h) == {i \in DOMAIN h : IsStart(h[i]) \/ i = 1 \/ ~IsStart(h[i - 1])}

LEMMA AttemptsType ==
    ASSUME NEW h \in Seq(Line)
    PROVE  IsFiniteSet(Attempted(h)) /\ Attempts(h) \in Nat /\ NextAttempt(h) \in Nat \ {0}
<1>1. IsFiniteSet(1 .. Len(h))
    BY FS_Interval
<1>2. Attempted(h) \in SUBSET (1 .. Len(h))
    BY DEF Attempted
<1>3. IsFiniteSet(Attempted(h))
    BY <1>1, <1>2, FS_Subset
<1>4. Cardinality(Attempted(h)) \in Nat
    BY <1>3, FS_CardinalityType
<1> QED
    BY <1>3, <1>4 DEF Attempts, Attempted, NextAttempt

\* Another line never lowers the number of attempts.
LEMMA AttemptsGrow ==
    ASSUME NEW h \in Seq(Line), NEW line \in Line
    PROVE  NextAttempt(h) <= NextAttempt(Append(h, line))
<1> DEFINE g == Append(h, line)
<1>1. /\ g \in Seq(Line) /\ DOMAIN h \subseteq DOMAIN g
      /\ \A i \in DOMAIN h : g[i] = h[i]
    BY AppendProperties
<1>2. ASSUME NEW i \in Attempted(h) PROVE i \in Attempted(g)
    <2>1. i \in DOMAIN h /\ i \in Nat /\ g[i] = h[i]
        BY <1>1, <1>2 DEF Attempted
    <2>2. CASE i = 1
        BY <1>1, <2>1, <2>2 DEF Attempted
    <2>3. CASE i # 1
        <3>1. i - 1 \in DOMAIN h
            BY <2>1, <2>3
        <3>2. g[i - 1] = h[i - 1]
            BY <1>1, <3>1
        <3> QED
            BY <1>1, <1>2, <2>1, <3>2 DEF Attempted
    <2> QED
        BY <2>2, <2>3
<1>3. Attempted(h) \in SUBSET Attempted(g) /\ IsFiniteSet(Attempted(g))
    BY <1>1, <1>2, AttemptsType
<1>4. Cardinality(Attempted(h)) <= Cardinality(Attempted(g))
    BY <1>3, FS_Subset
<1>5. Attempts(h) \in Nat /\ Attempts(g) \in Nat
    BY <1>1, AttemptsType
<1>6. Attempts(h) = Cardinality(Attempted(h)) /\ Attempts(g) = Cardinality(Attempted(g))
    BY DEF Attempts, Attempted
<1>7. Attempts(h) <= Attempts(g)
    BY <1>4, <1>6
<1> HIDE DEF g
<1>8. NextAttempt(h) <= NextAttempt(g)
    BY <1>5, <1>7 DEF NextAttempt
<1> QED
    BY <1>8 DEF g

\* A line of an attempt that is not in the future keeps the numbering.
LEMMA AppendNumbered ==
    ASSUME NEW h \in Seq(Line), NEW line \in Line, NEW n \in Nat,
           UpTo(h, n), line.attempt <= n
    PROVE  UpTo(Append(h, line), n)
BY AppendProperties DEF UpTo

LEMMA AppendLatest ==
    ASSUME NEW h \in Seq(Line), NEW line \in Line, line.kind # "ok", ~LatestIs(h, {"ok"})
    PROVE  ~LatestIs(Append(h, line), {"ok"})
<1> DEFINE g == Append(h, line)
<1> SUFFICES ASSUME NEW i \in DOMAIN g, g[i].kind = "ok",
                    \A j \in i + 1 .. Len(g) : IsStart(g[j])
             PROVE  LatestIs(h, {"ok"})
    BY DEF LatestIs
<1>1. Len(g) = Len(h) + 1 /\ g[Len(h) + 1] = line /\ \A k \in 1 .. Len(h) : g[k] = h[k]
    BY AppendProperties
<1>2. i \in DOMAIN h
    BY <1>1
<1>3. \A j \in i + 1 .. Len(h) : IsStart(h[j])
    BY <1>1, <1>2
<1> QED
    BY <1>1, <1>2, <1>3 DEF LatestIs

\* A non-force run takes up no paper whose latest verdict is ok.
LEMMA PlanLeavesOk ==
    ASSUME NEW m \in Modes, m # "force", NEW p \in Papers, PlanOf(m)[p] # "out"
    PROVE  ~LatestIs(lines[p], {"ok"})
BY DEF PlanOf, PicksUp

LEMMA PlanTypes == ASSUME NEW m \in Modes PROVE PlanOf(m) \in [Papers -> Untouched]
BY DEF PlanOf, Untouched

-----------------------------------------------------------------------------
(* Steps that leave the ledger and the exports alone.                       *)

\* The run that acts, and what its place may become.
Quiet(r) ==
    /\ lines' = lines /\ export' = export
    /\ pc' = [pc EXCEPT ![r] = pc'[r]] /\ pc'[r] \in Steps
    /\ mode' = [mode EXCEPT ![r] = mode'[r]] /\ mode'[r] \in Modes
    /\ place' = [place EXCEPT ![r] = place'[r]] /\ place'[r] \in [Papers -> Places]
    /\ lock' \in Runs \cup {NoRun}
    /\ \A s \in Runs \ {r} : s \in stale => s \in stale'

LEMMA QuietKeeps ==
    ASSUME BatchInv, NEW r \in Runs, Quiet(r), Holds',
           \A p \in Papers : Progress(r, p)'
    PROVE  BatchInv'
<1>1. BatchTypes'
    BY DEF BatchInv, BatchTypes, Quiet
<1>2. ASSUME NEW p \in Papers PROVE Numbered(p)' /\ Exported(p)'
    BY <1>2 DEF BatchInv, Quiet, Numbered, Exported
<1>3. ASSUME NEW s \in Runs \ {r}, NEW p \in Papers PROVE Progress(s, p)'
    <2>1. /\ pc'[s] = pc[s] /\ mode'[s] = mode[s] /\ place'[s] = place[s]
          /\ lines' = lines /\ export' = export /\ (s \in stale => s \in stale')
        BY <1>3 DEF Quiet, BatchInv, BatchTypes
    <2>2. Progress(s, p)
        BY <1>3 DEF BatchInv
    <2> QED
        BY <2>1, <2>2 DEF Progress, Good
<1> QED
    BY <1>1, <1>2, <1>3 DEF BatchInv

\* The papers of r that move are not begun by moving, or had begun before.
Keeps(r) ==
    /\ pc'[r] = "working" /\ pc[r] = "working" /\ lock' = lock /\ mode'[r] = mode[r]
    /\ \A p \in Papers : place'[r][p] # place[r][p] =>
          /\ place[r][p] # "out" /\ place'[r][p] # "written"
          /\ Local(r) /\ place'[r][p] \notin Untouched \cup {"chunk"} =>
                place[r][p] \notin Untouched \cup {"chunk"}

LEMMA MovesKeep ==
    ASSUME BatchInv, NEW r \in Runs, Quiet(r), Keeps(r) PROVE BatchInv'
<1>1. Holds'
    BY DEF BatchInv, BatchTypes, Quiet, Keeps, Holds
<1>2. ASSUME NEW p \in Papers PROVE Progress(r, p)'
    <2>1. Progress(r, p) /\ pc[r] = "working" /\ pc'[r] = "working" /\ mode'[r] = mode[r]
        BY <1>2 DEF BatchInv, Keeps
    <2>2. lines' = lines /\ export' = export
        BY DEF Quiet
    <2>3. CASE place'[r][p] = place[r][p]
        BY <2>1, <2>2, <2>3 DEF Progress, Good
    <2>4. CASE place'[r][p] # place[r][p]
        BY <1>2, <2>1, <2>2, <2>4 DEF Progress, Good, Keeps
    <2> QED
        BY <2>3, <2>4
<1> QED
    BY <1>1, <1>2, QuietKeeps

LEMMA NextChunkSteps == ASSUME BatchInv, NEW r \in Runs, NextChunk(r) PROVE BatchInv'
<1>1. Quiet(r)
    BY DEF NextChunk, Quiet, BatchInv, BatchTypes, ledgerVars, bounds, Places
<1>2. Keeps(r)
    BY DEF NextChunk, Keeps, Chunks, In, Untouched, BatchInv, BatchTypes
<1> QED
    BY <1>1, <1>2, MovesKeep

LEMMA SubmitSteps ==
    ASSUME BatchInv, NEW r \in Runs, NEW p \in Papers, Submit(r, p) PROVE BatchInv'
<1>1. Quiet(r)
    BY DEF Submit, Goes, Quiet, BatchInv, BatchTypes, ledgerVars, Places
<1>2. Keeps(r)
    BY DEF Submit, Goes, Keeps, BatchInv, BatchTypes
<1> QED
    BY <1>1, <1>2, MovesKeep

LEMMA ReturnsSteps == ASSUME BatchInv, NEW r \in Runs, Returns(r) PROVE BatchInv'
<1>1. PICK back \in SUBSET In(r, {"begun"}) :
        \E outcome \in [back -> {"ok", "failed", "crash"}] :
            place' = [place EXCEPT ![r] = [p \in Papers |->
                         IF p \in back THEN outcome[p] ELSE @[p]]]
    BY DEF Returns
<1>2. PICK outcome \in [back -> {"ok", "failed", "crash"}] :
        place' = [place EXCEPT ![r] = [p \in Papers |->
                     IF p \in back THEN outcome[p] ELSE @[p]]]
    BY <1>1
<1>3. Quiet(r)
    BY <1>2 DEF Returns, Quiet, BatchInv, BatchTypes, ledgerVars, Places, Verdicts
<1>4. Keeps(r)
    BY <1>2 DEF Returns, Keeps, In, Untouched, BatchInv, BatchTypes
<1> QED
    BY <1>3, <1>4, MovesKeep

LEMMA InterruptSteps ==
    ASSUME BatchInv, NEW r \in Runs, Interrupt(r) PROVE BatchInv'
<1>1. PICK fate \in [In(r, {"begun"}) -> Verdicts] :
        place' = [place EXCEPT ![r] = [p \in Papers |->
                     IF @[p] = "begun" THEN fate[p]
                     ELSE IF @[p] \in {"rest", "alone"} THEN "out" ELSE @[p]]]
    BY DEF Interrupt
<1>2. Quiet(r)
    BY <1>1 DEF Interrupt, In, Quiet, BatchInv, BatchTypes, ledgerVars, Places
<1>3. Keeps(r)
    BY <1>1 DEF Interrupt, Keeps, In, Untouched, BatchInv, BatchTypes, Verdicts
<1> QED
    BY <1>2, <1>3, MovesKeep

LEMMA DeadlineSteps == ASSUME BatchInv, NEW r \in Runs, Deadline(r) PROVE BatchInv'
<1>1. Quiet(r)
    BY DEF Deadline, Quiet, BatchInv, BatchTypes, ledgerVars, Places
<1>2. Keeps(r)
    BY DEF Deadline, Keeps, Untouched, BatchInv, BatchTypes
<1> QED
    BY <1>1, <1>2, MovesKeep

\* A run that leaves, whichever way, leaves nothing behind.
LEMMA LeavesKeeps ==
    ASSUME BatchInv, NEW r \in Runs, Leaves(r), lines' = lines, export' = export,
           \A s \in Runs \ {r} : s \in stale => s \in stale'
    PROVE  BatchInv'
<1>1. Quiet(r)
    BY DEF Leaves, Quiet, BatchInv, BatchTypes, Steps, Modes, Places
<1>2. Holds'
    BY RunAssumption DEF Leaves, Holds, BatchInv, BatchTypes
<1>3. ASSUME NEW p \in Papers PROVE Progress(r, p)'
    BY <1>3 DEF Leaves, Progress, Good, Untouched, BatchInv, BatchTypes
<1> QED
    BY <1>1, <1>2, <1>3, QuietKeeps

LEMMA BeginSteps == ASSUME BatchInv, NEW r \in Runs, Begin(r) PROVE BatchInv'
<1>1. Quiet(r)
    BY DEF Begin, Quiet, BatchInv, BatchTypes, Steps
<1>2. Holds'
    BY DEF Begin, Holds, BatchInv, BatchTypes
<1>3. ASSUME NEW p \in Papers PROVE Progress(r, p)'
    BY <1>3 DEF Begin, Progress, Good, Untouched, BatchInv, BatchTypes
<1> QED
    BY <1>1, <1>2, <1>3, QuietKeeps

LEMMA PlanSteps == ASSUME BatchInv, NEW r \in Runs, Plan(r) PROVE BatchInv'
<1>0. place'[r] = PlanOf(mode[r]) /\ PlanOf(mode[r]) \in [Papers -> Untouched]
    BY PlanTypes DEF Plan, BatchInv, BatchTypes
<1>1. Quiet(r)
    BY <1>0 DEF Plan, Quiet, BatchInv, BatchTypes, Steps, Places, Untouched, ledgerVars
<1>2. Holds'
    BY DEF Plan, Holds, BatchInv, BatchTypes
<1>3. ASSUME NEW p \in Papers PROVE Progress(r, p)'
    <2>1. mode'[r] = mode[r] /\ lines' = lines /\ place'[r][p] \in Untouched
        BY <1>0, <1>3 DEF Plan, ledgerVars
    <2>2. mode[r] # "force" /\ place'[r][p] # "out" => ~LatestIs(lines[p], {"ok"})
        BY <1>0, <1>3, PlanLeavesOk DEF BatchInv, BatchTypes
    <2> QED
        BY <2>1, <2>2 DEF Progress, Untouched
<1> QED
    BY <1>1, <1>2, <1>3, QuietKeeps

LEMMA TakeLockSteps == ASSUME BatchInv, NEW r \in Runs, TakeLock(r) PROVE BatchInv'
<1>0. /\ r \in stale => place'[r] = PlanOf(mode[r])
      /\ r \notin stale => place'[r] = place[r]
      /\ PlanOf(mode[r]) \in [Papers -> Untouched]
    BY PlanTypes DEF TakeLock, BatchInv, BatchTypes
<1>1. Quiet(r)
    BY <1>0 DEF TakeLock, Quiet, BatchInv, BatchTypes, Steps, Places, Untouched, ledgerVars
<1>2. Holds'
    BY RunAssumption DEF TakeLock, Holds, BatchInv, BatchTypes
<1>3. ASSUME NEW p \in Papers PROVE Progress(r, p)'
    <2>1. mode'[r] = mode[r] /\ lines' = lines /\ export' = export /\ pc[r] = "planned"
        BY DEF TakeLock, ledgerVars
    <2>2. Progress(r, p)
        BY <1>3 DEF BatchInv
    <2>3. place'[r][p] \in Untouched
        BY <1>0, <1>3, <2>1, <2>2 DEF Progress
    <2>4. mode[r] # "force" /\ place'[r][p] # "out" => ~LatestIs(lines[p], {"ok"})
        BY <1>0, <1>3, <2>1, <2>2, PlanLeavesOk DEF BatchInv, BatchTypes, Progress, Good
    <2>5. pc'[r] = "working"
        BY DEF TakeLock, BatchInv, BatchTypes
    <2> QED
        BY <2>1, <2>3, <2>4, <2>5 DEF Progress, Untouched
<1> QED
    BY <1>1, <1>2, <1>3, QuietKeeps

-----------------------------------------------------------------------------
(* Steps that write.                                                        *)

\* The run that writes has the lock: the others that have a plan find it stale.
LEMMA OthersAreStale ==
    ASSUME BatchInv, NEW r \in Runs, pc[r] = "working", Changes(r),
           NEW s \in Runs \ {r}, pc'[s] = pc[s]
    PROVE  pc[s] # "working" /\ ~Good(s)'
BY DEF BatchInv, BatchTypes, Holds, Changes, Good, Steps

\* A line that run r appends for paper p.
LEMMA LineSteps ==
    ASSUME BatchInv, NEW r \in Runs, NEW p \in Papers, NEW line \in Line,
           pc[r] = "working", lines' = [lines EXCEPT ![p] = Append(@, line)], Changes(r),
           NEW to \in Places, Goes(r, p, to), UNCHANGED <<pc, mode, lock, export>>,
           line.attempt <= NextAttempt(lines[p]),
           line.kind = "ok" => export[p] >= line.attempt,
           Progress(r, p)'
    PROVE  BatchInv'
<1>1. lines' \in [Papers -> Seq(Line)] /\ lines'[p] = Append(lines[p], line)
    BY AppendProperties DEF BatchInv, BatchTypes
<1>2. BatchTypes'
    BY <1>1 DEF BatchInv, BatchTypes, Goes
<1>3. Holds'
    BY DEF BatchInv, BatchTypes, Holds
<1>4. ASSUME NEW q \in Papers \ {p} PROVE lines'[q] = lines[q] /\ Numbered(q)' /\ Exported(q)'
    BY <1>4 DEF BatchInv, BatchTypes, Numbered, Exported
<1>5. Numbered(p)'
    <2>1. lines[p] \in Seq(Line) /\ UpTo(lines[p], NextAttempt(lines[p]))
        BY DEF BatchInv, BatchTypes, Numbered
    <2>2. /\ NextAttempt(lines[p]) \in Nat /\ NextAttempt(lines'[p]) \in Nat
          /\ NextAttempt(lines[p]) <= NextAttempt(lines'[p])
        BY <1>1, <2>1, AttemptsType, AttemptsGrow
    <2>3. UpTo(lines'[p], NextAttempt(lines[p]))
        BY <1>1, <2>1, <2>2, AppendNumbered
    <2>4. lines'[p] \in Seq(Line)
        BY <1>1, <1>2 DEF BatchTypes
    <2>5. ASSUME NEW i \in DOMAIN lines'[p]
          PROVE  lines'[p][i].attempt <= NextAttempt(lines'[p])
        <3>1. lines'[p][i] \in Line
            BY <2>4, <2>5
        <3>2. lines'[p][i].attempt \in Nat
            BY <3>1 DEF Line
        <3>3. lines'[p][i].attempt <= NextAttempt(lines[p])
            BY <2>3, <2>5 DEF UpTo
        <3> QED
            BY <2>2, <3>2, <3>3
    <2> QED
        BY <2>5 DEF Numbered, UpTo
<1>6. Exported(p)'
    <2>1. lines[p] \in Seq(Line) /\ Exported(p)
        BY DEF BatchInv, BatchTypes
    <2> QED
        BY <1>1, <2>1, AppendProperties DEF Exported
<1>7. ASSUME NEW s \in Runs \ {r}, NEW q \in Papers PROVE Progress(s, q)'
    <2>1. pc[s] # "working" /\ ~Good(s)' /\ pc'[s] = pc[s] /\ place'[s] = place[s]
        BY <1>7, OthersAreStale DEF Goes, BatchInv, BatchTypes
    <2>2. place[s][q] \in Untouched
        BY <1>7, <2>1 DEF BatchInv, Progress
    <2> QED
        BY <2>1, <2>2 DEF Progress, Untouched
<1>8. ASSUME NEW q \in Papers \ {p} PROVE Progress(r, q)'
    <2>1. place'[r][q] = place[r][q] /\ lines'[q] = lines[q] /\ pc'[r] = pc[r]
        BY <1>4, <1>8 DEF Goes, BatchInv, BatchTypes
    <2>2. Progress(r, q)
        BY <1>8 DEF BatchInv
    <2> QED
        BY <2>1, <2>2 DEF Progress, Good
<1> QED
    BY <1>2, <1>3, <1>4, <1>5, <1>6, <1>7, <1>8 DEF BatchInv

LEMMA StartSteps ==
    ASSUME BatchInv, NEW r \in Runs, NEW p \in Papers, Start(r, p) PROVE BatchInv'
<1> DEFINE line == StartLine(lines[p])
<1>1. lines[p] \in Seq(Line) /\ Progress(r, p) /\ Numbered(p)
    BY DEF BatchInv, BatchTypes
<1>2. /\ NextAttempt(lines[p]) \in Nat \ {0} /\ line \in Line /\ line.kind = "started"
      /\ line.attempt = NextAttempt(lines[p])
    BY <1>1, AttemptsType DEF StartLine, Line
<1>3. lines' = [lines EXCEPT ![p] = Append(@, line)] /\ lines'[p] = Append(lines[p], line)
    BY DEF Start, AppendLine, BatchInv, BatchTypes
<1>4. Progress(r, p)'
    <2>1. /\ lines'[p] # <<>> /\ lines'[p][Len(lines'[p])] = line
          /\ UpTo(lines'[p], NextAttempt(lines[p]))
        BY <1>1, <1>2, <1>3, AppendProperties, AppendNumbered DEF Numbered
    <2>2. Opened(lines'[p])
        BY <1>2, <2>1 DEF Opened, IsStart
    <2>3. place'[r][p] = "begun" /\ place[r][p] = "chunk" /\ pc'[r] = pc[r] /\ pc[r] = "working"
          /\ mode'[r] = mode[r]
        BY DEF Start, Goes, BatchInv, BatchTypes
    <2>4. mode[r] # "force" => ~LatestIs(lines[p], {"ok"})
        BY <1>1, <2>3 DEF Progress, Good
    <2>5. mode[r] # "force" => ~LatestIs(lines'[p], {"ok"})
        BY <1>1, <1>2, <1>3, <2>4, AppendLatest
    <2> QED
        BY <2>2, <2>3, <2>5 DEF Progress
<1>5. NextAttempt(lines[p]) <= NextAttempt(lines[p])
    BY <1>2
<1> HIDE DEF line
<1> QED
    BY <1>2, <1>3, <1>4, <1>5, LineSteps DEF Start, Places

\* The attempt a verdict is written for.
LEMMA VerdictAttempt ==
    ASSUME BatchInv, NEW r \in Runs, NEW p \in Papers,
           place[r][p] \notin Untouched \cup {"chunk"}, NEW kind \in Verdicts
    PROVE  LET line == VerdictLine(lines[p], kind, Local(r))
           IN /\ line \in Line /\ line.kind = kind
              /\ line.attempt = VerdictLine(lines[p], "ok", Local(r)).attempt
              /\ line.attempt <= NextAttempt(lines[p]) /\ UpTo(lines[p], line.attempt)
<1>1. lines[p] \in Seq(Line) /\ Progress(r, p) /\ Numbered(p)
    BY DEF BatchInv, BatchTypes
<1>2. NextAttempt(lines[p]) \in Nat \ {0}
    BY <1>1, AttemptsType
<1>3. CASE Local(r)
    <2>1. Opened(lines[p])
        BY <1>1, <1>3 DEF Progress
    <2>2. Len(lines[p]) \in DOMAIN lines[p] /\ lines[p][Len(lines[p])] \in Line
        BY <1>1, <2>1 DEF Opened
    <2> QED
        BY <1>1, <1>3, <2>1, <2>2 DEF Opened, Numbered, UpTo, VerdictLine, Line
<1>4. CASE ~Local(r)
    BY <1>1, <1>2, <1>4 DEF VerdictLine, Line, Numbered
<1> QED
    BY <1>3, <1>4

LEMMA RecordSteps ==
    ASSUME BatchInv, NEW r \in Runs, NEW p \in Papers, Record(r, p) PROVE BatchInv'
<1> DEFINE kind == IF place[r][p] = "written" THEN "ok" ELSE place[r][p]
           line == VerdictLine(lines[p], kind, Local(r))
<1>1. /\ pc[r] = "working" /\ place[r][p] \in {"written"} \cup (Verdicts \ {"ok"})
      /\ place[r][p] \notin Untouched \cup {"chunk"} /\ kind \in Verdicts
    BY DEF Record, MayRecord, Untouched, Verdicts
<1>2. /\ line \in Line /\ line.kind = kind /\ line.attempt <= NextAttempt(lines[p])
      /\ line.attempt = VerdictLine(lines[p], "ok", Local(r)).attempt
    BY <1>1, VerdictAttempt
<1>3. line.kind = "ok" => export[p] >= line.attempt
    <2>1. line.kind = "ok" => place[r][p] = "written"
        BY <1>1, <1>2
    <2>2. place[r][p] = "written" => export[p] = VerdictLine(lines[p], "ok", Local(r)).attempt
        BY DEF BatchInv, Progress
    <2>3. export[p] \in Nat
        BY DEF BatchInv, BatchTypes
    <2> QED
        BY <1>2, <2>1, <2>2, <2>3
<1>4. lines' = [lines EXCEPT ![p] = Append(@, line)]
    BY DEF Record, AppendLine
<1>5. Progress(r, p)'
    <2>1. place'[r][p] = "out" /\ pc'[r] = "working"
        BY <1>1 DEF Record, Goes, BatchInv, BatchTypes
    <2> QED
        BY <2>1 DEF Progress, Untouched
<1>6. /\ Changes(r) /\ Goes(r, p, "out") /\ UNCHANGED <<pc, mode, lock, export>>
      /\ "out" \in Places
    BY DEF Record, Places
<1> HIDE DEF line
<1> QED
    BY <1>1, <1>2, <1>3, <1>4, <1>5, <1>6, LineSteps

LEMMA WriteExportSteps ==
    ASSUME BatchInv, NEW r \in Runs, NEW p \in Papers, WriteExport(r, p) PROVE BatchInv'
<1>1. pc[r] = "working" /\ place[r][p] = "ok" /\ lines' = lines
    BY DEF WriteExport, MayRecord, ledgerVars
<1>2. CASE WriteFails(r, p)
    <2>1. Quiet(r) /\ Keeps(r)
        BY <1>1, <1>2 DEF WriteExport, WriteFails, Goes, Quiet, Keeps, BatchInv, BatchTypes,
                          ledgerVars, Places, Verdicts, Untouched
    <2> QED
        BY <2>1, MovesKeep
<1>3. CASE WriteSucceeds(r, p)
    <2>1. /\ VerdictLine(lines[p], "ok", Local(r)) \in Line
          /\ UpTo(lines[p], VerdictLine(lines[p], "ok", Local(r)).attempt)
        BY <1>1, VerdictAttempt DEF Untouched, Verdicts
    <2>2. /\ export'[p] = VerdictLine(lines[p], "ok", Local(r)).attempt /\ export'[p] \in Nat
          /\ \A q \in Papers \ {p} : export'[q] = export[q]
          /\ export' \in [Papers -> Nat]
        BY <1>3, <2>1 DEF WriteSucceeds, BatchInv, BatchTypes, Line
    <2>3. /\ place' = [place EXCEPT ![r][p] = "written"] /\ UNCHANGED <<pc, mode, lock, stale>>
        BY <1>3 DEF WriteExport, WriteSucceeds, Goes, ledgerVars
    <2>4. BatchTypes'
        BY <1>1, <2>2, <2>3 DEF BatchInv, BatchTypes, Places
    <2>5. Holds'
        BY <2>3 DEF BatchInv, Holds
    <2>6. ASSUME NEW q \in Papers PROVE Numbered(q)' /\ Exported(q)'
        <3>1. CASE q = p
            BY <1>1, <2>1, <2>2, <3>1 DEF BatchInv, BatchTypes, Numbered, Exported, UpTo, Line
        <3>2. CASE q # p
            BY <1>1, <2>2, <2>6, <3>2 DEF BatchInv, Numbered, Exported
        <3> QED
            BY <3>1, <3>2
    <2>7. ASSUME NEW s \in Runs, NEW q \in Papers PROVE Progress(s, q)'
        <3>0. Progress(s, q) /\ Progress(r, p)
            BY <2>7 DEF BatchInv
        <3>1. CASE s = r /\ q = p
            <4>1. place'[s][q] = "written"
                BY <2>3, <3>1 DEF BatchInv, BatchTypes
            <4> QED
                BY <1>1, <2>1, <2>2, <2>3, <3>0, <3>1, <4>1 DEF Progress, Good, Untouched
        <3>2. CASE s = r /\ q # p
            <4>1. place'[s][q] = place[s][q] /\ export'[q] = export[q]
                BY <2>2, <2>3, <2>7, <3>2 DEF BatchInv, BatchTypes
            <4> QED
                BY <1>1, <2>3, <3>0, <4>1 DEF Progress, Good
        <3>3. CASE s # r
            <4>1. place'[s] = place[s] /\ pc[s] # "working"
                BY <1>1, <2>3, <2>7, <3>3 DEF BatchInv, BatchTypes, Holds
            <4>2. place[s][q] \in Untouched
                BY <3>0, <4>1 DEF Progress
            <4> QED
                BY <1>1, <2>3, <3>0, <4>1, <4>2 DEF Progress, Good, Untouched
        <3> QED
            BY <3>1, <3>2, <3>3
    <2> QED
        BY <2>4, <2>5, <2>6, <2>7 DEF BatchInv
<1> QED
    BY <1>2, <1>3 DEF WriteExport

-----------------------------------------------------------------------------
LEMMA InitBatch == Init => BatchInv
<1> SUFFICES ASSUME Init PROVE BatchInv
    OBVIOUS
<1>1. BatchTypes /\ Holds
    BY RunAssumption DEF Init, LedgerInit, BatchTypes, Holds, Steps, Modes, Places
<1>2. ASSUME NEW p \in Papers PROVE Numbered(p) /\ Exported(p)
    BY <1>2 DEF Init, LedgerInit, Numbered, Exported, UpTo
<1>3. ASSUME NEW r \in Runs, NEW p \in Papers PROVE Progress(r, p)
    BY <1>3 DEF Init, Progress, Untouched
<1> QED
    BY <1>1, <1>2, <1>3 DEF BatchInv

LEMMA NextBatch == ASSUME BatchInv, [Next]_vars PROVE BatchInv'
<1>1. CASE UNCHANGED vars
    BY <1>1 DEF vars, BatchInv, BatchTypes, Holds, Numbered, Exported, Progress, Good
<1>2. ASSUME NEW r \in Runs, Works(r) PROVE BatchInv'
    <2>1. CASE Busy(r) \/ End(r)
        BY <2>1, <1>2, LeavesKeeps DEF Busy, End, ledgerVars
    <2> QED
        BY <1>2, <2>1, PlanSteps, TakeLockSteps, NextChunkSteps, ReturnsSteps, StartSteps,
           SubmitSteps, WriteExportSteps, RecordSteps DEF Works
<1>3. ASSUME NEW r \in Runs, KilledByPaper(r) \/ Killed(r) PROVE BatchInv'
    <2>1. lines' = lines /\ export' = export /\ Leaves(r)
        BY <1>3 DEF KilledByPaper, Killed, AppendTorn, ledgerVars
    <2>2. \A s \in Runs \ {r} : s \in stale => s \in stale'
        BY <1>3 DEF KilledByPaper, Killed, Changes, ledgerVars
    <2> QED
        BY <1>3, <2>1, <2>2, LeavesKeeps
<1> QED
    BY <1>1, <1>2, <1>3, BeginSteps, InterruptSteps, DeadlineSteps DEF Next

LEMMA BatchInvHolds == Spec => []BatchInv
<1>1. Init => BatchInv
    BY InitBatch
<1>2. BatchInv /\ [Next]_vars => BatchInv'
    BY NextBatch
<1> QED
    BY <1>1, <1>2, PTL DEF Spec

\* What the ledger calls ok is on disk, from that attempt or a later one (record).
THEOREM OkHasExportAlways == Spec => []OkHasExport
<1>1. BatchInv => OkHasExport
    BY DEF BatchInv, Exported, OkHasExport
<1> QED
    BY <1>1, BatchInvHolds, PTL

\* Only a --force run that holds the lock replaces a result that is on the ledger.
THEOREM ResultsStandAlways == Spec => ResultsStand
<1> DEFINE Stands == \A p \in Papers :
              export'[p] # export[p] /\ LatestIs(lines[p], {"ok"}) =>
                  \E r \in Runs : mode[r] = "force" /\ lock = r
<1>1. BatchInv /\ [Next]_vars => [Stands]_vars
    <2> SUFFICES ASSUME BatchInv, Next, NEW p \in Papers, export'[p] # export[p],
                        LatestIs(lines[p], {"ok"})
                 PROVE  \E r \in Runs : mode[r] = "force" /\ lock = r
        BY DEF vars
    <2>1. PICK r \in Runs, q \in Papers : WriteExport(r, q)
        BY DEF Next, Works, Begin, Plan, TakeLock, Busy, NextChunk, Start, Submit, Returns, Record,
               End, Interrupt, Deadline, KilledByPaper, Killed
    <2>2. q = p
        BY <2>1 DEF WriteExport, WriteSucceeds, WriteFails, BatchInv, BatchTypes
    <2>3. pc[r] = "working" /\ place[r][p] = "ok"
        BY <2>1, <2>2 DEF WriteExport, MayRecord
    <2>4. Progress(r, p) /\ lock = r
        BY <2>3 DEF BatchInv, Holds
    <2> QED
        BY <2>3, <2>4 DEF Progress, Good
<1> QED
    BY <1>1, BatchInvHolds, PTL DEF Spec, ResultsStand

-----------------------------------------------------------------------------
(* Types, with the bounds.                                                  *)

\* Every record of the run's bookkeeping stays well formed, whichever way runs end.
THEOREM TypeCorrect == Spec => []TypeOK
<1> DEFINE Bounded == /\ torn \in BOOLEAN /\ stale \subseteq Runs
                      /\ faults \in 0 .. MaxFaults /\ flagged \in 0 .. MaxFlagged
<1>1. Init => Bounded
    <2>1. Init => torn \in BOOLEAN
        BY DEF Init, LedgerInit
    <2>2. Init => stale \subseteq Runs /\ faults \in 0 .. MaxFaults /\ flagged \in 0 .. MaxFlagged
        BY RunAssumption DEF Init
    <2> QED
        BY <2>1, <2>2
<1>2. Bounded /\ [Next]_vars => Bounded'
    <2> SUFFICES ASSUME Bounded, [Next]_vars PROVE Bounded'
        OBVIOUS
    <2> USE RunAssumption DEF ledgerVars, bounds
    <2>1. CASE UNCHANGED vars
        BY <2>1 DEF vars
    <2>2. ASSUME NEW r \in Runs, Begin(r) PROVE Bounded'
        BY <2>2 DEF Begin
    <2>3. ASSUME NEW r \in Runs, Works(r) PROVE Bounded'
        <3>1. ASSUME NEW p \in Papers, Start(r, p) \/ Record(r, p) PROVE Bounded'
            BY <3>1 DEF Start, Record, AppendLine, Changes
        <3>2. ASSUME NEW p \in Papers, Submit(r, p) \/ WriteExport(r, p) PROVE Bounded'
            BY <3>2 DEF Submit, WriteExport, WriteSucceeds, WriteFails, Fault
        <3>3. CASE Plan(r) \/ TakeLock(r) \/ Busy(r) \/ NextChunk(r) \/ Returns(r) \/ End(r)
            BY <3>3 DEF Plan, TakeLock, Busy, NextChunk, Returns, End
        <3> QED
            BY <2>3, <3>1, <3>2, <3>3 DEF Works
    <2>4. ASSUME NEW r \in Runs, Interrupt(r) \/ Deadline(r) \/ KilledByPaper(r) PROVE Bounded'
        BY <2>4 DEF Interrupt, Deadline, KilledByPaper, Fault
    <2>5. ASSUME NEW r \in Runs, Killed(r) PROVE Bounded'
        <3>1. torn' \in BOOLEAN
            BY <2>5 DEF Killed, AppendTorn
        <3>2. stale' \subseteq Runs
            BY <2>5 DEF Killed, Changes
        <3>3. faults' \in 0 .. MaxFaults /\ flagged' \in 0 .. MaxFlagged
            BY <2>5 DEF Killed, Fault
        <3> QED
            BY <3>1, <3>2, <3>3
    <2> QED
        BY <2>1, <2>2, <2>3, <2>4, <2>5 DEF Next
<1>3. BatchInv /\ Bounded => TypeOK
    BY DEF BatchInv, BatchTypes, TypeOK, LedgerTypeOK
<1> QED
    BY <1>1, <1>2, <1>3, BatchInvHolds, PTL DEF Spec

-----------------------------------------------------------------------------
(* Neighbours: how often a paper may be killed by another one.              *)

\* The attempts in a row without a verdict.
Trailing(h) == {i \in DOMAIN h : \A j \in i .. Len(h) : IsStart(h[j])}
Trail(p) == Cardinality(Trailing(lines[p]))

LEMMA TrailType ==
    ASSUME NEW h \in Seq(Line)
    PROVE  IsFiniteSet(Trailing(h)) /\ Cardinality(Trailing(h)) \in Nat
<1>1. IsFiniteSet(1 .. Len(h)) /\ Trailing(h) \in SUBSET (1 .. Len(h))
    BY FS_Interval DEF Trailing
<1> QED
    BY <1>1, FS_Subset, FS_CardinalityType

LEMMA TrailOfStart ==
    ASSUME NEW h \in Seq(Line), NEW line \in Line, IsStart(line)
    PROVE  Cardinality(Trailing(Append(h, line))) = Cardinality(Trailing(h)) + 1
<1> DEFINE g == Append(h, line)
<1>1. Len(g) = Len(h) + 1 /\ g[Len(h) + 1] = line /\ \A i \in 1 .. Len(h) : g[i] = h[i]
    BY AppendProperties
<1>2. DOMAIN g = 1 .. Len(h) + 1 /\ DOMAIN h = 1 .. Len(h) /\ Len(h) \in Nat
    BY <1>1, AppendProperties
<1> HIDE DEF g
<1>3. ASSUME NEW i \in DOMAIN h PROVE i \in Trailing(g) <=> i \in Trailing(h)
    BY <1>1, <1>2, <1>3 DEF Trailing
<1>4. Len(h) + 1 \in Trailing(g)
    BY <1>1, <1>2 DEF Trailing
<1>5. Trailing(g) = Trailing(h) \cup {Len(h) + 1} /\ Len(h) + 1 \notin Trailing(h)
    BY <1>2, <1>3, <1>4 DEF Trailing
<1> QED
    BY <1>5, TrailType, FS_AddElement DEF g

LEMMA TrailOfVerdict ==
    ASSUME NEW h \in Seq(Line), NEW line \in Line, ~IsStart(line)
    PROVE  Cardinality(Trailing(Append(h, line))) = 0
<1> DEFINE g == Append(h, line)
<1>1. Len(g) = Len(h) + 1 /\ g[Len(h) + 1] = line /\ DOMAIN g = 1 .. Len(h) + 1
    BY AppendProperties
<1>2. Trailing(g) = {}
    BY <1>1 DEF Trailing
<1> QED
    BY <1>2, FS_EmptySet

LEMMA TrailOfFinished ==
    ASSUME NEW h \in Seq(Line), ~Unfinished(h) PROVE Cardinality(Trailing(h)) = 0
<1>1. Trailing(h) = {}
    BY DEF Trailing, Unfinished
<1> QED
    BY <1>1, FS_EmptySet

Beginning == {"chunk", "begun"}
Alone(r, p) == \A q \in Papers \ {p} : place[r][q] \notin Beginning

\* The run has left a started line of p that has no verdict yet.
Taken(r, p) == Local(r) /\ place[r][p] \notin Untouched \cup {"chunk"}

\* A paper with an attempt before this one that has no verdict shares the chunk with none,
\* and the verdicts of a chunk come together.
Together(r, p) ==
    /\ place[r][p] = "chunk" => Local(r) /\ (Trail(p) = 0 \/ Alone(r, p))
    /\ Good(r) /\ place[r][p] = "rest" => Trail(p) = 0
    /\ Local(r) /\ place[r][p] = "begun" => Trail(p) <= 1 \/ Alone(r, p)
    /\ Taken(r, p) /\ place[r][p] # "begun" => \A q \in Papers : place[r][q] \notin Beginning

Spared(p) ==
    \/ Trail(p) <= 1 + faults
    \/ Trail(p) <= 2 + faults /\ \E r \in Runs : Taken(r, p)

SparedInv ==
    /\ \A r \in Runs : \A p \in Papers : Together(r, p)
    /\ \A p \in Papers \ Killers : Spared(p)

\* A run that does not work has taken nothing up.
LEMMA OnlyWorkersTake ==
    ASSUME BatchInv, NEW r \in Runs, NEW p \in Papers, place[r][p] \notin Untouched
    PROVE  pc[r] = "working" /\ lock = r
BY DEF BatchInv, Progress, Holds

LEMMA TrailNat == ASSUME BatchInv, NEW p \in Papers PROVE Trail(p) \in Nat
BY TrailType DEF BatchInv, BatchTypes, Trail

\* A step of r that leaves the ledger and the other runs alone.
Calm(r) ==
    /\ lines' = lines
    /\ \A s \in Runs \ {r} :
          place'[s] = place[s] /\ pc'[s] = pc[s] /\ (s \in stale => s \in stale')

LEMMA QuietIsCalm == ASSUME BatchInv, NEW r \in Runs, Quiet(r) PROVE Calm(r)
BY DEF BatchInv, BatchTypes, Quiet, Calm

\* A paper that such a step gives up without a verdict has no open attempt too many.
LEMMA QuietSpares ==
    ASSUME BatchInv, SparedInv, NEW r \in Runs, Calm(r),
           faults \in Nat, faults' \in Nat, faults <= faults',
           \A p \in Papers : Together(r, p)',
           \A p \in Papers \ Killers : Taken(r, p) /\ ~Taken(r, p)' => Trail(p) <= 1 + faults'
    PROVE  SparedInv'
<1>1. \A p \in Papers : Trail(p)' = Trail(p)
    BY DEF Calm, Trail
<1>2. ASSUME NEW s \in Runs \ {r}
      PROVE  /\ place'[s] = place[s] /\ pc'[s] = pc[s] /\ (s \in stale => s \in stale')
             /\ \A p \in Papers : Taken(s, p)' <=> Taken(s, p)
    BY <1>2 DEF Calm, Taken
<1>3. ASSUME NEW s \in Runs, NEW p \in Papers PROVE Together(s, p)'
    <2>1. CASE s = r
        BY <1>3, <2>1
    <2>2. CASE s # r
        <3>1. Together(s, p)
            BY <1>3 DEF SparedInv
        <3>2. Good(s)' => Good(s)
            BY <1>2, <2>2 DEF Good
        <3> QED
            BY <1>1, <1>2, <1>3, <2>2, <3>1, <3>2 DEF Together, Alone, Taken
    <2> QED
        BY <2>1, <2>2
<1>4. ASSUME NEW p \in Papers \ Killers PROVE Spared(p)'
    <2>1. Trail(p)' = Trail(p) /\ Trail(p) \in Nat /\ Spared(p)
        BY <1>1, <1>4, TrailNat DEF SparedInv
    <2>2. CASE Trail(p) <= 1 + faults
        <3>1. Trail(p)' <= 1 + faults'
            BY <2>1, <2>2
        <3> QED
            BY <3>1 DEF Spared
    <2>3. ASSUME NEW s \in Runs, Taken(s, p), Trail(p) <= 2 + faults PROVE Spared(p)'
        <3>1. Trail(p)' <= 2 + faults'
            BY <2>1, <2>3
        <3>2. CASE Taken(s, p)'
            BY <3>1, <3>2 DEF Spared
        <3>3. CASE ~Taken(s, p)'
            <4>1. s = r
                BY <1>2, <1>4, <2>3, <3>3
            <4>2. Trail(p)' <= 1 + faults'
                BY <1>4, <2>1, <2>3, <3>3, <4>1
            <4> QED
                BY <4>2 DEF Spared
        <3> QED
            BY <3>2, <3>3
    <2> QED
        BY <2>1, <2>2, <2>3 DEF Spared
<1> QED
    BY <1>3, <1>4 DEF SparedInv

LEMMA NextChunkSpares ==
    ASSUME TypeOK, BatchInv, SparedInv, NEW r \in Runs, NextChunk(r) PROVE SparedInv'
<1>1. /\ Local(r) /\ pc[r] = "working" /\ lines' = lines /\ faults' = faults
      /\ \A p \in Papers : place[r][p] \in Untouched
    BY DEF NextChunk, In, Untouched, ledgerVars, bounds, TypeOK
<1>2. Quiet(r)
    BY DEF NextChunk, Quiet, BatchInv, BatchTypes, ledgerVars, bounds, Places
<1>3. PICK c \in Chunks(r) :
        place' = [place EXCEPT ![r] = [p \in Papers |-> IF p \in c THEN "chunk" ELSE @[p]]]
    BY DEF NextChunk
<1>4. \A p \in Papers : place'[r][p] = IF p \in c THEN "chunk" ELSE place[r][p]
    BY <1>3 DEF BatchInv, BatchTypes
<1>5. ASSUME NEW p \in Papers, p \in c
      PROVE  place[r][p] = "rest" \/ c = {p}
    BY <1>5 DEF Chunks, In
<1>6. ASSUME NEW p \in Papers PROVE Together(r, p)'
    <2>1. Trail(p)' = Trail(p) /\ (place[r][p] = "rest" => Trail(p) = 0)
        BY <1>1, <1>6 DEF Trail, SparedInv, Together, Good
    <2>2. CASE p \in c
        <3>1. place'[r][p] = "chunk"
            BY <1>4, <2>2
        <3>2. c = {p} => Alone(r, p)'
            BY <1>1, <1>4 DEF Alone, Beginning, Untouched
        <3> QED
            BY <1>1, <1>5, <2>1, <2>2, <3>1, <3>2 DEF Together, Taken
    <2>3. CASE p \notin c
        <3>1. place'[r][p] = place[r][p] /\ place[r][p] \in Untouched
            BY <1>1, <1>4, <2>3
        <3> QED
            BY <2>1, <3>1 DEF Together, Taken, Untouched
    <2> QED
        BY <2>2, <2>3
<1>7. \A p \in Papers : ~Taken(r, p)
    BY <1>1 DEF Taken
<1>8. faults \in Nat /\ faults' \in Nat /\ faults <= faults'
    BY <1>1, RunAssumption DEF TypeOK
<1> QED
    BY <1>2, <1>6, <1>7, <1>8, QuietSpares, QuietIsCalm

LEMMA SubmitSpares ==
    ASSUME TypeOK, BatchInv, SparedInv, NEW r \in Runs, NEW p \in Papers, Submit(r, p)
    PROVE  SparedInv'
<1>1. ~Local(r) /\ pc[r] = "working" /\ lines' = lines /\ faults' = faults
    BY DEF Submit, ledgerVars, bounds
<1>2. Quiet(r)
    BY DEF Submit, Goes, Quiet, BatchInv, BatchTypes, ledgerVars, Places
<1>3. \A q \in Papers : place'[r][q] = IF q = p THEN "begun" ELSE place[r][q]
    BY DEF Submit, Goes, BatchInv, BatchTypes
<1>4. ASSUME NEW q \in Papers PROVE Together(r, q)'
    <2>1. Together(r, q) /\ Trail(q)' = Trail(q)
        BY <1>1, <1>4 DEF SparedInv, Trail
    <2> QED
        BY <1>1, <1>3, <1>4, <2>1 DEF Together, Taken, Good
<1>5. \A q \in Papers : ~Taken(r, q)
    BY <1>1 DEF Taken
<1>6. faults \in Nat /\ faults' \in Nat /\ faults <= faults'
    BY <1>1, RunAssumption DEF TypeOK
<1> QED
    BY <1>2, <1>4, <1>5, <1>6, QuietSpares, QuietIsCalm

\* After a step that ends what was begun nothing is begun any more.
LEMMA VerdictsSpare ==
    ASSUME TypeOK, BatchInv, SparedInv, NEW r \in Runs, Calm(r), pc[r] = "working",
           faults' \in Nat, faults <= faults',
           \A p \in Papers : Local(r) => place'[r][p] \notin Beginning,
           \A p \in Papers : place'[r][p] # place[r][p] => place'[r][p] \notin {"chunk", "rest"},
           \A p \in Papers : Taken(r, p) => Taken(r, p)'
    PROVE  SparedInv'
<1>1. ASSUME NEW p \in Papers PROVE Together(r, p)'
    <2>1. Together(r, p) /\ Trail(p)' = Trail(p) /\ Good(r)
        BY <1>1 DEF SparedInv, Trail, Calm, Good
    <2>2. CASE Local(r)
        BY <1>1, <2>1, <2>2 DEF Together, Taken, Beginning
    <2>3. CASE ~Local(r)
        BY <1>1, <2>1, <2>3 DEF Together, Taken
    <2> QED
        BY <2>2, <2>3
<1>2. faults \in Nat
    BY RunAssumption DEF TypeOK
<1> QED
    BY <1>1, <1>2, QuietSpares

LEMMA ReturnsSpares ==
    ASSUME TypeOK, BatchInv, SparedInv, NEW r \in Runs, Returns(r) PROVE SparedInv'
<1>1. PICK back \in SUBSET In(r, {"begun"}) :
        /\ Local(r) => back = In(r, {"begun"})
        /\ \E outcome \in [back -> {"ok", "failed", "crash"}] :
            place' = [place EXCEPT ![r] = [p \in Papers |->
                         IF p \in back THEN outcome[p] ELSE @[p]]]
    BY DEF Returns
<1>2. PICK outcome \in [back -> {"ok", "failed", "crash"}] :
        place' = [place EXCEPT ![r] = [p \in Papers |->
                     IF p \in back THEN outcome[p] ELSE @[p]]]
    BY <1>1
<1>3. Quiet(r)
    BY <1>2 DEF Returns, Quiet, BatchInv, BatchTypes, ledgerVars, Places, Verdicts
<1>4. \A p \in Papers : /\ p \in back => place'[r][p] \in {"ok", "failed", "crash"}
                        /\ p \notin back => place'[r][p] = place[r][p]
    BY <1>2 DEF BatchInv, BatchTypes
<1>5. \A p \in Papers : Local(r) => place[r][p] # "chunk"
    BY DEF Returns, In
<1>6. \A p \in Papers : Local(r) => place'[r][p] \notin Beginning
    BY <1>1, <1>4, <1>5 DEF In, Beginning
<1>7. pc[r] = "working" /\ faults' \in Nat /\ faults <= faults'
    BY RunAssumption DEF Returns, bounds, TypeOK
<1>8. \A p \in Papers : Taken(r, p) => Taken(r, p)'
    BY <1>4 DEF Taken, Untouched
<1>9. \A p \in Papers : place'[r][p] # place[r][p] => place'[r][p] \notin {"chunk", "rest"}
    BY <1>4
<1> QED
    BY <1>3, <1>6, <1>7, <1>8, <1>9, VerdictsSpare, QuietIsCalm

LEMMA InterruptSpares ==
    ASSUME TypeOK, BatchInv, SparedInv, NEW r \in Runs, Interrupt(r) PROVE SparedInv'
<1>1. PICK fate \in [In(r, {"begun"}) -> Verdicts] :
        place' = [place EXCEPT ![r] = [p \in Papers |->
                     IF @[p] = "begun" THEN fate[p]
                     ELSE IF @[p] \in {"rest", "alone"} THEN "out" ELSE @[p]]]
    BY DEF Interrupt
<1>2. Quiet(r)
    BY <1>1 DEF Interrupt, In, Quiet, BatchInv, BatchTypes, ledgerVars, Places
<1>3. \A p \in Papers : /\ place[r][p] = "begun" => place'[r][p] \in Verdicts
                        /\ place[r][p] \in {"rest", "alone"} => place'[r][p] = "out"
                        /\ place[r][p] \notin {"begun", "rest", "alone"} =>
                              place'[r][p] = place[r][p]
    BY <1>1 DEF In, BatchInv, BatchTypes
<1>4. \A p \in Papers : place[r][p] # "chunk"
    BY DEF Interrupt, In
<1>5. \A p \in Papers : Local(r) => place'[r][p] \notin Beginning
    BY <1>3, <1>4 DEF Beginning, Verdicts
<1>6. pc[r] = "working" /\ faults' \in Nat /\ faults <= faults'
    BY RunAssumption DEF Interrupt, Fault, TypeOK
<1>7. \A p \in Papers : Taken(r, p) => Taken(r, p)'
    BY <1>3 DEF Taken, Untouched, Verdicts
<1>8. \A p \in Papers : place'[r][p] # place[r][p] => place'[r][p] \notin {"chunk", "rest"}
    BY <1>3 DEF Verdicts
<1> QED
    BY <1>2, <1>5, <1>6, <1>7, <1>8, VerdictsSpare, QuietIsCalm

LEMMA DeadlineSpares ==
    ASSUME TypeOK, BatchInv, SparedInv, NEW r \in Runs, Deadline(r) PROVE SparedInv'
<1>1. Quiet(r)
    BY DEF Deadline, Quiet, BatchInv, BatchTypes, ledgerVars, Places
<1>2. \A p \in Papers : place'[r][p] = IF place[r][p] \in {"rest", "alone"} THEN "out" ELSE place[r][p]
    BY DEF Deadline, BatchInv, BatchTypes
<1>3. \A p \in Papers : Local(r) => place[r][p] \in Untouched
    BY DEF Deadline, In, Untouched, TypeOK
<1>4. \A p \in Papers : Local(r) => place'[r][p] \notin Beginning
    BY <1>2, <1>3 DEF Untouched, Beginning
<1>5. pc[r] = "working" /\ faults' \in Nat /\ faults <= faults'
    BY RunAssumption DEF Deadline, Fault, TypeOK
<1>6. \A p \in Papers : Taken(r, p) => Taken(r, p)'
    BY <1>2 DEF Taken, Untouched
<1>7. \A p \in Papers : place'[r][p] # place[r][p] => place'[r][p] \notin {"chunk", "rest"}
    BY <1>2
<1> QED
    BY <1>1, <1>4, <1>5, <1>6, <1>7, VerdictsSpare, QuietIsCalm

LEMMA WriteExportSpares ==
    ASSUME TypeOK, BatchInv, SparedInv, NEW r \in Runs, NEW p \in Papers, WriteExport(r, p)
    PROVE  SparedInv'
<1>1. pc[r] = "working" /\ place[r][p] = "ok"
    BY DEF WriteExport, MayRecord
<1>2. \E to \in {"written", "crash"} : Goes(r, p, to)
    BY DEF WriteExport, WriteSucceeds, WriteFails
<1>3. PICK to \in {"written", "crash"} : Goes(r, p, to)
    BY <1>2
<1>4. Calm(r)
    BY <1>3 DEF WriteExport, Goes, Calm, BatchInv, BatchTypes, ledgerVars
<1>5. \A q \in Papers : place'[r][q] = IF q = p THEN to ELSE place[r][q]
    BY <1>3 DEF Goes, BatchInv, BatchTypes
<1>6. Local(r) => \A q \in Papers : place[r][q] \notin Beginning
    BY <1>1 DEF SparedInv, Together, Taken, Untouched
<1>7. \A q \in Papers : Local(r) => place'[r][q] \notin Beginning
    BY <1>5, <1>6 DEF Beginning
<1>8. faults' \in Nat /\ faults <= faults'
    BY <1>1, RunAssumption DEF WriteExport, WriteSucceeds, WriteFails, Fault, bounds, TypeOK
<1>9. \A q \in Papers : Taken(r, q) => Taken(r, q)'
    BY <1>5 DEF Taken, Untouched
<1>10. \A q \in Papers : place'[r][q] # place[r][q] => place'[r][q] \notin {"chunk", "rest"}
    BY <1>5
<1> QED
    BY <1>1, <1>4, <1>7, <1>8, <1>9, <1>10, VerdictsSpare

LEMMA LeavesSpares ==
    ASSUME TypeOK, BatchInv, SparedInv, NEW r \in Runs, Leaves(r), lines' = lines,
           faults' \in Nat, faults <= faults', \A s \in Runs \ {r} : s \in stale => s \in stale',
           \A p \in Papers \ Killers : Taken(r, p) => Trail(p) <= 1 + faults'
    PROVE  SparedInv'
<1>1. Calm(r)
    BY DEF Leaves, Calm, BatchInv, BatchTypes
<1>2. \A p \in Papers : place'[r][p] = "out"
    BY DEF Leaves, BatchInv, BatchTypes
<1>3. \A p \in Papers : Together(r, p)'
    BY <1>2 DEF Together, Taken, Untouched
<1>4. faults \in Nat
    BY RunAssumption DEF TypeOK
<1> QED
    BY <1>1, <1>3, <1>4, QuietSpares

LEMMA EndSpares ==
    ASSUME TypeOK, BatchInv, SparedInv, NEW r \in Runs, Busy(r) \/ End(r) PROVE SparedInv'
<1>1. Leaves(r) /\ lines' = lines /\ stale' = stale /\ faults' = faults /\ faults \in Nat
    BY RunAssumption DEF Busy, End, ledgerVars, bounds, TypeOK
<1>2. ASSUME NEW p \in Papers PROVE ~Taken(r, p)
    <2>1. CASE Busy(r)
        BY <1>2, <2>1, OnlyWorkersTake DEF Busy, Taken
    <2>2. CASE End(r)
        <3>1. place[r][p] = "out"
            BY <1>2, <2>2 DEF End, In, BatchInv, BatchTypes
        <3> QED
            BY <3>1 DEF Taken, Untouched
    <2> QED
        BY <2>1, <2>2
<1>3. faults' \in Nat /\ faults <= faults'
    BY <1>1
<1> QED
    BY <1>1, <1>2, <1>3, LeavesSpares

\* The paper that kills a run was begun: one that is alone in its chunk is not killed by it.
LEMMA KilledByPaperSpares ==
    ASSUME TypeOK, BatchInv, SparedInv, NEW r \in Runs, KilledByPaper(r) PROVE SparedInv'
<1>1. Leaves(r) /\ lines' = lines /\ stale' = stale /\ faults' = faults /\ faults \in Nat
    BY RunAssumption DEF KilledByPaper, ledgerVars, bounds, TypeOK
<1>2. ASSUME NEW p \in Papers \ Killers, Taken(r, p) PROVE Trail(p) <= 1 + faults'
    <2>1. PICK k \in Papers : place[r][k] = "begun" /\ k \in Killers
        BY DEF KilledByPaper, In
    <2>2. place[r][p] = "begun"
        BY <1>2, <2>1 DEF SparedInv, Together, Beginning
    <2>3. ~Alone(r, p)
        BY <1>2, <2>1 DEF Alone, Beginning
    <2>4. Trail(p) <= 1 /\ Trail(p) \in Nat
        BY <1>2, <2>2, <2>3, TrailNat DEF SparedInv, Together, Taken
    <2> QED
        BY <1>1, <2>4
<1>3. faults' \in Nat /\ faults <= faults'
    BY <1>1
<1> QED
    BY <1>1, <1>2, <1>3, LeavesSpares

LEMMA KilledSpares ==
    ASSUME TypeOK, BatchInv, SparedInv, NEW r \in Runs, Killed(r) PROVE SparedInv'
<1>1. Leaves(r) /\ lines' = lines /\ faults' = faults + 1 /\ faults \in Nat
    BY RunAssumption DEF Killed, AppendTorn, Fault, ledgerVars, TypeOK
<1>2. \A s \in Runs \ {r} : s \in stale => s \in stale'
    BY DEF Killed, Changes, ledgerVars
<1>3. ASSUME NEW p \in Papers \ Killers PROVE Trail(p) <= 1 + faults'
    <2>1. Trail(p) \in Nat /\ Spared(p)
        BY <1>3, TrailNat DEF SparedInv
    <2> QED
        BY <1>1, <2>1 DEF Spared
<1>4. faults' \in Nat /\ faults <= faults'
    BY <1>1
<1> QED
    BY <1>1, <1>2, <1>3, <1>4, LeavesSpares

\* Steps of a run that has no lock yet: what it may share a chunk with is planned, from a
\* ledger that is still the same.
LEMMA PlanSpares ==
    ASSUME TypeOK, BatchInv, SparedInv, NEW r \in Runs, pc[r] # "working", Calm(r), faults' = faults,
           \A p \in Papers : place'[r][p] \in Untouched,
           \A p \in Papers : Good(r)' /\ place'[r][p] = "rest" => Trail(p) = 0
    PROVE  SparedInv'
<1>1. ASSUME NEW p \in Papers PROVE Together(r, p)'
    <2>1. Trail(p)' = Trail(p)
        BY DEF Calm, Trail
    <2> QED
        BY <1>1, <2>1 DEF Together, Taken, Untouched
<1>2. \A p \in Papers : ~Taken(r, p)
    BY OnlyWorkersTake DEF Taken
<1>3. faults \in Nat /\ faults' \in Nat /\ faults <= faults'
    BY RunAssumption DEF TypeOK
<1> QED
    BY <1>1, <1>2, <1>3, QuietSpares

LEMMA PlannedRest ==
    ASSUME BatchInv, NEW m \in Modes, NEW p \in Papers, PlanOf(m)[p] = "rest" PROVE Trail(p) = 0
BY TrailOfFinished DEF PlanOf, Trail, BatchInv, BatchTypes

LEMMA BeginSpares ==
    ASSUME TypeOK, BatchInv, SparedInv, NEW r \in Runs, Begin(r) PROVE SparedInv'
<1>1. Calm(r) /\ faults' = faults /\ place' = place /\ pc[r] = "idle" /\ pc'[r] = "looked"
    BY DEF Begin, Calm, BatchInv, BatchTypes
<1>2. \A p \in Papers : place'[r][p] \in Untouched
    BY <1>1 DEF BatchInv, Progress
<1> QED
    BY <1>1, <1>2, PlanSpares DEF Good

LEMMA PlanStepSpares ==
    ASSUME TypeOK, BatchInv, SparedInv, NEW r \in Runs, Plan(r) PROVE SparedInv'
<1>1. Calm(r) /\ faults' = faults /\ pc[r] = "looked"
    BY DEF Plan, Calm, ledgerVars, bounds, BatchInv, BatchTypes
<1>2. place'[r] = PlanOf(mode[r]) /\ PlanOf(mode[r]) \in [Papers -> Untouched] /\ mode[r] \in Modes
    BY PlanTypes DEF Plan, BatchInv, BatchTypes
<1> QED
    BY <1>1, <1>2, PlannedRest, PlanSpares

LEMMA TakeLockSpares ==
    ASSUME TypeOK, BatchInv, SparedInv, NEW r \in Runs, TakeLock(r) PROVE SparedInv'
<1>1. Calm(r) /\ faults' = faults /\ pc[r] = "planned"
    BY DEF TakeLock, Calm, ledgerVars, bounds, BatchInv, BatchTypes
<1>2. /\ r \in stale => place'[r] = PlanOf(mode[r])
      /\ r \notin stale => place'[r] = place[r]
      /\ PlanOf(mode[r]) \in [Papers -> Untouched] /\ mode[r] \in Modes
    BY PlanTypes DEF TakeLock, BatchInv, BatchTypes
<1>3. \A p \in Papers : place[r][p] \in Untouched
    BY <1>1 DEF BatchInv, Progress
<1>4. ASSUME NEW p \in Papers, place'[r][p] = "rest" PROVE Trail(p) = 0
    BY <1>1, <1>2, <1>4, PlannedRest DEF SparedInv, Together, Good
<1> QED
    BY <1>1, <1>2, <1>3, <1>4, PlanSpares

-----------------------------------------------------------------------------
\* What the run with the lock appends for paper p leaves the plans of the others stale.
LEMMA OthersTogether ==
    ASSUME BatchInv, NEW r \in Runs, pc[r] = "working", Changes(r), pc' = pc,
           NEW s \in Runs \ {r}, place'[s] = place[s], NEW q \in Papers
    PROVE  Together(s, q)' /\ ~Taken(s, q)
<1>1. pc[s] # "working" /\ ~Good(s)'
    BY OthersAreStale
<1>2. place[s][q] \in Untouched
    BY <1>1 DEF BatchInv, Progress
<1> QED
    BY <1>1, <1>2 DEF Together, Taken, Untouched

LEMMA StartSpares ==
    ASSUME TypeOK, BatchInv, SparedInv, NEW r \in Runs, NEW p \in Papers, Start(r, p)
    PROVE  SparedInv'
<1> DEFINE line == StartLine(lines[p])
<1>1. /\ pc[r] = "working" /\ place[r][p] = "chunk" /\ Changes(r) /\ Together(r, p)
      /\ UNCHANGED <<pc, mode, lock, faults>> /\ lines[p] \in Seq(Line)
      /\ faults \in Nat
    BY RunAssumption DEF Start, bounds, SparedInv, BatchInv, BatchTypes, TypeOK
<1>2. line \in Line /\ IsStart(line)
    BY <1>1, AttemptsType DEF StartLine, Line, IsStart
<1>3. lines'[p] = Append(lines[p], line) /\ \A q \in Papers \ {p} : lines'[q] = lines[q]
    BY DEF Start, AppendLine, BatchInv, BatchTypes
<1> HIDE DEF line
<1>4. Trail(p)' = Trail(p) + 1 /\ Trail(p) \in Nat
    BY <1>1, <1>2, <1>3, TrailOfStart, TrailNat DEF Trail
<1>5. \A q \in Papers \ {p} : Trail(q)' = Trail(q)
    BY <1>3 DEF Trail
<1>6. /\ \A s \in Runs \ {r} : place'[s] = place[s]
      /\ place'[r][p] = "begun" /\ \A q \in Papers \ {p} : place'[r][q] = place[r][q]
    BY DEF Start, Goes, BatchInv, BatchTypes
<1>7. \A q \in Papers : Alone(r, q) => Alone(r, q)'
    BY <1>1, <1>6 DEF Alone, Beginning
<1>8. Together(r, p)' /\ Local(r)
    BY <1>1, <1>4, <1>6, <1>7 DEF Together, Taken
<1>9. ASSUME NEW q \in Papers \ {p} PROVE Together(r, q)'
    <2>1. Together(r, q) /\ place'[r][q] = place[r][q] /\ Trail(q)' = Trail(q)
        BY <1>5, <1>6, <1>9 DEF SparedInv
    <2>2. Good(r)
        BY <1>1 DEF Good
    <2>3. Taken(r, q) => place[r][q] = "begun"
        BY <1>1, <2>1 DEF Together, Beginning
    <2> QED
        BY <1>7, <1>9, <2>1, <2>2, <2>3 DEF Together, Taken
<1>10. \A s \in Runs, q \in Papers : Together(s, q)'
    BY <1>1, <1>6, <1>8, <1>9, OthersTogether
<1>11. \A s \in Runs \ {r}, q \in Papers : ~Taken(s, q)
    BY <1>1, <1>6, OthersTogether
<1>12. ASSUME NEW q \in Papers \ Killers PROVE Spared(q)'
    <2>1. CASE q = p
        <3>1. ~Taken(r, p)
            BY <1>1 DEF Taken
        <3>2. Trail(p) <= 1 + faults
            BY <1>11, <1>12, <2>1, <3>1 DEF SparedInv, Spared
        <3>3. Taken(r, p)'
            BY <1>6, <1>8 DEF Taken, Untouched
        <3>4. Trail(p)' <= 2 + faults'
            BY <1>1, <1>4, <3>2
        <3> QED
            BY <2>1, <3>3, <3>4 DEF Spared
    <2>2. CASE q # p
        <3>1. Spared(q) /\ Trail(q)' = Trail(q) /\ faults' = faults
            BY <1>1, <1>5, <1>12, <2>2 DEF SparedInv
        <3>2. \A s \in Runs : Taken(s, q) => Taken(s, q)'
            BY <1>6, <1>12, <2>2 DEF Taken
        <3> QED
            BY <3>1, <3>2 DEF Spared
    <2> QED
        BY <2>1, <2>2
<1> QED
    BY <1>10, <1>12 DEF SparedInv

LEMMA RecordSpares ==
    ASSUME TypeOK, BatchInv, SparedInv, NEW r \in Runs, NEW p \in Papers, Record(r, p)
    PROVE  SparedInv'
<1> DEFINE kind == IF place[r][p] = "written" THEN "ok" ELSE place[r][p]
           line == VerdictLine(lines[p], kind, Local(r))
<1>1. /\ pc[r] = "working" /\ place[r][p] \in {"written"} \cup (Verdicts \ {"ok"})
      /\ Changes(r) /\ UNCHANGED <<pc, mode, lock, faults>> /\ lines[p] \in Seq(Line)
      /\ faults \in Nat
    BY RunAssumption DEF Record, MayRecord, bounds, BatchInv, BatchTypes, TypeOK
<1>2. kind \in Verdicts /\ place[r][p] \notin Untouched \cup {"chunk"}
    BY <1>1 DEF Verdicts, Untouched
<1>3. line \in Line /\ ~IsStart(line)
    <2>1. line \in Line /\ line.kind = kind
        BY <1>2, VerdictAttempt
    <2> QED
        BY <1>2, <2>1 DEF IsStart, Verdicts
<1>4. lines'[p] = Append(lines[p], line) /\ \A q \in Papers \ {p} : lines'[q] = lines[q]
    BY DEF Record, AppendLine, BatchInv, BatchTypes
<1> HIDE DEF line
<1>5. Trail(p)' = 0
    BY <1>1, <1>3, <1>4, TrailOfVerdict DEF Trail
<1>6. \A q \in Papers \ {p} : Trail(q)' = Trail(q)
    BY <1>4 DEF Trail
<1>7. /\ \A s \in Runs \ {r} : place'[s] = place[s]
      /\ place'[r][p] = "out" /\ \A q \in Papers \ {p} : place'[r][q] = place[r][q]
    BY DEF Record, Goes, BatchInv, BatchTypes
<1>8. ASSUME NEW q \in Papers PROVE Together(r, q)'
    <2>1. CASE q = p
        BY <1>7, <2>1 DEF Together, Taken, Untouched
    <2>2. CASE q # p
        <3>1. Together(r, q) /\ place'[r][q] = place[r][q] /\ Trail(q)' = Trail(q) /\ Good(r)
            BY <1>1, <1>6, <1>7, <1>8, <2>2 DEF SparedInv, Good
        <3>2. Alone(r, q) => Alone(r, q)'
            BY <1>7 DEF Alone, Beginning
        <3>3. \A o \in Papers : place[r][o] \notin Beginning => place'[r][o] \notin Beginning
            BY <1>7 DEF Beginning
        <3> QED
            BY <1>8, <3>1, <3>2, <3>3 DEF Together, Taken
    <2> QED
        BY <2>1, <2>2
<1>9. \A s \in Runs, q \in Papers : Together(s, q)'
    BY <1>1, <1>7, <1>8, OthersTogether
<1>10. ASSUME NEW q \in Papers \ Killers PROVE Spared(q)'
    <2>1. CASE q = p
        <3>1. Trail(p)' <= 1 + faults'
            BY <1>1, <1>5
        <3> QED
            BY <2>1, <3>1 DEF Spared
    <2>2. CASE q # p
        <3>1. Spared(q) /\ Trail(q)' = Trail(q) /\ faults' = faults
            BY <1>1, <1>6, <1>10, <2>2 DEF SparedInv
        <3>2. \A s \in Runs : Taken(s, q) => Taken(s, q)'
            BY <1>7, <1>10, <2>2 DEF Taken
        <3> QED
            BY <3>1, <3>2 DEF Spared
    <2> QED
        BY <2>1, <2>2
<1> QED
    BY <1>9, <1>10 DEF SparedInv

-----------------------------------------------------------------------------
LEMMA InitSpares == Init => SparedInv
<1> SUFFICES ASSUME Init PROVE SparedInv
    OBVIOUS
<1>1. \A r \in Runs, p \in Papers : Together(r, p)
    BY DEF Init, Together, Good, Taken, Untouched
<1>2. ASSUME NEW p \in Papers PROVE Spared(p)
    <2>1. Trailing(<<>>) = {}
        BY DEF Trailing
    <2>2. Trail(p) = 0 /\ faults = 0
        BY <1>2, <2>1, FS_EmptySet DEF Init, LedgerInit, Trail
    <2> QED
        BY <2>2 DEF Spared
<1> QED
    BY <1>1, <1>2 DEF SparedInv

LEMMA NextSpares == ASSUME TypeOK, BatchInv, SparedInv, [Next]_vars PROVE SparedInv'
<1>1. CASE UNCHANGED vars
    BY <1>1 DEF vars, bounds, SparedInv, Together, Spared, Trail, Alone, Taken, Good
<1>2. ASSUME NEW r \in Runs, Works(r) PROVE SparedInv'
    BY <1>2, PlanStepSpares, TakeLockSpares, EndSpares, NextChunkSpares, ReturnsSpares,
       StartSpares, SubmitSpares, WriteExportSpares, RecordSpares DEF Works
<1> QED
    BY <1>1, <1>2, BeginSpares, InterruptSpares, DeadlineSpares, KilledByPaperSpares, KilledSpares
    DEF Next

\* A paper that never kills a run has at most one attempt in a row without a verdict, but
\* for kills from outside and the attempt that runs: after it was in a chunk that died it
\* is planned to run alone, also when the plan is made again under the lock.
THEOREM NeighboursSparedAlways == Spec => []NeighboursSpared
<1>1. ASSUME TypeOK, BatchInv, SparedInv PROVE NeighboursSpared
    <2> SUFFICES ASSUME NEW p \in Papers \ Killers
                 PROVE  Trail(p) <= 1 + faults +
                            Cardinality({r \in Runs : place[r][p] \notin Untouched \cup {"chunk"}})
        BY DEF NeighboursSpared, Trail, Trailing, Untouched
    <2> DEFINE busy == {r \in Runs : place[r][p] \notin Untouched \cup {"chunk"}}
    <2>1. faults \in Nat /\ Trail(p) \in Nat /\ Spared(p)
        BY <1>1, TrailNat, RunAssumption DEF TypeOK, SparedInv
    <2>2. busy \subseteq {lock}
        BY <1>1, OnlyWorkersTake
    <2>3. IsFiniteSet({lock}) /\ Cardinality({lock}) = 1
        BY FS_Singleton
    <2>4. Cardinality(busy) \in Nat
        BY <2>2, <2>3, FS_Subset, FS_CardinalityType
    <2>5. CASE Trail(p) <= 1 + faults
        BY <2>1, <2>4, <2>5
    <2>6. ASSUME NEW r \in Runs, Taken(r, p), Trail(p) <= 2 + faults
          PROVE  Trail(p) <= 1 + faults + Cardinality(busy)
        <3>1. r \in busy
            BY <2>6 DEF Taken
        <3>2. busy = {lock}
            BY <2>2, <3>1
        <3>3. Cardinality(busy) = 1
            BY <2>3, <3>2
        <3> QED
            BY <2>1, <2>6, <3>3
    <2> QED
        BY <2>1, <2>5, <2>6 DEF Spared
<1>2. Init => SparedInv
    BY InitSpares
<1>3. TypeOK /\ BatchInv /\ SparedInv /\ [Next]_vars => SparedInv'
    BY NextSpares
<1>4. TypeOK /\ BatchInv /\ SparedInv => NeighboursSpared
    BY <1>1
<1> QED
    BY <1>2, <1>3, <1>4, BatchInvHolds, TypeCorrect, PTL DEF Spec

=============================================================================
