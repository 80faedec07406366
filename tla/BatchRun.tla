------------------------------ MODULE BatchRun ------------------------------
(* batch/runner.py: runs of one batch on one out dir, again and again, some   *)
(* at the same time, some killed.  A run plans from the ledger, takes the     *)
(* lock, processes its papers, writes each export and then its verdict.       *)
EXTENDS Ledger

CONSTANTS
    Runs,         \* processes that start a run, time and again
    ExecutorOf,   \* "local" or "remote", per process
    SizeOf,       \* papers in a chunk (local) or in flight (remote), per process
    Killers,      \* papers that may kill a local run: out of memory, a native crash
    Fates,        \* what may become of a paper when it is processed, per paper
    NoRun,
    MaxFaults, MaxFlagged   \* bounds on the faults and flagged runs below

ASSUME RunAssumption ==
    /\ ExecutorOf \in [Runs -> {"local", "remote"}] /\ SizeOf \in [Runs -> Nat \ {0}]
    /\ Killers \subseteq Papers /\ NoRun \notin Runs
    /\ Fates \in [Papers -> SUBSET {"ok", "failed", "crash"}]
    /\ MaxFaults \in Nat /\ MaxFlagged \in Nat

VARIABLES
    pc,       \* where a run is
    mode,     \* its flags
    place,    \* where a paper is in a run
    stale,    \* the runs the ledger file has changed under since they looked at it
    lock,     \* who holds <out>/.lock
    export,   \* the attempt whose result is in <out>/<paper_id>.json, 0: no file
    faults,   \* runs killed from outside or stopped, and writes that failed
    flagged   \* runs with --retry-failed or --force

ledgerVars == <<lines, torn, stale>>
bounds == <<faults, flagged>>

\* Bound: one more fault.
Fault == faults < MaxFaults /\ faults' = faults + 1 /\ UNCHANGED flagged
vars == <<lines, torn, stale, pc, mode, place, lock, export, bounds>>

Steps == {"idle", "looked", "planned", "working"}
\* "rest" and "alone" are to run; "chunk" has no started line yet; "begun" is being
\* processed; then its verdict is known, and an ok one is "written" to its file first.
Places == {"out", "rest", "alone", "chunk", "begun", "written"} \cup Verdicts

In(r, places) == {p \in Papers : place[r][p] \in places}
Local(r) == ExecutorOf[r] = "local"
Goes(r, p, to) == place' = [place EXCEPT ![r][p] = to]

\* Every other run that has looked at the file finds it changed.
Changes(r) == stale' = stale \cup {s \in Runs \ {r} : pc[s] \in {"looked", "planned"}}

-----------------------------------------------------------------------------
(* Planning                                                                 *)

\* ledger_state = _file_state(...), before the ledger is read
Begin(r) ==
    /\ pc[r] = "idle" /\ pc' = [pc EXCEPT ![r] = "looked"]
    /\ \E m \in Modes :
          /\ m # "default" => flagged < MaxFlagged
          /\ mode' = [mode EXCEPT ![r] = m]
          /\ flagged' = IF m = "default" THEN flagged ELSE flagged + 1
    /\ stale' = stale \ {r}
    /\ UNCHANGED <<lines, torn, place, lock, export, faults>>

\* Mutant: a paper that may have killed the run shares its chunk again.
PlanTogether(m) == [p \in Papers |-> IF PicksUp(lines[p], m) THEN "rest" ELSE "out"]

\* A paper whose last attempt never finished runs alone.
PlanOf(m) == [p \in Papers |->
    IF ~PicksUp(lines[p], m) THEN "out"
    ELSE IF Unfinished(lines[p]) THEN "alone" ELSE "rest"]

Plan(r) ==
    /\ pc[r] = "looked" /\ pc' = [pc EXCEPT ![r] = "planned"]
    /\ place' = [place EXCEPT ![r] = PlanOf(mode[r])]
    /\ UNCHANGED <<ledgerVars, mode, lock, export, bounds>>

\* Mutant: the plan made before the lock is carried out whatever happened since.
TakeLockAsPlanned(r) ==
    /\ pc[r] = "planned" /\ lock = NoRun
    /\ lock' = r /\ pc' = [pc EXCEPT ![r] = "working"]
    /\ UNCHANGED <<ledgerVars, mode, place, export, bounds>>

\* A plan of another ledger is made again, under the lock.  An out dir whose filesystem
\* has no locks, where out_dir_lock only warns and the run goes on unguarded, is left out.
TakeLock(r) ==
    /\ pc[r] = "planned" /\ lock = NoRun
    /\ lock' = r /\ pc' = [pc EXCEPT ![r] = "working"]
    /\ place' = IF r \in stale THEN [place EXCEPT ![r] = PlanOf(mode[r])] ELSE place
    /\ UNCHANGED <<ledgerVars, mode, export, bounds>>

\* A run leaves, with what it did not get to.
Leaves(r) ==
    /\ pc' = [pc EXCEPT ![r] = "idle"] /\ mode' = [mode EXCEPT ![r] = "default"]
    /\ place' = [place EXCEPT ![r] = [p \in Papers |-> "out"]]
    /\ lock' = IF lock = r THEN NoRun ELSE lock

\* OutDirBusy
Busy(r) ==
    /\ pc[r] = "planned" /\ lock # NoRun /\ Leaves(r)
    /\ UNCHANGED <<ledgerVars, export, bounds>>

-----------------------------------------------------------------------------
(* Executing                                                                *)

\* Mutant: the papers to run alone are never run.
ChunksOfRest(r) == {c \in SUBSET In(r, {"rest"}) : c # {} /\ Cardinality(c) <= SizeOf[r]}

\* Local: the next chunk, once the one before is recorded; the papers alone come last.
Chunks(r) ==
    IF In(r, {"rest"}) # {}
    THEN {c \in SUBSET In(r, {"rest"}) :
             Cardinality(c) = SizeOf[r] \/ (c = In(r, {"rest"}) /\ Cardinality(c) < SizeOf[r])}
    ELSE {{p} : p \in In(r, {"alone"})}

NextChunk(r) ==
    /\ pc[r] = "working" /\ Local(r)
    /\ In(r, Places \ {"out", "rest", "alone"}) = {}
    /\ \E c \in Chunks(r) :
          place' = [place EXCEPT ![r] = [p \in Papers |-> IF p \in c THEN "chunk" ELSE @[p]]]
    /\ UNCHANGED <<ledgerVars, pc, mode, lock, export, bounds>>

\* on_chunk: a started line for each paper of the chunk, before it is processed
Start(r, p) ==
    /\ pc[r] = "working" /\ place[r][p] = "chunk"
    /\ AppendLine(p, StartLine(lines[p])) /\ Changes(r)
    /\ Goes(r, p, "begun")
    /\ UNCHANGED <<pc, mode, lock, export, bounds>>

\* Remote: another paper in flight, without a started line.
Submit(r, p) ==
    /\ pc[r] = "working" /\ ~Local(r) /\ place[r][p] \in {"rest", "alone"}
    /\ Cardinality(In(r, {"begun"})) < SizeOf[r]
    /\ Goes(r, p, "begun")
    /\ UNCHANGED <<ledgerVars, pc, mode, lock, export, bounds>>

\* The chunk returns with a result for each of its papers (or raises: all crash); a
\* remote paper comes back on its own.
Returns(r) ==
    /\ pc[r] = "working"
    /\ Local(r) => In(r, {"chunk"}) = {}
    /\ \E back \in (SUBSET In(r, {"begun"})) \ {{}} :
          /\ IF Local(r) THEN back = In(r, {"begun"})
                         ELSE Cardinality(back) = 1
          /\ \E outcome \in [back -> {"ok", "failed", "crash"}] :
                /\ \A p \in back : outcome[p] \in Fates[p]
                /\ place' = [place EXCEPT ![r] = [p \in Papers |->
                             IF p \in back THEN outcome[p] ELSE @[p]]]
    /\ UNCHANGED <<ledgerVars, pc, mode, lock, export, bounds>>

\* Ctrl-C or a refused token: what is being processed is interrupted (in flight it may
\* still finish), the rest is left for another run.
Interrupt(r) ==
    /\ pc[r] = "working" /\ Fault
    /\ In(r, {"begun"}) # {} /\ In(r, {"chunk"}) = {}
    /\ \E fate \in [In(r, {"begun"}) -> Verdicts] :
          /\ \A p \in DOMAIN fate :
                fate[p] = "interrupted" \/ (~Local(r) /\ fate[p] \in Fates[p])
          /\ place' = [place EXCEPT ![r] = [p \in Papers |->
                IF @[p] = "begun" THEN fate[p]
                ELSE IF @[p] \in {"rest", "alone"} THEN "out" ELSE @[p]]]
    /\ UNCHANGED <<ledgerVars, pc, mode, lock, export>>

\* --deadline or --limit: no more papers are taken up.
Deadline(r) ==
    /\ pc[r] = "working" /\ Fault
    /\ In(r, {"rest", "alone"}) # {}
    /\ Local(r) => In(r, Places \ {"out", "rest", "alone"}) = {}
    /\ place' = [place EXCEPT ![r] = [p \in Papers |->
                    IF @[p] \in {"rest", "alone"} THEN "out" ELSE @[p]]]
    /\ UNCHANGED <<ledgerVars, pc, mode, lock, export>>

-----------------------------------------------------------------------------
(* Recording                                                                *)

\* record(): the papers of a chunk one after the other
MayRecord(r, p) == pc[r] = "working" /\ In(r, {"written"}) \subseteq {p}

\* Mutant: a failed write is reported and the paper stays ok.
WriteFailsOk(r, p) == Fault /\ Goes(r, p, "written") /\ UNCHANGED export

\* A full disk, a permission: one paper's failure.
WriteFails(r, p) == Fault /\ Goes(r, p, "crash") /\ UNCHANGED export

WriteSucceeds(r, p) ==
    /\ export' = [export EXCEPT ![p] = VerdictLine(lines[p], "ok", Local(r)).attempt]
    /\ Goes(r, p, "written") /\ UNCHANGED bounds

WriteExport(r, p) ==
    /\ MayRecord(r, p) /\ place[r][p] = "ok"
    /\ WriteSucceeds(r, p) \/ WriteFails(r, p)
    /\ UNCHANGED <<ledgerVars, pc, mode, lock>>

Record(r, p) ==
    /\ MayRecord(r, p) /\ place[r][p] \in {"written"} \cup (Verdicts \ {"ok"})
    /\ LET kind == IF place[r][p] = "written" THEN "ok" ELSE place[r][p]
       IN AppendLine(p, VerdictLine(lines[p], kind, Local(r)))
    /\ Changes(r) /\ Goes(r, p, "out")
    /\ UNCHANGED <<pc, mode, lock, export, bounds>>

End(r) ==
    /\ pc[r] = "working" /\ In(r, Places \ {"out"}) = {}
    /\ Leaves(r) /\ UNCHANGED <<ledgerVars, export, bounds>>

-----------------------------------------------------------------------------
(* Death of a run: the OS releases its lock                                 *)

\* The paper being processed takes the run with it.
KilledByPaper(r) ==
    /\ pc[r] = "working" /\ Local(r) /\ In(r, {"chunk"}) = {}
    /\ In(r, {"begun"}) \cap Killers # {}
    /\ Leaves(r) /\ UNCHANGED <<ledgerVars, export, bounds>>

\* A kill from outside, or a write to the ledger that fails half way.
Killed(r) ==
    /\ pc[r] # "idle" /\ Fault
    /\ Leaves(r)
    /\ \/ UNCHANGED ledgerVars
       \/ /\ In(r, {"chunk", "written"} \cup (Verdicts \ {"ok"})) # {}
          /\ AppendTorn /\ Changes(r)
    /\ UNCHANGED export

-----------------------------------------------------------------------------
Init ==
    /\ LedgerInit /\ stale = {} /\ lock = NoRun
    /\ pc = [r \in Runs |-> "idle"] /\ mode = [r \in Runs |-> "default"]
    /\ place = [r \in Runs |-> [p \in Papers |-> "out"]]
    /\ export = [p \in Papers |-> 0]
    /\ faults = 0 /\ flagged = 0

\* What a run does of itself.
Works(r) ==
    \/ Plan(r) \/ TakeLock(r) \/ Busy(r) \/ NextChunk(r) \/ Returns(r) \/ End(r)
    \/ \E p \in Papers : Start(r, p) \/ Submit(r, p) \/ WriteExport(r, p) \/ Record(r, p)

Next == \E r \in Runs :
    \/ Begin(r) \/ Works(r)
    \/ Interrupt(r) \/ Deadline(r) \/ KilledByPaper(r) \/ Killed(r)

Spec == Init /\ [][Next]_vars

\* A run goes on until it ends or dies, and the same command is run again.
FairSpec == Spec /\ \A r \in Runs : WF_vars(Begin(r)) /\ WF_vars(Works(r))

-----------------------------------------------------------------------------
TypeOK ==
    /\ LedgerTypeOK
    /\ pc \in [Runs -> Steps] /\ mode \in [Runs -> Modes]
    /\ place \in [Runs -> [Papers -> Places]]
    /\ stale \subseteq Runs /\ lock \in Runs \cup {NoRun}
    /\ export \in [Papers -> Nat]
    /\ faults \in 0 .. MaxFaults /\ flagged \in 0 .. MaxFlagged

\* A paper the ledger calls ok, which later runs skip, has its export on disk, from
\* that attempt or a later one, wherever runs were killed in between.
OkHasExport ==
    \A p \in Papers : \A i \in DOMAIN lines[p] :
        lines[p][i].kind = "ok" => export[p] >= lines[p][i].attempt

\* A paper that kills its run takes its neighbours with it once: one that never kills
\* a run has at most one attempt in a row without a verdict, but for kills from outside.
NeighboursSpared ==
    \A p \in Papers \ Killers :
        LET h == lines[p]
        IN Cardinality({i \in DOMAIN h : \A j \in i .. Len(h) : IsStart(h[j])})
             <= 1 + faults + Cardinality({r \in Runs : place[r][p] \notin {"out", "rest", "alone", "chunk"}})

\* A result that is on the ledger is replaced by a --force run only, though another
\* run may have planned the paper before the ledger had it.
ResultsStand ==
    [][\A p \in Papers : export'[p] # export[p] /\ LatestIs(lines[p], {"ok"}) =>
          \E r \in Runs : mode[r] = "force" /\ lock = r]_vars

\* Re-running the same command finishes the batch: from some point on every paper is
\* done or waits for --retry-failed, also those that kill every run they are in.
BatchSettles == <>[](\A p \in Papers : ~PicksUp(lines[p], "default"))

=============================================================================
