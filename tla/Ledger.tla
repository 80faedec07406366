------------------------------- MODULE Ledger -------------------------------
(* batch/ledger.py: outcomes.jsonl, as the lines of each paper in file order  *)
(* (reading it never compares lines of two papers), and what a new run makes  *)
(* of them.                                                                   *)
EXTENDS Naturals, Sequences, FiniteSets

CONSTANTS Papers,
          MaxUnsettled   \* MAX_UNSETTLED_FAILURES

ASSUME LedgerAssumption == MaxUnsettled \in Nat \ {0}

VARIABLES
    lines,   \* the well-formed lines of a paper
    torn     \* the file ends in the middle of a line

\* "crash" stands for the codes of is_unsettled_failure, "interrupted" for
\* NEVER_RAN_CODES, "failed" for every other failure.
Verdicts == {"ok", "failed", "crash", "interrupted"}
Line == [kind : Verdicts \cup {"started"}, attempt : Nat \ {0}]
Modes == {"default", "retryFailed", "force"}

IsStart(line) == line.kind = "started"

\* The last attempt has no verdict: the run that made it was killed.
Unfinished(h) == h # <<>> /\ IsStart(h[Len(h)])

LatestIs(h, kinds) ==
    \E i \in DOMAIN h : /\ h[i].kind \in kinds
                        /\ \A j \in i + 1 .. Len(h) : IsStart(h[j])

HasVerdict(h) == \E i \in DOMAIN h : ~IsStart(h[i])

\* A verdict closes the attempt its started line opened.
Attempts(h) ==
    Cardinality({i \in DOMAIN h : IsStart(h[i]) \/ i = 1 \/ ~IsStart(h[i - 1])})

\* Crashes, outages and killed attempts since the last success.
Unsettled(h) ==
    Cardinality({i \in DOMAIN h :
        /\ \A j \in i .. Len(h) : h[j].kind # "ok"
        /\ \/ h[i].kind = "crash"
           \/ IsStart(h[i]) /\ (i = Len(h) \/ IsStart(h[i + 1]))})

RerunsByDefault(h) ==
    \/ LatestIs(h, {"interrupted"})
    \/ LatestIs(h, {"crash"}) /\ Unsettled(h) < MaxUnsettled

\* Does a run in this mode take the paper up?
PicksUp(h, mode) ==
    \/ mode = "force"
    \/ /\ ~LatestIs(h, {"ok"})
       /\ \/ mode = "retryFailed"
          \/ Unfinished(h) /\ Unsettled(h) < MaxUnsettled
          \/ ~Unfinished(h) /\ (~HasVerdict(h) \/ RerunsByDefault(h))

\* Mutant: an attempt is numbered like the one before it.
SameAttempt(h) == Attempts(h)

\* start, and the verdict of a paper with (local) or without (remote) a started line.
NextAttempt(h) == Attempts(h) + 1
StartLine(h) == [kind |-> "started", attempt |-> NextAttempt(h)]
VerdictLine(h, kind, started) ==
    [kind |-> kind, attempt |-> IF started THEN h[Len(h)].attempt ELSE NextAttempt(h)]

\* A line after a fragment begins with a newline of its own.
AppendLine(p, line) ==
    /\ lines' = [lines EXCEPT ![p] = Append(@, line)]
    /\ torn' = FALSE

\* The run dies in append: the line is a fragment, which no reader counts.
AppendTorn == torn' = TRUE /\ UNCHANGED lines

LedgerInit == lines = [p \in Papers |-> <<>>] /\ torn = FALSE

LedgerTypeOK == lines \in [Papers -> Seq(Line)] /\ torn \in BOOLEAN

=============================================================================
