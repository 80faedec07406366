--------------------------- MODULE Batching_proofs --------------------------
(***************************************************************************)
(* Proofs about Batching for any number of callers, of collectors and any  *)
(* batch size: a caller gets the result of its own item, and the error of  *)
(* its own item only in a GpuBatcher; a batch holds callers, never the     *)
(* stop mark, and no more of them than max_batch_size.                     *)
(*                                                                         *)
(* A batch is filtered when it is called, so who is in it and in what      *)
(* place is what Active makes of what Gather took off the queue; the first *)
(* section is about these two.                                             *)
(***************************************************************************)
EXTENDS Batching, FiniteSetTheorems, SequenceTheorems, WellFoundedInduction, TLAPS

Entries == Callers \cup {Stop}
Phases == {"none", "waiting", "gathering", "calling", "alone", "ended", "cancelled"}
Futures == {"none", "refused", "pending", "cancelled", "result", "error"}

BatchTypes ==
    /\ kind \in {"gpu", "inference"} /\ gen \in 0 .. MaxGenerations
    /\ collector \in [Generations -> Phases]
    /\ queue \in [Generations -> Seq(Entries)] /\ batch \in [Generations -> Seq(Callers)]
    /\ future \in [Callers -> Futures] /\ got \in [Callers -> Callers \cup {NoOne}]

\* A collector reruns the items of a batch one by one as long as there are any.
Fits(g) == Len(batch[g]) <= MaxBatch /\ (collector[g] = "alone" => batch[g] # <<>>)

BatchInv == BatchTypes /\ (\A g \in Generations : Fits(g)) /\ OwnAnswer

-----------------------------------------------------------------------------
(* Who is in a batch.                                                       *)

LEMMA MinOfNaturals ==
    ASSUME NEW S \in SUBSET Nat, S # {}
    PROVE  Min(S) \in S /\ \A n \in S : Min(S) <= n
<1>1. \E m \in S : \A n \in S : <<n, m>> \notin OpToRel(<, Nat)
    BY WFMin, NatLessThanWellFounded, Zenon
<1>2. PICK m \in S : \A n \in S : <<n, m>> \notin OpToRel(<, Nat)
    BY <1>1, Zenon
<1>3. \A n \in S : ~ (n < m)
    BY <1>2, Zenon DEF OpToRel
<1>4. \A n \in S : m <= n
    BY <1>3
<1> QED
    BY <1>4 DEF Min

\* The entries in front of the stop mark are callers.
LEMMA ReadyProperties ==
    ASSUME BatchTypes, NEW g \in Generations, NEW room \in Nat
    PROVE  Ready(g, room) \in Seq(Callers) /\ Len(Ready(g, room)) <= room
                /\ Len(Ready(g, room)) <= Len(queue[g])
<1> DEFINE marks == {i \in DOMAIN queue[g] : queue[g][i] = Stop}
           n == IF marks = {} THEN Len(queue[g]) ELSE Min(marks) - 1
           m == Min({n, room})
<1>1. queue[g] \in Seq(Entries) /\ Len(queue[g]) \in Nat /\ DOMAIN queue[g] = 1 .. Len(queue[g])
    BY DEF BatchTypes
<1>2. n \in 0 .. Len(queue[g]) /\ \A i \in 1 .. n : queue[g][i] # Stop
    <2>1. CASE marks = {}
        <3>1. \A i \in 1 .. Len(queue[g]) : i \notin marks
            BY <2>1
        <3> QED
            BY <1>1, <2>1, <3>1
    <2>2. CASE marks # {}
        <3>1. marks \in SUBSET Nat
            BY <1>1
        <3>2. Min(marks) \in marks /\ \A i \in marks : Min(marks) <= i
            BY <2>2, <3>1, MinOfNaturals
        <3> HIDE DEF marks
        <3>3. n = Min(marks) - 1
            BY <2>2
        <3>4. Min(marks) \in 1 .. Len(queue[g])
            BY <1>1, <3>2 DEF marks
        <3> HIDE DEF n
        <3>5. \A i \in 1 .. n : i \notin marks
            BY <3>2, <3>3, <3>4
        <3>6. n \in 0 .. Len(queue[g])
            BY <1>1, <3>3, <3>4
        <3> QED
            BY <1>1, <3>5, <3>6 DEF marks
    <2> QED
        BY <2>1, <2>2
<1> HIDE DEF n
<1>3. m \in 0 .. n /\ m <= room
    BY <1>2, MinOfNaturals
<1>4. Ready(g, room) = SubSeq(queue[g], 1, m)
    BY DEF Ready, n
<1> HIDE DEF m
<1>5. \A i \in 1 .. m : queue[g][i] \in Callers
    BY <1>1, <1>2, <1>3 DEF Entries
<1>6. SubSeq(queue[g], 1, m) \in Seq(Callers) /\ Len(SubSeq(queue[g], 1, m)) = m
    BY <1>3, <1>5, SubSeqProperties
<1> QED
    BY <1>2, <1>3, <1>4, <1>6

Waits(entries) == {i \in DOMAIN entries : Pending(entries[i])}
Before(entries, i) == {j \in Waits(entries) : j <= i}
Rank(entries, i) == Cardinality(Before(entries, i))

\* The places of those who wait are numbered 1, 2, ... in their order.
LEMMA RanksAreDense ==
    ASSUME NEW s \in Seq(Callers)
    PROVE  /\ IsFiniteSet(Waits(s)) /\ Cardinality(Waits(s)) \in 0 .. Len(s)
           /\ \A k \in 1 .. Cardinality(Waits(s)) : \E i \in Waits(s) : Rank(s, i) = k
<1> DEFINE W == Waits(s)
           n == Cardinality(W)
           P == {Rank(s, i) : i \in W}
           f == [i \in W |-> Rank(s, i)]
<1>0. \A m \in Nat : IsFiniteSet(1 .. m) /\ Cardinality(1 .. m) = m
    <2> TAKE m \in Nat
    <2>1. IsFiniteSet(1 .. m) /\ Cardinality(1 .. m) = IF 1 > m THEN 0 ELSE m - 1 + 1
        BY FS_Interval
    <2> QED
        BY <2>1
<1>1. Len(s) \in Nat /\ IsFiniteSet(1 .. Len(s)) /\ Cardinality(1 .. Len(s)) = Len(s)
    BY <1>0
<1>2. W \in SUBSET (1 .. Len(s))
    BY DEF Waits
<1>3. IsFiniteSet(W) /\ n \in Nat /\ n <= Len(s)
    BY <1>1, <1>2, FS_Subset, FS_CardinalityType
<1>4. ASSUME NEW i \in W PROVE Before(s, i) \in SUBSET W /\ IsFiniteSet(Before(s, i)) /\ Rank(s, i) \in 1 .. n
    <2>1. Before(s, i) \in SUBSET W /\ i \in Before(s, i)
        BY <1>2, <1>4 DEF Before
    <2>2. /\ IsFiniteSet(Before(s, i)) /\ Rank(s, i) \in Nat /\ Rank(s, i) <= n
        BY <1>3, <2>1, FS_Subset, FS_CardinalityType DEF Rank
    <2>3. Rank(s, i) # 0
        BY <2>1, <2>2, FS_EmptySet DEF Rank
    <2> QED
        BY <1>3, <2>1, <2>2, <2>3
<1>5. ASSUME NEW i \in W, NEW j \in W, i < j PROVE Rank(s, i) # Rank(s, j)
    <2>1. Before(s, i) \in SUBSET Before(s, j) /\ j \in Before(s, j) /\ j \notin Before(s, i)
        BY <1>2, <1>5 DEF Before
    <2>2. IsFiniteSet(Before(s, j))
        BY <1>4
    <2> QED
        BY <2>1, <2>2, FS_Subset DEF Rank
<1>6. \A i, j \in W : Rank(s, i) = Rank(s, j) => i = j
    BY <1>2, <1>5
<1>7. f \in Bijection(W, P)
    BY <1>6 DEF Bijection, Injection, Surjection, IsInjective
<1>8. IsFiniteSet(P) /\ Cardinality(P) = n
    BY <1>3, <1>7, FS_Bijection DEF ExistsBijection
<1>9. IsFiniteSet(1 .. n) /\ Cardinality(1 .. n) = n /\ P \in SUBSET (1 .. n)
    BY <1>0, <1>3, <1>4
<1>10. P = 1 .. n
    BY <1>8, <1>9, FS_Subset
<1> QED
    BY <1>3, <1>10

\* The filter of _run_batch keeps some of the entries, each of which still waits.
LEMMA ActiveProperties ==
    ASSUME NEW s \in Seq(Callers)
    PROVE  /\ Active(s) \in Seq(Callers) /\ Len(Active(s)) <= Len(s)
           /\ Range(Active(s)) \subseteq Range(s)
<1> DEFINE n == Cardinality(Waits(s))
           nth(k) == CHOOSE i \in Waits(s) : Rank(s, i) = k
<1>1. Active(s) = [k \in 1 .. n |-> s[nth(k)]]
    BY DEF Active, Waits, Before, Rank
<1>2. n \in 0 .. Len(s) /\ Len(s) \in Nat
    BY RanksAreDense
<1>3. \A k \in 1 .. n : nth(k) \in Waits(s)
    BY RanksAreDense
<1> HIDE DEF nth
<1>4. \A k \in 1 .. n : nth(k) \in DOMAIN s /\ s[nth(k)] \in Callers
    BY <1>3 DEF Waits
<1>5. n \in Nat /\ n <= Len(s)
    BY <1>2
<1> HIDE DEF n
<1>6. Active(s) \in Seq(Callers) /\ Len(Active(s)) = n
    BY <1>1, <1>4, <1>5, IsASeq
<1>7. Range(Active(s)) \subseteq Range(s)
    BY <1>1, <1>4 DEF Range
<1> QED
    BY <1>5, <1>6, <1>7

-----------------------------------------------------------------------------
(* The steps.                                                               *)

\* What has been given to a caller, and what a GpuBatcher failed.
Answer(c) ==
    /\ got[c] = IF future[c] = "result" THEN c ELSE NoOne
    /\ kind = "gpu" /\ future[c] = "error" => c \in Poison

\* A step that gives no results, and no errors of a GpuBatcher but to those it rejects.
LEMMA NoResults ==
    ASSUME OwnAnswer, kind' = kind, got' = got,
           \A c \in Callers : future'[c] # future[c] =>
                future[c] # "result" /\ future'[c] # "result"
                    /\ (kind = "gpu" /\ future'[c] = "error" => c \in Poison)
    PROVE  OwnAnswer'
BY DEF OwnAnswer

\* A result for those of the entries who wait: each has its own.
LEMMA ScatterIsOwn ==
    ASSUME OwnAnswer, kind' = kind, NEW entries, Resolve(Range(entries), "result"),
           got' = Scatter(entries, entries)
    PROVE  OwnAnswer'
<1> SUFFICES ASSUME NEW c \in Callers PROVE Answer(c)'
    BY DEF OwnAnswer, Answer
<1>1. Answer(c)
    BY DEF OwnAnswer, Answer
<1>2. CASE Pending(c) /\ c \in Range(entries)
    <2>1. \E i \in DOMAIN entries : entries[i] = c
        BY <1>2 DEF Range
    <2>2. entries[CHOOSE i \in DOMAIN entries : entries[i] = c] = c
        BY <2>1
    <2>3. got'[c] = c /\ future'[c] = "result"
        BY <1>2, <2>1, <2>2 DEF Scatter, Resolve
    <2> QED
        BY <2>3 DEF Answer
<1>3. CASE ~(Pending(c) /\ c \in Range(entries))
    <2>1. got'[c] = got[c] /\ future'[c] = future[c]
        BY <1>3 DEF Scatter, Resolve, Range
    <2> QED
        BY <1>1, <2>1 DEF Answer
<1> QED
    BY <1>2, <1>3

LEMMA ResolveTypes ==
    ASSUME BatchTypes, NEW cs, NEW to \in Futures, Resolve(cs, to)
    PROVE  /\ future' \in [Callers -> Futures]
           /\ \A c \in Callers : future'[c] # future[c] =>
                    c \in cs /\ future[c] = "pending" /\ future'[c] = to
BY DEF BatchTypes, Resolve, Pending

LEMMA ScatterTypes ==
    ASSUME BatchTypes, NEW entries, Range(entries) \subseteq Callers, got' = Scatter(entries, entries)
    PROVE  got' \in [Callers -> Callers \cup {NoOne}]
<1>1. ASSUME NEW c \in Callers PROVE Scatter(entries, entries)[c] \in Callers \cup {NoOne}
    <2>1. CASE \E i \in DOMAIN entries : entries[i] = c
        <3>1. entries[CHOOSE i \in DOMAIN entries : entries[i] = c] = c
            BY <2>1
        <3> QED
            BY <1>1, <3>1 DEF Scatter, BatchTypes
    <2>2. CASE ~\E i \in DOMAIN entries : entries[i] = c
        BY <1>1, <2>2 DEF Scatter, BatchTypes
    <2> QED
        BY <2>1, <2>2
<1> QED
    BY <1>1 DEF Scatter

LEMMA CollectorGoesOn == ASSUME BatchTypes, NEW g \in Generations
    PROVE  /\ Onward(g) \in [Generations -> Phases] /\ Onward(g)[g] # "alone"
           /\ \A h \in Generations \ {g} : Onward(g)[h] = collector[h]
BY DEF BatchTypes, Onward, Phases

LEMMA SubmitSteps ==
    ASSUME BatchInv, NEW c \in Callers, Submit(c) PROVE BatchInv'
<1> USE BatchingAssumption DEF BatchInv, BatchTypes, Generations
<1>1. kind' = kind /\ got' = got /\ batch' = batch /\ future[c] = "none"
    BY DEF Submit, own
<1>2. CASE closed
    <2>1. /\ UNCHANGED <<gen, collector, queue>> /\ future' \in [Callers -> Futures]
          /\ \A d \in Callers : future'[d] # future[d] => d = c /\ future'[d] = "refused"
        BY <1>2 DEF Submit, own, Futures
    <2>2. OwnAnswer'
        BY <1>1, <2>1, NoResults
    <2> QED
        BY <1>1, <2>1, <2>2 DEF Fits
<1>3. CASE ~closed
    <2>1. PICK g \in Generations :
            /\ gen' = g
            /\ collector' = IF Running THEN collector ELSE [collector EXCEPT ![g] = "waiting"]
            /\ queue' = [queue EXCEPT ![g] = Append(@, c)]
            /\ future' = [future EXCEPT ![c] = "pending"]
        BY <1>3 DEF Submit
    <2>2. /\ collector' \in [Generations -> Phases] /\ future' \in [Callers -> Futures]
          /\ gen' \in 0 .. MaxGenerations
        BY <2>1 DEF Phases, Futures
    <2>3. queue' \in [Generations -> Seq(Entries)]
        BY <2>1, AppendProperties DEF Entries
    <2>4. \A h \in Generations : Fits(h)'
        BY <1>1, <2>1 DEF Fits
    <2>5. OwnAnswer'
        BY <1>1, <2>1, NoResults
    <2> QED
        BY <1>1, <2>2, <2>3, <2>4, <2>5
<1> QED
    BY <1>2, <1>3

LEMMA GivesUpSteps ==
    ASSUME BatchInv, NEW c \in Callers, GivesUp(c) PROVE BatchInv'
<1>1. BatchTypes'
    BY DEF BatchInv, BatchTypes, GivesUp, own, Futures
<1>2. OwnAnswer'
    BY NoResults DEF BatchInv, BatchTypes, GivesUp, Pending
<1>3. \A g \in Generations : Fits(g)'
    BY DEF BatchInv, GivesUp, own, Fits
<1> QED
    BY <1>1, <1>2, <1>3 DEF BatchInv

LEMMA GatherSteps ==
    ASSUME BatchInv, NEW g \in Generations, Gather(g) PROVE BatchInv'
<1> DEFINE room == MaxBatch - Len(batch[g])
           taken == Ready(g, room)
           from == Len(taken) + 1 + (IF MeetsStop(g, room) THEN 1 ELSE 0)
<1>1. /\ BatchTypes /\ OwnAnswer /\ batch[g] \in Seq(Callers) /\ queue[g] \in Seq(Entries)
      /\ room \in Nat /\ Len(batch[g]) \in Nat
    BY BatchingAssumption DEF BatchInv, BatchTypes, Gather
<1>2. taken \in Seq(Callers) /\ Len(taken) <= room /\ Len(taken) <= Len(queue[g])
    BY <1>1, ReadyProperties
<1>3. /\ batch' = [batch EXCEPT ![g] = @ \o taken]
      /\ queue' = [queue EXCEPT ![g] = SubSeq(@, from, Len(@))]
      /\ collector' = [collector EXCEPT ![g] = "gathering"]
      /\ UNCHANGED <<kind, gen, future, got>>
    BY DEF Gather, Gathering, answers
<1>4. batch[g] \o taken \in Seq(Callers) /\ Len(batch[g] \o taken) = Len(batch[g]) + Len(taken)
    BY <1>1, <1>2, ConcatProperties
<1>5. SubSeq(queue[g], from, Len(queue[g])) \in Seq(Entries)
    <2>1. from \in Nat \ {0} /\ Len(queue[g]) \in Nat
        BY <1>1, <1>2
    <2> HIDE DEF from
    <2>2. \A i \in from .. Len(queue[g]) : queue[g][i] \in Entries
        BY <1>1, <2>1
    <2> QED
        BY <2>1, <2>2, SubSeqProperties
<1> HIDE DEF taken, from
<1>6. Len(batch[g]) + Len(taken) <= MaxBatch
    <2>1. Len(taken) \in Nat /\ MaxBatch \in Nat
        BY <1>2, BatchingAssumption
    <2> QED
        BY <1>1, <1>2, <2>1
<1> HIDE DEF room
<1>7. BatchTypes'
    BY <1>1, <1>3, <1>4, <1>5 DEF BatchTypes, Phases
<1>8. \A h \in Generations : Fits(h)'
    BY <1>1, <1>3, <1>4, <1>6 DEF BatchInv, BatchTypes, Fits
<1>9. OwnAnswer'
    BY <1>1, <1>3 DEF OwnAnswer
<1> QED
    BY <1>7, <1>8, <1>9 DEF BatchInv

LEMMA CallSteps ==
    ASSUME BatchInv, NEW g \in Generations, Call(g) PROVE BatchInv'
<1>1. /\ BatchTypes /\ OwnAnswer /\ batch[g] \in Seq(Callers) /\ Fits(g)
      /\ UNCHANGED <<kind, gen, queue, future, got>>
    BY DEF BatchInv, BatchTypes, Call, answers
<1>2. Active(batch[g]) \in Seq(Callers) /\ Len(Active(batch[g])) <= Len(batch[g])
    BY <1>1, ActiveProperties
<1>3. batch' = [batch EXCEPT ![g] = Active(@)]
    BY DEF Call
<1>4. /\ collector' \in [Generations -> Phases] /\ collector'[g] # "alone"
      /\ \A h \in Generations \ {g} : collector'[h] = collector[h]
    BY <1>1, CollectorGoesOn DEF Call, BatchTypes, Phases
<1>5. BatchTypes'
    BY <1>1, <1>2, <1>3, <1>4 DEF BatchTypes
<1>6. Len(Active(batch[g])) <= MaxBatch
    BY <1>1, <1>2, BatchingAssumption DEF Fits
<1>7. \A h \in Generations : Fits(h)'
    BY <1>1, <1>3, <1>4, <1>6 DEF BatchInv, BatchTypes, Fits
<1>8. OwnAnswer'
    BY <1>1 DEF OwnAnswer
<1> QED
    BY <1>5, <1>7, <1>8 DEF BatchInv

\* A batch that is done with.
LEMMA DoneSteps ==
    ASSUME BatchInv, NEW g \in Generations, Done(g), UNCHANGED <<kind, gen, queue>>,
           future' \in [Callers -> Futures], got' \in [Callers -> Callers \cup {NoOne}], OwnAnswer'
    PROVE  BatchInv'
<1>1. BatchTypes /\ batch' = [batch EXCEPT ![g] = <<>>]
    BY DEF BatchInv, Done
<1>2. /\ collector' \in [Generations -> Phases] /\ collector'[g] # "alone"
      /\ \A h \in Generations \ {g} : collector'[h] = collector[h]
    BY <1>1, CollectorGoesOn DEF Done
<1>3. BatchTypes'
    <2>1. <<>> \in Seq(Callers)
        OBVIOUS
    <2>2. batch' \in [Generations -> Seq(Callers)]
        BY <1>1, <2>1 DEF BatchTypes
    <2> QED
        BY <1>1, <1>2, <2>2 DEF BatchTypes
<1>4. \A h \in Generations : Fits(h)'
    BY <1>1, <1>2, BatchingAssumption DEF BatchInv, BatchTypes, Fits
<1> QED
    BY <1>3, <1>4 DEF BatchInv

LEMMA CallSucceedsSteps ==
    ASSUME BatchInv, NEW g \in Generations, CallSucceeds(g) PROVE BatchInv'
<1>1. /\ Resolve(Range(batch[g]), "result") /\ got' = Scatter(batch[g], batch[g]) /\ Done(g)
      /\ UNCHANGED <<kind, gen, queue>> /\ BatchTypes /\ OwnAnswer /\ "result" \in Futures
    BY DEF CallSucceeds, BatchInv, Futures
<1>2. Range(batch[g]) \subseteq Callers
    BY <1>1 DEF BatchTypes, Range
<1>3. future' \in [Callers -> Futures] /\ got' \in [Callers -> Callers \cup {NoOne}]
    BY <1>1, <1>2, ResolveTypes, ScatterTypes
<1>4. OwnAnswer'
    BY <1>1, ScatterIsOwn
<1> QED
    BY <1>1, <1>3, <1>4, DoneSteps

\* A GpuBatcher fails one item at a time: the batch of one that failed is rejected.
LEMMA CallFailsSteps ==
    ASSUME BatchInv, NEW g \in Generations, CallFails(g) PROVE BatchInv'
<1>1. /\ UNCHANGED <<kind, gen, queue, got>> /\ BatchTypes /\ OwnAnswer /\ "error" \in Futures
      /\ batch[g] \in Seq(Callers) /\ Len(batch[g]) \in Nat
    BY DEF CallFails, BatchInv, BatchTypes, Futures
<1>2. CASE FailsAsOne(g)
    <2>1. Resolve(Range(batch[g]), "error") /\ Done(g)
        BY <1>2 DEF CallFails
    <2>2. /\ future' \in [Callers -> Futures]
          /\ \A c \in Callers : future'[c] # future[c] =>
                c \in Range(batch[g]) /\ future[c] = "pending" /\ future'[c] = "error"
        BY <1>1, <2>1, ResolveTypes
    <2>3. ASSUME NEW c \in Range(batch[g]), kind = "gpu" PROVE c \in Poison
        <3>1. Len(batch[g]) = 1
            BY <1>2, <2>3 DEF FailsAsOne
        <3>2. PICK d \in Range(batch[g]) : d \in Poison
            BY <1>1, <3>1 DEF CallFails
        <3>3. DOMAIN batch[g] = {1}
            BY <1>1, <3>1
        <3> QED
            BY <2>3, <3>2, <3>3 DEF Range
    <2>4. OwnAnswer'
        BY <1>1, <2>2, <2>3, NoResults
    <2>5. got' \in [Callers -> Callers \cup {NoOne}]
        BY <1>1 DEF BatchTypes
    <2> QED
        BY <1>1, <2>1, <2>2, <2>4, <2>5, DoneSteps
<1>3. CASE ~FailsAsOne(g)
    <2>1. collector' = [collector EXCEPT ![g] = "alone"] /\ UNCHANGED <<future, batch>>
        BY <1>3 DEF CallFails
    <2>2. batch[g] # <<>>
        <3>1. CASE batch[g] = <<>>
            BY <3>1 DEF CallFails, Range
        <3> QED
            BY <3>1
    <2>3. BatchTypes'
        BY <1>1, <2>1 DEF BatchTypes, Phases
    <2>4. \A h \in Generations : Fits(h)'
        BY <2>1, <2>2 DEF BatchInv, BatchTypes, Fits
    <2>5. OwnAnswer'
        BY <1>1, <2>1 DEF OwnAnswer
    <2> QED
        BY <2>3, <2>4, <2>5 DEF BatchInv
<1> QED
    BY <1>2, <1>3

LEMMA AloneSteps ==
    ASSUME BatchInv, NEW g \in Generations, Alone(g) PROVE BatchInv'
<1> DEFINE c == Head(batch[g])
           to == IF c \in Poison THEN "error" ELSE "result"
<1>1. /\ UNCHANGED <<kind, gen, queue>> /\ BatchTypes /\ OwnAnswer /\ to \in Futures
      /\ batch[g] \in Seq(Callers) /\ batch[g] # <<>> /\ Len(batch[g]) <= MaxBatch
    BY DEF Alone, BatchInv, BatchTypes, Fits, Futures
<1>2. /\ c \in Callers /\ Tail(batch[g]) \in Seq(Callers)
      /\ Len(Tail(batch[g])) = Len(batch[g]) - 1 /\ Len(batch[g]) \in Nat
    BY <1>1, HeadTailProperties
<1>3. /\ Resolve({c}, to) /\ batch' = [batch EXCEPT ![g] = Tail(@)]
      /\ got' = IF c \in Poison THEN got ELSE Scatter(<<c>>, <<c>>)
    BY DEF Alone
<1> HIDE DEF c
<1>4. Range(<<c>>) = {c}
    BY DEF Range
<1>5. got' \in [Callers -> Callers \cup {NoOne}]
    <2>1. Range(<<c>>) \subseteq Callers
        BY <1>2, <1>4
    <2> QED
        BY <1>1, <1>3, <2>1, ScatterTypes DEF BatchTypes
<1>6. /\ future' \in [Callers -> Futures]
      /\ \A d \in Callers : future'[d] # future[d] => d = c /\ future[d] = "pending" /\ future'[d] = to
    <2> HIDE DEF to
    <2> QED
        BY <1>1, <1>3, ResolveTypes
<1>7. OwnAnswer'
    <2>1. CASE c \in Poison
        BY <1>1, <1>3, <1>6, <2>1, NoResults
    <2>2. CASE c \notin Poison
        BY <1>1, <1>3, <1>4, <2>2, ScatterIsOwn
    <2> QED
        BY <2>1, <2>2
<1>8. /\ collector' \in [Generations -> Phases]
      /\ \A h \in Generations \ {g} : collector'[h] = collector[h]
      /\ Len(batch[g]) = 1 => collector'[g] # "alone"
    BY <1>1, CollectorGoesOn DEF Alone, BatchTypes
<1>9. BatchTypes'
    BY <1>1, <1>2, <1>3, <1>5, <1>6, <1>8 DEF BatchTypes
<1>10. Len(Tail(batch[g])) <= MaxBatch /\ (Len(batch[g]) # 1 => Tail(batch[g]) # <<>>)
    <2>1. MaxBatch \in Nat /\ Len(batch[g]) <= MaxBatch
        BY <1>1, BatchingAssumption
    <2>2. Len(Tail(batch[g])) <= MaxBatch
        BY <1>2, <2>1
    <2>3. ASSUME Tail(batch[g]) = <<>> PROVE Len(batch[g]) = 1
        <3>1. Len(Tail(batch[g])) = 0
            BY <1>2, <2>3, EmptySeq
        <3> QED
            BY <1>2, <3>1
    <2> QED
        BY <2>2, <2>3
<1>11. \A h \in Generations : Fits(h)'
    BY <1>1, <1>3, <1>8, <1>10 DEF BatchInv, BatchTypes, Fits
<1> QED
    BY <1>7, <1>9, <1>11 DEF BatchInv

\* A step that leaves the batches alone and at most cancels callers.
LEMMA CancelSteps ==
    ASSUME BatchInv, UNCHANGED <<kind, gen, batch, got>>,
           collector' \in [Generations -> Phases],
           \A g \in Generations : collector'[g] = "alone" => collector[g] = "alone",
           queue' \in [Generations -> Seq(Entries)],
           future' = future \/ \E cs : Resolve(cs, "cancelled")
    PROVE  BatchInv'
<1>1. BatchTypes /\ OwnAnswer /\ "cancelled" \in Futures
    BY DEF BatchInv, Futures
<1>2. /\ future' \in [Callers -> Futures]
      /\ \A c \in Callers : future'[c] # future[c] =>
            future[c] = "pending" /\ future'[c] = "cancelled"
    <2>1. CASE future' = future
        BY <1>1, <2>1 DEF BatchTypes
    <2>2. ASSUME NEW cs, Resolve(cs, "cancelled")
          PROVE  /\ future' \in [Callers -> Futures]
                 /\ \A c \in Callers : future'[c] # future[c] =>
                        future[c] = "pending" /\ future'[c] = "cancelled"
        BY <1>1, <2>2, ResolveTypes
    <2> QED
        BY <2>1, <2>2
<1>3. OwnAnswer'
    BY <1>1, <1>2, NoResults
<1>4. BatchTypes'
    BY <1>1, <1>2 DEF BatchTypes
<1>5. \A g \in Generations : Fits(g)'
    BY DEF BatchInv, Fits
<1> QED
    BY <1>3, <1>4, <1>5 DEF BatchInv

LEMMA CloseInferenceSteps == ASSUME BatchInv, CloseInference PROVE BatchInv'
<1>1. queue' \in [Generations -> Seq(Entries)]
    BY AppendProperties DEF CloseInference, BatchInv, BatchTypes, Entries
<1> QED
    BY <1>1, CancelSteps DEF CloseInference, answers, BatchInv, BatchTypes

LEMMA CloseGpuSteps == ASSUME BatchInv, CloseGpu PROVE BatchInv'
<1>1. /\ collector' \in [Generations -> Phases]
      /\ \A g \in Generations : collector'[g] = "alone" => collector[g] = "alone"
    BY DEF CloseGpu, BatchInv, BatchTypes, Phases
<1> QED
    BY <1>1, CancelSteps DEF CloseGpu, answers, BatchInv, BatchTypes

LEMMA CloseGpuEndsSteps == ASSUME BatchInv, CloseGpuEnds PROVE BatchInv'
<1>0. <<>> \in Seq(Entries)
    OBVIOUS
<1>1. queue' \in [Generations -> Seq(Entries)]
    BY <1>0 DEF CloseGpuEnds, BatchInv, BatchTypes
<1> QED
    BY <1>1, CancelSteps DEF CloseGpuEnds, BatchInv, BatchTypes

LEMMA LoopEndsSteps == ASSUME BatchInv, LoopEnds PROVE BatchInv'
<1>1. /\ collector' \in [Generations -> Phases]
      /\ \A g \in Generations : collector'[g] = "alone" => collector[g] = "alone"
    BY DEF LoopEnds, BatchInv, BatchTypes, Phases
<1> QED
    BY <1>1, CancelSteps DEF LoopEnds, BatchInv, BatchTypes

-----------------------------------------------------------------------------
LEMMA BatchInvHolds == Spec => []BatchInv
<1>1. Init => BatchInv
    BY BatchingAssumption DEF Init, BatchInv, BatchTypes, Fits, OwnAnswer, Phases, Futures
<1>2. BatchInv /\ [Next]_vars => BatchInv'
    <2> SUFFICES ASSUME BatchInv, [Next]_vars PROVE BatchInv'
        OBVIOUS
    <2>1. CASE UNCHANGED vars
        BY <2>1 DEF vars, own, answers, BatchInv, BatchTypes, Fits, OwnAnswer
    <2>2. ASSUME NEW g \in Generations, Collector(g) PROVE BatchInv'
        BY <2>2, GatherSteps, CallSteps, CallSucceedsSteps, CallFailsSteps, AloneSteps
        DEF Collector
    <2> QED
        BY <2>1, <2>2, SubmitSteps, GivesUpSteps, CloseInferenceSteps, CloseGpuSteps,
           CloseGpuEndsSteps, LoopEndsSteps DEF Next
<1> QED
    BY <1>1, <1>2, PTL DEF Spec

\* Whoever leaves a batch while it runs, closes or restarts the batcher: no caller is given
\* the result of another, and in a GpuBatcher none fails for another.
THEOREM OwnAnswerAlways == Spec => []OwnAnswer
<1>1. BatchInv => OwnAnswer
    BY DEF BatchInv
<1> QED
    BY <1>1, BatchInvHolds, PTL

\* The model function is called for callers, never for the stop mark, and for no more than
\* max_batch_size of them.
THEOREM BatchesFit ==
    Spec => [](\A g \in Generations : batch[g] \in Seq(Callers) /\ Len(batch[g]) <= MaxBatch)
<1>1. BatchInv => \A g \in Generations : batch[g] \in Seq(Callers) /\ Len(batch[g]) <= MaxBatch
    BY DEF BatchInv, BatchTypes, Fits
<1> QED
    BY <1>1, BatchInvHolds, PTL
=============================================================================
