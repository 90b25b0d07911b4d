--------------------------- MODULE EvidenceOracle ---------------------------
(***************************************************************************)
(* Retrieval evidence (daemon/oracle.py, daemon/ann.py): how much the      *)
(* recorded selections speak for each candidate of a query.  The canonical *)
(* oracle weighs every active event of the query's choice problem; the     *)
(* approximate path weighs what a neighbour index returns and the events   *)
(* the index does not hold.                                                *)
(*                                                                         *)
(* The facts are a log of events and retractions in clock order; the clock *)
(* of a fact is its position.  Cosines and weights are scaled to integers: *)
(* the age factor halves with every later event of the same problem.       *)
(***************************************************************************)
EXTENDS Integers, Sequences, FiniteSets, SequencesExt, FiniteSetsExt

CONSTANTS
    ProblemKeys,           \* segment inputs as they are written
    Canonical,      \* canonicalize_segment_input, on ProblemKeys
    Texts,          \* selected texts and candidates
    Simplified,     \* match_text, on Texts
    Directions,     \* representation vectors
    Cosine,         \* cosine of two directions, scaled
    Tau,            \* threshold below which nothing counts
    KEvidence,      \* K_evidence
    Saturation,     \* saturation_k, scaled
    Queries,        \* queries that are explored
    MaxFacts        \* bound on the log

ASSUME OracleConstants ==
    /\ Canonical \in [ProblemKeys -> ProblemKeys] /\ Simplified \in [Texts -> Texts]
    /\ Cosine \in [Directions \X Directions -> Nat]
    /\ KEvidence \in Nat \ {0} /\ Saturation \in Nat \ {0} /\ MaxFacts \in Nat

VARIABLES
    log,    \* the facts
    base    \* the events the neighbour index holds

oracleVars == <<log, base>>

-----------------------------------------------------------------------------
(* Events.                                                                 *)

\* Mutant: a retraction counts from the start.
EverRetracted(l, k, asOf) == \E j \in 1 .. Len(l) : l[j].what = "retraction" /\ l[j].commit = l[k].commit
\* A commit is retracted by a retraction at or before the query point.
Retracted(l, k, asOf) == \E j \in 1 .. Len(l) : j <= asOf /\ l[j].what = "retraction" /\ l[j].commit = l[k].commit
\* read_active_events.
Active(l, asOf) == {k \in 1 .. Len(l) : k <= asOf /\ l[k].what = "event" /\ ~Retracted(l, k, asOf)}
\* The events of the query's choice problem.
SameKey(l, q, asOf) == {k \in Active(l, asOf) : Canonical[l[k].key] = Canonical[q.key]}

\* The first candidate an event's selection is equal to, 0 if there is none.
MatchedCandidate(l, q, k) ==
    LET hits == {c \in 1 .. Len(q.candidates) : Simplified[q.candidates[c]] = Simplified[l[k].text]}
    IN  IF hits = {} THEN 0 ELSE Min(hits)

\* Clipped relevance, usage age and weight.
QueryDirection(l, q, k) == IF q.conditioned THEN q.dirs[MatchedCandidate(l, q, k)] ELSE q.dirs[1]
Relevance(l, q, k) == LET c == Cosine[<<QueryDirection(l, q, k), l[k].dir>>] IN IF c > Tau THEN c - Tau ELSE 0
UsageAge(same, k) == Cardinality({j \in same : j > k})
AgeFactor(age) == 2 ^ (MaxFacts - age)
Weight(l, q, same, k) == Relevance(l, q, k) * AgeFactor(UsageAge(same, k))

\* An event is weighed when a candidate-conditioned query has a vector for it.
Weighed(l, q, S) == {k \in S : q.conditioned => MatchedCandidate(l, q, k) # 0}
\* The K_evidence heaviest, the earlier one of two equals.
Kept(l, q, same, S) ==
    LET weight == [k \in Weighed(l, q, S) |-> Weight(l, q, same, k)]
        passed == {k \in DOMAIN weight : weight[k] > 0}
        heavier(j, k) == weight[j] > weight[k] \/ (weight[j] = weight[k] /\ j < k)
    IN  {k \in passed : Cardinality({j \in passed : heavier(j, k)}) < KEvidence}

\* Masses of the candidates, and their shares as numerators and denominators.
Mass(l, q, same, kept, c) == MapThenSumSet(LAMBDA k : Weight(l, q, same, k), {k \in kept : MatchedCandidate(l, q, k) = c})
Evidence(l, q, same, kept) ==
    LET m == [c \in 1 .. Len(q.candidates) |-> Mass(l, q, same, kept, c)]
        total == MapThenSumSet(LAMBDA c : m[c], DOMAIN m)
    IN  [c \in DOMAIN m |-> IF total = 0 THEN [num |-> 0, den |-> 1]
                            ELSE [num |-> m[c] * m[c], den |-> total * (m[c] + Saturation)]]

\* compute_evidence.
ComputeEvidence(l, q, asOf) ==
    LET same == SameKey(l, q, asOf) IN Evidence(l, q, same, Kept(l, q, same, same))

-----------------------------------------------------------------------------
(* Neighbours.                                                             *)

\* search: the count nearest of the index, ties by id.
Nearer(l, d, j, k) ==
    \/ Cosine[<<d, l[j].dir>>] > Cosine[<<d, l[k].dir>>]
    \/ Cosine[<<d, l[j].dir>>] = Cosine[<<d, l[k].dir>>] /\ j < k
Search(l, ids, d, count) == {k \in ids : Cardinality({j \in ids : Nearer(l, d, j, k)}) < count}

QueryDirections(q) == IF q.conditioned THEN {q.dirs[c] : c \in 1 .. Len(q.candidates)} ELSE {q.dirs[1]}
\* What the index finds and what it does not hold, within the problem.
Allowed(l, ids, q, same, overfetch) ==
    LET delta == Active(l, Len(l)) \ ids
    IN  ((UNION {Search(l, ids, d, overfetch) : d \in QueryDirections(q)}) \cup delta) \cap same
\* Mutant: the age is counted among the hits.
AgeAmongHits(same, allowed) == allowed
AgeClock(same, allowed) == same
\* compute_ann_evidence.
ComputeAnnEvidence(l, ids, q, overfetch) ==
    LET same == SameKey(l, q, Len(l))
        allowed == Allowed(l, ids, q, same, overfetch)
        clock == AgeClock(same, allowed)
    IN  Evidence(l, q, clock, Kept(l, q, clock, allowed))

-----------------------------------------------------------------------------
(* Facts arrive, and the index is built anew now and then.                 *)

Commits == {log[k].commit : k \in {j \in 1 .. Len(log) : log[j].what = "event"}}
NewCommit == IF Commits = {} THEN 1 ELSE Max(Commits) + 1

RecordEvent(commit, key, text, dir) ==
    /\ Len(log) < MaxFacts /\ ~\E k \in 1 .. Len(log) : log[k].what = "retraction" /\ log[k].commit = commit
    /\ log' = Append(log, [what |-> "event", commit |-> commit, key |-> key, text |-> text, dir |-> dir])
    /\ UNCHANGED base
RecordRetraction(commit) ==
    /\ Len(log) < MaxFacts /\ ~\E k \in 1 .. Len(log) : log[k].what = "retraction" /\ log[k].commit = commit
    /\ log' = Append(log, [what |-> "retraction", commit |-> commit, key |-> CHOOSE k \in ProblemKeys : TRUE,
                           text |-> CHOOSE t \in Texts : TRUE, dir |-> CHOOSE d \in Directions : TRUE])
    /\ UNCHANGED base
\* rebuild_ann_from_generation: the index of what is active now.
RebuildIndex == base' = Active(log, Len(log)) /\ base' # base /\ UNCHANGED log

OracleInit == log = <<>> /\ base = {}
OracleNext ==
    \/ \E commit \in {NewCommit, NewCommit - 1} \ {0}, key \in ProblemKeys, text \in Texts, dir \in Directions :
            RecordEvent(commit, key, text, dir)
    \/ \E commit \in Commits : RecordRetraction(commit)
    \/ RebuildIndex

-----------------------------------------------------------------------------

\* Whenever the search finds the events the oracle would keep, the approximate
\* path gives what the oracle gives, however much else it misses: ages are counted
\* over every event of the problem, and events newer than the index are weighed.
AnnExact ==
    \A q \in Queries, overfetch \in 1 .. 2 :
        LET same == SameKey(log, q, Len(log))
        IN  Kept(log, q, same, same) \subseteq Allowed(log, base, q, same, overfetch)
            => ComputeAnnEvidence(log, base, q, overfetch) = ComputeEvidence(log, q, Len(log))

\* The answer as of a point does not change when facts are added behind it: the
\* retraction that comes later leaves the earlier answer alone.
EvidenceStable ==
    [][log' # log => \A q \in Queries, asOf \in 1 .. MaxFacts : asOf <= Len(log) => ComputeEvidence(log', q, asOf) = ComputeEvidence(log, q, asOf)]_oracleVars

\* The evidence of a query is a function of the facts up to its watermark, and
\* the indexed search computes the same function.
OracleExact == [](log # <<>> => AnnExact) /\ EvidenceStable

=============================================================================
