-------------------------- MODULE DatasetPartition --------------------------
(***************************************************************************)
(* What the input archive computes from its published rows                 *)
(* (querying.py RelationContext and choice_group_rollup, datasets.py       *)
(* DatasetStore.inspect): how rows relate to each other at a published     *)
(* prefix, and how a dataset is cut into train, validation and test.  All  *)
(* operators are functions of the rows and of the excluded positions.      *)
(*                                                                         *)
(* A row is a record: own the source instance, local its sequence there,   *)
(* proc and seg its process and continuity segment (seg 0: none), kind and *)
(* stage, upd and parent its update tokens (0: none), ref the update a     *)
(* plugin row refers to, req the request token, win the captured window    *)
(* (0: none), prec whether its payload holds the text before the caret.    *)
(* Token alphabets are small numbers.                                      *)
(***************************************************************************)
EXTENDS Integers, Sequences, FiniteSets, SequencesExt

NoRef == [own |-> "none", proc |-> 0, upd |-> 0]
Segment(r) == <<r.own, r.seg>>
Process(r) == <<r.own, r.proc>>
Observer(r) == r.kind \in {"plugin_observation", "daemon_observation"}
Least(S) == CHOOSE x \in S : \A y \in S : x <= y
Greatest(S) == CHOOSE x \in S : \A y \in S : y <= x

-----------------------------------------------------------------------------
(* Relations at the prefix 1 .. w (RelationContext).                       *)

\* The rows that declare an update token: observers only refer to one.
Declares(rows, w, u) == {i \in 1 .. w : ~Observer(rows[i]) /\ rows[i].upd = u}
\* process_relation.
ProcessSources(rows, w, p) == {rows[i].own : i \in {j \in 1 .. w : ~Observer(rows[j]) /\ rows[j].proc = p}}
RequestRows(rows, w, q) == {i \in 1 .. w : rows[i].kind = "daemon_observation" /\ rows[i].req = q}

\* association: what became of the update a plugin row refers to.
Association(rows, w, i) ==
    LET ref == rows[i].ref
        any == Declares(rows, w, ref.upd)
        exact == {j \in any : Process(rows[j]) = <<ref.own, ref.proc>>}
    IN  IF ref = NoRef THEN "absent" ELSE IF any = {} THEN "unmatched" ELSE IF exact = {} THEN "stale" ELSE "valid"

\* request_link: the native request id is the only join key.
RequestLink(rows, w, i) ==
    LET records == RequestRows(rows, w, rows[i].req)
    IN  IF rows[i].req = 0 THEN "not_issued" ELSE IF records = {} THEN "unmatched"
        ELSE IF Cardinality(records) > 1 THEN "ambiguous" ELSE "linked"

\* choice_group_rollup of the window of a row: the last stage that decides.
WindowRows(rows, w, i) ==
    IF rows[i].win = 0 THEN {} ELSE {j \in 1 .. w : rows[j].win = rows[i].win /\ Process(rows[j]) = Process(rows[i])}
Retracted(rows, w, i) == \E j \in WindowRows(rows, w, i) : rows[j].stage = "retraction"
CommitObserved(rows, w, i) ==
    LET decided == {j \in WindowRows(rows, w, i) : rows[j].stage \in {"commit", "cancellation"}}
    IN  decided # {} /\ rows[Greatest(decided)].stage = "commit"

-----------------------------------------------------------------------------
(* Segments and processes of the selected range W (inspect, first pass).   *)

\* last_source: a row and the one that follows it at the same source.
Successive(rows, W) ==
    {s \in W \X W : /\ s[1] < s[2] /\ rows[s[1]].own = rows[s[2]].own
                   /\ \A k \in W : s[1] < k /\ k < s[2] => rows[k].own # rows[s[1]].own}
InSegment(rows, W, g) == {i \in W : Segment(rows[i]) = g}
InProcess(rows, W, p) == {i \in W : Process(rows[i]) = p}

\* A segment is closed by a later row of its source in another segment.
Closed(rows, next, g) == \E s \in next : Segment(rows[s[1]]) = g /\ Segment(rows[s[2]]) # g
\* bad: unnamed, reappearing, next to a gap of the local sequence, or a loss.
Bad(rows, W, next, g) ==
    \/ g[2] = 0
    \/ \E i \in InSegment(rows, W, g) : rows[i].kind \in {"loss_notice", "exclusion_notice", "unknown_outcome"}
    \/ \E s \in next :
          \/ Segment(rows[s[2]]) = g /\ Segment(rows[s[1]]) # g /\ s[2] # Least(InSegment(rows, W, g))
          \/ rows[s[2]].local # rows[s[1]].local + 1 /\ g \in {Segment(rows[s[1]]), Segment(rows[s[2]])}
Whole(rows, W, p) ==
    /\ \E i \in InProcess(rows, W, p) : rows[i].kind = "start" \/ rows[i].stage = "competition"
    /\ \E i \in InProcess(rows, W, p) : rows[i].kind = "commit_attempt" \/ rows[i].stage \in {"commit", "cancellation"}
    /\ Cardinality({Segment(rows[i]) : i \in InProcess(rows, W, p)}) = 1
SoundSegments(rows, W) ==
    LET next == Successive(rows, W)
    IN  {g \in {Segment(rows[i]) : i \in W} :
            Closed(rows, next, g) /\ ~Bad(rows, W, next, g) /\ \A i \in InSegment(rows, W, g) : Whole(rows, W, Process(rows[i]))}
UncertainFirst(rows, W, sound) ==
    LET unsure == {i \in W : Segment(rows[i]) \notin sound}
    IN  IF unsure = {} THEN Greatest(W) + 1 ELSE Least(unsure)

-----------------------------------------------------------------------------
(* Dependencies between rows, and the intervals no cut may go through.     *)

\* A reference counts only with one exact witness; a request only if linked.
Witnesses(rows, W, i) ==
    LET ref == rows[i].ref
    IN  IF ref = NoRef THEN {} ELSE {j \in W : rows[j].upd = ref.upd /\ ref.upd # 0 /\ Process(rows[j]) = <<ref.own, ref.proc>>}
\* The daemon's records of the request a plugin row names (request_link).
LinkedRequests(rows, W, i) ==
    IF rows[i].kind # "plugin_observation" \/ rows[i].req = 0 THEN {} ELSE RequestRows(rows, Greatest(W), rows[i].req) \cap W
RefersTo(rows, W, i) == UNION {S \in {Witnesses(rows, W, i), LinkedRequests(rows, W, i)} : Cardinality(S) = 1}

Interval(S) == <<Least(S), Greatest(S)>>
Intervals(rows, W) ==
    {Interval(InSegment(rows, W, Segment(rows[i]))) : i \in W} \cup {Interval(InProcess(rows, W, Process(rows[i]))) : i \in W}
    \cup UNION {{Interval({i, j}) : j \in RefersTo(rows, W, i)} : i \in W}

\* Mutant: intervals that only touch are kept apart.
MergeOverlapping(merged, start, end) ==
    IF merged # <<>> /\ start < merged[Len(merged)][2]
    THEN [merged EXCEPT ![Len(merged)][2] = IF end > @ THEN end ELSE @]
    ELSE Append(merged, <<start, end>>)
\* One step of the merge, intervals taken in order of their start.
MergeInterval(merged, start, end) ==
    IF merged # <<>> /\ start <= merged[Len(merged)][2]
    THEN [merged EXCEPT ![Len(merged)][2] = IF end > @ THEN end ELSE @]
    ELSE Append(merged, <<start, end>>)
Merged(rows, W) ==
    LET all == Intervals(rows, W)
        step(merged, s) == LET here == {x \in all : x[1] = s}
                           IN  IF here = {} THEN merged ELSE MergeInterval(merged, s, Greatest({x[2] : x \in here}))
    IN  FoldLeft(step, <<>>, [k \in 1 .. Cardinality(W) |-> Least(W) + k - 1])

Cuts(rows, W, sound) ==
    LET merged == Merged(rows, W)
        first == UncertainFirst(rows, W, sound)
    IN  {merged[k][2] : k \in {j \in 1 .. Len(merged) - 1 : merged[j][2] < first}}

\* The pair of cuts nearest to 80 and 90 per cent, ties to the earliest.
Deviation(W, cut, tenths) == LET d == 10 * (cut - Least(W) + 1) - tenths * Cardinality(W) IN IF d < 0 THEN -d ELSE d
BestAfter(C, W, a) ==
    CHOOSE b \in {c \in C : c > a} : \A c \in {d \in C : d > a} :
        Deviation(W, b, 9) < Deviation(W, c, 9) \/ (Deviation(W, b, 9) = Deviation(W, c, 9) /\ b <= c)
Boundary(rows, W, sound) ==
    LET C == Cuts(rows, W, sound)
        firsts == {a \in C : \E b \in C : b > a}
        cost(a) == Deviation(W, a, 8) + Deviation(W, BestAfter(C, W, a), 9)
    IN  IF firsts = {} THEN <<0, 0>>
        ELSE LET a == CHOOSE x \in firsts : \A y \in firsts : cost(x) < cost(y) \/ (cost(x) = cost(y) /\ x <= y)
             IN  <<a, BestAfter(C, W, a)>>
FirstPass(rows, W) == LET sound == SoundSegments(rows, W) IN [sound |-> sound, boundary |-> Boundary(rows, W, sound)]
Part(boundary, i) ==
    IF boundary[2] = 0 THEN "unassigned" ELSE IF i <= boundary[1] THEN "train" ELSE IF i <= boundary[2] THEN "validation" ELSE "test"

-----------------------------------------------------------------------------
(* What is exported (inspect, second pass).                                *)

\* Mutant: an exclusion does not follow a reference.
UnreferredExclusion(rows, W, excluded, i) == i \in excluded \/ WindowRows(rows, Greatest(W), i) \cap W \cap excluded # {}
\* excluded_source, excluded_recorded_source_dependency, and the exclusions of
\* the competition and of the captured window.
ExcludedDependency(rows, W, excluded, i) ==
    i \in excluded \/ RefersTo(rows, W, i) \cap excluded # {} \/ WindowRows(rows, Greatest(W), i) \cap W \cap excluded # {}

\* The issues that keep a row out of the corpus.
Clean(rows, W, pass, excluded, i) ==
    /\ pass.boundary[2] # 0 /\ Segment(rows[i]) \in pass.sound
    /\ ~ExcludedDependency(rows, W, excluded, i)
    /\ WindowRows(rows, Greatest(W), i) \subseteq W
    /\ rows[i].win # 0 => ~Retracted(rows, Greatest(W), i) /\ CommitObserved(rows, Greatest(W), i)

Normal(r) == r.kind = "commit_attempt" \/ r.stage = "commit"
\* update_commits: the one earlier frontend commit a row names as its parent.
Context(rows, W, i) ==
    LET named == {j \in W : rows[j].own = rows[i].own /\ rows[j].upd # 0 /\ rows[j].upd = rows[i].parent}
    IN  IF Cardinality(named) = 1 THEN {j \in named : j < i /\ rows[j].kind = "commit_attempt" /\ Segment(rows[j]) = Segment(rows[i])} ELSE {}
Corpus(rows, W, pass, excluded) ==
    LET normal == {i \in W : Normal(rows[i])}
        ok[i \in normal] == Clean(rows, W, pass, excluded, i) /\ \A j \in Context(rows, W, i) : ok[j]
    IN  {i \in normal : ok[i]}
\* choice.jsonl: no boundary is needed, only that nothing excluded is near;
\* structured_choice: the text before the caret has no complete references, so a
\* window that captured some is not exported once anything is excluded (retained).
ChoiceRows(rows, W, excluded, retained) ==
    {i \in W : /\ rows[i].stage = "commit"
               /\ ~ExcludedDependency(rows, W, excluded, i)
               /\ WindowRows(rows, Greatest(W), i) \subseteq W
               /\ retained => \A j \in WindowRows(rows, Greatest(W), i) : ~rows[j].prec}

=============================================================================
