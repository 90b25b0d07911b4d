----------------------------- MODULE RerankPlan -----------------------------
(***************************************************************************)
(* The rerank plan (rerank_plan.cc): a window of candidates is cut into    *)
(* groups that compete for one span of the input, the group the window may *)
(* have truncated is marked incomplete, and the scores are replayed into   *)
(* an emission order.  Pure operators: no state.                           *)
(*                                                                         *)
(* A candidate is [text, span, word, weight]; a span stands for the pair   *)
(* (start, end) and for the piece of canonical input it cuts out; word     *)
(* stands for category "word", the only one that is reranked.  The content *)
(* identity of a plan is the tuple of everything that is hashed into it.   *)
(***************************************************************************)
EXTENDS Integers, Sequences, FiniteSets, SequencesExt, FiniteSetsExt

CONSTANT ContextLimit   \* kPrecedingTextCharacters: the scalars of preceding text in a plan

ASSUME ContextAssumption == ContextLimit \in Nat

NoPlan == [ok |-> FALSE]

\* LastUnicodeCharacters: the last limit scalars, or no value for a text with
\* a piece that does not decode.  A text is a sequence of pieces, "bad" one
\* that is not UTF-8.
LastUnicodeCharacters(text, limit) ==
    IF \E i \in DOMAIN text : text[i] = "bad" THEN [ok |-> FALSE, text |-> <<>>]
    ELSE [ok |-> TRUE, text |-> SubSeq(text, Len(text) - Min({Len(text), limit}) + 1, Len(text))]

\* ValidConfig and ValidScoringPolicy: a positive window and coefficients
\* that are finite and not negative (naturals here).
ValidPolicy(policy) == policy.window > 0 /\ policy.gamma >= 0

Words(window) == {i \in DOMAIN window : window[i].word}
Places(window) == [i \in DOMAIN window |-> i]
MembersOf(window, span) == SelectSeq(Places(window), LAMBDA i : window[i].word /\ window[i].span = span)
FirstOf(window, span) == Min({i \in Words(window) : window[i].span = span})

\* ComputeGroupIdentity and ComputePlanIdentity.
ComputeGroupIdentity(window, span, members) == <<span, [k \in DOMAIN members |-> <<members[k], window[members[k]]>>]>>
ComputePlanIdentity(window, truncated, groups, context, policy) ==
    <<context, policy, truncated, window, [g \in DOMAIN groups |-> <<groups[g].id, groups[g].complete>>]>>

\* Mutant: the first group is the one marked incomplete.
FirstGroupTruncated(window, truncated) == IF truncated /\ Words(window) # {} THEN {window[Min(Words(window))].span} ELSE {}
\* The group of the last word is the one truncation may have cut.
TruncatedSpans(window, truncated) == IF truncated /\ Words(window) # {} THEN {window[Max(Words(window))].span} ELSE {}

\* BuildRerankPlan: groups in the order in which their spans first appear.
BuildGroups(window, truncated) ==
    LET firsts == SelectSeq(Places(window), LAMBDA i : window[i].word /\ i = FirstOf(window, window[i].span))
    IN  [g \in DOMAIN firsts |->
            LET span == window[firsts[g]].span
                members == MembersOf(window, span)
            IN  [span |-> span, members |-> members,
                 complete |-> span \notin TruncatedSpans(window, truncated),
                 id |-> ComputeGroupIdentity(window, span, members)]]

\* The context is cut to its suffix; one without a suffix makes no plan.
BuildRerankPlan(window, truncated, context, policy) ==
    LET preceding == LastUnicodeCharacters(context, ContextLimit)
        groups == BuildGroups(window, truncated)
    IN  IF ~preceding.ok \/ ~ValidPolicy(policy) THEN NoPlan
        ELSE [ok |-> TRUE, window |-> window, truncated |-> truncated, groups |-> groups,
              context |-> preceding.text, policy |-> policy,
              id |-> ComputePlanIdentity(window, truncated, groups, preceding.text, policy)]

\* ValidPlan: what a replay insists on before it trusts a plan.
ValidPlan(plan) ==
    /\ plan.ok
    /\ LastUnicodeCharacters(plan.context, ContextLimit) = [ok |-> TRUE, text |-> plan.context]
    /\ ValidPolicy(plan.policy)
    /\ \A g \in DOMAIN plan.groups :
           LET group == plan.groups[g] IN
           /\ group.members # <<>>
           /\ \A k \in DOMAIN group.members :
                  /\ group.members[k] \in Words(plan.window)
                  /\ plan.window[group.members[k]].span = group.span
                  /\ k > 1 => group.members[k - 1] < group.members[k]
           /\ g > 1 => plan.groups[g - 1].members[1] < group.members[1]
           /\ group.id = ComputeGroupIdentity(plan.window, group.span, group.members)
           /\ group.complete <=> ~(plan.truncated /\ Max(Words(plan.window)) \in Range(group.members))
    /\ \A i \in Words(plan.window) :
           Cardinality({g \in DOMAIN plan.groups : i \in Range(plan.groups[g].members)}) = 1
    /\ plan.id = ComputePlanIdentity(plan.window, plan.truncated, plan.groups, plan.context, plan.policy)

\* ComparisonScore, MakeRerankCandidateScore.
ComparisonScore(base, evidence, gamma) == base + gamma * evidence

\* std::stable_sort by descending score: ties keep the merge order.
Before(score, a, b) == score[a] > score[b] \/ (score[a] = score[b] /\ a < b)
StableSort(members, score) == SortSeq(members, LAMBDA a, b : Before(score, a, b))

\* The k-th reranked slot of the window, in window order.
SlotRank(window, i) == Cardinality({j \in Words(window) : j <= i})

\* ReplayRerankPlan on a plan that passes ValidPlan and scores bound to it.
ReplayRerankPlan(plan, score) ==
    LET order == FlattenSeq([g \in DOMAIN plan.groups |->
                     IF plan.groups[g].complete THEN StableSort(plan.groups[g].members, score)
                     ELSE plan.groups[g].members])
    IN  [i \in DOMAIN plan.window |-> IF i \in Words(plan.window) THEN order[SlotRank(plan.window, i)] ELSE i]

=============================================================================
