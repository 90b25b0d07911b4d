---------------------------- MODULE ArchiveQuery ----------------------------
(***************************************************************************)
(* The reading side of the archive's collector: the index and the          *)
(* incremental join state behind it, paged queries with cursor tokens,     *)
(* exclusions, and the freezing of datasets by a background job            *)
(* (collector.py queries, querying.py, annotations.py, datasets.py), while *)
(* rows are published, labels change and the collector restarts.           *)
(*                                                                         *)
(* Rows come from a frontend "f", a plugin "p" and the daemon "d"; the     *)
(* composition of one row is in NewRows.                                   *)
(***************************************************************************)
EXTENDS DatasetPartition

CONSTANTS
    RowBound,       \* bound on the rows of each source
    MaxArchiveRows, \* bound on the rows of the archive
    MaxLabels,      \* bound on the exclusions
    MaxLosses,      \* bound on the loss notices
    MaxRestarts,    \* bound on the restarts of the collector
    PageSize        \* rows of one page

Owners == {"f", "p", "d"}
ASSUME QueryBounds ==
    /\ RowBound \in [Owners -> Nat] /\ MaxArchiveRows \in Nat
    /\ MaxLabels \in Nat /\ MaxLosses \in Nat /\ MaxRestarts \in Nat /\ PageSize \in Nat \ {0}

VARIABLES
    rows,       \* the published observations, in durable order
    join,       \* _join_state: first witnesses of every relation edge
    labels,     \* positions excluded, one per annotation revision
    client,     \* a client that pages through a view
    job,        \* the dataset job and its thread
    ask,        \* a status request that is checking whether a dataset is current
    epoch       \* collector_epoch

queryVars == <<rows, join, labels, client, job, ask, epoch>>

NoClient == [pc |-> "none", view |-> "none", asOf |-> 0, cursor |-> 0, epoch |-> 0, got |-> <<>>]
NoQueryJob == [state |-> "none", pc |-> "none", asOf |-> 0, rev |-> 0, cancel |-> FALSE, uncertain |-> FALSE]
NoAsk == [pc |-> "none", rev |-> 0, clash |-> FALSE, answer |-> "none"]
FreshJoin == [owners |-> {}, procs |-> {}, reqs |-> {}]

-----------------------------------------------------------------------------
(* The index (collector.py).                                               *)

\* setdefault: an edge keeps the first sequence that witnessed it.
FirstWitness(edges, key, seq) == IF \E e \in edges : e[1] = key THEN edges ELSE edges \cup {<<key, seq>>}

\* _remember_join_state.
RememberJoin(state, seq, r) ==
    [owners |-> IF Observer(r) \/ r.upd = 0 THEN state.owners ELSE FirstWitness(state.owners, <<r.upd, Process(r)>>, seq),
     procs  |-> IF Observer(r) THEN state.procs ELSE FirstWitness(state.procs, <<r.proc, r.own>>, seq),
     reqs   |-> IF r.kind = "daemon_observation" THEN state.reqs \cup {<<r.req, seq>>} ELSE state.reqs]
\* _rebuild_index.
RebuildIndex(published) == FoldLeft(LAMBDA state, i : RememberJoin(state, i, published[i]), FreshJoin, [i \in 1 .. Len(published) |-> i])

\* Mutant: an update declared later is visible in an earlier snapshot.
LiveJoin(state, w) ==
    [owners |-> state.owners, procs |-> {e \in state.procs : e[2] <= w}, reqs |-> {e \in state.reqs : e[2] <= w}]
\* _snapshot_join_state_locked: the edges witnessed up to the watermark.
SnapshotJoin(state, w) ==
    [owners |-> {e \in state.owners : e[2] <= w}, procs |-> {e \in state.procs : e[2] <= w}, reqs |-> {e \in state.reqs : e[2] <= w}]

\* RelationContext over a snapshot of the join state.
JoinedAssociation(snap, ref) ==
    LET owners == {e[1][2] : e \in {x \in snap.owners : x[1][1] = ref.upd}}
    IN  IF ref = NoRef THEN "absent" ELSE IF owners = {} THEN "unmatched" ELSE IF <<ref.own, ref.proc>> \notin owners THEN "stale" ELSE "valid"
JoinedRequest(snap, q) ==
    LET n == Cardinality({e \in snap.reqs : e[1] = q})
    IN  IF q = 0 THEN "not_issued" ELSE IF n = 0 THEN "unmatched" ELSE IF n > 1 THEN "ambiguous" ELSE "linked"

-----------------------------------------------------------------------------
(* Views.                                                                  *)

\* _row_matches_filters, and the views that select by kind.
Matches(view, r) == view = "timeline" \/ (view = "losses" /\ r.kind = "loss_notice")
Selected(view, after, w) == SelectSeq([i \in 1 .. w |-> i], LAMBDA i : i > after /\ Matches(view, rows[i]))
\* _summary, row_relations: what a page says of one row.
Summary(snap, i) == [seq |-> i, association |-> JoinedAssociation(snap, rows[i].ref), request |-> JoinedRequest(snap, rows[i].req)]
\* The counts of the overview at a prefix: one unit per capture identity
\* (eligible_population), requests issued (stage_denominators), rows by kind
\* (outcome_denominators).
Population(w) == Cardinality({<<rows[i].own, rows[i].local>> : i \in 1 .. w})
StageCounts(w) ==
    LET plugin == {i \in 1 .. w : rows[i].kind = "plugin_observation"}
    IN  [issued |-> Cardinality({i \in plugin : rows[i].req # 0}), unissued |-> Cardinality({i \in plugin : rows[i].req = 0})]
OutcomeCounts(w) ==
    [k \in {"start", "plugin_observation", "daemon_observation", "commit_attempt", "loss_notice"} |-> Cardinality({i \in 1 .. w : rows[i].kind = k})]
Overview(w) == [population |-> Population(w), stages |-> StageCounts(w), outcomes |-> OutcomeCounts(w)]

\* Mutant: a continuation reads the prefix of the moment.
ReadNow(c) == Len(rows)
\* _cursor_check: a token pins the snapshot of the first page.
Watermark(c) == IF c.pc = "none" THEN Len(rows) ELSE c.asOf

\* _query_legacy, one page of rows.
RowsPage(view, c) ==
    LET w == Watermark(c)
        found == Selected(view, c.cursor, w)
        page == SubSeq(found, 1, IF Len(found) < PageSize THEN Len(found) ELSE PageSize)
        snap == SnapshotJoin(join, w)
        more == Len(page) = PageSize
    IN  [pc |-> IF more THEN "more" ELSE "done", view |-> view, asOf |-> w, epoch |-> epoch,
         cursor |-> IF more THEN page[Len(page)] ELSE c.cursor,
         got |-> c.got \o [k \in 1 .. Len(page) |-> Summary(snap, page[k])]]
\* _query_versioned: the overview is one answer; its token asks for it again.
OverviewPage(c) ==
    [c EXCEPT !.pc = "done", !.view = "overview", !.asOf = Watermark(c), !.epoch = epoch, !.got = Append(@, Overview(Watermark(c)))]
Page(view, c) == IF view = "overview" THEN OverviewPage(c) ELSE RowsPage(view, c)

OpenQuery(view) ==
    /\ client = NoClient /\ client' = Page(view, NoClient)
    /\ UNCHANGED <<rows, join, labels, job, ask, epoch>>
\* The token names the epoch; after a restart it is cursor_snapshot_unknown.
ContinueQuery ==
    /\ client.pc = "more" \/ (client.pc = "done" /\ client.view = "overview" /\ Len(client.got) = 1)
    /\ client' = IF client.epoch = epoch THEN Page(client.view, client) ELSE NoClient
    /\ UNCHANGED <<rows, join, labels, job, ask, epoch>>
CloseQuery ==
    /\ client.pc = "done" /\ client' = NoClient
    /\ UNCHANGED <<rows, join, labels, job, ask, epoch>>

-----------------------------------------------------------------------------
(* What producers deliver, and annotations.                                *)

Of(own) == SelectSeq(rows, LAMBDA r : r.own = own)
LastOf(own) == IF Of(own) = <<>> THEN [own |-> own, local |-> 0, proc |-> 0, seg |-> 1, kind |-> "none", stage |-> "none"] ELSE Last(Of(own))
Losses == Cardinality({i \in 1 .. Len(rows) : rows[i].kind = "loss_notice"})
\* The updates a plugin row may refer to: the last one the frontend has published,
\* and those of its process of the moment, which may be published later or never.
Commits == SelectSeq(Of("f"), LAMBDA r : r.kind = "commit_attempt")
Update(proc, upd) == [own |-> "f", proc |-> proc, upd |-> upd]
Open(r) == r.kind = "start" \/ r.stage = "competition"
Current(own) == IF Open(LastOf(own)) THEN LastOf(own).proc ELSE LastOf(own).proc + 1
Named == {Update(Last(Commits).proc, Last(Commits).upd) : x \in IF Commits = <<>> THEN {} ELSE {1}}
         \cup {Update(Current("f"), upd) : upd \in {1, Current("f")}}

Row(own, local, proc, seg, kind, stage) ==
    [own |-> own, local |-> local, proc |-> proc, seg |-> seg, kind |-> kind, stage |-> stage, upd |-> 0, parent |-> 0, ref |-> NoRef, req |-> 0, win |-> 0, prec |-> FALSE]

\* The observations a producer can send next: a process starts, in the segment
\* of the one before or in a new one, and ends; a frontend commit declares its
\* update, by a token of its own or by one used before, after the last one; a
\* plugin commit may refer to an update and to a request, and be retracted; a
\* loss is noticed.  Frontend and plugin deliver independently of each other.
NewRows(own) ==
    LET last == LastOf(own)
        next == last.local + 1
        plain == Row(own, next, last.proc, last.seg, "none", "none")
        lost == {[plain EXCEPT !.local = next + 1, !.kind = "loss_notice"] : x \in IF Losses < MaxLosses THEN {1} ELSE {}}
        start == [plain EXCEPT !.proc = last.proc + 1]
        segments == {last.seg, last.seg + 1}
        window == [plain EXCEPT !.kind = "plugin_observation", !.win = last.proc]
    IN  CASE own = "d" -> {[start EXCEPT !.seg = 0, !.kind = "daemon_observation", !.stage = "request", !.req = 1]}
          [] own = "f" /\ ~Open(last) -> lost \cup {[start EXCEPT !.kind = "start", !.seg = seg] : seg \in segments}
          [] own = "f" /\ Open(last) ->
                 lost \cup {[plain EXCEPT !.kind = "commit_attempt", !.upd = upd, !.parent = IF Commits = <<>> THEN 0 ELSE Last(Commits).upd] :
                             upd \in {1, last.proc}}
          [] own = "p" /\ Open(last) ->
                 lost \cup {[window EXCEPT !.stage = "commit", !.ref = ref, !.req = req] : ref \in {NoRef} \cup Named, req \in {0, 1}}
          [] own = "p" /\ ~Open(last) ->
                 lost \cup {[window EXCEPT !.proc = last.proc + 1, !.win = last.proc + 1, !.seg = seg, !.stage = "competition", !.prec = prec] :
                             seg \in segments, prec \in BOOLEAN}
                      \cup {[window EXCEPT !.stage = "retraction"] : x \in IF last.stage = "commit" THEN {1} ELSE {}}

\* _publish_inner, _remember: a row and its edges become visible together.
PublishRow(own) ==
    /\ Len(Of(own)) < RowBound[own]
    /\ Len(rows) < MaxArchiveRows
    /\ \E r \in NewRows(own) : rows' = Append(rows, r) /\ join' = RememberJoin(join, Len(rows) + 1, r)
    /\ UNCHANGED <<labels, client, job, ask, epoch>>

\* AnnotationStore.mutate with kind "exclude".
Exclude(i) ==
    /\ Len(labels) < MaxLabels /\ \A k \in 1 .. Len(labels) : labels[k] # i
    /\ labels' = Append(labels, i)
    /\ UNCHANGED <<rows, join, client, job, ask, epoch>>

-----------------------------------------------------------------------------
(* Datasets (datasets.py).                                                 *)

\* inspect: everything a freeze exports is a function of its snapshot pair, so a
\* job is known by its pair.
Export(asOf, pass, excluded) ==
    LET W == 1 .. asOf
    IN  [corpus |-> Corpus(rows, W, pass, excluded), choice |-> ChoiceRows(rows, W, excluded, excluded # {})]

QueryJob(pc) == job.pc = pc
\* create: the pair is explicit and no newer than what is published.
CreateDataset(asOf, rev) ==
    /\ job = NoQueryJob
    /\ job' = [NoQueryJob EXCEPT !.state = "pending", !.pc = "run", !.asOf = asOf, !.rev = rev]
    /\ UNCHANGED <<rows, join, labels, client, ask, epoch>>
\* run, its error handler: an outcome that is published stays.
EndJob(state) == job' = [job EXCEPT !.pc = "none", !.state = state]
RunDataset ==
    /\ QueryJob("run")
    /\ \/ job' = [job EXCEPT !.state = "running", !.pc = "inspect"]
       \/ EndJob("failed")
    /\ UNCHANGED <<rows, join, labels, client, ask, epoch>>
InspectDataset ==
    /\ QueryJob("inspect")
    /\ \/ ~job.cancel /\ job' = [job EXCEPT !.pc = "publish"]
       \/ job.cancel /\ EndJob("cancelled")
       \/ EndJob("failed")
    /\ UNCHANGED <<rows, join, labels, client, ask, epoch>>
PublishDataset ==
    /\ QueryJob("publish")
    /\ \/ ~job.cancel /\ job' \in {[job EXCEPT !.pc = "none", !.state = "succeeded", !.uncertain = late] : late \in BOOLEAN}
       \/ job.cancel /\ EndJob("cancelled")
       \/ EndJob("failed")
    /\ UNCHANGED <<rows, join, labels, client, ask, epoch>>
\* call "cancel".
CancelDataset ==
    /\ job.state \in {"pending", "running", "unknown"}
    /\ IF QueryJob("none") THEN EndJob("cancelled") ELSE job' = [job EXCEPT !.cancel = TRUE]
    /\ UNCHANGED <<rows, join, labels, client, ask, epoch>>

\* current: exclusions since the freeze are counted at one revision ...
BeginStatus ==
    /\ job.state = "succeeded" /\ ~job.uncertain /\ ask.pc = "none"
    /\ ask' = [pc |-> "check", rev |-> Len(labels), clash |-> Len(labels) > job.rev, answer |-> "none"]
    /\ UNCHANGED <<rows, join, labels, client, job, epoch>>
\* Mutant: the revision is not looked at again.
AssumeUnchanged(rev) == TRUE
SameRevision(rev) == Len(labels) = rev
\* ... and the answer holds only if it is still the revision.
EndStatus ==
    /\ ask.pc = "check"
    /\ ask' = [NoAsk EXCEPT !.answer = IF ~SameRevision(ask.rev) THEN "unknown" ELSE IF ask.clash THEN "conflict" ELSE "consistent"]
    /\ UNCHANGED <<rows, join, labels, client, job, epoch>>
\* The answer is only what the last request said.
ForgetAnswer ==
    /\ ask.answer # "none" /\ ask' = NoAsk
    /\ UNCHANGED <<rows, join, labels, client, job, epoch>>

\* The collector dies and starts: _rebuild_index, _recover.
RestartDaemon ==
    /\ epoch < MaxRestarts /\ epoch' = epoch + 1
    /\ join' = RebuildIndex(rows)
    /\ job' = [job EXCEPT !.pc = "none", !.cancel = FALSE, !.uncertain = FALSE,
                          !.state = IF @ \in {"pending", "running"} THEN "unknown" ELSE @]
    /\ ask' = NoAsk
    /\ UNCHANGED <<rows, labels, client>>

-----------------------------------------------------------------------------

QueryInit ==
    rows = <<>> /\ join = FreshJoin /\ labels = <<>> /\ client = NoClient /\ job = NoQueryJob /\ ask = NoAsk /\ epoch = 0

QueryNext ==
    \/ \E own \in Owners : PublishRow(own)
    \/ \E i \in 1 .. Len(rows) : Exclude(i)
    \/ \E view \in {"timeline", "losses", "overview"} : OpenQuery(view)
    \/ ContinueQuery \/ CloseQuery
    \/ \E asOf \in 1 .. Len(rows), rev \in 0 .. Len(labels) : CreateDataset(asOf, rev)
    \/ RunDataset \/ InspectDataset \/ PublishDataset \/ CancelDataset
    \/ BeginStatus \/ EndStatus \/ ForgetAnswer \/ RestartDaemon

QuerySpec == QueryInit /\ [][QueryNext]_queryVars

-----------------------------------------------------------------------------

\* The edges kept while publishing, cut at any watermark, say of every row what
\* the rows up to that watermark say: later rows, a restart and the order of
\* arrival never change what an earlier snapshot reports (_snapshot_join_state_locked).
JoinExact ==
    \A w \in {Len(rows) - 1, Len(rows)} \cap Nat : LET snap == SnapshotJoin(join, w) IN
        /\ \A i \in 1 .. w : /\ JoinedAssociation(snap, rows[i].ref) = Association(rows, w, i)
                             /\ JoinedRequest(snap, rows[i].req) = RequestLink(rows, w, i)
        /\ \A e \in snap.procs : e[1][2] \in ProcessSources(rows, w, e[1][1])

\* A client that follows its cursor to the end has seen every matching row of
\* the snapshot of its first page once, in order, each with the relations of that
\* snapshot, whatever was published in between ("a snapshot is immutable").
PagesExact ==
    client.pc = "done" /\ client.epoch = epoch =>
        IF client.view = "overview" THEN \A k \in 1 .. Len(client.got) : client.got[k] = Overview(client.asOf)
        ELSE client.got = [k \in 1 .. Len(Selected(client.view, 0, client.asOf)) |->
                 LET i == Selected(client.view, 0, client.asOf)[k]
                 IN  [seq |-> i, association |-> Association(rows, client.asOf, i), request |-> RequestLink(rows, client.asOf, i)]]

\* No two rows that depend on each other are in different partitions, and
\* training and validation hold only rows of sound segments: neither overlapping
\* segments, references across sources nor late rows leak test data.
PartitionsApart(W, pass) ==
    pass.boundary[2] # 0 =>
        \A i \in W :
            LET related == InSegment(rows, W, Segment(rows[i])) \cup InProcess(rows, W, Process(rows[i])) \cup RefersTo(rows, W, i)
            IN  /\ \A j \in related : Part(pass.boundary, i) = Part(pass.boundary, j)
                /\ Part(pass.boundary, i) # "test" => Segment(rows[i]) \in pass.sound

\* Nothing an annotator excluded reaches an export, not even through the window
\* it was captured in, an update another source refers to, a request, the commit
\* a corpus row continues, or the text a window of a choice row was captured after.
ExclusionHonoured(W, pass) ==
    LET window(i) == WindowRows(rows, Len(rows), i)
        near(x, i) == x = i \/ x \in window(i) \/ x \in RefersTo(rows, W, i)
        captured(x, i) == \E j \in window(i) : rows[j].prec /\ x < j
    IN  \A x \in W :
            LET out == Export(Len(rows), pass, {x})
            IN  /\ \A i \in out.corpus : ~near(x, i) /\ x \notin Context(rows, W, i)
                /\ \A i \in out.choice : ~near(x, i) /\ ~captured(x, i)

\* "Consistent with the current labels" is only said while no exclusion is newer
\* than the freeze, even when labels change during the check (current).
CandidateHonest == [][ask'.answer = "consistent" /\ ask.answer # "consistent" => Len(labels) = job.rev]_queryVars

\* A client that pages through a view sees each row of the view once, joined to
\* the rows it belongs to, whatever is published meanwhile.
QueryExact == JoinExact /\ PagesExact

\* A dataset never mixes its partitions and never holds an excluded row, and is
\* called current only while it is.
DatasetSound ==
    /\ [](rows # <<>> =>
              LET W == 1 .. Len(rows)
                  pass == FirstPass(rows, W)
              IN  PartitionsApart(W, pass) /\ ExclusionHonoured(W, pass))
    /\ CandidateHonest

=============================================================================
