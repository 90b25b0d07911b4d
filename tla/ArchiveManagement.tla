-------------------------- MODULE ArchiveManagement --------------------------
(***************************************************************************)
(* Backup and restore of the input archive inside its collector            *)
(* (management.py, management_authority.py, management_gate.py,            *)
(* management_io.py, annotations.py, and the parts of collector.py they    *)
(* meet).  The content that is served is named by one durable document,    *)
(* control.json; a restore copies a verified backup into a directory of    *)
(* its own and commits by replacing that document, which also fences every *)
(* producer that was registered before.  Meanwhile producers register and  *)
(* deliver, the publisher appends, a client edits annotations, the request *)
(* is cancelled, writes fail and the process dies.                         *)
(*                                                                         *)
(* A content directory holds the sources of its rows, the generation each  *)
(* annotation was written for, and the watermark of its state.json.        *)
(***************************************************************************)
EXTENDS Integers, Sequences, FiniteSets, SequencesExt

CONSTANTS
    Sources,        \* producer processes (source_instance_id)
    Jobs,           \* 1 .. n: management jobs, in the order they are reserved
    MaxRows,        \* bound on the rows of one content
    MaxEdits,       \* bound on the annotations of one content
    MaxCrashes,     \* bound on the deaths of the collector
    Overlap         \* whether a checkpoint may overlap the switch of a restore

ASSUME JobsAssumption == Jobs = 1 .. Cardinality(Jobs) /\ IsFiniteSet(Jobs)
ASSUME BoundsAssumption == MaxRows \in Nat /\ MaxEdits \in Nat /\ MaxCrashes \in Nat /\ Overlap \in BOOLEAN

VARIABLES
    contents,       \* content directories: 0 the archive root, j what job j restored
    auth,       \* control.json
    jobs,       \* job.json of every job
    col,        \* the collector's memory
    wk,         \* the management thread
    plan,       \* the preview the client holds
    edit,       \* the annotation edit the client composed
    stateBytes,        \* the state bytes a checkpoint is about to write
    crashes

managementVars == <<contents, auth, jobs, col, wk, plan, edit, stateBytes, crashes>>

Roots == {0} \cup Jobs
NoContent == [rows |-> <<>>, ann |-> <<>>, mark |-> 0, there |-> FALSE]
NoJob == [kind |-> "none", state |-> "none", copy |-> NoContent, from |-> 0, cur |-> NoContent, keep |-> TRUE, old |-> 0, cleanup |-> "not_started"]
NoPlan == [kind |-> "none", from |-> 0, cur |-> NoContent, gen |-> 0]
NoEdit == [pc |-> "none", gen |-> 0, rev |-> 0]
IdleManager == [pc |-> "idle", job |-> 0]

-----------------------------------------------------------------------------
(* The authority (management_authority.py).                                *)

\* allowed, refusal: registered for the generation that serves.
Allowed(s) == ~col.failed /\ auth.sources[s] = auth.gen
\* Authority.switch: the pointer, the fence and the commit record in one write.
Switched(j) == [auth EXCEPT !.gen = @ + 1, !.serving = j, !.committed = @ \cup {j}]
\* Authority._write: replaced, or an error before or after the replacement.
WriteAuthority(value) ==
    \/ auth' = value /\ col' = col
    \/ auth' \in {auth, value} /\ col' = [col EXCEPT !.failed = TRUE]

\* Authority._prepare: a document that contradicts itself is refused.
AuthorityReadable ==
    /\ auth.serving = 0 <=> auth.gen = 0
    /\ auth.serving \in {0} \cup auth.committed
    /\ \A s \in Sources : auth.sources[s] <= auth.gen
\* install_paths: restored content must be there with all its files.
ContentThere(root) == contents[root].there

\* The gate refuses a reader while a restore holds it, and a restore while
\* anyone reads (ContentGate.acquire, begin_transition).
GateOpen == ~col.writer

-----------------------------------------------------------------------------
(* Producers, publisher, checkpoints (collector.py).                       *)

Serves == col.up /\ ~col.unavailable

\* _observe_producer, Authority.register.
ObserveProducer(s) ==
    /\ Serves /\ GateOpen /\ ~col.failed /\ auth.sources[s] = -1
    /\ WriteAuthority([auth EXCEPT !.sources[s] = auth.gen])
    /\ UNCHANGED <<contents, jobs, wk, plan, edit, stateBytes, crashes>>

\* _admit: everything is decided under the collector's lock.
AdmitRow(s) ==
    /\ Serves /\ ~col.transition /\ Allowed(s) /\ ~col.broken
    /\ Len(contents[col.root].rows) + Len(col.queue) + Len(col.publishing) < MaxRows
    /\ col' = [col EXCEPT !.queue = Append(@, s)]
    /\ UNCHANGED <<contents, auth, jobs, wk, plan, edit, stateBytes, crashes>>
\* _take_batch.
TakeRow ==
    /\ col.up /\ col.queue # <<>> /\ col.publishing = <<>> /\ stateBytes = -1
    /\ col' = [col EXCEPT !.publishing = col.queue, !.queue = <<>>]
    /\ UNCHANGED <<contents, auth, jobs, wk, plan, edit, stateBytes, crashes>>
\* _publish, under the publication mutex: append, then the watermark.
Publish ==
    /\ col.up /\ col.publishing # <<>> /\ ~col.mutex
    /\ contents' = [contents EXCEPT ![col.root].rows = @ \o col.publishing, ![col.root].mark = col.seq + Len(col.publishing)]
    /\ col' = [col EXCEPT !.publishing = <<>>, !.seq = @ + Len(col.publishing)]
    /\ UNCHANGED <<auth, jobs, wk, plan, edit, stateBytes, crashes>>

\* A checkpoint request with nothing queued: _persist_state reads the state
\* under the lock and writes it, later, to whatever state_path names then.
CheckpointRead ==
    /\ Serves /\ col.queue = <<>> /\ col.publishing = <<>> /\ stateBytes = -1
    /\ Overlap \/ ~col.writer
    /\ stateBytes' = col.seq
    /\ UNCHANGED <<contents, auth, jobs, col, wk, plan, edit, crashes>>
CheckpointWrite ==
    /\ col.up /\ stateBytes # -1
    /\ contents' = [contents EXCEPT ![col.root].mark = stateBytes] /\ stateBytes' = -1
    /\ UNCHANGED <<auth, jobs, col, wk, plan, edit, crashes>>

\* _load_state, _reconcile_file: bytes behind the watermark are cut off; a file
\* shorter than the watermark is a storage failure.
Reconciled(c) == [c EXCEPT !.rows = SubSeq(@, 1, IF c.mark < Len(@) THEN c.mark ELSE Len(@))]
LoadContentState(memory, root) == [memory EXCEPT !.root = root, !.seq = contents[root].mark, !.broken = contents[root].mark > Len(contents[root].rows)]

-----------------------------------------------------------------------------
(* Annotations (annotations.py), behind the gate.                          *)

\* AnnotationStore.prepare: the journal up to its manifest, nothing uncertain.
LoadLabels(memory) == [memory EXCEPT !.poisoned = FALSE]

\* The client reads the revision it is going to edit, and the generation.
ReadLabels ==
    /\ Serves /\ GateOpen /\ edit = NoEdit
    /\ edit' = [pc |-> "composed", gen |-> auth.gen, rev |-> Len(contents[col.root].ann)]
    /\ UNCHANGED <<contents, auth, jobs, col, wk, plan, stateBytes, crashes>>

\* Mutant: an edit composed before a restore is applied after it.
AnyGeneration(e) == TRUE
\* _dispatch_inner: once anything was restored, a request must name what serves.
NamesServing(e) == auth.gen # 0 => e.gen = auth.gen

\* _dispatch takes a lease of the gate for the whole request ...
BeginEdit ==
    /\ edit.pc = "composed" /\ Serves /\ GateOpen
    /\ IF NamesServing(edit) /\ ~col.poisoned
       THEN edit' = [edit EXCEPT !.pc = "leased"] /\ col' = [col EXCEPT !.readers = @ + 1]
       ELSE edit' = NoEdit /\ UNCHANGED col
    /\ UNCHANGED <<contents, auth, jobs, wk, plan, stateBytes, crashes>>
\* ... AnnotationStore.mutate: compare the revision, append, publish; a failed
\* write poisons the store until the next start, with the edit in or not.
Mutate ==
    /\ edit.pc = "leased"
    /\ LET entered == [contents EXCEPT ![col.root].ann = Append(@, edit.gen)]
           fits == edit.rev = Len(contents[col.root].ann) /\ Len(contents[col.root].ann) < MaxEdits
       IN  \/ ~fits /\ contents' = contents /\ col' = [col EXCEPT !.readers = @ - 1]
           \/ fits /\ contents' = entered /\ col' = [col EXCEPT !.readers = @ - 1]
           \/ fits /\ contents' \in {contents, entered} /\ col' = [col EXCEPT !.readers = @ - 1, !.poisoned = TRUE]
    /\ edit' = NoEdit
    /\ UNCHANGED <<auth, jobs, wk, plan, stateBytes, crashes>>

-----------------------------------------------------------------------------
(* Requests (management.py).                                               *)

Callable == Serves /\ ~col.failed
\* _frontier, _preview: what is published, if nothing is under way.
Quiet == ~col.transition /\ col.queue = <<>> /\ col.publishing = <<>> /\ ~col.broken /\ ~col.poisoned
Frontier == contents[col.root]
\* _preview insists that the files are as long as the frontier says.
Previewable == Quiet /\ contents[col.root].mark = Len(contents[col.root].rows)

\* load: the document of a job that was reserved.
Reserved(j) == jobs[j] # NoJob
\* _verify_content: every file has the size and digest of the plan, and the rows,
\* annotations and datasets agree with its frontier.
VerifyContent(copy, cur) == copy.rows = cur.rows /\ copy.ann = cur.ann /\ copy.mark = Len(copy.rows)
\* verify: the backups that may be restored.
Backups == {j \in Jobs : Reserved(j) /\ jobs[j].kind = "backup" /\ jobs[j].state = "succeeded" /\ j \notin col.uncertain
                            /\ VerifyContent(jobs[j].copy, jobs[j].cur)}

\* preview and restore_preview (which verifies the backup).
Preview ==
    /\ Callable /\ GateOpen /\ col.active = 0 /\ Previewable
    /\ plan' \in [kind : {"backup"}, from : {0}, cur : {Frontier}, gen : {auth.gen}]
                  \cup [kind : {"restore"}, from : Backups, cur : {Frontier}, gen : {auth.gen}]
    /\ plan' # plan
    /\ UNCHANGED <<contents, auth, jobs, col, wk, edit, stateBytes, crashes>>

FreeJobs == {j \in Jobs : jobs[j] = NoJob}
\* _request_job: the supplied plan must be what a preview says now.
RequestJob(keep) ==
    /\ Callable /\ GateOpen /\ plan # NoPlan /\ col.active = 0 /\ FreeJobs # {}
    /\ Previewable /\ plan.cur = Frontier /\ plan.gen = auth.gen /\ plan.from \in {0} \cup Backups
    /\ LET j == CHOOSE k \in FreeJobs : \A i \in FreeJobs : k <= i
       IN  /\ jobs' = [jobs EXCEPT ![j] = [NoJob EXCEPT !.kind = plan.kind, !.state = "pending", !.from = plan.from, !.cur = plan.cur,
                                               !.keep = keep \/ plan.kind = "backup"]]
           /\ col' = [col EXCEPT !.active = j, !.cancel = FALSE]
           /\ wk' = [pc |-> "run", job |-> j]
    /\ plan' = NoPlan
    /\ UNCHANGED <<contents, auth, edit, stateBytes, crashes>>

\* Mutant: a cancel is recorded on the job of a running thread.
CancelOutright(j) ==
    /\ jobs' = [jobs EXCEPT ![j].state = IF @ = "succeeded" THEN @ ELSE "cancelled"] /\ UNCHANGED col
\* call "cancel" under the lock: the thread is told, or the job is closed.
CancelJob(j) ==
    /\ jobs[j].state # "succeeded" /\ j \notin auth.committed
    /\ IF col.active = j THEN col' = [col EXCEPT !.cancel = TRUE] /\ UNCHANGED jobs
       ELSE /\ jobs[j].state \in {"pending", "unknown"}
            /\ jobs' = [jobs EXCEPT ![j].state = "cancelled"] /\ UNCHANGED col
Cancel(j) ==
    /\ Callable /\ Reserved(j) /\ CancelJob(j)
    /\ UNCHANGED <<contents, auth, wk, plan, edit, stateBytes, crashes>>

-----------------------------------------------------------------------------
(* The management thread.                                                  *)

Worker(pc) == col.up /\ wk.pc = pc
Job == jobs[wk.job]

\* Mutant: an error leaves the gate held.
KeepGate(memory) == [memory EXCEPT !.transition = FALSE, !.mutex = FALSE]
\* _restore_switch, finally: every lock is given back.
Released(memory) == [memory EXCEPT !.transition = FALSE, !.mutex = FALSE, !.writer = FALSE]
\* The handler of run: an outcome that may be committed is uncertain, another
\* one is failed or cancelled.
Fail(memory, state) ==
    /\ IF jobs[wk.job].state = "succeeded" \/ wk.job \in auth'.committed \/ memory.failed
       THEN /\ col' = [Released(memory) EXCEPT !.uncertain = @ \cup {wk.job}, !.active = 0,
                                               !.unavailable = @ \/ (Job.kind = "restore" /\ (memory.failed \/ wk.job \in auth'.committed))]
            /\ UNCHANGED jobs
       ELSE /\ col' = [Released(memory) EXCEPT !.active = 0]
            /\ jobs' = [jobs EXCEPT ![wk.job].state = state]
    /\ wk' = IdleManager

\* run, up to the copy of the files and their verification.
CopyFiles ==
    /\ Worker("run") /\ auth' = auth
    /\ \/ /\ ~col.cancel
          /\ jobs' = [jobs EXCEPT ![wk.job] = [@ EXCEPT !.state = "running",
                                                  !.copy = IF Job.kind = "backup" THEN [Job.cur EXCEPT !.mark = Len(Job.cur.rows)] ELSE jobs[Job.from].copy]]
          /\ contents' = IF Job.kind = "backup" THEN contents ELSE [contents EXCEPT ![wk.job] = jobs[Job.from].copy]
          /\ wk' = [wk EXCEPT !.pc = IF Job.kind = "backup" THEN "commit" ELSE "gate"]
          /\ UNCHANGED col
       \/ col.cancel /\ Fail(col, "cancelled") /\ UNCHANGED contents
       \/ Fail(col, "failed") /\ UNCHANGED contents
    /\ UNCHANGED <<plan, edit, stateBytes, crashes>>

\* The backup is published by its job document.
CommitBackup ==
    /\ Worker("commit") /\ auth' = auth
    /\ \/ col.cancel /\ Fail(col, "cancelled")
       \/ /\ ~col.cancel
          /\ jobs' = [jobs EXCEPT ![wk.job].state = "succeeded"]
          /\ \E late \in BOOLEAN :   \* the replacement happened, an error followed
                 col' = [col EXCEPT !.active = 0, !.uncertain = IF late THEN @ \cup {wk.job} ELSE @]
          /\ wk' = IdleManager
       \/ ~col.cancel /\ Fail(col, "failed")
    /\ UNCHANGED <<contents, plan, edit, stateBytes, crashes>>

\* Mutant: the plan the user confirmed is not compared again.
UncheckedPlan(j) == TRUE
\* The preview inside the switch equals the one that was confirmed.
SamePlan(j) == Previewable /\ Frontier = jobs[j].cur
\* _restore_switch: the gate, the policy lock and the publication mutex, none of
\* which it waits for.
AcquireGate ==
    /\ Worker("gate") /\ auth' = auth /\ (Overlap \/ stateBytes = -1)
    /\ \/ /\ GateOpen /\ col.readers = 0
          /\ col' = [col EXCEPT !.writer = TRUE, !.mutex = TRUE] /\ wk' = [wk EXCEPT !.pc = "compare"] /\ UNCHANGED jobs
       \/ ~(GateOpen /\ col.readers = 0) /\ Fail(col, "failed")
    /\ UNCHANGED <<contents, plan, edit, stateBytes, crashes>>
Compare ==
    /\ Worker("compare") /\ auth' = auth
    /\ \/ SamePlan(wk.job) /\ wk' = [wk EXCEPT !.pc = "flag"] /\ UNCHANGED <<jobs, col>>
       \/ ~SamePlan(wk.job) /\ Fail(col, "failed")
    /\ UNCHANGED <<contents, plan, edit, stateBytes, crashes>>
\* Mutant: what waits for publication is overlooked.
IgnoreWaiting == TRUE
NothingWaits == col.queue = <<>> /\ col.publishing = <<>>
\* Admission is stopped; what was admitted since the preview makes it give up.
BeginTransition ==
    /\ Worker("flag") /\ auth' = auth
    /\ \/ /\ NothingWaits /\ ~col.cancel
          /\ jobs' = [jobs EXCEPT ![wk.job] = [@ EXCEPT !.old = col.root, !.cleanup = "pending"]]
          /\ wk' = [wk EXCEPT !.pc = "switch"] /\ col' = [col EXCEPT !.transition = TRUE]
       \/ ~NothingWaits /\ Fail(col, "failed")
       \/ col.cancel /\ Fail(col, "cancelled")
    /\ UNCHANGED <<contents, plan, edit, stateBytes, crashes>>

\* Authority.switch, install_paths: the only commit point.
SwitchAuthority ==
    /\ Worker("switch")
    /\ \/ /\ auth' = Switched(wk.job)
          /\ col' = [col EXCEPT !.root = wk.job] /\ wk' = [wk EXCEPT !.pc = "reload"] /\ UNCHANGED jobs
       \/ auth' \in {auth, Switched(wk.job)} /\ Fail([col EXCEPT !.failed = TRUE], "failed")
    /\ UNCHANGED <<contents, plan, edit, stateBytes, crashes>>
\* _load_state, _rebuild_index, annotations, datasets of the new content.
Reload ==
    /\ Worker("reload") /\ auth' = auth
    /\ \/ /\ contents' = [contents EXCEPT ![col.root] = Reconciled(@)]
          /\ col' = LoadLabels(LoadContentState(col, col.root))
          /\ wk' = [wk EXCEPT !.pc = "finish"] /\ UNCHANGED jobs
       \/ Fail(col, "failed") /\ UNCHANGED contents
    /\ UNCHANGED <<plan, edit, stateBytes, crashes>>
\* _persist_state and the job document.
FinishRestore ==
    /\ Worker("finish") /\ auth' = auth
    /\ \/ /\ contents' = [contents EXCEPT ![col.root].mark = col.seq]
          /\ jobs' = [jobs EXCEPT ![wk.job].state = "succeeded"]
          /\ wk' = [wk EXCEPT !.pc = "cleanup"] /\ UNCHANGED col
       \/ Fail(col, "failed") /\ UNCHANGED contents
    /\ UNCHANGED <<plan, edit, stateBytes, crashes>>

\* Mutant: what is discarded is looked up after the switch.
DiscardServing(j) == col.root
\* cleanup: old_content, written before the switch.
DiscardRoot(j) == jobs[j].old
\* Only files that still are what was confirmed are removed.
Cleaned(j) == [contents EXCEPT ![DiscardRoot(j)] = IF @.rows = jobs[j].cur.rows /\ @.ann = jobs[j].cur.ann THEN NoContent ELSE @]
Cleanup ==
    /\ Worker("cleanup") /\ auth' = auth
    /\ \E done \in BOOLEAN :
          /\ contents' = IF done /\ ~Job.keep THEN Cleaned(wk.job) ELSE contents
          /\ jobs' = [jobs EXCEPT ![wk.job].cleanup = IF Job.keep \/ done THEN "done" ELSE "residuals"]
    /\ col' = [Released(col) EXCEPT !.active = 0] /\ wk' = IdleManager
    /\ UNCHANGED <<plan, edit, stateBytes, crashes>>

-----------------------------------------------------------------------------
(* Death and restart.                                                      *)

CrashCollector ==
    /\ col.up /\ crashes < MaxCrashes /\ crashes' = crashes + 1
    /\ col' = [col EXCEPT !.up = FALSE] /\ wk' = IdleManager /\ stateBytes' = -1
    /\ plan' = NoPlan /\ edit' = IF edit.pc = "leased" THEN NoEdit ELSE edit
    /\ UNCHANGED <<contents, auth, jobs>>

\* Mutant: recovery believes the job document.
RecoverByJob(j) == IF jobs[j].state \in {"pending", "running"} THEN "unknown" ELSE jobs[j].state
\* Management.prepare: the authority decides what was committed.
RecoveredState(j) ==
    IF j \in auth.committed THEN "succeeded" ELSE IF jobs[j].state \in {"pending", "running"} THEN "unknown" ELSE jobs[j].state
\* prepare of the collector: authority, state, management with its cleanup.
Restart ==
    /\ ~col.up /\ AuthorityReadable /\ ContentThere(auth.serving)
    /\ LET root == auth.serving
           due == {j \in auth.committed : ~jobs[j].keep /\ jobs[j].old # root}
       IN  /\ col' = [LoadLabels(LoadContentState(col, root)) EXCEPT !.up = TRUE, !.queue = <<>>, !.publishing = <<>>, !.transition = FALSE, !.mutex = FALSE,
                          !.writer = FALSE, !.readers = 0, !.active = 0, !.cancel = FALSE, !.failed = FALSE, !.unavailable = FALSE,
                          !.uncertain = {}]
           /\ contents' = [r \in Roots |-> IF r = root THEN Reconciled(contents[r])
                          ELSE IF \E j \in due : jobs[j].old = r /\ contents[r].rows = jobs[j].cur.rows /\ contents[r].ann = jobs[j].cur.ann
                          THEN NoContent ELSE contents[r]]
           /\ jobs' = [j \in Jobs |-> IF jobs[j] = NoJob THEN NoJob
                          ELSE [jobs[j] EXCEPT !.state = RecoveredState(j),
                                               !.cleanup = IF j \in auth.committed THEN "done" ELSE @]]
    /\ UNCHANGED <<auth, wk, plan, edit, stateBytes, crashes>>

-----------------------------------------------------------------------------

ManagementInit ==
    /\ contents = [r \in Roots |-> IF r = 0 THEN [NoContent EXCEPT !.there = TRUE] ELSE NoContent]
    /\ auth = [gen |-> 0, serving |-> 0, committed |-> {}, sources |-> [s \in Sources |-> -1]]
    /\ jobs = [j \in Jobs |-> NoJob]
    /\ col = [up |-> TRUE, root |-> 0, seq |-> 0, queue |-> <<>>, publishing |-> <<>>, transition |-> FALSE, mutex |-> FALSE,
              writer |-> FALSE, readers |-> 0, active |-> 0, cancel |-> FALSE, failed |-> FALSE, unavailable |-> FALSE,
              uncertain |-> {}, broken |-> FALSE, poisoned |-> FALSE]
    /\ wk = IdleManager /\ plan = NoPlan /\ edit = NoEdit /\ stateBytes = -1 /\ crashes = 0

ManagementNext ==
    \/ \E s \in Sources : ObserveProducer(s) \/ AdmitRow(s)
    \/ TakeRow \/ Publish \/ CheckpointRead \/ CheckpointWrite
    \/ ReadLabels \/ BeginEdit \/ Mutate
    \/ Preview \/ \E keep \in BOOLEAN : RequestJob(keep)
    \/ \E j \in Jobs : Cancel(j)
    \/ CopyFiles \/ CommitBackup \/ AcquireGate \/ Compare \/ BeginTransition \/ SwitchAuthority \/ Reload \/ FinishRestore \/ Cleanup
    \/ CrashCollector \/ Restart

ManagementSpec == ManagementInit /\ [][ManagementNext]_managementVars

-----------------------------------------------------------------------------

\* The content a job restored, as far as it came from the backup.
RestoredFrom(j) == jobs[jobs[j].from].copy

\* Everything written into restored content was written for it: its rows come
\* from producers registered since the switch, its annotations from clients that
\* had seen it (the fence of Authority.switch, the transition flag, and
\* "old references never retarget silently").
WrittenForServing ==
    auth.serving # 0 /\ contents[auth.serving].there =>
        LET base == RestoredFrom(auth.serving) c == contents[auth.serving]
        IN  /\ \A i \in (Len(base.rows) + 1) .. Len(c.rows) : auth.sources[c.rows[i]] = auth.gen
            /\ \A i \in (Len(base.ann) + 1) .. Len(c.ann) : c.ann[i] = auth.gen

\* A committed restore replaced exactly the content whose preview the user
\* confirmed: no row and no annotation that was published in between is lost.
ReplacedAsConfirmed ==
    \A j \in auth.committed :
        contents[jobs[j].old].there => contents[jobs[j].old].rows = jobs[j].cur.rows /\ contents[jobs[j].old].ann = jobs[j].cur.ann

\* What serves after a restore still has everything the backup had, and its
\* watermark covers it and no more; neither the reload, a cleanup nor a restart cuts it.
RestoredWhole ==
    auth.serving # 0 =>
        LET base == RestoredFrom(auth.serving) c == contents[auth.serving]
        IN  c.there /\ IsPrefix(base.rows, c.rows) /\ IsPrefix(base.ann, c.ann) /\ c.mark \in Len(base.rows) .. Len(c.rows)

\* Cancelled and failed jobs never serve; after a restart no committed job is
\* reported as anything but succeeded.
OutcomeAgrees ==
    /\ \A j \in Jobs : jobs[j].state \in {"cancelled", "failed"} => j \notin auth.committed
    /\ col.up /\ wk = IdleManager => \A j \in auth.committed : jobs[j].state = "succeeded" \/ j \in col.uncertain

\* A published outcome is final, across cancellation, failure and restart.
OutcomeFinal ==
    [][\A j \in Jobs : jobs[j].state \in {"succeeded", "failed", "cancelled"} => jobs'[j].state = jobs[j].state]_managementVars

\* A restore's exclusive hold and the stop of admission last only as long as
\* its thread is at the switch, whatever error ends it: neither readers nor
\* producers are locked out by a restore that is over.
HoldEnds ==
    col.up /\ (col.writer \/ col.mutex \/ col.transition) => wk.pc \in {"compare", "flag", "switch", "reload", "finish", "cleanup"}

\* A restore of the archive is all or nothing: it replaces what the client was
\* shown, by the whole backup, under the fence, and its outcome says so.
RestoreSound ==
    /\ [](WrittenForServing /\ ReplacedAsConfirmed /\ RestoredWhole /\ OutcomeAgrees /\ HoldEnds)
    /\ OutcomeFinal

=============================================================================
