-------------------------- MODULE ArchiveCollector --------------------------
(***************************************************************************)
(* The collector of the input archive (archive/collector.py): admission    *)
(* threads that put observations on a bounded queue, the publication       *)
(* thread that appends batches to the log and replaces the watermark file, *)
(* readers that page through the published prefix, checkpoints, the        *)
(* durable policy, shutdown, crash and restart.                            *)
(*                                                                         *)
(* A record is one cell of the log, so offsets count cells; a batch that   *)
(* was cut short leaves one torn cell.  observation_kind keeps what the    *)
(* code branches on: content-free loss notices (never remembered as an     *)
(* identity by a restart), high and low priority content.  Continuity      *)
(* epochs, wording and the holds that tests use are left out.              *)
(***************************************************************************)
EXTENDS Integers, FiniteSets, Sequences, SequencesExt

CONSTANTS
    Observations,    \* what producers send: [id, body, kind, form]
    NoId,            \* the identity of a torn cell
    QueueCount,      \* limits["collector_queue_count"]
    BatchSize,       \* limits["batch_size"]
    CapacityCells,   \* limits["archive_capacity_bytes"]
    PageCells,       \* limits["page_size_default"]
    Faults,          \* which storage faults may happen
    MaxAdmissions,   \* bound on admission requests
    Wanted,          \* the policies users ask for
    MaxPolicies,     \* bound on policy changes
    MaxStorageFaults, \* bound on storage faults and crashes
    MaxStarts        \* bound on incarnations of the collector

FaultKinds == {"append", "torn", "watermark", "policy", "crash"}

ASSUME ObservationShape ==
    \A o \in Observations :
        /\ DOMAIN o = {"id", "body", "kind", "form"}
        /\ o.id # NoId
        /\ o.kind \in {"loss_notice", "high", "low"}
        /\ o.form \in {"good", "invalid_request"}
ASSUME LimitsPositive ==
    /\ QueueCount \in Nat \ {0}
    /\ BatchSize \in Nat \ {0}
    /\ CapacityCells \in Nat
    /\ PageCells \in Nat \ {0}
ASSUME BoundsAreNaturals ==
    /\ Faults \subseteq FaultKinds /\ Wanted \subseteq {"off", "enabled", "paused"}
    /\ MaxAdmissions \in Nat /\ MaxPolicies \in Nat
    /\ MaxStorageFaults \in Nat /\ MaxStarts \in Nat

Ids == {o.id : o \in Observations}
Bodies == {o.body : o \in Observations}
Policies == {"off", "enabled", "paused"}

VARIABLES
    archiveLog, \* observations.jsonl: a sequence of cells
    quarFile,   \* quarantine.jsonl: the number of its cells
    stateFile,  \* state.json
    policyFile, \* policy.json
    proc,       \* the process: down, serving, joining, marked
    stopping,   \* self._stop
    mem,        \* self._state
    policy,     \* self._policy
    queue,      \* self._queue
    identities, \* self._identities
    index,      \* self._index
    pub,        \* the publication thread
    checkpoint, \* the one checkpoint request: its state and what it must cover
    reader,     \* a paging client: the cursor it holds and every row it was shown
    owed,       \* history: units answered "admitted" before a stop was asked
    told,       \* history: counted units the producer was told about instead
    budget      \* bounds: what is left of each

disk == <<archiveLog, quarFile, stateFile, policyFile>>
collectorVars == <<archiveLog, quarFile, stateFile, policyFile, proc, stopping, mem, policy, queue,
          identities, index, pub, checkpoint, reader, owed, told, budget>>

FreshState(epoch) ==
    [seq |-> 0, offset |-> 0, quar |-> 0, dropped |-> 0, failed |-> 0, refused |-> 0,
     capacityStop |-> FALSE, storageFailure |-> FALSE, crashTail |-> "none",
     clean |-> FALSE, epoch |-> epoch]

\* The members of a sequence at some of its positions, in their order.
Picked(s, places) ==
    [k \in 1..Cardinality(places) |->
        s[CHOOSE n \in places : Cardinality({m \in places : m <= n}) = k]]

Unit(o) == [id |-> o.id, body |-> o.body]
Torn == [id |-> NoId, body |-> CHOOSE b \in Bodies : TRUE, seq |-> 0, loss |-> FALSE]
Idle == [pc |-> "wait", batch |-> <<>>, lines |-> <<>>, quar |-> 0,
         pending |-> FreshState(0), waiters |-> FALSE]
NoCursor == [epoch |-> 0, asOf |-> 0, at |-> 0]
NoCheckpoint == [state |-> "none", covers |-> {}]

Alive == proc # "down"
\* The losses a status snapshot discloses.
Counted(s) == s.dropped + s.failed + s.refused
Spend(what) == budget[what] > 0 /\ budget' = [budget EXCEPT ![what] = @ - 1]

CollectorInit ==
    /\ archiveLog = <<>> /\ quarFile = 0
    /\ stateFile = [FreshState(0) EXCEPT !.clean = TRUE]
    /\ policyFile = [desired |-> "off", rev |-> 0]
    /\ proc = "down" /\ stopping = FALSE
    /\ mem = FreshState(0)
    /\ policy = policyFile
    /\ queue = <<>> /\ identities = <<>> /\ index = <<>>
    /\ pub = [Idle EXCEPT !.pc = "ended"]
    /\ checkpoint = NoCheckpoint
    /\ reader = [cursor |-> NoCursor, shown |-> {}]
    /\ owed = {} /\ told = 0
    /\ budget = [admissions |-> MaxAdmissions, policies |-> MaxPolicies,
                 faults |-> MaxStorageFaults, starts |-> MaxStarts]

----------------------------------------------------------------------------
(* Start: the owner lock, then every managed file is read back             *)

\* _reconcile_file on both files: what is behind a watermark is cut off, and a
\* file shorter than its watermark is a storage failure.
Reconcile(prev) ==
    [log |-> SubSeq(archiveLog, 1, IF Len(archiveLog) < prev.offset THEN Len(archiveLog) ELSE prev.offset),
     quar |-> IF quarFile < prev.quar THEN quarFile ELSE prev.quar,
     tail |-> Len(archiveLog) # prev.offset \/ quarFile # prev.quar,
     short |-> Len(archiveLog) < prev.offset \/ quarFile < prev.quar]

\* The state a start derives from the previous one: counters and the two sticky
\* refusals are carried over, the tail is judged afresh.
LoadState(prev, epoch, rec) ==
    [prev EXCEPT !.storageFailure = @ \/ rec.short,
                 !.crashTail = IF ~prev.clean \/ rec.tail THEN "unknown" ELSE "none",
                 !.clean = FALSE, !.epoch = epoch]

\* _rebuild_index reads the log up to the watermark and gives up at a bad line.
ReadableRows(s, cells) ==
    LET upto == IF s.offset < Len(cells) THEN s.offset ELSE Len(cells)
        bad  == {n \in 1..upto : cells[n].id = NoId}
        last == IF bad = {} THEN upto ELSE (CHOOSE n \in bad : \A m \in bad : n <= m) - 1
    IN  [n \in 1..last |-> [seq |-> cells[n].seq, id |-> cells[n].id,
                            body |-> cells[n].body, loss |-> cells[n].loss, offset |-> n - 1]]

\* Mutant: a restart knows no identity.
NoIdentities(rows) == <<>>

\* The identities a rebuilt index knows: those of its rows but the loss notices.
KnownIdentities(rows) ==
    LET kept == {n \in DOMAIN rows : ~rows[n].loss}
        last(i) == CHOOSE n \in kept : /\ rows[n].id = i
                                       /\ \A m \in kept : rows[m].id = i => m <= n
    IN  [i \in {rows[n].id : n \in kept} |-> rows[last(i)].body]

\* Collector.prepare and the start of serve: one incarnation, a new epoch, and
\* the derived state written back at once.
CollectorStart ==
    /\ proc = "down"
    /\ Spend("starts")
    /\ LET epoch == MaxStarts - budget.starts + 1
           rec == Reconcile(stateFile)
           loaded == LoadState(stateFile, epoch, rec)
           rows == ReadableRows(loaded, rec.log)
           bad == Len(rows) < stateFile.offset
           state == [loaded EXCEPT !.storageFailure = @ \/ bad]
       IN  /\ archiveLog' = rec.log /\ quarFile' = rec.quar
           /\ mem' = state /\ stateFile' = state
           /\ index' = rows /\ identities' = KnownIdentities(rows)
           /\ owed' = IF state.crashTail = "unknown" THEN {} ELSE owed
           /\ told' = IF state.crashTail = "unknown" THEN Counted(state) ELSE told
    /\ policy' = policyFile
    /\ proc' = "serving" /\ stopping' = FALSE
    /\ queue' = <<>> /\ pub' = Idle /\ checkpoint' = NoCheckpoint
    /\ UNCHANGED <<policyFile, reader>>

----------------------------------------------------------------------------
(* Admission: _accept_one, under the state lock                            *)

Fits == Len(queue) + 1 <= QueueCount
Priority(o) == IF o.kind = "low" THEN "low" ELSE "high"
Lowly == {n \in DOMAIN queue : queue[n].priority = "low" /\ ~queue[n].quarantine}
Victim == CHOOSE n \in Lowly : \A m \in Lowly : n <= m

\* _prepare, _validate_plugin and _validate_daemon: shape, schema, tokens and bounds
\* decide whether an observation can be recorded at all.
Valid(o) == o.form = "good"

\* What _prepare and the gates of _accept_one answer before the queue is tried.
Verdict(o) ==
    CASE ~Valid(o) -> "invalid_request"
      [] mem.storageFailure -> "storage_failure"
      [] mem.capacityStop -> "capacity_stop"
      [] o.kind # "loss_notice" /\ policy.desired # "enabled" -> "capture_disabled"
      [] o.id \in DOMAIN identities /\ identities[o.id] = o.body -> "duplicate"
      [] o.id \in DOMAIN identities /\ identities[o.id] # o.body -> "identity_conflict"
      [] OTHER -> "queue"

Item(o, quarantine) ==
    [id |-> o.id, body |-> o.body, loss |-> o.kind = "loss_notice",
     priority |-> Priority(o), quarantine |-> quarantine]

Without(f, i) == [j \in DOMAIN f \ {i} |-> f[j]]
With(f, i, v) == [j \in DOMAIN f \cup {i} |-> IF j = i THEN v ELSE f[j]]

\* Mutant: a displaced unit is not counted.
QueueUncounted(o, quarantine) ==
    CASE Fits -> [ok |-> TRUE, queue |-> Append(queue, Item(o, quarantine)),
                  ids |-> identities, dropped |-> 0]
      [] ~Fits /\ Priority(o) = "high" /\ Lowly # {} ->
             [ok |-> TRUE, queue |-> Append(RemoveAt(queue, Victim), Item(o, quarantine)),
              ids |-> Without(identities, queue[Victim].id), dropped |-> 0]
      [] OTHER -> [ok |-> FALSE, queue |-> queue, ids |-> identities, dropped |-> 0]

\* _queue_locked: room, or the first low unit displaced by a high one; a displaced
\* unit's identity is forgotten and its loss counted.
QueueLocked(o, quarantine) ==
    CASE Fits -> [ok |-> TRUE, queue |-> Append(queue, Item(o, quarantine)),
                  ids |-> identities, dropped |-> 0]
      [] ~Fits /\ Priority(o) = "high" /\ Lowly # {} ->
             [ok |-> TRUE, queue |-> Append(RemoveAt(queue, Victim), Item(o, quarantine)),
              ids |-> Without(identities, queue[Victim].id), dropped |-> 1]
      [] OTHER -> [ok |-> FALSE, queue |-> queue, ids |-> identities, dropped |-> 0]

Heard == IF stopping THEN told ELSE told + 1

\* Every answer but "admitted" leaves the unit with the producer.
Refuse(o) ==
    /\ Alive /\ Spend("admissions")
    /\ \/ /\ Verdict(o) \in {"invalid_request", "storage_failure", "capture_disabled", "duplicate"}
          /\ UNCHANGED <<mem, told>>
       \/ /\ Verdict(o) = "capacity_stop"
          /\ mem' = [mem EXCEPT !.refused = @ + 1] /\ told' = Heard
       \/ /\ Verdict(o) = "queue" /\ ~QueueLocked(o, FALSE).ok
          /\ mem' = [mem EXCEPT !.dropped = @ + 1] /\ told' = Heard
       \/ /\ Verdict(o) = "identity_conflict" /\ ~QueueLocked(o, TRUE).ok
          /\ UNCHANGED <<mem, told>>
    /\ UNCHANGED <<disk, proc, stopping, policy, queue, identities, index, pub, checkpoint,
                   reader, owed>>

\* A conflicting body of a known identity goes to the quarantine file.
Quarantine(o) ==
    /\ Alive /\ Spend("admissions")
    /\ Verdict(o) = "identity_conflict"
    /\ LET q == QueueLocked(o, TRUE)
       IN  /\ q.ok
           /\ queue' = q.queue /\ identities' = q.ids
           /\ mem' = [mem EXCEPT !.dropped = @ + q.dropped]
    /\ UNCHANGED <<disk, proc, stopping, policy, index, pub, checkpoint, reader, owed, told>>

\* The identity is taken when the unit is queued, not when it is published.  A
\* handler already running may still admit after a stop was asked.
Admit(o) ==
    /\ Alive /\ Spend("admissions")
    /\ Verdict(o) = "queue"
    /\ LET q == QueueLocked(o, FALSE)
       IN  /\ q.ok
           /\ queue' = q.queue /\ identities' = With(q.ids, o.id, o.body)
           /\ mem' = [mem EXCEPT !.dropped = @ + q.dropped]
    /\ owed' = IF stopping THEN owed ELSE owed \cup {Unit(o)}
    /\ UNCHANGED <<disk, proc, stopping, policy, index, pub, checkpoint, reader, told>>

\* _set_policy: compare the revision, replace policy.json, then switch.  A write
\* that fails is a storage failure and leaves the policy alone.
SetPolicy(desired) ==
    /\ proc = "serving" /\ desired # policy.desired
    /\ \/ /\ policyFile' = [desired |-> desired, rev |-> policy.rev + 1]
          /\ policy' = policyFile'
          /\ Spend("policies") /\ UNCHANGED mem
       \/ /\ "policy" \in Faults /\ Spend("faults")
          /\ mem' = [mem EXCEPT !.storageFailure = TRUE]
          /\ UNCHANGED <<policyFile, policy>>
    /\ UNCHANGED <<archiveLog, quarFile, stateFile, proc, stopping, queue, identities, index, pub,
                   checkpoint, reader, owed, told>>

----------------------------------------------------------------------------
(* The publication thread                                                  *)

Used(s) == s.offset + s.quar
Batch == SubSeq(queue, 1, IF Len(queue) < BatchSize THEN Len(queue) ELSE BatchSize)
Rest == SubSeq(queue, Len(Batch) + 1, Len(queue))

\* Mutant: a checkpoint is released with the first batch, whatever is left queued.
ReleaseEarly == checkpoint.state = "waiting"

\* The waiters go with a batch only when it empties the queue.
Releases == checkpoint.state = "waiting" /\ Rest = <<>>

\* How many of a batch's units the capacity still takes, in order; each unit is
\* one cell, so the units behind the last that fits are all refused.
Room(s) == IF CapacityCells > Used(s) THEN CapacityCells - Used(s) ELSE 0
Taken(batch) == SubSeq(batch, 1, IF Len(batch) < Room(mem) THEN Len(batch) ELSE Room(mem))
Overflow(batch) == SubSeq(batch, Len(Taken(batch)) + 1, Len(batch))
Observed(items) == Picked(items, {n \in DOMAIN items : ~items[n].quarantine})
IdsOf(items) == {items[n].id : n \in DOMAIN items}

\* _take_batch and the first pass of _publish_inner: lines are numbered and what
\* exceeds the capacity is refused, counted and forgotten.
TakeBatch ==
    /\ pub.pc = "wait" /\ queue # <<>>
    /\ LET seen == Observed(Taken(Batch))
           over == Overflow(Batch)
       IN  /\ pub' = [pub EXCEPT
                 !.pc = "append", !.batch = Batch, !.waiters = Releases,
                 !.lines = [n \in 1..Len(seen) |->
                              [id |-> seen[n].id, body |-> seen[n].body,
                               seq |-> mem.seq + n, loss |-> seen[n].loss]],
                 !.quar = Len(Taken(Batch)) - Len(seen)]
           /\ mem' = [mem EXCEPT !.capacityStop = @ \/ over # <<>>,
                                 !.refused = @ + Len(over)]
           /\ identities' = [i \in DOMAIN identities \ IdsOf(Observed(over)) |-> identities[i]]
    /\ queue' = Rest
    /\ checkpoint' = IF Releases THEN [checkpoint EXCEPT !.state = "held"] ELSE checkpoint
    /\ UNCHANGED <<disk, proc, stopping, policy, index, reader, owed, told, budget>>

StagedRows == [n \in 1..Len(pub.lines) |->
                 [seq |-> pub.lines[n].seq, id |-> pub.lines[n].id,
                  body |-> pub.lines[n].body, loss |-> pub.lines[n].loss,
                  offset |-> mem.offset + n - 1]]
Staged ==
    LET s == [mem EXCEPT !.offset = @ + Len(pub.lines), !.quar = @ + pub.quar,
                         !.seq = @ + Len(pub.lines)]
    IN  [s EXCEPT !.capacityStop = @ \/ Used(s) >= CapacityCells]

\* Mutant: rows and sequence advance while their watermark is only staged.
AppendVisible ==
    /\ pub.pc = "append"
    /\ archiveLog' = archiveLog \o pub.lines
    /\ quarFile' = quarFile + pub.quar
    /\ pub' = [pub EXCEPT !.pc = "watermark", !.pending = Staged]
    /\ index' = index \o StagedRows /\ mem' = [mem EXCEPT !.seq = Staged.seq]
    /\ UNCHANGED <<stateFile, policyFile, proc, stopping, policy, queue, identities,
                   checkpoint, reader, owed, told, budget>>

\* The bytes reach the disk and the new watermark is staged from the state as it
\* is now; nothing of it is visible yet.
AppendLines ==
    /\ pub.pc = "append"
    /\ archiveLog' = archiveLog \o pub.lines
    /\ quarFile' = quarFile + pub.quar
    /\ pub' = [pub EXCEPT !.pc = "watermark", !.pending = Staged]
    /\ UNCHANGED <<stateFile, policyFile, proc, stopping, mem, policy, queue, identities, index,
                   checkpoint, reader, owed, told, budget>>

\* Mutant: the waiters a batch took are not released.
Unanswered == checkpoint

\* The finally clause of the loop releases the waiters that went with the batch.
Answered == IF pub.waiters THEN [checkpoint EXCEPT !.state = "answered"] ELSE checkpoint

\* An append that fails: the batch is counted as failed, its identities are
\* forgotten, the state is saved and the thread goes on with the queue.  The
\* quarantine file is written first, so it may have grown; a torn append also
\* leaves bytes of the batch in the log.
AppendFails ==
    /\ pub.pc = "append" /\ (pub.lines # <<>> \/ pub.quar > 0)
    /\ Spend("faults")
    /\ \/ "append" \in Faults /\ UNCHANGED <<archiveLog, quarFile>>
       \/ /\ "append" \in Faults /\ pub.lines # <<>>
          /\ quarFile' = quarFile + pub.quar /\ UNCHANGED archiveLog
       \/ /\ "torn" \in Faults /\ pub.lines # <<>>
          /\ quarFile' = quarFile + pub.quar /\ archiveLog' = Append(archiveLog, Torn)
    /\ mem' = [mem EXCEPT !.storageFailure = TRUE,
                          !.failed = @ + Len(pub.lines) + pub.quar]
    /\ stateFile' = mem'
    /\ identities' = [i \in DOMAIN identities \ IdsOf(pub.lines) |-> identities[i]]
    /\ pub' = Idle
    /\ checkpoint' = Answered
    /\ UNCHANGED <<policyFile, proc, stopping, policy, queue, index, reader, owed, told>>

\* The watermark file is replaced.
WriteWatermark ==
    /\ pub.pc = "watermark"
    /\ stateFile' = pub.pending
    /\ pub' = [pub EXCEPT !.pc = "install"]
    /\ UNCHANGED <<archiveLog, quarFile, policyFile, proc, stopping, mem, policy, queue, identities,
                   index, checkpoint, reader, owed, told, budget>>

\* The replacement fails, before or after the rename: the tail is unknown and the
\* exception ends the publication thread.
WatermarkFails ==
    /\ pub.pc = "watermark"
    /\ "watermark" \in Faults /\ Spend("faults")
    /\ stateFile' \in {stateFile, pub.pending}
    /\ mem' = [mem EXCEPT !.storageFailure = TRUE, !.crashTail = "unknown"]
    /\ pub' = [Idle EXCEPT !.pc = "ended"]
    /\ checkpoint' = Answered
    /\ UNCHANGED <<archiveLog, quarFile, policyFile, proc, stopping, policy, queue, identities, index,
                   reader, owed, told>>

\* The rows and the advance become visible together; counters that moved since
\* the watermark was staged are kept.
Install ==
    /\ pub.pc = "install"
    /\ index' = index \o StagedRows
    /\ mem' = [mem EXCEPT !.seq = pub.pending.seq, !.offset = pub.pending.offset,
                          !.quar = pub.pending.quar,
                          !.capacityStop = @ \/ pub.pending.capacityStop]
    /\ pub' = Idle
    /\ checkpoint' = Answered
    /\ UNCHANGED <<disk, proc, stopping, policy, queue, identities, reader, owed, told, budget>>

\* A checkpoint with nothing queued saves the state and is answered.
PersistForWaiter ==
    /\ pub.pc = "wait" /\ queue = <<>> /\ checkpoint.state = "waiting"
    /\ stateFile' = mem
    /\ checkpoint' = [checkpoint EXCEPT !.state = "answered"]
    /\ UNCHANGED <<archiveLog, quarFile, policyFile, proc, stopping, mem, policy, queue, identities,
                   index, pub, reader, owed, told, budget>>

\* The loop ends when a stop was asked and it sees an empty queue.
PublicationEnds ==
    /\ pub.pc = "wait" /\ stopping /\ queue = <<>>
    /\ pub' = [pub EXCEPT !.pc = "ended"]
    /\ UNCHANGED <<disk, proc, stopping, mem, policy, queue, identities, index, checkpoint,
                   reader, owed, told, budget>>

----------------------------------------------------------------------------
(* Clients: checkpoints and cursors                                        *)

\* _checkpoint_and_snapshot; what it has to cover is everything owed so far.
RequestCheckpoint ==
    /\ proc = "serving" /\ checkpoint.state \in {"none", "answered"}
    /\ owed # checkpoint.covers
    /\ checkpoint' = [state |-> "waiting", covers |-> owed]
    /\ UNCHANGED <<disk, proc, stopping, mem, policy, queue, identities, index, pub, reader,
                   owed, told, budget>>

Rows(asOf, from) ==
    Picked(index, {n \in DOMAIN index : index[n].seq <= asOf /\ index[n].seq > from})
PageAt(asOf, from) ==
    LET rows == Rows(asOf, from)
    IN  SubSeq(rows, 1, IF Len(rows) < PageCells THEN Len(rows) ELSE PageCells)

Show(asOf, from) ==
    LET page == PageAt(asOf, from)
    IN  reader' = [cursor |-> [epoch |-> mem.epoch, asOf |-> asOf,
                               at |-> IF page = <<>> THEN from ELSE Last(page).seq],
                   shown |-> reader.shown \cup Range(page)]

\* A first page: the snapshot is the published prefix of this moment.
Query ==
    /\ Alive /\ index # <<>>
    /\ reader.cursor.epoch # mem.epoch \/ reader.cursor.asOf # mem.seq
    /\ Show(mem.seq, 0)
    /\ UNCHANGED <<disk, proc, stopping, mem, policy, queue, identities, index, pub, checkpoint,
                   owed, told, budget>>

\* A continuation reads the snapshot its cursor pins, and is refused when the collector that issued it is gone.
NextPage ==
    /\ Alive /\ reader.cursor.epoch = mem.epoch
    /\ PageAt(reader.cursor.asOf, reader.cursor.at) # <<>>
    /\ Show(reader.cursor.asOf, reader.cursor.at)
    /\ UNCHANGED <<disk, proc, stopping, mem, policy, queue, identities, index, pub, checkpoint,
                   owed, told, budget>>

----------------------------------------------------------------------------
(* Shutdown and crash                                                      *)

\* A shutdown request or SIGTERM; the accept loop then leaves.
Shutdown ==
    /\ proc = "serving"
    /\ stopping' = TRUE /\ proc' = "joining"
    /\ UNCHANGED <<disk, mem, policy, queue, identities, index, pub, checkpoint, reader, owed,
                   told, budget>>

\* The condition under which _mark_clean calls a stop clean.
CleanStop == ~mem.storageFailure /\ Len(archiveLog) = mem.offset /\ quarFile = mem.quar

\* _final_checkpoint and _mark_clean: the publication thread has ended, or the
\* join timed out and nothing is written.
MarkClean ==
    /\ proc = "joining"
    /\ \/ /\ pub.pc = "ended"
          /\ mem' = [mem EXCEPT !.clean = CleanStop]
          /\ stateFile' = mem'
       \/ /\ pub.pc # "ended"
          /\ UNCHANGED <<mem, stateFile>>
    /\ proc' = "marked"
    /\ UNCHANGED <<archiveLog, quarFile, policyFile, stopping, policy, queue, identities, index, pub,
                   checkpoint, reader, owed, told, budget>>

Gone ==
    /\ proc' = "down" /\ stopping' = FALSE
    /\ queue' = <<>> /\ identities' = <<>> /\ index' = <<>>
    /\ pub' = [Idle EXCEPT !.pc = "ended"] /\ checkpoint' = NoCheckpoint
    /\ mem' = FreshState(0) /\ policy' = policyFile
    /\ UNCHANGED <<disk, reader, owed, told>>

\* main returns; daemon threads die with the process.
Exit == proc = "marked" /\ Gone /\ UNCHANGED budget

\* The process dies at any step.
CollectorCrash == Alive /\ "crash" \in Faults /\ Spend("faults") /\ Gone

CollectorNext ==
    \/ CollectorStart \/ Shutdown \/ MarkClean \/ Exit \/ CollectorCrash
    \/ \E o \in Observations : Refuse(o) \/ Quarantine(o) \/ Admit(o)
    \/ \E desired \in Wanted : SetPolicy(desired)
    \/ TakeBatch \/ AppendLines \/ AppendFails \/ WriteWatermark \/ WatermarkFails
    \/ Install \/ PersistForWaiter \/ PublicationEnds
    \/ RequestCheckpoint \/ Query \/ NextPage

\* The publication thread runs while there is work and the process lives.
CollectorFairness ==
    /\ WF_collectorVars(TakeBatch) /\ WF_collectorVars(AppendLines) /\ WF_collectorVars(WriteWatermark)
    /\ WF_collectorVars(Install) /\ WF_collectorVars(PersistForWaiter) /\ WF_collectorVars(PublicationEnds)

CollectorSpec == CollectorInit /\ [][CollectorNext]_collectorVars /\ CollectorFairness

----------------------------------------------------------------------------
(* Properties                                                              *)

State == [seq : Nat, offset : Nat, quar : Nat, dropped : Nat, failed : Nat, refused : Nat,
          capacityStop : BOOLEAN, storageFailure : BOOLEAN, crashTail : {"none", "unknown"},
          clean : BOOLEAN, epoch : Nat]
Cell == [id : Ids \cup {NoId}, body : Bodies, seq : Nat, loss : BOOLEAN]

\* Every file and every piece of the collector's memory has its shape.
CollectorTypeOK ==
    /\ archiveLog \in Seq(Cell) /\ quarFile \in Nat
    /\ stateFile \in State /\ mem \in State
    /\ policyFile \in [desired : Policies, rev : Nat] /\ policy \in [desired : Policies, rev : Nat]
    /\ proc \in {"down", "serving", "joining", "marked"} /\ stopping \in BOOLEAN
    /\ queue \in Seq([id : Ids, body : Bodies, loss : BOOLEAN,
                      priority : {"high", "low"}, quarantine : BOOLEAN])
    /\ Len(queue) <= QueueCount
    /\ DOMAIN identities \subseteq Ids /\ Range(identities) \subseteq Bodies
    /\ pub.pc \in {"wait", "append", "watermark", "install", "ended"}
    /\ pub.pending \in State /\ pub.quar \in Nat /\ pub.waiters \in BOOLEAN
    /\ checkpoint.state \in {"none", "waiting", "held", "answered"}
    /\ owed \subseteq [id : Ids, body : Bodies] /\ told \in Nat

UnitsOf(cells) == {[id |-> cells[n].id, body |-> cells[n].body] : n \in DOMAIN cells}
Durable == UnitsOf(SubSeq(archiveLog, 1, IF stateFile.offset < Len(archiveLog) THEN stateFile.offset
                                  ELSE Len(archiveLog)))
Pending == UnitsOf(queue) \cup UnitsOf(pub.lines)

\* A unit that was answered "admitted" before a stop was asked is durable, still
\* on its way, or counted as lost by the running collector, unless the collector
\* says its own tail is unknown; a restart that says so starts a new account.
LossDeclared ==
    Alive =>
        \/ mem.storageFailure /\ mem.crashTail = "unknown"
        \/ Cardinality(owed \ (Durable \cup Pending)) <= Counted(mem) - told

\* A row that was ever shown to a reader stays where the index said it was, below
\* the watermark on disk, through failures, crashes and restarts.
ShownStays ==
    \A r \in reader.shown :
        /\ r.offset < stateFile.offset /\ r.offset < Len(archiveLog)
        /\ archiveLog[r.offset + 1].id = r.id /\ archiveLog[r.offset + 1].seq = r.seq

\* No identity is published twice, however often its unit was retried across
\* displacements, failures and restarts; loss notices are exempt.
PublishedOnce ==
    \A m, n \in 1..stateFile.offset :
        (m < n /\ n <= Len(archiveLog) /\ archiveLog[m].id = archiveLog[n].id)
            => (archiveLog[m].loss \/ archiveLog[n].loss)

\* A checkpoint that was answered covers every unit admitted before it was asked,
\* but for counted losses or a disclosed storage failure.
CheckpointCovers ==
    (Alive /\ checkpoint.state = "answered") =>
        \/ mem.storageFailure
        \/ Cardinality(checkpoint.covers \ UnitsOf(index)) <= Counted(mem) - told

\* A checkpoint taken up by a live publication thread is answered.
CheckpointConcludes ==
    (checkpoint.state \in {"waiting", "held"} /\ pub.pc # "ended")
        ~> (checkpoint.state \in {"none", "answered"} \/ pub.pc = "ended")

\* docs/input-archive.md: no unpublished observation is marked as a clean stop.
CleanStopHonest ==
    [][(proc = "joining" /\ proc' = "marked" /\ stateFile'.clean) => queue = <<>>]_collectorVars

\* Every unit the collector admitted is accounted for: published once, shown for
\* good once it was shown, covered by a checkpoint or counted as lost.
AdmittedAccounted == LossDeclared /\ ShownStays /\ PublishedOnce /\ CheckpointCovers

\* docs/input-archive.md:799: stop and restart preserve the last published
\* prefix. Whenever the collector runs, its index has every row it ever showed.
PublishedPrefixKept ==
    Alive => \A r \in reader.shown :
        \E n \in DOMAIN index : index[n].id = r.id /\ index[n].seq = r.seq

=============================================================================
