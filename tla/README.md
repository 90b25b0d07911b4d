# Verification of librime-llm-rerank

TLA+ models of librime-llm-rerank: the plug-in that records what a user selects
and reranks candidates, the daemon that keeps vectors of these facts current and
answers from them, the maintenance operations that replace the data while both
run, and the input archive. TLC checks the models on small instances; TLAPS proves
theorems about fourteen of them for every value of the constants.

`PROJECT.json` lists components, runs, mutants, the line map, findings, hazards and
theorems. A definition whose comment begins with "Mutant:" is a plausible bug that
replaces the definition after it, to show that a property notices it.

## 1. The system

The plug-in (C++, inside the input method) records every selection into a fact
store that several processes share, and asks a daemon (Python) to score candidates.
The daemon derives generations of vectors from the facts, publishes them and answers
from them. Command line operations clear, restore, back up, migrate and rebuild the
data while plug-in and daemon run. Apart from this, the plug-in and the daemon send
observations to a collector that keeps an input archive.

| Component | Source | State it keeps | Operations | Talks to |
|---|---|---|---|---|
| recorder session | `src/src/llm_rerank_recorder.cc`, `recorder_session.cc` | choices of one composition, armed retraction | select, commit, abort, undo | recorder coordinator |
| rerank filter | `src/src/llm_rerank_filter.cc`, `rerank_plan.cc` | windows, a plan per group | pull, score, replay, fall back | scorer clients |
| recorder coordinator | `src/src/recorder_coordinator.cc` | bounded FIFO, pending gap; process marker, gap record, lock and intents on disk | SubmitBatch, SubmitRetraction, FlushLoop, Shutdown | fact store; other processes through the gap files |
| gap reader, status | `src/daemon/maintenance.py`, `status_core.py` | none | read_recording_gap, collect_status | the files of all others |
| fact store | `src/src/fact_store.cc` | SQLite facts, hybrid clock, epoch, shared lease | Open, PersistBatch, AppendRetraction, snapshot, migrate | everything reads it |
| operation engine | `src/daemon/operations.py` | one record per operation, executor lock | create, run, cancel, retry, wait | the five operations |
| operations | `clear_`, `restore_`, `backup_`, `migrate_`, `rebuild_operation.py`, `quarantine.py` | a staging directory per operation | one step per phase | engine, maintenance seam, staging machine |
| command line | `src/daemon/cli.py` | none | confirm, create, spawn an executor, watch it | engine |
| control tool | `src/daemon/deploy.py` | pid file, log | start, stop, health, verify | daemon |
| maintenance seam | `src/daemon/maintenance.py`, `control.py` | exclusive lease, control connection | run_maintenance, replace_fact_database | coordinator over a socket |
| maintenance coordinator | `src/daemon/coordinator.py` | serving state, requests, fact handles, builders, epochs | prepare, reopen, lease_lost, recover, complete_recovery, close | delta machine |
| delta state machine | `src/daemon/delta.py` | checkpoint per generation, mirror, snapshot, block, queued rebuild, queued switch | catch up, retry, rebuild, invalidate, ensure_caught_up, publish_switch | facts, generations, retention |
| staging machine | `src/daemon/staging.py` | resumable build with progress record | cycle, retry, discard, force rebuild | publisher |
| publisher | `src/daemon/publish.py` | active manifest, committed and switched generation | publish, reconcile, switch | staging, delta, retention |
| retention | `src/daemon/retention.py` | rollback manifest | sweep, register, isolate | derived root |
| server | `src/daemon/server.py`, `personal_lora_live.py` | lease, model, adapter fingerprint | accept, answer, unload | wires all of the daemon |
| evidence | `src/daemon/evidence.py`, `oracle.py`, `ann.py` | none beyond a snapshot | score one request | delta snapshot |
| trace store | `src/daemon/tracing.py` | JSON files of counts, traces, windows, acknowledgements | note a request, read, annotate | command line, plug-in |
| archive producer | `src/src/input_archive_session.cc`, `input_archive_producer.cc` | bounded queue, retries, loss notices | admit, send, retract | collector |
| archive collector | `src/archive/collector.py` | queue, log with a durable watermark, policy | admit, publish, checkpoint, recover | producers, readers |
| archive management | `src/archive/management.py`, `management_*.py` | control.json, staged contents | back up, restore, cancel, recover | collector's gate |
| archive queries | `src/archive/querying.py`, `annotations.py`, `datasets.py` | joins, exclusions, frozen datasets | page, exclude, freeze | published prefix |
| offline evaluation | `src/eval/` | none | experiments over fixed data | |

What is hard here: several kinds of process (input methods, daemon, operation
executors, shells, collector) share files under advisory locks, and every one may die
between two durable writes; inside the daemon the delta worker, the staging worker,
the publisher, control threads and the sweep at start share the derived root with
different locks or none; the store may be replaced under a new epoch at any time that
the lease allows; queues are bounded and answers late. What makes each part correct:

- recorder: accepted items are stored once and in order; no item is lost without
  evidence that a later reader of the status sees;
- engine and shells: a promised cancel is carried out, nothing irreversible follows
  it, no phase is skipped over crashes, and what is replaced is what was confirmed;
- maintenance: the store is replaced only while nobody reads it, the files are one
  complete store at every instant, no unproven epoch is served, leases end;
- delta machine: an answer is the facts' own projection at a watermark not older than
  the one the request read; the worker reaches the facts again;
- publish and retention: a start after any crash loads a complete generation; what is
  visible was durable first; a committed publish is served in the end;
- fact store and operations: no committed fact is lost but by the operation that was
  asked to remove it, and the clock of the facts increases;
- typing path: candidates are permuted within a group only, a recording says what was
  selected, an answer is of one epoch and one adapter, traces do not lie;
- archive: what is behind the durable watermark after a crash is discarded, what is
  before it stays; what was admitted is published or declared lost; a restore serves
  the content it names; a query sees one published prefix.

## 2. Modules

| Module | Models | Uses |
|---|---|---|
| `OperationContract` | what an operation promises: cancelled or committed, never both | |
| `OperationEngine` | `daemon/operations.py` | instantiates `OperationContract` |
| `RebuildOperation`, `CompatMatrix` | `rebuild_operation.py`, `compat.py` | the first instantiates the second |
| `CommandLine` | the maintenance shells of `cli.py` | |
| `DaemonControl` | `deploy.py` and the runtime directory of `server.py` | |
| `StatusReport` | `status_core.py`, the switches of `llm_rerank_config.cc` | |
| `RecorderCoordinator` | `recorder_coordinator.cc`, `read_recording_gap` | |
| `MaintenanceSeam` | `coordinator.py`, `control.py`, `maintenance.py` | |
| `StoreOperations` | clear, restore, migrate, backup and quarantine over the files | |
| `FactStore` | `fact_store.cc` under two processes | |
| `DeltaMachine` | `delta.py`, `build_generation`, the sweeps, the coordinator's use of the machine | |
| `ActivePointer` | the abstract two-pointer publish | |
| `GenerationPublish` | `publish.py`, `staging.py`, `retention.py`, the switch of `delta.py` | instantiates `ActivePointer` |
| `RerankPlan`, `InputSession` | `rerank_plan.cc`; filter, recorder processor and session | the second uses the first |
| `ArchiveProducer` | `input_archive_session.cc`, `input_archive_producer.cc` | |
| `ScoringServer` | `server.py`, `evidence.py`, `personal_lora_live.py`, `archive_observation.py` | |
| `EvidenceOracle` | `oracle.py`, `ann.py` | |
| `TraceStore` | `tracing.py` | |
| `ArchiveCollector` | `archive/collector.py` | |
| `ArchiveManagement` | `archive/management*.py` and the collector's part in a restore | |
| `DatasetPartition`, `ArchiveQuery` | `querying.py`, `datasets.py`, `annotations.py` | the second uses the first |
| `...Proofs` | theorems about the module they are named after; `OperationsProofs` about `OperationEngine`, `CommandLine`, `DaemonControl`, `RebuildOperation`, `CompatMatrix` and `StatusReport`; `StoreOperationsProofs` also about `FactStore` | extend it |
| `MC...` | instances for TLC | extend the modules above |

An action is a critical section or the work between two points where the code gives
up its lock, blocks or writes a file durably. Read state from the code's fields: the
variables carry their names. What follows says what each module abstracts.

**OperationEngine.** `op` is the record on disk with its revision; `runLock` the
executor flock; each actor has a program counter, the transform it is applying (`job`)
and the copy it loaded (`copy`). `OperationStore.mutate` is two steps, `MutateLoad` and
`MutateWrite`; the second succeeds only if the revision has not moved. The transforms
are the functions of the same names. A runner may crash at every point. History
variables: `executed`, `created`, `reply`. Left out: progress text, log, claims and
error text; a mutate that gives up after 64 conflicts is `CrashRunner`.

**RebuildOperation, CompatMatrix.** The preview the command line takes, the four steps
of an executor, each of which drives one cycle of a staging machine of its own, and
the daemon's staging machine and publisher beside it. A generation id is what it is
the digest of. `CompatMatrix` is the table of layers, actions and what they imply;
`PlanSound` compares `plan_actions` with a definition of what each plan may reuse.

**CommandLine, DaemonControl, StatusReport.** A shell checks, shows, asks, creates,
spawns and watches; an operation is its state, what it expects to find and what the
user agreed to. A tool of `deploy.py` is a process; the daemon's start, listening
socket, pid file, death and log are its surroundings. `StatusReport` is operators
only: duties, verdict and exit code of what it reads. A switch has the spellings on which the
two loaders differ: PyYAML takes a plain yes, no, on or off for a boolean, librime's `GetBool`
the quoted texts true and false. That status and engine see the same duties is claimed, and
true, only for sections that write plain true and false.

**RecorderCoordinator.** Each process of `Procs` is one life of an input method. The
input thread submits, the worker establishes evidence, takes items, persists them and
flushes gaps. Every durable write of a flush is one step, may fail and may be torn by
a crash. An item is one byte unit; a drop counter is the set of items it counts.

**MaintenanceSeam.** The files of the store (`epoch`, `wal`, `whole`), the flock
(`exclusive`, `shared`), the coordinator's fields, one control thread and one
connection per client, reader threads, the recovery callback. `run_maintenance` and
`replace_fact_database` are the client's steps up to the rename; prepare and recover
are split where the code releases its condition. Clients and the daemon may die at
any step; the flock of a dead client is released in a step of its own. `Unreadable`
are clients that replace a store they could not read.

**StoreOperations, FactStore.** Executors run side by side, die at any file operation
and are retried, while recorders go on writing. A store is its identity and its facts;
a container or a quarantine copy is the store it was made of. SQLite is external and
keeps its contract: one writer at a time, atomic transactions, backups of one read
point. The wall clock may jump either way.

**DeltaMachine.** The fact store is an epoch and a log; the position in the log is the
clock and a watermark is a prefix length. A commit is an atom, because a retraction
removes whole commits. A generation is `[epoch, h0, rows]`. The worker's cycle is cut
where it releases the machine's condition or does I/O. Coordinator, one query, `retry`,
the sweep at start, recorders and a replaced store interleave with it. `Unparsable` and
`Unembeddable` commits are the faults that block the worker. Nothing is published at
run time here; that is `GenerationPublish`.

**GenerationPublish.** A generation is `[e, h, r]`, what its id is the digest of. `stg`
is the directory `staging/`, `gens` the directory `generations/`, `ckpt` the checkpoints,
`amani` and `rmani` the two manifests. One cycle of the staging worker is one step (it
runs under the publish lock); the publisher takes one step per file operation; the delta
worker takes one per critical section or rename. A "begun" record is a running build whose
vectors file exists without a chunk; a "parked" one a directory whose progress record was
moved out. Faults hit the commit and the reverification; damage hits containers and the
manifest while the daemon is down; a crash may happen anywhere. `overlap` is history: a
sweep ran beside a publish (section 6). A vector search index, catching up in batches and
the disk budget are left out.

**InputSession, RerankPlan.** The engine is external: keys, the menu's demand, selection,
commit, clear and reopening happen in any order it allows, and its notifiers call the
handlers. A window computation blocks the input thread. Plans are operators: grouping,
truncation, replay. A text is a sequence of pieces, one of which may not be UTF-8.

**ArchiveProducer, ArchiveCollector, ArchiveManagement, ArchiveQuery, DatasetPartition.**
A record is one cell of the log; a batch that was cut short leaves one torn cell. The
collector is external to the producer, and producers are external to the collector. The
content that serves is named by one durable document. Rows are tuples of small tokens.
The collector answers the producer with a code for each observation of a batch; what it
refused beside a later one that it took, in an answer that got lost, is remembered in
`passed`. Frontend and plug-in deliver their rows independently: a plug-in row may name an
update that is published, that is published later, or that never is, and a frontend may use
a token again. A client of the archive, an annotator and a dataset job do not touch the
rows, so each is explored in a part of its own.

**ScoringServer, EvidenceOracle, TraceStore.** One connection at a time; the watchdog, the
owner replacing adapter files, recorders, worker, publisher and maintenance move around
it. The oracle compares the canonical scan with what the index returns and rescoring
corrects. The trace store is written by two processes whose lock is a thread lock, so an
update is a read and a later replacement.

## 3. Runs

Some runs check several modules that share no variable of the model. Their MC module has
a variable `part` that is chosen initially and never changes: a behaviour explores one
part while the others keep their first state. The state counts are sums, not products.

| Run | Parts and instance | States | Checks |
|---|---|---|---|
| `operations` | engine: 6 phases with compensation, 2 runners, 1 canceller, 1 crash, 1 retry; rebuild: 3 modes, 2 representations, 2 epochs, 2 upsets, 1 rerun; seam: 1 client, 2 readers, 2 crashes, 2 faults; recorder: 2 processes and the reader, 1 fault, 1 crash; daemon: 3 tools, 2 pids | 1,119,861 | CancelHonoured, StepOwnsRecord, NoPhaseSkipped, ImplementsContract, RebuildSound, PlansAreSound, StoreComplete, EvidenceHonest, VerifyLeavesNothing, SnapshotsAreHonest |
| `progress` | engine: 4 phases without compensation, a runner that lacks the type; shells: 2, with 13 commands between them, 1 death; recorder: 1 process, 2 items, 1 lease, late submissions; fair | 117,054 | CancelNeverOverwritten, OperationSettles, ReplacesWhatWasAgreed, OutcomeNotMissed, WatchEnds, RecorderProgress |
| `maintenance_seam` | 2 clients (one unreadable), 1 reader, 1 crash, 1 fault, shutdown; fair | 315,839 | EpochProven, ReplacedInQuiet, SeamProgress |
| `workers` | delta: 3 commits (one unparsable, one unembeddable), 3 changes, 2 epochs, 1 round, 1 crash, 1 fault; collector: 3 observations, queue of 2, batches of 1, 2 cells, 3 admissions, 1 fault or crash; fair | 519,673 | ServedExact, CheckpointSound, AdmittedAccounted, CatchesUp, CheckpointConcludes |
| `generation_publish` | 2 representations, 2 epochs, 1 fact per epoch, 2 events; fair | 446,958 | ManifestSound, ImplementsPointer, CommittedServed |
| `store` | operations: 7 to choose from, 2 created, 1 crash, 1 retry, healthy, old, bad or no store, a container that is whole or (where there is a store) is not; store: 2 processes, 1 staged file, an old store that migrates | 825,381 | ReplacementSafe, OwnPublicationKnown, FactsKept |
| `typing` | session: windows of 5, 2 menus (two complete groups and a cut one; then text that is no UTF-8), 5 configurations, 2 segments, 2 commits, 2 exchanges before the deadline; producer: queue and batches of 2, 1 retry, 1 receipt, 1 notice, and either 2 observations while capture is barred at any moment or 3 while it is allowed; server: 2 connections of 12 kinds, 3 changes; oracle: 3 facts; trace: 3 requests, 2 events | 1,231,719 | RerankSound, ArchivedFaithfully, AdapterVerified, AnswersCurrent, TraceHonest, RecordingTrue, OracleExact |
| `archive` | management: 2 jobs, 2 sources, 1 crash; query: 3 sources, 4 rows, pages of 1, 1 loss, 1 restart; freeze: 3 rows, 1 exclusion, 1 restart; dataset: 11 rows of 2 sources; symmetry | 708,043 | QueryExact, RestoreSound, DatasetSound |
| `second_round` | delta machine: 1 change, 3 epochs, 2 rounds | violation | InvalidateQuiesced |
| `archive_overlap` | management with a checkpoint in flight during a switch | violation | RestoredWhole |
| `torn_append` | collector: the same with a loss notice, 2 admissions, an append that fails halfway and a crash | violation | PublishedPrefixKept |
| `daemon_stop` | the control tool | violation | StoppedMeansGone |

**Why the bounds are enough.** Each bound admits the case the properties are about. Two
runners and a canceller are a lost race and its winner; one crash and one retry resume
an operation. Two clients make one lease follow another's loss; the client that dies
leaves its flock to the kernel while the other prepares. A queue of one batch overflows
with the second submission. Three changes are a commit, its retraction and a change in
between; two epochs are a replaced store, two representations a changed configuration.
Two events in the publish are a damaged manifest followed by a crash during the recovery,
or an epoch change during a publish; its instance starts from a published generation,
because the first publish is then preceded by everything that can precede it. The
invariants of the proofs (section 5) were checked on larger instances: three events for
`GenerationPublish` (5.9 million states), two clients and two readers for the seam.
The first menu of `typing` has two complete groups, so that a window makes two evidence requests, of
which the second may fail, be late or find no time left; two commits (the
second of one segment, in the session that reranks by weight) leave room for a commit between a
commit and its undo. A queue of two is full when a batch of two comes back to it with newer
observations. In the part `dataset` of `archive` a third composition of the plug-in may refer to the
frontend's updates and hold captured text, and the eleven rows reach archives in which a boundary
exists: partitions, references, contexts and choice rows are then exported and excluded. Its rows are
regular (no losses, one segment per composition), and every prefix of them could be frozen. In the part
`query` pages of one row leave three continuations of a snapshot in which a later row answers a
reference of an earlier one.
The collector of `workers` receives no loss notice; `torn_append` does, and the theorem holds with
any observations. `MaxRounds` is 1 in `workers`: with two rounds the worker is no longer quiesced
(run `second_round`) and CheckpointSound does not hold; ServedExact still does, and its
inductive invariant was checked with two rounds and three epochs as well.

**Deadlock** is not checked where the system may stop: all processes have ended or
crashed, the daemon refuses to start, or the bounds are used up.

## 4. Fairness

- Engine: weak fairness of each actor's loads, writes, loop heads and step results, and
  of taking the executor lock, which stands for the caller who runs `operation run` again
  after a crash. No crash, cancel or retry is owed.
- Shells: a shell that waits polls the record, an executor runs its steps. No user answers
  a question, and no executor need survive.
- Recorder: weak fairness of each worker and of the reader. A lease that is never released
  is excepted, because the code waits for it.
- Maintenance: the daemon's threads run, requests end, a living client goes on, the kernel
  releases the flock of a dead one. Nobody need start or crash.
- Delta: the worker polls for ever (`_run` survives every exception), the server runs its
  sweep at start, the control thread finishes a recovery. CatchesUp excepts a worker that
  is stopped, blocked or refused, whose checkpoint directory was swept, or whose target is
  in the way: `Halted` names each of them.
- Publish: the three threads poll. Strong fairness holds for a switch that a retried
  handshake waits for: its deadline is 300 s and the worker polls every 2 s, so of the
  handshakes tried for ever one is answered in time.
- Collector: the publication thread runs; storage faults, crashes and clients are not owed.

## 5. Proofs

Eight modules hold theorems; every constant is arbitrary within the named assumptions.

| Theorem | Statement | Also checked in |
|---|---|---|
| `TypeCorrect` | engine: `Spec => []TypeOK` | |
| `CancelSafety` | `Spec => []CancelHonoured` | `operations` |
| `CancelPersists` | `Spec => []CancelNeverOverwritten` | `progress` |
| `StepOwnership` | `Spec => []StepOwnsRecord` | `operations` |
| `PhasesComplete` | `Spec => []NoPhaseSkipped` | `operations` |
| `CreationAgreement` | `Spec => []CreatorsAgree` | |
| `TransitionsLegal` | `Spec => LegalTransitions` | |
| `Refinement` | `Spec => ImplementsContract` | `operations` |
| `SeamInvHolds` | seam: `SeamSpec => []SeamInv` | |
| `EpochProvenHolds` | `SeamSpec => []EpochProven` | `maintenance_seam` |
| `ReplacedInQuietHolds` | `SeamSpec => ReplacedInQuiet` (an action property) | `maintenance_seam` |
| `NoForeignSidecars` | the log beside the store is its own | |
| `StoreCompleteHolds` | if every client can read the store, `SeamSpec => []StoreComplete` | `operations` |
| `ServerInvHolds` | server: `ServerSpec => []ServerInv` | |
| `AdapterHolds` | `ServerSpec => []AdapterVerified` | `typing` |
| `AnswersHold` | `ServerSpec => []AnswersCurrent` | `typing` |
| `PlansSound` | matrix: `PlanSound`, and so `MCSpec => []PlansAreSound` | `operations` |
| `StatusIsHonest` | status: `StatusHonest`, and so `MCSpec => []SnapshotsAreHonest` | `operations` |
| `RebuildInvHolds` | rebuild: `RebuildSpec => []RebuildInv` | |
| `RebuildIsSound` | `RebuildSpec => RebuildSound` (two action properties) | `operations` |
| `PublishInvHolds` | publish: `Spec => []PublishInv` | |
| `ManifestHolds` | `Spec => []ManifestSound` | `generation_publish` |
| `PointerImplemented` | `Spec /\ []~overlap => ImplementsPointer` | `generation_publish` |
| `DeltaInvHolds` | delta machine: `Spec => []DeltaInv` | |
| `ServedExactHolds` | `Spec => []ServedExact` | `workers` |
| `InvalidateQuiescedHolds` | `Spec /\ [][PrepareBegin => registered]_vars => []InvalidateQuiesced` | refuted without the condition by `second_round` |
| `CheckpointsSoundHold` | `Spec /\ [][PrepareBegin => registered]_vars => []CheckpointSound` | |
| `CheckpointSoundHolds` | if `MaxRounds <= 1`, `Spec => []CheckpointSound` | `workers` |
| `RecorderInvariant` | recorder: `RecorderSpec => []RecorderInv` | |
| `AcceptedInOrderHolds` | `RecorderSpec => []AcceptedInOrder` | |
| `CountsHonestHolds` | `RecorderSpec => []CountsHonest` | |
| `GapExactHolds` | `RecorderSpec => []GapExact` | `operations`, as a part of EvidenceHonest |
| `EvidenceHonestHolds` | if `MaxIoFaults <= 3`, `RecorderSpec => []EvidenceHonest` | `operations` |
| `StoreInvHolds` | store operations: `StoreOpsSpec => []StoreInv` | |
| `ReplacementSafeHolds` | `StoreOpsSpec => ReplacementSafe` (an invariant and an action property) | `store` |
| `OwnPublicationHolds` | `StoreOpsSpec => OwnPublicationKnown` (an action property) | `store` |
| `FactInvHolds` | fact store: `FactStoreSpec => []FactInv` | |
| `FactsAreKept` | `FactStoreSpec => FactsKept` (invariants and action properties) | `store` |
| `CollectorInvariant` | collector: if `"torn" \notin Faults`, `CollectorSpec => []IInv` | |
| `AdmittedIsAccounted` | the same for `[]AdmittedAccounted` | `workers` |
| `PrefixIsKept` | the same for `[]PublishedPrefixKept` | refuted without the condition by `torn_append` |
| `OutcomesHold` | restore: `ManagementSpec => [](OutcomeAgrees /\ HoldEnds) /\ OutcomeFinal` | `archive`, as parts of RestoreSound |
| `RestoreIsSound` | if `~Overlap`, `ManagementSpec => RestoreSound` (invariants and an action property) | `archive` |
| `CommandInvHolds` | maintenance shells: `CommandSpec => []CommandInv` | |
| `ReplacesHolds` | `CommandSpec => ReplacesWhatWasAgreed` (an action property) | `progress` |
| `OutcomeIsNotMissed` | `CommandSpec => OutcomeNotMissed` (an action property) | `progress` |
| `DaemonInvHolds` | control tool: `DaemonSpec => []DaemonInv` | |
| `VerifyLeavesNothingHolds` | `DaemonSpec => []VerifyLeavesNothing` | `operations` |
| `StartNeverRefuses` | every step of a start spawns a daemon | |

**OperationsProofs** (`PhaseAssumption`, `ActorAssumption`; any set of actors). All
rest on `Invariance`, `Spec => []Inv`. CancelHonoured is not inductive: it says nothing of a
canceller whose write is under way. `Inv` adds `ControlInv` (who holds the executor lock,
which transforms an actor may be applying), `CopyInv` (a loaded copy whose revision is
still the record's is the record, so a successful compare-and-swap applies its transform to
the current state), `StepOwnsRecord` and `UnsupportedInv`, and `BirthInv`, `DoomInv`,
`ExecutedInv` (a record before its creation, a cancelled record, the executed phases).
`WriteFacts` turns a successful write into facts about old and new record proved once per
transform; steps that write nothing go through `MoveInv`. The refinement needs `Inv` for the
steps that set the fate.

**MaintenanceSeamProofs** (`SeamAssumption`, `NamesAssumption`; any clients, any finite set
of readers). `SeamInv` is the conjunction of types, `LockInv` (who may hold the flock,
given where clients stand), `ThreadInv` (what a control thread at each point knows of the
coordinator), `QuietInv` (while a client holds the exclusive flock, nothing of the daemon
has the store open), `ConnectionInv` and `HeldInv` (who owns the lease, what was answered),
`OrphanInv` (the flock of a dead client), `EpochInv` and `StoreInv`. EpochProven alone is not
inductive: that the epoch stays as it was read follows only from the flock, and that the
flock is exclusive from what the daemon closed before it answered. The steps of readers and
threads and those of clients are framed once (`DaemonFrame`, `ClientFrame`). StoreComplete
needs `Unreadable = {}`, and does not hold without it: a client that replaces a store it
cannot read removes the log of a main file that is not whole, before the rename; its bytes
are in quarantine by then.

**ScoringServerProofs** (`RequestShape`). `ServerInv` relates the connection, the lease,
the model that is loaded, the fingerprint that was read before the hashes, the snapshot the
request pinned and the trace frames. AdapterVerified follows because the fingerprint is read
before the files are hashed, so what changed in between differs from it; AnswersCurrent
because the lease keeps maintenance out while a snapshot is pinned.

**GenerationPublishProofs** (`PublishAssumption`). `PublishInv` has seven parts that hold in
every behaviour, and two that hold while no sweep has run beside a publish. ManifestSound is
not inductive: the manifest may name a generation only because the publish verified it, and
that a container is still there when the manifest is written needs `KeptInv` (no sweep lists
what the manifests and the publish need, the checkpoint of the build survives, a container
named by the manifest is not built again) and `RecordInv` (a build is in one place). That
what is served is what a restart loads is `KnownInv`, from `TransactionInv` (publisher's
fields against the manifest) and `WorkerInv` (a rebuild hides the snapshot first, and never
happens while the worker refuses). `HandshakeInv` ties the queued switch to the manifest:
a publish is over only when its generation is served. `RebuildBeginEffect`,
`PublishRegisterEffect` and so on say once what the larger actions do; then there is one
lemma per part with one leaf per action. In the refinement a damaged manifest is Lose, a
crash or the start of a rebuild Hide, a start Rebuild or Recover, the worker's switch Show,
the commit of the publisher Commit.

**DeltaMachineProofs** (`BoundsAssumption`; any commits, any bounds). ServedExact speaks of an
answer and the log; what carries it is `DeltaInv`, which follows a change on its way. `LogInv`
orders the log: a commit is the first change of its id, so a retraction in a later window
removes what an earlier one added (`BatchExact`, the lemma that one more batch on an exact
mirror gives an exact mirror). `GensInv` says that a generation of the store's epoch is the
projection at its watermark, `FileInv` that a checkpoint file covers a window from its base's
watermark on, `PathInv` that the file in the machine's directory holds what the mirror holds,
`MirrorInv` that the mirror covers such a window and is exact, `BatchInv` that the batch in
flight begins where the mirror ends, `BuildInv` that a rebuild publishes nothing before it
installs, and into a directory where nothing was written; `SnapInv` and `QueryInv` carry this
to the answer. The mirror need not be exact in one case: the coordinator drops it under a
worker that is in the middle of a batch, which a second round may do. `Clean` excludes the
states after such a drop up to the end of the rebuild, and `CoordInv` shows that no query is
let in meanwhile. That a blocked checkpoint is loaded without `_verify_snapshot_vs_facts` is
covered by `LoadedExact`: in the first epoch every file is exact, later a start builds its
target, and only a bare file can belong to it. CheckpointSound needs `SoundInv` on top, which
is inductive only while `QuietInv` holds: the worker is parked from the prepared state until
the rebuild is queued. This is where a second round of one process breaks the chain, hence the
condition of the last three theorems; `FirstRound` shows that the first round of a behaviour
meets it, whatever crashes and restarts come before.

**RecorderCoordinatorProofs** (`RecorderAssumption`; any processes, items, limits, crashes and
leases). The parts of the invariant follow the data. `WorkerInv`, `MarkerInv` and `RecordInv`
say what a worker at each control point has in hand, what its marker holds, and that the flock
makes it the only writer of the record. `OrderInv` (what is queued is younger than what is
stored) gives AcceptedInOrder; `BooksInv` and `CountsInv` (an item is in one place) give
CountsHonest. `FaultlessInv`, `CountedInv` and `AtRestInv` describe the behaviours without
failures, in which every item is stored, held or counted and record and lock agree whenever
nobody holds the flock: that is GapExact. None of these limits the failures.
EvidenceKept does. Four things can note a loss that is not counted yet: the marker, the intent,
the state in the lock file with the record behind it, and the marker again at the end of the
flush. Each costs a failing operation to lose, so `CostInv` counts the failures that a worker
without evidence has already met, and `AccountInv` says that an item is stored, held by its
process, or evident. With `MaxIoFaults = 4` TLC finds a behaviour of 12 states, one process, one
item, no crash, in which EvidenceKept is false; so 3 is the largest bound for which the
theorem is true. `ReaderInv` says that what was evident when a read began is still ahead of
it or has been noted: evidence moves from the marker and the intent to the record, and the
reader looks at them in that order.

**StoreOperationsProofs** (`OperationShape`, `BoundsAreNaturals`; any operations of any kinds,
any paths, stores and bounds). NeverReplacedUnkept looks at the one step that replaces the
store; what it needs was established steps earlier, by the check under the lease and by the
copies made after it. `ReadyInv` says what of it still holds at each step in between, and
`Kept`, its last part, is what the property asks for. It is inductive because the lease has
one holder (`LeaseInv`), so no recorder and no other replacement touches the store; because a
backup or another `--backup-current` writes a container only where there is none; and because
of the two steps that remove a quarantined copy, the cleanup of a clear is not reached while the
store is unreadable (`DoneInv`), and the purge removes only a copy that was complete, which the
invariant remembers (`Quarantined`). The theorem therefore says that the copy of an unreadable store
was completed before the replacement, not that nobody has purged it since (section 6). `FreshInv` says why an epoch names a
store: a staged store with an epoch of its own shares it with no store, no other staging and
no record. `BackupInv` carries a backup's facts from the store to the staging and the
destination. For OwnPublicationKnown `DoneInv` adds that an operation that has replaced the
store is past its staging, and `StageInv` that a swept staging has no epoch, so that a staging
which names the live store is there in full. One lemma per action; steps that change nothing
but a record go through `BlockStep`, `AdvanceStep` or `RecordStep`, those that keep the lease
through `LeasedStep`, and `OtherKeeps` frames the operations that do not act.

**The rest of OperationsProofs** (`CommandShape`, `DaemonShape`, `RebuildShape`, `RebuildNames`;
any shells, tools, pids, operations, representations and identities).
For ReplacesWhatWasAgreed `AgreedInv` follows what was agreed from the prompt into the record, and
`RunnerInv` says that a record is made before an executor runs it and is run by one at a time,
so that nobody else writes what a running one goes by. OutcomeNotMissed compares what a shell says
with what its executor did before it left. `WatchInv` ties them: a shell watches an executor of its
own, which runs the watched operation and leaves its record over if it ended it; the grace begins
when the executor is gone, so a record that was loaded in the grace and is not over is one that the
executor did not end. It needs that an operation that is over stays over.

VerifyLeavesNothing speaks of the end of a verification; `ChildrenTracked` says for each point of it
which child the tool has and that the pid file of its own directory names it, so that the stop at the
end reaches it. The same invariant shows that `cmd_start` never refuses.

RebuildSound says that a full rebuild keeps the build that it was created for until that build is
published, and that what becomes active was a ready build of the snapshot's epoch. `RebuildInv` holds
what the machine of an executor knows while the daemon's own machine works on the same records: there
is at most one live build, the manifest names an existing generation, the machine of a full rebuild
is tagged with its operation, forced, and has the representation of the pinned build (`MachineOf`),
and only a full rebuild has a build tagged with it (`AskedFor`). `RebuildNames` says that this
program reads the format it writes, that its own index fingerprint is well formed
(`compose_index_fingerprint` writes the prefix that the check asks for), and that names are distinct.

The matrix and the status report have no state. What they promise is a fact about operators, proved
for all identities and for everything that can be read (the agreement of status and engine for
plainly spelled switches); `MCOperations` states it as an invariant.

**The fact store in StoreOperationsProofs** (`VersionsAssumption`, `StepsAssumption`,
`RecodeAssumption`, `BoundsAssumption`, `ProcsAssumption`, `StartAssumption`; any processes, files,
schema steps and clocks). FactsKept says that the history of a store is only extended: rows in the
order of the clock, a read as of a point that never changes under one epoch, a migration that loses
no commit, snapshots that pass their inspection. Neither part is inductive: a batch is in order only
because it began above a clock that nobody else has moved since (`BatchInv`), and two files agree on
the past only because an epoch was given to one store and its copies (`EpochInv`, `OldInv`,
`PastInv`). `FactInv` adds types, leases (`ConnInv`) and the state of closed files (`FilesInv`).
`RecodeAssumption` says that a step which changes what an old row means counts as one that changes
rows, as `fact_migrator.cc:400` does; `StartAssumption` that the store found at first was left by
this program, with identities it does not hand out again.

**The collector in ArchiveProofs** (`ObservationShape`, `LimitsPositive`, `BoundsAreNaturals`; any
observations, limits and bounds). AdmittedAccounted is not inductive. It counts a conflicting body on
its way to the quarantine file as one on its way to the log, and forgets that what is lost while the
process stops was counted before. `IInv` keeps three accounts instead: that of the running process, that
of its file once a stop was clean, and that of the waiting checkpoint (`RunningAccount`,
`SealedAccount`, `CheckpointAccount`). `LogInv` says that log, watermarks, staged lines and index agree
(which makes a shown row durable, `ShownInv`), `IdInv` that no two of the units queued, staged and
recorded share an identity, and that the collector knows the identities of all of them (which keeps a
retry from being published twice), `Stages` and `CleanInv` what each state of the process leaves its
thread and its file. The accounts are comparisons of cardinalities: `GapShrinks` and `GapGrows` say
once how a step changes the two sides. The hypothesis `"torn" \notin Faults` excludes the one fault
for which the statement is false (section 6, 4).

**The restore in ArchiveProofs** (`JobsAssumption`, `BoundsAssumption`; any producers, jobs, rows,
edits and deaths). The proof is in two layers. `ControlInv` needs no hypothesis: which job the
thread has and in which state (`WorkerInv`), which locks it holds at which step (`LockInv`), what
documents and authority say of a job that was committed or closed (`OutcomeInv`). OutcomesHold
follows from it alone. `ContentInv` adds what is on disk. RestoreSound speaks of the serving content
only; what makes it inductive is that every watermark covers its rows (`FilesInv`), so that neither
reload nor restart cuts anything; that what was copied, compared and noted before the commit
point is still so at it (`RestoreInv`), since mutex, gate and transition flag stop publisher, clients
and producers one after the other; that every row and every leased edit on its way was let in for the
generation that serves (`FenceInv`), and none is on its way at a switch; that memory and files name one
content unless the collector gave up with nothing under way (`MemoryInv`, `Halted`); and that a
restore's source is a backup that succeeded and never changes again (`BackupInv`, `DocumentsKept`). The
hypothesis is used in one step, `AcquireGate`: no checkpoint has read its bytes when the gate closes.

**Only model-checked.** The refinement of ActivePointer in behaviours with an overlap: a
switch left in the queue may be joined by a later publish of another generation, and that
it is not taken then needs the history of both; TLC finds no violation. RecorderTypeOK's
limits on the queue, since `SelectSeq` is recursive. That the gap record is neither
written in another order nor twice is said by `GapExactHolds` for behaviours without failures; with failures
EvidenceHonest promises evidence, not counts. With two overlapping processes TraceHonest claims
acknowledgements only. The safety of session, producer, trace and
oracle (RerankSound, RecordingTrue, ArchivedFaithfully, TraceHonest, OracleExact) and of the archive's
queries and datasets (QueryExact, DatasetSound): plans, queues, joins and
datasets are computed there by recursive functions, folds and `SelectSeq`, which stay opaque to the
provers. Induction over such data is out of reach because the library's induction theorems take an
operator; what is within reach is the least element of a set of counterexamples, which the collector's
proofs use (`WFMin`). Liveness under fairness and `ENABLED` (OperationSettles, WatchEnds,
RecorderProgress, SeamProgress, CatchesUp, CommittedServed, CheckpointConcludes).

## 6. Findings and observations

Four runs show a disagreement between the code and what the repository says
(`PROJECT.json`, findings):

1. `archive_overlap`: a checkpoint of the publication thread does not pass the management
   gate, so it can write the old content's watermark into the content just restored.
2. `daemon_stop`: `deploy.py stop`, run in another process than `start`, takes the error of
   `waitpid` for an exit, never sends the kill and removes the pid file of a living daemon.
3. `second_round`: prepare unregisters the delta machine and nothing registers it again, so the
   second round of a process discards derived state under a running worker, against the
   docstring of `invalidate`. By `ServedExactHolds` no answer is wrong for it; what a restart
   would load from disk may be.
4. `torn_append`: an append that fails halfway leaves its bytes in the log. The publication thread
   goes on with the queue, appends behind them, and computes offsets and watermark without them. The
   next restart cuts the log at that watermark and stops reading at the torn line: rows that were
   published and shown are gone, against `input-archive.md:799`. Only this fault breaks the account:
   `AdmittedIsAccounted` and `PrefixIsKept` hold with every other.

Modelling met more. What follows is part of the models (the properties are stated so that
they hold with it), or was seen in the code and lies outside of them.

**Publish, staging and retention**

- A staged build that is stopped or blocked in its first chunk never resumes: `_build_chunks`
  creates the vectors file with `O_EXCL` whenever the first row is due (`generation.py:808`),
  and no chunk is recorded yet, so `_resume_build` fails in every cycle and `retry` does not
  help. The docstring promises a resume from the last verified chunk. It is the "begun" record
  of `GenerationPublish` and `RebuildOperation`. The progress record is also written before
  the `fsync` of the rows that it counts.
- The publish lock does not cover every sweep: that of the start thread (`server.py:1497`) and
  that after an epoch's rebuild (`delta.py:1756`) run without it and may delete what a publish
  is about to name. The model calls this `overlap`. Only after it can a leftover queued switch
  be joined by a later publish of another generation.
- A publish whose switch was refused because the epoch moved is tried for ever
  (`publish.py:846`); a retried publish neither sweeps nor reports its success; the identity the
  staging machine took for active is kept too long (`staging.py:178`); a target that reappears
  finds the leftovers of the first attempt in its way (`generation.py:1076`); after an epoch
  change and a restart the manifest may name a generation that was swept, and the start is
  refused. `retry` writes into the directory of a fresh target; `retarget` is used by tests only.

**Delta machine and maintenance**

- With no active manifest the sweep at start deletes the generation that is served
  (`retention.py:445`). A fact recorded while the recovery's generation is built makes the
  build fail with its request forgotten (`delta.py:1689`), and the coordinator waits.
- A prepare that fails while the coordinator's own handle is registered keeps its shared lease
  (`coordinator.py:239`). A round that leaves the epoch alone returns to serving with the worker
  stopped (`coordinator.py:445`). The end of a dead client's connection may be processed before
  its flock is gone; the daemon is then blocked until it restarts.

**Recorder, session and producer**

- A commit accepted before the worker has made the process marker is lost by a crash without
  evidence (`recorder_coordinator.cc:641`); an "unknown" marker becomes clean again with the
  next flush; a submission after the worker's end is a gap that nobody writes. EvidenceHonest
  names these exceptions.
- An automatic selection is recorded as an explicit one (`llm_rerank_recorder.cc:234`); a
  reopened segment selected with the same text records its old event; a key that stays in
  flight labels a later mouse click; interleaved groups are regrouped; the deadline for evidence
  begins after the language model's call; a commit that is not UTF-8 spoils the context for good.
- The producer drops a batch silently if the destination is not safe, counts unreadable answers
  to a loss notice as sent, and lets a held notice go after the policy was switched off. A
  retraction that was resolved and queued again loses its content. An observation that was
  refused beside a later one that was taken, in an answer that got lost, is sent again and is
  then archived after it: ArchivedInOrder names this exception.

**Serving, tracing and status**

- After an in-place change of the adapter its fingerprint is forgotten, so each request
  reloads the model until an idle unload (`server.py:440`). A request's frame may carry the
  digest of the previous load. An index that fails is answered as an oracle fault.
  The identity of a request is checked before the lease and the snapshot is taken after it, so a
  publish switch in between answers from another representation than the request named, against
  the docstring of `config_identity` (`evidence.py:470`): `IdentityServed` is stated and false.
  `_derived_watermark` (`evidence.py:863`) calls properties as methods, so the trace has none.
- An alarm that was dismissed fires again (`tracing.py:1063`, against its docstring); the lock of
  the trace is one of threads, while the command line writes too; `client_apply.jsonl` is not
  truncated and refuses acknowledgements after 1 MiB.
- The status exits with 1 for blocked facts though every duty is off, and with 0 for the evidence
  duty of a daemon that is not running. `resolve_switch_config` says that it mirrors librime's
  `Config::GetBool` (`status_core.py:93`), but a plain `yes`, `no`, `on` or `off` is a boolean for
  PyYAML only, so the report takes for configured what the engine takes for absent; a quoted
  `"true"` is one for librime only. `test_status.py:318` covers the word as a string only.

**Operations and shells**

- `rebuild --retry --wait` reports the old block at once, and `rebuild --wait` may report the exit
  of an executor that lost the lock to another. A retried rebuild does not continue a build
  that the daemon has finished; in automatic mode it never builds. The restore's confirmation
  shows the backup's id and stores its path only.
- A clear that finds nothing to remove may report "cleared" (`clear_operation.py:1328`); the
  outcome of a restore is not stable over a retry (`restore_operation.py:1219`); a purge asks for the
  operation and the fingerprint only (`quarantine.py:444`), so one that is given while the restore is
  still running takes the last copy of an unreadable store before or after the store is replaced; a crash under
  `--backup-current` makes each retry fail (`restore_operation.py:793`); the cleanup of one
  restore sweeps the staging of every other, and may do so between the other's check and its
  rename (`restore_operation.py:1250`): that replacement then fails and the store stays. The
  publication of a migrated store compares its history only. Production ships no schema step;
  in a chain only the first step's projection is compared.
- `start` never finds a daemon running (`StartNeverRefuses`): `pid_alive` takes every daemon that
  this process did not spawn for dead (`deploy.py:175`), so a second start puts its pid over that
  of the daemon that serves.
- The control tool looks for READY in a log that is appended to, and a daemon that starts unlinks
  the socket of another.

**Archive**

- The mark of a clean stop compares sizes and a failure flag only
  (`collector.py:1848`); a crash's tail is forgotten with the next clean restart.
- A reserved operation that was never saved stays "unknown" for ever; a later restore discards
  the staged content of an earlier job whose record is still marked at the next start
  (`management.py:67`). The daemon's rows carry no continuity segment, so no query cuts them.

## 7. Not modelled

Representations (a vector is the deterministic image of its event in every module), the
numerics of scoring and vector search, SQLite's and the kernel's insides, sockets, message
syntax, file modes and paths, rendering of the command line, the archive's terminal and web
interfaces, offline evaluation (`src/eval/`), the release checks (`src/tools/`) and the Rime
engine. Components with status `partly` in `PROJECT.json` have a note that names what is left
out: framing and peer checks of the control protocol, members of containers, the space
estimates of retention, the tool's output of the fact store, installation by the control tool,
and `clear` of the trace store.

## 8. Plan

What is modelled and only checked would be proved next, in this order; each proof starts with an
inductive invariant that TLC has checked on a run's instance.

1. `ArchiveQuery`: QueryExact, with the join of a prefix in closed form (the first witness of each
   edge) instead of a fold, so that what is kept incrementally can be compared with it.
2. `ArchiveProducer`, `TraceStore`, `InputSession`: ArchivedFaithfully, TraceHonest and RerankSound,
   once their queues and plans are written without `SelectSeq` and folds.
