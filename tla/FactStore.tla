----------------------------- MODULE FactStore -----------------------------
(***************************************************************************)
(* The fact store as its own processes see it: recorders and maintenance   *)
(* helpers open one SQLite file under a shared lease, initialise it if     *)
(* they are the first, append batches and retractions inside BEGIN         *)
(* IMMEDIATE transactions that tick the stored hybrid clock, take          *)
(* snapshots, and, on snapshot files only, migrate the schema and mint the *)
(* epoch of a restore.  The wall clock may jump either way.                *)
(*                                                                         *)
(* SQLite is external and keeps its contract: one writer at a time, a      *)
(* transaction is seen whole or not at all, a backup copies one read       *)
(* point.  What a row says is a text class: "short" (canonical), "long"    *)
(* (an old format's, longer than 64 characters) or "bad" (not convertible).*)
(***************************************************************************)
EXTENDS Integers, Sequences, FiniteSets

CONSTANTS
    Procs,          \* recorder and helper processes
    Files,          \* staged database files outside the live root
    SchemaNow,      \* kFactSchemaVersion
    FormatNow,      \* kEventFormatVersion
    Steps,          \* g_steps: from-version |-> [changes, recode]
    StartStores,    \* what the live root may hold at first
    MaxWall, MaxStored, MaxBatch, MaxIds, MaxSnapshots

ASSUME VersionsAssumption == SchemaNow \in Nat /\ FormatNow \in Nat
ASSUME StepsAssumption == DOMAIN Steps \subseteq 0 .. (SchemaNow - 1)
\* A step that changes what an old row means says so, and gives a new epoch.
ASSUME RecodeAssumption == \A v \in DOMAIN Steps : Steps[v].recode => Steps[v].changes
ASSUME BoundsAssumption ==
    MaxWall \in Nat /\ MaxStored \in Nat /\ MaxBatch \in Nat /\ MaxIds \in Nat /\ MaxSnapshots \in Nat

ASSUME ProcsAssumption == "nobody" \notin Procs

Texts == {"short", "long", "bad", "missing"}
Rows == [kind : {"event", "retraction"}, commit : Nat, hlc : Nat \X Nat, format : Nat, text : Texts]
LiveStores == [kind : {"store"}, schema : Nat, format : Nat, hist : Nat, epoch : Nat,
               clock : Nat \X Nat, facts : Seq(Rows), wal : BOOLEAN]
Absent == [kind |-> "absent"]

HlcLess(a, b) == a[1] < b[1] \/ (a[1] = b[1] /\ a[2] < b[2])
HlcLeq(a, b) == a = b \/ HlcLess(a, b)

\* Facts in the order of their clocks, none above the clock of the store.
InOrder(s) ==
    /\ \A i, j \in DOMAIN s.facts : i < j => HlcLess(s.facts[i].hlc, s.facts[j].hlc)
    /\ \A i \in DOMAIN s.facts : HlcLeq(s.facts[i].hlc, s.clock)

\* What the live root holds at first was left there by this program, which
\* hands out identities it has not used (here: from FirstId on).
FirstId == 10
ASSUME StartAssumption ==
    \A s \in StartStores : s = Absent \/ (s \in LiveStores /\ InOrder(s) /\ s.epoch < FirstId)

VARIABLES
    root,       \* the live facts.sqlite3, or Absent
    staged,     \* [Files -> a standalone file, or Absent]
    conn,       \* [Procs -> the process's FactStore object]
    storeLease,      \* "free" or "exclusive": held by a maintenance operation
    txn,        \* the SQLite write transaction in progress, or NoTxn
    wall,       \* the host's wall clock
    ids,        \* fresh identifiers handed out so far (RandomUuid)
    snaps       \* snapshots taken so far

factStoreVars == <<root, staged, conn, storeLease, txn, wall, ids, snaps>>

NoTxn == [by |-> "nobody"]
Closed == [pc |-> "closed", mode |-> "none", sawMeta |-> FALSE, clock |-> <<0, 0>>]

-----------------------------------------------------------------------------
(* The hybrid clock.                                                       *)

\* Mutant: the physical part follows the wall clock wherever it goes.
FollowWall(clock, now) == IF now # clock[1] THEN <<now, 0>> ELSE <<clock[1], clock[2] + 1>>
\* GiveTick: forward with the wall clock, else the logical part alone.
GiveTick(clock, now) == IF now > clock[1] THEN <<now, 0>> ELSE <<clock[1], clock[2] + 1>>

-----------------------------------------------------------------------------
(* Files, schema versions and the validators.                              *)

RowsOf(s, kind) == {i \in DOMAIN s.facts : s.facts[i].kind = kind}
Events(s) == RowsOf(s, "event")
Commits(s) == {s.facts[i].commit : i \in Events(s)}
Retracted(s) == {s.facts[i].commit : i \in RowsOf(s, "retraction")}
IsStore(s) == s.kind = "store"

\* CurrentSchemaHead; every registered step ends at or below it.
CurrentSchemaHead == SchemaNow

DispositionFor(version) ==
    IF version = CurrentSchemaHead THEN "current"
    ELSE IF version > CurrentSchemaHead THEN "unsupported"
    ELSE IF version .. (CurrentSchemaHead - 1) \subseteq DOMAIN Steps THEN "needs_migration"
    ELSE "missing_step"

EventFormatIsTooNew(s) == s.format > FormatNow

\* The versions a mode accepts: a recorder only the head, a maintenance open
\* what can be migrated too.
Accepted(s, mode) ==
    /\ ~EventFormatIsTooNew(s)
    /\ DispositionFor(s.schema) \in
          {"current"} \cup IF mode = "recorder" THEN {} ELSE {"needs_migration"}

\* Mutant: an old store is opened for recording too.
ValidateLenient(s, mode) ==
    CASE EventFormatIsTooNew(s) \/ DispositionFor(s.schema) \in {"unsupported", "missing_step"} -> "db_unsupported_version"
      [] OTHER -> "ok"
\* ValidateMeta, and the same classification before any write.
ValidateMeta(s, mode) ==
    IF EventFormatIsTooNew(s) \/ DispositionFor(s.schema) \in {"unsupported", "missing_step"} THEN "db_unsupported_version"
    ELSE IF DispositionFor(s.schema) = "needs_migration" /\ mode = "recorder" THEN "needs_migration"
    ELSE "ok"

\* QueryEventStats: the highest event HLC, no event at all being <<-1, -1>>.
MaxEventHlc(s) ==
    IF Events(s) = {} THEN <<-1, -1>>
    ELSE s.facts[CHOOSE i \in Events(s) : \A j \in Events(s) : HlcLeq(s.facts[j].hlc, s.facts[i].hlc)].hlc

\* InspectSnapshotHandle: a standalone file whose versions are accepted and
\* whose clock is not below its highest event (a commit is its rows here).
InspectSnapshot(s, mode) ==
    /\ ~s.wal
    /\ Accepted(s, mode)
    /\ HlcLeq(MaxEventHlc(s), s.clock)

\* VerifyEmpty: no row in any fact table.
VerifyEmpty(s) == s.facts = <<>>

\* InitializeMeta: two fresh random identities, the clock at the wall clock.
InitializeMeta(id, now) ==
    [kind |-> "store", schema |-> SchemaNow, format |-> FormatNow, hist |-> id, epoch |-> id + 1,
     clock |-> <<now, 0>>, facts |-> <<>>, wal |-> TRUE]

-----------------------------------------------------------------------------
(* Migration and restore preparation of one standalone file.               *)

\* ProjectRow: by the row's own format; the step only picks the rule for an
\* old row.
ProjectRow(row, step) ==
    IF row.format = FormatNow THEN row
    ELSE [row EXCEPT !.format = FormatNow, !.text = IF step.recode /\ @ = "long" THEN "short" ELSE @]

\* A row that blocks the migration: unknown format, or not deterministic to
\* convert.
Unconvertible(row, step) ==
    \/ row.text = "missing"
    \/ row.format > FormatNow
    \/ row.format < FormatNow /\ step.recode /\ row.text = "bad"

\* ApplyStep over the chain.  The first step leaves every row canonical, so
\* the later ones preserve it.
ApplyChain(s) ==
    [i \in DOMAIN s.facts |->
        IF s.facts[i].kind = "event" THEN ProjectRow(s.facts[i], Steps[s.schema]) ELSE s.facts[i]]

ChainProjects(s) == \A i \in DOMAIN s.facts :
    s.facts[i].kind = "event" => ~Unconvertible(s.facts[i], Steps[s.schema])

ChainChanges(s) == \E v \in s.schema .. (CurrentSchemaHead - 1) : Steps[v].changes

\* ValidateMigratedStore: canonical rows, distinct HLCs, a clock no lower
\* than any of them.
ValidateMigratedStore(s) ==
    /\ \A i \in Events(s) : s.facts[i].format = FormatNow
    /\ \A i, j \in Events(s) : s.facts[i].hlc = s.facts[j].hlc => i = j
    /\ HlcLeq(MaxEventHlc(s), s.clock)

Migrated(s, id) ==
    [s EXCEPT !.facts = ApplyChain(s), !.schema = CurrentSchemaHead, !.format = FormatNow,
              !.epoch = IF ChainChanges(s) THEN id ELSE @]

\* Mutant: the chain keeps the epoch whatever it does to the rows.
MigrateKeepingEpoch(f) ==
    /\ IsStore(staged[f]) /\ staged[f].role = "copy"
    /\ DispositionFor(staged[f].schema) = "needs_migration" /\ ids < MaxIds
    /\ ChainProjects(staged[f])
    /\ staged' = [staged EXCEPT ![f] = [Migrated(@, ids) EXCEPT !.epoch = staged[f].epoch,
                                                                 !.role = "migrated"]]
    /\ UNCHANGED <<root, conn, storeLease, txn, wall, ids, snaps>>
\* MigrateFile: the whole chain in one transaction, validated before COMMIT;
\* an unconvertible row or a failed validation leaves the file as it was.
MigrateFile(f) ==
    /\ IsStore(staged[f]) /\ staged[f].role = "copy"
    /\ DispositionFor(staged[f].schema) = "needs_migration" /\ ids < MaxIds
    /\ ChainProjects(staged[f])
    /\ ValidateMigratedStore(Migrated(staged[f], ids))
    /\ staged' = [staged EXCEPT ![f] = [Migrated(@, ids) EXCEPT !.role = "migrated"]]
    /\ ids' = ids + 1
    /\ UNCHANGED <<root, conn, storeLease, txn, wall, snaps>>

\* Mutant: the backup's own epoch is published again.
PrepareWithoutMint(f) ==
    /\ IsStore(staged[f]) /\ ~staged[f].wal
    /\ ~EventFormatIsTooNew(staged[f]) /\ DispositionFor(staged[f].schema) = "current"
    /\ staged[f].role \in {"copy", "migrated"}
    /\ staged' = [staged EXCEPT ![f].role = "prepared"]
    /\ UNCHANGED <<root, conn, storeLease, txn, wall, ids, snaps>>
\* PrepareRestoreFile: a standalone head file gets one new epoch and keeps
\* its history, its facts and its clock; every other file is refused.
PrepareRestoreFile(f) ==
    /\ IsStore(staged[f]) /\ ~staged[f].wal
    /\ ~EventFormatIsTooNew(staged[f]) /\ DispositionFor(staged[f].schema) = "current"
    /\ staged[f].role \in {"copy", "migrated"}
    /\ ids < MaxIds
    /\ staged' = [staged EXCEPT ![f] = [@ EXCEPT !.epoch = ids, !.role = "prepared"]]
    /\ ids' = ids + 1
    /\ UNCHANGED <<root, conn, storeLease, txn, wall, snaps>>

-----------------------------------------------------------------------------
(* Opening and closing.                                                    *)

SharedHeld == \E p \in Procs : conn[p].pc # "closed" /\ conn[p].mode # "exclusive"

\* Open up to the lease: a busy lease is answered at once.  The exclusive
\* mode runs inside its caller's exclusive lease.
OpenLease(p, mode) ==
    /\ conn[p].pc = "closed"
    /\ IF mode = "exclusive" THEN storeLease = "exclusive" ELSE storeLease = "free"
    /\ conn' = [conn EXCEPT ![p] = [Closed EXCEPT !.pc = "leased", !.mode = mode]]
    /\ UNCHANGED <<root, staged, storeLease, txn, wall, ids, snaps>>

\* Open classifies the file before it writes anything.
OpenClassify(p) ==
    /\ conn[p].pc = "leased"
    /\ conn' = [conn EXCEPT ![p] =
          IF ~IsStore(root) \/ ValidateMeta(root, conn[p].mode) = "ok"
          THEN [@ EXCEPT !.pc = "classified", !.sawMeta = IsStore(root)] ELSE Closed]
    /\ UNCHANGED <<root, staged, storeLease, txn, wall, ids, snaps>>

\* Mutant: what was seen before the transaction decides who initialises.
InitializeAsSeen(p) ==
    /\ conn[p].pc = "classified" /\ txn = NoTxn
    /\ IF conn[p].sawMeta
       THEN /\ conn' = [conn EXCEPT ![p].pc = "open", ![p].clock = root.clock]
            /\ UNCHANGED <<root, ids>>
       ELSE /\ ids + 1 < MaxIds
            /\ root' = IF IsStore(root) THEN [InitializeMeta(ids, wall) EXCEPT !.facts = root.facts]
                       ELSE InitializeMeta(ids, wall)
            /\ ids' = ids + 2
            /\ conn' = [conn EXCEPT ![p].pc = "open", ![p].clock = <<wall, 0>>]
    /\ UNCHANGED <<staged, storeLease, txn, wall, snaps>>
\* Open's write transaction: the schema, and the meta rows read again inside
\* it, so that of two first openers one initialises and the other validates.
OpenInitialize(p) ==
    /\ conn[p].pc = "classified" /\ txn = NoTxn
    /\ IF IsStore(root)
       THEN /\ conn' = [conn EXCEPT ![p] = IF ValidateMeta(root, @.mode) = "ok"
                                           THEN [@ EXCEPT !.pc = "open", !.clock = root.clock] ELSE Closed]
            /\ UNCHANGED <<root, ids>>
       ELSE /\ ids + 1 < MaxIds
            /\ root' = InitializeMeta(ids, wall)
            /\ ids' = ids + 2
            /\ conn' = [conn EXCEPT ![p].pc = "open", ![p].clock = <<wall, 0>>]
    /\ UNCHANGED <<staged, storeLease, txn, wall, snaps>>

\* Mutant: the transaction of a dead process is left standing.
CloseKeepingTxn(p) ==
    /\ conn[p].pc # "closed"
    /\ conn' = [conn EXCEPT ![p] = Closed]
    /\ UNCHANGED <<root, staged, storeLease, txn, wall, ids, snaps>>
\* The destructor, a failing open, or the death of the process: SQLite rolls
\* an unfinished transaction back and the lease goes with the descriptor.
Close(p) ==
    /\ conn[p].pc # "closed"
    /\ conn' = [conn EXCEPT ![p] = Closed]
    /\ txn' = IF txn.by = p THEN NoTxn ELSE txn
    /\ UNCHANGED <<root, staged, storeLease, wall, ids, snaps>>

-----------------------------------------------------------------------------
(* Recording.                                                              *)

\* Mutant: the clock cached when the connection was opened is ticked.
BeginFromCache(p) ==
    /\ conn[p].pc = "open" /\ conn[p].mode = "recorder" /\ txn = NoTxn
    /\ ids < MaxIds /\ Len(root.facts) < MaxStored
    /\ txn' = [by |-> p, commit |-> ids, clock |-> conn[p].clock, added |-> <<>>]
    /\ UNCHANGED <<root, staged, conn, storeLease, wall, ids, snaps>>
\* PersistBatch: BEGIN IMMEDIATE, then the stored clock, never the cached one.
BeginBatch(p) ==
    /\ conn[p].pc = "open" /\ conn[p].mode = "recorder" /\ txn = NoTxn
    /\ ids < MaxIds /\ Len(root.facts) < MaxStored
    /\ txn' = [by |-> p, commit |-> ids, clock |-> root.clock, added |-> <<>>]
    /\ UNCHANGED <<root, staged, conn, storeLease, wall, ids, snaps>>

\* One event of the batch: a tick against the wall clock of that moment.
AddEvent(p) ==
    /\ txn.by = p /\ Len(txn.added) < MaxBatch /\ Len(root.facts) + Len(txn.added) < MaxStored
    /\ LET hlc == GiveTick(txn.clock, wall) IN
       txn' = [txn EXCEPT !.clock = hlc,
                          !.added = Append(@, [kind |-> "event", commit |-> txn.commit, hlc |-> hlc,
                                               format |-> FormatNow, text |-> "short"])]
    /\ UNCHANGED <<root, staged, conn, storeLease, wall, ids, snaps>>

\* Mutant: the clock row is not written with the batch.
CommitWithoutClock(p) ==
    /\ txn.by = p /\ txn.added # <<>>
    /\ root' = [root EXCEPT !.facts = @ \o txn.added]
    /\ conn' = [conn EXCEPT ![p].clock = txn.clock]
    /\ txn' = NoTxn
    /\ ids' = ids + 1
    /\ UNCHANGED <<staged, storeLease, wall, snaps>>
\* RecordMetaClock and COMMIT.  A chmod that fails afterwards changes no
\* fact and is no lost batch.
CommitBatch(p) ==
    /\ txn.by = p /\ txn.added # <<>>
    /\ root' = [root EXCEPT !.facts = @ \o txn.added, !.clock = txn.clock]
    /\ conn' = [conn EXCEPT ![p].clock = txn.clock]
    /\ txn' = NoTxn
    /\ ids' = ids + 1
    /\ UNCHANGED <<staged, storeLease, wall, snaps>>

\* A statement failed: ROLLBACK, the batch is reported lost.  A COMMIT that fails is
\* reported the same way, but no ROLLBACK follows it: either SQLite has rolled back of
\* itself, which is this step too, or the transaction stays open until the destructor,
\* with which the coordinator ends every item, rolls it back (Close).
RollbackBatch(p) ==
    /\ txn.by = p
    /\ txn' = NoTxn
    /\ UNCHANGED <<root, staged, conn, storeLease, wall, ids, snaps>>

\* Mutant: the retraction is stamped with the clock as it stands.
RetractUnticked(p, c) ==
    /\ conn[p].pc = "open" /\ conn[p].mode = "recorder" /\ txn = NoTxn
    /\ c \in Commits(root) \ Retracted(root) /\ Len(root.facts) < MaxStored
    /\ root' = [root EXCEPT !.facts = Append(@, [kind |-> "retraction", commit |-> c, hlc |-> root.clock,
                                                 format |-> FormatNow, text |-> "short"])]
    /\ UNCHANGED <<staged, conn, storeLease, txn, wall, ids, snaps>>
\* AppendRetraction: an unknown or retracted commit is left alone (a stutter);
\* else one tick, one row and the clock in one transaction.
AppendRetraction(p, c) ==
    /\ conn[p].pc = "open" /\ conn[p].mode = "recorder" /\ txn = NoTxn
    /\ c \in Commits(root) \ Retracted(root) /\ Len(root.facts) < MaxStored
    /\ LET hlc == GiveTick(root.clock, wall) IN
       /\ root' = [root EXCEPT !.facts = Append(@, [kind |-> "retraction", commit |-> c, hlc |-> hlc,
                                                    format |-> FormatNow, text |-> "short"]),
                               !.clock = hlc]
       /\ conn' = [conn EXCEPT ![p].clock = hlc]
    /\ UNCHANGED <<staged, storeLease, txn, wall, ids, snaps>>

\* QueryActiveEventsAsOf: the events up to a point that no retraction up to
\* the same point withdraws.
QueryActiveEventsAsOf(s, point) ==
    LET upTo == {i \in DOMAIN s.facts : HlcLeq(s.facts[i].hlc, point)} IN
    {<<s.facts[i].hlc, s.facts[i].commit, s.facts[i].text>> : i \in
        {j \in upTo : /\ s.facts[j].kind = "event"
                      /\ ~\E r \in upTo : s.facts[r].kind = "retraction"
                                          /\ s.facts[r].commit = s.facts[j].commit}}

-----------------------------------------------------------------------------
(* Snapshots, empty stores and the replacement of the live file.           *)

\* A snapshot file, and what the operation that made it wants it for.
Standalone(s, role) ==
    [kind |-> "store", schema |-> s.schema, format |-> s.format, hist |-> s.hist, epoch |-> s.epoch,
     clock |-> s.clock, facts |-> s.facts, wal |-> FALSE, role |-> role]
\* The same file in the place of the live one, opened for writing again.
Live(s) ==
    [kind |-> "store", schema |-> s.schema, format |-> s.format, hist |-> s.hist, epoch |-> s.epoch,
     clock |-> s.clock, facts |-> s.facts, wal |-> TRUE]

\* SnapshotTo by a maintenance open: one committed read point copied into a
\* new file, closed to a single file and inspected.
SnapshotTo(p, f) ==
    /\ conn[p].pc = "open" /\ conn[p].mode \in {"maintenance", "exclusive"}
    /\ staged[f] = Absent /\ snaps < MaxSnapshots
    /\ staged' = [staged EXCEPT ![f] = Standalone(root, "copy")]
    /\ snaps' = snaps + 1
    /\ UNCHANGED <<root, conn, storeLease, txn, wall, ids>>

\* RunCreateEmpty: a new root with fresh identities, proven empty and folded
\* into its main file.
CreateEmptyStore(f) ==
    /\ staged[f] = Absent /\ ids + 1 < MaxIds /\ snaps < MaxSnapshots
    /\ VerifyEmpty(InitializeMeta(ids, wall))
    /\ staged' = [staged EXCEPT ![f] = Standalone(InitializeMeta(ids, wall), "empty")]
    /\ ids' = ids + 2 /\ snaps' = snaps + 1
    /\ UNCHANGED <<root, conn, storeLease, txn, wall>>

\* AcquireExclusiveFor: a maintenance operation waits out the shared holders.
TakeExclusive ==
    /\ storeLease = "free" /\ ~SharedHeld
    /\ storeLease' = "exclusive"
    /\ UNCHANGED <<root, staged, conn, txn, wall, ids, snaps>>

ReleaseExclusive ==
    /\ storeLease = "exclusive" /\ \A p \in Procs : conn[p].mode # "exclusive"
    /\ storeLease' = "free"
    /\ UNCHANGED <<root, staged, conn, txn, wall, ids, snaps>>

\* replace_fact_database as its callers use it: a clear publishes an empty
\* store, a restore a prepared one, a migration the migrated copy of a live
\* store that still needs it and has the same history.
ReplaceRoot(f) ==
    /\ storeLease = "exclusive" /\ \A p \in Procs : conn[p].mode # "exclusive"
    /\ IsStore(staged[f])
    /\ \/ staged[f].role \in {"empty", "prepared"}
       \/ /\ staged[f].role = "migrated" /\ IsStore(root)
          /\ DispositionFor(root.schema) = "needs_migration" /\ ~EventFormatIsTooNew(root)
          /\ staged[f].hist = root.hist
    /\ root' = Live(staged[f])
    /\ staged' = [staged EXCEPT ![f] = Absent]
    /\ UNCHANGED <<conn, storeLease, txn, wall, ids, snaps>>

\* NowMs: the host's clock is set, forwards or back.
SetWall(now) ==
    /\ now # wall
    /\ wall' = now
    /\ UNCHANGED <<root, staged, conn, storeLease, txn, ids, snaps>>

-----------------------------------------------------------------------------
FactStoreInit ==
    /\ root \in StartStores
    /\ staged = [f \in Files |-> Absent]
    /\ conn = [p \in Procs |-> Closed]
    /\ storeLease = "free" /\ txn = NoTxn /\ wall \in 0 .. MaxWall /\ ids = FirstId /\ snaps = 0

FactStoreNext ==
    \/ \E p \in Procs, mode \in {"recorder", "maintenance", "exclusive"} : OpenLease(p, mode)
    \/ \E p \in Procs : \/ OpenClassify(p) \/ OpenInitialize(p) \/ Close(p)
                        \/ BeginBatch(p) \/ AddEvent(p) \/ CommitBatch(p) \/ RollbackBatch(p)
    \/ \E p \in Procs : \E c \in (IF IsStore(root) THEN Commits(root) ELSE {}) : AppendRetraction(p, c)
    \/ \E p \in Procs, f \in Files : SnapshotTo(p, f)
    \/ \E f \in Files : CreateEmptyStore(f) \/ MigrateFile(f) \/ PrepareRestoreFile(f) \/ ReplaceRoot(f)
    \/ TakeExclusive \/ ReleaseExclusive
    \/ \E now \in 0 .. MaxWall : SetWall(now)

FactStoreSpec == FactStoreInit /\ [][FactStoreNext]_factStoreVars

-----------------------------------------------------------------------------
(* Properties.                                                             *)

Stores == {s \in {root} \cup {staged[f] : f \in Files} : IsStore(s)}

\* What a process, the live file and a snapshot can be.
TypeOK ==
    /\ storeLease \in {"free", "exclusive"} /\ wall \in 0 .. MaxWall
    /\ \A p \in Procs : conn[p].pc \in {"closed", "leased", "classified", "open"}
    /\ txn # NoTxn => txn.by \in Procs /\ conn[txn.by].pc = "open" /\ IsStore(root)
    /\ \A s \in Stores : s.clock \in Nat \X Nat /\ s.schema \in Nat

\* Facts are numbered in the order they were committed, by whichever process
\* and whatever the wall clock did between two ticks: each HLC is above the
\* one before it, and the stored clock is not below the last (GiveTick,
\* PersistBatch and AppendRetraction read the clock inside the transaction).
HlcOrdered == \A s \in Stores :
    /\ \A i \in 1 .. Len(s.facts) - 1 : HlcLess(s.facts[i].hlc, s.facts[i + 1].hlc)
    /\ s.facts # <<>> => HlcLeq(s.facts[Len(s.facts)].hlc, s.clock)

\* A point the clock has reached is settled: as long as the epoch is the
\* same, the active events as of it never change again, whoever records,
\* retracts or migrates meanwhile (the derived data is built as of a point).
AsOfStable == [][IsStore(root) /\ IsStore(root') /\ root'.epoch = root.epoch =>
    \A point \in {root.clock} \cup {root.facts[i].hlc : i \in DOMAIN root.facts} :
        QueryActiveEventsAsOf(root', point) = QueryActiveEventsAsOf(root, point)]_factStoreVars

\* An epoch names one history: the live store and every snapshot with its
\* epoch agree on everything up to the older clock of the two, so a cache
\* keyed by the epoch cannot be wrong after a restore or a migration.
EpochNamesHistory == \A s, t \in Stores :
    s.epoch = t.epoch /\ HlcLeq(s.clock, t.clock) =>
        QueryActiveEventsAsOf(s, s.clock) = QueryActiveEventsAsOf(t, s.clock)

\* Every snapshot of an opened store passes the inspection it is published
\* under, also when writers committed while it was being taken.
SnapshotsPass == \A f \in Files : IsStore(staged[f]) => InspectSnapshot(staged[f], "maintenance")

\* A migration drops nothing: no fact a recorder had committed to the old
\* store is missing from the migrated one that replaces it (a recorder is
\* refused an old store, so nothing is added behind the snapshot's back).
MigrationKeepsFacts ==
    [][\A f \in Files : IsStore(root) /\ root' # root /\ IsStore(staged[f]) /\ staged'[f] = Absent
            /\ staged[f].role = "migrated" => Commits(root) \subseteq Commits(root')]_factStoreVars

\* The identity is made once: of several first openers one wins, and without
\* the exclusive lease nothing changes the history or the epoch again.
IdentityOnce == [][IsStore(root) /\ storeLease = "free" =>
    IsStore(root') /\ root'.hist = root.hist /\ root'.epoch = root.epoch]_factStoreVars

\* The history of a store is only extended: the clocks of its rows increase, an
\* as-of read never changes, a migration carries every fact over, the identity
\* is made once, and a snapshot passes the inspection it is published under.
FactsKept == [](TypeOK /\ HlcOrdered /\ SnapshotsPass /\ EpochNamesHistory) /\ AsOfStable /\ MigrationKeepsFacts /\ IdentityOnce

=============================================================================
