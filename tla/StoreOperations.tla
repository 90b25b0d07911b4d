-------------------------- MODULE StoreOperations ---------------------------
(***************************************************************************)
(* The operations that replace or copy the fact store: clear, restore (of  *)
(* a healthy, an unreadable or a missing store), migrate and backup.create *)
(* (clear_operation.py, restore_operation.py, migrate_operation.py,        *)
(* backup_operation.py) and the quarantine of unreadable stores            *)
(* (quarantine.py), run side by side by executors that may die at any      *)
(* file operation and be retried, while recorders go on writing.           *)
(*                                                                         *)
(* The engine that owns records and phases is OperationEngine, the lease   *)
(* protocol MaintenanceSeam; here a phase is durable once its step ends,   *)
(* and the lease is a lock that dies with its holder.  A store is its      *)
(* identity and its facts; a container or a quarantine copy is the store   *)
(* it was made of.                                                         *)
(***************************************************************************)
EXTENDS Naturals, FiniteSets, Sequences

CONSTANTS
    Ops,        \* operation ids
    Kind,       \* [Ops -> {"clear", "restore", "migrate", "backup"}]
    Mode,       \* restores: _restore_mode, "healthy", "unreadable" or "no-store"
    Keeps,      \* restores with --backup-current; the others discard
    From,       \* the container a restore reads
    Output,     \* the destination of a backup or of --backup-current
    Paths,      \* container paths
    StartPath,  \* a path that holds a container from the start
    StartWhole, \* whether that container may be damaged
    StartKinds, \* what the store may be at the start
    NoOp,
    Reinterprets, \* whether the migration step changes the facts' interpretation
    MaxOps,     \* operations created
    MaxFacts, MaxCrashes, MaxRetries

ASSUME OperationShape ==
    /\ Kind \in [Ops -> {"clear", "restore", "migrate", "backup"}]
    /\ Mode \in [Ops -> {"healthy", "unreadable", "no-store"}]
    /\ Keeps \subseteq Ops
    /\ \A o \in Keeps : Kind[o] = "restore" /\ Mode[o] = "healthy"
    /\ From \in [Ops -> Paths] /\ Output \in [Ops -> Paths]
    /\ StartPath \in Paths /\ StartWhole \subseteq BOOLEAN
    /\ NoOp \notin Ops /\ Paths \cap Ops = {}
    /\ StartKinds \subseteq {"ok", "old", "bad", "none"} /\ Reinterprets \in BOOLEAN
ASSUME BoundsAreNaturals ==
    MaxOps \in Nat /\ MaxFacts \in Nat /\ MaxCrashes \in Nat /\ MaxRetries \in Nat

VARIABLES
    store,      \* facts.sqlite3: [kind, hist, epoch, facts]
    staging,    \* per operation: its staging directory, [state, store, file, marker, keep]
    containers, \* per path: the container published there
    quarantine, \* per operation: the quarantined store, [state, store]
    op,         \* per operation: [state, phase, at, expect, cancel, result]
    lease,      \* who holds the exclusive maintenance lease
    minted,     \* identities handed out so far
    derived,    \* the derived directories hold something
    replaced,   \* history: how often each operation replaced the store
    budget      \* bounds: crashes and retries left

storeOpsVars == <<store, staging, containers, quarantine, op, lease, minted, derived, replaced, budget>>

NoStore == [kind |-> "none", hist |-> 0, epoch |-> 0, facts |-> {}]
NoStage == [state |-> "none", store |-> NoStore, file |-> FALSE, marker |-> FALSE, keep |-> FALSE]
NoContainer == [by |-> NoOp, store |-> NoStore, whole |-> FALSE]
NoCopy == [state |-> "none", store |-> NoStore]

StartStore(kind) == IF kind = "none" THEN NoStore
                    ELSE [kind |-> kind, hist |-> 1, epoch |-> 1, facts |-> {1}]

StoreOpsInit ==
    /\ store \in {StartStore(k) : k \in StartKinds}
    /\ staging = [o \in Ops |-> NoStage]
    /\ \E w \in StartWhole :
          containers = [p \in Paths |->
             IF p = StartPath
             THEN [by |-> StartPath, store |-> [StartStore("ok") EXCEPT !.epoch = 2], whole |-> w]
             ELSE NoContainer]
    /\ quarantine = [o \in Ops |-> NoCopy]
    /\ op = [o \in Ops |-> [state |-> "new", phase |-> "preflight", at |-> "begin",
                            expect |-> NoStore, cancel |-> FALSE, result |-> "none"]]
    /\ lease = NoOp /\ minted = 2 /\ derived \in BOOLEAN
    /\ replaced = [o \in Ops |-> 0]
    /\ budget = [crashes |-> MaxCrashes, retries |-> MaxRetries]

----------------------------------------------------------------------------
(* What the C++ fact-store helper answers                                  *)

\* verify opens the store in the maintenance mode, which also reads a supported-old one.
Verified(s) == s.kind \in {"ok", "old"}

\* verify takes the shared lock without waiting, so it fails while a lease is out.
LiveIdentity == CASE store.kind = "none" -> "absent"
                  [] Verified(store) /\ lease = NoOp -> "read"
                  [] OTHER -> "unverifiable"

\* schema reads the durable meta without any lock.
Schema(s) == CASE s.kind = "none" -> "not_created"
               [] s.kind = "old" -> "needs_migration"
               [] s.kind = "ok" -> "current"
               [] OTHER -> "unverifiable"
CreateEmpty == [kind |-> "ok", hist |-> minted + 1, epoch |-> minted + 1, facts |-> {}]
Snapshot(s) == s
PrepareRestore(s) == [s EXCEPT !.epoch = minted + 1]
Migrate(s) == [s EXCEPT !.kind = "ok", !.epoch = IF Reinterprets THEN minted + 1 ELSE @]

----------------------------------------------------------------------------
(* Containers and quarantine copies                                        *)

\* A container is made of one snapshot and the manifest built from its statistics.
BuildContainer(o, s) == [by |-> o, store |-> s, whole |-> TRUE]

\* Structure, manifest, checksum and the helper's own reading of the member.
VerifyBackup(c) == c.whole /\ Schema(c.store) = "current"

\* A restore accepts a head or a supported-old store, nothing else.
Restorable(c) == c.whole /\ Schema(c.store) \in {"current", "needs_migration"}

\* What a backup makes of its destination.
DestinationState(o) ==
    CASE containers[Output[o]] = NoContainer -> "absent"
      [] staging[o].state = "complete" /\ containers[Output[o]].by = o -> "own_published"
      [] OTHER -> "destination_exists"

\* The classes the unreadable path tells apart.
ClassifyCurrent == CASE store.kind = "none" -> "missing"
                     [] store.kind = "bad" -> "unreadable"
                     [] OTHER -> "readable"

----------------------------------------------------------------------------
(* The gate each phase before the replacement passes again                 *)

\* Application-owned leftovers keep a system from counting as already clear.
DerivedLeftovers ==
    \/ derived
    \/ \E o \in Ops : \/ quarantine[o] # NoCopy
                      \/ Kind[o] = "clear" /\ staging[o] # NoStage

AlreadyClear == (store.kind = "none" \/ store.facts = {}) /\ ~DerivedLeftovers

ClearDisposition(o) ==
    CASE LiveIdentity = "unverifiable" -> "blocked"
      [] LiveIdentity = "read" ->
            IF AlreadyClear THEN "noop"
            ELSE IF store.epoch = op[o].expect.epoch THEN "proceed" ELSE "blocked"
      [] OTHER ->
            IF op[o].expect # NoStore THEN "blocked" ELSE IF AlreadyClear THEN "noop" ELSE "proceed"

RestoreDisposition(o) ==
    IF CASE Mode[o] = "no-store" -> store.kind = "none"
         [] Mode[o] = "unreadable" -> ClassifyCurrent = "unreadable"
         [] OTHER -> LiveIdentity = "read" /\ store.epoch = op[o].expect.epoch
    THEN "proceed" ELSE "blocked"

MigrateDisposition == CASE Schema(store) = "current" -> "noop"
                        [] Schema(store) = "needs_migration" -> "proceed"
                        [] OTHER -> "blocked"

BackupDisposition == IF LiveIdentity = "read" THEN "proceed" ELSE "blocked"

Disposition(o) == CASE Kind[o] = "clear" -> ClearDisposition(o)
                    [] Kind[o] = "restore" -> RestoreDisposition(o)
                    [] Kind[o] = "migrate" -> MigrateDisposition
                    [] OTHER -> BackupDisposition

----------------------------------------------------------------------------
(* The executor: a step ends by moving the phase or by blocking            *)

Phases(o) == IF Kind[o] = "backup" THEN <<"preflight", "staging", "publishing", "cleanup">>
             ELSE IF Kind[o] = "migrate"
             THEN <<"preflight", "quiesce", "staging", "publishing", "reopening", "report">>
             ELSE <<"preflight", "quiesce", "staging", "publishing", "reopening", "cleanup">>

NextPhase(o) == LET i == CHOOSE i \in DOMAIN Phases(o) : Phases(o)[i] = op[o].phase
                IN  Phases(o)[i + 1]

Running(o, phase, at) == op[o].state = "running" /\ op[o].phase = phase /\ op[o].at = at
Advance(o) == op' = [op EXCEPT ![o].phase = NextPhase(o), ![o].at = "begin"]
Block(o) == op' = [op EXCEPT ![o].state = "blocked", ![o].at = "begin"]
At(o, where) == op' = [op EXCEPT ![o].at = where]
Abort(o) == Block(o) /\ lease' = NoOp
files == <<store, staging, containers, quarantine>>

\* An operation is created with what its caller saw of the store.
Create(o) ==
    /\ op[o].state = "new"
    /\ Cardinality({p \in Ops : op[p].state # "new"}) < MaxOps
    /\ op' = [op EXCEPT ![o].state = "running", ![o].expect = store]
    /\ UNCHANGED <<files, lease, minted, derived, replaced, budget>>

\* A blocked or interrupted operation is retried from its durable phase.
Retry(o) ==
    /\ op[o].state = "blocked" /\ budget.retries > 0
    /\ op' = [op EXCEPT ![o].state = "running"]
    /\ budget' = [budget EXCEPT !.retries = @ - 1]
    /\ UNCHANGED <<files, lease, minted, derived, replaced>>

\* The executor dies: its lease with it, its phase stays.
Crash(o) ==
    /\ op[o].state = "running" /\ budget.crashes > 0
    /\ budget' = [budget EXCEPT !.crashes = @ - 1]
    /\ Block(o)
    /\ lease' = IF lease = o THEN NoOp ELSE lease
    /\ UNCHANGED <<files, minted, derived, replaced>>

\* A cancel before the irreversible phase goes to the compensation phase.
Cancel(o) ==
    /\ op[o].state = "running" /\ op[o].phase \in {"preflight", "quiesce", "staging"}
    /\ op[o].at = "begin" /\ ~op[o].cancel
    /\ op' = [op EXCEPT ![o].cancel = TRUE,
                        ![o].phase = IF Kind[o] = "backup" THEN "cleanup" ELSE "reopening"]
    /\ UNCHANGED <<files, lease, minted, derived, replaced, budget>>

\* preflight only looks; a restore also at its container, a backup at its destination.
Preflight(o) ==
    /\ Running(o, "preflight", "begin")
    /\ IF \/ Disposition(o) = "blocked"
          \/ Kind[o] = "restore" /\ ~Restorable(containers[From[o]])
          \/ Kind[o] = "backup" /\ DestinationState(o) = "destination_exists"
       THEN Block(o) ELSE Advance(o)
    /\ UNCHANGED <<files, lease, minted, derived, replaced, budget>>

WaitForQuiesce(o) ==
    /\ Running(o, "quiesce", "begin")
    /\ IF Disposition(o) = "blocked" THEN Block(o) ELSE Advance(o)
    /\ UNCHANGED <<files, lease, minted, derived, replaced, budget>>

----------------------------------------------------------------------------
(* Staging                                                                 *)

\* The artifact each kind stages; a complete one of an earlier attempt is reused.
StageClear == CreateEmpty
StageRestore(o) == PrepareRestore(Migrate(containers[From[o]].store))
StageMigrate == Migrate(Snapshot(store))
StageBackup == Snapshot(store)

StagingComplete(o) == /\ staging[o].state = "complete"
                      /\ Kind[o] = "migrate" => staging[o].file
                      /\ Kind[o] = "backup" => Schema(staging[o].store) = "current"

\* A backup stages whatever the live store is when the helper can read it.
StagingGate(o) == IF Kind[o] = "backup" /\ StagingComplete(o) THEN "proceed" ELSE Disposition(o)

Staged(o) == CASE Kind[o] = "clear" -> StageClear
               [] Kind[o] = "restore" -> StageRestore(o)
               [] Kind[o] = "migrate" -> StageMigrate
               [] OTHER -> StageBackup

\* Anything but a complete artifact is removed and built anew; an executor that dies
\* meanwhile leaves it torn.
Stage(o) ==
    /\ Running(o, "staging", "begin")
    /\ LET gate == StagingGate(o)
           unsourced == Kind[o] = "restore" /\ ~Restorable(containers[From[o]])
       IN  \/ /\ gate = "blocked" \/ (gate = "proceed" /\ ~StagingComplete(o) /\ unsourced)
              /\ Block(o) /\ UNCHANGED <<staging, minted, budget>>
           \/ /\ gate = "noop" \/ (gate = "proceed" /\ StagingComplete(o))
              /\ Advance(o) /\ UNCHANGED <<staging, minted, budget>>
           \/ /\ gate = "proceed" /\ ~StagingComplete(o) /\ ~unsourced
              /\ staging' = [staging EXCEPT ![o] =
                    [NoStage EXCEPT !.state = "complete", !.store = Staged(o), !.file = TRUE]]
              /\ minted' = minted + 1
              /\ Advance(o) /\ UNCHANGED budget
           \/ /\ gate = "proceed" /\ ~StagingComplete(o) /\ ~unsourced /\ budget.crashes > 0
              /\ budget' = [budget EXCEPT !.crashes = @ - 1]
              /\ staging' = [staging EXCEPT ![o] = [NoStage EXCEPT !.state = "torn"]]
              /\ Block(o) /\ UNCHANGED minted
    /\ UNCHANGED <<store, containers, quarantine, lease, derived, replaced>>

----------------------------------------------------------------------------
(* Publishing under the exclusive lease                                    *)

\* Without an artifact, or with a store that has become current, only a system that
\* needs nothing goes on.
NothingStaged(o) == \/ ~StagingComplete(o)
                    \/ Kind[o] = "migrate" /\ MigrateDisposition = "noop"

PublishNothing(o) ==
    /\ Running(o, "publishing", "begin") /\ Kind[o] # "backup" /\ NothingStaged(o)
    /\ IF Kind[o] # "restore" /\ Disposition(o) = "noop" THEN Advance(o) ELSE Block(o)
    /\ UNCHANGED <<files, lease, minted, derived, replaced, budget>>

TakeLease(o) ==
    /\ Running(o, "publishing", "begin") /\ Kind[o] # "backup" /\ ~NothingStaged(o)
    /\ IF lease = NoOp THEN lease' = o /\ At(o, "leased") ELSE Block(o) /\ UNCHANGED lease
    /\ UNCHANGED <<files, minted, derived, replaced, budget>>

\* Mutant: only the marker says that an earlier attempt has published.
PublishedByMarker(o) == staging[o].marker

\* An earlier attempt has published: the disk holds the staged identity.
AlreadyPublished(o) ==
    IF Kind[o] = "migrate" THEN Schema(store) = "current" /\ staging[o].marker
    ELSE Verified(store) /\ store.epoch = staging[o].store.epoch

\* The compare-and-swap of each kind, made again under the lease.
ClearMayReplace(o) == \/ store.kind = "none" /\ op[o].expect = NoStore
                      \/ Verified(store) /\ store.epoch = op[o].expect.epoch
MigrateMayReplace(o) == Schema(store) = "needs_migration" /\ store.hist = staging[o].store.hist
HealthyMayReplace(o) == Verified(store) /\ store.epoch = op[o].expect.epoch
\* The fingerprint is that of the bytes the caller saw.
UnreadableMayReplace(o) == store.kind = "bad" /\ store = op[o].expect

MayReplace(o) ==
    /\ ~staging[o].marker /\ staging[o].file
    /\ CASE Kind[o] = "clear" -> ClearMayReplace(o)
         [] Kind[o] = "migrate" -> MigrateMayReplace(o)
         [] Kind[o] = "restore" /\ Mode[o] = "healthy" -> HealthyMayReplace(o)
         [] Kind[o] = "restore" /\ Mode[o] = "unreadable" -> UnreadableMayReplace(o)
         [] OTHER -> store.kind = "none"

PublishCheck(o) ==
    /\ Running(o, "publishing", "leased") /\ lease = o
    /\ CASE AlreadyPublished(o) -> At(o, "replaced") /\ UNCHANGED lease
         [] ~AlreadyPublished(o) /\ ~MayReplace(o) -> Abort(o)
         [] OTHER -> /\ At(o, IF o \in Keeps THEN "keep"
                              ELSE IF Kind[o] = "restore" /\ Mode[o] = "unreadable"
                                   THEN "quarantine" ELSE "safe")
                     /\ UNCHANGED lease
    /\ UNCHANGED <<files, minted, derived, replaced, budget>>

\* --backup-current stages in a directory that must not exist yet.
SnapshotCurrent(o) ==
    /\ Running(o, "publishing", "keep")
    /\ IF staging[o].keep THEN Abort(o) /\ UNCHANGED staging
       ELSE /\ staging' = [staging EXCEPT ![o].keep = TRUE]
            /\ At(o, "keeping") /\ UNCHANGED lease
    /\ UNCHANGED <<store, containers, quarantine, minted, derived, replaced, budget>>

\* Mutant: a container an earlier attempt left at the destination is good enough.
KeepEarlier(o) ==
    /\ Running(o, "publishing", "keeping")
    /\ At(o, "safe") /\ UNCHANGED lease
    /\ containers' = IF containers[Output[o]] # NoContainer THEN containers
                     ELSE [containers EXCEPT ![Output[o]] = BuildContainer(o, Snapshot(store))]
    /\ staging' = [staging EXCEPT ![o].keep = FALSE]
    /\ UNCHANGED <<store, quarantine, minted, derived, replaced, budget>>

\* Its container is linked into place unless something is there, the directory removed,
\* and the container verified; a refused link leaves the directory behind.
KeepCurrent(o) ==
    /\ Running(o, "publishing", "keeping")
    /\ IF containers[Output[o]] # NoContainer THEN Abort(o) /\ UNCHANGED <<containers, staging>>
       ELSE /\ containers' = [containers EXCEPT ![Output[o]] = BuildContainer(o, Snapshot(store))]
            /\ staging' = [staging EXCEPT ![o].keep = FALSE]
            /\ IF VerifyBackup(BuildContainer(o, Snapshot(store)))
               THEN At(o, "safe") /\ UNCHANGED lease ELSE Abort(o)
    /\ UNCHANGED <<store, quarantine, minted, derived, replaced, budget>>

\* The copy of an unreadable store: what an earlier attempt left is removed, the bytes
\* are copied, and the metadata that makes the copy count is written last.
CopyToQuarantine(o) ==
    /\ Running(o, "publishing", "quarantine")
    /\ quarantine' = [quarantine EXCEPT ![o] = [state |-> "partial", store |-> store]]
    /\ At(o, "copied")
    /\ UNCHANGED <<store, staging, containers, lease, minted, derived, replaced, budget>>

PublishQuarantine(o) ==
    /\ Running(o, "publishing", "copied")
    /\ quarantine' = [quarantine EXCEPT ![o].state = "kept"]
    /\ At(o, "safe")
    /\ UNCHANGED <<store, staging, containers, lease, minted, derived, replaced, budget>>

\* The staged file itself is renamed over the store, unless the cleanup of another
\* operation has swept it since it was verified.
Replace(o) ==
    /\ Running(o, "publishing", "safe") /\ lease = o
    /\ IF ~staging[o].file THEN Abort(o) /\ UNCHANGED <<store, staging, replaced>>
       ELSE /\ store' = staging[o].store
            /\ staging' = [staging EXCEPT ![o].file = FALSE]
            /\ replaced' = [replaced EXCEPT ![o] = @ + 1]
            /\ At(o, "replaced") /\ UNCHANGED lease
    /\ UNCHANGED <<containers, quarantine, minted, derived, budget>>

\* The marker (which needs the staging directory), the priming, and the daemon's reopen
\* behind the lease, after which it derives generations again.
Mark(o) ==
    /\ Running(o, "publishing", "replaced") /\ lease = o
    /\ IF staging[o].state # "complete" THEN Block(o) /\ UNCHANGED staging
       ELSE Advance(o) /\ staging' = [staging EXCEPT ![o].marker = TRUE]
    /\ lease' = NoOp /\ derived' = TRUE
    /\ UNCHANGED <<store, containers, quarantine, minted, replaced, budget>>

\* Mutant: the container is renamed over whatever is at the destination.
OverwriteBackup(o) ==
    /\ Running(o, "publishing", "begin") /\ Kind[o] = "backup"
    /\ IF ~StagingComplete(o) THEN Block(o) /\ UNCHANGED containers
       ELSE /\ containers' = [containers EXCEPT ![Output[o]] = BuildContainer(o, staging[o].store)]
            /\ Advance(o)
    /\ UNCHANGED <<store, staging, quarantine, lease, minted, derived, replaced, budget>>

\* backup.create links its container into place unless something is there; its own
\* container of an earlier attempt is recognised by the backup id in the staging.  The
\* executor may die right after the link.
PublishBackup(o) ==
    /\ Running(o, "publishing", "begin") /\ Kind[o] = "backup"
    /\ CASE ~StagingComplete(o) -> Block(o) /\ UNCHANGED <<containers, budget>>
         [] StagingComplete(o) /\ DestinationState(o) = "absent" ->
                /\ containers' = [containers EXCEPT ![Output[o]] = BuildContainer(o, staging[o].store)]
                /\ \/ Advance(o) /\ UNCHANGED budget
                   \/ /\ budget.crashes > 0 /\ budget' = [budget EXCEPT !.crashes = @ - 1]
                      /\ Block(o)
         [] OTHER -> /\ IF DestinationState(o) = "own_published" THEN Advance(o) ELSE Block(o)
                     /\ UNCHANGED <<containers, budget>>
    /\ UNCHANGED <<store, staging, quarantine, lease, minted, derived, replaced>>

----------------------------------------------------------------------------
(* Reopening and cleanup                                                   *)

\* A cancelled operation proves that the store is the old one before it drops its
\* staging.
CancelProven(o) ==
    CASE Kind[o] = "clear" -> /\ LiveIdentity # "unverifiable"
                              /\ ~(staging[o].state = "complete" /\ AlreadyPublished(o))
      [] Kind[o] = "restore" -> /\ LiveIdentity # "unverifiable"
                                /\ ~(staging[o].state = "complete" /\ AlreadyPublished(o))
      [] OTHER -> TRUE

ReopenClear(o) == IF staging[o].state = "complete"
                  THEN LiveIdentity = "read" /\ AlreadyPublished(o)
                  ELSE ClearDisposition(o) = "noop"
ReopenRestore(o) == staging[o].state = "complete" /\ LiveIdentity = "read" /\ AlreadyPublished(o)
ReopenMigrate == Schema(store) = "current"

Reopen(o) ==
    /\ Running(o, "reopening", "begin")
    /\ IF op[o].cancel
       THEN IF CancelProven(o) THEN staging' = [staging EXCEPT ![o] = NoStage] /\ Advance(o)
            ELSE Block(o) /\ UNCHANGED staging
       ELSE /\ IF CASE Kind[o] = "clear" -> ReopenClear(o)
                    [] Kind[o] = "migrate" -> ReopenMigrate
                    [] OTHER -> ReopenRestore(o)
               THEN Advance(o) ELSE Block(o)
            /\ UNCHANGED staging
    /\ UNCHANGED <<store, containers, quarantine, lease, minted, derived, replaced, budget>>

\* What each cleanup sweeps: a clear everything it calls application-owned (derived
\* state, quarantined stores, the staging of every clear), a restore the staging of every
\* restore, a backup its own.
SweepClear == /\ derived' = FALSE
              /\ quarantine' = [q \in Ops |-> NoCopy]
              /\ staging' = [s \in Ops |-> IF Kind[s] = "clear" THEN NoStage ELSE staging[s]]
SweepRestore(o) ==
    /\ staging' = [s \in Ops |-> IF s = o \/ (Kind[s] = "restore" /\ ~op[o].cancel)
                                 THEN [NoStage EXCEPT !.keep = s # o /\ staging[s].keep]
                                 ELSE staging[s]]
    /\ UNCHANGED <<derived, quarantine>>
SweepBackup(o) == /\ staging' = [staging EXCEPT ![o] = NoStage]
                  /\ UNCHANGED <<derived, quarantine>>

\* The outcomes a cleanup infers from the store it finds.
ClearOutcome(o) == IF LiveIdentity = "read" /\ store.epoch # op[o].expect.epoch
                   THEN "cleared" ELSE "already_clear"
RestoreOutcome(o) == IF staging[o].state = "complete" /\ LiveIdentity = "read" /\ AlreadyPublished(o)
                     THEN "restored" ELSE "not_restored"

\* A cleanup that lost its staging still recognises its container.
BackupFound(o) == containers[Output[o]] # NoContainer

Cleanup(o) ==
    /\ Running(o, "cleanup", "begin")
    /\ CASE Kind[o] = "clear" /\ LiveIdentity # "unverifiable" ->
               SweepClear /\ op' = [op EXCEPT ![o].at = "swept", ![o].result = ClearOutcome(o)]
         [] Kind[o] = "clear" /\ LiveIdentity = "unverifiable" ->
               SweepClear /\ Block(o)
         [] Kind[o] = "restore" ->
               SweepRestore(o) /\ op' = [op EXCEPT ![o].at = "swept", ![o].result = RestoreOutcome(o)]
         [] Kind[o] = "backup" /\ (op[o].cancel \/ BackupFound(o)) ->
               SweepBackup(o) /\ op' = [op EXCEPT ![o].at = "swept", ![o].result = "created"]
         [] OTHER -> Block(o) /\ UNCHANGED <<staging, derived, quarantine>>
    /\ UNCHANGED <<store, containers, lease, minted, replaced, budget>>

\* The record with its result is written last; migrate's result with its last phase.
Report(o) ==
    /\ Running(o, "cleanup", "swept") \/ Running(o, "report", "begin")
    /\ op' = [op EXCEPT ![o].state = IF op[o].cancel THEN "cancelled" ELSE "succeeded",
                        ![o].at = "begin",
                        ![o].result = IF Kind[o] = "migrate" THEN "migrated" ELSE @]
    /\ UNCHANGED <<files, lease, minted, derived, replaced, budget>>

\* quarantine purge: any copy with metadata, whose operation and fingerprint the caller
\* names, at any moment: the restore that made it may still be running.  The quarantine
\* directory stays behind, empty; what was in it is remembered as history.
Purge(o) ==
    /\ quarantine[o].state = "kept"
    /\ quarantine' = [quarantine EXCEPT ![o].state = "purged"]
    /\ UNCHANGED <<store, staging, containers, op, lease, minted, derived, replaced, budget>>

\* A recorder writes to a store it can open while nobody holds the lease, and creates
\* one where there is none.
Record ==
    /\ lease = NoOp /\ store.kind \in {"ok", "none"}
    /\ IF store.kind = "none"
       THEN store' = CreateEmpty /\ minted' = minted + 1
       ELSE /\ \E f \in 2..MaxFacts : /\ f \notin store.facts
                                      /\ \A g \in 2..f - 1 : g \in store.facts
                                      /\ store' = [store EXCEPT !.facts = @ \cup {f}]
            /\ UNCHANGED minted
    /\ UNCHANGED <<staging, containers, quarantine, op, lease, derived, replaced, budget>>

Step(o) ==
    \/ Preflight(o) \/ WaitForQuiesce(o) \/ Stage(o) \/ PublishNothing(o) \/ TakeLease(o)
    \/ PublishCheck(o) \/ SnapshotCurrent(o) \/ KeepCurrent(o) \/ CopyToQuarantine(o)
    \/ PublishQuarantine(o) \/ Replace(o) \/ Mark(o) \/ PublishBackup(o) \/ Reopen(o)
    \/ Cleanup(o) \/ Report(o)

StoreOpsNext ==
    \/ Record
    \/ \E o \in Ops : Create(o) \/ Retry(o) \/ Crash(o) \/ Cancel(o) \/ Step(o) \/ Purge(o)

StoreOpsSpec == StoreOpsInit /\ [][StoreOpsNext]_storeOpsVars

----------------------------------------------------------------------------
(* Properties                                                              *)

\* The copy of the store that is live was made complete, whatever became of it since.
Quarantined(o) == quarantine[o].state \in {"kept", "purged"} /\ quarantine[o].store = store

\* Whoever replaces the store has first kept what it promised to keep: --backup-current
\* a container with every fact of the store that goes, the unreadable path a complete copy
\* of its bytes (which only a purge that names this operation and this store can have
\* taken away since), a migration all its facts; a clear or a discarding restore replaces
\* the store its caller named and no other.
NeverReplacedUnkept ==
    [][\A o \in Ops : replaced'[o] > replaced[o] =>
          CASE o \in Keeps -> containers[Output[o]].by = o /\ containers[Output[o]].store = store
            [] Kind[o] = "restore" /\ Mode[o] = "unreadable" ->
                  Quarantined(o)
            [] Kind[o] = "migrate" -> store'.facts = store.facts /\ store'.hist = store.hist
            [] OTHER -> store.epoch = op[o].expect.epoch]_storeOpsVars

\* An operation that died between the replacement and its marker and is retried knows its
\* own store on the disk: while that store is live and nobody else holds the lease, no step
\* but another crash blocks the operation.
OwnPublicationKnown ==
    [][\A o \in Ops :
          /\ replaced[o] > 0 /\ Verified(store) /\ store.epoch = staging[o].store.epoch
          /\ lease \in {NoOp, o} /\ op[o].state = "running" /\ ~op[o].cancel
          => op'[o].state # "blocked" \/ budget'.crashes < budget.crashes]_storeOpsVars

\* A finished backup.create is at its destination, holds the facts that were there when it
\* was asked for (unless the store has been replaced meanwhile), and no other backup has
\* taken its place.
BackupHonest ==
    \A o \in Ops : Kind[o] = "backup" /\ op[o].state = "succeeded" =>
        LET c == containers[Output[o]]
        IN  /\ c.by = o
            /\ c.store.epoch = op[o].expect.epoch => op[o].expect.facts \subseteq c.store.facts

\* Facts are never lost by replacing them: a container that calls itself whole
\* has what it was made from, and an operation replaces a store only after the
\* facts it was told to keep are somewhere else.
ReplacementSafe == []BackupHonest /\ NeverReplacedUnkept

=============================================================================
