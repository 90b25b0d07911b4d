---------------------------- MODULE DeltaMachine ----------------------------
(***************************************************************************)
(* The durable delta state machine of the daemon (daemon/delta.py,         *)
(* DeltaStateMachine) with the builder it calls (generation.py,            *)
(* build_generation), the retention sweeps that run beside it              *)
(* (retention.py) and the two seams of the maintenance coordinator that    *)
(* drive it (coordinator.py prepare and _recover).                         *)
(*                                                                         *)
(* The fact store is a log of committed changes in HLC order; the position *)
(* of a change stands for its HLC, so a watermark is a prefix length.  A   *)
(* commit transaction is an atom: its events share one commit id and a     *)
(* retraction removes all of them (_project_active).  A vector is the      *)
(* deterministic image of its event and is left out.                       *)
(*                                                                         *)
(* One worker thread writes the checkpoint and the snapshot.  Queries, the *)
(* coordinator, the recorders and the startup sweep interleave with it at  *)
(* every point where it releases the machine condition or does I/O.  The   *)
(* publisher's switch (publish_switch) and the rollback pointer belong to  *)
(* another component: here nothing is published at run time and the active *)
(* manifest, when there is one, names the configured generation.           *)
(***************************************************************************)
EXTENDS Integers, Sequences, FiniteSets

CONSTANTS
    Commits,        \* commit ids
    Unparsable,     \* commits _validate_event refuses
    Unembeddable,   \* commits whose event_vector fails or is dirty
    Published,      \* an active manifest names the configured generation
    MaxLog,         \* bound on the changes of one store
    MaxEpoch,       \* bound on store epochs
    MaxRounds,      \* bound on maintenance rounds
    MaxCrashes,     \* bound on daemon crashes
    MaxFaults       \* bound on transient I/O faults

ASSUME BoundsAssumption ==
    /\ MaxLog \in Nat /\ MaxEpoch \in Nat \ {0} /\ MaxRounds \in Nat
    /\ MaxCrashes \in Nat /\ MaxFaults \in Nat
    /\ Published \in BOOLEAN
    /\ Unparsable \subseteq Commits /\ Unembeddable \subseteq Commits

VARIABLES
    epoch, log,             \* the fact store on disk
    gens, staging, ckpt,    \* the derived root on disk
    up, sweepDue,           \* the daemon process; its startup sweep not yet run
    gen, mirror, path,      \* _generation, the change mirror, _delta_path
    snap, blocked, refused, \* _snapshot, _blocked, _refuse_reason
    pending,                \* _pending_rebuild: a target epoch, 0 for None
    stop, idle,             \* _stop_event, _idle_event
    retrying,               \* a retry() between its two steps
    spanned,                \* history: a rebuild ran inside a retry()
    wk,                     \* the worker thread: program counter and locals
    coord, prepEpoch,       \* coordinator state, _prepared_epoch
    registered, rounds,     \* the machine is a registered builder
    query,                  \* one request in ensure_caught_up
    crashes, faults

factVars  == <<epoch, log>>
diskVars  == <<gens, staging, ckpt>>
coordVars == <<coord, prepEpoch, registered, rounds>>
ctlVars   == <<up, sweepDue, refused, retrying, spanned, crashes>>
vars == <<epoch, log, gens, staging, ckpt, up, sweepDue, gen, mirror, path,
          snap, blocked, refused, pending, stop, idle, retrying, spanned, wk,
          coord,
          prepEpoch, registered, rounds, query, crashes, faults>>

-----------------------------------------------------------------------------
(* The facts.                                                              *)

Change == [kind : {"commit", "retraction"}, id : Commits]

\* The commits and the retractions with an HLC in (lo, hi].
CommitsIn(l, lo, hi) ==
    {l[i].id : i \in {j \in (lo + 1)..hi : l[j].kind = "commit"}}

RetractionsIn(l, lo, hi) ==
    {l[i].id : i \in {j \in (lo + 1)..hi : l[j].kind = "retraction"}}

\* The reference projection: what is active as of watermark h.
Active(l, h) == CommitsIn(l, 0, h) \ RetractionsIn(l, 0, h)

(* Generations are content addressed by epoch, watermark and rows.         *)
Gen    == [epoch : 1..MaxEpoch, h0 : 0..MaxLog, rows : SUBSET Commits]
NoGen  == [epoch |-> 0, h0 |-> 0, rows |-> {}]
G0     == [epoch |-> 1, h0 |-> 0, rows |-> {}]
Target == [epoch |-> epoch, h0 |-> Len(log), rows |-> Active(log, Len(log))]

(* Checkpoint files, keyed by the generation directory delta/<id>/ they    *)
(* are in.  A path outside DOMAIN ckpt has no directory.                   *)
NoFile     == [base |-> NoGen, epoch |-> 0, consumed |-> 0, rows |-> {},
               tombs |-> {}, blocked |-> FALSE]
Checkpoint == [base : Gen, epoch : 1..MaxEpoch, consumed : 0..MaxLog,
               rows : SUBSET Commits, tombs : SUBSET Commits,
               blocked : BOOLEAN]

\* The empty mirror; consumed = -1 is _delta_consumed None.
NoMirror == [consumed |-> -1, rows |-> {}, tombs |-> {}]
FreshMirror(g) == [NoMirror EXCEPT !.consumed = g.h0]

NoSnap == [epoch |-> 0, consumed |-> -1, active |-> {}]

\* _build_snapshot over _project_active: whole-commit tombstones.
Snapshot(g, m) ==
    [epoch |-> g.epoch, consumed |-> m.consumed,
     active |-> (g.rows \cup m.rows) \ m.tombs]

Loop == [pc |-> "loop", target |-> 0, epoch |-> 0, lo |-> 0, hi |-> 0,
         rows |-> {}, tombs |-> {}, gen |-> NoGen]

NoQuery == [st |-> "idle", epoch |-> 0, hi |-> 0, ans |-> NoSnap]

At(pc) == up /\ wk.pc = pc

\* Files that exist in checkpoint directory p.
FileAt(p) == IF p \in DOMAIN ckpt THEN ckpt[p] ELSE NoFile

\* _drop_delta_checkpoint: unlink, best effort.
Dropped(p) == IF p \in DOMAIN ckpt THEN [ckpt EXCEPT ![p] = NoFile] ELSE ckpt

\* os.makedirs(delta/<id>, exist_ok=True).
WithDir(c, p) ==
    [q \in DOMAIN c \cup {p} |-> IF q \in DOMAIN c THEN c[q] ELSE NoFile]

\* retention_sweep: what is left of the derived root when keep is the set
\* of the active and rollback ids.
LiveStaging == {s.gen : s \in {t \in staging : t.status # "discarded"}}
SweptGens(keep) == gens \cap keep
SweptCkpt(keep) ==
    [p \in DOMAIN ckpt \cap (keep \cup LiveStaging) |-> ckpt[p]]
SweptStaging == {s \in staging : s.status # "discarded"}

Init ==
    /\ epoch = 1 /\ log = <<>>
    /\ gens = {G0} /\ staging = {} /\ ckpt = [p \in {} |-> NoFile]
    /\ up = FALSE /\ sweepDue = FALSE
    /\ gen = NoGen /\ mirror = NoMirror /\ path = G0
    /\ snap = NoSnap /\ blocked = FALSE /\ refused = FALSE
    /\ pending = 0 /\ stop = FALSE /\ idle = FALSE /\ retrying = FALSE
    /\ spanned = FALSE /\ wk = Loop
    /\ coord = "serving" /\ prepEpoch = 0 /\ registered = FALSE /\ rounds = 0
    /\ query = NoQuery
    /\ crashes = 0 /\ faults = 0

-----------------------------------------------------------------------------
(* The recorders and the stores that replace the fact store.               *)

Append1(change) ==
    /\ Len(log) < MaxLog
    /\ log' = Append(log, change)
    /\ UNCHANGED <<epoch, diskVars, ctlVars, gen, mirror, path, snap, blocked,
                   pending, stop, idle, wk, coordVars, query, faults>>

FactCommit ==
    \E c \in Commits \ CommitsIn(log, 0, Len(log)) :
        Append1([kind |-> "commit", id |-> c])

FactRetract ==
    \E c \in Active(log, Len(log)) : Append1([kind |-> "retraction", id |-> c])

\* clear publishes an empty store, restore the store of a backup, both under
\* a new epoch: in a prepared maintenance round or with the daemon down.
ReplaceFacts ==
    /\ ~up \/ coord = "prepared"
    /\ epoch < MaxEpoch
    /\ epoch' = epoch + 1
    /\ \E h \in 0..Len(log) : log' = SubSeq(log, 1, h)
    /\ UNCHANGED <<diskVars, ctlVars, gen, mirror, path, snap, blocked, pending,
                   stop, idle, wk, coordVars, query, faults>>

-----------------------------------------------------------------------------
(* Process start: the constructor, then the server's startup sweep.        *)

\* open_delta_checkpoint: identity, epoch and watermark window.
Accepts(c, g) ==
    /\ c # NoFile
    /\ c.base = g /\ c.epoch = g.epoch /\ epoch = g.epoch
    /\ g.h0 <= c.consumed /\ c.consumed <= Len(log)

MirrorOf(c) == [consumed |-> c.consumed, rows |-> c.rows, tombs |-> c.tombs]

\* _verify_snapshot_vs_facts; a blocked checkpoint is loaded without it.
Loads(c, g) ==
    /\ Accepts(c, g)
    /\ c.blocked \/ Snapshot(g, MirrorOf(c)).active = Active(log, c.consumed)

\* The constructor past the generation: checkpoint or replay from H0.
StartWith(g) ==
    LET c == FileAt(G0)
        m == IF Loads(c, g) THEN MirrorOf(c) ELSE FreshMirror(g)
    IN  /\ gen' = g
        /\ mirror' = m
        /\ snap' = Snapshot(g, m)
        /\ blocked' = (Loads(c, g) /\ c.blocked)
        /\ refused' = FALSE
        /\ ckpt' = IF Loads(c, g) THEN WithDir(ckpt, G0)
                   ELSE WithDir(Dropped(G0), G0)

StartEmpty ==
    /\ gen' = NoGen /\ mirror' = NoMirror /\ snap' = NoSnap
    /\ ckpt' = WithDir(ckpt, G0)

\* The coordinator is created serving, the machine is its builder.
StartDaemon ==
    /\ ~up
    /\ up' = TRUE /\ sweepDue' = TRUE
    /\ path' = G0 /\ pending' = 0 /\ stop' = FALSE /\ idle' = FALSE
    /\ retrying' = FALSE /\ spanned' = FALSE /\ wk' = Loop /\ query' = NoQuery
    /\ coord' = "serving" /\ prepEpoch' = 0 /\ registered' = TRUE
    /\ UNCHANGED <<factVars, rounds, crashes, faults>>

\* _load_or_build_generation: the declared generation of this epoch opens.
StartOpen ==
    /\ G0 \in gens /\ G0.epoch = epoch
    /\ StartWith(G0)
    /\ UNCHANGED <<gens, staging>>

\* It belongs to another epoch, or was never published and is missing.
BuildsAtStart ==
    \/ G0 \in gens /\ G0.epoch # epoch
    \/ G0 \notin gens /\ ~Published

\* The target is free: build_generation refuses an existing generation and an
\* existing staging directory, and the daemon does not start.
TargetFree == Target \notin gens \cup {s.gen : s \in staging}

StartBuild ==
    /\ BuildsAtStart
    /\ TargetFree
    /\ Target.rows \cap (Unparsable \cup Unembeddable) = {}
    /\ gens' = gens \cup {Target}
    /\ UNCHANGED staging
    /\ StartWith(Target)

\* A deterministic build block degrades to the blocked state.
StartBlocked ==
    /\ BuildsAtStart
    /\ StartEmpty
    /\ blocked' = TRUE /\ refused' = FALSE
    /\ \/ Target.rows \cap Unparsable # {} /\ UNCHANGED staging
       \/ /\ Target.rows \cap Unparsable = {} /\ TargetFree
          /\ Target.rows \cap Unembeddable # {}
          /\ staging' = staging \cup {[gen |-> Target, status |-> "blocked"]}
    /\ UNCHANGED gens

\* A published generation that is missing refuses the load.
StartRefused ==
    /\ G0 \notin gens /\ Published
    /\ StartEmpty
    /\ blocked' = FALSE /\ refused' = TRUE
    /\ UNCHANGED <<gens, staging>>

Start ==
    /\ StartDaemon
    /\ StartOpen \/ StartBuild \/ StartBlocked \/ StartRefused

\* sweep_from_manifests at the end of the server's start; the worker thread
\* already runs, the sockets do not yet listen.
StartupSweep ==
    LET keep == IF Published THEN {G0} ELSE {}
    IN  /\ up /\ sweepDue
        /\ sweepDue' = FALSE
        /\ gens' = SweptGens(keep)
        /\ ckpt' = SweptCkpt(keep)
        /\ staging' = SweptStaging
        /\ UNCHANGED <<factVars, up, refused, retrying, spanned, crashes, gen, mirror,
                       path, snap, blocked, pending, stop, idle, wk, coordVars,
                       query, faults>>

Crash ==
    /\ up /\ crashes < MaxCrashes
    /\ crashes' = crashes + 1
    /\ up' = FALSE /\ sweepDue' = FALSE /\ retrying' = FALSE /\ spanned' = FALSE
    /\ gen' = NoGen /\ mirror' = NoMirror /\ path' = G0 /\ snap' = NoSnap
    /\ blocked' = FALSE /\ refused' = FALSE /\ pending' = 0
    /\ stop' = FALSE /\ idle' = FALSE /\ wk' = Loop /\ query' = NoQuery
    /\ coord' = "serving" /\ prepEpoch' = 0 /\ registered' = FALSE
    /\ UNCHANGED <<factVars, diskVars, rounds, faults>>

-----------------------------------------------------------------------------
(* The worker thread.  A cycle that raises returns to the loop; what it    *)
(* had already changed stays changed.                                      *)

\* _run: park while stopped.
WorkerPark ==
    /\ At("loop") /\ stop
    /\ idle' = TRUE
    /\ UNCHANGED <<factVars, diskVars, ctlVars, gen, mirror, path, snap, blocked,
                   pending, stop, wk, coordVars, query, faults>>

\* _cycle up to the facts read: refused parks, a pending rebuild goes first,
\* a block parks, otherwise the published snapshot's epoch is remembered.
WorkerCycle ==
    /\ At("loop") /\ ~stop
    /\ idle' = FALSE
    /\ wk' = IF refused THEN Loop
             ELSE IF pending # 0
                  THEN [Loop EXCEPT !.pc = "rebuild", !.target = pending]
             ELSE IF blocked THEN Loop
             ELSE [Loop EXCEPT !.pc = "identity", !.epoch = snap.epoch]
    /\ UNCHANGED <<factVars, diskVars, ctlVars, gen, mirror, path, snap, blocked,
                   pending, stop, coordVars, query, faults>>

\* read_facts_identity, the epoch comparison and the head of _catch_up_batch.
WorkerIdentity ==
    /\ At("identity")
    /\ wk' = IF wk.epoch # epoch THEN [Loop EXCEPT !.pc = "rebuild"]
             ELSE IF mirror.consumed = -1 \/ Len(log) <= mirror.consumed
                  THEN [Loop EXCEPT !.pc = "republish"]
             ELSE [wk EXCEPT !.pc = "changes", !.lo = mirror.consumed,
                             !.hi = Len(log)]
    /\ UNCHANGED <<factVars, diskVars, ctlVars, gen, mirror, path, snap, blocked,
                   pending, stop, idle, coordVars, query, faults>>

\* _read_fact_changes and the embedding of what the batch keeps.  The read
\* does not compare its epoch with the one the cycle saw.
WorkerChanges ==
    LET rows  == CommitsIn(log, wk.lo, wk.hi)
        tombs == RetractionsIn(log, wk.lo, wk.hi)
    IN  /\ At("changes")
        /\ wk' = IF wk.hi > Len(log) THEN Loop
                 ELSE IF \/ rows \cap Unparsable # {}
                         \/ (rows \ tombs) \cap Unembeddable # {}
                      THEN [Loop EXCEPT !.pc = "block"]
                 ELSE [wk EXCEPT !.pc = "write", !.rows = rows \ tombs,
                                 !.tombs = tombs]
        /\ UNCHANGED <<factVars, diskVars, ctlVars, gen, mirror, path, snap,
                       blocked, pending, stop, idle, coordVars, query, faults>>

\* Mutant: the watermark is read again when the batch is written.
WorkerWriteAhead ==
    LET old == FileAt(path)
        new == [consumed |-> Len(log), rows |-> mirror.rows \cup wk.rows,
                tombs |-> mirror.tombs \cup wk.tombs]
    IN  /\ At("write") /\ path \in DOMAIN ckpt
        /\ ckpt' = [ckpt EXCEPT ![path] =
              [base |-> gen, epoch |-> wk.epoch, consumed |-> new.consumed,
               rows |-> new.rows, tombs |-> new.tombs, blocked |-> old.blocked]]
        /\ mirror' = new
        /\ wk' = [Loop EXCEPT !.pc = "publish"]
        /\ UNCHANGED <<factVars, gens, staging, ctlVars, gen, path, snap, blocked,
                       pending, stop, idle, coordVars, query, faults>>

\* _write_batch: rows, tombstones and watermark in one transaction, then the
\* mirror.  No directory, or a row already there, fails the transaction.
WorkerWrite ==
    LET old == FileAt(path)
        ok  == /\ path \in DOMAIN ckpt
               /\ wk.rows \cap old.rows = {} /\ wk.tombs \cap old.tombs = {}
    IN  /\ At("write")
        /\ IF ok
           THEN /\ ckpt' = [ckpt EXCEPT ![path] =
                      [base |-> gen, epoch |-> wk.epoch, consumed |-> wk.hi,
                       rows |-> old.rows \cup wk.rows,
                       tombs |-> old.tombs \cup wk.tombs,
                       blocked |-> old.blocked]]
                /\ mirror' = [consumed |-> wk.hi,
                              rows |-> mirror.rows \cup wk.rows,
                              tombs |-> mirror.tombs \cup wk.tombs]
                /\ wk' = [Loop EXCEPT !.pc = "publish"]
           ELSE UNCHANGED <<ckpt, mirror>> /\ wk' = Loop
        /\ UNCHANGED <<factVars, gens, staging, ctlVars, gen, path, snap, blocked,
                       pending, stop, idle, coordVars, query, faults>>

\* Mutant: the base rows are published before the mirror is projected.
WorkerPublishBase ==
    /\ At("publish")
    /\ snap' = Snapshot(gen, FreshMirror(gen))
    /\ wk' = [Loop EXCEPT !.pc = "republish"]
    /\ UNCHANGED <<factVars, diskVars, ctlVars, gen, mirror, path, blocked,
                   pending, stop, idle, coordVars, query, faults>>

\* _publish_snapshot_locked after the commit.
WorkerPublish ==
    /\ At("publish")
    /\ snap' = Snapshot(gen, mirror)
    /\ wk' = [Loop EXCEPT !.pc = "republish"]
    /\ UNCHANGED <<factVars, diskVars, ctlVars, gen, mirror, path, blocked,
                   pending, stop, idle, coordVars, query, faults>>

\* Mutant: a committed batch that was not published stays unpublished.
WorkerRepublishNot ==
    /\ At("republish")
    /\ wk' = Loop
    /\ UNCHANGED <<factVars, diskVars, ctlVars, gen, mirror, path, snap, blocked,
                   pending, stop, idle, coordVars, query, faults>>

\* The end of _cycle: publish a committed state that was not published.
WorkerRepublish ==
    /\ At("republish")
    /\ snap' = IF snap = NoSnap \/ snap.consumed # mirror.consumed
               THEN Snapshot(gen, mirror) ELSE snap
    /\ wk' = Loop
    /\ UNCHANGED <<factVars, diskVars, ctlVars, gen, mirror, path, blocked,
                   pending, stop, idle, coordVars, query, faults>>

\* Mutant: the block is recorded although there is no watermark to record.
WorkerRecordBlockAlways ==
    LET old == FileAt(path)
        rec == [base |-> gen, epoch |-> gen.epoch, consumed |-> mirror.consumed,
                rows |-> old.rows, tombs |-> old.tombs, blocked |-> TRUE]
    IN  /\ At("block")
        /\ ckpt' = IF path \in DOMAIN ckpt THEN [ckpt EXCEPT ![path] = rec]
                   ELSE ckpt
        /\ wk' = [Loop EXCEPT !.pc = "blockset"]
        /\ UNCHANGED <<factVars, gens, staging, ctlVars, gen, mirror, path, snap,
                       blocked, pending, stop, idle, coordVars, query, faults>>

\* _enter_blocked, first the diagnosis record (best effort) ...
WorkerRecordBlock ==
    LET old == FileAt(path)
        rec == [base |-> gen, epoch |-> gen.epoch, consumed |-> mirror.consumed,
                rows |-> old.rows, tombs |-> old.tombs, blocked |-> TRUE]
    IN  /\ At("block")
        /\ ckpt' = IF gen # NoGen /\ mirror.consumed # -1 /\ path \in DOMAIN ckpt
                   THEN [ckpt EXCEPT ![path] = rec] ELSE ckpt
        /\ wk' = [Loop EXCEPT !.pc = "blockset"]
        /\ UNCHANGED <<factVars, gens, staging, ctlVars, gen, mirror, path, snap,
                       blocked, pending, stop, idle, coordVars, query, faults>>

\* ... then the flag the requests see.
WorkerBlock ==
    /\ At("blockset")
    /\ blocked' = TRUE
    /\ wk' = Loop
    /\ UNCHANGED <<factVars, diskVars, ctlVars, gen, mirror, path, snap, pending,
                   stop, idle, coordVars, query, faults>>

\* _perform_rebuild: discard the snapshot, the block and whatever rebuild is
\* queued by now, drop the checkpoint, and reopen the declared generation if
\* it is of the target epoch.
WorkerRebuild ==
    LET target == IF wk.target # 0 THEN wk.target ELSE epoch
        reuse  == G0 \in gens /\ G0.epoch = target
    IN  /\ At("rebuild")
        /\ snap' = NoSnap /\ blocked' = FALSE /\ pending' = 0
        /\ ckpt' = Dropped(path)
        /\ mirror' = NoMirror
        /\ wk' = IF reuse THEN [wk EXCEPT !.pc = "install", !.gen = G0]
                 ELSE [wk EXCEPT !.pc = "build"]
        /\ spanned' = (spanned \/ retrying)
        /\ UNCHANGED <<factVars, gens, staging, up, sweepDue, refused, retrying,
                       crashes, gen, path, stop, idle, coordVars, query, faults>>

\* build_generation: read a snapshot of the facts, refuse an existing target,
\* embed every row in the staging directory.
WorkerBuild ==
    /\ At("build")
    /\ IF Target.rows \cap Unparsable # {}
       THEN wk' = [wk EXCEPT !.pc = "block"] /\ UNCHANGED staging
       ELSE IF ~TargetFree THEN wk' = Loop /\ UNCHANGED staging
       ELSE IF Target.rows \cap Unembeddable # {}
       THEN /\ wk' = [wk EXCEPT !.pc = "block"]
            /\ staging' = staging \cup {[gen |-> Target, status |-> "blocked"]}
       ELSE /\ wk' = [wk EXCEPT !.pc = "rename", !.gen = Target]
            /\ staging' = staging \cup {[gen |-> Target, status |-> "running"]}
    /\ UNCHANGED <<factVars, gens, ckpt, ctlVars, gen, mirror, path, snap, blocked,
                   pending, stop, idle, coordVars, query, faults>>

\* _check_identity_unchanged, then the rename that publishes the container.
WorkerRename ==
    LET rest == staging \ {[gen |-> wk.gen, status |-> "running"]}
    IN  /\ At("rename")
        /\ IF epoch = wk.gen.epoch /\ Len(log) = wk.gen.h0
           THEN /\ gens' = gens \cup {wk.gen}
                /\ staging' = rest
                /\ wk' = [wk EXCEPT !.pc = "install"]
           ELSE /\ staging' = rest \cup {[gen |-> wk.gen, status |-> "discarded"]}
                /\ wk' = Loop
                /\ UNCHANGED gens
        /\ UNCHANGED <<factVars, ckpt, ctlVars, gen, mirror, path, snap, blocked,
                       pending, stop, idle, coordVars, query, faults>>

\* _read_base_commit_ids, the swap and the base snapshot.  A row without a
\* fact commit makes _build_snapshot raise after the swap.
WorkerInstall ==
    /\ At("install")
    /\ gen' = wk.gen
    /\ mirror' = FreshMirror(wk.gen)
    /\ path' = wk.gen
    /\ ckpt' = WithDir(ckpt, wk.gen)
    /\ IF wk.gen.rows \subseteq CommitsIn(log, 0, IF wk.gen.h0 <= Len(log)
                                                  THEN wk.gen.h0 ELSE Len(log))
       THEN /\ snap' = Snapshot(wk.gen, FreshMirror(wk.gen))
            /\ wk' = [wk EXCEPT !.pc = IF wk.target # 0 THEN "complete"
                                       ELSE "sweep"]
       ELSE UNCHANGED snap /\ wk' = Loop
    /\ UNCHANGED <<factVars, gens, staging, ctlVars, blocked, pending, stop, idle,
                   coordVars, query, faults>>

\* The callback of a queued rebuild: coordinator complete_recovery.
WorkerComplete ==
    /\ At("complete")
    /\ coord' = IF coord # "catching_up" THEN coord
                ELSE IF epoch = wk.target THEN "serving" ELSE "blocked"
    /\ wk' = [wk EXCEPT !.pc = "sweep"]
    /\ UNCHANGED <<factVars, diskVars, ctlVars, gen, mirror, path, snap, blocked,
                   pending, stop, idle, prepEpoch, registered, rounds, query,
                   faults>>

\* retention_sweep with the rebuilt generation as the only active one.
WorkerSweep ==
    /\ At("sweep")
    /\ gens' = SweptGens({wk.gen})
    /\ ckpt' = SweptCkpt({wk.gen})
    /\ staging' = SweptStaging
    /\ wk' = Loop
    /\ UNCHANGED <<factVars, ctlVars, gen, mirror, path, snap, blocked, pending,
                   stop, idle, coordVars, query, faults>>

\* A transient I/O fault ends the cycle before the step's effect; the best
\* effort diagnosis record alone is skipped without ending it.
WorkerFault ==
    /\ up /\ faults < MaxFaults
    /\ faults' = faults + 1
    /\ \/ /\ wk.pc \in {"identity", "changes", "write", "publish", "build",
                        "rename", "install"}
          /\ wk' = Loop
       \/ /\ wk.pc = "block"
          /\ wk' = [Loop EXCEPT !.pc = "blockset"]
    /\ UNCHANGED <<factVars, diskVars, ctlVars, gen, mirror, path, snap, blocked,
                   pending, stop, idle, coordVars, query>>

Worker ==
    \/ WorkerPark \/ WorkerCycle \/ WorkerIdentity \/ WorkerChanges
    \/ WorkerWrite \/ WorkerPublish \/ WorkerRepublish
    \/ WorkerRecordBlock \/ WorkerBlock
    \/ WorkerRebuild \/ WorkerBuild \/ WorkerRename \/ WorkerInstall
    \/ WorkerComplete \/ WorkerSweep

\* Mutant: the diagnosis record is left in the checkpoint.
RetryCleanNot ==
    /\ up /\ ~sweepDue /\ blocked /\ ~retrying
    /\ retrying' = TRUE
    /\ UNCHANGED <<factVars, diskVars, up, sweepDue, refused, spanned, crashes, gen,
                   mirror, path, snap, blocked, pending, stop, idle, wk,
                   coordVars, query, faults>>

\* retry(): the diagnosis record goes first, while the worker is parked ...
RetryClean ==
    /\ up /\ ~sweepDue /\ blocked /\ ~retrying
    /\ retrying' = TRUE
    /\ ckpt' = IF FileAt(path) # NoFile
               THEN [ckpt EXCEPT ![path].blocked = FALSE] ELSE ckpt
    /\ UNCHANGED <<factVars, gens, staging, up, sweepDue, refused, spanned, crashes, gen,
                   mirror, path, snap, blocked, pending, stop, idle, wk,
                   coordVars, query, faults>>

\* ... then the flag.
RetryClear ==
    /\ up /\ retrying
    /\ retrying' = FALSE
    /\ blocked' = FALSE
    /\ UNCHANGED <<factVars, diskVars, up, sweepDue, refused, spanned, crashes, gen,
                   mirror, path, snap, pending, stop, idle, wk, coordVars, query, faults>>

-----------------------------------------------------------------------------
(* The maintenance coordinator's use of the machine.                       *)

machineVars == <<gen, mirror, path>>

\* prepare: requests are drained, then the registered builder is stopped.
PrepareBegin ==
    /\ up /\ ~sweepDue /\ coord = "serving" /\ query.st = "idle"
    /\ rounds < MaxRounds
    /\ rounds' = rounds + 1
    /\ IF registered
       THEN stop' = TRUE /\ coord' = "stopping" /\ UNCHANGED prepEpoch
       ELSE coord' = "prepared" /\ prepEpoch' = epoch /\ UNCHANGED stop
    /\ UNCHANGED <<factVars, diskVars, ctlVars, machineVars, snap, blocked, pending,
                   idle, wk, registered, query, faults>>

\* wait_idle returned: the builder is unregistered.
PrepareIdle ==
    /\ up /\ coord = "stopping" /\ idle
    /\ registered' = FALSE
    /\ coord' = "prepared" /\ prepEpoch' = epoch
    /\ UNCHANGED <<factVars, diskVars, ctlVars, machineVars, snap, blocked, pending,
                   stop, idle, wk, rounds, query, faults>>

\* wait_idle timed out: _prepare_failure.
PrepareTimeout ==
    /\ up /\ coord = "stopping" /\ ~idle
    /\ registered' = FALSE
    /\ coord' = "blocked"
    /\ UNCHANGED <<factVars, diskVars, ctlVars, machineVars, snap, blocked, pending,
                   stop, idle, wk, prepEpoch, rounds, query, faults>>

\* _recover: same epoch returns to serving, another epoch invalidates.
Reopen ==
    /\ up /\ coord = "prepared"
    /\ coord' = IF epoch = prepEpoch THEN "serving" ELSE "invalidating"
    /\ UNCHANGED <<factVars, diskVars, ctlVars, machineVars, snap, blocked, pending,
                   stop, idle, wk, prepEpoch, registered, rounds, query, faults>>

\* invalidate: the part under the condition ...
Invalidate ==
    /\ up /\ coord = "invalidating"
    /\ snap' = NoSnap /\ blocked' = FALSE
    /\ coord' = "dropping"
    /\ UNCHANGED <<factVars, diskVars, ctlVars, machineVars, pending, stop, idle, wk,
                   prepEpoch, registered, rounds, query, faults>>

\* ... and the part outside it.
InvalidateDrop ==
    /\ up /\ coord = "dropping"
    /\ ckpt' = Dropped(path)
    /\ mirror' = NoMirror
    /\ coord' = "requesting"
    /\ UNCHANGED <<factVars, gens, staging, ctlVars, gen, path, snap, blocked,
                   pending, stop, idle, wk, prepEpoch, registered, rounds, query,
                   faults>>

\* rebuild: queue the rebuild with the completion callback, resume the worker.
RequestRebuild ==
    /\ up /\ coord = "requesting"
    /\ pending' = IF pending = 0 THEN epoch ELSE pending
    /\ stop' = FALSE
    /\ coord' = "catching_up"
    /\ UNCHANGED <<factVars, diskVars, ctlVars, machineVars, snap, blocked, idle, wk,
                   prepEpoch, registered, rounds, query, faults>>

Coordinator ==
    PrepareIdle \/ Reopen \/ Invalidate \/ InvalidateDrop \/ RequestRebuild

-----------------------------------------------------------------------------
(* The query gate, ensure_caught_up.                                       *)

queryFrame == <<factVars, diskVars, ctlVars, machineVars, snap, blocked, pending,
                stop, idle, wk, coordVars, faults>>

\* begin_request, the refusal check and the facts read.
QueryBegin ==
    /\ up /\ ~sweepDue /\ coord = "serving" /\ ~refused
    /\ query.st = "idle"
    /\ query' = [NoQuery EXCEPT !.st = "wait", !.epoch = epoch, !.hi = Len(log)]
    /\ UNCHANGED queryFrame

\* Mutant: the watermark of the snapshot is not compared with the facts.
QueryAnswerStale ==
    /\ up /\ query.st = "wait"
    /\ ~blocked
    /\ snap # NoSnap /\ snap.epoch = query.epoch
    /\ query' = [query EXCEPT !.st = "served", !.ans = snap]
    /\ UNCHANGED queryFrame

\* The snapshot is of the epoch read and has consumed the watermark read.
QueryAnswer ==
    /\ up /\ query.st = "wait"
    /\ ~blocked
    /\ snap # NoSnap /\ snap.epoch = query.epoch /\ snap.consumed >= query.hi
    /\ query' = [query EXCEPT !.st = "served", !.ans = snap]
    /\ UNCHANGED queryFrame

\* A block, a stopped worker or the deadline fails the request; a served one
\* ends.
QueryEnd ==
    /\ up /\ query.st # "idle"
    /\ query' = NoQuery
    /\ UNCHANGED queryFrame

Next ==
    \/ FactCommit \/ FactRetract \/ ReplaceFacts
    \/ Start \/ StartupSweep \/ Crash
    \/ Worker \/ WorkerFault \/ RetryClean \/ RetryClear
    \/ PrepareBegin \/ PrepareTimeout \/ Coordinator
    \/ QueryBegin \/ QueryAnswer \/ QueryEnd

Spec == Init /\ [][Next]_vars

\* The worker thread polls for ever, the server runs its startup sweep, and
\* the coordinator's control thread finishes the recovery it began.  Nobody
\* owes a query, a commit, a retry or a maintenance round.
FairSpec ==
    /\ Spec
    /\ WF_vars(Worker)
    /\ WF_vars(StartupSweep)
    /\ WF_vars(Reopen \/ Invalidate \/ InvalidateDrop \/ RequestRebuild)

-----------------------------------------------------------------------------
(* Properties.                                                             *)

\* The program states of the fact store, the derived root, the machine, its
\* worker and the coordinator.
TypeOK ==
    /\ epoch \in 1..MaxEpoch /\ log \in Seq(Change) /\ Len(log) <= MaxLog
    /\ gens \subseteq Gen
    /\ staging \subseteq
         [gen : Gen, status : {"running", "blocked", "discarded"}]
    /\ DOMAIN ckpt \subseteq Gen
    /\ \A p \in DOMAIN ckpt : ckpt[p] \in Checkpoint \cup {NoFile}
    /\ gen \in Gen \cup {NoGen} /\ path \in Gen
    /\ mirror \in [consumed : -1..MaxLog, rows : SUBSET Commits,
                   tombs : SUBSET Commits]
    /\ snap \in [epoch : 0..MaxEpoch, consumed : -1..MaxLog,
                 active : SUBSET Commits]
    /\ pending \in 0..MaxEpoch /\ prepEpoch \in 0..MaxEpoch
    /\ wk.pc \in {"loop", "identity", "changes", "write", "publish",
                  "republish", "block", "blockset", "rebuild", "build",
                  "rename", "install", "complete", "sweep"}
    /\ coord \in {"serving", "stopping", "prepared", "invalidating",
                  "dropping", "requesting", "catching_up", "blocked"}
    /\ query.st \in {"idle", "wait", "served"}
    /\ <<up, sweepDue, blocked, refused, stop, idle, retrying, spanned, registered>>
         \in BOOLEAN \X BOOLEAN \X BOOLEAN \X BOOLEAN \X BOOLEAN \X BOOLEAN \X BOOLEAN
             \X BOOLEAN \X BOOLEAN

\* "never a stale-watermark success" (ensure_caught_up): an answer covers the
\* watermark its request read, and its event set is the facts' own active set
\* at the snapshot's watermark, whatever crashed, failed or was replaced on
\* the way.
ServedExact ==
    query.st = "served" =>
        /\ query.ans.epoch = query.epoch
        /\ query.ans.consumed >= query.hi
        /\ query.epoch = epoch => query.ans.active = Active(log, query.ans.consumed)

\* A checkpoint the constructor would accept projects to the facts' active
\* set at its watermark: the blocked branch of the constructor loads it
\* without _verify_snapshot_vs_facts.
CheckpointSound ==
    \A p \in DOMAIN ckpt :
        LET c == ckpt[p]
        IN  c # NoFile /\ c.epoch = epoch /\ c.base.epoch = epoch =>
                /\ c.consumed <= Len(log)
                /\ Snapshot(c.base, MirrorOf(c)).active = Active(log, c.consumed)

\* retry() deletes the diagnosis record before it clears the block, and the
\* worker writes the record before it sets it: without an I/O fault, and
\* unless a rebuild ran inside the retry, no checkpoint keeps a diagnosis of
\* a block the machine has cleared, which would block the next start again.
DiagnosisCurrent ==
    (up /\ faults = 0 /\ ~spanned /\ wk.pc # "blockset" /\ Accepts(FileAt(path), gen)
        /\ FileAt(path).blocked) => blocked

\* Within one process the published watermark of the store's current epoch
\* never goes back from one snapshot to the next.
WatermarkMonotone ==
    [][(/\ up /\ up' /\ snap # NoSnap /\ snap' # NoSnap
        /\ snap.epoch = epoch /\ snap'.epoch = epoch)
         => snap'.consumed >= snap.consumed]_vars

\* What keeps the worker from the facts: it is parked by a stop or a block,
\* the load was refused, its checkpoint directory was swept away, or a
\* generation or staging directory of the target is in the builder's way.
Halted ==
    \/ ~up \/ stop \/ blocked \/ refused
    \/ snap # NoSnap /\ path \notin DOMAIN ckpt
    \/ At("build") /\ ~TargetFree

Current == snap.epoch = epoch /\ snap.consumed >= Len(log)

\* The worker keeps catching up (ensure_caught_up only waits for it): from
\* every state, over crashes, failed cycles, aborted builds and replaced
\* stores, the published snapshot reaches the facts unless the worker is
\* halted.
CatchesUp == []<>(Current \/ Halted)

\* "never the active" (retention_sweep): once the daemon is up, the generation
\* it serves is still in the derived root.
ServedGenerationKept ==
    (up /\ ~sweepDue /\ wk.pc \in {"loop", "identity", "changes", "write"}
        /\ snap # NoSnap /\ snap.epoch = epoch) => gen \in gens

\* "Callers must quiesce the worker first (maintenance prepare does)":
\* derived state is only discarded under a parked worker.
InvalidateQuiesced ==
    coord \in {"invalidating", "dropping"} => stop /\ wk = Loop

\* rebuild "publishes the new base snapshot and then calls
\* complete(target_epoch)": a recovery that waits for the rebuild ends.
RecoveryCompletes ==
    coord = "catching_up" ~> (coord # "catching_up" \/ Halted)
=============================================================================
